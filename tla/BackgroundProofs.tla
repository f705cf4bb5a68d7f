-------------------------- MODULE BackgroundProofs --------------------------
(* Theorems about the two loops that run besides the handlers: Certificates, *)
(* for every lifetime, every renewal window within it and every bound on the *)
(* clock and on the faults, and DynamicDNS, for any domains and addresses    *)
(* and every bound on what happens to them.                                  *)
EXTENDS Certificates, DynamicDNS, FiniteSetTheorems, TLAPS

-----------------------------------------------------------------------------
(* Certificates *)

(***************************************************************************)
(* The inductive invariant: the types, the account, the two files, and the *)
(* clock.  Each of the last three is a property of the runs told for every *)
(* step of EnsureCert and RenewLoop, not only for a goroutine that sleeps. *)
(***************************************************************************)
Working == {"account", "register", "obtain", "cert", "key", "serve"}

Saving == {"cert", "key", "serve"}

CertRecord == [issuer : {"none", "self", "acme"}, no : Nat, expires : 0..(MaxTime + Lifetime)]

StateTyped ==
    /\ pc \in {"off", "start", "loop"} \cup Working
    /\ now \in 0..MaxTime
    /\ made \in Nat /\ faults \in Nat
    /\ failedAt \in (0..MaxTime) \cup {Never}
    /\ {keyFile, accountKey, accountReg, user} \subseteq 0..made

FlagsTyped == resource \in BOOLEAN /\ renewing \in BOOLEAN /\ legoRenews \in BOOLEAN

CertsTyped ==
    /\ {served, fresh, certFile} \subseteq CertRecord
    /\ certFile.issuer # "self"
    /\ fresh # None <=> pc \in Saving
    /\ pc \in Saving => fresh.no \in 0..made

\* A registration is of the key on disk, and is asked for with it.
AccountHeld ==
    /\ ~keyLost /\ accountReg # Torn => accountKey = accountReg
    /\ pc = "register" => user # Torn
    /\ pc = "register" /\ ~keyLost => user = accountKey

\* What is served is what the files hold until saveCert begins; from then on
\* they hold, file by file, what will be served.
FilesHeld ==
    /\ pc \in {"loop", "account", "register", "obtain", "cert"} =>
           (served.issuer = "acme" /\ ~tornPair => certFile = served /\ keyFile = served.no)
    /\ pc \in {"key", "serve"} => certFile = fresh
    /\ pc = "serve" => keyFile = fresh.no

\* Before the first certificate there is none in memory, and a failure of
\* this goroutine falls back to a self-signed one.
StartHeld ==
    /\ pc = "start" => starting
    /\ pc = "loop" => ~starting
    /\ pc \in {"off", "start"} \/ (pc \in Working /\ starting) => served = None
    /\ pc = "loop" \/ (pc \in Working /\ ~starting) => served # None

\* The failure that explains a certificate near its end.
Excused == failedAt # Never /\ failedAt + Window >= served.expires

\* A renewal is under way only in the window, and a look at the certificate
\* leaves Window to come or a failure; one unit of time later Window - 1.
ClockHeld ==
    /\ pc \in Working /\ ~starting => served.expires < now + Window
    /\ pc \in Saving => fresh.issuer = "acme" /\ fresh.expires = now + Lifetime
    /\ pc = "loop" /\ checked => served.expires >= now + Window \/ Excused
    /\ pc = "loop" => served.expires + 1 >= now + Window \/ Excused

CertInv ==
    /\ StateTyped /\ FlagsTyped /\ CertsTyped
    /\ AccountHeld /\ FilesHeld /\ StartHeld /\ ClockHeld

-----------------------------------------------------------------------------
\* What CertAssumption says of the constants.
LEMMA ConstantsAreNaturals ==
    Lifetime \in Nat /\ MaxTime \in Nat /\ Window \in Nat /\ 1 < Window /\ Window < Lifetime
BY CertAssumption

\* What the steps use of certificates.
LEMMA CertFacts ==
    /\ None \in CertRecord /\ None.issuer = "none" /\ None.expires = 0
    /\ \A cert \in CertRecord :
           /\ cert.issuer \in {"none", "self", "acme"}
           /\ cert.no \in Nat /\ cert.expires \in Nat
BY ConstantsAreNaturals DEF None, CertRecord

\* A certificate that is issued has all its lifetime before it.
LEMMA IssuedTyped ==
    ASSUME NEW issuer \in {"self", "acme"}, NEW no \in Nat, NEW t \in 0..MaxTime
    PROVE  LET cert == [issuer |-> issuer, no |-> no, expires |-> t + Lifetime]
           IN  /\ cert \in CertRecord /\ cert # None
               /\ cert.issuer = issuer /\ cert.expires = t + Lifetime
<1>1. t + Lifetime \in 0..(MaxTime + Lifetime)
  BY ConstantsAreNaturals
<1> QED BY <1>1, CertFacts DEF CertRecord

\* The first start finds no file.
LEMMA CertInitHolds == CertInit => CertInv
<1> SUFFICES ASSUME CertInit PROVE CertInv
  OBVIOUS
<1> USE ConstantsAreNaturals, CertFacts DEF CertInit
<1>1. StateTyped
  BY CertAssumption DEF StateTyped, Torn, Never
<1>2. CertsTyped
  BY DEF CertsTyped, Saving
<1>3. AccountHeld
  BY DEF AccountHeld
<1>4. FilesHeld
  BY DEF FilesHeld
<1>5. StartHeld
  BY DEF StartHeld, Working
<1>6. ClockHeld
  BY DEF ClockHeld, Working, Saving
<1>7. FlagsTyped
  BY DEF FlagsTyped
<1> QED BY <1>1, <1>2, <1>3, <1>4, <1>5, <1>6, <1>7 DEF CertInv

\* EnsureCert serves what is stored if that is valid, else what it can get.
LEMMA EnsureCertKeeps == ASSUME CertInv, EnsureCert PROVE CertInv'
<1> USE ConstantsAreNaturals, CertFacts, IssuedTyped
    DEF CertInv, StateTyped, FlagsTyped, CertsTyped, AccountHeld, FilesHeld, StartHeld,
        ClockHeld, Working, Saving, Left, Never, Torn, EnsureCert, fileVars, accountVars
<1>1. CASE tryLoadExisting
  <2>1. /\ certFile.issuer = "acme" /\ keyFile = certFile.no
        /\ certFile.expires >= now + Window
    BY <1>1 DEF tryLoadExisting, Whole
  <2>2. served' = certFile /\ pc' = "loop" /\ starting' = FALSE
    BY <1>1
  <2>3. StateTyped' /\ FlagsTyped'
    BY <2>2
  <2>4. CertsTyped'
    BY <2>2
  <2>5. AccountHeld' /\ FilesHeld' /\ StartHeld'
    BY <2>1, <2>2
  <2>6. ClockHeld'
    BY <2>1, <2>2
  <2> QED BY <2>3, <2>4, <2>5, <2>6
<1>2. CASE ~tryLoadExisting
  <2>1. pc' = "account" /\ UNCHANGED <<served, starting>>
    BY <1>2
  <2>2. StateTyped' /\ FlagsTyped'
    BY <2>1
  <2>3. CertsTyped'
    BY <2>1
  <2>4. AccountHeld' /\ FilesHeld' /\ StartHeld' /\ ClockHeld'
    BY <2>1
  <2> QED BY <2>2, <2>3, <2>4
<1> QED BY <1>1, <1>2

\* RenewLoop looks at what is served, not at the files.
LEMMA CheckKeeps == ASSUME CertInv, Check PROVE CertInv'
<1> USE ConstantsAreNaturals, CertFacts, IssuedTyped
    DEF CertInv, StateTyped, CertsTyped, Working, Saving, Fault, Left, Never, Torn,
        Check, renewalDue, fileVars, renewVars, accountVars
<1>1. StateTyped'
  BY DEF StartHeld, ClockHeld
<1>2. CertsTyped'
  BY DEF StartHeld, ClockHeld
<1>3. AccountHeld'
  BY DEF AccountHeld
<1>4. FilesHeld'
  BY DEF FilesHeld
<1>5. StartHeld'
  BY DEF StartHeld
<1>6. ClockHeld'
  BY DEF ClockHeld, StartHeld, Excused
<1>7. FlagsTyped'
  BY DEF FlagsTyped
<1> QED BY <1>1, <1>2, <1>3, <1>4, <1>5, <1>6, <1>7

\* The account's key is read, or a new one made and written.
LEMMA LoadAccountKeeps == ASSUME CertInv, LoadAccount PROVE CertInv'
<1> USE ConstantsAreNaturals, CertFacts, IssuedTyped
    DEF CertInv, StateTyped, CertsTyped, Working, Saving, Fault, Left, Never, Torn,
        LoadAccount, KeyIsReadable, fileVars, renewVars, accountVars
<1>1. StateTyped'
  BY DEF StartHeld, ClockHeld
<1>2. CertsTyped'
  BY DEF StartHeld, ClockHeld
<1>3. AccountHeld'
  BY DEF AccountHeld
<1>4. FilesHeld'
  BY DEF FilesHeld
<1>5. StartHeld'
  BY DEF StartHeld
<1>6. ClockHeld'
  BY DEF ClockHeld, StartHeld, Excused
<1>7. FlagsTyped'
  BY DEF FlagsTyped
<1> QED BY <1>1, <1>2, <1>3, <1>4, <1>5, <1>6, <1>7

\* The registration is written for the key in use.
LEMMA RegisterKeeps == ASSUME CertInv, Register PROVE CertInv'
<1> USE ConstantsAreNaturals, CertFacts, IssuedTyped
    DEF CertInv, StateTyped, CertsTyped, Working, Saving, Fault, Left, Never, Torn,
        Register, GiveUp, fileVars, renewVars, accountVars
<1>1. StateTyped'
  BY DEF StartHeld, ClockHeld
<1>2. CertsTyped'
  BY DEF StartHeld, ClockHeld
<1>3. AccountHeld'
  BY DEF AccountHeld
<1>4. FilesHeld'
  BY DEF FilesHeld
<1>5. StartHeld'
  BY DEF StartHeld
<1>6. ClockHeld'
  BY DEF ClockHeld, StartHeld, Excused
<1>7. FlagsTyped'
  BY DEF FlagsTyped
<1> QED BY <1>1, <1>2, <1>3, <1>4, <1>5, <1>6, <1>7

\* A certificate obtained is held until both files are written.
LEMMA ObtainKeeps == ASSUME CertInv, Obtain PROVE CertInv'
<1> USE ConstantsAreNaturals, CertFacts, IssuedTyped
    DEF CertInv, StateTyped, CertsTyped, Working, Saving, Fault, Left, Never, Torn,
        Obtain, GiveUp, fileVars, renewVars, accountVars
<1>1. StateTyped'
  BY DEF StartHeld, ClockHeld
<1>2. CertsTyped'
  BY DEF StartHeld, ClockHeld
<1>3. AccountHeld'
  BY DEF AccountHeld
<1>4. FilesHeld'
  BY DEF FilesHeld
<1>5. StartHeld'
  BY DEF StartHeld
<1>6. ClockHeld'
  BY DEF ClockHeld, StartHeld, Excused
<1>7. FlagsTyped'
  BY DEF FlagsTyped
<1> QED BY <1>1, <1>2, <1>3, <1>4, <1>5, <1>6, <1>7

\* Between the two writes a certificate stands without its key.
LEMMA SaveCertKeeps == ASSUME CertInv, SaveCert PROVE CertInv'
<1> USE ConstantsAreNaturals, CertFacts, IssuedTyped
    DEF CertInv, StateTyped, CertsTyped, Working, Saving, Fault, Left, Never, Torn,
        SaveCert, WriteFails, GiveUp, fileVars, renewVars, accountVars
<1>1. StateTyped'
  BY DEF StartHeld, ClockHeld
<1>2. CertsTyped'
  BY DEF StartHeld, ClockHeld
<1>3. AccountHeld'
  BY DEF AccountHeld
<1>4. FilesHeld'
  BY DEF FilesHeld
<1>5. StartHeld'
  BY DEF StartHeld
<1>6. ClockHeld'
  BY DEF ClockHeld, StartHeld, Excused
<1>7. FlagsTyped'
  BY DEF FlagsTyped
<1> QED BY <1>1, <1>2, <1>3, <1>4, <1>5, <1>6, <1>7

\* After the second write the pair on disk is the one obtained.
LEMMA SaveKeyKeeps == ASSUME CertInv, SaveKey PROVE CertInv'
<1> USE ConstantsAreNaturals, CertFacts, IssuedTyped
    DEF CertInv, StateTyped, CertsTyped, Working, Saving, Fault, Left, Never, Torn,
        SaveKey, WriteFails, GiveUp, writtenKey, fileVars, renewVars, accountVars
<1>1. StateTyped'
  BY DEF StartHeld, ClockHeld
<1>2. CertsTyped'
  BY DEF StartHeld, ClockHeld
<1>3. AccountHeld'
  BY DEF AccountHeld
<1>4. FilesHeld'
  BY DEF FilesHeld
<1>5. StartHeld'
  BY DEF StartHeld
<1>6. ClockHeld'
  BY DEF ClockHeld, StartHeld, Excused
<1>7. FlagsTyped'
  BY DEF FlagsTyped
<1> QED BY <1>1, <1>2, <1>3, <1>4, <1>5, <1>6, <1>7

\* After both writes, what is on disk is served.
LEMMA ServeKeeps == ASSUME CertInv, Serve PROVE CertInv'
<1> USE ConstantsAreNaturals, CertFacts, IssuedTyped
    DEF CertInv, StateTyped, CertsTyped, Working, Saving, Fault, Left, Never, Torn,
        Serve, fileVars, renewVars, accountVars
<1>1. StateTyped'
  <2>1. faults' \in Nat
    <3>1. CASE faults' = faults
      BY <3>1
    <3>2. CASE Fault
      BY <3>2
    <3> QED BY <3>1, <3>2
  <2>2. UNCHANGED <<now, made, failedAt, keyFile, accountKey, accountReg, user>> /\ pc' = "loop"
    OBVIOUS
  <2> QED BY <2>1, <2>2
<1>2. CertsTyped'
  BY DEF StartHeld, ClockHeld
<1>3. AccountHeld'
  BY DEF AccountHeld
<1>4. FilesHeld'
  BY DEF FilesHeld
<1>5. StartHeld'
  BY DEF StartHeld
<1>6. ClockHeld'
  BY DEF ClockHeld, StartHeld, Excused
<1>7. FlagsTyped'
  BY DEF FlagsTyped
<1> QED BY <1>1, <1>2, <1>3, <1>4, <1>5, <1>6, <1>7

\* Time passes only when RenewLoop has looked, or while Lantern is off.
LEMMA TickKeeps == ASSUME CertInv, Tick PROVE CertInv'
<1> USE ConstantsAreNaturals, CertFacts, IssuedTyped
    DEF CertInv, StateTyped, CertsTyped, Working, Saving, Fault, Left, Never, Torn,
        Tick, fileVars, renewVars, accountVars
<1>1. StateTyped'
  BY DEF StartHeld, ClockHeld
<1>2. CertsTyped'
  BY DEF StartHeld, ClockHeld
<1>3. AccountHeld'
  BY DEF AccountHeld
<1>4. FilesHeld'
  BY DEF FilesHeld
<1>5. StartHeld'
  BY DEF StartHeld
<1>6. ClockHeld'
  BY DEF ClockHeld, StartHeld, Excused
<1>7. FlagsTyped'
  BY DEF FlagsTyped
<1> QED BY <1>1, <1>2, <1>3, <1>4, <1>5, <1>6, <1>7

\* The files stay as they are, half a pair included.
LEMMA CrashKeeps == ASSUME CertInv, Crash PROVE CertInv'
<1> USE ConstantsAreNaturals, CertFacts, IssuedTyped
    DEF CertInv, StateTyped, CertsTyped, Working, Saving, Fault, Left, Never, Torn,
        Crash, fileVars, renewVars, accountVars
<1>1. StateTyped'
  BY DEF StartHeld, ClockHeld
<1>2. CertsTyped'
  BY DEF StartHeld, ClockHeld
<1>3. AccountHeld'
  BY DEF AccountHeld
<1>4. FilesHeld'
  BY DEF FilesHeld
<1>5. StartHeld'
  BY DEF StartHeld
<1>6. ClockHeld'
  BY DEF ClockHeld, StartHeld, Excused
<1>7. FlagsTyped'
  BY DEF FlagsTyped
<1> QED BY <1>1, <1>2, <1>3, <1>4, <1>5, <1>6, <1>7

\* A start reads the files of the run before.
LEMMA StartKeeps == ASSUME CertInv, Start PROVE CertInv'
<1> USE ConstantsAreNaturals, CertFacts, IssuedTyped
    DEF CertInv, StateTyped, CertsTyped, Working, Saving, Fault, Left, Never, Torn,
        Start, fileVars, renewVars, accountVars
<1>1. StateTyped'
  BY DEF StartHeld, ClockHeld
<1>2. CertsTyped'
  BY DEF StartHeld, ClockHeld
<1>3. AccountHeld'
  BY DEF AccountHeld
<1>4. FilesHeld'
  BY DEF FilesHeld
<1>5. StartHeld'
  BY DEF StartHeld
<1>6. ClockHeld'
  BY DEF ClockHeld, StartHeld, Excused
<1>7. FlagsTyped'
  BY DEF FlagsTyped
<1> QED BY <1>1, <1>2, <1>3, <1>4, <1>5, <1>6, <1>7

-----------------------------------------------------------------------------
\* Every step of EnsureCert, RenewLoop, the clock and a crash keeps it.
THEOREM CertInvariant == CertSpec => []CertInv
<1>1. CertInv /\ UNCHANGED certVars => CertInv'
  BY DEF CertInv, StateTyped, FlagsTyped, CertsTyped, AccountHeld, FilesHeld, StartHeld,
         ClockHeld, Excused, certVars, fileVars, renewVars, accountVars, None, Torn, Never
<1>2. CertInv /\ [CertNext]_certVars => CertInv'
  BY <1>1, EnsureCertKeeps, CheckKeeps, LoadAccountKeeps, RegisterKeeps, ObtainKeeps,
     SaveCertKeeps, SaveKeyKeeps, ServeKeeps, TickKeeps, CrashKeeps, StartKeeps
     DEF CertNext
<1> QED BY CertInitHolds, <1>2, PTL DEF CertSpec

-----------------------------------------------------------------------------
\* Every variable keeps its type.
THEOREM CertificatesTyped == CertSpec => []CertTypeOK
<1>1. CertInv => CertTypeOK
  BY ConstantsAreNaturals
     DEF CertInv, StateTyped, FlagsTyped, CertsTyped, CertRecord, Working, Saving, CertTypeOK
<1> QED BY CertInvariant, <1>1, PTL

\* RenewLoop: while HTTPS is served there is a certificate, and one that has
\* expired had a renewal fail in its last Window.
THEOREM ServesValid == CertSpec => []ServedIsValid
<1>1. CertInv => ServedIsValid
  <2> SUFFICES ASSUME CertInv, pc = "loop", Left(served) = 0
               PROVE  failedAt # Never /\ failedAt + Window > served.expires - 1
    BY DEF CertInv, StartHeld, ServedIsValid, Listening
  <2>1. served \in CertRecord /\ served.expires \in Nat /\ now \in Nat
    BY CertFacts DEF CertInv, CertsTyped, StateTyped
  <2>2. served.expires <= now
    BY <2>1 DEF Left
  <2>3. ~(served.expires + 1 >= now + Window)
    BY <2>1, <2>2, ConstantsAreNaturals
  <2>4. Excused /\ failedAt \in Nat
    BY <2>3, ConstantsAreNaturals DEF CertInv, ClockHeld, StateTyped, Never
  <2> QED BY <2>1, <2>4, ConstantsAreNaturals DEF Excused
<1> QED BY CertInvariant, <1>1, PTL

\* saveCert: the certificate in use is the one the next start loads, whole
\* and with its own key, unless writing it failed.
THEOREM RestartKeeps == CertSpec => []RestartKeepsCertificate
<1>1. CertInv => RestartKeepsCertificate
  BY DEF CertInv, FilesHeld, RestartKeepsCertificate, Listening
<1> QED BY CertInvariant, <1>1, PTL

\* loadOrCreateUser: the key on disk is the one that was registered, unless
\* writing it failed.
THEOREM AccountStays == CertSpec => []AccountMatches
<1>1. CertInv => AccountMatches
  BY DEF CertInv, AccountHeld, AccountMatches
<1> QED BY CertInvariant, <1>1, PTL

-----------------------------------------------------------------------------
(* DynamicDNS *)

(***************************************************************************)
(* The inductive invariant.  ZoneFollowsList says nothing of a domain while *)
(* a poll or a request works on it; the invariant says what its record is  *)
(* until the poll has come to it, from then on, and while a request waits. *)
(***************************************************************************)
Addresses == IP \cup {NoIP}

\* The records of a domain that has the address ip.
RecordOf(ip) == IF ip = NoIP THEN {} ELSE {ip}

\* What the poll has still to update.
Pending == poll.todo \cup poll.domain

Followed == Domain \ hit.lost

ListsTyped ==
    /\ lineIP \in IP
    /\ mem \in [domains : SUBSET Domain, publicIP : Addresses]
    /\ saved \in [domains : SUBSET Domain, publicIP : Addresses]
    /\ zone \in [Domain -> SUBSET IP]
    /\ hit \in [lost : SUBSET Domain, ahead : SUBSET Domain]

WorkTyped ==
    /\ poll \in [at : {"wait", "ip", "find", "write"}, todo : SUBSET Domain, ip : Addresses,
                 domain : SUBSET Domain, current : Addresses]
    /\ poll.at = "write" <=> poll.domain # {}
    /\ poll.todo \cap poll.domain = {}
    /\ request \in [op : {"none", "add", "remove"}, domain : SUBSET Domain, ip : Addresses]
    /\ request.op = "none" => request.domain = {}

\* The store has the address the poll publishes; config.json has it when the
\* poll has ended.
AddressHeld ==
    /\ Updating => poll.ip = mem.publicIP /\ poll.ip \in IP
    /\ ~Updating => saved.publicIP = mem.publicIP

OneRecord == \A d \in Followed : \A ip1, ip2 \in zone[d] : ip1 = ip2

OffListHeld ==
    \A d \in Followed : d \notin mem.domains \cup request.domain => zone[d] = {}

\* A domain the poll has read is on the list, and no request works on it once
\* the poll writes.
PendingHeld ==
    \A d \in Followed \cap Pending :
        /\ d \in mem.domains
        /\ Updating => d \notin request.domain

\* Between polls every record has the stored address; during one, those the
\* poll has done have it, and the others the one that is on disk.
OnListHeld ==
    \A d \in Followed : d \in mem.domains \ request.domain =>
        /\ ~Updating /\ d \notin hit.ahead => zone[d] = RecordOf(mem.publicIP)
        /\ Updating /\ d \notin Pending => zone[d] = RecordOf(mem.publicIP)
        /\ Updating /\ d \in Pending \ hit.ahead /\ saved.publicIP # poll.ip =>
               zone[d] = RecordOf(saved.publicIP)

\* What the poll has found is still there.
FoundHeld == \A d \in Followed \cap poll.domain : zone[d] = RecordOf(poll.current)

\* A request to add has read the stored address.
RequestHeld ==
    \A d \in Followed \cap request.domain :
        /\ request.op = "add" => /\ d \in mem.domains /\ request.ip = mem.publicIP
                                 /\ zone[d] \subseteq RecordOf(mem.publicIP)
        /\ request.op = "remove" => d \notin mem.domains

DdnsInv ==
    /\ ListsTyped /\ WorkTyped /\ AddressHeld
    /\ OneRecord /\ OffListHeld /\ PendingHeld /\ OnListHeld /\ FoundHeld /\ RequestHeld

-----------------------------------------------------------------------------
\* No domain, no record, no poll.
LEMMA DdnsInitHolds == DdnsInit => DdnsInv
<1> SUFFICES ASSUME DdnsInit PROVE DdnsInv
  OBVIOUS
<1> USE DEF DdnsInit, Followed, Pending, Updating, NoPoll, NoRequest
<1>1. PICK domains \in SUBSET Domain : mem = [domains |-> domains, publicIP |-> NoIP]
  OBVIOUS
<1>2. ListsTyped /\ WorkTyped /\ AddressHeld
  BY <1>1 DEF ListsTyped, WorkTyped, AddressHeld, Addresses
<1>3. OneRecord /\ OffListHeld /\ PendingHeld
  BY DEF OneRecord, OffListHeld, PendingHeld
<1>4. OnListHeld /\ FoundHeld /\ RequestHeld
  BY <1>1 DEF OnListHeld, FoundHeld, RequestHeld, RecordOf
<1> QED BY <1>2, <1>3, <1>4 DEF DdnsInv

-----------------------------------------------------------------------------
(* The poll *)

\* The poll reads the domains.
LEMMA BeginPollKeeps ==
    ASSUME DdnsInv, BeginPoll
    PROVE  DdnsInv'
<1> USE DdnsAssumption DEF DdnsInv, Followed, Pending, Updating, Addresses
<1>1. /\ UNCHANGED <<lineIP, mem, saved, zone, request, hit>>
      /\ poll.at = "wait" /\ poll.domain = {}
      /\ poll' \in [at : {"ip"}, todo : {mem.domains}, ip : Addresses, domain : {{}},
                     current : Addresses]
  BY DEF BeginPoll, NoPoll, WorkTyped
<1>2. ListsTyped' /\ WorkTyped'
  BY <1>1 DEF ListsTyped, WorkTyped
<1>3. AddressHeld'
  BY <1>1 DEF AddressHeld
<1>4. OneRecord'
  BY <1>1 DEF OneRecord
<1>5. OffListHeld'
  BY <1>1 DEF OffListHeld
<1>6. PendingHeld'
  BY <1>1 DEF PendingHeld, AddressHeld
<1>7. OnListHeld'
  BY <1>1 DEF OnListHeld, PendingHeld, FoundHeld, RequestHeld, AddressHeld
<1>8. FoundHeld'
  BY <1>1 DEF FoundHeld
<1>9. RequestHeld'
  BY <1>1 DEF RequestHeld, OneRecord, OffListHeld,
        OnListHeld, PendingHeld, AddressHeld
<1> QED BY <1>2, <1>3, <1>4, <1>5, <1>6, <1>7, <1>8, <1>9

\* A new address is stored first; what the poll will not come to is lost.
LEMMA LearnKeeps == ASSUME DdnsInv, LearnIP PROVE DdnsInv'
<1> USE DdnsAssumption DEF DdnsInv, Followed, Pending, Updating, Addresses
<1>1. /\ UNCHANGED <<lineIP, saved, zone, request>>
      /\ poll.at = "ip" /\ poll.domain = {}
  BY DEF LearnIP, WorkTyped
<1>2. CASE poll' = NoPoll /\ mem' = mem
  <2>1. /\ hit'.ahead = hit.ahead /\ hit.lost \subseteq hit'.lost
        /\ hit' \in [lost : SUBSET Domain, ahead : SUBSET Domain]
    BY <1>1, <1>2 DEF LearnIP, Disturb, ListsTyped
  <2>2. /\ poll'.at = "wait" /\ poll'.todo = {} /\ poll'.domain = {}
        /\ poll' \in [at : {"wait"}, todo : {{}}, ip : Addresses, domain : {{}},
                       current : Addresses]
    BY <1>2 DEF NoPoll
  <2>3. ListsTyped'
    BY <1>1, <1>2, <2>1, <2>2 DEF ListsTyped
  <2>4. WorkTyped'
    BY <1>1, <1>2, <2>1, <2>2 DEF WorkTyped
  <2>5. AddressHeld'
    BY <1>1, <1>2, <2>1, <2>2 DEF AddressHeld
  <2>6. OneRecord'
    BY <1>1, <1>2, <2>1, <2>2 DEF OneRecord
  <2>7. OffListHeld'
    BY <1>1, <1>2, <2>1, <2>2 DEF OffListHeld
  <2>8. PendingHeld'
    BY <1>1, <1>2, <2>1, <2>2 DEF PendingHeld, AddressHeld
  <2>9. OnListHeld'
    BY <1>1, <1>2, <2>1, <2>2 DEF OnListHeld, PendingHeld, FoundHeld, RequestHeld, AddressHeld
  <2>10. FoundHeld'
    BY <1>1, <1>2, <2>1, <2>2 DEF FoundHeld
  <2>11. RequestHeld'
    BY <1>1, <1>2, <2>1, <2>2 DEF RequestHeld, OneRecord, OffListHeld,
        OnListHeld, PendingHeld, AddressHeld
  <2> QED BY <2>3, <2>4, <2>5, <2>6, <2>7, <2>8, <2>9, <2>10, <2>11
<1>3. CASE ~(poll' = NoPoll /\ mem' = mem)
  <2>1. /\ mem' = [mem EXCEPT !.publicIP = lineIP]
        /\ poll' = [poll EXCEPT !.at = "find", !.ip = lineIP]
        /\ hit' = [hit EXCEPT !.lost = @ \cup ((mem.domains \ poll.todo)
                                               \cup request.domain)]
    BY <1>3 DEF LearnIP, Disturb
  <2>2. /\ hit'.ahead = hit.ahead
        /\ hit'.lost = hit.lost \cup (mem.domains \ poll.todo) \cup request.domain
        /\ hit' \in [lost : SUBSET Domain, ahead : SUBSET Domain]
    BY <2>1 DEF ListsTyped, WorkTyped
  <2>3. /\ mem'.domains = mem.domains /\ mem'.publicIP = lineIP
        /\ mem' \in [domains : SUBSET Domain, publicIP : Addresses]
    BY <2>1 DEF ListsTyped
  <2>4. /\ poll'.at = "find" /\ poll'.ip = lineIP
        /\ poll'.todo = poll.todo /\ poll'.domain = {}
        /\ poll' \in [at : {"find"}, todo : SUBSET Domain, ip : Addresses,
                       domain : SUBSET Domain, current : Addresses]
    BY <1>1, <2>1 DEF ListsTyped, WorkTyped
  <2>5. ListsTyped'
    BY <1>1, <2>2, <2>3, <2>4 DEF ListsTyped
  <2>6. WorkTyped'
    BY <1>1, <2>2, <2>3, <2>4 DEF WorkTyped
  <2>7. AddressHeld'
    BY <1>1, <2>2, <2>3, <2>4 DEF AddressHeld, ListsTyped
  <2>8. OneRecord'
    BY <1>1, <2>2, <2>3, <2>4 DEF OneRecord
  <2>9. OffListHeld'
    BY <1>1, <2>2, <2>3, <2>4 DEF OffListHeld
  <2>10. PendingHeld'
    BY <1>1, <2>2, <2>3, <2>4 DEF PendingHeld, AddressHeld
  <2>11. OnListHeld'
    BY <1>1, <2>2, <2>3, <2>4 DEF OnListHeld, PendingHeld, FoundHeld, RequestHeld, AddressHeld
  <2>12. FoundHeld'
    BY <1>1, <2>2, <2>3, <2>4 DEF FoundHeld
  <2>13. RequestHeld'
    BY <1>1, <2>2, <2>3, <2>4 DEF RequestHeld, OneRecord, OffListHeld,
        OnListHeld, PendingHeld, AddressHeld
  <2> QED BY <2>5, <2>6, <2>7, <2>8, <2>9, <2>10, <2>11, <2>12, <2>13
<1> QED BY <1>2, <1>3

\* Find reads the record, which no request of a followed domain changes
\* before it is written.
LEMMA FindKeeps == ASSUME DdnsInv, NEW d \in Domain, Find(d) PROVE DdnsInv'
<1> USE DdnsAssumption DEF DdnsInv, Followed, Pending, Updating, Addresses
<1>1. /\ UNCHANGED <<lineIP, mem, saved, zone, request>>
      /\ poll.at = "find" /\ poll.domain = {} /\ d \in poll.todo
  BY DEF Find, WorkTyped
<1>2. CASE \E current \in FindRecord(d) :
               poll' = [poll EXCEPT !.todo = @ \ {d}, !.current = current,
                                    !.domain = {d}, !.at = "write"] /\ UNCHANGED hit
  <2>1. PICK current \in FindRecord(d) :
            poll' = [poll EXCEPT !.todo = @ \ {d}, !.current = current,
                                 !.domain = {d}, !.at = "write"] /\ UNCHANGED hit
    BY <1>2
  <2>2. /\ current \in Addresses
        /\ d \in Followed => zone[d] = RecordOf(current)
    BY DEF FindRecord, ListsTyped, OneRecord, RecordOf
  <2>3. /\ poll'.at = "write" /\ poll'.todo = poll.todo \ {d} /\ poll'.domain = {d}
        /\ poll'.ip = poll.ip /\ poll'.current = current
        /\ poll' \in [at : {"write"}, todo : SUBSET Domain, ip : Addresses,
                       domain : SUBSET Domain, current : Addresses]
    BY <2>1, <2>2 DEF WorkTyped
  <2>4. ListsTyped'
    BY <1>1, <2>1, <2>2, <2>3 DEF ListsTyped
  <2>5. WorkTyped'
    BY <1>1, <2>1, <2>2, <2>3 DEF WorkTyped
  <2>6. AddressHeld'
    BY <1>1, <2>1, <2>2, <2>3 DEF AddressHeld
  <2>7. OneRecord'
    BY <1>1, <2>1, <2>2, <2>3 DEF OneRecord
  <2>8. OffListHeld'
    BY <1>1, <2>1, <2>2, <2>3 DEF OffListHeld
  <2>9. PendingHeld'
    BY <1>1, <2>1, <2>2, <2>3 DEF PendingHeld, AddressHeld
  <2>10. OnListHeld'
    BY <1>1, <2>1, <2>2, <2>3 DEF OnListHeld, PendingHeld, FoundHeld, RequestHeld, AddressHeld
  <2>11. FoundHeld'
    BY <1>1, <2>1, <2>2, <2>3 DEF FoundHeld
  <2>12. RequestHeld'
    BY <1>1, <2>1, <2>2, <2>3 DEF RequestHeld, OneRecord, OffListHeld,
        OnListHeld, PendingHeld, AddressHeld
  <2> QED BY <2>4, <2>5, <2>6, <2>7, <2>8, <2>9, <2>10, <2>11, <2>12
<1>3. CASE Disturb({d}) /\ poll' = [poll EXCEPT !.todo = @ \ {d}]
  <2>1. /\ hit'.ahead = hit.ahead /\ hit'.lost = hit.lost \cup {d}
        /\ hit' \in [lost : SUBSET Domain, ahead : SUBSET Domain]
    BY <1>3 DEF Disturb, ListsTyped
  <2>2. /\ poll'.at = "find" /\ poll'.todo = poll.todo \ {d} /\ poll'.domain = {}
        /\ poll'.ip = poll.ip
        /\ poll' \in [at : {"find"}, todo : SUBSET Domain, ip : Addresses,
                       domain : SUBSET Domain, current : Addresses]
    BY <1>1, <1>3 DEF WorkTyped
  <2>3. ListsTyped'
    BY <1>1, <2>1, <2>2 DEF ListsTyped
  <2>4. WorkTyped'
    BY <1>1, <2>1, <2>2 DEF WorkTyped
  <2>5. AddressHeld'
    BY <1>1, <2>1, <2>2 DEF AddressHeld
  <2>6. OneRecord'
    BY <1>1, <2>1, <2>2 DEF OneRecord
  <2>7. OffListHeld'
    BY <1>1, <2>1, <2>2 DEF OffListHeld
  <2>8. PendingHeld'
    BY <1>1, <2>1, <2>2 DEF PendingHeld, AddressHeld
  <2>9. OnListHeld'
    BY <1>1, <2>1, <2>2 DEF OnListHeld, PendingHeld, FoundHeld, RequestHeld, AddressHeld
  <2>10. FoundHeld'
    BY <1>1, <2>1, <2>2 DEF FoundHeld
  <2>11. RequestHeld'
    BY <1>1, <2>1, <2>2 DEF RequestHeld, OneRecord, OffListHeld,
        OnListHeld, PendingHeld, AddressHeld
  <2> QED BY <2>3, <2>4, <2>5, <2>6, <2>7, <2>8, <2>9, <2>10, <2>11
<1> QED BY <1>2, <1>3 DEF Find

\* What write leaves: the new address alone, if the record is as it was found.
LEMMA WriteEffect ==
    ASSUME DdnsInv, NEW d \in Domain, poll.at = "write", poll.domain = {d}, write(d)
    PROVE  /\ zone' \in [Domain -> SUBSET IP]
           /\ \A e \in Domain \ {d} : zone'[e] = zone[e]
           /\ d \in Followed => zone'[d] = {poll.ip}
<1>1. poll.ip \in IP /\ zone \in [Domain -> SUBSET IP]
  BY DEF DdnsInv, AddressHeld, Updating, ListsTyped
<1>2. d \in Followed => zone[d] = RecordOf(poll.current)
  BY DEF DdnsInv, FoundHeld
<1>3. CASE poll.current = NoIP
  BY <1>1, <1>2, <1>3 DEF write, CreateRecord, RecordOf
<1>4. CASE poll.current # NoIP
  BY <1>1, <1>2, <1>4 DEF write, UpdateRecord, RecordOf
<1> QED BY <1>3, <1>4

\* The record is written, or the domain is lost.
LEMMA WriteKeeps == ASSUME DdnsInv, NEW d \in Domain, Write(d) PROVE DdnsInv'
<1> USE DdnsAssumption DEF DdnsInv, Followed, Pending, Updating, Addresses
<1>1. /\ UNCHANGED <<lineIP, mem, saved, request>>
      /\ poll.at = "write" /\ poll.domain = {d}
  BY DEF Write
<1>2. /\ poll'.at = "find" /\ poll'.todo = poll.todo /\ poll'.domain = {}
      /\ poll'.ip = poll.ip
      /\ poll' \in [at : {"find"}, todo : SUBSET Domain, ip : Addresses,
                     domain : SUBSET Domain, current : Addresses]
  BY DEF Write, WorkTyped
<1>3. /\ zone' \in [Domain -> SUBSET IP]
      /\ \A e \in Domain \ {d} : zone'[e] = zone[e]
      /\ d \in Domain \ hit'.lost => zone'[d] = {poll.ip}
      /\ hit'.ahead = hit.ahead /\ hit.lost \subseteq hit'.lost
      /\ hit' \in [lost : SUBSET Domain, ahead : SUBSET Domain]
  <2>1. CASE write(d) /\ UNCHANGED hit
    BY <1>1, <2>1, WriteEffect DEF ListsTyped
  <2>2. CASE Disturb({d}) /\ UNCHANGED zone
    BY <2>2 DEF Disturb, ListsTyped
  <2> QED BY <2>1, <2>2 DEF Write
<1>4. RecordOf(mem.publicIP) = {poll.ip}
  BY <1>1 DEF AddressHeld, RecordOf
<1>5. ListsTyped'
  BY <1>1, <1>2, <1>3, <1>4 DEF ListsTyped
<1>6. WorkTyped'
  BY <1>1, <1>2, <1>3, <1>4 DEF WorkTyped
<1>7. AddressHeld'
  BY <1>1, <1>2, <1>3, <1>4 DEF AddressHeld
<1>8. OneRecord'
  BY <1>1, <1>2, <1>3, <1>4 DEF OneRecord
<1>9. OffListHeld'
  BY <1>1, <1>2, <1>3, <1>4 DEF OffListHeld, PendingHeld
<1>10. PendingHeld'
  BY <1>1, <1>2, <1>3, <1>4 DEF PendingHeld, AddressHeld
<1>11. OnListHeld'
  <2> SUFFICES ASSUME NEW e \in Domain \ hit'.lost, e \in mem.domains \ request.domain
               PROVE  /\ e \notin poll'.todo => zone'[e] = RecordOf(mem.publicIP)
                      /\ e \in poll'.todo \ hit.ahead /\ saved.publicIP # poll.ip =>
                             zone'[e] = RecordOf(saved.publicIP)
    BY <1>1, <1>2, <1>3 DEF OnListHeld
  <2>1. CASE e = d
    BY <1>1, <1>2, <1>3, <1>4, <2>1 DEF WorkTyped
  <2>2. CASE e # d
    BY <1>1, <1>2, <1>3, <2>2 DEF OnListHeld
  <2> QED BY <2>1, <2>2
<1>12. FoundHeld'
  BY <1>1, <1>2, <1>3, <1>4 DEF FoundHeld
<1>13. RequestHeld'
  BY <1>1, <1>2, <1>3, <1>4 DEF RequestHeld, OneRecord, OffListHeld,
        OnListHeld, PendingHeld, AddressHeld
<1> QED BY <1>5, <1>6, <1>7, <1>8, <1>9, <1>10, <1>11, <1>12, <1>13

\* All records have the new address when it is saved.
LEMMA EndKeeps == ASSUME DdnsInv, EndPoll PROVE DdnsInv'
<1> USE DdnsAssumption DEF DdnsInv, Followed, Pending, Updating, Addresses
<1>1. /\ UNCHANGED <<lineIP, mem, zone, request>> /\ saved' = mem
      /\ poll.at = "find" /\ poll.todo = {} /\ poll.domain = {}
  BY DEF EndPoll, WorkTyped
<1>2. /\ poll'.at = "wait" /\ poll'.todo = {} /\ poll'.domain = {}
      /\ poll' \in [at : {"wait"}, todo : {{}}, ip : Addresses, domain : {{}},
                     current : Addresses]
  BY DEF EndPoll, NoPoll
<1>3. /\ hit'.ahead = {} /\ hit'.lost = hit.lost
      /\ hit' \in [lost : SUBSET Domain, ahead : SUBSET Domain]
  BY DEF EndPoll, ListsTyped
<1>4. ListsTyped'
  BY <1>1, <1>2, <1>3 DEF ListsTyped
<1>5. WorkTyped'
  BY <1>1, <1>2, <1>3 DEF WorkTyped
<1>6. AddressHeld'
  BY <1>1, <1>2, <1>3 DEF AddressHeld
<1>7. OneRecord'
  BY <1>1, <1>2, <1>3 DEF OneRecord
<1>8. OffListHeld'
  BY <1>1, <1>2, <1>3 DEF OffListHeld
<1>9. PendingHeld'
  BY <1>1, <1>2, <1>3 DEF PendingHeld, AddressHeld
<1>10. OnListHeld'
  BY <1>1, <1>2, <1>3 DEF OnListHeld, PendingHeld, FoundHeld, RequestHeld, AddressHeld
<1>11. FoundHeld'
  BY <1>1, <1>2, <1>3 DEF FoundHeld
<1>12. RequestHeld'
  BY <1>1, <1>2, <1>3 DEF RequestHeld, OneRecord, OffListHeld,
        OnListHeld, PendingHeld, AddressHeld
<1> QED BY <1>4, <1>5, <1>6, <1>7, <1>8, <1>9, <1>10, <1>11, <1>12

-----------------------------------------------------------------------------
(* Requests *)

\* addDDNS reads the stored address; what a poll or a restart may be about to
\* overwrite is lost.
LEMMA BeginAddKeeps == ASSUME DdnsInv, NEW d \in Domain, BeginAdd(d) PROVE DdnsInv'
<1> USE DdnsAssumption DEF DdnsInv, Followed, Pending, Updating, Addresses
<1>1. /\ UNCHANGED <<lineIP, saved, zone, poll>>
      /\ request.domain = {}
      /\ mem'.domains = mem.domains \cup {d} /\ mem'.publicIP = mem.publicIP
      /\ mem' \in [domains : SUBSET Domain, publicIP : Addresses]
  BY DEF BeginAdd, ListsTyped, WorkTyped
<1>2. /\ request'.op = "add" /\ request'.domain = {d} /\ request'.ip = mem.publicIP
      /\ request' \in [op : {"none", "add", "remove"}, domain : SUBSET Domain, ip : Addresses]
  BY DEF BeginAdd, ListsTyped
<1>3. /\ hit'.ahead = hit.ahead
      /\ hit'.lost = hit.lost \cup ({d} \cap (poll.todo \cup poll.domain \cup hit.ahead))
      /\ hit' \in [lost : SUBSET Domain, ahead : SUBSET Domain]
  BY DEF BeginAdd, Disturb, ListsTyped
<1>4. ListsTyped'
  BY <1>1, <1>2, <1>3 DEF ListsTyped
<1>5. WorkTyped'
  BY <1>1, <1>2, <1>3 DEF WorkTyped
<1>6. AddressHeld'
  BY <1>1, <1>2, <1>3 DEF AddressHeld
<1>7. OneRecord'
  BY <1>1, <1>2, <1>3 DEF OneRecord
<1>8. OffListHeld'
  BY <1>1, <1>2, <1>3 DEF OffListHeld
<1>9. PendingHeld'
  BY <1>1, <1>2, <1>3 DEF PendingHeld, AddressHeld
<1>10. OnListHeld'
  BY <1>1, <1>2, <1>3 DEF OnListHeld, PendingHeld, FoundHeld, RequestHeld, AddressHeld
<1>11. FoundHeld'
  BY <1>1, <1>2, <1>3 DEF FoundHeld
<1>12. RequestHeld'
  BY <1>1, <1>2, <1>3 DEF RequestHeld, OneRecord, OffListHeld,
        OnListHeld, PendingHeld, AddressHeld
<1> QED BY <1>4, <1>5, <1>6, <1>7, <1>8, <1>9, <1>10, <1>11, <1>12

\* addDDNS creates the record, or the domain is lost.
LEMMA FinishAddKeeps == ASSUME DdnsInv, NEW d \in Domain, FinishAdd(d) PROVE DdnsInv'
<1> USE DdnsAssumption DEF DdnsInv, Followed, Pending, Updating, Addresses
<1>1. /\ UNCHANGED <<lineIP, mem, poll>> /\ saved' = mem
      /\ request.op = "add" /\ request.domain = {d}
  BY DEF FinishAdd
<1>2. /\ request'.op = "none" /\ request'.domain = {} /\ request'.ip = NoIP
      /\ request' \in [op : {"none", "add", "remove"}, domain : SUBSET Domain, ip : Addresses]
  BY DEF FinishAdd, NoRequest
<1>3. /\ zone' \in [Domain -> SUBSET IP]
      /\ \A e \in Domain \ {d} : zone'[e] = zone[e]
      /\ d \in Domain \ hit'.lost => zone'[d] = RecordOf(mem.publicIP)
      /\ hit'.ahead = hit.ahead /\ hit.lost \subseteq hit'.lost
      /\ hit' \in [lost : SUBSET Domain, ahead : SUBSET Domain]
  <2>1. CASE add(d) /\ UNCHANGED hit
    <3>1. d \in Followed => /\ request.ip = mem.publicIP
                            /\ zone[d] \subseteq RecordOf(mem.publicIP)
      BY <1>1 DEF RequestHeld
    <3>2. zone \in [Domain -> SUBSET IP] /\ request.ip \in Addresses
      BY DEF ListsTyped, WorkTyped
    <3>3. CASE request.ip = NoIP
      BY <2>1, <3>1, <3>2, <3>3 DEF add, RecordOf, ListsTyped
    <3>4. CASE request.ip # NoIP
      BY <2>1, <3>1, <3>2, <3>4 DEF add, CreateRecord, RecordOf, ListsTyped
    <3> QED BY <3>3, <3>4
  <2>2. CASE Disturb({d}) /\ UNCHANGED zone
    BY <2>2 DEF Disturb, ListsTyped
  <2> QED BY <2>1, <2>2 DEF FinishAdd
<1>4. d \in Followed => d \in mem.domains
  BY <1>1 DEF RequestHeld
<1>5. ListsTyped'
  BY <1>1, <1>2, <1>3, <1>4 DEF ListsTyped
<1>6. WorkTyped'
  BY <1>1, <1>2, <1>3, <1>4 DEF WorkTyped
<1>7. AddressHeld'
  BY <1>1, <1>2, <1>3, <1>4 DEF AddressHeld
<1>8. OneRecord'
  BY <1>1, <1>2, <1>3, <1>4 DEF OneRecord, RecordOf
<1>9. OffListHeld'
  BY <1>1, <1>2, <1>3, <1>4 DEF OffListHeld, PendingHeld
<1>10. PendingHeld'
  BY <1>1, <1>2, <1>3, <1>4 DEF PendingHeld, AddressHeld
<1>11. OnListHeld'
  BY <1>1, <1>2, <1>3, <1>4 DEF OnListHeld, PendingHeld, FoundHeld, RequestHeld, AddressHeld
<1>12. FoundHeld'
  BY <1>1, <1>2, <1>3, <1>4 DEF FoundHeld, PendingHeld, WorkTyped
<1>13. RequestHeld'
  BY <1>1, <1>2, <1>3, <1>4 DEF RequestHeld, OneRecord, OffListHeld,
        OnListHeld, PendingHeld, AddressHeld
<1> QED BY <1>5, <1>6, <1>7, <1>8, <1>9, <1>10, <1>11, <1>12, <1>13

\* removeDDNS takes the domain off the list first.
LEMMA BeginRemoveKeeps == ASSUME DdnsInv, NEW d \in Domain, BeginRemove(d) PROVE DdnsInv'
<1> USE DdnsAssumption DEF DdnsInv, Followed, Pending, Updating, Addresses
<1>1. /\ UNCHANGED <<lineIP, saved, zone, poll>>
      /\ request.domain = {}
      /\ mem'.domains = mem.domains \ {d} /\ mem'.publicIP = mem.publicIP
      /\ mem' \in [domains : SUBSET Domain, publicIP : Addresses]
  BY DEF BeginRemove, ListsTyped, WorkTyped
<1>2. /\ request'.op = "remove" /\ request'.domain = {d} /\ request'.ip = NoIP
      /\ request' \in [op : {"none", "add", "remove"}, domain : SUBSET Domain, ip : Addresses]
  BY DEF BeginRemove
<1>3. /\ hit'.ahead = hit.ahead
      /\ hit'.lost = hit.lost \cup ({d} \cap (poll.todo \cup poll.domain))
      /\ hit' \in [lost : SUBSET Domain, ahead : SUBSET Domain]
  BY DEF BeginRemove, Disturb, ListsTyped
<1>4. ListsTyped'
  BY <1>1, <1>2, <1>3 DEF ListsTyped
<1>5. WorkTyped'
  BY <1>1, <1>2, <1>3 DEF WorkTyped
<1>6. AddressHeld'
  BY <1>1, <1>2, <1>3 DEF AddressHeld
<1>7. OneRecord'
  BY <1>1, <1>2, <1>3 DEF OneRecord
<1>8. OffListHeld'
  BY <1>1, <1>2, <1>3 DEF OffListHeld
<1>9. PendingHeld'
  BY <1>1, <1>2, <1>3 DEF PendingHeld, AddressHeld
<1>10. OnListHeld'
  BY <1>1, <1>2, <1>3 DEF OnListHeld, PendingHeld, FoundHeld, RequestHeld, AddressHeld
<1>11. FoundHeld'
  BY <1>1, <1>2, <1>3 DEF FoundHeld
<1>12. RequestHeld'
  BY <1>1, <1>2, <1>3 DEF RequestHeld, OneRecord, OffListHeld,
        OnListHeld, PendingHeld, AddressHeld
<1> QED BY <1>4, <1>5, <1>6, <1>7, <1>8, <1>9, <1>10, <1>11, <1>12

\* removeDDNS deletes the one record, or the domain is lost.
LEMMA FinishRemoveKeeps == ASSUME DdnsInv, NEW d \in Domain, FinishRemove(d) PROVE DdnsInv'
<1> USE DdnsAssumption DEF DdnsInv, Followed, Pending, Updating, Addresses
<1>1. /\ UNCHANGED <<lineIP, mem, poll>> /\ saved' = mem
      /\ request.op = "remove" /\ request.domain = {d}
  BY DEF FinishRemove
<1>2. /\ request'.op = "none" /\ request'.domain = {} /\ request'.ip = NoIP
      /\ request' \in [op : {"none", "add", "remove"}, domain : SUBSET Domain, ip : Addresses]
  BY DEF FinishRemove, NoRequest
<1>3. /\ zone' \in [Domain -> SUBSET IP]
      /\ \A e \in Domain \ {d} : zone'[e] = zone[e]
      /\ d \in Domain \ hit'.lost => zone'[d] = {}
      /\ hit'.ahead = hit.ahead /\ hit.lost \subseteq hit'.lost
      /\ hit' \in [lost : SUBSET Domain, ahead : SUBSET Domain]
  <2>1. CASE drop(d) /\ UNCHANGED hit
    BY <2>1 DEF drop, FindRecord, DeleteRecord, ListsTyped, OneRecord
  <2>2. CASE Disturb({d}) /\ UNCHANGED zone
    BY <2>2 DEF Disturb, ListsTyped
  <2> QED BY <2>1, <2>2 DEF FinishRemove
<1>4. d \in Followed => d \notin mem.domains
  BY <1>1 DEF RequestHeld
<1>5. ListsTyped'
  BY <1>1, <1>2, <1>3, <1>4 DEF ListsTyped
<1>6. WorkTyped'
  BY <1>1, <1>2, <1>3, <1>4 DEF WorkTyped
<1>7. AddressHeld'
  BY <1>1, <1>2, <1>3, <1>4 DEF AddressHeld
<1>8. OneRecord'
  BY <1>1, <1>2, <1>3, <1>4 DEF OneRecord
<1>9. OffListHeld'
  BY <1>1, <1>2, <1>3, <1>4 DEF OffListHeld
<1>10. PendingHeld'
  BY <1>1, <1>2, <1>3, <1>4 DEF PendingHeld, AddressHeld
<1>11. OnListHeld'
  BY <1>1, <1>2, <1>3, <1>4 DEF OnListHeld, PendingHeld, FoundHeld, RequestHeld, AddressHeld
<1>12. FoundHeld'
  BY <1>1, <1>2, <1>3, <1>4 DEF FoundHeld, PendingHeld, WorkTyped
<1>13. RequestHeld'
  BY <1>1, <1>2, <1>3, <1>4 DEF RequestHeld, OneRecord, OffListHeld,
        OnListHeld, PendingHeld, AddressHeld
<1> QED BY <1>5, <1>6, <1>7, <1>8, <1>9, <1>10, <1>11, <1>12, <1>13

-----------------------------------------------------------------------------
(* The line, other saves, restarts *)

\* A change of the line's address leaves store, zone and list as they are.
LEMMA LineKeeps == ASSUME DdnsInv, NEW ip \in IP, LineChanges(ip) PROVE DdnsInv'
<1> USE DdnsAssumption DEF DdnsInv, Followed, Pending, Updating, Addresses
<1>1. lineIP' \in IP /\ UNCHANGED <<mem, saved, zone, poll, request, hit>>
  BY DEF LineChanges
<1>2. ListsTyped'
  BY <1>1 DEF ListsTyped
<1>3. WorkTyped'
  BY <1>1 DEF WorkTyped
<1>4. AddressHeld'
  BY <1>1 DEF AddressHeld
<1>5. OneRecord'
  BY <1>1 DEF OneRecord
<1>6. OffListHeld'
  BY <1>1 DEF OffListHeld
<1>7. PendingHeld'
  BY <1>1 DEF PendingHeld, AddressHeld
<1>8. OnListHeld'
  BY <1>1 DEF OnListHeld, PendingHeld, FoundHeld, RequestHeld, AddressHeld
<1>9. FoundHeld'
  BY <1>1 DEF FoundHeld
<1>10. RequestHeld'
  BY <1>1 DEF RequestHeld, OneRecord, OffListHeld,
        OnListHeld, PendingHeld, AddressHeld
<1> QED BY <1>2, <1>3, <1>4, <1>5, <1>6, <1>7, <1>8, <1>9, <1>10

\* A save during a poll puts the new address on disk before the records.
LEMMA SaveKeeps == ASSUME DdnsInv, Save PROVE DdnsInv'
<1> USE DdnsAssumption DEF DdnsInv, Followed, Pending, Updating, Addresses
<1>1. saved' = mem /\ UNCHANGED <<lineIP, mem, zone, poll, request, hit>>
  BY DEF Save
<1>2. ListsTyped'
  BY <1>1 DEF ListsTyped
<1>3. WorkTyped'
  BY <1>1 DEF WorkTyped
<1>4. AddressHeld'
  BY <1>1 DEF AddressHeld
<1>5. OneRecord'
  BY <1>1 DEF OneRecord
<1>6. OffListHeld'
  BY <1>1 DEF OffListHeld
<1>7. PendingHeld'
  BY <1>1 DEF PendingHeld, AddressHeld
<1>8. OnListHeld'
  BY <1>1 DEF OnListHeld, PendingHeld, FoundHeld, RequestHeld, AddressHeld
<1>9. FoundHeld'
  BY <1>1 DEF FoundHeld
<1>10. RequestHeld'
  BY <1>1 DEF RequestHeld, OneRecord, OffListHeld,
        OnListHeld, PendingHeld, AddressHeld
<1> QED BY <1>2, <1>3, <1>4, <1>5, <1>6, <1>7, <1>8, <1>9, <1>10

\* A restart during a poll falls back to the old address, which the domains
\* that were still to come have, and the others are ahead of.
LEMMA DdnsRestartKeeps == ASSUME DdnsInv, Restart PROVE DdnsInv'
<1> USE DdnsAssumption DEF DdnsInv, Followed, Pending, Updating, Addresses
<1>1. mem' = saved /\ UNCHANGED <<lineIP, saved, zone>>
  BY DEF Restart
<1>2. /\ poll'.at = "wait" /\ poll'.todo = {} /\ poll'.domain = {}
      /\ poll' \in [at : {"wait"}, todo : {{}}, ip : Addresses, domain : {{}},
                     current : Addresses]
  BY DEF Restart, NoPoll
<1>3. /\ request'.op = "none" /\ request'.domain = {} /\ request'.ip = NoIP
      /\ request' \in [op : {"none", "add", "remove"}, domain : SUBSET Domain, ip : Addresses]
  BY DEF Restart, NoRequest
<1>4. /\ hit'.lost = hit.lost \cup Changed \cup request.domain
             \cup (IF Updating /\ saved.publicIP = poll.ip THEN Pending ELSE {})
      /\ hit'.ahead = hit.ahead
             \cup (IF Updating /\ saved.publicIP # poll.ip THEN mem.domains \ Pending ELSE {})
      /\ hit' \in [lost : SUBSET Domain, ahead : SUBSET Domain]
  BY DEF Restart, ListsTyped, WorkTyped, Changed
<1>5. \A d \in Domain \ hit'.lost :
          /\ d \in Followed /\ d \notin request.domain
          /\ d \in saved.domains <=> d \in mem.domains
  BY <1>4 DEF Changed
<1>6. ListsTyped'
  BY <1>1, <1>2, <1>3, <1>4, <1>5 DEF ListsTyped
<1>7. WorkTyped'
  BY <1>1, <1>2, <1>3, <1>4, <1>5 DEF WorkTyped
<1>8. AddressHeld'
  BY <1>1, <1>2, <1>3, <1>4, <1>5 DEF AddressHeld
<1>9. OneRecord'
  BY <1>1, <1>2, <1>3, <1>4, <1>5 DEF OneRecord
<1>10. OffListHeld'
  BY <1>1, <1>2, <1>3, <1>4, <1>5 DEF OffListHeld
<1>11. PendingHeld'
  BY <1>1, <1>2, <1>3, <1>4, <1>5 DEF PendingHeld, AddressHeld
<1>12. OnListHeld'
  BY <1>1, <1>2, <1>3, <1>4, <1>5 DEF OnListHeld, PendingHeld, FoundHeld, RequestHeld, AddressHeld
<1>13. FoundHeld'
  BY <1>1, <1>2, <1>3, <1>4, <1>5 DEF FoundHeld
<1>14. RequestHeld'
  BY <1>1, <1>2, <1>3, <1>4, <1>5 DEF RequestHeld, OneRecord, OffListHeld,
        OnListHeld, PendingHeld, AddressHeld
<1> QED BY <1>6, <1>7, <1>8, <1>9, <1>10, <1>11, <1>12, <1>13, <1>14

-----------------------------------------------------------------------------
\* Every step keeps the invariant.
THEOREM DdnsInvariant == DdnsSpec => []DdnsInv
<1>1. ASSUME DdnsInv, [DdnsNext]_ddnsVars PROVE DdnsInv'
  <2>1. CASE Poll
    BY <1>1, <2>1, BeginPollKeeps, LearnKeeps, FindKeeps, WriteKeeps, EndKeeps DEF Poll
  <2>2. CASE \E d \in Domain : BeginAdd(d) \/ BeginRemove(d)
    BY <1>1, <2>2, BeginAddKeeps, BeginRemoveKeeps
  <2>3. CASE FinishRequest
    BY <1>1, <2>3, FinishAddKeeps, FinishRemoveKeeps DEF FinishRequest
  <2>4. CASE (\E ip \in IP : LineChanges(ip)) \/ Save \/ Restart
    BY <1>1, <2>4, LineKeeps, SaveKeeps, DdnsRestartKeeps
  <2>5. CASE UNCHANGED ddnsVars
    BY <1>1, <2>5
       DEF ddnsVars, DdnsInv, Followed, Pending, Updating, ListsTyped, WorkTyped, AddressHeld,
           OneRecord, OffListHeld, PendingHeld, OnListHeld, FoundHeld, RequestHeld
  <2> QED BY <1>1, <2>1, <2>2, <2>3, <2>4, <2>5 DEF DdnsNext
<1> QED BY DdnsInitHolds, <1>1, PTL DEF DdnsSpec

\* Every variable keeps its type.
THEOREM DdnsTyped == DdnsSpec => []DdnsTypeOK
<1>1. DdnsInv => DdnsTypeOK
  BY DEF DdnsInv, ListsTyped, WorkTyped, Addresses, DdnsTypeOK
<1> QED BY DdnsInvariant, <1>1, PTL

\* checkAndUpdate, addDDNS and removeDDNS: a domain that nothing was lost for
\* has one record if it is on the list and none if it is not, with the stored
\* address whenever no poll is at work.
THEOREM ZoneIsTheList == DdnsSpec => []ZoneFollowsList
<1>1. DdnsInv => ZoneFollowsList
  <2> SUFFICES ASSUME DdnsInv, NEW d \in Domain \ hit.lost
               PROVE  /\ Cardinality(zone[d]) <= 1
                      /\ d \notin mem.domains \cup request.domain => zone[d] = {}
                      /\ d \in mem.domains \ request.domain /\ mem.publicIP # NoIP
                             /\ ~Updating /\ d \notin hit.ahead
                         => zone[d] = {mem.publicIP}
    BY DEF ZoneFollowsList
  <2>1. Cardinality(zone[d]) <= 1
    <3>1. CASE zone[d] = {}
      BY <3>1, FS_EmptySet
    <3>2. CASE zone[d] # {}
      <4>1. PICK ip \in zone[d] : TRUE
        BY <3>2
      <4>2. zone[d] = {ip}
        BY <4>1 DEF DdnsInv, OneRecord, Followed
      <4>3. Cardinality({ip}) = 1
        BY FS_Singleton
      <4> QED BY <4>2, <4>3
    <3> QED BY <3>1, <3>2
  <2>2. d \notin mem.domains \cup request.domain => zone[d] = {}
    BY DEF DdnsInv, OffListHeld, Followed
  <2>3. d \in mem.domains \ request.domain /\ mem.publicIP # NoIP
            /\ ~Updating /\ d \notin hit.ahead
        => zone[d] = {mem.publicIP}
    BY DEF DdnsInv, OnListHeld, Followed, RecordOf
  <2> QED BY <2>1, <2>2, <2>3
<1> QED BY DdnsInvariant, <1>1, PTL
=============================================================================
