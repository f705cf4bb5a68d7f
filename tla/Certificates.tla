---------------------------- MODULE Certificates ----------------------------
(***************************************************************************)
(* internal/certs/certs.go: the served certificate, the files a restart    *)
(* loads, the ACME account, and the clock they all depend on.  Calls to    *)
(* Let's Encrypt and writes fail, a crash tears the file being written.    *)
(*                                                                         *)
(* One unit of time stands for fifteen days, in which RenewLoop has looked *)
(* at the certificate sixty times: time passes once it has looked.         *)
(* Obtaining a certificate takes minutes, no time at all in this model.    *)
(* The files are read and written by one goroutine at a time: EnsureCert   *)
(* returns before RenewLoop begins.                                        *)
(***************************************************************************)
EXTENDS Naturals

CONSTANTS
    Lifetime,       \* of an issued and of a self-signed certificate: 90 days
    Window,         \* renewal is due with less than this left: 30 days
    MaxTime,        \* bound on the clock
    MaxFaults       \* bound on failing calls and writes and on crashes

\* RenewLoop looks more than once between the renewal's date and the end.
ASSUME CertAssumption ==
    /\ {Lifetime, MaxTime, MaxFaults} \subseteq Nat
    /\ Window \in 2..(Lifetime - 1)

VARIABLES
    now,
    pc,             \* where EnsureCert or RenewLoop is
    starting,       \* a failure ends in useSelfSigned
    served,         \* m.cert
    fresh,          \* the certificate being saved
    certFile, keyFile,
    resource,       \* resource.json parses
    renewing,       \* the certificate is asked for by renew, from resource.json
    legoRenews,     \* lego renews from what resource.json keeps of a certificate
    accountKey, accountReg,     \* account.key, and whose key account.json is about
    user,           \* the key in use
    checked,        \* RenewLoop has looked in this unit of time
    made,           \* certificates and keys made so far; numbers tell them apart
    faults,         \* what may still go wrong
    failedAt,       \* history: the last failure since Lantern started, or none
    tornPair,       \* history: a write failed and no save has succeeded since
    keyLost         \* history: writing account.key failed

fileVars == <<certFile, keyFile>>
renewVars == <<resource, renewing, legoRenews>>
accountVars == <<accountKey, accountReg>>
certVars == <<now, pc, starting, served, fresh, fileVars, renewVars, accountVars, user,
              checked, made, faults, failedAt, tornPair, keyLost>>

\* Never, nothing, and a file that does not parse
None == [issuer |-> "none", no |-> 0, expires |-> 0]
Never == MaxTime + 1
Torn == 0

Fault == faults > 0 /\ faults' = faults - 1

Left(cert) == IF cert.expires > now THEN cert.expires - now ELSE 0

Whole(cert) == cert.issuer = "acme"

-----------------------------------------------------------------------------
(* EnsureCert and RenewLoop *)

\* X509KeyPair checks that the key is the certificate's.
tryLoadExisting == Whole(certFile) /\ keyFile = certFile.no /\ Left(certFile) >= Window

EnsureCert ==
    /\ pc = "start"
    /\ IF tryLoadExisting
       THEN served' = certFile /\ pc' = "loop" /\ starting' = FALSE
       ELSE pc' = "account" /\ UNCHANGED <<served, starting>>
    /\ renewing' = FALSE
    /\ UNCHANGED <<now, fresh, fileVars, resource, legoRenews, accountVars, user,
                   checked, made, faults, failedAt, tornPair, keyLost>>

renewalDueMutant(cert) == Left(cert) = 0

\* Asked of a self-signed certificate too.
renewalDue(cert) == Left(cert) < Window

\* A tick of RenewLoop.  renew starts from resource.json, or obtains a new
\* certificate if there is none or it does not parse.
Check ==
    /\ pc = "loop" /\ ~checked
    /\ checked' = TRUE
    /\ pc' = IF renewalDue(served) THEN "account" ELSE "loop"
    /\ renewing' = (renewalDue(served) /\ resource)
    /\ UNCHANGED <<now, starting, served, fresh, fileVars, resource, legoRenews, accountVars,
                   user, made, faults, failedAt, tornPair, keyLost>>

\* What becomes of an error: EnsureCert falls back, RenewLoop carries on.
GiveUp ==
    /\ pc' = "loop"
    /\ starting' = FALSE
    /\ failedAt' = now
    /\ served' = IF starting THEN [issuer |-> "self", no |-> 0, expires |-> now + Lifetime]
                             ELSE served

-----------------------------------------------------------------------------
(* buildLegoClient, obtain, saveCert *)

KeyIsReadableMutant == FALSE

KeyIsReadable == accountKey # Torn

\* loadOrCreateUser: a key that cannot be read is replaced; the error of
\* writing the new one is dropped.
LoadAccount ==
    /\ pc = "account"
    /\ \/ /\ KeyIsReadable
          /\ user' = accountKey
          /\ UNCHANGED <<accountKey, made, faults, keyLost>>
       \/ /\ ~KeyIsReadable
          /\ made' = made + 1
          /\ user' = made'
          /\ \/ accountKey' = made' /\ UNCHANGED <<faults, keyLost>>
             \/ Fault /\ keyLost' = TRUE /\ UNCHANGED accountKey
    /\ pc' = IF accountReg = Torn THEN "register" ELSE "obtain"
    /\ UNCHANGED <<now, starting, served, fresh, fileVars, renewVars, accountReg, checked,
                   failedAt, tornPair>>

\* An error of saveUser is logged.
Register ==
    /\ pc = "register"
    /\ \/ /\ pc' = "obtain"
          /\ \/ accountReg' = user /\ UNCHANGED faults
             \/ Fault /\ UNCHANGED accountReg
          /\ UNCHANGED <<starting, served, failedAt>>
       \/ Fault /\ GiveUp /\ UNCHANGED accountReg
    /\ UNCHANGED <<now, fresh, fileVars, renewVars, accountKey, user, checked, made, tornPair,
                   keyLost>>

\* Let's Encrypt answers requests signed with the key of the account.
Authorized == accountReg \in {user, Torn}

\* client.Certificate.Obtain and RenewWithOptions.  Whether lego can renew
\* from a Resource that went through JSON is not said in this repository.
Granted == Authorized /\ (renewing => legoRenews)

Obtain ==
    /\ pc = "obtain"
    /\ \/ /\ Granted
          /\ made' = made + 1
          /\ fresh' = [issuer |-> "acme", no |-> made', expires |-> now + Lifetime]
          /\ pc' = "cert"
          /\ UNCHANGED <<starting, served, failedAt, faults>>
       \/ Granted /\ Fault /\ GiveUp /\ UNCHANGED <<made, fresh>>
       \/ ~Granted /\ GiveUp /\ UNCHANGED <<made, fresh, faults>>
    /\ UNCHANGED <<now, fileVars, renewVars, accountVars, user, checked, tornPair, keyLost>>

\* os.WriteFile truncates the file before it writes.
WriteFails ==
    /\ Fault /\ GiveUp
    /\ tornPair' = TRUE
    /\ fresh' = None

SaveCert ==
    /\ pc = "cert"
    /\ \/ /\ certFile' = fresh
          /\ pc' = "key"
          /\ UNCHANGED <<starting, served, fresh, failedAt, faults, tornPair>>
       \/ WriteFails /\ certFile' \in {certFile, None}
    /\ UNCHANGED <<now, keyFile, renewVars, accountVars, user, checked, made, keyLost>>

writtenKeyMutant == IF keyFile = Torn THEN fresh.no ELSE keyFile

writtenKey == fresh.no

SaveKey ==
    /\ pc = "key"
    /\ \/ /\ keyFile' = writtenKey
          /\ pc' = "serve"
          /\ UNCHANGED <<starting, served, fresh, failedAt, faults, tornPair>>
       \/ WriteFails /\ keyFile' \in {keyFile, Torn}
    /\ UNCHANGED <<now, certFile, renewVars, accountVars, user, checked, made, keyLost>>

ServeMutant ==
    /\ pc = "serve"
    /\ served' = fresh
    /\ starting' = FALSE /\ tornPair' = FALSE
    /\ pc' = "loop"
    /\ UNCHANGED <<now, fresh, fileVars, renewVars, accountVars, user, checked, made, faults,
                   failedAt, keyLost>>

\* The rest of saveCert.  An error of writing resource.json is dropped.
Serve ==
    /\ pc = "serve"
    /\ \/ resource' = TRUE /\ UNCHANGED faults
       \/ Fault /\ resource' \in {resource, FALSE}
    /\ served' = fresh
    /\ fresh' = None
    /\ starting' = FALSE
    /\ tornPair' = FALSE
    /\ pc' = "loop"
    /\ UNCHANGED <<now, fileVars, renewing, legoRenews, accountVars, user, checked, made,
                   failedAt, keyLost>>

-----------------------------------------------------------------------------
(* Time and restarts *)

Tick ==
    /\ now < MaxTime
    /\ pc = "off" \/ (pc = "loop" /\ checked)
    /\ now' = now + 1
    /\ checked' = FALSE
    /\ UNCHANGED <<pc, starting, served, fresh, fileVars, renewVars, accountVars, user, made,
                   faults, failedAt, tornPair, keyLost>>

\* A crash or an exit at any step.  The account files are written only when
\* they do not parse: a torn one is as good as none.
Crash ==
    /\ pc # "off"
    /\ Fault
    /\ pc' = "off"
    /\ served' = None /\ fresh' = None
    /\ certFile' \in {certFile} \cup (IF pc = "cert" THEN {None} ELSE {})
    /\ keyFile' \in {keyFile} \cup (IF pc = "key" THEN {Torn} ELSE {})
    /\ resource' \in {resource} \cup (IF pc = "serve" THEN {FALSE} ELSE {})
    /\ UNCHANGED <<now, starting, renewing, legoRenews, accountVars, user, checked, made,
                   failedAt, tornPair, keyLost>>

Start ==
    /\ pc = "off"
    /\ pc' = "start"
    /\ starting' = TRUE /\ checked' = FALSE /\ failedAt' = Never
    /\ UNCHANGED <<now, served, fresh, fileVars, renewVars, accountVars, user, made, faults,
                   tornPair, keyLost>>

CertInit ==
    /\ now = 0 /\ pc = "off" /\ starting = FALSE
    /\ served = None /\ fresh = None
    /\ certFile = None /\ keyFile = Torn
    /\ resource = FALSE /\ renewing = FALSE /\ legoRenews \in BOOLEAN
    /\ accountKey = Torn /\ accountReg = Torn /\ user = Torn
    /\ checked = FALSE /\ made = 0 /\ faults = MaxFaults
    /\ failedAt = Never /\ tornPair = FALSE /\ keyLost = FALSE

CertNext ==
    \/ EnsureCert \/ Check
    \/ LoadAccount \/ Register \/ Obtain
    \/ SaveCert \/ SaveKey \/ Serve
    \/ Tick \/ Crash \/ Start

CertSpec == CertInit /\ [][CertNext]_certVars

-----------------------------------------------------------------------------
(* Properties *)

Listening == pc = "loop"

\* The types of the variables.
CertTypeOK ==
    /\ pc \in {"off", "start", "loop", "account", "register", "obtain", "cert", "key",
               "serve"}
    /\ \A cert \in {served, fresh, certFile} :
           /\ cert.issuer \in {"none", "self", "acme"}
           /\ cert.expires \in 0..(MaxTime + Lifetime)
    /\ certFile.issuer # "self"
    /\ fresh # None <=> pc \in {"cert", "key", "serve"}
    /\ {keyFile, accountKey, accountReg, user} \subseteq 0..made
    /\ {resource, renewing, legoRenews} \subseteq BOOLEAN

\* Once HTTPS is served there is a certificate, and it has not expired unless
\* a renewal failed in its last Window: no order of restarts, failed calls and
\* half-written files leaves the renewal untried.
ServedIsValid ==
    Listening =>
        /\ served # None
        /\ Left(served) = 0 =>
               failedAt # Never /\ failedAt + Window > served.expires - 1

\* A certificate that is served from Let's Encrypt is the one the next start
\* loads, whole and with its own key, unless writing it has failed: no crash
\* between the two files makes restarts use up certificates.
RestartKeepsCertificate ==
    Listening /\ served.issuer = "acme" /\ ~tornPair =>
        certFile = served /\ keyFile = served.no

\* The account on disk stays usable: its key is the one that was registered,
\* unless writing the key failed, whose error loadOrCreateUser drops.
AccountMatches ==
    accountReg # Torn /\ accountKey # Torn /\ ~keyLost => accountReg = accountKey
=============================================================================
