----------------------------- MODULE DynamicDNS -----------------------------
(***************************************************************************)
(* internal/ddns/ddns.go and the handlers addDDNS and removeDDNS: a poll   *)
(* that works on the domains and the address it read, requests that change *)
(* both lists meanwhile, calls that fail, and restarts that fall back to   *)
(* what was saved last.                                                    *)
(*                                                                         *)
(* zone[d] is the set of addresses d has an A record for: Cloudflare takes *)
(* several records per name, but no two the same.                          *)
(***************************************************************************)
EXTENDS FiniteSets, Naturals

CONSTANTS
    Domain,
    IP,             \* public addresses the line may get
    NoIP,           \* no record found, no address known
    MaxChanges,     \* bound on changes of the public address
    MaxRequests,    \* bound on requests
    MaxMishaps      \* bound on failing calls and restarts

ASSUME DdnsAssumption == NoIP \notin IP

VARIABLES
    lineIP,         \* the address ipify would report
    mem,            \* domains and publicIP of the store
    saved,          \* the same in config.json
    zone,
    poll,           \* checkAndUpdate
    request,        \* the addDDNS or removeDDNS being served
    left,           \* what may still happen
    hit             \* history: the domains hit by what the code does not make up
                    \* for (lost), and those whose record has an address newer
                    \* than the one a restart fell back to (ahead)

ddnsVars == <<lineIP, mem, saved, zone, poll, request, left, hit>>

NoPoll == [at |-> "wait", todo |-> {}, ip |-> NoIP, domain |-> {}, current |-> NoIP]

NoRequest == [op |-> "none", domain |-> {}, ip |-> NoIP]

Use(what) == left[what] > 0 /\ left' = [left EXCEPT ![what] = @ - 1]

Disturb(domains) == hit' = [hit EXCEPT !.lost = @ \cup domains]

-----------------------------------------------------------------------------
(* Cloudflare *)

\* FindRecord: one of several is the first.
FindRecord(d) == IF zone[d] = {} THEN {NoIP} ELSE zone[d]

CreateRecord(d, ip) == zone' = [zone EXCEPT ![d] = @ \cup {ip}]

\* Fails if the record is gone or the name has the address already.
UpdateRecord(d, old, ip) ==
    IF old \in zone[d] /\ ip \notin zone[d]
    THEN zone' = [zone EXCEPT ![d] = (@ \ {old}) \cup {ip}]
    ELSE UNCHANGED zone

DeleteRecord(d, ip) == zone' = [zone EXCEPT ![d] = @ \ {ip}]

-----------------------------------------------------------------------------
(* checkAndUpdate, every ten minutes *)

BeginPoll ==
    /\ poll.at = "wait"
    /\ mem.domains # {}
    /\ poll' = [NoPoll EXCEPT !.at = "ip", !.todo = mem.domains]
    /\ UNCHANGED <<lineIP, mem, saved, zone, request, left, hit>>

\* getPublicIP; the address is stored before any record is touched.
LearnIP ==
    /\ poll.at = "ip"
    /\ \/ Use("faults") /\ poll' = NoPoll /\ UNCHANGED <<mem, hit>>
       \/ mem.publicIP = lineIP /\ poll' = NoPoll /\ Disturb(hit.ahead) /\ UNCHANGED <<mem, left>>
       \/ /\ mem.publicIP # lineIP
          /\ mem' = [mem EXCEPT !.publicIP = lineIP]
          /\ poll' = [poll EXCEPT !.at = "find", !.ip = lineIP]
          /\ Disturb((mem.domains \ poll.todo) \cup request.domain)
          /\ UNCHANGED left
    /\ UNCHANGED <<lineIP, saved, zone, request>>

Find(d) ==
    /\ poll.at = "find" /\ d \in poll.todo
    /\ \/ /\ \E current \in FindRecord(d) :
                 poll' = [poll EXCEPT !.todo = @ \ {d}, !.current = current,
                                      !.domain = {d}, !.at = "write"]
          /\ UNCHANGED <<left, hit>>
       \/ Use("faults") /\ Disturb({d}) /\ poll' = [poll EXCEPT !.todo = @ \ {d}]
    /\ UNCHANGED <<lineIP, mem, saved, zone, request>>

writeMutant(d) ==
    IF poll.current = NoIP THEN UNCHANGED zone
    ELSE UpdateRecord(d, poll.current, poll.ip)

write(d) ==
    IF poll.current = NoIP THEN CreateRecord(d, poll.ip)
    ELSE UpdateRecord(d, poll.current, poll.ip)

\* One domain's error does not stop the next.
Write(d) ==
    /\ poll.at = "write" /\ poll.domain = {d}
    /\ poll' = [poll EXCEPT !.at = "find", !.domain = {}, !.current = NoIP]
    /\ \/ write(d) /\ UNCHANGED <<left, hit>>
       \/ poll.current # poll.ip /\ Use("faults") /\ Disturb({d}) /\ UNCHANGED zone
    /\ UNCHANGED <<lineIP, mem, saved, request>>

EndPoll ==
    /\ poll.at = "find" /\ poll.todo = {}
    /\ poll' = NoPoll
    /\ saved' = mem
    /\ hit' = [hit EXCEPT !.ahead = {}]
    /\ UNCHANGED <<lineIP, mem, zone, request, left>>

-----------------------------------------------------------------------------
(* addDDNS and removeDDNS *)

BeginAdd(d) ==
    /\ request.op = "none" /\ Use("requests")
    /\ mem' = [mem EXCEPT !.domains = @ \cup {d}]
    /\ request' = [op |-> "add", domain |-> {d}, ip |-> mem.publicIP]
    /\ Disturb({d} \cap (poll.todo \cup poll.domain \cup hit.ahead))
    /\ UNCHANGED <<lineIP, saved, zone, poll>>

addMutant(d) == CreateRecord(d, request.ip)

\* With the address read before; an unknown one leaves it to the poll.
add(d) == IF request.ip = NoIP THEN UNCHANGED zone ELSE CreateRecord(d, request.ip)

FinishAdd(d) ==
    /\ request.op = "add" /\ request.domain = {d}
    /\ \/ add(d) /\ UNCHANGED <<left, hit>>
       \/ request.ip # NoIP /\ Use("faults") /\ Disturb({d}) /\ UNCHANGED zone
    /\ saved' = mem
    /\ request' = NoRequest
    /\ UNCHANGED <<lineIP, mem, poll>>

BeginRemove(d) ==
    /\ request.op = "none" /\ Use("requests")
    /\ mem' = [mem EXCEPT !.domains = @ \ {d}]
    /\ request' = [op |-> "remove", domain |-> {d}, ip |-> NoIP]
    /\ Disturb({d} \cap (poll.todo \cup poll.domain))
    /\ UNCHANGED <<lineIP, saved, zone, poll>>

dropMutant(d) == UNCHANGED zone

drop(d) == \E ip \in FindRecord(d) : DeleteRecord(d, ip)

FinishRemove(d) ==
    /\ request.op = "remove" /\ request.domain = {d}
    /\ \/ drop(d) /\ UNCHANGED <<left, hit>>
       \/ Use("faults") /\ Disturb({d}) /\ UNCHANGED zone
    /\ saved' = mem
    /\ request' = NoRequest
    /\ UNCHANGED <<lineIP, mem, poll>>

-----------------------------------------------------------------------------
(* Environment *)

LineChanges(ip) ==
    /\ ip # lineIP /\ Use("changes")
    /\ lineIP' = ip
    /\ UNCHANGED <<mem, saved, zone, poll, request, hit>>

\* Some other part of Lantern saves the store.
Save ==
    /\ saved # mem
    /\ saved' = mem
    /\ UNCHANGED <<lineIP, mem, zone, poll, request, left, hit>>

Changed == {d \in Domain : (d \in mem.domains) # (d \in saved.domains)}

Updating == poll.at \in {"find", "write"}

\* Lost: domains of an unfinished request or of a change not saved, and those
\* still to be updated to an address that is on disk already.
Restart ==
    /\ Use("faults")
    /\ mem' = saved
    /\ poll' = NoPoll /\ request' = NoRequest
    /\ LET todo == poll.todo \cup poll.domain
           onDisk == saved.publicIP = poll.ip
       IN  hit' = [lost  |-> hit.lost \cup Changed \cup request.domain
                             \cup (IF Updating /\ onDisk THEN todo ELSE {}),
                   ahead |-> hit.ahead
                             \cup (IF Updating /\ ~onDisk THEN mem.domains \ todo ELSE {})]
    /\ UNCHANGED <<lineIP, saved, zone>>

DdnsInit ==
    /\ lineIP \in IP
    /\ \E domains \in SUBSET Domain : mem = [domains |-> domains, publicIP |-> NoIP]
    /\ saved = mem
    /\ zone = [d \in Domain |-> {}]
    /\ poll = NoPoll /\ request = NoRequest
    /\ left = [changes |-> MaxChanges, requests |-> MaxRequests, faults |-> MaxMishaps]
    /\ hit = [lost |-> {}, ahead |-> {}]

Poll ==
    \/ BeginPoll \/ LearnIP \/ EndPoll
    \/ \E d \in Domain : Find(d) \/ Write(d)

FinishRequest == \E d \in Domain : FinishAdd(d) \/ FinishRemove(d)

DdnsNext ==
    \/ Poll
    \/ \E d \in Domain : BeginAdd(d) \/ BeginRemove(d)
    \/ FinishRequest
    \/ \E ip \in IP : LineChanges(ip)
    \/ Save \/ Restart

\* The ticker keeps ticking and every call returns or times out.
DdnsSpec ==
    DdnsInit /\ [][DdnsNext]_ddnsVars /\ WF_ddnsVars(Poll) /\ WF_ddnsVars(FinishRequest)

-----------------------------------------------------------------------------
(* Properties *)

\* The types of the variables.
DdnsTypeOK ==
    /\ lineIP \in IP
    /\ \A s \in {mem, saved} : s.domains \subseteq Domain /\ s.publicIP \in IP \cup {NoIP}
    /\ zone \in [Domain -> SUBSET IP]
    /\ poll.todo \cup poll.domain \subseteq Domain
    /\ poll.at = "write" <=> poll.domain # {}

\* A domain has at most one record; one that is off the list has none, once
\* its removal has ended; and between polls the record of one on the list has
\* the stored address. Except for domains hit by a failed call, by a request
\* that overlapped a poll or by a restart in the middle of a request, and,
\* until the next poll, by a restart in the middle of a poll (checkAndUpdate,
\* addDDNS, removeDDNS).
ZoneFollowsList ==
    \A d \in Domain \ hit.lost :
        /\ Cardinality(zone[d]) <= 1
        /\ d \notin mem.domains \cup request.domain => zone[d] = {}
        /\ d \in mem.domains \ request.domain /\ mem.publicIP # NoIP
               /\ ~Updating /\ d \notin hit.ahead
           => zone[d] = {mem.publicIP}

\* The public address of a line that keeps it reaches the record of every
\* domain on the list, with the exceptions above: in particular after a restart
\* in the middle of an update, which repeats it because the new address is only
\* saved when all records have it - unless another part of Lantern saved in
\* between, or the old address came back (checkAndUpdate, SaveLog).
AddressIsPublished ==
    \A d \in Domain, ip \in IP :
        d \in mem.domains /\ lineIP = ip
            ~> zone[d] = {ip} \/ lineIP # ip \/ d \notin mem.domains \/ d \in hit.lost
=============================================================================
