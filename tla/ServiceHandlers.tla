--------------------------- MODULE ServiceHandlers --------------------------
(***************************************************************************)
(* The handlers of internal/web/handle_services.go that create, change and *)
(* delete services, running concurrently over the ServiceStore, and the    *)
(* Cloudflare zone and tunnel they keep in step with it through            *)
(* internal/cf.                                                            *)
(*                                                                         *)
(* A handler reads the service, works out the Cloudflare calls it needs    *)
(* (planDNS, reconcileDNS), makes them one by one with no lock held, and   *)
(* only then writes the store.  Each Cloudflare call and each store        *)
(* operation is one step here; a call may fail, with or without having     *)
(* taken effect at Cloudflare.  The methods that change the tunnel's rules *)
(* first ask TunnelEnabled, then wait for tunnelMu, and read and put the   *)
(* rules with it held; the tunnel manager deletes and creates the tunnel   *)
(* at Cloudflare without it and tells the client of it under it.  Reads of *)
(* the store and of the request that a handler does before its first call  *)
(* are part of its first step.                                             *)
(* Handlers end with Store.Save, which is the subject of Persistence.      *)
(* Icons are not modelled, nor is reorderServices, which is one store      *)
(* operation (ServiceStore).                                               *)
(***************************************************************************)
EXTENDS ServiceStore, Sequences, FiniteSets

CONSTANTS
    Proc,           \* request goroutines
    Host,           \* subdomains a user can ask for
    Target,         \* backends
    NoHost,         \* TunnelRouteID == ""
    NoRec,          \* DNSRecordID == ""
    NoJob,          \* the goroutine is idle
    NoEntry,        \* the request has no discovered_id
    Nobody,         \* tunnelMu is unlocked
    Kinds,          \* the requests of this instance
    Modes,          \* the DNS modes users ask for
    Containers,     \* the containers docker has discovered at the start
    Starts,         \* whether the client has a tunnel at the start: the cases
    MaxRecords,     \* bound on DNS records created
    MaxFailures,    \* bound on failing Cloudflare calls
    MaxToggles,     \* bound on creations and deletions of a tunnel
    FreeHostsOnly,  \* users only ask for subdomains nobody has or is asking for
    OneWriter       \* no two requests about one service overlap

RecId == 1..MaxRecords

\* What the store does not look into: DirectOnly, Target, DNSRecordID and
\* TunnelRouteID.
Data ==
    [direct : BOOLEAN,
     tgt    : Target,
     dns    : RecId \cup {NoRec},
     tun    : Sub \cup {NoHost}]

\* "_direct_" + id, the key of a service without a subdomain
DirectKey(id) == id

ASSUME HandlersAssumption ==
    /\ Kinds \subseteq {"create", "update", "delete", "icon"}
    /\ Modes \subseteq {"direct", "A", "tunnel"}
    /\ Sub = Host \cup {DirectKey(id) : id \in Id}
    /\ \A id \in Id : DirectKey(id) \notin Host
    /\ Payload = Data
    /\ Containers \in SUBSET [cid : Cid, name : CName]
    /\ \A c, d \in Containers : c # d => c.cid # d.cid /\ c.name # d.name
    /\ Starts \subseteq BOOLEAN
    /\ MaxRecords \in Nat /\ MaxFailures \in Nat /\ MaxToggles \in Nat
    /\ FreeHostsOnly \in BOOLEAN /\ OneWriter \in BOOLEAN
    /\ NoHost \notin Sub
    /\ NoRec \notin RecId
    /\ Nobody \notin Proc

VARIABLES
    zone,           \* records of the Cloudflare zone
    nextRec,        \* the ID the zone gives its next record
    ingress,        \* how often the client's tunnel has each named ingress rule
    tunnelOn,       \* cf.Client has a tunnelID: TunnelEnabled()
    tunnelUp,       \* Cloudflare has the tunnel of that ID
    manager,        \* a tunnel was "created" or "deleted" and the client not told
    tunnelMu,       \* who holds cf.Client.tunnelMu
    toggles,
    failures,
    usedIds,        \* service IDs handed out by util.NewID
    discovered,     \* docker entries of s.d.Discovered
    pc,             \* what each goroutine does next
    job             \* what each goroutine knows

cfVars == <<zone, nextRec, ingress, tunnelOn, tunnelUp, manager, tunnelMu, toggles>>
handlerVars == <<storeVars, cfVars, failures, usedIds, discovered, pc, job>>

-----------------------------------------------------------------------------
(* planDNS: from the mode a service has and the mode it should have to the *)
(* Cloudflare calls.  A service's mode is derived from its stored fields.  *)

mode(svc) ==
    IF svc.data.direct THEN "direct"
    ELSE IF svc.data.tun # NoHost THEN "tunnel"
    ELSE "A"

planDNS(oldMode, newMode, moved, retargeted) ==
    CASE <<oldMode, newMode>> = <<"direct", "A">>      -> "createA"
      [] <<oldMode, newMode>> = <<"direct", "tunnel">> -> "createTunnel"
      [] <<oldMode, newMode>> = <<"A", "tunnel">>      -> "aToTunnel"
      [] <<oldMode, newMode>> = <<"tunnel", "A">>      -> "tunnelToA"
      [] newMode = "direct" /\ oldMode # "direct"      -> "deleteAll"
      [] newMode = "A" /\ oldMode = "A" /\ moved       -> "swapA"
      [] newMode = "tunnel" /\ oldMode = "tunnel" /\ (moved \/ retargeted)
                                                       -> "replaceTunnel"
      [] OTHER                                         -> "noop"

deleteOldMutant(data) == <<>>

deleteOld(data) == IF data.dns = NoRec THEN <<>> ELSE <<"deleteRecord">>

removeRoute(data) == <<"unroute">> \o deleteOld(data)

addRoute == <<"route", "find", "createCNAME">>

\* The calls reconcileDNS and the cf methods it uses make, in order.  Tunnel
\* work is skipped when TunnelEnabled() is false.
Calls(plan, data, enabled) ==
    CASE plan = "noop"          -> <<>>
      [] plan = "createA"       -> <<"createA">>
      [] plan = "deleteAll"     -> IF data.tun # NoHost
                                   THEN removeRoute(data) ELSE deleteOld(data)
      [] plan = "swapA"         -> deleteOld(data) \o <<"createA">>
      [] plan = "createTunnel"  -> IF enabled THEN addRoute ELSE <<>>
      [] plan = "aToTunnel"     -> IF enabled
                                   THEN deleteOld(data) \o addRoute ELSE <<>>
      [] plan = "tunnelToA"     -> removeRoute(data) \o <<"createA">>
      [] plan = "replaceTunnel" -> IF enabled
                                   THEN <<"reroute">> \o deleteOld(data)
                                            \o <<"createCNAME">>
                                   ELSE <<>>

\* Whether reconcileDNS returns the IDs it was given if no call provides others.
KeepsIds(plan, enabled) == plan = "noop" \/ (plan = "replaceTunnel" /\ enabled)

-----------------------------------------------------------------------------
(* Cloudflare (external).  The zone refuses a second record for a hostname  *)
(* and refuses to delete a record it does not have.                         *)

RecordsForMutant(host) == zone

RecordsFor(host) == {rec \in zone : rec.host = host}

Insert(host, type) ==
    /\ nextRec <= MaxRecords
    /\ zone' = zone \cup {[id |-> nextRec, host |-> host, type |-> type]}
    /\ nextRec' = nextRec + 1

DeleteRecord(rec) ==
    /\ zone' = {r \in zone : r.id # rec}
    /\ UNCHANGED nextRec

-----------------------------------------------------------------------------
(* The calls of a handler.  A goroutine in "calls" has in its job           *)
(*   id     the service                                                     *)
(*   svc    the service object its handler read, if any                     *)
(*   want   the object it is building, with the DNS fields found so far     *)
(*   drop   the DNS fields of the object being replaced or deleted          *)
(*   todo   the calls left, and found, FindRecord's answer                  *)
(*   rules  the ingress rules it is about to put, in "put"                  *)
(*   entry  the discovered entry being assigned                             *)

(* Nothing depends on the order of the named rules; the catch-all, which is *)
(* always put last, is left out.                                            *)

Rules == [host : Sub, target : Target]

NoRules == [rule \in Rules |-> 0]

Rule(want) == [host |-> want.sub, target |-> want.data.tgt]

removeHostname(rules, host) ==
    [rule \in Rules |-> IF rule.host = host THEN 0 ELSE rules[rule]]

appendRule(rules, rule) == [rules EXCEPT ![rule] = @ + 1]

\* Whether Cloudflare does what the call asks for.
Accepts(j, call) ==
    CASE call \in {"createA", "createCNAME"} -> RecordsFor(j.want.sub) = {}
      [] call = "deleteRecord" -> \E rec \in zone : rec.id = j.drop.dns
      [] call = "deleteFound"  -> \E rec \in zone : rec.id = j.found
      [] OTHER -> TRUE

\* What the call does to the zone.
Effect(j, call) ==
    CASE call = "createA"      -> Insert(j.want.sub, "A")
      [] call = "createCNAME"  -> Insert(j.want.sub, "CNAME")
      [] call = "deleteRecord" -> DeleteRecord(j.drop.dns)
      [] call = "deleteFound"  -> DeleteRecord(j.found)
      [] call = "find" -> UNCHANGED <<zone, nextRec>>

\* What the calls that modify the ingress rules make of them.
Modified(rules, j, call) ==
    CASE call = "route"   -> appendRule(removeHostname(rules, j.want.sub), Rule(j.want))
      [] call = "unroute" -> removeHostname(rules, j.drop.tun)
      [] call = "reroute" -> appendRule(removeHostname(rules, j.svc.sub), Rule(j.want))

\* The two results swapped.
ReturnMutant(j, dns, tun) ==
    [j EXCEPT !.todo = <<>>, !.want.data = [@ EXCEPT !.dns = tun, !.tun = dns]]

\* reconcileDNS returns these IDs.
Return(j, dns, tun) ==
    [j EXCEPT !.todo = <<>>, !.want.data = [@ EXCEPT !.dns = dns, !.tun = tun]]

Skip(j) == [j EXCEPT !.todo = Tail(@), !.rules = NoRules]

\* RemoveTunnelRoute returns before it deletes the CNAME.
SkipDeletion(j) ==
    LET rest == Tail(j.todo) IN
    [j EXCEPT !.todo = IF rest # <<>> /\ Head(rest) = "deleteRecord"
                       THEN Tail(rest) ELSE rest,
              !.rules = NoRules]

DeleteFirst(j, rec) ==
    [j EXCEPT !.todo = <<"deleteFound">> \o Tail(@), !.found = rec.id]

\* The ways the handler goes on after the call.
Succeeded(j, call) ==
    CASE call = "createA"     -> {Return(j, nextRec, NoHost)}
      [] call = "createCNAME" -> {Return(j, nextRec, j.want.sub)}
      [] call = "find" /\ RecordsFor(j.want.sub) # {} ->
            {DeleteFirst(j, rec) : rec \in RecordsFor(j.want.sub)}
      [] OTHER -> {Skip(j)}

\* Errors of deletions and of FindRecord are at most logged; a failed creation
\* or ingress update ends the reconciliation with the IDs as they were set up.
Failed(j, call) ==
    CASE call \in {"createA", "createCNAME", "route", "reroute"} ->
            [j EXCEPT !.todo = <<>>, !.rules = NoRules]
      [] call = "unroute" -> SkipDeletion(j)
      [] OTHER -> Skip(j)

\* What a cf method returns when TunnelEnabled is off.
TunnelGone(j, call) ==
    IF call = "unroute" THEN SkipDeletion(j) ELSE Return(j, NoRec, j.want.sub)

NeedsTunnel(call) == call \in {"route", "unroute", "reroute"}

Pending(p) == pc[p] = "calls" /\ job[p].todo # <<>>

NextCall(p) == Head(job[p].todo)

CallReturns(p) ==
    /\ Pending(p) /\ ~NeedsTunnel(NextCall(p))
    /\ IF Accepts(job[p], NextCall(p))
       THEN /\ Effect(job[p], NextCall(p))
            /\ \E j \in Succeeded(job[p], NextCall(p)) :
                   job' = [job EXCEPT ![p] = j]
       ELSE /\ job' = [job EXCEPT ![p] = Failed(@, NextCall(p))]
            /\ UNCHANGED <<zone, nextRec>>
    /\ UNCHANGED <<storeVars, ingress, tunnelOn, tunnelUp, manager, tunnelMu, toggles, failures,
                   usedIds, discovered, pc>>

\* The request or its answer is lost.
CallFails(p) ==
    /\ failures < MaxFailures
    /\ Pending(p) /\ ~NeedsTunnel(NextCall(p))
    /\ \/ Accepts(job[p], NextCall(p)) /\ Effect(job[p], NextCall(p))
       \/ UNCHANGED <<zone, nextRec>>
    /\ job' = [job EXCEPT ![p] = Failed(@, NextCall(p))]
    /\ failures' = failures + 1
    /\ UNCHANGED <<storeVars, ingress, tunnelOn, tunnelUp, manager, tunnelMu, toggles, usedIds,
                   discovered, pc>>

LockTunnelMutant(p) == tunnelMu' = p

LockTunnel(p) == tunnelMu = Nobody /\ tunnelMu' = p

\* The cf methods ask TunnelEnabled again before they change the rules: if it
\* is off they report success, else they call modifyIngress,
CallSkipped(p) ==
    /\ Pending(p) /\ NeedsTunnel(NextCall(p)) /\ ~tunnelOn
    /\ job' = [job EXCEPT ![p] = TunnelGone(@, NextCall(p))]
    /\ UNCHANGED <<storeVars, cfVars, failures, usedIds, discovered, pc>>

CallModifies(p) ==
    /\ Pending(p) /\ NeedsTunnel(NextCall(p)) /\ tunnelOn
    /\ pc' = [pc EXCEPT ![p] = "modify"]
    /\ UNCHANGED <<storeVars, cfVars, failures, usedIds, discovered, job>>

\* which locks tunnelMu, gets the tunnel's configuration, computes the new one,
ReadIngress(p) ==
    /\ pc[p] = "modify"
    /\ LockTunnel(p) /\ tunnelUp
    /\ job' = [job EXCEPT ![p].rules = Modified(ingress, job[p], NextCall(p))]
    /\ pc' = [pc EXCEPT ![p] = "put"]
    /\ UNCHANGED <<storeVars, zone, nextRec, ingress, tunnelOn, tunnelUp, manager,
                   toggles, failures, usedIds, discovered>>

\* and puts it, with tunnelMu held from one to the other.
WriteIngress(p) ==
    /\ pc[p] = "put" /\ tunnelUp
    /\ ingress' = job[p].rules
    /\ tunnelMu' = Nobody
    /\ job' = [job EXCEPT ![p] = Skip(@)]
    /\ pc' = [pc EXCEPT ![p] = "calls"]
    /\ UNCHANGED <<storeVars, zone, nextRec, tunnelOn, tunnelUp, manager, toggles,
                   failures, usedIds, discovered>>

\* Cloudflare refuses the GET or the PUT: the client's tunnel is deleted, or
\* its ID was emptied while the handler waited for tunnelMu.
IngressRefused(p) ==
    /\ \/ pc[p] = "modify" /\ tunnelMu = Nobody
       \/ pc[p] = "put"
    /\ ~tunnelUp
    /\ tunnelMu' = Nobody
    /\ job' = [job EXCEPT ![p] = Failed(@, NextCall(p))]
    /\ pc' = [pc EXCEPT ![p] = "calls"]
    /\ UNCHANGED <<storeVars, zone, nextRec, ingress, tunnelOn, tunnelUp, manager,
                   toggles, failures, usedIds, discovered>>

\* The PUT or its answer is lost.  A lost GET is a PUT without effect.
WriteIngressFails(p) ==
    /\ failures < MaxFailures
    /\ pc[p] = "put" /\ tunnelUp
    /\ ingress' \in {ingress, job[p].rules}
    /\ tunnelMu' = Nobody
    /\ job' = [job EXCEPT ![p] = Failed(@, NextCall(p))]
    /\ pc' = [pc EXCEPT ![p] = "calls"]
    /\ failures' = failures + 1
    /\ UNCHANGED <<storeVars, zone, nextRec, tunnelOn, tunnelUp, manager, toggles,
                   usedIds, discovered>>

-----------------------------------------------------------------------------
(* What users do: in an instance with FreeHostsOnly they avoid subdomains   *)
(* that are in use, in one with OneWriter they wait for a service's last    *)
(* request to end before they make the next.                                *)

Busy(p) == job[p] # NoJob

HostsOf(j) == {svc.sub : svc \in {j.svc, j.want} \ {NoService}}

HostFree(sub, id) ==
    FreeHostsOnly =>
        /\ \A other \in LiveIds \ {id} : idIdx[other].sub # sub
        /\ \A p \in Proc :
               Busy(p) /\ job[p].id # id => sub \notin HostsOf(job[p])

Alone(id) == OneWriter => \A p \in Proc : Busy(p) => job[p].id # id

Unclaimed(entry) ==
    OneWriter /\ entry # NoEntry => \A p \in Proc : Busy(p) => job[p].entry # entry

-----------------------------------------------------------------------------
(* Handlers *)

Nothing == [dns |-> NoRec, tun |-> NoHost]

Job(id) ==
    [id |-> id, svc |-> NoService, want |-> NoService, drop |-> Nothing,
     todo |-> <<>>, found |-> NoRec, rules |-> NoRules, entry |-> NoEntry]

Begin(p, step, j) ==
    /\ ~Busy(p)
    /\ pc' = [pc EXCEPT ![p] = step]
    /\ job' = [job EXCEPT ![p] = j]

End(p) ==
    /\ pc' = [pc EXCEPT ![p] = "idle"]
    /\ job' = [job EXCEPT ![p] = NoJob]

\* The goroutine starts reconcileDNS from old's DNS fields towards j.want.
BeginCalls(p, j, plan, old) ==
    LET keep == KeepsIds(plan, tunnelOn) IN
    Begin(p, "calls",
        [j EXCEPT !.drop = old,
                  !.todo = Calls(plan, old, tunnelOn),
                  !.want.data = [@ EXCEPT !.dns = IF keep THEN old.dns ELSE NoRec,
                                          !.tun = IF keep THEN old.tun ELSE NoHost]])

Ready(p, kind) == kind \in Kinds /\ ~Busy(p)

Done(p, step) == pc[p] = step /\ job[p].todo = <<>>

DnsFields(svc) == [dns |-> svc.data.dns, tun |-> svc.data.tun]

NewData(m, tgt) ==
    [direct |-> m = "direct", tgt |-> tgt, dns |-> NoRec, tun |-> NoHost]

\* The new service goes last.
IsNextOrder(order) ==
    LET orders == {idIdx[id].order : id \in LiveIds} IN
    /\ order - 1 \in {0} \cup orders
    /\ \A other \in orders : other < order

NewService(sub, entry, order, data) ==
    [sub    |-> sub,
     source |-> IF entry = NoEntry THEN "manual" ELSE "docker",
     cid    |-> IF entry = NoEntry THEN NoCid ELSE entry.cid,
     name   |-> IF entry = NoEntry THEN NoName ELSE entry.name,
     order  |-> order,
     data   |-> data]

\* createService, up to the call of reconcileDNS
BeginCreate(p) ==
    /\ Ready(p, "create")
    /\ \E id \in Id \ usedIds, m \in Modes, tgt \in Target,
          entry \in discovered \cup {NoEntry}, order \in 1..MaxOrder :
       \E sub \in IF m = "direct" THEN {DirectKey(id)} ELSE Host :
        /\ m # "direct" => ~SubdomainTaken(sub)
        /\ HostFree(sub, id) /\ Unclaimed(entry)
        /\ IsNextOrder(order)
        /\ LET want == NewService(sub, entry, order, NewData(m, tgt)) IN
           BeginCalls(p, [Job(id) EXCEPT !.want = want, !.entry = entry],
                      planDNS("direct", m, TRUE, TRUE), Nothing)
        /\ usedIds' = usedIds \cup {id}
    /\ UNCHANGED <<storeVars, cfVars, failures, discovered>>

FinishCreate(p) ==
    /\ Done(p, "calls") /\ job[p].svc = NoService
    /\ AddService(job[p].id, job[p].want)
    /\ IF job[p].entry = NoEntry
       THEN End(p)
       ELSE pc' = [pc EXCEPT ![p] = "forget"] /\ UNCHANGED job
    /\ UNCHANGED <<cfVars, failures, usedIds, discovered>>

RemoveDiscoveredMutant(entry) == UNCHANGED discovered

RemoveDiscovered(entry) == discovered' = discovered \ {entry}

Forget(p) ==
    /\ pc[p] = "forget"
    /\ RemoveDiscovered(job[p].entry)
    /\ End(p)
    /\ UNCHANGED <<storeVars, cfVars, failures, usedIds>>

\* updateService, up to the call of reconcileDNS.  No subdomain is refused, and
\* a request that names none keeps the service's, its direct key included.
BeginUpdate(p) ==
    /\ Ready(p, "update")
    /\ \E id \in LiveIds, m \in Modes, tgt \in Target :
        LET svc == idIdx[id] IN
        \E sub \in IF m # "direct" THEN Host \cup {svc.sub}
                   ELSE IF svc.data.direct THEN {svc.sub} ELSE {DirectKey(id)} :
        /\ Alone(id) /\ HostFree(sub, id)
        /\ LET want == [svc EXCEPT !.sub = sub, !.data = NewData(m, tgt)] IN
           BeginCalls(p, [Job(id) EXCEPT !.svc = svc, !.want = want],
                      planDNS(mode(svc), m, sub # svc.sub, tgt # svc.data.tgt),
                      DnsFields(svc))
    /\ UNCHANGED <<storeVars, cfVars, failures, usedIds, discovered>>

FinishUpdate(p) ==
    /\ Done(p, "calls") /\ job[p].svc # NoService /\ job[p].want # NoService
    /\ UpdateService(job[p].id, job[p].want)
    /\ End(p)
    /\ UNCHANGED <<cfVars, failures, usedIds, discovered>>

BeginDelete(p) ==
    /\ Ready(p, "delete")
    /\ \E id \in LiveIds :
        /\ Alone(id)
        /\ Begin(p, "remove", [Job(id) EXCEPT !.svc = idIdx[id]])
    /\ UNCHANGED <<storeVars, cfVars, failures, usedIds, discovered>>

\* DeleteService returns the DNS fields of the object it finds.
RemoveService(p) ==
    /\ pc[p] = "remove"
    /\ DeleteService(job[p].id)
    /\ LET drop == IF Live(job[p].id) THEN DnsFields(idIdx[job[p].id]) ELSE Nothing
       IN job' = [job EXCEPT ![p].drop = drop,
                             ![p].todo = Calls("deleteAll", drop, tunnelOn)]
    /\ pc' = [pc EXCEPT ![p] = "calls"]
    /\ UNCHANGED <<cfVars, failures, usedIds, discovered>>

\* AddDiscovered keeps one entry per container ID and per address, and a
\* container that comes back from a deleted service has none.
AddDiscovered(entry) ==
    discovered' =
        IF \E e \in discovered : e.cid = entry.cid \/ e.from # NoId
        THEN discovered
        ELSE discovered \cup {entry}

FinishDelete(p) ==
    /\ Done(p, "calls") /\ job[p].want = NoService
    /\ LET svc == job[p].svc IN
       IF svc.source = "docker" /\ svc.cid # NoCid
       THEN AddDiscovered([cid |-> svc.cid, name |-> svc.name, from |-> job[p].id])
       ELSE UNCHANGED discovered
    /\ End(p)
    /\ UNCHANGED <<storeVars, cfVars, failures, usedIds>>

\* uploadServiceIcon, clearServiceIcon, pullServiceFavicon and the favicon
\* goroutine of createService: the service read before the icon is fetched or
\* uploaded is written back with nothing but its icon changed.
BeginIcon(p) ==
    /\ Ready(p, "icon")
    /\ \E id \in LiveIds :
        /\ Alone(id)
        /\ Begin(p, "icon", [Job(id) EXCEPT !.svc = idIdx[id]])
    /\ UNCHANGED <<storeVars, cfVars, failures, usedIds, discovered>>

FinishIcon(p) ==
    /\ pc[p] = "icon"
    /\ UpdateService(job[p].id, job[p].svc)
    /\ End(p)
    /\ UNCHANGED <<cfVars, failures, usedIds, discovered>>

\* The tunnel manager's requests, one at a time: Create and Delete call
\* Cloudflare with no lock of the client held,
CreateTunnel ==
    /\ manager = "idle" /\ toggles < MaxToggles
    /\ manager' = "created"
    /\ toggles' = toggles + 1
    /\ UNCHANGED <<storeVars, zone, nextRec, ingress, tunnelOn, tunnelUp, tunnelMu,
                   failures, usedIds, discovered, pc, job>>

\* and the rules go with the tunnel.  Delete ends here when its call fails, and
\* makes none when the tunnel was made by hand (the store does not know it).
DeleteTunnel ==
    /\ manager = "idle" /\ toggles < MaxToggles
    /\ \/ /\ tunnelUp
          /\ tunnelUp' = FALSE /\ ingress' = NoRules
          /\ manager' \in {"deleted", "idle"}
       \/ UNCHANGED <<tunnelUp, ingress>> /\ manager' = "deleted"
    /\ toggles' = toggles + 1
    /\ UNCHANGED <<storeVars, zone, nextRec, tunnelOn, tunnelMu, failures, usedIds,
                   discovered, pc, job>>

SetTunnelIDMutant ==
    /\ manager # "idle"
    /\ manager' = "idle"
    /\ tunnelOn' = (manager = "created") /\ tunnelUp' = (manager = "created")
    /\ ingress' = NoRules
    /\ UNCHANGED <<storeVars, zone, nextRec, tunnelMu, toggles, failures, usedIds,
                   discovered, pc, job>>

\* Then the client gets the new tunnel's ID, or "", when tunnelMu is free.  A
\* tunnel is created without rules, and may replace one made by hand.
SetTunnelID ==
    /\ manager # "idle" /\ tunnelMu = Nobody
    /\ manager' = "idle"
    /\ tunnelOn' = (manager = "created") /\ tunnelUp' = (manager = "created")
    /\ ingress' = NoRules
    /\ UNCHANGED <<storeVars, zone, nextRec, tunnelMu, toggles, failures, usedIds,
                   discovered, pc, job>>

HandlersInit ==
    /\ Init
    /\ zone = {} /\ nextRec = 1
    /\ ingress = NoRules /\ tunnelMu = Nobody
    /\ tunnelOn \in Starts /\ tunnelUp = tunnelOn
    /\ manager = "idle" /\ toggles = 0
    /\ failures = 0
    /\ usedIds = {}
    /\ discovered = {[cid |-> c.cid, name |-> c.name, from |-> NoId] : c \in Containers}
    /\ pc = [p \in Proc |-> "idle"]
    /\ job = [p \in Proc |-> NoJob]

HandlersNext ==
    \/ \E p \in Proc :
        \/ BeginCreate(p) \/ BeginUpdate(p) \/ BeginDelete(p) \/ BeginIcon(p)
        \/ CallReturns(p) \/ CallFails(p) \/ CallSkipped(p) \/ CallModifies(p)
        \/ ReadIngress(p) \/ WriteIngress(p)
        \/ IngressRefused(p) \/ WriteIngressFails(p)
        \/ FinishCreate(p) \/ Forget(p) \/ FinishUpdate(p)
        \/ RemoveService(p) \/ FinishDelete(p) \/ FinishIcon(p)
    \/ CreateTunnel \/ DeleteTunnel \/ SetTunnelID

HandlersSpec == HandlersInit /\ [][HandlersNext]_handlerVars

-----------------------------------------------------------------------------
(* Properties *)

Record == [id : RecId, host : Sub, type : {"A", "CNAME"}]

Entry == [cid : Cid, name : CName \cup {NoName}, from : Id \cup {NoId}]

Jobs ==
    [id    : Id,
     svc   : Service \cup {NoService},
     want  : Service \cup {NoService},
     drop  : [dns : RecId \cup {NoRec}, tun : Sub \cup {NoHost}],
     todo  : Seq({"createA", "createCNAME", "deleteRecord", "deleteFound",
                  "route", "unroute", "reroute", "find"}),
     found : RecId \cup {NoRec},
     rules : [Rules -> Nat],
     entry : Entry \cup {NoEntry}]

ASSUME NullsAreApart == NoJob \notin Jobs /\ NoEntry \notin Entry

\* The types of the store, of Cloudflare's state and of the goroutines.
HandlersTypeOK ==
    /\ TypeOK
    /\ zone \subseteq Record
    /\ nextRec \in 1..MaxRecords + 1
    /\ ingress \in [Rules -> Nat]
    /\ tunnelOn \in BOOLEAN /\ tunnelUp \in BOOLEAN
    /\ manager \in {"idle", "created", "deleted"}
    /\ tunnelMu \in Proc \cup {Nobody}
    /\ toggles \in 0..MaxToggles /\ failures \in 0..MaxFailures
    /\ usedIds \subseteq Id
    /\ discovered \subseteq Entry
    /\ pc \in [Proc -> {"idle", "calls", "modify", "put", "remove", "forget", "icon"}]
    /\ \A p \in Proc : IF pc[p] = "idle" THEN job[p] = NoJob ELSE job[p] \in Jobs

Quiet == \A p \in Proc : ~Busy(p)

Undisturbed == failures = 0 /\ toggles = 0 /\ tunnelOn

RecordOf(svc) ==
    [id   |-> svc.data.dns,
     host |-> svc.sub,
     type |-> IF mode(svc) = "tunnel" THEN "CNAME" ELSE "A"]

With(modes) == {idIdx[id] : id \in {i \in LiveIds : mode(idIdx[i]) \in modes}}

\* When all requests have ended, no Cloudflare call has failed and the client
\* has had one tunnel from the start, the zone and the tunnel hold exactly what
\* the services ask for: every record and every ingress rule belongs to one
\* service, has its subdomain, type and target, and its ID is the one stored,
\* over any sequence of mode changes, renames and deletions (planDNS,
\* reconcileDNS, deleteService).
ZoneMatchesStore ==
    Quiet /\ Undisturbed =>
        /\ zone = {RecordOf(svc) : svc \in With({"A", "tunnel"})}
        /\ ingress = [rule \in Rules |->
                          IF \E svc \in With({"tunnel"}) : Rule(svc) = rule THEN 1 ELSE 0]

Orphans ==
    {rec \in zone : \A id \in LiveIds : idIdx[id].data.dns # rec.id}

\* A failing Cloudflare call costs at most one DNS record: when the client has
\* one tunnel from the start, no chain of later requests that act on half-done
\* work leaks more records than calls have failed.
LeaksBounded ==
    Quiet /\ toggles = 0 /\ tunnelOn => Cardinality(Orphans) <= failures

\* modifyIngress loses no update: as long as Cloudflare has the client's tunnel,
\* the rules a handler is about to put are what its call makes of the rules that
\* tunnel has at that moment, however many handlers change routes.  A tunnel
\* deleted after the handler asked TunnelEnabled, or between its GET and its PUT,
\* takes the call with it, and no rules read from one tunnel are put into the
\* next: SetTunnelID waits for tunnelMu.
IngressIsCurrent ==
    \A p \in Proc :
        pc[p] = "put" /\ tunnelUp =>
            job[p].rules = Modified(ingress, job[p], NextCall(p))

\* A service's record for its subdomain is only deleted on behalf of that
\* service: stale record IDs, the search of AddTunnelRoute and half-failed
\* requests never delete the record of another.
RecordsAreNotTaken ==
    [][\A rec \in zone \ zone', id \in LiveIds :
          idIdx[id].data.dns = rec.id /\ idIdx[id].sub = rec.host =>
              \E p \in Proc : Busy(p) /\ job[p].id = id
      ]_handlerVars
=============================================================================
