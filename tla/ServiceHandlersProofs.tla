------------------------ MODULE ServiceHandlersProofs ------------------------
(* Theorems about ServiceHandlers, for any number of requests at once, any    *)
(* services, hostnames and containers, and every bound on records, failures  *)
(* and creations of the tunnel.                                              *)
EXTENDS ServiceHandlers, ServiceStoreProofs, SequenceTheorems, FiniteSetTheorems

(***************************************************************************)
(* What holds whatever the users do: the types, and that a request which   *)
(* has no hostname to give makes no call but deletions.                    *)
(***************************************************************************)
AllCalls == {"createA", "createCNAME", "deleteRecord", "deleteFound",
             "route", "unroute", "reroute", "find"}

Removals == {"deleteRecord", "deleteFound", "unroute"}

OpenTo(j) == IF j.want # NoService THEN AllCalls ELSE Removals

StoreTyped ==
    /\ TypeOK
    /\ usedIds \subseteq Id
    /\ \A id \in LiveIds : idIdx[id] \in Addable /\ id \in usedIds

CloudTyped ==
    /\ zone \subseteq Record
    /\ nextRec \in 1..MaxRecords + 1
    /\ ingress \in [Rules -> Nat]
    /\ tunnelOn \in BOOLEAN /\ tunnelUp \in BOOLEAN
    /\ manager \in {"idle", "created", "deleted"}
    /\ toggles = 0 => manager = "idle" /\ tunnelUp = tunnelOn
    /\ tunnelMu \in Proc \cup {Nobody}
    /\ toggles \in 0..MaxToggles /\ failures \in 0..MaxFailures
    /\ discovered \subseteq Entry

\* The record of a request, and which of its fields a step of it needs.
JobTyped(j, step) ==
    /\ j \in Jobs
    /\ {j.svc, j.want} \subseteq Addable \cup {NoService}
    /\ j.todo \in Seq(OpenTo(j))
    /\ j.want = NoService => j.svc # NoService
    /\ step \in {"modify", "put"} => j.todo # <<>> /\ NeedsTunnel(Head(j.todo))
    /\ step \in {"remove", "icon"} => j.want = NoService
    /\ step = "forget" => j.svc = NoService
    /\ j.svc # NoService => j.entry = NoEntry
    /\ j.entry # NoEntry => j.want.cid = j.entry.cid /\ j.want.name = j.entry.name

JobsTyped ==
    /\ pc \in [Proc -> {"idle", "calls", "modify", "put", "remove", "forget", "icon"}]
    /\ job = [p \in Proc |-> job[p]]
    /\ \A p \in Proc : IF pc[p] = "idle" THEN job[p] = NoJob
                      ELSE /\ JobTyped(job[p], pc[p])
                           /\ job[p].id \in usedIds

Typed == StoreTyped /\ CloudTyped /\ JobsTyped

\* The objects that stand for one service: the one stored, and those the
\* requests about it have read or are building.
Owners(id) == {p \in Proc : Busy(p) /\ job[p].id = id}

VersionsOf(id) ==
    {svc \in {idIdx[id]} \cup {job[p].svc : p \in Owners(id)}
                         \cup {job[p].want : p \in Owners(id)} : svc # NoService}

\* A service keeps its source and its container through every version.
Origin(svc) == <<svc.source, svc.cid, svc.name>>

OriginsKept == \A id \in Id : \A v, w \in VersionsOf(id) : Origin(v) = Origin(w)

\* Who puts the ingress rules has tunnelMu.
LockHeld == \A p \in Proc : pc[p] = "put" <=> tunnelMu = p

\* Every caller, whatever it writes, is a caller of the store.
CallerInv == Typed /\ IndexSound /\ OriginsKept /\ LockHeld /\ IngressIsCurrent

(***************************************************************************)
(* What holds when users only ask for free subdomains.                     *)
(***************************************************************************)
SubsApart ==
    \A id, other \in Id : id # other =>
        \A v \in VersionsOf(id), w \in VersionsOf(other) : v.sub # w.sub

FreeSubs == CallerInv /\ SubsApart

(***************************************************************************)
(* What holds when users wait for the last request about a service to end. *)
(***************************************************************************)
OneEach ==
    \A p, q \in Proc : p # q /\ Busy(p) /\ Busy(q) =>
        /\ job[p].id # job[q].id
        /\ job[p].entry # NoEntry => job[p].entry # job[q].entry

\* deleteService removes the service before it makes its calls.
DeletedIsGone ==
    \A p \in Proc : pc[p] \in {"calls", "modify", "put"} /\ job[p].want = NoService =>
        ~Live(job[p].id)

Apart(v, w) ==
    /\ v.cid = w.cid => v.cid = NoCid
    /\ v.name = w.name => v.name = NoName

ContainersApart ==
    \A id, other \in Id : id # other =>
        \A v \in VersionsOf(id), w \in VersionsOf(other) : Apart(v, w)

\* A container is offered once, and while it is, the only service that has it
\* is the one it is being assigned to.
SameContainer(a, b) == a.cid = b.cid \/ (a.name = b.name /\ a.name # NoName)

OffersApart ==
    /\ \A e, f \in discovered : e # f => ~SameContainer(e, f)
    /\ \A e \in discovered, id \in Id : \A v \in VersionsOf(id) :
           SameContainer(e, v) => \E p \in Owners(id) : job[p].entry = e

\* When nothing was ever discovered, nobody has a container.
NoContainers ==
    /\ discovered = {}
    /\ \A id \in Id : \A v \in VersionsOf(id) : v.cid = NoCid /\ v.name = NoName

TakingTurns ==
    CallerInv /\ OneEach /\ DeletedIsGone /\ ContainersApart /\ OffersApart

CarefulHandlers == TakingTurns /\ SubsApart

(***************************************************************************)
(* The DNS records a service knows of, or a request about it may delete,   *)
(* whatever the users do.                                                  *)
(***************************************************************************)
RecsOf(id) ==
    ({svc.data.dns : svc \in VersionsOf(id)} \cup {job[p].drop.dns : p \in Owners(id)})
        \ {NoRec}

RecordsApart ==
    /\ \A id, other \in Id : id # other => RecsOf(id) \cap RecsOf(other) = {}
    /\ \A id \in Id : \A rec \in RecsOf(id) : rec < nextRec

\* FindRecord looked for the record of the hostname the request is about.
FoundIsOfHost ==
    /\ \A rec \in zone : rec.id < nextRec
    /\ \A r, s \in zone : r.id = s.id => r = s
    /\ \A p \in Proc : Busy(p) /\ job[p].found # NoRec =>
           /\ job[p].found < nextRec
           /\ \A rec \in zone : rec.id = job[p].found =>
                  job[p].want # NoService /\ rec.host = job[p].want.sub

RecordsInv == CallerInv /\ RecordsApart /\ FoundIsOfHost

-----------------------------------------------------------------------------
(* What a call makes of its request *)

SameKeys(v, w) == v.sub = w.sub /\ Origin(v) = Origin(w)

\* A call moves a request on without changing what it is about.
Advances(j, k) ==
    /\ k.id = j.id /\ k.svc = j.svc /\ k.drop = j.drop /\ k.entry = j.entry
    /\ k.want = NoService <=> j.want = NoService
    /\ k.want # NoService => SameKeys(k.want, j.want)

Moved(j, todo, rules, found) == [j EXCEPT !.todo = todo, !.rules = rules, !.found = found]

\* The request makes progress in its list of calls, or ends it.
LEMMA TodoAdvances ==
    ASSUME NEW j, NEW step \in {"calls", "modify", "put"}, JobTyped(j, step),
           NEW todo \in Seq(OpenTo(j)), NEW rules \in [Rules -> Nat],
           NEW found \in RecId \cup {NoRec}, NEW k,
           k = Moved(j, todo, rules, found)
    PROVE  /\ JobTyped(k, "calls") /\ Advances(j, k)
           /\ k.todo = todo /\ k.rules = rules /\ k.found = found /\ k.want = j.want
<1>1. j \in Jobs
  BY DEF JobTyped
<1>2. /\ k.id = j.id /\ k.svc = j.svc /\ k.want = j.want /\ k.drop = j.drop
      /\ k.entry = j.entry /\ k.todo = todo /\ k.rules = rules /\ k.found = found
  BY <1>1 DEF Jobs, Moved
<1>3. todo \in Seq(AllCalls)
  <2>1. OpenTo(j) \subseteq AllCalls
    BY DEF OpenTo, AllCalls, Removals
  <2> QED BY <2>1, SeqMonotonic
<1>4. k \in Jobs
  BY <1>1, <1>3 DEF Jobs, AllCalls, Moved
<1>5. k.todo \in Seq(OpenTo(k))
  BY <1>2 DEF OpenTo
<1>6. JobTyped(k, "calls")
  BY <1>2, <1>4, <1>5 DEF JobTyped
<1> QED BY <1>2, <1>6 DEF Advances, SameKeys

\* reconcileDNS returns: the object has the IDs.
LEMMA ReturnAdvances ==
    ASSUME NEW j, JobTyped(j, "calls"), j.want # NoService,
           NEW dns \in RecId \cup {NoRec}, NEW tun \in Sub \cup {NoHost}
    PROVE  /\ JobTyped(Return(j, dns, tun), "calls") /\ Advances(j, Return(j, dns, tun))
           /\ Return(j, dns, tun).want.data.dns = dns
           /\ Return(j, dns, tun).found = j.found
<1> USE NoServiceAssumption
<1>1. j \in Jobs /\ j.want \in Addable /\ Payload = Data
  BY HandlersAssumption DEF JobTyped
<1>2. PICK data \in Data : data = [j.want.data EXCEPT !.dns = dns, !.tun = tun]
  BY <1>1 DEF Addable, Service, Data
<1>3. PICK want : want = [j.want EXCEPT !.data = data]
  OBVIOUS
<1>4. /\ want \in Addable /\ want.sub = j.want.sub /\ Origin(want) = Origin(j.want)
      /\ want.data = data /\ want.cid = j.want.cid /\ want.name = j.want.name
  BY <1>1, <1>2, <1>3 DEF Addable, Service, Origin
<1>5. PICK k : k = [j EXCEPT !.todo = <<>>, !.want = want]
  OBVIOUS
<1>6. /\ k.id = j.id /\ k.svc = j.svc /\ k.want = want /\ k.drop = j.drop
      /\ k.entry = j.entry /\ k.todo = <<>> /\ k.found = j.found
  BY <1>1, <1>5 DEF Jobs
<1>7. k \in Jobs
  <2>1. <<>> \in Seq(AllCalls) /\ want \in Service
    BY <1>4 DEF Addable
  <2> QED BY <1>1, <1>5, <2>1 DEF Jobs, AllCalls
<1>8. want # NoService
  BY <1>4 DEF Addable
<1>9. JobTyped(k, "calls")
  BY <1>1, <1>4, <1>6, <1>7, <1>8 DEF JobTyped, OpenTo
<1>10. Return(j, dns, tun) = k
  <2>1. Return(j, dns, tun) = [j EXCEPT !.todo = <<>>, !.want = [j.want EXCEPT !.data = data]]
    BY <1>1, <1>2 DEF Return, Jobs, Addable, Service
  <2> QED BY <1>3, <1>5, <2>1
<1>11. data.dns = dns
  BY <1>1, <1>2 DEF Addable, Service, Data
<1> QED BY <1>4, <1>6, <1>8, <1>9, <1>10, <1>11 DEF Advances, SameKeys

\* What is left to do after a call is open to the request, too.
LEMMA RestOfTodo ==
    ASSUME NEW j, NEW step \in {"calls", "modify", "put"}, JobTyped(j, step), j.todo # <<>>
    PROVE  /\ Head(j.todo) \in OpenTo(j)
           /\ Tail(j.todo) \in Seq(OpenTo(j)) /\ <<>> \in Seq(OpenTo(j))
           /\ Tail(j.todo) # <<>> => Tail(Tail(j.todo)) \in Seq(OpenTo(j))
           /\ <<"deleteFound">> \o Tail(j.todo) \in Seq(OpenTo(j))
<1>1. j.todo \in Seq(OpenTo(j))
  BY DEF JobTyped
<1>2. Head(j.todo) \in OpenTo(j) /\ Tail(j.todo) \in Seq(OpenTo(j))
  BY <1>1, HeadTailProperties
<1>3. Tail(j.todo) # <<>> => Tail(Tail(j.todo)) \in Seq(OpenTo(j))
  BY <1>2, HeadTailProperties
<1>4. <<"deleteFound">> \in Seq(OpenTo(j))
  <2>1. PICK S : S = OpenTo(j)
    OBVIOUS
  <2>2. "deleteFound" \in S
    BY <2>1 DEF OpenTo, AllCalls, Removals
  <2>3. <<"deleteFound">> \in Seq(S)
    BY ONLY <2>2
  <2> QED BY <2>1, <2>3
<1> QED BY <1>2, <1>3, <1>4, ConcatProperties

\* The ways a call that makes no IDs ends.
LEMMA SkipAdvances ==
    ASSUME NEW j, NEW step \in {"calls", "modify", "put"}, JobTyped(j, step), j.todo # <<>>,
           NEW k \in {Skip(j), SkipDeletion(j), [j EXCEPT !.todo = <<>>, !.rules = NoRules]}
                         \cup {DeleteFirst(j, rec) : rec \in Record}
    PROVE  /\ JobTyped(k, "calls") /\ Advances(j, k) /\ k.want = j.want
           /\ k.found = j.found \/ \E rec \in Record : k = DeleteFirst(j, rec) /\ k.found = rec.id
<1>1. j \in Jobs
  BY DEF JobTyped
<1>2. NoRules \in [Rules -> Nat]
  BY DEF NoRules
<1>3. CASE k \in {Skip(j), SkipDeletion(j), [j EXCEPT !.todo = <<>>, !.rules = NoRules]}
  <2>1. PICK todo : /\ k = [j EXCEPT !.todo = todo, !.rules = NoRules]
                    /\ todo \in {<<>>, Tail(j.todo)}
                         \cup {s \in {Tail(Tail(j.todo))} : Tail(j.todo) # <<>>}
    BY <1>3 DEF Skip, SkipDeletion
  <2>2. todo \in Seq(OpenTo(j))
    BY <2>1, RestOfTodo
  <2>3. k = Moved(j, todo, NoRules, j.found)
    BY <1>1, <2>1 DEF Jobs, Moved
  <2>4. j.found \in RecId \cup {NoRec}
    BY <1>1 DEF Jobs
  <2>5. JobTyped(k, "calls") /\ Advances(j, k) /\ k.found = j.found /\ k.want = j.want
    BY ONLY JobTyped(j, step), step \in {"calls", "modify", "put"},
            <1>2, <2>2, <2>3, <2>4, TodoAdvances
  <2> QED BY <2>5
<1>4. CASE \E rec \in Record : k = DeleteFirst(j, rec)
  <2>1. PICK rec \in Record : k = DeleteFirst(j, rec)
    BY <1>4
  <2>2. PICK todo : todo = <<"deleteFound">> \o Tail(j.todo)
    OBVIOUS
  <2>3. todo \in Seq(OpenTo(j))
    BY <2>2, RestOfTodo
  <2>4. k = Moved(j, todo, j.rules, rec.id)
    BY <1>1, <2>1, <2>2 DEF Jobs, DeleteFirst, Moved
  <2>5. rec.id \in RecId \cup {NoRec} /\ j.rules \in [Rules -> Nat]
    BY <1>1 DEF Jobs, Record
  <2>6. JobTyped(k, "calls") /\ Advances(j, k) /\ k.found = rec.id /\ k.want = j.want
    BY ONLY JobTyped(j, step), step \in {"calls", "modify", "put"},
            <2>3, <2>4, <2>5, TodoAdvances
  <2> QED BY <2>1, <2>6
<1> QED BY <1>3, <1>4

\* A call that fails.
LEMMA FailedAdvances ==
    ASSUME NEW j, NEW step \in {"calls", "modify", "put"}, JobTyped(j, step), j.todo # <<>>
    PROVE  /\ JobTyped(Failed(j, Head(j.todo)), "calls")
           /\ Advances(j, Failed(j, Head(j.todo)))
           /\ Failed(j, Head(j.todo)).want = j.want /\ Failed(j, Head(j.todo)).found = j.found
<1>1. PICK k : k = Failed(j, Head(j.todo))
  OBVIOUS
<1>2. k \in {Skip(j), SkipDeletion(j), [j EXCEPT !.todo = <<>>, !.rules = NoRules]}
  BY <1>1 DEF Failed
<1>3. k.found = j.found
  <2>1. j \in Jobs
    BY DEF JobTyped
  <2> QED BY <1>2, <2>1 DEF Jobs, Skip, SkipDeletion
<1> QED BY <1>1, <1>2, <1>3, SkipAdvances

-----------------------------------------------------------------------------
(* The steps between a handler's reads and its writes of the store *)

\* What the tunnel manager does.
TunnelStep == CreateTunnel \/ DeleteTunnel \/ SetTunnelID

Becomes(p, k, step) ==
    /\ job' = [q \in Proc |-> IF q = p THEN k ELSE job[q]]
    /\ pc' = [q \in Proc |-> IF q = p THEN step ELSE pc[q]]

CallStep(p, k, step) ==
    /\ pc[p] \in {"calls", "modify", "put"} /\ step \in {"calls", "modify", "put"}
    /\ Becomes(p, k, step)
    /\ JobTyped(k, step) /\ Advances(job[p], k)
    /\ UNCHANGED <<storeVars, usedIds, discovered>>

\* The ways an action writes a request's record and its next step.
LEMMA BecomesIs ==
    ASSUME JobsTyped, NEW p \in Proc, NEW k, NEW step
    PROVE  /\ job' = [job EXCEPT ![p] = k] /\ pc' = [pc EXCEPT ![p] = step]
                  => Becomes(p, k, step)
           /\ job' = [job EXCEPT ![p] = k] /\ pc' = pc => Becomes(p, k, pc[p])
           /\ UNCHANGED job /\ pc' = [pc EXCEPT ![p] = step] => Becomes(p, job[p], step)
BY DEF JobsTyped, Becomes

\* Who is among its calls has a record of the right shape.
LEMMA CallingJob ==
    ASSUME Typed, NEW p \in Proc, pc[p] \in {"calls", "modify", "put"}
    PROVE  JobTyped(job[p], pc[p]) /\ job[p] \in Jobs /\ Busy(p)
BY NullsAreApart DEF Typed, JobsTyped, JobTyped, Busy

\* What a call needs to know of its request.
LEMMA OpenCall ==
    ASSUME NEW j, NEW step \in {"calls", "modify", "put"}, JobTyped(j, step), j.todo # <<>>,
           Head(j.todo) \in {"createA", "createCNAME", "find", "route", "reroute"}
    PROVE  j.want # NoService /\ j.want.sub \in Sub /\ j.want \in Addable
BY RestOfTodo DEF JobTyped, OpenTo, Removals, Addable, Service

\* Cloudflare's part of a call.
LEMMA EffectTyped ==
    ASSUME Typed, NEW p \in Proc, Pending(p), Effect(job[p], NextCall(p)),
           ~NeedsTunnel(NextCall(p))
    PROVE  /\ zone' \subseteq Record /\ nextRec' \in 1..MaxRecords + 1
           /\ nextRec <= nextRec'
           /\ NextCall(p) \in {"createA", "createCNAME"} =>
                  nextRec \in RecId /\ nextRec' = nextRec + 1
<1>1. JobTyped(job[p], "calls") /\ job[p].todo # <<>> /\ Head(job[p].todo) = NextCall(p)
  BY CallingJob DEF Pending, NextCall
<1>2. NextCall(p) \in {"createA", "createCNAME"} => job[p].want.sub \in Sub
  BY <1>1, OpenCall
<1>3. /\ zone \subseteq Record /\ nextRec \in 1..MaxRecords + 1 /\ MaxRecords \in Nat
  BY HandlersAssumption DEF Typed, CloudTyped
<1>4. CASE NextCall(p) \in {"createA", "createCNAME"}
  <2>1. \E type \in {"A", "CNAME"} : Insert(job[p].want.sub, type)
    BY <1>4 DEF Effect
  <2> QED BY <1>2, <1>3, <1>4, <2>1 DEF Insert, Record, RecId
<1>5. CASE NextCall(p) \in {"deleteRecord", "deleteFound", "find"}
  <2>1. nextRec' = nextRec /\ (zone' = zone \/ \E rec : zone' = {r \in zone : r.id # rec})
    BY <1>5 DEF Effect, DeleteRecord
  <2>2. zone' \subseteq zone
    BY <2>1
  <2> QED BY <1>3, <1>5, <2>1, <2>2
<1>6. NextCall(p) \in AllCalls
  BY <1>1, RestOfTodo DEF OpenTo, Removals, AllCalls
<1> QED BY <1>4, <1>5, <1>6 DEF AllCalls, NeedsTunnel

\* A record ID that a request learns is the one the zone has just given.
Learns(p, k) ==
    /\ k.want # NoService =>
           \/ k.want.data.dns \in {job[p].want.data.dns, NoRec}
           \/ k.want.data.dns = nextRec /\ nextRec' = nextRec + 1
    /\ \/ k.found = job[p].found /\ UNCHANGED <<zone, nextRec>>
       \/ /\ k.found = job[p].found
          /\ Pending(p) /\ ~NeedsTunnel(NextCall(p)) /\ Effect(job[p], NextCall(p))
       \/ /\ k.want = job[p].want /\ k.want # NoService /\ UNCHANGED <<zone, nextRec>>
          /\ \E rec \in RecordsFor(job[p].want.sub) : k.found = rec.id

\* A call that returns touches the zone or the rules, and of the requests its own.
LEMMA CallReturnsTakes ==
    ASSUME Typed, NEW p \in Proc, CallReturns(p)
    PROVE  CloudTyped' /\ \E k : CallStep(p, k, "calls") /\ Learns(p, k)
<1> DEFINE j == job[p]
<1>1. JobTyped(j, "calls") /\ j.todo # <<>> /\ Head(j.todo) = NextCall(p) /\ pc[p] = "calls"
      /\ ~NeedsTunnel(NextCall(p)) /\ JobTyped(j, pc[p]) /\ j \in Jobs
  BY CallingJob DEF CallReturns, Pending, NextCall
<1>2. Head(j.todo) \in {"createA", "createCNAME", "find"} =>
          j.want # NoService /\ j.want.sub \in Sub /\ j.want \in Addable
  BY <1>1, OpenCall
<1>3. /\ UNCHANGED <<storeVars, ingress, tunnelOn, tunnelUp, manager, tunnelMu, toggles, failures,
                     usedIds, discovered, pc>>
      /\ Pending(p)
  BY DEF CallReturns
<1>4. \A k : job' = [job EXCEPT ![p] = k] /\ JobTyped(k, "calls") /\ Advances(j, k) =>
          CallStep(p, k, "calls")
  BY <1>1, <1>3, BecomesIs DEF CallStep, Typed
<1>5. CASE /\ Accepts(j, NextCall(p)) /\ Effect(j, NextCall(p))
           /\ \E k \in Succeeded(j, NextCall(p)) : job' = [job EXCEPT ![p] = k]
  <2>1. PICK k \in Succeeded(j, NextCall(p)) : job' = [job EXCEPT ![p] = k]
    BY <1>5
  <2>2. /\ zone' \subseteq Record /\ nextRec' \in 1..MaxRecords + 1
        /\ NextCall(p) \in {"createA", "createCNAME"} =>
               nextRec \in RecId /\ nextRec' = nextRec + 1
    BY <1>1, <1>5, EffectTyped DEF CallReturns
  <2>3. CloudTyped'
    BY <1>3, <2>2 DEF CloudTyped, Typed
  <2>4. CASE NextCall(p) \in {"createA", "createCNAME"}
    <3>1. PICK tun \in Sub \cup {NoHost} : k = Return(j, nextRec, tun)
      BY <1>1, <1>2, <2>1, <2>4 DEF Succeeded
    <3>2. /\ JobTyped(k, "calls") /\ Advances(j, k) /\ k.want.data.dns = nextRec
          /\ k.found = j.found
      BY <1>1, <1>2, <2>2, <2>4, <3>1, ReturnAdvances
    <3> QED BY <1>1, <1>3, <1>4, <1>5, <2>1, <2>2, <2>3, <2>4, <3>2 DEF Learns
  <2>5. CASE NextCall(p) = "find" /\ RecordsFor(j.want.sub) # {}
    <3>1. PICK rec \in RecordsFor(j.want.sub) : k = DeleteFirst(j, rec)
      BY <2>1, <2>5 DEF Succeeded
    <3>2. rec \in Record
      BY <3>1 DEF RecordsFor, Typed, CloudTyped
    <3>3. /\ JobTyped(k, "calls") /\ Advances(j, k) /\ k.want = j.want
      BY <1>1, <3>1, <3>2, SkipAdvances
    <3>4. k.found = rec.id
      BY <1>1, <3>1 DEF DeleteFirst, Jobs
    <3>5. UNCHANGED <<zone, nextRec>>
      BY <1>5, <2>5 DEF Effect
    <3> QED BY <1>1, <1>2, <1>4, <2>1, <2>3, <2>5, <3>1, <3>3, <3>4, <3>5 DEF Learns
  <2>6. CASE /\ NextCall(p) \notin {"createA", "createCNAME"}
             /\ ~(NextCall(p) = "find" /\ RecordsFor(j.want.sub) # {})
    <3>1. k = Skip(j)
      BY <2>1, <2>6 DEF Succeeded
    <3>2. JobTyped(k, "calls") /\ Advances(j, k) /\ k.want = j.want
      BY <1>1, <3>1, SkipAdvances
    <3>3. k.found = j.found
      BY <1>1, <3>1 DEF Skip, Jobs
    <3> QED BY <1>1, <1>3, <1>4, <1>5, <2>1, <2>3, <3>2, <3>3 DEF Learns
  <2> QED BY <2>4, <2>5, <2>6
<1>6. CASE job' = [job EXCEPT ![p] = Failed(@, NextCall(p))] /\ UNCHANGED <<zone, nextRec>>
  <2>1. PICK k : k = Failed(j, Head(j.todo))
    OBVIOUS
  <2>2. JobTyped(k, "calls") /\ Advances(j, k) /\ k.want = j.want /\ k.found = j.found
    BY <1>1, <2>1, FailedAdvances
  <2>3. job' = [job EXCEPT ![p] = k]
    BY <1>1, <1>6, <2>1
  <2>4. CloudTyped'
    BY <1>3, <1>6 DEF CloudTyped, Typed
  <2> QED BY <1>4, <1>6, <2>2, <2>3, <2>4 DEF Learns
<1> QED BY <1>5, <1>6 DEF CallReturns

\* So does one that fails, before its effect or after it.
LEMMA CallFailsTakes ==
    ASSUME Typed, NEW p \in Proc, CallFails(p)
    PROVE  CloudTyped' /\ \E k : CallStep(p, k, "calls") /\ Learns(p, k)
<1> DEFINE j == job[p]
<1>1. JobTyped(j, "calls") /\ j.todo # <<>> /\ Head(j.todo) = NextCall(p) /\ pc[p] = "calls"
  BY CallingJob DEF CallFails, Pending, NextCall
<1>2. UNCHANGED <<storeVars, ingress, tunnelOn, tunnelUp, manager, tunnelMu, toggles, usedIds, discovered, pc>>
  BY DEF CallFails
<1>3. /\ zone' \subseteq Record /\ nextRec' \in 1..MaxRecords + 1
      /\ Effect(j, NextCall(p)) \/ UNCHANGED <<zone, nextRec>>
      /\ Pending(p) /\ ~NeedsTunnel(NextCall(p))
  BY EffectTyped DEF CallFails, Typed, CloudTyped
<1>4. failures' \in 0..MaxFailures
  BY HandlersAssumption DEF CallFails, Typed, CloudTyped
<1>5. CloudTyped'
  BY <1>2, <1>3, <1>4 DEF Typed, CloudTyped
<1>6. PICK k : k = Failed(j, Head(j.todo))
  OBVIOUS
<1>7. JobTyped(k, "calls") /\ Advances(j, k) /\ k.want = j.want /\ k.found = j.found
  BY <1>1, <1>6, FailedAdvances
<1>8. job' = [job EXCEPT ![p] = k]
  BY <1>1, <1>6 DEF CallFails
<1>9. CallStep(p, k, "calls")
  BY <1>1, <1>2, <1>7, <1>8, BecomesIs DEF CallStep, Typed
<1> QED BY <1>3, <1>5, <1>7, <1>9 DEF Learns

\* So does one that is left out because the tunnel is gone.
LEMMA CallSkippedTakes ==
    ASSUME Typed, NEW p \in Proc, CallSkipped(p)
    PROVE  CloudTyped' /\ \E k : CallStep(p, k, "calls") /\ Learns(p, k)
<1> DEFINE j == job[p]
<1>1. /\ JobTyped(j, "calls") /\ j.todo # <<>> /\ Head(j.todo) = NextCall(p) /\ pc[p] = "calls"
      /\ NeedsTunnel(NextCall(p)) /\ j \in Jobs
  BY CallingJob DEF CallSkipped, Pending, NextCall
<1>2. /\ UNCHANGED <<storeVars, cfVars, failures, usedIds, discovered, pc>>
      /\ job' = [job EXCEPT ![p] = TunnelGone(@, NextCall(p))]
  BY DEF CallSkipped
<1>3. CloudTyped' /\ UNCHANGED <<zone, nextRec>>
  BY <1>2 DEF Typed, CloudTyped, cfVars
<1>4. PICK k : k = TunnelGone(j, NextCall(p)) /\ job' = [job EXCEPT ![p] = k]
  BY <1>2
<1>5. /\ JobTyped(k, "calls") /\ Advances(j, k) /\ k.found = j.found
      /\ k.want # NoService => k.want.data.dns \in {j.want.data.dns, NoRec}
  <2>1. CASE NextCall(p) = "unroute"
    <3>1. k = SkipDeletion(j)
      BY <1>4, <2>1 DEF TunnelGone
    <3>2. JobTyped(k, "calls") /\ Advances(j, k) /\ k.want = j.want
      BY <1>1, <3>1, SkipAdvances
    <3>3. k.found = j.found
      BY <1>1, <3>1 DEF SkipDeletion, Jobs
    <3> QED BY <3>2, <3>3
  <2>2. CASE NextCall(p) # "unroute"
    <3>1. k = Return(j, NoRec, j.want.sub)
      BY <1>4, <2>2 DEF TunnelGone
    <3>2. j.want # NoService /\ j.want.sub \in Sub \cup {NoHost}
      BY <1>1, <2>2, OpenCall DEF NeedsTunnel
    <3>3. PICK dns, tun : dns = NoRec /\ tun = j.want.sub
      OBVIOUS
    <3>4. dns \in RecId \cup {NoRec} /\ tun \in Sub \cup {NoHost}
      BY <3>2, <3>3
    <3>5. PICK h : h = j
      OBVIOUS
    <3>6. JobTyped(h, "calls") /\ h.want # NoService
      BY <1>1, <3>2, <3>5
    <3>7. /\ JobTyped(Return(h, dns, tun), "calls") /\ Advances(h, Return(h, dns, tun))
          /\ Return(h, dns, tun).want.data.dns = dns
          /\ Return(h, dns, tun).found = h.found
      BY ONLY <3>4, <3>6, ReturnAdvances
    <3>8. k = Return(h, dns, tun)
      BY <3>1, <3>3, <3>5
    <3> QED BY <3>3, <3>5, <3>7, <3>8
  <2> QED BY <2>1, <2>2
<1>6. CallStep(p, k, "calls")
  BY <1>1, <1>2, <1>4, <1>5, BecomesIs DEF CallStep, Typed
<1> QED BY <1>3, <1>5, <1>6 DEF Learns

\* What the ingress calls put is again a tunnel's rules.
LEMMA ModifiedTyped ==
    ASSUME NEW rules \in [Rules -> Nat], NEW j, NEW call \in {"route", "unroute", "reroute"}
    PROVE  Modified(rules, j, call) \in [Rules -> Nat]
<1>1. \A host : removeHostname(rules, host) \in [Rules -> Nat]
  BY DEF removeHostname
<1>2. ASSUME NEW old \in [Rules -> Nat], NEW rule
      PROVE  appendRule(old, rule) \in [Rules -> Nat]
  <2>1. appendRule(old, rule) = [r \in Rules |-> IF r = rule THEN old[r] + 1 ELSE old[r]]
    BY DEF appendRule
  <2>2. \A r \in Rules : old[r] \in Nat /\ old[r] + 1 \in Nat
    OBVIOUS
  <2> QED BY <2>1, <2>2
<1>3. removeHostname(rules, j.want.sub) \in [Rules -> Nat]
      /\ removeHostname(rules, j.svc.sub) \in [Rules -> Nat]
      /\ removeHostname(rules, j.drop.tun) \in [Rules -> Nat]
  BY <1>1
<1>4. CASE call = "route"
  BY <1>2, <1>3, <1>4 DEF Modified
<1>5. CASE call = "unroute"
  BY <1>3, <1>5 DEF Modified
<1>6. CASE call = "reroute"
  BY <1>2, <1>3, <1>6 DEF Modified
<1> QED BY <1>4, <1>5, <1>6

\* A request that finds TunnelEnabled goes on to modifyIngress as it is.
LEMMA CallModifiesTakes ==
    ASSUME Typed, NEW p \in Proc, CallModifies(p)
    PROVE  /\ CloudTyped' /\ UNCHANGED <<zone, nextRec, ingress>>
           /\ CallStep(p, job[p], "modify") /\ Learns(p, job[p])
<1> DEFINE j == job[p]
<1>1. /\ JobTyped(j, "calls") /\ j.todo # <<>> /\ Head(j.todo) = NextCall(p) /\ pc[p] = "calls"
      /\ NeedsTunnel(NextCall(p)) /\ j \in Jobs
  BY CallingJob DEF CallModifies, Pending, NextCall
<1>2. /\ UNCHANGED <<storeVars, cfVars, failures, usedIds, discovered, job>>
      /\ pc' = [pc EXCEPT ![p] = "modify"]
  BY DEF CallModifies
<1>3. CloudTyped' /\ UNCHANGED <<zone, nextRec, ingress>>
  BY <1>2 DEF Typed, CloudTyped, cfVars
<1>4. JobTyped(j, "modify") /\ Advances(j, j)
  BY <1>1 DEF JobTyped, Advances, SameKeys
<1>5. CallStep(p, j, "modify")
  BY <1>1, <1>2, <1>4, BecomesIs DEF CallStep, Typed
<1> QED BY <1>3, <1>5 DEF Learns

\* modifyIngress changes nothing of a request but the rules it is about to put.
LEMMA ReadIngressTakes ==
    ASSUME Typed, NEW p \in Proc, ReadIngress(p)
    PROVE  /\ CloudTyped' /\ UNCHANGED <<zone, nextRec, ingress>>
           /\ tunnelMu = Nobody /\ tunnelMu' = p
           /\ \E k : /\ CallStep(p, k, "put") /\ Learns(p, k)
                     /\ k.rules = Modified(ingress, job[p], NextCall(p))
                     /\ k.want = job[p].want /\ Head(k.todo) = NextCall(p)
<1> DEFINE j == job[p]
<1>1. /\ JobTyped(j, "modify") /\ j.todo # <<>> /\ Head(j.todo) = NextCall(p)
      /\ pc[p] = "modify" /\ NeedsTunnel(NextCall(p)) /\ j \in Jobs
  BY CallingJob DEF ReadIngress, JobTyped, NextCall
<1>2. /\ UNCHANGED <<storeVars, zone, nextRec, ingress, tunnelOn, tunnelUp, manager, toggles, failures,
                     usedIds, discovered>>
      /\ tunnelMu = Nobody /\ tunnelMu' = p
  BY DEF ReadIngress, LockTunnel
<1>3. CloudTyped'
  BY <1>2 DEF Typed, CloudTyped
<1>4. PICK rules : rules = Modified(ingress, j, NextCall(p))
  OBVIOUS
<1>5. rules \in [Rules -> Nat]
  BY <1>1, <1>4, ModifiedTyped DEF Typed, CloudTyped, NeedsTunnel
<1>6. PICK k : k = Moved(j, j.todo, rules, j.found)
  OBVIOUS
<1>7. j.todo \in Seq(OpenTo(j)) /\ j.found \in RecId \cup {NoRec}
  BY <1>1 DEF Jobs, JobTyped
<1>8. /\ JobTyped(k, "calls") /\ Advances(j, k)
      /\ k.todo = j.todo /\ k.rules = rules /\ k.found = j.found /\ k.want = j.want
  BY ONLY <1>1, <1>5, <1>6, <1>7, TodoAdvances
<1>9. JobTyped(k, "put")
  BY <1>1, <1>8 DEF JobTyped
<1>10. job' = [job EXCEPT ![p] = k]
  <2>1. k = [j EXCEPT !.rules = rules]
    BY <1>1, <1>6 DEF Moved, Jobs
  <2> QED BY <1>4, <2>1 DEF ReadIngress
<1>11. CallStep(p, k, "put")
  BY <1>1, <1>2, <1>8, <1>9, <1>10, BecomesIs DEF CallStep, Typed, ReadIngress
<1> QED BY <1>1, <1>2, <1>3, <1>4, <1>8, <1>11 DEF Learns

\* It lets go of tunnelMu, whether the rules are put or not.
LEMMA WriteIngressTakes ==
    ASSUME Typed, NEW p \in Proc, WriteIngress(p) \/ WriteIngressFails(p)
    PROVE  /\ CloudTyped' /\ UNCHANGED <<zone, nextRec>>
           /\ pc[p] = "put" /\ tunnelMu' = Nobody
           /\ ingress' \in {ingress, job[p].rules}
           /\ \E k : CallStep(p, k, "calls") /\ Learns(p, k)
<1> DEFINE j == job[p]
<1>1. pc[p] = "put" /\ tunnelMu' = Nobody /\ pc' = [pc EXCEPT ![p] = "calls"]
      /\ ingress' \in {ingress, job[p].rules}
      /\ UNCHANGED <<storeVars, zone, nextRec, tunnelOn, tunnelUp, manager, toggles, usedIds, discovered>>
  BY DEF WriteIngress, WriteIngressFails
<1>2. JobTyped(j, "put") /\ j \in Jobs /\ j.todo # <<>>
  BY <1>1, CallingJob DEF JobTyped
<1>3. failures' \in 0..MaxFailures
  BY HandlersAssumption DEF WriteIngress, WriteIngressFails, Typed, CloudTyped
<1>4. ingress' \in [Rules -> Nat]
  BY <1>1, <1>2 DEF Typed, CloudTyped, Jobs
<1>5. CloudTyped'
  BY <1>1, <1>3, <1>4 DEF Typed, CloudTyped
<1>6. PICK k \in {Skip(j), Failed(j, Head(j.todo))} : job' = [job EXCEPT ![p] = k]
  BY DEF WriteIngress, WriteIngressFails, NextCall
<1>7. JobTyped(k, "calls") /\ Advances(j, k) /\ k.want = j.want /\ k.found = j.found
  <2>1. CASE k = Skip(j)
    <3>1. k.found = j.found
      BY <1>2, <2>1 DEF Skip, Jobs
    <3> QED BY <1>2, <2>1, <3>1, SkipAdvances
  <2>2. CASE k = Failed(j, Head(j.todo))
    BY <1>2, <2>2, FailedAdvances
  <2> QED BY <1>6, <2>1, <2>2
<1>8. CallStep(p, k, "calls")
  BY <1>1, <1>6, <1>7, BecomesIs DEF CallStep, Typed
<1> QED BY <1>1, <1>5, <1>7, <1>8 DEF Learns

\* A refused GET or PUT fails the call, and tunnelMu is free.
LEMMA RefusedTakes ==
    ASSUME Typed, NEW p \in Proc, IngressRefused(p)
    PROVE  /\ CloudTyped' /\ UNCHANGED <<zone, nextRec, ingress>>
           /\ ~tunnelUp /\ tunnelMu' = Nobody /\ pc' = [pc EXCEPT ![p] = "calls"]
           /\ pc[p] = "put" \/ (pc[p] = "modify" /\ tunnelMu = Nobody)
           /\ \E k : CallStep(p, k, "calls") /\ Learns(p, k)
<1> DEFINE j == job[p]
<1>1. /\ tunnelMu' = Nobody /\ pc' = [pc EXCEPT ![p] = "calls"] /\ ~tunnelUp
      /\ pc[p] = "put" \/ (pc[p] = "modify" /\ tunnelMu = Nobody)
      /\ UNCHANGED <<storeVars, zone, nextRec, ingress, tunnelOn, tunnelUp, manager,
                     toggles, failures, usedIds, discovered>>
  BY DEF IngressRefused
<1>2. JobTyped(j, pc[p]) /\ pc[p] \in {"calls", "modify", "put"} /\ j \in Jobs /\ j.todo # <<>>
  BY <1>1, CallingJob DEF JobTyped
<1>3. CloudTyped'
  BY <1>1 DEF Typed, CloudTyped
<1>4. PICK k : k = Failed(j, Head(j.todo)) /\ job' = [job EXCEPT ![p] = k]
  BY DEF IngressRefused, NextCall
<1>5. JobTyped(k, "calls") /\ Advances(j, k) /\ k.want = j.want /\ k.found = j.found
  BY <1>2, <1>4, FailedAdvances
<1>6. CallStep(p, k, "calls")
  BY <1>1, <1>2, <1>4, <1>5, BecomesIs DEF CallStep, Typed
<1> QED BY <1>1, <1>3, <1>5, <1>6 DEF Learns

-----------------------------------------------------------------------------
(* Types *)

\* The requests after a step of one of them.
LEMMA JobsStayTyped ==
    ASSUME JobsTyped, NEW p \in Proc, NEW k, NEW step,
           step \in {"idle", "calls", "modify", "put", "remove", "forget", "icon"},
           Becomes(p, k, step), usedIds \subseteq usedIds',
           IF step = "idle" THEN k = NoJob ELSE JobTyped(k, step) /\ k.id \in usedIds'
    PROVE  JobsTyped'
<1>1. \A q \in Proc : /\ job'[q] = IF q = p THEN k ELSE job[q]
                      /\ pc'[q] = IF q = p THEN step ELSE pc[q]
  BY DEF Becomes
<1>2. pc' \in [Proc -> {"idle", "calls", "modify", "put", "remove", "forget", "icon"}]
  BY DEF Becomes, JobsTyped
<1>3. job' = [q \in Proc |-> job'[q]]
  BY DEF Becomes
<1>4. ASSUME NEW q \in Proc
      PROVE  IF pc'[q] = "idle" THEN job'[q] = NoJob
             ELSE JobTyped(job'[q], pc'[q]) /\ job'[q].id \in usedIds'
  <2>1. CASE q = p
    BY <1>1, <2>1
  <2>2. CASE q # p
    BY <1>1, <2>2 DEF JobsTyped
  <2> QED BY <2>1, <2>2
<1> QED BY <1>2, <1>3, <1>4 DEF JobsTyped

\* A step that leaves the store alone.
LEMMA StoreStaysTyped ==
    ASSUME StoreTyped, UNCHANGED storeVars, usedIds \subseteq usedIds', usedIds' \subseteq Id
    PROVE  StoreTyped'
BY DEF StoreTyped, storeVars, TypeOK, LiveIds, Live

\* A call leaves the store as it is, so the types hold after it.
LEMMA CallStaysTyped ==
    ASSUME Typed, NEW p \in Proc, NEW k, NEW step, CallStep(p, k, step), CloudTyped'
    PROVE  Typed'
<1>1. /\ UNCHANGED <<storeVars, usedIds>> /\ k.id = job[p].id
      /\ step \in {"calls", "modify", "put"} /\ JobTyped(k, step) /\ Becomes(p, k, step)
  BY DEF CallStep, Advances
<1>2. job[p].id \in usedIds
  BY DEF CallStep, Typed, JobsTyped
<1>3. JobsTyped'
  BY <1>1, <1>2, JobsStayTyped DEF Typed
<1>4. StoreTyped'
  BY <1>1, StoreStaysTyped DEF Typed, StoreTyped
<1> QED BY <1>3, <1>4 DEF Typed

-----------------------------------------------------------------------------
(* The requests and the store *)

\* A version is the service stored, or is in a request about it.
LEMMA VersionIs ==
    \A id, v : v \in VersionsOf(id) <=>
        /\ v # NoService
        /\ \/ v = idIdx[id]
           \/ \E p \in Proc : Busy(p) /\ job[p].id = id /\ v \in {job[p].svc, job[p].want}
BY DEF VersionsOf, Owners

\* A service's versions after a step: what is stored and what requests hold.
LEMMA VersionWillBe ==
    \A id, v : v \in VersionsOf(id)' <=>
        /\ v # NoService
        /\ \/ v = idIdx'[id]
           \/ \E p \in Proc : /\ job'[p] # NoJob /\ job'[p].id = id
                              /\ v \in {job'[p].svc, job'[p].want}
BY DEF VersionsOf, Owners, Busy

-----------------------------------------------------------------------------
(* How requests begin *)

DnsPart == [dns : RecId \cup {NoRec}, tun : Sub \cup {NoHost}]

AllModes == {"direct", "A", "tunnel"}

Plans == {"noop", "deleteAll", "createA", "swapA", "createTunnel",
          "aToTunnel", "tunnelToA", "replaceTunnel"}

\* A request for a service without a hostname only deletes.
PlanFor(m, plan) == plan \in Plans /\ (m = "direct" => plan \in {"noop", "deleteAll"})

\* A plan that deletes or does nothing makes no call that needs a hostname.
LEMMA CallsTyped ==
    ASSUME NEW data, NEW enabled \in BOOLEAN, NEW plan \in Plans
    PROVE  /\ Calls(plan, data, enabled) \in Seq(AllCalls)
           /\ plan \in {"noop", "deleteAll"} => Calls(plan, data, enabled) \in Seq(Removals)
<1>1. /\ <<"unroute">> \in Seq(Removals) /\ <<>> \in Seq(Removals)
      /\ deleteOld(data) \in Seq(Removals)
  <2>1. <<"unroute">> \in Seq(Removals) /\ <<"deleteRecord">> \in Seq(Removals)
        /\ <<>> \in Seq(Removals)
    BY DEF Removals
  <2>2. deleteOld(data) \in {<<>>, <<"deleteRecord">>}
    BY DEF deleteOld
  <2> QED BY <2>1, <2>2
<1>2. removeRoute(data) \in Seq(Removals)
  BY <1>1, ConcatProperties DEF removeRoute
<1>3. \A s \in Seq(Removals) : s \in Seq(AllCalls)
  BY SeqMonotonic DEF Removals, AllCalls
<1>4. /\ deleteOld(data) \in Seq(AllCalls) /\ removeRoute(data) \in Seq(AllCalls)
      /\ addRoute \in Seq(AllCalls) /\ <<>> \in Seq(AllCalls)
      /\ <<"createA">> \in Seq(AllCalls) /\ <<"createCNAME">> \in Seq(AllCalls)
      /\ <<"reroute">> \in Seq(AllCalls)
  BY <1>1, <1>2, <1>3 DEF addRoute, AllCalls
<1>5. CASE plan = "noop"
  BY <1>1, <1>4, <1>5 DEF Calls
<1>6. CASE plan = "deleteAll"
  BY <1>1, <1>2, <1>4, <1>6 DEF Calls
<1>7. CASE plan = "createA"
  BY <1>4, <1>7 DEF Calls
<1>8. CASE plan = "swapA"
  <2>1. Calls(plan, data, enabled) = deleteOld(data) \o <<"createA">>
    BY <1>8 DEF Calls
  <2> QED BY <1>4, <1>8, <2>1, ConcatProperties
<1>9. CASE plan = "createTunnel"
  BY <1>4, <1>9 DEF Calls
<1>10. CASE plan = "aToTunnel"
  <2>1. Calls(plan, data, enabled) \in {deleteOld(data) \o addRoute, <<>>}
    BY <1>10 DEF Calls
  <2> QED BY <1>4, <1>10, <2>1, ConcatProperties
<1>11. CASE plan = "tunnelToA"
  <2>1. Calls(plan, data, enabled) = removeRoute(data) \o <<"createA">>
    BY <1>11 DEF Calls
  <2> QED BY <1>4, <1>11, <2>1, ConcatProperties
<1>12. CASE plan = "replaceTunnel"
  <2>1. <<"reroute">> \o deleteOld(data) \in Seq(AllCalls)
    BY <1>4, ConcatProperties
  <2>2. (<<"reroute">> \o deleteOld(data)) \o <<"createCNAME">> \in Seq(AllCalls)
    BY <1>4, <2>1, ConcatProperties
  <2>3. Calls(plan, data, enabled) \in {(<<"reroute">> \o deleteOld(data)) \o <<"createCNAME">>,
                                        <<>>}
    BY <1>12 DEF Calls
  <2> QED BY <1>4, <1>12, <2>2, <2>3
<1> QED BY <1>5, <1>6, <1>7, <1>8, <1>9, <1>10, <1>11, <1>12 DEF Plans

\* The record of a request that has read svc and is to write want.
Starting(id, svc, want, entry) ==
    [id |-> id, svc |-> svc, want |-> want, drop |-> Nothing, todo |-> <<>>,
     found |-> NoRec, rules |-> NoRules, entry |-> entry]

\* The records that requests begin with.
LEMMA StartingIs ==
    ASSUME NEW id, NEW svc, NEW want, NEW entry
    PROVE  /\ [Job(id) EXCEPT !.want = want, !.entry = entry]
                  = Starting(id, NoService, want, entry)
           /\ [Job(id) EXCEPT !.svc = svc, !.want = want] = Starting(id, svc, want, NoEntry)
<1>1. PICK j : j = Job(id)
  OBVIOUS
<1>2. j = [id |-> id, svc |-> NoService, want |-> NoService, drop |-> Nothing,
           todo |-> <<>>, found |-> NoRec, rules |-> NoRules, entry |-> NoEntry]
  BY <1>1 DEF Job
<1>3. [j EXCEPT !.want = want, !.entry = entry] = Starting(id, NoService, want, entry)
  <2>1. PICK k : k = [j EXCEPT !.want = want, !.entry = entry]
    OBVIOUS
  <2>2. k = [id |-> id, svc |-> NoService, want |-> want, drop |-> Nothing,
             todo |-> <<>>, found |-> NoRec, rules |-> NoRules, entry |-> entry]
    BY ONLY <1>2, <2>1
  <2> QED BY <2>1, <2>2 DEF Starting
<1>4. [j EXCEPT !.svc = svc, !.want = want] = Starting(id, svc, want, NoEntry)
  <2>1. PICK k : k = [j EXCEPT !.svc = svc, !.want = want]
    OBVIOUS
  <2>2. k = [id |-> id, svc |-> svc, want |-> want, drop |-> Nothing,
             todo |-> <<>>, found |-> NoRec, rules |-> NoRules, entry |-> NoEntry]
    BY ONLY <1>2, <2>1
  <2> QED BY <2>1, <2>2 DEF Starting
<1> QED BY <1>1, <1>3, <1>4

Reconciling(j, old, todo, dns, tun) ==
    [j EXCEPT !.drop = old, !.todo = todo, !.want.data = [@ EXCEPT !.dns = dns, !.tun = tun]]

\* A request begins its calls.
LEMMA ReconcilingTyped ==
    ASSUME NEW id \in Id, NEW svc \in Addable \cup {NoService}, NEW want \in Addable,
           NEW entry \in Entry \cup {NoEntry}, NEW old \in DnsPart,
           NEW dns \in {NoRec, old.dns}, NEW tun \in {NoHost, old.tun},
           NEW todo, todo \in Seq(AllCalls),
           svc # NoService => entry = NoEntry,
           entry # NoEntry => want.cid = entry.cid /\ want.name = entry.name,
           NEW k, k = Reconciling(Starting(id, svc, want, entry), old, todo, dns, tun)
    PROVE  /\ JobTyped(k, "calls") /\ k.id = id /\ k.svc = svc /\ k.entry = entry
           /\ k.drop = old /\ k.found = NoRec /\ k.want # NoService
           /\ SameKeys(k.want, want) /\ k.want.data.dns = dns
<1> USE NoServiceAssumption
<1>1. want \in Service /\ want.data \in Data /\ old.dns \in RecId \cup {NoRec}
      /\ old.tun \in Sub \cup {NoHost}
  BY HandlersAssumption DEF Addable, Service, DnsPart
<1>2. PICK data \in Data : data = [want.data EXCEPT !.dns = dns, !.tun = tun] /\ data.dns = dns
  <2>1. dns \in RecId \cup {NoRec} /\ tun \in Sub \cup {NoHost}
    BY <1>1
  <2>2. PICK data : data = [want.data EXCEPT !.dns = dns, !.tun = tun]
    OBVIOUS
  <2>3. data = [direct |-> want.data.direct, tgt |-> want.data.tgt, dns |-> dns, tun |-> tun]
    BY <1>1, <2>2 DEF Data
  <2>4. data \in Data /\ data.dns = dns
    BY <1>1, <2>1, <2>3 DEF Data
  <2> QED BY <2>2, <2>4
<1>3. PICK new : new = [want EXCEPT !.data = data]
  OBVIOUS
<1>4. /\ new \in Addable /\ new.sub = want.sub /\ Origin(new) = Origin(want)
      /\ new.data = data /\ new.cid = want.cid /\ new.name = want.name /\ new # NoService
  BY <1>1, <1>2, <1>3, HandlersAssumption DEF Addable, Service, Origin
<1>5. k = [id |-> id, svc |-> svc, want |-> new, drop |-> old, todo |-> todo,
           found |-> NoRec, rules |-> NoRules, entry |-> entry]
  BY <1>1, <1>2, <1>3 DEF Reconciling, Starting, Addable, Service
<1>7. k \in Jobs
  BY <1>4, <1>5 DEF Jobs, DnsPart, NoRules, AllCalls, Addable
<1>8. k.todo \in Seq(OpenTo(k))
  BY <1>4, <1>5 DEF OpenTo
<1>9. JobTyped(k, "calls")
  BY <1>4, <1>5, <1>7, <1>8 DEF JobTyped
<1>10. /\ k.id = id /\ k.svc = svc /\ k.entry = entry /\ k.drop = old /\ k.found = NoRec
       /\ k.want = new
  BY <1>5
<1> QED BY <1>2, <1>4, <1>9, <1>10 DEF SameKeys

BeginStep(p, k, step) ==
    /\ job[p] = NoJob /\ pc[p] = "idle" /\ Becomes(p, k, step)
    /\ step \in {"calls", "remove", "icon"} /\ JobTyped(k, step) /\ k.id \in Id
    /\ UNCHANGED <<storeVars, cfVars, failures, discovered>>

\* A goroutine that is idle handles no request.
LEMMA IdleHasNoJob ==
    ASSUME Typed, NEW p \in Proc
    PROVE  pc[p] = "idle" <=> ~Busy(p)
BY NullsAreApart DEF Typed, JobsTyped, JobTyped, Busy

\* reconcileDNS begins with the calls of the plan.
LEMMA ReconcileBegins ==
    ASSUME Typed, NEW p \in Proc, NEW id \in Id, NEW svc \in Addable \cup {NoService},
           NEW want \in Addable, NEW entry \in Entry \cup {NoEntry}, NEW old \in DnsPart,
           NEW m \in AllModes, NEW plan, PlanFor(m, plan),
           svc # NoService => entry = NoEntry,
           entry # NoEntry => want.cid = entry.cid /\ want.name = entry.name,
           BeginCalls(p, Starting(id, svc, want, entry), plan, old),
           UNCHANGED <<storeVars, cfVars, failures, discovered>>
    PROVE  \E k : /\ BeginStep(p, k, "calls")
                  /\ k.id = id /\ k.svc = svc /\ k.entry = entry /\ k.drop = old
                  /\ k.found = NoRec /\ SameKeys(k.want, want) /\ k.want # NoService
                  /\ k.want.data.dns \in {NoRec, old.dns}
<1>2. PICK todo : todo = Calls(plan, old, tunnelOn)
  OBVIOUS
<1>4. todo \in Seq(AllCalls)
  BY <1>2, CallsTyped DEF Typed, CloudTyped, PlanFor
<1>5. PICK dns \in {NoRec, old.dns}, tun \in {NoHost, old.tun} :
          Begin(p, "calls", Reconciling(Starting(id, svc, want, entry), old, todo, dns, tun))
  <2>1. PICK dns : dns = IF KeepsIds(plan, tunnelOn) THEN old.dns ELSE NoRec
    OBVIOUS
  <2>2. PICK tun : tun = IF KeepsIds(plan, tunnelOn) THEN old.tun ELSE NoHost
    OBVIOUS
  <2>3. Begin(p, "calls", Reconciling(Starting(id, svc, want, entry), old, todo, dns, tun))
    BY <1>2, <2>1, <2>2 DEF BeginCalls, Reconciling
  <2> QED BY <2>1, <2>2, <2>3
<1>6. PICK k : k = Reconciling(Starting(id, svc, want, entry), old, todo, dns, tun)
  OBVIOUS
<1>7. /\ JobTyped(k, "calls") /\ k.id = id /\ k.svc = svc /\ k.entry = entry
      /\ k.drop = old /\ k.found = NoRec /\ k.want # NoService
      /\ SameKeys(k.want, want) /\ k.want.data.dns = dns
  <2>1. dns \in {NoRec, old.dns} /\ tun \in {NoHost, old.tun}
    BY <1>5
  <2> QED BY <1>4, <1>6, <2>1, ReconcilingTyped
<1>8. /\ ~Busy(p) /\ job' = [job EXCEPT ![p] = k] /\ pc' = [pc EXCEPT ![p] = "calls"]
  BY <1>5, <1>6 DEF Begin
<1>9. BeginStep(p, k, "calls")
  BY <1>7, <1>8, BecomesIs, IdleHasNoJob DEF BeginStep, Busy, Typed
<1> QED BY <1>5, <1>7, <1>9

\* createService begins with an ID that nothing has.
LEMMA BeginCreateTakes ==
    ASSUME Typed, NEW p \in Proc, BeginCreate(p)
    PROVE  \E k : /\ BeginStep(p, k, "calls") /\ k.id \notin usedIds
                  /\ usedIds' = usedIds \cup {k.id}
                  /\ k.svc = NoService /\ k.want # NoService /\ k.drop = Nothing
                  /\ k.found = NoRec /\ k.want.data.dns = NoRec
                  /\ HostFree(k.want.sub, k.id) /\ Unclaimed(k.entry)
                  /\ k.entry \in discovered \cup {NoEntry}
                  /\ k.entry = NoEntry => k.want.cid = NoCid /\ k.want.name = NoName
<1>a. PICK id \in Id \ usedIds, m \in Modes, tgt \in Target, entry \in discovered \cup {NoEntry},
           order \in 1..MaxOrder :
       \E sub \in IF m = "direct" THEN {DirectKey(id)} ELSE Host :
          /\ HostFree(sub, id) /\ Unclaimed(entry)
          /\ BeginCalls(p, [Job(id) EXCEPT
                                !.want = NewService(sub, entry, order, NewData(m, tgt)),
                                !.entry = entry],
                        planDNS("direct", m, TRUE, TRUE), Nothing)
          /\ usedIds' = usedIds \cup {id}
  BY DEF BeginCreate
<1>b. UNCHANGED <<storeVars, cfVars, failures, discovered>>
  BY DEF BeginCreate
<1>1. PICK sub \in Sub :
          /\ HostFree(sub, id) /\ Unclaimed(entry)
          /\ BeginCalls(p, [Job(id) EXCEPT
                                !.want = NewService(sub, entry, order, NewData(m, tgt)),
                                !.entry = entry],
                        planDNS("direct", m, TRUE, TRUE), Nothing)
          /\ usedIds' = usedIds \cup {id}
  BY <1>a, HandlersAssumption
<1>2. PICK want : want = NewService(sub, entry, order, NewData(m, tgt))
  OBVIOUS
<1>3. entry \in Entry \cup {NoEntry} /\ NoEntry \notin Entry
  BY NullsAreApart DEF Typed, CloudTyped
<1>4. /\ want \in Addable /\ want.sub = sub
      /\ want.cid = IF entry = NoEntry THEN NoCid ELSE entry.cid
      /\ want.name = IF entry = NoEntry THEN NoName ELSE entry.name
  <2>1. NewData(m, tgt) \in Payload
    BY HandlersAssumption DEF NewData, Data
  <2>2. order \in 0..MaxOrder
    BY OrderAssumption
  <2> QED BY <1>2, <1>3, <2>1, <2>2 DEF NewService, Addable, Service, Source, Entry
<1>5. PICK plan : /\ PlanFor(m, plan)
                  /\ BeginCalls(p, Starting(id, NoService, want, entry), plan, Nothing)
  <2>1. [Job(id) EXCEPT !.want = want, !.entry = entry] = Starting(id, NoService, want, entry)
    BY StartingIs
  <2>2. PlanFor(m, planDNS("direct", m, TRUE, TRUE))
    BY HandlersAssumption DEF PlanFor, planDNS, Plans
  <2> QED BY <1>1, <1>2, <2>1, <2>2
<1>6. Nothing \in DnsPart /\ Nothing.dns = NoRec /\ m \in AllModes
  BY HandlersAssumption DEF Nothing, DnsPart, AllModes
<1>7. PICK k : /\ BeginStep(p, k, "calls")
               /\ k.id = id /\ k.svc = NoService /\ k.entry = entry /\ k.drop = Nothing
               /\ k.found = NoRec /\ SameKeys(k.want, want) /\ k.want # NoService
               /\ k.want.data.dns \in {NoRec, Nothing.dns}
  <2>1. NoService \in Addable \cup {NoService} /\ want \in Addable
        /\ entry \in Entry \cup {NoEntry} /\ id \in Id
    BY <1>3, <1>4
  <2>2. entry # NoEntry => want.cid = entry.cid /\ want.name = entry.name
    BY <1>1, <1>4
  <2> QED BY ONLY Typed, p \in Proc, <1>b, <1>5, <1>6, <2>1, <2>2, ReconcileBegins
<1> QED BY <1>1, <1>4, <1>6, <1>7 DEF SameKeys, Origin

\* updateService begins with the service as it is.
LEMMA BeginUpdateTakes ==
    ASSUME Typed, NEW p \in Proc, BeginUpdate(p)
    PROVE  \E k : /\ BeginStep(p, k, "calls") /\ usedIds' = usedIds
                  /\ Live(k.id) /\ Alone(k.id) /\ k.svc = idIdx[k.id] /\ k.entry = NoEntry
                  /\ k.want # NoService /\ Origin(k.want) = Origin(k.svc)
                  /\ HostFree(k.want.sub, k.id)
                  /\ k.found = NoRec /\ k.drop.dns = k.svc.data.dns
                  /\ k.want.data.dns \in {NoRec, k.svc.data.dns}
<1>a. \A id \in LiveIds : idIdx[id].sub \in Sub /\ DirectKey(id) \in Sub
  BY HandlersAssumption DEF Typed, StoreTyped, Addable, Service, LiveIds
<1>b. Host \subseteq Sub
  BY HandlersAssumption
<1>c. PICK id \in LiveIds, m \in Modes, tgt \in Target :
       \E sub \in IF m # "direct" THEN Host \cup {idIdx[id].sub}
                  ELSE IF idIdx[id].data.direct THEN {idIdx[id].sub} ELSE {DirectKey(id)} :
          /\ Alone(id) /\ HostFree(sub, id)
          /\ BeginCalls(p, [Job(id) EXCEPT
                                !.svc = idIdx[id],
                                !.want = [idIdx[id] EXCEPT !.sub = sub, !.data = NewData(m, tgt)]],
                        planDNS(mode(idIdx[id]), m, sub # idIdx[id].sub,
                                tgt # idIdx[id].data.tgt),
                        DnsFields(idIdx[id]))
  BY DEF BeginUpdate
<1>d. UNCHANGED <<storeVars, cfVars, failures, usedIds, discovered>>
  BY DEF BeginUpdate
<1>1. PICK sub \in Sub :
          /\ Alone(id) /\ HostFree(sub, id)
          /\ BeginCalls(p, [Job(id) EXCEPT
                                !.svc = idIdx[id],
                                !.want = [idIdx[id] EXCEPT !.sub = sub, !.data = NewData(m, tgt)]],
                        planDNS(mode(idIdx[id]), m, sub # idIdx[id].sub,
                                tgt # idIdx[id].data.tgt),
                        DnsFields(idIdx[id]))
  BY <1>a, <1>b, <1>c
<1>2. PICK svc : svc = idIdx[id]
  OBVIOUS
<1>3. id \in Id /\ svc \in Addable /\ svc \in Service /\ svc # NoService /\ svc.data \in Data
  BY <1>2, HandlersAssumption DEF Typed, StoreTyped, LiveIds, Live, Addable, Service
<1>4. PICK want : want = [svc EXCEPT !.sub = sub, !.data = NewData(m, tgt)]
  OBVIOUS
<1>5. want \in Addable /\ want.sub = sub /\ Origin(want) = Origin(svc)
  <2>1. NewData(m, tgt) \in Payload
    BY HandlersAssumption DEF NewData, Data
  <2> QED BY <1>3, <1>4, <2>1 DEF Addable, Service, Origin
<1>6. PICK plan : /\ PlanFor(m, plan)
                  /\ BeginCalls(p, Starting(id, svc, want, NoEntry), plan, DnsFields(svc))
  <2>1. [Job(id) EXCEPT !.svc = svc, !.want = want] = Starting(id, svc, want, NoEntry)
    BY StartingIs
  <2>2. PlanFor(m, planDNS(mode(svc), m, sub # svc.sub, tgt # svc.data.tgt))
    BY HandlersAssumption DEF PlanFor, planDNS, Plans, mode
  <2> QED BY <1>1, <1>2, <1>4, <2>1, <2>2
<1>7. /\ DnsFields(svc) \in DnsPart /\ DnsFields(svc).dns = svc.data.dns
      /\ m \in AllModes
  BY <1>3, HandlersAssumption DEF DnsFields, DnsPart, Data, AllModes
<1>8. PICK k : /\ BeginStep(p, k, "calls")
               /\ k.id = id /\ k.svc = svc /\ k.entry = NoEntry /\ k.drop = DnsFields(svc)
               /\ k.found = NoRec /\ SameKeys(k.want, want) /\ k.want # NoService
               /\ k.want.data.dns \in {NoRec, DnsFields(svc).dns}
  <2>1. /\ svc \in Addable \cup {NoService} /\ NoEntry \in Entry \cup {NoEntry}
        /\ UNCHANGED <<storeVars, cfVars, failures, discovered>>
    BY <1>d, <1>1, <1>3, <1>5
  <2> QED BY ONLY Typed, p \in Proc, <1>3, <1>5, <1>6, <1>7, <2>1, ReconcileBegins
<1>9. Live(id)
  BY DEF LiveIds
<1> QED BY <1>d, <1>1, <1>2, <1>5, <1>7, <1>8, <1>9 DEF SameKeys

\* deleteService and the icon handlers begin with the service as it is.
LEMMA BeginReadTakes ==
    ASSUME Typed, NEW p \in Proc, BeginDelete(p) \/ BeginIcon(p)
    PROVE  \E k : /\ \E step \in {"remove", "icon"} : BeginStep(p, k, step)
                  /\ usedIds' = usedIds
                  /\ Live(k.id) /\ Alone(k.id) /\ k.svc = idIdx[k.id] /\ k.entry = NoEntry
                  /\ k.want = NoService /\ k.drop = Nothing /\ k.found = NoRec
<1> USE NoServiceAssumption
<1>1. PICK id \in LiveIds, step \in {"remove", "icon"} :
          /\ Alone(id) /\ Begin(p, step, [Job(id) EXCEPT !.svc = idIdx[id]])
          /\ UNCHANGED <<storeVars, cfVars, failures, usedIds, discovered>>
  BY DEF BeginDelete, BeginIcon
<1>2. id \in Id /\ idIdx[id] \in Addable /\ idIdx[id] # NoService
  BY DEF Typed, StoreTyped, LiveIds, Live
<1>3. PICK k : k = [Job(id) EXCEPT !.svc = idIdx[id]]
  OBVIOUS
<1>4. k = [id |-> id, svc |-> idIdx[id], want |-> NoService, drop |-> Nothing,
           todo |-> <<>>, found |-> NoRec, rules |-> NoRules, entry |-> NoEntry]
  BY <1>3 DEF Job
<1>5. <<>> \in Seq(AllCalls) /\ \A S : <<>> \in Seq(S)
  OBVIOUS
<1>6. k \in Jobs
  BY <1>2, <1>4, <1>5 DEF Jobs, Nothing, NoRules, AllCalls, Addable
<1>7. JobTyped(k, step)
  BY <1>2, <1>4, <1>5, <1>6 DEF JobTyped
<1>8. BeginStep(p, k, step)
  <2>1. ~Busy(p) /\ job' = [job EXCEPT ![p] = k] /\ pc' = [pc EXCEPT ![p] = step]
    BY <1>1, <1>3 DEF Begin
  <2> QED BY <1>1, <1>2, <1>4, <1>7, <2>1, BecomesIs, IdleHasNoJob DEF BeginStep, Busy, Typed
<1>9. Live(id)
  BY DEF LiveIds
<1> QED BY <1>1, <1>4, <1>8, <1>9

\* A request that begins leaves store and zone as they are.
LEMMA BeginStaysTyped ==
    ASSUME Typed, NEW p \in Proc, NEW k, NEW step, BeginStep(p, k, step),
           usedIds \subseteq usedIds', usedIds' \subseteq Id, k.id \in usedIds'
    PROVE  Typed'
<1>1. /\ Becomes(p, k, step) /\ JobTyped(k, step)
      /\ step \in {"idle", "calls", "modify", "put", "remove", "forget", "icon"} /\ step # "idle"
      /\ UNCHANGED <<storeVars, cfVars, failures, discovered>>
  BY DEF BeginStep
<1>2. JobsTyped'
  BY <1>1, JobsStayTyped DEF Typed
<1>3. StoreTyped'
  BY <1>1, StoreStaysTyped DEF Typed
<1>4. CloudTyped'
  BY <1>1 DEF Typed, CloudTyped, cfVars
<1> QED BY <1>2, <1>3, <1>4 DEF Typed

-----------------------------------------------------------------------------
(* How requests write the store and end *)

\* The store has the same services, but for the one the request is about: that
\* is one of the request's objects, or gone.
WritesOwn(p) ==
    \A id \in Id : \/ idIdx'[id] = idIdx[id]
                   \/ id = job[p].id /\ idIdx'[id] \in {job[p].svc, job[p].want, NoService}

WriteStep(p, k, step) ==
    /\ pc[p] \in {"calls", "remove", "forget", "icon"} /\ step \in {"idle", "calls", "forget"}
    /\ Becomes(p, k, step) /\ WritesOwn(p)
    /\ IF step = "idle" THEN k = NoJob
       ELSE /\ JobTyped(k, step) /\ k.id = job[p].id /\ k.svc = job[p].svc
            /\ k.want = job[p].want /\ k.entry = job[p].entry /\ k.found = job[p].found
    /\ UNCHANGED <<cfVars, failures, usedIds>>

\* A request that is not waiting for tunnelMu has its record.
LEMMA BusyJob ==
    ASSUME Typed, NEW p \in Proc, pc[p] # "idle"
    PROVE  /\ JobTyped(job[p], pc[p]) /\ job[p] \in Jobs /\ Busy(p)
           /\ job[p].id \in Id /\ job[p].id \in usedIds
BY NullsAreApart DEF Typed, JobsTyped, JobTyped, Busy, Jobs

\* The store's side of a request's write.
LEMMA WriteIsOfStore ==
    ASSUME Typed, OriginsKept, NEW p \in Proc, pc[p] # "idle",
           NEW svc \in {job[p].svc, job[p].want}, svc # NoService,
           AddService(job[p].id, svc) \/ UpdateService(job[p].id, svc)
    PROVE  Next /\ WritesOwn(p)
<1> DEFINE id == job[p].id
<1>1. id \in Id /\ svc \in Addable /\ Busy(p)
  BY BusyJob DEF JobTyped
<1>2. CASE AddService(id, svc)
  <2>1. WritesOwn(p)
    BY <1>2 DEF AddService, Put, WritesOwn, Typed, StoreTyped, TypeOK
  <2> QED BY <1>1, <1>2, <2>1 DEF Next
<1>3. CASE UpdateService(id, svc)
  <2>1. Live(id) => svc.source = idIdx[id].source
    <3> SUFFICES ASSUME Live(id) PROVE svc.source = idIdx[id].source
      OBVIOUS
    <3>1. idIdx[id] \in VersionsOf(id) /\ svc \in VersionsOf(id)
      BY <1>1, VersionIs DEF Live
    <3> QED BY <1>1, <3>1 DEF OriginsKept, Origin
  <2>2. svc \in Replacements(id)
    BY <1>1, <2>1 DEF Replacements
  <2>3. WritesOwn(p)
    BY <1>3 DEF UpdateService, Put, WritesOwn, Typed, StoreTyped, TypeOK, storeVars
  <2> QED BY <1>1, <1>3, <2>2, <2>3 DEF Next
<1> QED BY <1>2, <1>3

\* DeleteService takes the request's service out of the store.
LEMMA RemovalIsOfStore ==
    ASSUME Typed, NEW p \in Proc, pc[p] # "idle", DeleteService(job[p].id)
    PROVE  Next /\ WritesOwn(p) /\ idIdx'[job[p].id] = NoService
<1>1. job[p].id \in Id
  BY BusyJob
<1>2. WritesOwn(p)
  BY DEF DeleteService, Put, WritesOwn, Typed, StoreTyped, TypeOK, storeVars
<1>3. idIdx'[job[p].id] = NoService
  BY <1>1 DEF DeleteService, Put, Typed, StoreTyped, TypeOK, storeVars, Live
<1> QED BY <1>1, <1>2, <1>3 DEF Next

\* createService adds the object it has built.
LEMMA FinishCreateTakes ==
    ASSUME Typed, OriginsKept, NEW p \in Proc, FinishCreate(p)
    PROVE  /\ Next /\ UNCHANGED discovered
           /\ \E k, step : /\ WriteStep(p, k, step) /\ step # "calls"
                           /\ k \in {NoJob, job[p]}
                           /\ step = "idle" => job[p].entry = NoEntry
<1>1. /\ pc[p] = "calls" /\ job[p].svc = NoService /\ AddService(job[p].id, job[p].want)
      /\ UNCHANGED <<cfVars, failures, usedIds, discovered>>
  BY DEF FinishCreate, Done
<1>2. /\ JobTyped(job[p], "calls") /\ job[p].want # NoService
  BY <1>1, BusyJob DEF JobTyped
<1>3. Next /\ WritesOwn(p)
  BY <1>1, <1>2, WriteIsOfStore
<1>4. CASE job[p].entry = NoEntry /\ End(p)
  <2>1. Becomes(p, NoJob, "idle")
    BY <1>4, BecomesIs DEF End, Typed
  <2>2. WriteStep(p, NoJob, "idle")
    BY <1>1, <1>3, <2>1 DEF WriteStep
  <2> QED BY <1>1, <1>3, <1>4, <2>2
<1>5. CASE pc' = [pc EXCEPT ![p] = "forget"] /\ UNCHANGED job
  <2>1. Becomes(p, job[p], "forget")
    BY <1>5, BecomesIs DEF Typed
  <2>2. JobTyped(job[p], "forget")
    BY <1>1, <1>2 DEF JobTyped
  <2>3. WriteStep(p, job[p], "forget")
    BY <1>1, <1>3, <2>1, <2>2 DEF WriteStep
  <2> QED BY <1>1, <1>3, <2>3
<1> QED BY <1>4, <1>5 DEF FinishCreate

\* updateService and the icon handlers write their object over the one stored.
LEMMA FinishUpdateTakes ==
    ASSUME Typed, OriginsKept, NEW p \in Proc, FinishUpdate(p) \/ FinishIcon(p)
    PROVE  /\ Next /\ UNCHANGED discovered /\ job[p].entry = NoEntry
           /\ WriteStep(p, NoJob, "idle")
<1>1. /\ pc[p] \in {"calls", "icon"} /\ End(p)
      /\ UNCHANGED <<cfVars, failures, usedIds, discovered>>
  BY DEF FinishUpdate, FinishIcon, Done
<1>2. JobTyped(job[p], pc[p])
  BY <1>1, BusyJob
<1>3. /\ job[p].svc # NoService /\ job[p].entry = NoEntry
      /\ \E svc \in {job[p].svc, job[p].want} :
             svc # NoService /\ UpdateService(job[p].id, svc)
  BY <1>2 DEF JobTyped, FinishUpdate, FinishIcon
<1>4. Next /\ WritesOwn(p)
  BY <1>1, <1>3, WriteIsOfStore
<1>5. Becomes(p, NoJob, "idle")
  BY <1>1, BecomesIs DEF End, Typed
<1> QED BY <1>1, <1>3, <1>4, <1>5 DEF WriteStep

\* deleteService learns what to delete at Cloudflare from the object it removes.
LEMMA RemoveServiceTakes ==
    ASSUME Typed, NEW p \in Proc, RemoveService(p)
    PROVE  /\ Next /\ UNCHANGED discovered /\ idIdx'[job[p].id] = NoService
           /\ job[p].want = NoService
           /\ \E k : /\ WriteStep(p, k, "calls")
                     /\ k.drop.dns # NoRec =>
                            /\ Live(job[p].id)
                            /\ k.drop.dns = idIdx[job[p].id].data.dns
<1> DEFINE j == job[p]
<1>1. /\ pc[p] = "remove" /\ DeleteService(j.id) /\ pc' = [pc EXCEPT ![p] = "calls"]
      /\ UNCHANGED <<cfVars, failures, usedIds, discovered>>
  BY DEF RemoveService
<1>2. JobTyped(j, "remove") /\ j \in Jobs /\ j.want = NoService /\ j.id \in Id
  BY <1>1, BusyJob DEF JobTyped
<1>3. PICK drop : drop = IF Live(j.id) THEN DnsFields(idIdx[j.id]) ELSE Nothing
  OBVIOUS
<1>4. /\ drop \in DnsPart
      /\ drop.dns # NoRec => Live(j.id) /\ drop.dns = idIdx[j.id].data.dns
  <2>1. CASE Live(j.id)
    <3>1. idIdx[j.id].data \in Data
      BY <1>2, <2>1, HandlersAssumption DEF Typed, StoreTyped, LiveIds, Addable, Service
    <3> QED BY <1>3, <2>1, <3>1 DEF DnsFields, DnsPart, Data
  <2>2. CASE ~Live(j.id)
    BY <1>3, <2>2 DEF Nothing, DnsPart
  <2> QED BY <2>1, <2>2
<1>5. PICK todo : todo = Calls("deleteAll", drop, tunnelOn)
  OBVIOUS
<1>6. todo \in Seq(Removals)
  BY <1>5, CallsTyped DEF Plans, Typed, CloudTyped
<1>7. PICK k : k = [j EXCEPT !.drop = drop, !.todo = todo]
  OBVIOUS
<1>8. job' = [job EXCEPT ![p] = k]
  <2>1. job' = [job EXCEPT ![p].drop = drop, ![p].todo = todo]
    BY <1>3, <1>5 DEF RemoveService
  <2>2. job = [q \in Proc |-> job[q]]
    BY DEF Typed, JobsTyped
  <2> QED BY <1>7, <2>1, <2>2
<1>9. /\ k.id = j.id /\ k.svc = j.svc /\ k.want = j.want /\ k.drop = drop /\ k.todo = todo
      /\ k.found = j.found /\ k.rules = j.rules /\ k.entry = j.entry
  BY <1>2, <1>7 DEF Jobs
<1>10. todo \in Seq(AllCalls)
  BY <1>6, SeqMonotonic DEF Removals, AllCalls
<1>11. k \in Jobs
  BY <1>2, <1>4, <1>7, <1>10 DEF Jobs, DnsPart, AllCalls
<1>12. JobTyped(k, "calls")
  BY <1>2, <1>6, <1>9, <1>11 DEF JobTyped, OpenTo
<1>13. Becomes(p, k, "calls")
  BY <1>1, <1>8, BecomesIs DEF Typed
<1>14. Next /\ WritesOwn(p) /\ idIdx'[j.id] = NoService
  BY <1>1, RemovalIsOfStore
<1>15. WriteStep(p, k, "calls")
  BY <1>1, <1>9, <1>12, <1>13, <1>14 DEF WriteStep
<1> QED BY <1>1, <1>2, <1>4, <1>9, <1>14, <1>15

\* createService takes the container it has assigned from the list.
LEMMA ForgetTakes ==
    ASSUME Typed, NEW p \in Proc, Forget(p)
    PROVE  /\ UNCHANGED storeVars /\ discovered' = discovered \ {job[p].entry}
           /\ WriteStep(p, NoJob, "idle")
<1>1. /\ pc[p] = "forget" /\ End(p) /\ discovered' = discovered \ {job[p].entry}
      /\ UNCHANGED <<storeVars, cfVars, failures, usedIds>>
  BY DEF Forget, RemoveDiscovered
<1>2. WritesOwn(p)
  BY <1>1 DEF storeVars, WritesOwn
<1>3. Becomes(p, NoJob, "idle")
  BY <1>1, BecomesIs DEF End, Typed
<1> QED BY <1>1, <1>2, <1>3 DEF WriteStep

\* deleteService offers the container again.
LEMMA FinishDeleteTakes ==
    ASSUME Typed, NEW p \in Proc, FinishDelete(p)
    PROVE  /\ UNCHANGED storeVars /\ WriteStep(p, NoJob, "idle")
           /\ pc[p] = "calls" /\ job[p].want = NoService /\ job[p].svc \in Addable
           /\ job[p].svc # NoService /\ job[p].entry = NoEntry
           /\ \/ discovered' = discovered
              \/ /\ job[p].svc.cid # NoCid
                 /\ discovered' = discovered \cup {[cid |-> job[p].svc.cid,
                                        name |-> job[p].svc.name, from |-> job[p].id]}
<1>1. /\ pc[p] = "calls" /\ End(p) /\ job[p].want = NoService
      /\ UNCHANGED <<storeVars, cfVars, failures, usedIds>>
  BY DEF FinishDelete, Done
<1>2. JobTyped(job[p], "calls")
  BY <1>1, BusyJob
<1>3. job[p].svc # NoService /\ job[p].entry = NoEntry /\ job[p].svc \in Addable
  BY <1>1, <1>2 DEF JobTyped
<1>4. WritesOwn(p)
  BY <1>1 DEF storeVars, WritesOwn
<1>5. Becomes(p, NoJob, "idle")
  BY <1>1, BecomesIs DEF End, Typed
<1>6. \/ discovered' = discovered
      \/ /\ job[p].svc.cid # NoCid
         /\ discovered' = discovered \cup {[cid |-> job[p].svc.cid,
                                            name |-> job[p].svc.name, from |-> job[p].id]}
  BY DEF FinishDelete, AddDiscovered
<1> QED BY <1>1, <1>3, <1>4, <1>5, <1>6 DEF WriteStep

\* The tunnel manager changes the tunnel and what the client knows of it, and
\* while a handler has tunnelMu it puts no tunnel in the place of the old one.
LEMMA TunnelTakes ==
    ASSUME Typed, TunnelStep
    PROVE  /\ CloudTyped'
           /\ UNCHANGED <<storeVars, zone, nextRec, tunnelMu, usedIds, discovered, pc, job>>
           /\ tunnelMu # Nobody /\ tunnelUp' => tunnelUp /\ UNCHANGED ingress
           /\ toggles' # 0
<1> USE HandlersAssumption DEF Typed, CloudTyped
<1>1. NoRules \in [Rules -> Nat]
  BY DEF NoRules
<1>2. CASE CreateTunnel
  BY <1>2 DEF CreateTunnel
<1>3. CASE DeleteTunnel
  <2>1. /\ UNCHANGED <<storeVars, zone, nextRec, tunnelOn, tunnelMu, failures, usedIds,
                        discovered, pc, job>>
        /\ toggles' = toggles + 1 /\ toggles < MaxToggles
        /\ manager' \in {"deleted", "idle"}
    BY <1>3 DEF DeleteTunnel
  <2>2. \/ tunnelUp' = FALSE /\ ingress' = NoRules
        \/ UNCHANGED <<tunnelUp, ingress>>
    BY <1>3 DEF DeleteTunnel
  <2>3. ingress' \in [Rules -> Nat] /\ tunnelUp' \in BOOLEAN
    BY <1>1, <2>2
  <2>4. toggles' \in 0..MaxToggles /\ toggles' # 0
    BY <2>1
  <2>5. tunnelMu # Nobody /\ tunnelUp' => tunnelUp /\ UNCHANGED ingress
    BY <2>2
  <2> QED BY <2>1, <2>3, <2>4, <2>5
<1>4. CASE SetTunnelID
  BY <1>1, <1>4 DEF SetTunnelID
<1> QED BY <1>2, <1>3, <1>4 DEF TunnelStep

\* Writing the store keeps the types.
LEMMA WriteStaysTyped ==
    ASSUME Typed, IndexSound, NEW p \in Proc, NEW k, NEW step, WriteStep(p, k, step),
           [Next]_storeVars, discovered' \subseteq Entry
    PROVE  Typed'
<1>1. /\ Becomes(p, k, step) /\ WritesOwn(p) /\ UNCHANGED <<cfVars, failures, usedIds>>
      /\ step \in {"idle", "calls", "forget"} /\ pc[p] # "idle"
  BY DEF WriteStep
<1>2. /\ JobTyped(job[p], pc[p]) /\ job[p].id \in usedIds
      /\ {job[p].svc, job[p].want} \subseteq Addable \cup {NoService}
  BY <1>1, BusyJob DEF JobTyped
<1>3. IF step = "idle" THEN k = NoJob ELSE JobTyped(k, step) /\ k.id \in usedIds'
  BY <1>1, <1>2 DEF WriteStep
<1>4. JobsTyped'
  BY <1>1, <1>3, JobsStayTyped DEF Typed
<1>5. TypeOK'
  BY NextType DEF Typed, StoreTyped, IndexSound
<1>6. ASSUME NEW id \in LiveIds'
      PROVE  idIdx'[id] \in Addable /\ id \in usedIds'
  <2>1. id \in Id /\ idIdx'[id] # NoService
    BY <1>6 DEF LiveIds, Live
  <2>2. CASE idIdx'[id] = idIdx[id]
    BY <1>1, <2>1, <2>2 DEF Typed, StoreTyped, LiveIds, Live
  <2>3. CASE id = job[p].id /\ idIdx'[id] \in {job[p].svc, job[p].want, NoService}
    BY <1>1, <1>2, <2>1, <2>3
  <2> QED BY <1>1, <2>1, <2>2, <2>3 DEF WritesOwn
<1>7. StoreTyped'
  BY <1>1, <1>5, <1>6 DEF Typed, StoreTyped
<1>8. CloudTyped'
  BY <1>1 DEF Typed, CloudTyped, cfVars
<1> QED BY <1>4, <1>7, <1>8 DEF Typed

-----------------------------------------------------------------------------
(* Every step is of one of these kinds *)

\* createService: an ID that nothing has, and a container nobody asks for.
Fresh(k) ==
    /\ k.id \notin usedIds /\ usedIds' = usedIds \cup {k.id}
    /\ k.svc = NoService /\ k.want # NoService
    /\ HostFree(k.want.sub, k.id) /\ Unclaimed(k.entry)
    /\ k.entry \in discovered \cup {NoEntry}
    /\ k.entry = NoEntry => k.want.cid = NoCid /\ k.want.name = NoName
    /\ k.drop.dns = NoRec /\ k.found = NoRec /\ k.want.data.dns = NoRec

\* The other requests: a service, as it is.
Reads(k) ==
    /\ Live(k.id) /\ usedIds' = usedIds /\ Alone(k.id)
    /\ k.svc = idIdx[k.id] /\ k.entry = NoEntry
    /\ k.want # NoService => Origin(k.want) = Origin(k.svc) /\ HostFree(k.want.sub, k.id)
    /\ k.want # NoService => k.want.data.dns \in {NoRec, k.svc.data.dns}
    /\ k.drop.dns \in {NoRec, k.svc.data.dns} /\ k.found = NoRec

BeginsStep(p) ==
    \E k, step : /\ BeginStep(p, k, step)
                 /\ Fresh(k) \/ Reads(k)
                 /\ step = "calls" => k.want # NoService

Calling(p) ==
    CallReturns(p) \/ CallFails(p) \/ CallSkipped(p) \/ CallModifies(p)
        \/ ReadIngress(p) \/ WriteIngress(p) \/ IngressRefused(p) \/ WriteIngressFails(p)

CallsStep(p) ==
    CloudTyped' /\ \E k, step : CallStep(p, k, step) /\ Learns(p, k)

\* A record ID that a deletion is to use is that of the service it removes.
WritesStep(p) ==
    /\ [Next]_storeVars
    /\ \E k, step :
           /\ WriteStep(p, k, step)
           /\ step = "calls" => idIdx'[job[p].id] = NoService
           /\ k # NoJob /\ k.drop # job[p].drop /\ k.drop.dns # NoRec =>
                  Live(job[p].id) /\ k.drop.dns = idIdx[job[p].id].data.dns
           /\ step = "idle" => job[p].entry \notin discovered'
    /\ \/ discovered' \subseteq discovered
       \/ /\ pc[p] = "calls" /\ job[p].want = NoService /\ UNCHANGED storeVars
          /\ job[p].svc \in Addable /\ job[p].svc.cid # NoCid
          /\ discovered' = discovered \cup {[cid |-> job[p].svc.cid,
                                             name |-> job[p].svc.name, from |-> job[p].id]}
          /\ job' = [q \in Proc |-> IF q = p THEN NoJob ELSE job[q]]

\* Requests begin with a new ID, or with the service they read.
LEMMA BeginsIs ==
    ASSUME Typed, NEW p \in Proc,
           BeginCreate(p) \/ BeginUpdate(p) \/ BeginDelete(p) \/ BeginIcon(p)
    PROVE  BeginsStep(p)
<1>1. CASE BeginCreate(p)
  <2>1. PICK k : BeginStep(p, k, "calls") /\ Fresh(k)
    <3>1. Nothing.dns = NoRec
      BY DEF Nothing
    <3> QED BY <1>1, <3>1, BeginCreateTakes DEF Fresh
  <2> QED BY <2>1 DEF BeginsStep, Fresh
<1>2. CASE BeginUpdate(p)
  <2>1. PICK k : BeginStep(p, k, "calls") /\ Reads(k) /\ k.want # NoService
    BY <1>2, BeginUpdateTakes DEF Reads
  <2> QED BY <2>1 DEF BeginsStep
<1>3. CASE BeginDelete(p) \/ BeginIcon(p)
  <2>1. PICK k, step : BeginStep(p, k, step) /\ Reads(k) /\ step \in {"remove", "icon"}
    <3>1. Nothing.dns = NoRec
      BY DEF Nothing
    <3> QED BY <1>3, <3>1, BeginReadTakes DEF Reads
  <2> QED BY <2>1 DEF BeginsStep
<1> QED BY <1>1, <1>2, <1>3

\* Calls change only what Cloudflare has and what the request knows.
LEMMA CallingIs ==
    ASSUME Typed, NEW p \in Proc, Calling(p)
    PROVE  CallsStep(p)
BY CallReturnsTakes, CallFailsTakes, CallSkippedTakes, CallModifiesTakes,
   ReadIngressTakes, WriteIngressTakes, RefusedTakes
   DEF Calling, CallsStep

\* A new offer of a container is an entry of the list.
LEMMA OfferTyped ==
    ASSUME NEW svc \in Addable, svc.cid # NoCid, NEW id \in Id
    PROVE  [cid |-> svc.cid, name |-> svc.name, from |-> id] \in Entry
BY DEF Addable, Service, Entry

\* Ends of requests are steps of the store.
LEMMA WritesIs ==
    ASSUME Typed, OriginsKept, NEW p \in Proc,
           \/ FinishCreate(p) \/ Forget(p) \/ FinishUpdate(p)
           \/ RemoveService(p) \/ FinishDelete(p) \/ FinishIcon(p)
    PROVE  WritesStep(p) /\ discovered' \subseteq Entry
<1>0. NoEntry \notin discovered /\ discovered \subseteq Entry
  BY NullsAreApart DEF Typed, CloudTyped
<1>1. CASE FinishCreate(p)
  <2>1. PICK k, step : /\ WriteStep(p, k, step) /\ step # "calls" /\ k \in {NoJob, job[p]}
                       /\ step = "idle" => job[p].entry = NoEntry
    BY <1>1, FinishCreateTakes
  <2>2. Next /\ UNCHANGED discovered
    BY <1>1, FinishCreateTakes
  <2> QED BY <1>0, <2>1, <2>2 DEF WritesStep
<1>2. CASE FinishUpdate(p) \/ FinishIcon(p)
  <2>1. /\ Next /\ UNCHANGED discovered /\ job[p].entry = NoEntry
        /\ WriteStep(p, NoJob, "idle")
    BY <1>2, FinishUpdateTakes
  <2> QED BY <1>0, <2>1 DEF WritesStep
<1>3. CASE RemoveService(p)
  <2>1. PICK k : /\ WriteStep(p, k, "calls")
                 /\ k.drop.dns # NoRec => /\ Live(job[p].id)
                                          /\ k.drop.dns = idIdx[job[p].id].data.dns
    BY <1>3, RemoveServiceTakes
  <2>2. /\ Next /\ UNCHANGED discovered /\ idIdx'[job[p].id] = NoService
    BY <1>3, RemoveServiceTakes
  <2> QED BY <1>0, <2>1, <2>2 DEF WritesStep
<1>4. CASE Forget(p)
  <2>1. /\ UNCHANGED storeVars /\ discovered' = discovered \ {job[p].entry}
        /\ WriteStep(p, NoJob, "idle")
    BY <1>4, ForgetTakes
  <2> QED BY <1>0, <2>1 DEF WritesStep
<1>5. CASE FinishDelete(p)
  <2>1. /\ UNCHANGED storeVars /\ WriteStep(p, NoJob, "idle")
        /\ pc[p] = "calls" /\ job[p].want = NoService /\ job[p].svc \in Addable
        /\ job[p].entry = NoEntry
        /\ \/ discovered' = discovered
           \/ /\ job[p].svc.cid # NoCid
              /\ discovered' = discovered \cup {[cid |-> job[p].svc.cid,
                                     name |-> job[p].svc.name, from |-> job[p].id]}
    BY <1>5, FinishDeleteTakes
  <2>2. /\ job' = [q \in Proc |-> IF q = p THEN NoJob ELSE job[q]]
        /\ job[p].id \in Id
    BY <2>1, BusyJob DEF WriteStep, Becomes
  <2>3. discovered' \subseteq Entry
    BY <1>0, <2>1, <2>2, OfferTyped
  <2>4. job[p].entry \notin discovered'
    BY <2>1, <2>3, NullsAreApart
  <2> QED BY <2>1, <2>2, <2>3, <2>4 DEF WritesStep
<1> QED BY <1>1, <1>2, <1>3, <1>4, <1>5

\* Every step is a begin, a call, a write or a creation of the tunnel.
LEMMA StepKinds ==
    ASSUME HandlersNext
    PROVE  \/ TunnelStep
           \/ \E p \in Proc :
                 \/ BeginCreate(p) \/ BeginUpdate(p) \/ BeginDelete(p) \/ BeginIcon(p)
                 \/ Calling(p)
                 \/ \/ FinishCreate(p) \/ Forget(p) \/ FinishUpdate(p)
                    \/ RemoveService(p) \/ FinishDelete(p) \/ FinishIcon(p)
BY DEF HandlersNext, Calling, TunnelStep

\* The kind of a step, by what it does.
LEMMA StepDoes ==
    ASSUME Typed, OriginsKept, HandlersNext
    PROVE  \/ TunnelStep
           \/ \E p \in Proc : \/ BeginsStep(p)
                              \/ Calling(p) /\ CallsStep(p)
                              \/ WritesStep(p) /\ discovered' \subseteq Entry
<1>1. CASE TunnelStep
  BY <1>1
<1>2. CASE \E p \in Proc : BeginCreate(p) \/ BeginUpdate(p) \/ BeginDelete(p) \/ BeginIcon(p)
  BY <1>2, BeginsIs
<1>3. CASE \E p \in Proc : Calling(p)
  BY <1>3, CallingIs
<1>4. CASE \E p \in Proc : \/ FinishCreate(p) \/ Forget(p) \/ FinishUpdate(p)
                           \/ RemoveService(p) \/ FinishDelete(p) \/ FinishIcon(p)
  BY <1>4, WritesIs
<1> QED BY <1>1, <1>2, <1>3, <1>4, StepKinds

-----------------------------------------------------------------------------
(* The invariant of all callers *)

\* Each kind of step keeps the types.
LEMMA StepStaysTyped ==
    ASSUME CallerInv, HandlersNext
    PROVE  Typed'
<1> USE DEF CallerInv
<1>1. CASE TunnelStep
  <2>1. /\ CloudTyped'
        /\ UNCHANGED <<storeVars, zone, nextRec, tunnelMu, usedIds, discovered, pc, job>>
    BY <1>1, TunnelTakes
  <2>2. StoreTyped'
    BY <2>1, StoreStaysTyped DEF Typed, StoreTyped
  <2>3. JobsTyped'
    BY <2>1 DEF Typed, JobsTyped
  <2> QED BY <2>1, <2>2, <2>3 DEF Typed
<1>2. ASSUME NEW p \in Proc, BeginsStep(p)
      PROVE  Typed'
  <2>1. PICK k, step : BeginStep(p, k, step) /\ (Fresh(k) \/ Reads(k))
    BY <1>2 DEF BeginsStep
  <2>2. k.id \in Id
    BY <2>1 DEF BeginStep
  <2>3. usedIds \subseteq usedIds' /\ usedIds' \subseteq Id /\ k.id \in usedIds'
    BY <2>1, <2>2 DEF Fresh, Reads, Typed, StoreTyped, LiveIds
  <2> QED BY <2>1, <2>3, BeginStaysTyped
<1>3. ASSUME NEW p \in Proc, CallsStep(p)
      PROVE  Typed'
  BY <1>3, CallStaysTyped DEF CallsStep
<1>4. ASSUME NEW p \in Proc, WritesStep(p), discovered' \subseteq Entry
      PROVE  Typed'
  BY <1>4, WriteStaysTyped DEF WritesStep
<1> QED BY <1>1, <1>2, <1>3, <1>4, StepDoes

\* The steps that write nothing but the store's own way.
LEMMA StepIsOfStore ==
    ASSUME CallerInv, HandlersNext
    PROVE  [Next]_storeVars
<1> USE DEF CallerInv
<1>1. CASE TunnelStep
  BY <1>1, TunnelTakes
<1>2. ASSUME NEW p \in Proc, BeginsStep(p)
      PROVE  [Next]_storeVars
  BY <1>2 DEF BeginsStep, BeginStep
<1>3. ASSUME NEW p \in Proc, CallsStep(p)
      PROVE  [Next]_storeVars
  BY <1>3 DEF CallsStep, CallStep
<1>4. ASSUME NEW p \in Proc, WritesStep(p)
      PROVE  [Next]_storeVars
  BY <1>4 DEF WritesStep
<1> QED BY <1>1, <1>2, <1>3, <1>4, StepDoes

\* The versions of a service after a step of one request.
LEMMA VersionsAfter ==
    ASSUME NEW p \in Proc, NEW k, NEW step, Becomes(p, k, step),
           idIdx' = idIdx \/ (Busy(p) /\ WritesOwn(p)),
           NEW id \in Id, NEW v, v \in VersionsOf(id)'
    PROVE  v \in VersionsOf(id) \/ (k # NoJob /\ id = k.id /\ v \in {k.svc, k.want})
<1>1. v # NoService
  BY VersionWillBe
<1>2. CASE v = idIdx'[id]
  <2>1. CASE idIdx'[id] = idIdx[id]
    BY <1>1, <1>2, <2>1, VersionIs
  <2>2. CASE Busy(p) /\ id = job[p].id /\ idIdx'[id] \in {job[p].svc, job[p].want, NoService}
    BY <1>1, <1>2, <2>2, VersionIs
  <2> QED BY <2>1, <2>2 DEF WritesOwn
<1>3. CASE \E q \in Proc : /\ job'[q] # NoJob /\ job'[q].id = id
                           /\ v \in {job'[q].svc, job'[q].want}
  <2>1. PICK q \in Proc : /\ job'[q] # NoJob /\ job'[q].id = id
                          /\ v \in {job'[q].svc, job'[q].want}
    BY <1>3
  <2>2. job'[q] = IF q = p THEN k ELSE job[q]
    BY DEF Becomes
  <2>3. CASE q = p
    BY <2>1, <2>2, <2>3
  <2>4. CASE q # p
    BY <1>1, <2>1, <2>2, <2>4, VersionIs DEF Busy
  <2> QED BY <2>3, <2>4
<1> QED BY <1>2, <1>3, VersionWillBe

\* Calls and writes make no version of a service with other keys.
Derived == \A id \in Id : \A v \in VersionsOf(id)' : \E w \in VersionsOf(id) : SameKeys(v, w)

\* A call makes of a service's versions nothing but new DNS parts.
LEMMA CallDerives ==
    ASSUME Typed, NEW p \in Proc, NEW k, NEW step, CallStep(p, k, step)
    PROVE  Derived
<1>1. /\ Becomes(p, k, step) /\ idIdx' = idIdx /\ Advances(job[p], k) /\ Busy(p)
  BY CallingJob DEF CallStep, storeVars
<1>2. ASSUME NEW id \in Id, NEW v \in VersionsOf(id)'
      PROVE  \E w \in VersionsOf(id) : SameKeys(v, w)
  <2>1. CASE v \in VersionsOf(id)
    BY <2>1 DEF SameKeys
  <2>2. CASE id = k.id /\ v \in {k.svc, k.want}
    <3>1. v # NoService
      BY <1>2, VersionWillBe
    <3>2. CASE v = k.svc
      BY <1>1, <2>2, <3>1, <3>2, VersionIs DEF Advances, SameKeys
    <3>3. CASE v = k.want
      <4>1. job[p].want # NoService /\ SameKeys(v, job[p].want) /\ job[p].id = id
        BY <1>1, <2>2, <3>1, <3>3 DEF Advances
      <4>2. job[p].want \in VersionsOf(id)
        BY <1>1, <4>1, VersionIs
      <4> QED BY <4>1, <4>2
    <3> QED BY <2>2, <3>2, <3>3
  <2> QED BY <1>1, <1>2, <2>1, <2>2, VersionsAfter
<1> QED BY <1>2 DEF Derived

\* A write stores one of the versions there were.
LEMMA WriteDerives ==
    ASSUME Typed, NEW p \in Proc, NEW k, NEW step, WriteStep(p, k, step)
    PROVE  \A id \in Id : VersionsOf(id)' \subseteq VersionsOf(id)
<1>1. Becomes(p, k, step) /\ WritesOwn(p) /\ Busy(p)
  BY BusyJob DEF WriteStep
<1>2. k # NoJob => k.id = job[p].id /\ k.svc = job[p].svc /\ k.want = job[p].want
  BY DEF WriteStep
<1>3. ASSUME NEW id \in Id, NEW v \in VersionsOf(id)'
      PROVE  v \in VersionsOf(id)
  <2>1. v # NoService
    BY <1>3, VersionWillBe
  <2>2. CASE k # NoJob /\ id = k.id /\ v \in {k.svc, k.want}
    BY <1>1, <1>2, <2>1, <2>2, VersionIs
  <2> QED BY <1>1, <1>3, <2>2, VersionsAfter
<1> QED BY <1>3

\* A request that reads a service gives it one version more, at most.
LEMMA ReadDerives ==
    ASSUME Typed, NEW p \in Proc, NEW k, NEW step, BeginStep(p, k, step), Reads(k),
           NEW id \in Id, NEW v, v \in VersionsOf(id)'
    PROVE  /\ v \in VersionsOf(id) \/ (id = k.id /\ v = k.want)
           /\ k.svc \in VersionsOf(k.id)
<1>1. Becomes(p, k, step) /\ idIdx' = idIdx
  BY DEF BeginStep, storeVars
<1>2. k.svc \in VersionsOf(k.id)
  BY VersionIs DEF Reads, Live
<1>3. v \in VersionsOf(id) \/ (id = k.id /\ v \in {k.svc, k.want})
  BY <1>1, VersionsAfter
<1> QED BY <1>2, <1>3

\* A new service has the one version its request builds.
LEMMA FreshDerives ==
    ASSUME Typed, NEW p \in Proc, NEW k, NEW step, BeginStep(p, k, step), Fresh(k),
           NEW id \in Id, NEW v, v \in VersionsOf(id)'
    PROVE  /\ (v \in VersionsOf(id) /\ id # k.id) \/ (id = k.id /\ v = k.want)
           /\ VersionsOf(k.id) = {}
<1>1. Becomes(p, k, step) /\ idIdx' = idIdx /\ k.id \in Id
  BY DEF BeginStep, storeVars
<1>2. ASSUME NEW w, w \in VersionsOf(k.id)
      PROVE  FALSE
  <2>1. CASE w # NoService /\ w = idIdx[k.id]
    BY <1>1, <2>1 DEF Fresh, Typed, StoreTyped, LiveIds, Live
  <2>2. CASE \E q \in Proc : Busy(q) /\ job[q].id = k.id
    BY <2>2, BusyJob, IdleHasNoJob DEF Fresh
  <2> QED BY <1>2, <2>1, <2>2, VersionIs
<1>3. v # NoService
  BY VersionWillBe
<1>4. v \in VersionsOf(id) \/ (id = k.id /\ v \in {k.svc, k.want})
  BY <1>1, VersionsAfter
<1> QED BY <1>2, <1>3, <1>4 DEF Fresh

\* A service's source and container never change.
LEMMA OriginsStayKept ==
    ASSUME CallerInv, HandlersNext
    PROVE  OriginsKept'
<1> USE DEF CallerInv
<1>1. CASE TunnelStep
  <2>1. UNCHANGED <<idIdx, job>>
    BY <1>1, TunnelTakes DEF storeVars
  <2> QED BY <2>1 DEF OriginsKept, VersionsOf, Owners, Busy
<1>a. ASSUME Derived
      PROVE  OriginsKept'
  <2>1. ASSUME NEW id \in Id, NEW v \in VersionsOf(id)', NEW w \in VersionsOf(id)'
        PROVE  Origin(v) = Origin(w)
    <3>1. PICK x \in VersionsOf(id), y \in VersionsOf(id) :
              Origin(v) = Origin(x) /\ Origin(w) = Origin(y)
      BY <1>a, <2>1 DEF Derived, SameKeys
    <3> QED BY <3>1 DEF OriginsKept
  <2> QED BY <2>1 DEF OriginsKept
<1>2. ASSUME NEW p \in Proc, BeginsStep(p)
      PROVE  OriginsKept'
  <2>1. PICK k, step : BeginStep(p, k, step) /\ (Fresh(k) \/ Reads(k))
    BY <1>2 DEF BeginsStep
  <2>2. ASSUME NEW id \in Id, NEW v \in VersionsOf(id)', NEW w \in VersionsOf(id)'
        PROVE  Origin(v) = Origin(w)
    <3>1. CASE Fresh(k)
      BY <2>1, <2>2, <3>1, FreshDerives DEF OriginsKept
    <3>2. CASE Reads(k)
      <4>0. k.id \in Id
        BY <2>1 DEF BeginStep
      <4>1. /\ v \in VersionsOf(id) \/ (id = k.id /\ v = k.want)
            /\ w \in VersionsOf(id) \/ (id = k.id /\ w = k.want)
            /\ k.svc \in VersionsOf(k.id)
        BY <2>1, <2>2, <3>2, ReadDerives
      <4>2. \A u \in {v, w} : u # NoService
        BY <2>2, VersionWillBe
      <4>3. \A u \in {v, w} : id = k.id => Origin(u) = Origin(k.svc)
        BY <3>2, <4>0, <4>1, <4>2 DEF Reads, OriginsKept
      <4> QED BY <4>1, <4>3 DEF OriginsKept
    <3> QED BY <2>1, <3>1, <3>2
  <2> QED BY <2>2 DEF OriginsKept
<1>3. ASSUME NEW p \in Proc, CallsStep(p)
      PROVE  OriginsKept'
  BY <1>3, <1>a, CallDerives DEF CallsStep
<1>4. ASSUME NEW p \in Proc, WritesStep(p)
      PROVE  OriginsKept'
  BY <1>4, WriteDerives DEF WritesStep, OriginsKept
<1> QED BY <1>1, <1>2, <1>3, <1>4, StepDoes

\* tunnelMu is held from the reading of the rules to their putting.
LEMMA LockStaysHeld ==
    ASSUME CallerInv, HandlersNext
    PROVE  LockHeld'
<1> USE HandlersAssumption DEF CallerInv
<1>a. ASSUME NEW p \in Proc, NEW k, NEW step, Becomes(p, k, step)
      PROVE  pc' = [q \in Proc |-> IF q = p THEN step ELSE pc[q]]
  BY <1>a DEF Becomes
<1>1. CASE TunnelStep
  BY <1>1, TunnelTakes DEF LockHeld
<1>2. ASSUME NEW p \in Proc, BeginsStep(p)
      PROVE  LockHeld'
  <2>1. PICK k, step : BeginStep(p, k, step)
    BY <1>2 DEF BeginsStep
  <2>2. /\ pc[p] = "idle" /\ step # "put" /\ tunnelMu' = tunnelMu
        /\ pc' = [q \in Proc |-> IF q = p THEN step ELSE pc[q]]
    BY <2>1, <1>a DEF BeginStep, cfVars
  <2> QED BY <2>2 DEF LockHeld
<1>3. ASSUME NEW p \in Proc,
             CallReturns(p) \/ CallFails(p) \/ CallSkipped(p) \/ CallModifies(p)
      PROVE  LockHeld'
  <2>1. /\ tunnelMu' = tunnelMu /\ pc[p] # "put"
        /\ pc' = pc \/ pc' = [pc EXCEPT ![p] = "modify"]
    BY <1>3 DEF CallReturns, CallFails, CallSkipped, CallModifies, Pending, cfVars
  <2> QED BY <2>1 DEF LockHeld, Typed, JobsTyped
<1>4. ASSUME NEW p \in Proc, ReadIngress(p)
      PROVE  LockHeld'
  <2>1. tunnelMu = Nobody /\ tunnelMu' = p /\ pc' = [pc EXCEPT ![p] = "put"]
    BY <1>4 DEF ReadIngress, LockTunnel
  <2> QED BY <2>1 DEF LockHeld, Typed, JobsTyped
<1>5. ASSUME NEW p \in Proc, WriteIngress(p) \/ WriteIngressFails(p) \/ IngressRefused(p)
      PROVE  LockHeld'
  <2>1. /\ pc[p] = "put" \/ (pc[p] = "modify" /\ tunnelMu = Nobody)
        /\ tunnelMu' = Nobody /\ pc' = [pc EXCEPT ![p] = "calls"]
    BY <1>5 DEF WriteIngress, WriteIngressFails, IngressRefused
  <2> QED BY <2>1 DEF LockHeld, Typed, JobsTyped
<1>6. ASSUME NEW p \in Proc, WritesStep(p)
      PROVE  LockHeld'
  <2>1. PICK k, step : WriteStep(p, k, step)
    BY <1>6 DEF WritesStep
  <2>2. /\ pc[p] # "put" /\ step # "put" /\ tunnelMu' = tunnelMu
        /\ pc' = [q \in Proc |-> IF q = p THEN step ELSE pc[q]]
    BY <2>1, <1>a DEF WriteStep, cfVars
  <2> QED BY <2>2 DEF LockHeld
<1> QED BY <1>1, <1>2, <1>3, <1>4, <1>5, <1>6, StepDoes DEF Calling

\* The rules about to be put are those of now: nobody else changes the tunnel's.
LEMMA IngressStaysCurrent ==
    ASSUME CallerInv, HandlersNext
    PROVE  IngressIsCurrent'
<1> USE HandlersAssumption DEF CallerInv
<1> DEFINE Current(q) ==
        pc[q] = "put" /\ tunnelUp => job[q].rules = Modified(ingress, job[q], NextCall(q))
<1>0. IngressIsCurrent = \A q \in Proc : Current(q)
  BY DEF IngressIsCurrent
<1>a. ASSUME NEW p \in Proc, NEW k, NEW step, Becomes(p, k, step)
      PROVE  \A q \in Proc \ {p} : job'[q] = job[q] /\ pc'[q] = pc[q]
  BY <1>a DEF Becomes
<1>b. ASSUME NEW p \in Proc, NEW k, NEW step, Becomes(p, k, step), step # "put",
             UNCHANGED <<ingress, tunnelUp>>
      PROVE  IngressIsCurrent'
  <2>1. pc'[p] = step
    BY <1>b DEF Becomes
  <2> QED BY <1>a, <1>b, <2>1 DEF IngressIsCurrent, NextCall
<1>1. CASE TunnelStep
  <2>1. /\ pc' = pc /\ job' = job
        /\ tunnelMu # Nobody /\ tunnelUp' => tunnelUp /\ ingress' = ingress
    BY <1>1, TunnelTakes
  <2> QED BY <2>1 DEF LockHeld, IngressIsCurrent, NextCall
<1>2. ASSUME NEW p \in Proc, BeginsStep(p)
      PROVE  IngressIsCurrent'
  BY <1>2, <1>b DEF BeginsStep, BeginStep, cfVars
<1>3. ASSUME NEW p \in Proc,
             CallReturns(p) \/ CallFails(p) \/ CallSkipped(p) \/ CallModifies(p)
      PROVE  IngressIsCurrent'
  <2>1. PICK k, step : CallStep(p, k, step) /\ step # "put"
    BY <1>3, CallReturnsTakes, CallFailsTakes, CallSkippedTakes, CallModifiesTakes
  <2>2. UNCHANGED <<ingress, tunnelUp>>
    BY <1>3 DEF CallReturns, CallFails, CallSkipped, CallModifies, cfVars
  <2> QED BY <1>b, <2>1, <2>2 DEF CallStep
<1>4. ASSUME NEW p \in Proc, ReadIngress(p)
      PROVE  IngressIsCurrent'
  <2>1. PICK k : /\ CallStep(p, k, "put") /\ k.want = job[p].want
                 /\ k.rules = Modified(ingress, job[p], NextCall(p))
                 /\ Head(k.todo) = NextCall(p)
    BY <1>4, ReadIngressTakes
  <2>2. ingress' = ingress
    BY <1>4, ReadIngressTakes
  <2>3. job'[p] = k /\ k.svc = job[p].svc /\ k.drop = job[p].drop
    BY <2>1 DEF CallStep, Becomes, Advances
  <2>4. k.rules = Modified(ingress', k, Head(k.todo))
    BY <2>1, <2>2, <2>3 DEF Modified, Rule
  <2>5. \A q \in Proc \ {p} : job'[q] = job[q] /\ pc'[q] = pc[q]
    BY <1>a, <2>1 DEF CallStep
  <2>6. tunnelUp' = tunnelUp
    BY <1>4 DEF ReadIngress
  <2> QED BY <2>2, <2>3, <2>4, <2>5, <2>6 DEF IngressIsCurrent, NextCall
<1>5. ASSUME NEW p \in Proc, WriteIngress(p) \/ WriteIngressFails(p) \/ IngressRefused(p)
      PROVE  IngressIsCurrent'
  <2>1. PICK k : CallStep(p, k, "calls")
    BY <1>5, WriteIngressTakes, RefusedTakes
  <2>2. pc[p] = "put" \/ tunnelMu = Nobody
    BY <1>5, WriteIngressTakes, RefusedTakes
  <2>3. \A q \in Proc : pc'[q] # "put"
    BY <2>1, <2>2 DEF CallStep, Becomes, LockHeld
  <2> QED BY <2>3 DEF IngressIsCurrent
<1>6. ASSUME NEW p \in Proc, WritesStep(p)
      PROVE  IngressIsCurrent'
  BY <1>6, <1>b DEF WritesStep, WriteStep, cfVars
<1> QED BY <1>1, <1>2, <1>3, <1>4, <1>5, <1>6, StepDoes DEF Calling

\* No request, no service, and the tunnel without rules.
LEMMA CallerInit == HandlersInit => CallerInv
<1> SUFFICES ASSUME HandlersInit PROVE CallerInv
  OBVIOUS
<1> USE HandlersAssumption DEF HandlersInit
<1>1. TypeOK /\ IndexSound
  BY InitType DEF Init, IndexSound, SubdomainSound, ContainerIDSound, ContainerNameSound
<1>2. StoreTyped
  BY <1>1 DEF StoreTyped, Init, LiveIds, Live
<1>3. CloudTyped
  <2>1. discovered \subseteq Entry
    <3>1. \A c \in Containers : c.cid \in Cid /\ c.name \in CName
      OBVIOUS
    <3> QED BY <3>1 DEF Entry
  <2>2. ingress \in [Rules -> Nat]
    BY DEF NoRules
  <2> QED BY <2>1, <2>2 DEF CloudTyped
<1>4. JobsTyped
  BY DEF JobsTyped
<1>5. OriginsKept
  BY DEF OriginsKept, VersionsOf, Owners, Busy, Init
<1>6. LockHeld /\ IngressIsCurrent
  BY DEF LockHeld, IngressIsCurrent
<1> QED BY <1>1, <1>2, <1>3, <1>4, <1>5, <1>6 DEF CallerInv, Typed

\* What every caller keeps.
LEMMA CallerInvariant == HandlersSpec => []CallerInv
<1>1. CallerInv /\ [HandlersNext]_handlerVars => CallerInv'
  <2> SUFFICES ASSUME CallerInv, [HandlersNext]_handlerVars PROVE CallerInv'
    OBVIOUS
  <2>1. CASE HandlersNext
    <3>1. IndexSound'
      BY <2>1, StepIsOfStore, NextSubdomain, NextContainerID, NextContainerName
         DEF CallerInv, Typed, StoreTyped, IndexSound
    <3> QED BY <2>1, <3>1, StepStaysTyped, OriginsStayKept, LockStaysHeld, IngressStaysCurrent
            DEF CallerInv
  <2>2. CASE UNCHANGED handlerVars
    <3>1. UNCHANGED <<services, idIdx, containerIDIdx, containerNameIdx, zone, nextRec,
                      ingress, tunnelOn, tunnelUp, manager, tunnelMu, toggles, failures, usedIds,
                      discovered, pc, job>>
      BY <2>2 DEF handlerVars, storeVars, cfVars
    <3>2. Typed'
      BY <3>1 DEF CallerInv, Typed, StoreTyped, CloudTyped, JobsTyped, TypeOK, LiveIds, Live
    <3>3. IndexSound'
      BY <3>1 DEF CallerInv, IndexSound, SubdomainSound, ContainerIDSound,
                  ContainerNameSound, Live
    <3>4. OriginsKept'
      BY <3>1 DEF CallerInv, OriginsKept, VersionsOf, Owners, Busy
    <3>5. LockHeld' /\ IngressIsCurrent'
      BY <3>1 DEF CallerInv, LockHeld, IngressIsCurrent, NextCall
    <3> QED BY <3>2, <3>3, <3>4, <3>5 DEF CallerInv
  <2> QED BY <2>1, <2>2
<1> QED BY <1>1, CallerInit, PTL DEF HandlersSpec

\* The store, Cloudflare's state and the requests keep their types, whatever
\* users ask for and however calls fail.
THEOREM HandlersTyped == HandlersSpec => []HandlersTypeOK
<1>1. CallerInv => HandlersTypeOK
  BY DEF CallerInv, Typed, StoreTyped, CloudTyped, JobsTyped, JobTyped, HandlersTypeOK
<1> QED BY <1>1, CallerInvariant, PTL

\* modifyIngress loses no update: between a handler's GET of a tunnel's rules and
\* its PUT nobody else changes them, for any number of handlers.  The tunnel may
\* be deleted in between, which refuses the PUT, but none takes its place.
THEOREM NoLostIngress == HandlersSpec => []IngressIsCurrent
<1>1. CallerInv => IngressIsCurrent
  BY DEF CallerInv
<1> QED BY <1>1, CallerInvariant, PTL

\* Whatever the handlers do, interleaved with slow and failing calls, they use
\* the store as its specification allows: an update keeps the source of the
\* service it replaces, though it was read long before.
THEOREM HandlersAreCallers == HandlersSpec => Spec
<1>1. CallerInv /\ [HandlersNext]_handlerVars => [Next]_storeVars
  BY StepIsOfStore DEF handlerVars
<1>2. HandlersInit => Init
  BY DEF HandlersInit
<1> QED BY <1>1, <1>2, CallerInvariant, PTL DEF HandlersSpec, Spec

\* So no lookup of the store ever returns a service that is gone or elsewhere,
\* even when requests collide on a subdomain.
THEOREM LookupsStaySound == HandlersSpec => []IndexSound
BY HandlersAreCallers, StoreSound, PTL

\* At the start there is no service and no request.
LEMMA NothingAtFirst ==
    HandlersInit => \A id \in Id : VersionsOf(id) = {}
<1> SUFFICES ASSUME HandlersInit PROVE \A id \in Id : VersionsOf(id) = {}
  OBVIOUS
<1>1. \A p \in Proc : ~Busy(p)
  BY DEF HandlersInit, Busy
<1> QED BY <1>1 DEF VersionsOf, Owners, HandlersInit, Init

-----------------------------------------------------------------------------
(* Users who ask only for free subdomains *)

\* Request p begins, and the one version of a service that it adds is what it asks for.
Asks(p, k, step) ==
    /\ BeginStep(p, k, step) /\ (Fresh(k) \/ Reads(k))
    /\ \A id \in Id : \A v \in VersionsOf(id)' :
           v \in VersionsOf(id) \/ (id = k.id /\ v = k.want /\ k.want # NoService)

\* Only a request that begins makes a version of a service with other keys.
LEMMA VersionsComeFrom ==
    ASSUME CallerInv, HandlersNext
    PROVE  Derived \/ \E p \in Proc : \E k, step : Asks(p, k, step)
<1> USE DEF CallerInv
<1>1. CASE TunnelStep
  <2>1. UNCHANGED <<job, idIdx>>
    BY <1>1, TunnelTakes DEF storeVars
  <2>2. \A id \in Id : VersionsOf(id)' = VersionsOf(id)
    BY <2>1 DEF VersionsOf, Owners, Busy
  <2> QED BY <2>2 DEF Derived, SameKeys
<1>2. ASSUME NEW p \in Proc, BeginsStep(p)
      PROVE  \E k, step : Asks(p, k, step)
  <2>1. PICK k, step : BeginStep(p, k, step) /\ (Fresh(k) \/ Reads(k))
    BY <1>2 DEF BeginsStep
  <2>2. ASSUME NEW id \in Id, NEW v \in VersionsOf(id)'
        PROVE  v \in VersionsOf(id) \/ (id = k.id /\ v = k.want /\ k.want # NoService)
    BY <2>1, <2>2, FreshDerives, ReadDerives, VersionWillBe
  <2> QED BY <2>1, <2>2 DEF Asks
<1>3. ASSUME NEW p \in Proc, CallsStep(p)
      PROVE  Derived
  BY <1>3, CallDerives DEF CallsStep
<1>4. ASSUME NEW p \in Proc, WritesStep(p)
      PROVE  Derived
  BY <1>4, WriteDerives DEF WritesStep, Derived, SameKeys
<1> QED BY <1>1, <1>2, <1>3, <1>4, StepDoes

\* A request asks for a subdomain that no other service has or is to have.
LEMMA AskedIsFree ==
    ASSUME CallerInv, FreeHostsOnly, NEW p \in Proc, NEW k, NEW step,
           BeginStep(p, k, step), Fresh(k) \/ Reads(k), k.want # NoService,
           NEW other \in Id, other # k.id, NEW w \in VersionsOf(other)
    PROVE  w.sub # k.want.sub
<1>1. w # NoService
  BY VersionIs
<1>2. HostFree(k.want.sub, k.id)
  BY DEF Fresh, Reads
<1>3. CASE w = idIdx[other]
  BY <1>1, <1>2, <1>3 DEF HostFree, LiveIds, Live
<1>4. CASE \E q \in Proc : Busy(q) /\ job[q].id = other /\ w \in {job[q].svc, job[q].want}
  <2>1. PICK q \in Proc : Busy(q) /\ job[q].id = other /\ w \in {job[q].svc, job[q].want}
    BY <1>4
  <2>2. w.sub \in HostsOf(job[q])
    BY <1>1, <2>1 DEF HostsOf
  <2>3. k.want.sub \notin HostsOf(job[q])
    BY <1>2, <2>1 DEF HostFree
  <2> QED BY <2>2, <2>3
<1> QED BY <1>3, <1>4, VersionIs

\* Services never come to share a subdomain.
LEMMA SubsStayApart ==
    ASSUME FreeSubs, FreeHostsOnly, HandlersNext
    PROVE  SubsApart'
<1> USE DEF FreeSubs
<1>1. CASE Derived
  BY <1>1 DEF Derived, SubsApart, SameKeys
<1>2. ASSUME NEW p \in Proc, NEW k, NEW step, Asks(p, k, step)
      PROVE  SubsApart'
  <2>1. ASSUME NEW id \in Id, NEW other \in Id, id # other,
               NEW v \in VersionsOf(id)', NEW w \in VersionsOf(other)'
        PROVE  v.sub # w.sub
    <3>1. CASE v \in VersionsOf(id) /\ w \in VersionsOf(other)
      BY <2>1, <3>1 DEF SubsApart
    <3>2. CASE id = k.id /\ v = k.want /\ k.want # NoService /\ w \in VersionsOf(other)
      BY <1>2, <2>1, <3>2, AskedIsFree DEF Asks
    <3>3. CASE other = k.id /\ w = k.want /\ k.want # NoService /\ v \in VersionsOf(id)
      BY <1>2, <2>1, <3>3, AskedIsFree DEF Asks
    <3> QED BY <1>2, <2>1, <3>1, <3>2, <3>3 DEF Asks
  <2> QED BY <2>1 DEF SubsApart
<1> QED BY <1>1, <1>2, VersionsComeFrom

\* At the start no service has one.
LEMMA FreeSubsInit == HandlersInit => FreeSubs
BY NothingAtFirst, CallerInit DEF FreeSubs, SubsApart

\* What users who ask only for free subdomains keep.
LEMMA FreeSubsInvariant ==
    FreeHostsOnly => (HandlersSpec => []FreeSubs)
<1> SUFFICES ASSUME FreeHostsOnly
             PROVE  HandlersSpec => []FreeSubs
  OBVIOUS
<1>1. FreeSubs /\ CallerInv' /\ [HandlersNext]_handlerVars => FreeSubs'
  <2> SUFFICES ASSUME FreeSubs, CallerInv', [HandlersNext]_handlerVars
               PROVE  FreeSubs'
    OBVIOUS
  <2>1. CASE HandlersNext
    BY <2>1, SubsStayApart DEF FreeSubs
  <2>2. CASE UNCHANGED handlerVars
    <3>1. UNCHANGED <<idIdx, job>>
      BY <2>2 DEF handlerVars, storeVars
    <3> QED BY <3>1 DEF FreeSubs, SubsApart, VersionsOf, Owners, Busy
  <2> QED BY <2>1, <2>2
<1> QED BY <1>1, FreeSubsInit, CallerInvariant, PTL DEF HandlersSpec

-----------------------------------------------------------------------------
(* Users who wait for the last request about a service to end *)

\* One request per service and per container.
LEMMA OneEachStays ==
    ASSUME TakingTurns, OneWriter, HandlersNext
    PROVE  OneEach'
<1> USE DEF TakingTurns, CallerInv
<1>1. CASE TunnelStep
  <2>1. UNCHANGED job
    BY <1>1, TunnelTakes
  <2> QED BY <2>1 DEF OneEach, Busy
<1>a. ASSUME NEW p \in Proc, NEW k, NEW step, Becomes(p, k, step), Busy(p),
             k # NoJob => k.id = job[p].id /\ k.entry = job[p].entry
      PROVE  OneEach'
  <2>1. \A q \in Proc : job'[q] = IF q = p THEN k ELSE job[q]
    BY <1>a DEF Becomes
  <2> QED BY <1>a, <2>1 DEF OneEach, Busy
<1>2. ASSUME NEW p \in Proc, BeginsStep(p)
      PROVE  OneEach'
  <2>1. PICK k, step : BeginStep(p, k, step) /\ (Fresh(k) \/ Reads(k))
    BY <1>2 DEF BeginsStep
  <2>2. \A q \in Proc : job'[q] = IF q = p THEN k ELSE job[q]
    BY <2>1 DEF BeginStep, Becomes
  <2>3. ASSUME NEW q \in Proc, q # p, Busy(q)
        PROVE  /\ job[q].id # k.id
               /\ k.entry # NoEntry => job[q].entry # k.entry
               /\ job[q].entry # NoEntry => job[q].entry # k.entry
    <3>1. job[q].id \in usedIds
      BY <2>3, BusyJob, IdleHasNoJob
    <3>2. CASE Fresh(k)
      BY <2>3, <3>1, <3>2 DEF Fresh, Unclaimed
    <3>3. CASE Reads(k)
      BY <2>3, <3>3 DEF Reads, Alone
    <3> QED BY <2>1, <3>2, <3>3
  <2> QED BY <2>2, <2>3 DEF OneEach, Busy
<1>3. ASSUME NEW p \in Proc, CallsStep(p)
      PROVE  OneEach'
  <2>1. PICK k, step : CallStep(p, k, step)
    BY <1>3 DEF CallsStep
  <2> QED BY <1>a, <2>1, CallingJob DEF CallStep, Advances
<1>4. ASSUME NEW p \in Proc, WritesStep(p)
      PROVE  OneEach'
  <2>1. PICK k, step : WriteStep(p, k, step)
    BY <1>4 DEF WritesStep
  <2> QED BY <1>a, <2>1, BusyJob DEF WriteStep
<1> QED BY <1>1, <1>2, <1>3, <1>4, StepDoes

\* A service is gone before deleteService makes its first call.
LEMMA DeletedStaysGone ==
    ASSUME TakingTurns, OneWriter, HandlersNext
    PROVE  DeletedIsGone'
<1> USE DEF TakingTurns, CallerInv
<1>1. CASE TunnelStep
  <2>1. UNCHANGED <<job, pc, idIdx>>
    BY <1>1, TunnelTakes DEF storeVars
  <2> QED BY <2>1 DEF DeletedIsGone, Live
<1>2. ASSUME NEW p \in Proc, BeginsStep(p)
      PROVE  DeletedIsGone'
  <2>1. PICK k, step : BeginStep(p, k, step) /\ (step = "calls" => k.want # NoService)
    BY <1>2 DEF BeginsStep
  <2>2. \A q \in Proc : /\ job'[q] = IF q = p THEN k ELSE job[q]
                        /\ pc'[q] = IF q = p THEN step ELSE pc[q]
    BY <2>1 DEF BeginStep, Becomes
  <2>3. idIdx' = idIdx /\ step \notin {"modify", "put"}
    BY <2>1 DEF BeginStep, storeVars
  <2> QED BY <2>1, <2>2, <2>3 DEF DeletedIsGone, Live
<1>3. ASSUME NEW p \in Proc, CallsStep(p)
      PROVE  DeletedIsGone'
  <2>1. PICK k, step : CallStep(p, k, step)
    BY <1>3 DEF CallsStep
  <2>2. \A q \in Proc : /\ job'[q] = IF q = p THEN k ELSE job[q]
                        /\ pc'[q] = IF q = p THEN step ELSE pc[q]
    BY <2>1 DEF CallStep, Becomes
  <2>3. /\ idIdx' = idIdx /\ pc[p] \in {"calls", "modify", "put"} /\ k.id = job[p].id
        /\ k.want = NoService <=> job[p].want = NoService
    BY <2>1 DEF CallStep, storeVars, Advances
  <2> QED BY <2>2, <2>3 DEF DeletedIsGone, Live
<1>4. ASSUME NEW p \in Proc, WritesStep(p)
      PROVE  DeletedIsGone'
  <2>1. PICK k, step : /\ WriteStep(p, k, step)
                       /\ step = "calls" => idIdx'[job[p].id] = NoService
    BY <1>4 DEF WritesStep
  <2>2. \A q \in Proc : /\ job'[q] = IF q = p THEN k ELSE job[q]
                        /\ pc'[q] = IF q = p THEN step ELSE pc[q]
    BY <2>1 DEF WriteStep, Becomes
  <2>3. /\ WritesOwn(p) /\ step \in {"idle", "calls", "forget"} /\ pc[p] # "idle"
        /\ step = "calls" => k.id = job[p].id
    BY <2>1 DEF WriteStep
  <2>4. ASSUME NEW q \in Proc, q # p, pc[q] \in {"calls", "modify", "put"}, job[q].want = NoService
        PROVE  ~Live(job[q].id)'
    <3>1. job[q].id # job[p].id /\ job[q].id \in Id /\ job'[q] = job[q]
      BY <2>2, <2>3, <2>4, BusyJob DEF OneEach
    <3>2. idIdx'[job[q].id] = idIdx[job[q].id]
      BY <2>3, <3>1 DEF WritesOwn
    <3> QED BY <2>4, <3>1, <3>2 DEF DeletedIsGone, Live
  <2> QED BY <2>1, <2>2, <2>3, <2>4 DEF DeletedIsGone, Live
<1> QED BY <1>1, <1>2, <1>3, <1>4, StepDoes

\* A request that is free to begin asks for a container that no other service has.
LEMMA AskedIsApart ==
    ASSUME TakingTurns, OneWriter, NEW p \in Proc, NEW k, NEW step,
           BeginStep(p, k, step), Fresh(k) \/ Reads(k), k.want # NoService,
           NEW other \in Id, other # k.id, NEW w \in VersionsOf(other)
    PROVE  Apart(k.want, w) /\ Apart(w, k.want)
<1> USE DEF TakingTurns, CallerInv
<1>1. k.id \in Id
  BY DEF BeginStep
<1>2. CASE Fresh(k)
  <2>1. CASE k.entry = NoEntry
    BY <1>2, <2>1 DEF Fresh, Apart
  <2>2. CASE k.entry # NoEntry
    <3>1. k.entry \in discovered /\ k.entry \in Entry
      BY <1>2, <2>2 DEF Fresh, Typed, CloudTyped
    <3>2. k.want.cid = k.entry.cid /\ k.want.name = k.entry.name
      BY <2>2 DEF BeginStep, JobTyped
    <3>3. ~SameContainer(k.entry, w)
      <4>1. \A q \in Proc : Busy(q) => job[q].entry # k.entry
        BY <1>2, <2>2 DEF Fresh, Unclaimed
      <4> QED BY <3>1, <4>1 DEF OffersApart, Owners
    <3> QED BY <3>2, <3>3 DEF SameContainer, Apart
  <2> QED BY <2>1, <2>2
<1>3. CASE Reads(k)
  <2>1. k.svc \in VersionsOf(k.id)
    BY <1>3, VersionIs DEF Reads, Live
  <2>2. Apart(k.svc, w)
    BY <1>1, <2>1 DEF ContainersApart
  <2>3. k.want.cid = k.svc.cid /\ k.want.name = k.svc.name
    BY <1>3 DEF Reads, Origin
  <2> QED BY <2>2, <2>3 DEF Apart
<1> QED BY <1>2, <1>3

\* No two services come to have a container or its name.
LEMMA ContainersStayApart ==
    ASSUME TakingTurns, OneWriter, HandlersNext
    PROVE  ContainersApart'
<1> USE DEF TakingTurns, CallerInv
<1>1. CASE Derived
  <2>1. ASSUME NEW id \in Id, NEW other \in Id, id # other,
               NEW v \in VersionsOf(id)', NEW w \in VersionsOf(other)'
        PROVE  Apart(v, w)
    <3>1. PICK x \in VersionsOf(id), y \in VersionsOf(other) : SameKeys(v, x) /\ SameKeys(w, y)
      BY <1>1, <2>1 DEF Derived
    <3>2. Apart(x, y)
      BY <2>1, <3>1 DEF ContainersApart
    <3> QED BY <3>1, <3>2 DEF Apart, SameKeys, Origin
  <2> QED BY <2>1 DEF ContainersApart
<1>2. ASSUME NEW p \in Proc, NEW k, NEW step, Asks(p, k, step)
      PROVE  ContainersApart'
  <2>1. ASSUME NEW id \in Id, NEW other \in Id, id # other,
               NEW v \in VersionsOf(id)', NEW w \in VersionsOf(other)'
        PROVE  Apart(v, w)
    <3>1. CASE v \in VersionsOf(id) /\ w \in VersionsOf(other)
      BY <2>1, <3>1 DEF ContainersApart
    <3>2. CASE id = k.id /\ v = k.want /\ k.want # NoService /\ w \in VersionsOf(other)
      BY <1>2, <2>1, <3>2, AskedIsApart DEF Asks
    <3>3. CASE other = k.id /\ w = k.want /\ k.want # NoService /\ v \in VersionsOf(id)
      BY <1>2, <2>1, <3>3, AskedIsApart DEF Asks
    <3> QED BY <1>2, <2>1, <3>1, <3>2, <3>3 DEF Asks
  <2> QED BY <2>1 DEF ContainersApart
<1> QED BY <1>1, <1>2, VersionsComeFrom

\* Who is assigning an offered container to a service goes on doing so.
LEMMA OwnerStays ==
    ASSUME NEW p \in Proc, NEW k, NEW step, Becomes(p, k, step), Busy(p),
           NEW e, NEW id, NEW q \in Owners(id), job[q].entry = e,
           IF k = NoJob THEN job[p].entry # e
                        ELSE k.id = job[p].id /\ k.entry = job[p].entry
    PROVE  \E r \in Owners(id)' : job'[r].entry = e
<1>1. job'[q] = IF q = p THEN k ELSE job[q]
  BY DEF Becomes, Owners
<1> QED BY <1>1 DEF Owners, Busy

\* deleteService offers a container that no other service has.
LEMMA OfferIsNew ==
    ASSUME TakingTurns, NEW p \in Proc, pc[p] = "calls", job[p].want = NoService,
           job[p].svc # NoService, job[p].svc.cid # NoCid, UNCHANGED storeVars,
           job[p].entry \notin discovered,
           job' = [q \in Proc |-> IF q = p THEN NoJob ELSE job[q]],
           NEW n, n.cid = job[p].svc.cid, n.name = job[p].svc.name
    PROVE  /\ \A e \in discovered : ~SameContainer(e, n) /\ ~SameContainer(n, e)
           /\ \A id \in Id : \A v \in VersionsOf(id)' : ~SameContainer(n, v)
<1> USE DEF TakingTurns, CallerInv
<1> DEFINE own == job[p].id
<1>1. Busy(p) /\ own \in Id /\ job[p].svc \in VersionsOf(own)
  BY BusyJob, VersionIs
<1>2. ASSUME NEW e \in discovered, SameContainer(e, n) \/ SameContainer(n, e)
      PROVE  FALSE
  <2>1. SameContainer(e, job[p].svc)
    BY <1>2 DEF SameContainer
  <2>2. PICK q \in Owners(own) : job[q].entry = e
    BY <1>1, <2>1 DEF OffersApart
  <2>3. q = p
    BY <1>1, <2>2 DEF Owners, OneEach
  <2> QED BY <2>2, <2>3
<1>3. ASSUME NEW id \in Id, NEW v \in VersionsOf(id)', SameContainer(n, v)
      PROVE  FALSE
  <2>1. v # NoService /\ v \in VersionsOf(id) /\ id # own
    <3>1. v # NoService
      BY VersionWillBe
    <3>2. CASE v = idIdx'[id]
      <4>1. v = idIdx[id]
        BY <3>2 DEF storeVars
      <4> QED BY <1>1, <3>1, <4>1, VersionIs DEF DeletedIsGone, Live
    <3>3. CASE \E q \in Proc : /\ job'[q] # NoJob /\ job'[q].id = id
                               /\ v \in {job'[q].svc, job'[q].want}
      <4>1. PICK q \in Proc : /\ job'[q] # NoJob /\ job'[q].id = id
                              /\ v \in {job'[q].svc, job'[q].want}
        BY <3>3
      <4>2. q # p /\ job'[q] = job[q] /\ Busy(q)
        BY <4>1 DEF Busy
      <4> QED BY <1>1, <3>1, <4>1, <4>2, VersionIs DEF OneEach
    <3> QED BY <3>1, <3>2, <3>3, VersionWillBe
  <2>2. Apart(job[p].svc, v)
    BY <1>1, <2>1 DEF ContainersApart
  <2> QED BY <1>3, <2>2 DEF Apart, SameContainer
<1> QED BY <1>2, <1>3

\* No container is offered while a service has it.
LEMMA OffersStayApart ==
    ASSUME TakingTurns, HandlersNext
    PROVE  OffersApart'
<1> USE DEF TakingTurns, CallerInv
<1>1. CASE TunnelStep
  <2>1. UNCHANGED <<job, idIdx, discovered>>
    BY <1>1, TunnelTakes DEF storeVars
  <2> QED BY <2>1 DEF OffersApart, VersionsOf, Owners, Busy
<1>2. ASSUME NEW p \in Proc, BeginsStep(p)
      PROVE  OffersApart'
  <2>1. PICK k, step : BeginStep(p, k, step) /\ (Fresh(k) \/ Reads(k))
    BY <1>2 DEF BeginsStep
  <2>2. /\ discovered' = discovered /\ Becomes(p, k, step) /\ k # NoJob /\ k.id \in Id
        /\ JobTyped(k, step) /\ ~Busy(p)
    BY <2>1, NullsAreApart DEF BeginStep, JobTyped, Busy
  <2>3. \A q \in Proc : job'[q] = IF q = p THEN k ELSE job[q]
    BY <2>2 DEF Becomes
  <2>4. ASSUME NEW e \in discovered, NEW id \in Id, NEW v \in VersionsOf(id)',
               SameContainer(e, v)
        PROVE  \E q \in Owners(id)' : job'[q].entry = e
    <3>1. CASE v \in VersionsOf(id)
      <4>1. PICK q \in Owners(id) : job[q].entry = e
        BY <2>4, <3>1 DEF OffersApart
      <4> QED BY <2>2, <2>3, <4>1 DEF Owners, Busy
    <3>2. CASE id = k.id /\ v = k.want /\ Fresh(k)
      <4>1. e \in Entry
        BY DEF Typed, CloudTyped
      <4>2. k.entry # NoEntry
        BY <2>4, <3>2, <4>1, NullsAssumption DEF Fresh, SameContainer, Entry
      <4>3. SameContainer(e, k.entry) /\ k.entry \in discovered
        BY <2>2, <2>4, <3>2, <4>2 DEF Fresh, SameContainer, JobTyped
      <4>4. k.entry = e
        BY <4>3 DEF OffersApart
      <4> QED BY <2>2, <2>3, <3>2, <4>4 DEF Owners, Busy
    <3>3. CASE id = k.id /\ v = k.want /\ Reads(k)
      <4>1. v # NoService
        BY <2>4, VersionWillBe
      <4>2. SameContainer(e, k.svc)
        BY <2>4, <3>3, <4>1 DEF Reads, Origin, SameContainer
      <4>3. k.svc \in VersionsOf(id)
        BY <3>3, VersionIs DEF Reads, Live
      <4>4. PICK q \in Owners(id) : job[q].entry = e
        BY <4>2, <4>3 DEF OffersApart
      <4> QED BY <2>2, <2>3, <4>4 DEF Owners, Busy
    <3> QED BY <2>1, <2>4, <3>1, <3>2, <3>3, FreshDerives, ReadDerives
  <2> QED BY <2>2, <2>4 DEF OffersApart
<1>3. ASSUME NEW p \in Proc, CallsStep(p)
      PROVE  OffersApart'
  <2>1. PICK k, step : CallStep(p, k, step)
    BY <1>3 DEF CallsStep
  <2>2. /\ Becomes(p, k, step) /\ Busy(p) /\ discovered' = discovered
        /\ k.id = job[p].id /\ k.entry = job[p].entry
    BY <2>1, CallingJob DEF CallStep, Advances
  <2>3. k # NoJob
    BY <2>1, NullsAreApart DEF CallStep, JobTyped
  <2>4. ASSUME NEW e \in discovered, NEW id \in Id, NEW v \in VersionsOf(id)',
               SameContainer(e, v)
        PROVE  \E q \in Owners(id)' : job'[q].entry = e
    <3>1. PICK w \in VersionsOf(id) : SameKeys(v, w)
      BY <2>1, CallDerives DEF Derived
    <3>2. SameContainer(e, w)
      BY <2>4, <3>1 DEF SameKeys, Origin, SameContainer
    <3>3. PICK q \in Owners(id) : job[q].entry = e
      BY <3>2 DEF OffersApart
    <3> QED BY <2>2, <2>3, <3>3, OwnerStays
  <2> QED BY <2>2, <2>4 DEF OffersApart
<1>4. ASSUME NEW p \in Proc, WritesStep(p)
      PROVE  OffersApart'
  <2>1. PICK k, step : WriteStep(p, k, step) /\ (step = "idle" => job[p].entry \notin discovered')
    BY <1>4 DEF WritesStep
  <2>2. /\ Becomes(p, k, step) /\ Busy(p)
        /\ k = NoJob => step = "idle"
        /\ k # NoJob => k.id = job[p].id /\ k.entry = job[p].entry
    BY <2>1, BusyJob, NullsAreApart DEF WriteStep, JobTyped
  <2>3. ASSUME NEW e \in discovered, e \in discovered', NEW id \in Id,
               NEW v \in VersionsOf(id)', SameContainer(e, v)
        PROVE  \E q \in Owners(id)' : job'[q].entry = e
    <3>1. v \in VersionsOf(id)
      BY <2>1, WriteDerives
    <3>2. PICK q \in Owners(id) : job[q].entry = e
      BY <2>3, <3>1 DEF OffersApart
    <3>3. k = NoJob => job[p].entry # e
      BY <2>1, <2>2, <2>3
    <3> QED BY <2>2, <3>2, <3>3, OwnerStays
  <2>4. CASE discovered' \subseteq discovered
    BY <2>3, <2>4 DEF OffersApart
  <2>5. CASE /\ pc[p] = "calls" /\ job[p].want = NoService /\ UNCHANGED storeVars
             /\ job[p].svc \in Addable /\ job[p].svc.cid # NoCid
             /\ discovered' = discovered \cup {[cid |-> job[p].svc.cid,
                                        name |-> job[p].svc.name, from |-> job[p].id]}
             /\ job' = [q \in Proc |-> IF q = p THEN NoJob ELSE job[q]]
    <3>1. PICK n : /\ n = [cid |-> job[p].svc.cid, name |-> job[p].svc.name,
                           from |-> job[p].id]
                   /\ discovered' = discovered \cup {n}
      BY <2>5
    <3>2. n.cid = job[p].svc.cid /\ n.name = job[p].svc.name
      BY <3>1
    <3>3. k = NoJob /\ job[p].svc # NoService
      BY <2>2, <2>5, NoServiceAssumption DEF Becomes, Addable
    <3>4. job[p].entry \notin discovered
      BY <2>1, <2>2, <3>1, <3>3
    <3>5. /\ \A e \in discovered : ~SameContainer(e, n) /\ ~SameContainer(n, e)
          /\ \A id \in Id : \A v \in VersionsOf(id)' : ~SameContainer(n, v)
      BY <2>5, <3>2, <3>3, <3>4, OfferIsNew
    <3> QED BY <2>3, <3>1, <3>5 DEF OffersApart
  <2> QED BY <1>4, <2>4, <2>5 DEF WritesStep
<1> QED BY <1>1, <1>2, <1>3, <1>4, StepDoes

\* At the start the containers on offer differ and no service has any.
LEMMA TurnsInit == HandlersInit => TakingTurns
<1> SUFFICES ASSUME HandlersInit PROVE TakingTurns
  OBVIOUS
<1>1. \A id \in Id : VersionsOf(id) = {}
  BY NothingAtFirst
<1> USE HandlersAssumption DEF HandlersInit
<1>2. CallerInv
  BY CallerInit
<1>3. OneEach /\ DeletedIsGone /\ ContainersApart
  BY <1>1 DEF OneEach, DeletedIsGone, ContainersApart, Busy
<1>4. ASSUME NEW e \in discovered, NEW f \in discovered, e # f
      PROVE  ~SameContainer(e, f)
  <2>1. PICK c \in Containers, d \in Containers :
            /\ e = [cid |-> c.cid, name |-> c.name, from |-> NoId]
            /\ f = [cid |-> d.cid, name |-> d.name, from |-> NoId]
    BY <1>4
  <2>2. c # d
    BY <1>4, <2>1
  <2> QED BY <2>1, <2>2 DEF SameContainer
<1>5. OffersApart
  BY <1>1, <1>4 DEF OffersApart
<1> QED BY <1>2, <1>3, <1>5 DEF TakingTurns

\* What users who take turns keep.
LEMMA TurnsInvariant ==
    OneWriter => (HandlersSpec => []TakingTurns)
<1> SUFFICES ASSUME OneWriter
             PROVE  HandlersSpec => []TakingTurns
  OBVIOUS
<1>1. TakingTurns /\ CallerInv' /\ [HandlersNext]_handlerVars => TakingTurns'
  <2> SUFFICES ASSUME TakingTurns, CallerInv', [HandlersNext]_handlerVars
               PROVE  TakingTurns'
    OBVIOUS
  <2>1. CASE HandlersNext
    BY <2>1, OneEachStays, DeletedStaysGone, ContainersStayApart, OffersStayApart
       DEF TakingTurns
  <2>2. CASE UNCHANGED handlerVars
    <3>1. UNCHANGED <<idIdx, discovered, pc, job>>
      BY <2>2 DEF handlerVars, storeVars
    <3>2. OneEach' /\ DeletedIsGone'
      BY <3>1 DEF TakingTurns, OneEach, DeletedIsGone, Busy, Live
    <3>3. ContainersApart' /\ OffersApart'
      BY <3>1 DEF TakingTurns, ContainersApart, OffersApart, VersionsOf, Owners, Busy
    <3> QED BY <3>2, <3>3 DEF TakingTurns
  <2> QED BY <2>1, <2>2
<1> QED BY <1>1, TurnsInit, CallerInvariant, PTL DEF HandlersSpec

-----------------------------------------------------------------------------
(* Users who have no containers, whether they take turns or not *)

\* What is asked for comes without one.
LEMMA AskedHasNoContainer ==
    ASSUME CallerInv, NoContainers, NEW p \in Proc, NEW k, NEW step, Asks(p, k, step),
           k.want # NoService
    PROVE  k.want.cid = NoCid /\ k.want.name = NoName
<1>1. CASE Fresh(k)
  BY <1>1 DEF Fresh, NoContainers
<1>2. CASE Reads(k)
  <2>1. k.svc \in VersionsOf(k.id) /\ k.id \in Id
    BY <1>2, VersionIs DEF Asks, BeginStep, Reads, Live
  <2> QED BY <1>2, <2>1 DEF Reads, Origin, NoContainers
<1> QED BY <1>1, <1>2 DEF Asks

\* No version of a service ever comes to have one, and none is offered.
LEMMA StaysWithoutContainers ==
    ASSUME CallerInv, NoContainers, HandlersNext
    PROVE  NoContainers'
<1> USE DEF CallerInv
<1>1. \A id \in Id : \A v \in VersionsOf(id)' : v.cid = NoCid /\ v.name = NoName
  <2>1. CASE Derived
    BY <2>1 DEF Derived, NoContainers, SameKeys, Origin
  <2>2. ASSUME NEW p \in Proc, NEW k, NEW step, Asks(p, k, step)
        PROVE  \A id \in Id : \A v \in VersionsOf(id)' : v.cid = NoCid /\ v.name = NoName
    BY <2>2, AskedHasNoContainer DEF Asks, NoContainers
  <2> QED BY <2>1, <2>2, VersionsComeFrom
<1>2. discovered' = {}
  <2>1. CASE TunnelStep
    BY <2>1, TunnelTakes DEF NoContainers
  <2>2. ASSUME NEW p \in Proc, BeginsStep(p) \/ CallsStep(p)
        PROVE  discovered' = {}
    BY <2>2 DEF BeginsStep, BeginStep, CallsStep, CallStep, NoContainers
  <2>3. ASSUME NEW p \in Proc, WritesStep(p)
        PROVE  discovered' = {}
    <3>1. Busy(p) /\ job[p].id \in Id
      BY <2>3, BusyJob DEF WritesStep, WriteStep
    <3>2. job[p].svc \in Addable => job[p].svc.cid = NoCid
      BY <3>1, VersionIs, NoServiceAssumption DEF NoContainers, Addable
    <3> QED BY <2>3, <3>2 DEF WritesStep, NoContainers
  <2> QED BY <2>1, <2>2, <2>3, StepDoes
<1> QED BY <1>1, <1>2 DEF NoContainers

\* What users who have no containers keep.
LEMMA NoContainersInvariant ==
    Containers = {} => (HandlersSpec => []NoContainers)
<1> SUFFICES ASSUME Containers = {}
             PROVE  HandlersSpec => []NoContainers
  OBVIOUS
<1>1. HandlersInit => NoContainers
  BY NothingAtFirst DEF HandlersInit, NoContainers
<1>2. CallerInv /\ NoContainers /\ [HandlersNext]_handlerVars => NoContainers'
  <2> SUFFICES ASSUME CallerInv, NoContainers, [HandlersNext]_handlerVars
               PROVE  NoContainers'
    OBVIOUS
  <2>1. CASE UNCHANGED handlerVars
    <3>1. UNCHANGED <<idIdx, discovered, job>>
      BY <2>1 DEF handlerVars, storeVars
    <3> QED BY <3>1 DEF NoContainers, VersionsOf, Owners, Busy
  <2> QED BY <2>1, StaysWithoutContainers
<1> QED BY <1>1, <1>2, CallerInvariant, PTL DEF HandlersSpec

-----------------------------------------------------------------------------
(* Users who do both *)

\* What a request writes has keys of its own.
LEMMA WrittenKeysFree ==
    ASSUME SubsApart, ContainersApart, NEW p \in Proc, Busy(p), job[p].id \in Id,
           NEW svc \in {job[p].svc, job[p].want}, svc # NoService
    PROVE  NewKeysFree(job[p].id, svc)
<1>1. svc \in VersionsOf(job[p].id)
  BY VersionIs
<1>2. ASSUME NEW other \in LiveIds \ {job[p].id}
      PROVE  Apart(idIdx[other], svc) /\ idIdx[other].sub # svc.sub
  <2>1. idIdx[other] \in VersionsOf(other) /\ other \in Id /\ other # job[p].id
    BY <1>2, VersionIs DEF LiveIds, Live
  <2> QED BY <1>1, <2>1 DEF ContainersApart, SubsApart
<1> QED BY <1>2 DEF NewKeysFree, Apart

\* Every step is one of a careful caller of the store.
LEMMA StepIsCareful ==
    ASSUME FreeSubs, ContainersApart, HandlersNext
    PROVE  [CarefulNext]_storeVars
<1> USE DEF FreeSubs, CallerInv
<1>1. CASE TunnelStep
  BY <1>1, TunnelTakes
<1>2. ASSUME NEW p \in Proc,
             BeginCreate(p) \/ BeginUpdate(p) \/ BeginDelete(p) \/ BeginIcon(p)
      PROVE  [CarefulNext]_storeVars
  BY <1>2, BeginsIs DEF BeginsStep, BeginStep
<1>3. ASSUME NEW p \in Proc, Calling(p)
      PROVE  [CarefulNext]_storeVars
  BY <1>3, CallingIs DEF CallsStep, CallStep
<1>4. ASSUME NEW p \in Proc, FinishCreate(p)
      PROVE  [CarefulNext]_storeVars
  <2>1. pc[p] = "calls" /\ job[p].svc = NoService /\ AddService(job[p].id, job[p].want)
    BY <1>4 DEF FinishCreate, Done
  <2>2. Busy(p) /\ job[p].id \in Id /\ job[p].want # NoService /\ job[p].want \in Addable
    BY <2>1, BusyJob DEF JobTyped
  <2>3. NewKeysFree(job[p].id, job[p].want)
    BY <2>2, WrittenKeysFree
  <2> QED BY <2>1, <2>2, <2>3 DEF CarefulNext
<1>5. ASSUME NEW p \in Proc, FinishUpdate(p) \/ FinishIcon(p)
      PROVE  [CarefulNext]_storeVars
  <2>1. pc[p] \in {"calls", "icon"}
    BY <1>5 DEF FinishUpdate, FinishIcon, Done
  <2>2. JobTyped(job[p], pc[p]) /\ Busy(p) /\ job[p].id \in Id
    BY <2>1, BusyJob
  <2>3. PICK svc \in {job[p].svc, job[p].want} :
            svc # NoService /\ UpdateService(job[p].id, svc)
    BY <1>5, <2>2 DEF JobTyped, FinishUpdate, FinishIcon
  <2>4. svc \in Addable /\ NewKeysFree(job[p].id, svc)
    BY <2>2, <2>3, WrittenKeysFree DEF JobTyped
  <2>5. Live(job[p].id) => svc.source = idIdx[job[p].id].source
    <3>1. svc \in VersionsOf(job[p].id)
      BY <2>2, <2>3, VersionIs
    <3>2. Live(job[p].id) => idIdx[job[p].id] \in VersionsOf(job[p].id)
      BY VersionIs DEF Live
    <3> QED BY <2>2, <3>1, <3>2 DEF OriginsKept, Origin
  <2>6. svc \in Replacements(job[p].id)
    BY <2>4, <2>5 DEF Replacements
  <2> QED BY <2>2, <2>3, <2>4, <2>6 DEF CarefulNext
<1>6. ASSUME NEW p \in Proc, RemoveService(p)
      PROVE  [CarefulNext]_storeVars
  <2>1. DeleteService(job[p].id) /\ job[p].id \in Id
    BY <1>6, BusyJob DEF RemoveService
  <2> QED BY <2>1 DEF CarefulNext
<1>7. ASSUME NEW p \in Proc, Forget(p) \/ FinishDelete(p)
      PROVE  [CarefulNext]_storeVars
  BY <1>7 DEF Forget, FinishDelete
<1> QED BY <1>1, <1>2, <1>3, <1>4, <1>5, <1>6, <1>7, StepKinds

\* What careful users keep.
LEMMA CarefulHandlersInvariant ==
    FreeHostsOnly /\ OneWriter => (HandlersSpec => []CarefulHandlers)
<1> SUFFICES ASSUME FreeHostsOnly, OneWriter
             PROVE  HandlersSpec => []CarefulHandlers
  OBVIOUS
<1>1. TakingTurns /\ FreeSubs => CarefulHandlers
  BY DEF FreeSubs, CarefulHandlers
<1> QED BY <1>1, TurnsInvariant, FreeSubsInvariant, PTL

\* No two services share a container, if users take turns or have none.
LEMMA ContainersInvariant ==
    OneWriter \/ Containers = {} => (HandlersSpec => []ContainersApart)
<1>1. OneWriter => (HandlersSpec => []ContainersApart)
  <2>1. TakingTurns => ContainersApart
    BY DEF TakingTurns
  <2> QED BY <2>1, TurnsInvariant, PTL
<1>2. Containers = {} => (HandlersSpec => []ContainersApart)
  <2>1. NoContainers => ContainersApart
    BY DEF NoContainers, ContainersApart, Apart
  <2> QED BY <2>1, NoContainersInvariant, PTL
<1> QED BY <1>1, <1>2

\* Users who ask only for free subdomains, and take turns at a service or have no
\* containers, make the handlers careful callers of the store, though each
\* handler decides on what it read before its calls and may write it back late.
THEOREM HandlersAreCareful ==
    FreeHostsOnly /\ (OneWriter \/ Containers = {}) => (HandlersSpec => CarefulSpec)
<1> SUFFICES ASSUME FreeHostsOnly, OneWriter \/ Containers = {}
             PROVE  HandlersSpec => CarefulSpec
  OBVIOUS
<1>1. FreeSubs /\ ContainersApart /\ [HandlersNext]_handlerVars => [CarefulNext]_storeVars
  BY StepIsCareful DEF handlerVars
<1>2. HandlersInit => Init
  BY DEF HandlersInit
<1>3. HandlersSpec => []FreeSubs
  BY FreeSubsInvariant
<1>4. HandlersSpec => []ContainersApart
  BY ContainersInvariant
<1> QED BY <1>1, <1>2, <1>3, <1>4, PTL DEF HandlersSpec, CarefulSpec

\* For such users no service ever drops out of a lookup map or out of what is
\* saved, and the store is a registry in which a restart cannot be noticed.
THEOREM HandlersKeepServices ==
    FreeHostsOnly /\ (OneWriter \/ Containers = {})
        => (HandlersSpec => []IndexComplete /\ ImplementsRegistry)
<1> SUFFICES ASSUME FreeHostsOnly, OneWriter \/ Containers = {}
             PROVE  HandlersSpec => []IndexComplete /\ ImplementsRegistry
  OBVIOUS
<1>1. HandlersSpec => CarefulSpec
  BY HandlersAreCareful
<1> QED BY <1>1, CarefulStoreComplete, StoreImplementsRegistry, PTL

-----------------------------------------------------------------------------
(* DNS records *)

\* A record is known to a service or to a request about it.
LEMMA KnownIs ==
    \A id, rec : rec \in RecsOf(id) <=>
        /\ rec # NoRec
        /\ \/ \E v \in VersionsOf(id) : v.data.dns = rec
           \/ \E p \in Proc : Busy(p) /\ job[p].id = id /\ job[p].drop.dns = rec
BY DEF RecsOf, Owners

\* The same of the next state.
LEMMA KnownWillBe ==
    \A id, rec : rec \in RecsOf(id)' <=>
        /\ rec # NoRec
        /\ \/ \E v \in VersionsOf(id)' : v.data.dns = rec
           \/ \E p \in Proc : job'[p] # NoJob /\ job'[p].id = id /\ job'[p].drop.dns = rec
BY DEF RecsOf, Owners, Busy

\* What the zone may do in one step, on behalf of request p.
ZoneStep(p) ==
    \/ UNCHANGED <<zone, nextRec>>
    \/ job[p].want # NoService /\ \E type : Insert(job[p].want.sub, type)
    \/ DeleteRecord(job[p].drop.dns)
    \/ DeleteRecord(job[p].found)

\* Calls do one of these.
LEMMA LearnsZone ==
    ASSUME Typed, NEW p \in Proc, NEW k, NEW step, CallStep(p, k, step), Learns(p, k)
    PROVE  ZoneStep(p)
<1>1. JobTyped(job[p], pc[p]) /\ pc[p] \in {"calls", "modify", "put"}
  BY CallingJob DEF CallStep
<1>2. CASE Pending(p) /\ ~NeedsTunnel(NextCall(p)) /\ Effect(job[p], NextCall(p))
  <2>1. NextCall(p) \in AllCalls
    BY <1>1, <1>2, RestOfTodo DEF OpenTo, Removals, AllCalls, Pending, NextCall
  <2>2. NextCall(p) \in {"createA", "createCNAME"} => job[p].want # NoService
    BY <1>1, <1>2, OpenCall DEF Pending, NextCall
  <2> QED BY <1>2, <2>1, <2>2 DEF Effect, AllCalls, NeedsTunnel, ZoneStep
<1>3. CASE UNCHANGED <<zone, nextRec>>
  BY <1>3 DEF ZoneStep
<1> QED BY <1>2, <1>3 DEF Learns

\* The zone never gives an ID twice, so a record that goes is the one named.
LEMMA ZoneAfter ==
    ASSUME Typed, NEW p \in Proc, ZoneStep(p)
    PROVE  /\ \A rec \in zone' : \/ rec \in zone
                                 \/ rec.id = nextRec /\ nextRec' = nextRec + 1
           /\ \A r, s \in zone' \ zone : r = s
           /\ nextRec \in Nat /\ nextRec' \in {nextRec, nextRec + 1}
           /\ \A rec \in zone \ zone' : rec.id \in {job[p].drop.dns, job[p].found}
<1>0. nextRec \in Nat
  BY HandlersAssumption DEF Typed, CloudTyped
<1>1. CASE UNCHANGED <<zone, nextRec>>
  BY <1>0, <1>1
<1>2. CASE \E type : Insert(job[p].want.sub, type)
  BY <1>0, <1>2 DEF Insert
<1>3. CASE \E id \in {job[p].drop.dns, job[p].found} : DeleteRecord(id)
  BY <1>0, <1>3 DEF DeleteRecord
<1> QED BY <1>1, <1>2, <1>3 DEF ZoneStep

\* The records a service is known by are those of before, or the zone's newest.
NewestOnly(p) ==
    \A id \in Id : \A rec \in RecsOf(id)' :
        \/ rec \in RecsOf(id)
        \/ rec = nextRec /\ nextRec' = nextRec + 1 /\ id = job[p].id

\* The only record a call may add to a request is the newest of the zone.
LEMMA CallLearns ==
    ASSUME Typed, NEW p \in Proc, NEW k, NEW step, CallStep(p, k, step), Learns(p, k)
    PROVE  NewestOnly(p)
<1>1. /\ Becomes(p, k, step) /\ idIdx' = idIdx /\ Advances(job[p], k) /\ Busy(p)
  BY CallingJob DEF CallStep, storeVars
<1>2. \A q \in Proc : job'[q] = IF q = p THEN k ELSE job[q]
  BY <1>1 DEF Becomes
<1>3. ASSUME NEW id \in Id, NEW rec \in RecsOf(id)'
      PROVE  \/ rec \in RecsOf(id)
             \/ rec = nextRec /\ nextRec' = nextRec + 1 /\ id = job[p].id
  <2>1. rec # NoRec
    BY KnownWillBe
  <2>2. CASE \E q \in Proc : job'[q] # NoJob /\ job'[q].id = id /\ job'[q].drop.dns = rec
    BY <1>1, <1>2, <2>1, <2>2, KnownIs DEF Advances, Busy
  <2>3. CASE \E v \in VersionsOf(id)' : v.data.dns = rec
    <3>1. PICK v \in VersionsOf(id)' : v.data.dns = rec
      BY <2>3
    <3>2. v # NoService
      BY <3>1, VersionWillBe
    <3>3. CASE v \in VersionsOf(id)
      BY <2>1, <3>1, <3>3, KnownIs
    <3>4. CASE id = k.id /\ v = k.svc
      <4>1. v \in VersionsOf(id)
        BY <1>1, <3>2, <3>4, VersionIs DEF Advances
      <4> QED BY <2>1, <3>1, <4>1, KnownIs
    <3>5. CASE id = k.id /\ v = k.want
      <4>1. job[p].id = id /\ job[p].want # NoService
        BY <1>1, <3>2, <3>5 DEF Advances
      <4>2. \/ rec = job[p].want.data.dns
            \/ rec = nextRec /\ nextRec' = nextRec + 1
        BY <2>1, <3>1, <3>2, <3>5 DEF Learns
      <4>3. job[p].want \in VersionsOf(id)
        BY <1>1, <4>1, VersionIs
      <4> QED BY <2>1, <4>1, <4>2, <4>3, KnownIs
    <3> QED BY <1>1, <3>1, <3>3, <3>4, <3>5, VersionsAfter
  <2> QED BY <1>3, <2>2, <2>3, KnownWillBe
<1> QED BY <1>3 DEF NewestOnly

\* A request that begins knows the records of the service it reads.
LEMMA BeginKnows ==
    ASSUME Typed, NEW p \in Proc, NEW k, NEW step, BeginStep(p, k, step),
           Fresh(k) \/ Reads(k), NEW id \in Id
    PROVE  RecsOf(id)' \subseteq RecsOf(id)
<1>1. \A q \in Proc : job'[q] = IF q = p THEN k ELSE job[q]
  BY DEF BeginStep, Becomes
<1>2. ASSUME NEW rec \in RecsOf(id)'
      PROVE  rec \in RecsOf(id)
  <2>1. rec # NoRec
    BY <1>2, KnownWillBe
  <2>2. CASE \E q \in Proc : job'[q] # NoJob /\ job'[q].id = id /\ job'[q].drop.dns = rec
    <3>1. PICK q \in Proc : job'[q] # NoJob /\ job'[q].id = id /\ job'[q].drop.dns = rec
      BY <2>2
    <3>2. CASE q # p
      BY <1>1, <2>1, <3>1, <3>2, KnownIs DEF Busy
    <3>3. CASE q = p
      <4>1. Reads(k) /\ k.id = id /\ rec = k.svc.data.dns
        BY <1>1, <2>1, <3>1, <3>3 DEF Fresh, Reads
      <4>2. k.svc \in VersionsOf(id)
        BY <4>1, VersionIs DEF Reads, Live
      <4> QED BY <2>1, <4>1, <4>2, KnownIs
    <3> QED BY <3>2, <3>3
  <2>3. CASE \E v \in VersionsOf(id)' : v.data.dns = rec
    <3>1. PICK v : v \in VersionsOf(id)' /\ v.data.dns = rec /\ v # NoService
      BY <2>3, VersionWillBe
    <3>2. CASE v \in VersionsOf(id)
      BY <2>1, <3>1, <3>2, KnownIs
    <3>3. CASE id = k.id /\ v = k.want
      <4>1. Reads(k) /\ rec = k.svc.data.dns
        BY <2>1, <3>1, <3>3 DEF Fresh, Reads
      <4>2. k.svc \in VersionsOf(id)
        BY <3>3, <4>1, VersionIs DEF Reads, Live
      <4> QED BY <2>1, <4>1, <4>2, KnownIs
    <3> QED BY <3>1, <3>2, <3>3, FreshDerives, ReadDerives
  <2> QED BY <1>2, <2>2, <2>3, KnownWillBe
<1> QED BY <1>2

\* deleteService learns the record from the service it removes.
LEMMA WriteKnows ==
    ASSUME Typed, NEW p \in Proc, WritesStep(p), NEW id \in Id
    PROVE  RecsOf(id)' \subseteq RecsOf(id)
<1>1. PICK k, step :
          /\ WriteStep(p, k, step)
          /\ k # NoJob /\ k.drop # job[p].drop /\ k.drop.dns # NoRec =>
                 Live(job[p].id) /\ k.drop.dns = idIdx[job[p].id].data.dns
  BY DEF WritesStep
<1>2. /\ \A q \in Proc : job'[q] = IF q = p THEN k ELSE job[q]
      /\ k # NoJob => k.id = job[p].id
      /\ Busy(p)
  BY <1>1, BusyJob DEF WriteStep, Becomes
<1>3. ASSUME NEW rec \in RecsOf(id)'
      PROVE  rec \in RecsOf(id)
  <2>1. rec # NoRec
    BY <1>3, KnownWillBe
  <2>2. CASE \E q \in Proc : job'[q] # NoJob /\ job'[q].id = id /\ job'[q].drop.dns = rec
    <3>1. PICK q \in Proc : job'[q] # NoJob /\ job'[q].id = id /\ job'[q].drop.dns = rec
      BY <2>2
    <3>2. CASE q # p
      BY <1>2, <2>1, <3>1, <3>2, KnownIs DEF Busy
    <3>3. CASE q = p /\ k.drop = job[p].drop
      BY <1>2, <2>1, <3>1, <3>3, KnownIs
    <3>4. CASE q = p /\ k.drop # job[p].drop
      <4>1. Live(id) /\ rec = idIdx[id].data.dns
        BY <1>1, <1>2, <2>1, <3>1, <3>4
      <4>2. idIdx[id] \in VersionsOf(id)
        BY <4>1, VersionIs DEF Live
      <4> QED BY <2>1, <4>1, <4>2, KnownIs
    <3> QED BY <3>2, <3>3, <3>4
  <2>3. CASE \E v \in VersionsOf(id)' : v.data.dns = rec
    <3>1. \E v \in VersionsOf(id) : v.data.dns = rec
      BY <1>1, <2>3, WriteDerives
    <3> QED BY <2>1, <3>1, KnownIs
  <2> QED BY <1>3, <2>2, <2>3, KnownWillBe
<1> QED BY <1>3

\* No two services come to know one record.
LEMMA RecordsStayApart ==
    ASSUME RecordsInv, HandlersNext
    PROVE  RecordsApart'
<1> USE DEF RecordsInv, CallerInv
<1>a. ASSUME \A id \in Id : RecsOf(id)' \subseteq RecsOf(id), nextRec' = nextRec
      PROVE  RecordsApart'
  BY <1>a DEF RecordsApart
<1>1. CASE TunnelStep
  <2>1. UNCHANGED <<job, idIdx, nextRec>>
    BY <1>1, TunnelTakes DEF storeVars
  <2>2. \A id \in Id : RecsOf(id)' = RecsOf(id)
    BY <2>1 DEF RecsOf, VersionsOf, Owners, Busy
  <2> QED BY <1>a, <2>1, <2>2
<1>2. ASSUME NEW p \in Proc, BeginsStep(p)
      PROVE  RecordsApart'
  <2>1. PICK k, step : BeginStep(p, k, step) /\ (Fresh(k) \/ Reads(k))
    BY <1>2 DEF BeginsStep
  <2>2. nextRec' = nextRec
    BY <2>1 DEF BeginStep, cfVars
  <2> QED BY <1>a, <2>1, <2>2, BeginKnows
<1>3. ASSUME NEW p \in Proc, CallsStep(p)
      PROVE  RecordsApart'
  <2>1. PICK k, step : CallStep(p, k, step) /\ Learns(p, k)
    BY <1>3 DEF CallsStep
  <2>2. NewestOnly(p)
    BY <2>1, CallLearns
  <2>3. nextRec \in Nat /\ nextRec' \in {nextRec, nextRec + 1}
    BY <2>1, LearnsZone, ZoneAfter
  <2>4. ASSUME NEW id \in Id, NEW rec \in RecsOf(id)'
        PROVE  rec < nextRec'
    <3>1. CASE rec \in RecsOf(id)
      <4>1. rec < nextRec
        BY <3>1 DEF RecordsApart
      <4>2. rec \in Int
        <5>1. rec # NoRec
          BY <3>1, KnownIs
        <5>2. CASE \E v \in VersionsOf(id) : v.data.dns = rec
          <6>1. PICK v \in VersionsOf(id) : v.data.dns = rec
            BY <5>2
          <6>2. v \in Addable
            <7>1. v # NoService
              BY VersionIs
            <7>2. CASE v = idIdx[id]
              BY <7>1, <7>2 DEF Typed, StoreTyped, LiveIds, Live
            <7>3. CASE \E q \in Proc : Busy(q) /\ v \in {job[q].svc, job[q].want}
              BY <7>1, <7>3, BusyJob, IdleHasNoJob DEF JobTyped
            <7> QED BY <7>2, <7>3, VersionIs
          <6>3. v.data.dns \in RecId \cup {NoRec}
            BY <6>2, HandlersAssumption DEF Addable, Service, Data
          <6> QED BY <5>1, <6>1, <6>3 DEF RecId
        <5>3. CASE \E q \in Proc : Busy(q) /\ job[q].drop.dns = rec
          <6>1. PICK q \in Proc : Busy(q) /\ job[q].drop.dns = rec
            BY <5>3
          <6>2. job[q].drop.dns \in RecId \cup {NoRec}
            BY <6>1, BusyJob, IdleHasNoJob DEF Jobs
          <6> QED BY <5>1, <6>1, <6>2 DEF RecId
        <5> QED BY <3>1, <5>2, <5>3, KnownIs
      <4> QED BY <2>3, <4>1, <4>2
    <3>2. CASE rec = nextRec /\ nextRec' = nextRec + 1
      BY <2>3, <3>2
    <3> QED BY <2>2, <2>4, <3>1, <3>2 DEF NewestOnly
  <2>5. ASSUME NEW id \in Id, NEW other \in Id, id # other,
               NEW rec, rec \in RecsOf(id)', rec \in RecsOf(other)'
        PROVE  FALSE
    <3>1. \A i \in Id : nextRec \notin RecsOf(i)
      BY <2>3 DEF RecordsApart
    <3> QED BY <2>2, <2>5, <3>1 DEF NewestOnly, RecordsApart
  <2> QED BY <2>4, <2>5 DEF RecordsApart
<1>4. ASSUME NEW p \in Proc, WritesStep(p)
      PROVE  RecordsApart'
  <2>1. nextRec' = nextRec
    BY <1>4 DEF WritesStep, WriteStep, cfVars
  <2> QED BY <1>4, <1>a, <2>1, WriteKnows
<1> QED BY <1>1, <1>2, <1>3, <1>4, StepDoes

\* The answer of FindRecord stays that of the hostname asked about.
LEMMA FoundStaysOfHost ==
    ASSUME RecordsInv, HandlersNext
    PROVE  FoundIsOfHost'
<1> USE DEF RecordsInv, CallerInv
<1>a. ASSUME UNCHANGED <<zone, nextRec>>, NEW p \in Proc, NEW k,
             \A q \in Proc : job'[q] = IF q = p THEN k ELSE job[q],
             k # NoJob => \/ k.found = NoRec
                          \/ Busy(p) /\ k.found = job[p].found /\ k.want = job[p].want
      PROVE  FoundIsOfHost'
  BY <1>a DEF FoundIsOfHost, Busy
<1>1. CASE TunnelStep
  <2>1. UNCHANGED <<job, zone, nextRec>>
    BY <1>1, TunnelTakes
  <2> QED BY <2>1 DEF FoundIsOfHost, Busy
<1>2. ASSUME NEW p \in Proc, BeginsStep(p)
      PROVE  FoundIsOfHost'
  <2>1. PICK k, step : BeginStep(p, k, step) /\ (Fresh(k) \/ Reads(k))
    BY <1>2 DEF BeginsStep
  <2>2. /\ UNCHANGED <<zone, nextRec>> /\ k.found = NoRec
        /\ \A q \in Proc : job'[q] = IF q = p THEN k ELSE job[q]
    BY <2>1 DEF BeginStep, Becomes, cfVars, Fresh, Reads
  <2> QED BY <1>a, <2>2
<1>3. ASSUME NEW p \in Proc, CallsStep(p)
      PROVE  FoundIsOfHost'
  <2>1. PICK k, step : CallStep(p, k, step) /\ Learns(p, k)
    BY <1>3 DEF CallsStep
  <2>2. /\ \A q \in Proc : job'[q] = IF q = p THEN k ELSE job[q]
        /\ Busy(p) /\ Advances(job[p], k)
    BY <2>1, CallingJob DEF CallStep, Becomes
  <2>3. /\ \A rec \in zone' : \/ rec \in zone
                              \/ rec.id = nextRec /\ nextRec' = nextRec + 1
        /\ \A r, s \in zone' \ zone : r = s
        /\ nextRec \in Nat /\ nextRec' \in {nextRec, nextRec + 1}
    BY <2>1, LearnsZone, ZoneAfter
  <2>4. \A rec \in zone : rec.id \in Nat /\ rec.id < nextRec
    <3>1. \A rec \in zone : rec.id \in Nat
      BY DEF Typed, CloudTyped, Record, RecId
    <3> QED BY <3>1 DEF FoundIsOfHost
  <2>5. \A rec \in zone' : rec.id < nextRec'
    BY <2>3, <2>4
  <2>6. \A r, s \in zone' : r.id = s.id => r = s
    <3> SUFFICES ASSUME NEW r \in zone', NEW s \in zone', r.id = s.id PROVE r = s
      OBVIOUS
    <3>1. CASE r \in zone /\ s \in zone
      BY <3>1 DEF FoundIsOfHost
    <3>2. CASE r \notin zone /\ s \notin zone
      BY <2>3, <3>2
    <3>3. CASE (r \in zone /\ s \notin zone) \/ (r \notin zone /\ s \in zone)
      BY <2>3, <2>4, <3>3
    <3> QED BY <3>1, <3>2, <3>3
  <2>7. \A q \in Proc : Busy(q) => job[q].found \in RecId \cup {NoRec}
    BY BusyJob, IdleHasNoJob DEF Jobs
  <2>8. ASSUME NEW found \in RecId, found < nextRec, NEW want,
               \A rec \in zone : rec.id = found => want # NoService /\ rec.host = want.sub
        PROVE  /\ found < nextRec'
               /\ \A rec \in zone' :
                      rec.id = found => want # NoService /\ rec.host = want.sub
    BY <2>3, <2>8 DEF RecId
  <2>9. ASSUME NEW q \in Proc, job'[q] # NoJob, job'[q].found # NoRec
        PROVE  /\ job'[q].found < nextRec'
               /\ \A rec \in zone' : rec.id = job'[q].found =>
                      job'[q].want # NoService /\ rec.host = job'[q].want.sub
    <3>1. CASE q # p
      <4>1. job'[q] = job[q] /\ Busy(q)
        BY <2>2, <2>9, <3>1 DEF Busy
      <4>2. PICK found, want : found = job[q].found /\ want = job[q].want
        OBVIOUS
      <4>3. /\ found \in RecId /\ found < nextRec
            /\ \A rec \in zone : rec.id = found => want # NoService /\ rec.host = want.sub
        BY <2>7, <2>9, <4>1, <4>2 DEF FoundIsOfHost
      <4>4. /\ found < nextRec'
            /\ \A rec \in zone' : rec.id = found => want # NoService /\ rec.host = want.sub
        BY ONLY <2>8, <4>3
      <4> QED BY <4>1, <4>2, <4>4
    <3>2. CASE q = p /\ k.found = job[p].found
      <4>1. PICK found, want : found = job[p].found /\ want = job[p].want
        OBVIOUS
      <4>2. /\ found \in RecId /\ found < nextRec
            /\ \A rec \in zone : rec.id = found => want # NoService /\ rec.host = want.sub
        BY <2>2, <2>7, <2>9, <3>2, <4>1 DEF FoundIsOfHost
      <4>3. /\ found < nextRec'
            /\ \A rec \in zone' : rec.id = found => want # NoService /\ rec.host = want.sub
        BY ONLY <2>8, <4>2
      <4>4. want # NoService => k.want # NoService /\ k.want.sub = want.sub
        BY <2>2, <4>1 DEF Advances, SameKeys
      <4>5. job'[q].found = found /\ job'[q].want = k.want
        BY <2>2, <3>2, <4>1
      <4> QED BY <4>3, <4>4, <4>5
    <3>3. CASE /\ q = p /\ k.want = job[p].want /\ k.want # NoService
               /\ UNCHANGED <<zone, nextRec>>
               /\ \E rec \in RecordsFor(job[p].want.sub) : k.found = rec.id
      <4>1. PICK rec \in zone : k.found = rec.id /\ rec.host = k.want.sub
        BY <3>3 DEF RecordsFor
      <4>2. job'[q] = k
        BY <2>2, <3>3
      <4> QED BY <2>4, <2>6, <3>3, <4>1, <4>2
    <3> QED BY <2>1, <3>1, <3>2, <3>3 DEF Learns
  <2> QED BY <2>5, <2>6, <2>9 DEF FoundIsOfHost, Busy
<1>4. ASSUME NEW p \in Proc, WritesStep(p)
      PROVE  FoundIsOfHost'
  <2>1. PICK k, step : WriteStep(p, k, step)
    BY <1>4 DEF WritesStep
  <2>2. /\ UNCHANGED <<zone, nextRec>> /\ Busy(p)
        /\ \A q \in Proc : job'[q] = IF q = p THEN k ELSE job[q]
        /\ k # NoJob => k.found = job[p].found /\ k.want = job[p].want
    BY <2>1, BusyJob DEF WriteStep, Becomes, cfVars
  <2> QED BY <1>a, <2>2
<1> QED BY <1>1, <1>2, <1>3, <1>4, StepDoes

\* At the start the zone has no record and nobody knows one.
LEMMA RecordsInit == HandlersInit => RecordsInv
<1> SUFFICES ASSUME HandlersInit PROVE RecordsInv
  OBVIOUS
<1>1. CallerInv
  BY CallerInit
<1>2. \A p \in Proc : ~Busy(p)
  BY DEF HandlersInit, Busy
<1>3. \A id \in Id : VersionsOf(id) = {}
  BY NothingAtFirst
<1>4. \A id \in Id : RecsOf(id) = {}
  BY <1>2, <1>3, KnownIs
<1>5. RecordsApart
  BY <1>4 DEF RecordsApart
<1>6. FoundIsOfHost
  BY <1>2 DEF FoundIsOfHost, HandlersInit
<1> QED BY <1>1, <1>5, <1>6 DEF RecordsInv

\* A record that leaves the zone is one that its request may delete.
LEMMA StepTakesNone ==
    ASSUME RecordsInv, SubsApart, HandlersNext, NEW rec \in zone \ zone', NEW id \in LiveIds,
           idIdx[id].data.dns = rec.id, idIdx[id].sub = rec.host
    PROVE  \E p \in Proc : Busy(p) /\ job[p].id = id
<1> USE DEF RecordsInv, CallerInv
<1>1. zone' # zone
  OBVIOUS
<1>2. PICK p \in Proc : CallsStep(p)
  <2>1. CASE TunnelStep
    BY <1>1, <2>1, TunnelTakes
  <2>2. ASSUME NEW p \in Proc, BeginsStep(p)
        PROVE  FALSE
    BY <1>1, <2>2 DEF BeginsStep, BeginStep, cfVars
  <2>3. ASSUME NEW p \in Proc, WritesStep(p)
        PROVE  FALSE
    BY <1>1, <2>3 DEF WritesStep, WriteStep, cfVars
  <2> QED BY <2>1, <2>2, <2>3, StepDoes
<1>3. PICK k, step : CallStep(p, k, step) /\ Learns(p, k)
  BY <1>2 DEF CallsStep
<1>4. rec.id \in {job[p].drop.dns, job[p].found} /\ Busy(p)
  BY <1>3, LearnsZone, ZoneAfter, CallingJob DEF CallStep
<1>5. rec.id # NoRec
  BY HandlersAssumption DEF Typed, CloudTyped, Record
<1>6. /\ job[p].id \in Id /\ id \in Id /\ idIdx[id] \in VersionsOf(id)
  BY <1>3, BusyJob, VersionIs DEF CallStep, LiveIds, Live
<1>7. CASE rec.id = job[p].drop.dns
  <2>1. rec.id \in RecsOf(job[p].id) /\ rec.id \in RecsOf(id)
    BY <1>4, <1>5, <1>6, <1>7, KnownIs
  <2>2. job[p].id = id
    BY <1>6, <2>1 DEF RecordsApart
  <2> QED BY <1>4, <2>2
<1>8. CASE rec.id = job[p].found
  <2>1. job[p].want # NoService /\ rec.host = job[p].want.sub
    BY <1>4, <1>5, <1>8 DEF FoundIsOfHost
  <2>2. job[p].want \in VersionsOf(job[p].id)
    BY <1>4, <2>1, VersionIs
  <2>3. job[p].id = id
    BY <1>6, <2>1, <2>2 DEF SubsApart
  <2> QED BY <1>4, <2>3
<1> QED BY <1>4, <1>7, <1>8

\* What is kept of the DNS records, whatever users do.
LEMMA RecordsInvariant == HandlersSpec => []RecordsInv
<1>1. RecordsInv /\ CallerInv' /\ [HandlersNext]_handlerVars => RecordsInv'
  <2> SUFFICES ASSUME RecordsInv, CallerInv', [HandlersNext]_handlerVars
               PROVE  RecordsInv'
    OBVIOUS
  <2>1. CASE HandlersNext
    BY <2>1, RecordsStayApart, FoundStaysOfHost DEF RecordsInv
  <2>2. CASE UNCHANGED handlerVars
    <3>1. UNCHANGED <<idIdx, zone, nextRec, job>>
      BY <2>2 DEF handlerVars, storeVars, cfVars
    <3>2. \A id \in Id : RecsOf(id)' = RecsOf(id)
      BY <3>1 DEF RecsOf, VersionsOf, Owners, Busy
    <3>3. RecordsApart'
      BY <3>1, <3>2 DEF RecordsInv, RecordsApart
    <3>4. FoundIsOfHost'
      BY <3>1 DEF RecordsInv, FoundIsOfHost, Busy
    <3> QED BY <3>3, <3>4 DEF RecordsInv
  <2> QED BY <2>1, <2>2
<1> QED BY <1>1, CallerInvariant, RecordsInit, PTL DEF HandlersSpec

\* The record a service has for its subdomain is only ever deleted on behalf of
\* that service: no stale record ID, no answer of FindRecord and no half-failed
\* request of another one reaches it, even if two requests about one service write
\* back what they read.
THEOREM NoRecordTaken ==
    FreeHostsOnly => (HandlersSpec => RecordsAreNotTaken)
<1> SUFFICES ASSUME FreeHostsOnly
             PROVE  HandlersSpec => RecordsAreNotTaken
  OBVIOUS
<1> DEFINE TakesNone ==
        \A rec \in zone \ zone', id \in LiveIds :
            idIdx[id].data.dns = rec.id /\ idIdx[id].sub = rec.host =>
                \E p \in Proc : Busy(p) /\ job[p].id = id
<1>1. RecordsInv /\ SubsApart /\ [HandlersNext]_handlerVars => [TakesNone]_handlerVars
  BY StepTakesNone
<1>2. HandlersSpec => []RecordsInv
  BY RecordsInvariant
<1>3. HandlersSpec => []SubsApart
  BY FreeSubsInvariant, PTL DEF FreeSubs
<1> QED BY <1>1, <1>2, <1>3, PTL DEF HandlersSpec, RecordsAreNotTaken

-----------------------------------------------------------------------------
(***************************************************************************)
(* What each service has at Cloudflare at every step of a request about    *)
(* it, as long as no call has failed and the tunnel has stayed.  Of the    *)
(* calls of a request, those still to be made say what has been done.      *)
(***************************************************************************)

\* As a reconciliation that succeeds leaves a service.
Settled(svc) ==
    IF svc.data.direct
    THEN svc.data.dns = NoRec /\ svc.data.tun = NoHost
    ELSE svc.data.dns # NoRec /\ svc.sub \in Sub /\ svc.data.tun \in {NoHost, svc.sub}

Records(svc) == IF svc # NoService /\ mode(svc) # "direct" THEN {RecordOf(svc)} ELSE {}

Routes(svc) == IF svc # NoService /\ mode(svc) = "tunnel" THEN {Rule(svc)} ELSE {}

\* The old route and record stand.
Unrouting == {<<"unroute", "deleteRecord">>, <<"unroute", "deleteRecord", "createA">>,
              <<"reroute", "deleteRecord", "createCNAME">>}

\* The old record stands, the old route is gone.
Deleting == {<<"deleteRecord">>, <<"deleteRecord", "createA">>,
             <<"deleteRecord", "createCNAME">>,
             <<"deleteRecord", "route", "find", "createCNAME">>}

\* Both are gone.
Creating == {<<"createA">>, <<"createCNAME">>, <<"find", "createCNAME">>,
             <<"route", "find", "createCNAME">>}

\* The new route is there, the new record is not.
Routed == {<<"deleteRecord", "createCNAME">>, <<"find", "createCNAME">>, <<"createCNAME">>}

\* No record is to be created.
Removing == {<<"deleteRecord">>, <<"unroute", "deleteRecord">>}

JobRecords(j) ==
    IF j.todo = <<>> THEN Records(j.want)
    ELSE IF j.todo \in Unrouting \cup Deleting THEN Records(j.svc)
    ELSE {}

JobRoutes(j) ==
    IF j.todo = <<>> THEN Routes(j.want)
    ELSE IF j.todo \in Unrouting THEN Routes(j.svc)
    ELSE IF j.todo \in Routed THEN {Rule(j.want)}
    ELSE {}

OnTrack(j) ==
    /\ j.todo \in {<<>>} \cup Unrouting \cup Deleting \cup Creating
    /\ j.svc # NoService => Settled(j.svc) /\ j.drop = DnsFields(j.svc)
    /\ j.todo \in Unrouting => j.svc # NoService /\ mode(j.svc) = "tunnel"
    /\ j.todo \in Deleting => j.svc # NoService /\ mode(j.svc) # "direct"
    /\ IF j.todo \in {<<>>} \cup Removing
       THEN j.want # NoService =>
                Settled(j.want) /\ (j.todo \in Removing => j.want.data.direct)
       ELSE j.want # NoService /\ ~j.want.data.direct /\ j.want.sub \in Sub

Reconciles(p, id) == pc[p] \in {"calls", "modify", "put"} /\ job[p].id = id

HasRecords(id) ==
    IF \E p \in Proc : Reconciles(p, id)
    THEN UNION {JobRecords(job[p]) : p \in {q \in Proc : Reconciles(q, id)}}
    ELSE Records(idIdx[id])

HasRoutes(id) ==
    IF \E p \in Proc : Reconciles(p, id)
    THEN UNION {JobRoutes(job[p]) : p \in {q \in Proc : Reconciles(q, id)}}
    ELSE Routes(idIdx[id])

\* Who has read a service and not written it yet has it as it is.
ReadIsCurrent ==
    \A p \in Proc :
        \/ pc[p] \in {"remove", "icon"}
        \/ pc[p] \in {"calls", "modify", "put"} /\ job[p].svc # NoService /\ job[p].want # NoService
        => idIdx[job[p].id] = job[p].svc

AllSettled ==
    /\ \A id \in LiveIds : Settled(idIdx[id])
    /\ \A p \in Proc : pc[p] \in {"calls", "modify", "put"} => OnTrack(job[p])

ZoneInStep ==
    /\ zone = UNION {HasRecords(id) : id \in Id}
    /\ \A rule \in Rules :
           ingress[rule] = IF \E id \in Id : rule \in HasRoutes(id) THEN 1 ELSE 0

InStep == tunnelOn /\ tunnelUp /\ ReadIsCurrent /\ AllSettled /\ ZoneInStep

ZoneInv == CarefulHandlers /\ RecordsInv /\ (Undisturbed => InStep)

\* Two calls put together.
LEMMA JoinedTwo ==
    ASSUME NEW S, NEW a \in S, NEW b \in S
    PROVE  <<a>> \o <<b>> = <<a, b>>
<1>1. PICK s : s = <<a>> \o <<b>>
  OBVIOUS
<1>2. s \in Seq(S) /\ Len(s) = 2 /\ s[1] = a /\ s[2] = b
  BY <1>1, ConcatProperties
<1>3. PICK t : t = <<a, b>>
  OBVIOUS
<1>4. t \in Seq(S) /\ Len(t) = 2 /\ t[1] = a /\ t[2] = b
  BY <1>3
<1>5. \A i \in 1..Len(s) : s[i] = t[i]
  BY <1>2, <1>4
<1>6. s = t
  BY ONLY <1>2, <1>4, <1>5, SeqEqual
<1> QED BY <1>1, <1>3, <1>6

\* The same of three.
LEMMA JoinedThree ==
    ASSUME NEW S, NEW a \in S, NEW b \in S, NEW c \in S
    PROVE  <<a, b>> \o <<c>> = <<a, b, c>>
<1>1. PICK s : s = <<a, b>> \o <<c>>
  OBVIOUS
<1>2. s \in Seq(S) /\ Len(s) = 3 /\ s[1] = a /\ s[2] = b /\ s[3] = c
  <2>1. /\ <<a, b>> \in Seq(S) /\ Len(<<a, b>>) = 2
        /\ <<c>> \in Seq(S) /\ Len(<<c>>) = 1
    OBVIOUS
  <2> QED BY <1>1, <2>1, ConcatProperties
<1>3. PICK t : t = <<a, b, c>>
  OBVIOUS
<1>4. t \in Seq(S) /\ Len(t) = 3 /\ t[1] = a /\ t[2] = b /\ t[3] = c
  BY <1>3
<1>5. \A i \in 1..Len(s) : s[i] = t[i]
  BY <1>2, <1>4
<1>6. s = t
  BY ONLY <1>2, <1>4, <1>5, SeqEqual
<1> QED BY <1>1, <1>3, <1>6

\* The same of four.
LEMMA JoinedFour ==
    ASSUME NEW S, NEW a \in S, NEW b \in S, NEW c \in S, NEW d \in S
    PROVE  <<a>> \o <<b, c, d>> = <<a, b, c, d>>
<1>1. PICK s : s = <<a>> \o <<b, c, d>>
  OBVIOUS
<1>2. s \in Seq(S) /\ Len(s) = 4 /\ s[1] = a /\ s[2] = b /\ s[3] = c /\ s[4] = d
  <2>1. /\ <<a>> \in Seq(S) /\ Len(<<a>>) = 1
        /\ <<b, c, d>> \in Seq(S) /\ Len(<<b, c, d>>) = 3
    OBVIOUS
  <2> QED BY <1>1, <2>1, ConcatProperties
<1>3. PICK t : t = <<a, b, c, d>>
  OBVIOUS
<1>4. t \in Seq(S) /\ Len(t) = 4 /\ t[1] = a /\ t[2] = b /\ t[3] = c /\ t[4] = d
  BY <1>3
<1>5. \A i \in 1..Len(s) : s[i] = t[i]
  BY <1>2, <1>4
<1>6. s = t
  BY ONLY <1>2, <1>4, <1>5, SeqEqual
<1> QED BY <1>1, <1>3, <1>6

\* The calls of each plan, with a tunnel.
LEMMA CallsAre ==
    ASSUME NEW data
    PROVE  /\ Calls("noop", data, TRUE) = <<>>
           /\ Calls("createA", data, TRUE) = <<"createA">>
           /\ Calls("createTunnel", data, TRUE) = <<"route", "find", "createCNAME">>
           /\ data.dns = NoRec /\ data.tun = NoHost => Calls("deleteAll", data, TRUE) = <<>>
           /\ data.dns # NoRec =>
                  /\ Calls("deleteAll", data, TRUE) =
                         IF data.tun = NoHost THEN <<"deleteRecord">>
                         ELSE <<"unroute", "deleteRecord">>
                  /\ Calls("swapA", data, TRUE) = <<"deleteRecord", "createA">>
                  /\ Calls("aToTunnel", data, TRUE) =
                         <<"deleteRecord", "route", "find", "createCNAME">>
                  /\ Calls("tunnelToA", data, TRUE) = <<"unroute", "deleteRecord", "createA">>
                  /\ Calls("replaceTunnel", data, TRUE) =
                         <<"reroute", "deleteRecord", "createCNAME">>
<1>1. /\ <<"unroute">> \o <<"deleteRecord">> = <<"unroute", "deleteRecord">>
      /\ <<"reroute">> \o <<"deleteRecord">> = <<"reroute", "deleteRecord">>
      /\ <<"deleteRecord">> \o <<"createA">> = <<"deleteRecord", "createA">>
      /\ <<"deleteRecord">> \o <<"route", "find", "createCNAME">> =
             <<"deleteRecord", "route", "find", "createCNAME">>
      /\ <<"unroute", "deleteRecord">> \o <<"createA">> = <<"unroute", "deleteRecord", "createA">>
      /\ <<"reroute", "deleteRecord">> \o <<"createCNAME">> =
             <<"reroute", "deleteRecord", "createCNAME">>
  <2>1. PICK S : S = {"unroute", "deleteRecord", "reroute", "createA", "route", "find",
                      "createCNAME"}
    OBVIOUS
  <2>2. /\ "unroute" \in S /\ "deleteRecord" \in S /\ "reroute" \in S /\ "createA" \in S
        /\ "route" \in S /\ "find" \in S /\ "createCNAME" \in S
    BY <2>1
  <2>3. <<"unroute">> \o <<"deleteRecord">> = <<"unroute", "deleteRecord">>
    BY ONLY <2>2, JoinedTwo, JoinedThree
  <2>4. <<"reroute">> \o <<"deleteRecord">> = <<"reroute", "deleteRecord">>
    BY ONLY <2>2, JoinedTwo, JoinedThree
  <2>5. <<"deleteRecord">> \o <<"createA">> = <<"deleteRecord", "createA">>
    BY ONLY <2>2, JoinedTwo, JoinedThree
  <2>6. <<"deleteRecord">> \o <<"route", "find", "createCNAME">> =
            <<"deleteRecord", "route", "find", "createCNAME">>
    BY ONLY <2>2, JoinedFour
  <2>7. <<"unroute", "deleteRecord">> \o <<"createA">> = <<"unroute", "deleteRecord", "createA">>
    BY ONLY <2>2, JoinedTwo, JoinedThree
  <2>8. <<"reroute", "deleteRecord">> \o <<"createCNAME">> =
            <<"reroute", "deleteRecord", "createCNAME">>
    BY ONLY <2>2, JoinedTwo, JoinedThree
  <2> QED BY <2>3, <2>4, <2>5, <2>6, <2>7, <2>8
<1>2. /\ Calls("noop", data, TRUE) = <<>>
      /\ Calls("createA", data, TRUE) = <<"createA">>
      /\ Calls("createTunnel", data, TRUE) = addRoute
      /\ Calls("deleteAll", data, TRUE) = IF data.tun # NoHost
                                          THEN removeRoute(data) ELSE deleteOld(data)
      /\ Calls("swapA", data, TRUE) = deleteOld(data) \o <<"createA">>
      /\ Calls("aToTunnel", data, TRUE) = deleteOld(data) \o addRoute
      /\ Calls("tunnelToA", data, TRUE) = removeRoute(data) \o <<"createA">>
      /\ Calls("replaceTunnel", data, TRUE) =
             <<"reroute">> \o deleteOld(data) \o <<"createCNAME">>
  BY DEF Calls
<1>3. CASE data.dns = NoRec
  BY <1>2, <1>3 DEF deleteOld, addRoute
<1>4. CASE data.dns # NoRec
  <2>1. /\ deleteOld(data) = <<"deleteRecord">> /\ addRoute = <<"route", "find", "createCNAME">>
        /\ removeRoute(data) = <<"unroute", "deleteRecord">>
    BY <1>1, <1>4 DEF deleteOld, removeRoute, addRoute
  <2> QED BY <1>1, <1>2, <1>4, <2>1
<1> QED BY <1>3, <1>4

\* What the calls left to be made say.
LEMMA TodoSays ==
    ASSUME NEW t
    PROVE
      /\ t = <<>> =>
             t \notin Unrouting /\ t \notin Deleting /\ t \notin Creating /\ t \notin Routed
             /\ t \notin Removing
      /\ t = <<"unroute", "deleteRecord">> =>
             t # <<>> /\ t \in Unrouting /\ t \notin Deleting /\ t \notin Creating
             /\ t \notin Routed /\ t \in Removing
      /\ t = <<"unroute", "deleteRecord", "createA">> =>
             t # <<>> /\ t \in Unrouting /\ t \notin Deleting /\ t \notin Creating
             /\ t \notin Routed /\ t \notin Removing
      /\ t = <<"reroute", "deleteRecord", "createCNAME">> =>
             t # <<>> /\ t \in Unrouting /\ t \notin Deleting /\ t \notin Creating
             /\ t \notin Routed /\ t \notin Removing
      /\ t = <<"deleteRecord">> =>
             t # <<>> /\ t \notin Unrouting /\ t \in Deleting /\ t \notin Creating
             /\ t \notin Routed /\ t \in Removing
      /\ t = <<"deleteRecord", "createA">> =>
             t # <<>> /\ t \notin Unrouting /\ t \in Deleting /\ t \notin Creating
             /\ t \notin Routed /\ t \notin Removing
      /\ t = <<"deleteRecord", "createCNAME">> =>
             t # <<>> /\ t \notin Unrouting /\ t \in Deleting /\ t \notin Creating
             /\ t \in Routed /\ t \notin Removing
      /\ t = <<"deleteRecord", "route", "find", "createCNAME">> =>
             t # <<>> /\ t \notin Unrouting /\ t \in Deleting /\ t \notin Creating
             /\ t \notin Routed /\ t \notin Removing
      /\ t = <<"createA">> =>
             t # <<>> /\ t \notin Unrouting /\ t \notin Deleting /\ t \in Creating
             /\ t \notin Routed /\ t \notin Removing
      /\ t = <<"createCNAME">> =>
             t # <<>> /\ t \notin Unrouting /\ t \notin Deleting /\ t \in Creating
             /\ t \in Routed /\ t \notin Removing
      /\ t = <<"find", "createCNAME">> =>
             t # <<>> /\ t \notin Unrouting /\ t \notin Deleting /\ t \in Creating
             /\ t \in Routed /\ t \notin Removing
      /\ t = <<"route", "find", "createCNAME">> =>
             t # <<>> /\ t \notin Unrouting /\ t \notin Deleting /\ t \in Creating
             /\ t \notin Routed /\ t \notin Removing
<1>1. t = <<>> =>
          t \notin Unrouting /\ t \notin Deleting /\ t \notin Creating /\ t \notin Routed
          /\ t \notin Removing
  BY DEF Unrouting, Deleting, Creating, Routed, Removing
<1>2. t = <<"unroute", "deleteRecord">> =>
          t # <<>> /\ t \in Unrouting /\ t \notin Deleting /\ t \notin Creating
          /\ t \notin Routed /\ t \in Removing
  BY DEF Unrouting, Deleting, Creating, Routed, Removing
<1>3. t = <<"unroute", "deleteRecord", "createA">> =>
          t # <<>> /\ t \in Unrouting /\ t \notin Deleting /\ t \notin Creating
          /\ t \notin Routed /\ t \notin Removing
  BY DEF Unrouting, Deleting, Creating, Routed, Removing
<1>4. t = <<"reroute", "deleteRecord", "createCNAME">> =>
          t # <<>> /\ t \in Unrouting /\ t \notin Deleting /\ t \notin Creating
          /\ t \notin Routed /\ t \notin Removing
  BY DEF Unrouting, Deleting, Creating, Routed, Removing
<1>5. t = <<"deleteRecord">> =>
          t # <<>> /\ t \notin Unrouting /\ t \in Deleting /\ t \notin Creating
          /\ t \notin Routed /\ t \in Removing
  BY DEF Unrouting, Deleting, Creating, Routed, Removing
<1>6. t = <<"deleteRecord", "createA">> =>
          t # <<>> /\ t \notin Unrouting /\ t \in Deleting /\ t \notin Creating
          /\ t \notin Routed /\ t \notin Removing
  BY DEF Unrouting, Deleting, Creating, Routed, Removing
<1>7. t = <<"deleteRecord", "createCNAME">> =>
          t # <<>> /\ t \notin Unrouting /\ t \in Deleting /\ t \notin Creating
          /\ t \in Routed /\ t \notin Removing
  BY DEF Unrouting, Deleting, Creating, Routed, Removing
<1>8. t = <<"deleteRecord", "route", "find", "createCNAME">> =>
          t # <<>> /\ t \notin Unrouting /\ t \in Deleting /\ t \notin Creating
          /\ t \notin Routed /\ t \notin Removing
  BY DEF Unrouting, Deleting, Creating, Routed, Removing
<1>9. t = <<"createA">> =>
          t # <<>> /\ t \notin Unrouting /\ t \notin Deleting /\ t \in Creating
          /\ t \notin Routed /\ t \notin Removing
  BY DEF Unrouting, Deleting, Creating, Routed, Removing
<1>10. t = <<"createCNAME">> =>
          t # <<>> /\ t \notin Unrouting /\ t \notin Deleting /\ t \in Creating
          /\ t \in Routed /\ t \notin Removing
  BY DEF Unrouting, Deleting, Creating, Routed, Removing
<1>11. t = <<"find", "createCNAME">> =>
          t # <<>> /\ t \notin Unrouting /\ t \notin Deleting /\ t \in Creating
          /\ t \in Routed /\ t \notin Removing
  BY DEF Unrouting, Deleting, Creating, Routed, Removing
<1>12. t = <<"route", "find", "createCNAME">> =>
          t # <<>> /\ t \notin Unrouting /\ t \notin Deleting /\ t \in Creating
          /\ t \notin Routed /\ t \notin Removing
  BY DEF Unrouting, Deleting, Creating, Routed, Removing
<1> QED BY <1>1, <1>2, <1>3, <1>4, <1>5, <1>6, <1>7, <1>8, <1>9, <1>10, <1>11, <1>12

\* The object a request is to write, as its calls begin.
LEMMA ReconcilingIs ==
    ASSUME NEW id, NEW svc, NEW want \in Addable, NEW entry, NEW old, NEW todo,
           NEW dns \in RecId \cup {NoRec}, NEW tun \in Sub \cup {NoHost}, NEW k,
           k = Reconciling(Starting(id, svc, want, entry), old, todo, dns, tun)
    PROVE  /\ k.id = id /\ k.svc = svc /\ k.drop = old /\ k.todo = todo
           /\ k.want \in Addable /\ k.want.sub = want.sub
           /\ k.want.data.direct = want.data.direct /\ k.want.data.tgt = want.data.tgt
           /\ k.want.data.dns = dns /\ k.want.data.tun = tun
<1>1. want \in Service /\ want.data \in Data
  BY HandlersAssumption DEF Addable, Service
<1>2. PICK data : data = [want.data EXCEPT !.dns = dns, !.tun = tun]
  OBVIOUS
<1>3. /\ data \in Data /\ data.dns = dns /\ data.tun = tun
      /\ data.direct = want.data.direct /\ data.tgt = want.data.tgt
  BY <1>1, <1>2 DEF Data
<1>4. PICK new : new = [want EXCEPT !.data = data]
  OBVIOUS
<1>5. new \in Addable /\ new.sub = want.sub /\ new.data = data
  BY <1>1, <1>3, <1>4, HandlersAssumption DEF Addable, Service
<1>6. k = [id |-> id, svc |-> svc, want |-> new, drop |-> old, todo |-> todo,
           found |-> NoRec, rules |-> NoRules, entry |-> entry]
  BY <1>1, <1>2, <1>4 DEF Reconciling, Starting, Addable, Service
<1> QED BY <1>3, <1>5, <1>6

\* The names of the modes.
LEMMA ModeIs ==
    ASSUME NEW svc
    PROVE  /\ mode(svc) = "direct" <=> svc.data.direct
           /\ mode(svc) = "A" <=> ~svc.data.direct /\ svc.data.tun = NoHost
           /\ mode(svc) = "tunnel" <=> ~svc.data.direct /\ svc.data.tun # NoHost
           /\ mode(svc) \in {"direct", "A", "tunnel"}
BY DEF mode

\* The plan of updateService.
PlanTo(svc, m, sub, tgt) == planDNS(mode(svc), m, sub # svc.sub, tgt # svc.data.tgt)

\* As its calls begin, a service still has what it had.
LEMMA UpdateOnTrack ==
    ASSUME NEW svc \in Addable, Settled(svc), NEW m \in AllModes, NEW k, NEW plan,
           plan = PlanTo(svc, m, k.want.sub, k.want.data.tgt),
           m # "direct" => k.want.sub \in Sub,
           k.svc = svc, k.drop = DnsFields(svc), k.todo = Calls(plan, k.drop, TRUE),
           k.want # NoService, k.want.data.direct = (m = "direct"),
           k.want.data.dns = IF KeepsIds(plan, TRUE) THEN svc.data.dns ELSE NoRec,
           k.want.data.tun = IF KeepsIds(plan, TRUE) THEN svc.data.tun ELSE NoHost
    PROVE  OnTrack(k) /\ JobRecords(k) = Records(svc) /\ JobRoutes(k) = Routes(svc)
<1> DEFINE sub == k.want.sub
           tgt == k.want.data.tgt
<1>0. svc # NoService
  BY NoServiceAssumption DEF Addable
<1>1. k.drop.dns = svc.data.dns /\ k.drop.tun = svc.data.tun
  BY DEF DnsFields
<1>2. /\ mode(svc) = "direct" => svc.data.dns = NoRec /\ svc.data.tun = NoHost
      /\ mode(svc) # "direct" => svc.data.dns # NoRec /\ svc.sub \in Sub
      /\ mode(svc) = "A" => svc.data.tun = NoHost
      /\ mode(svc) = "tunnel" => svc.data.tun = svc.sub /\ svc.data.tun # NoHost
  BY ModeIs DEF Settled
<1>3. mode(k.want) # "direct" <=> m # "direct"
  BY ModeIs
<1>4. CASE plan = "noop"
  <2>1. k.todo = <<>> /\ KeepsIds(plan, TRUE)
    BY <1>4, CallsAre DEF KeepsIds
  <2>2. mode(svc) = m /\ (m # "direct" => sub = svc.sub) /\ (m = "tunnel" => tgt = svc.data.tgt)
    BY <1>4, ModeIs DEF PlanTo, planDNS, AllModes
  <2>3. Settled(k.want) /\ mode(k.want) = m
    BY <1>2, <2>1, <2>2, ModeIs DEF Settled
  <2>4. Records(k.want) = Records(svc) /\ Routes(k.want) = Routes(svc)
    BY <1>0, <2>1, <2>2, <2>3 DEF Records, Routes, RecordOf, Rule
  <2>s. /\ k.todo = <<>> /\ k.todo \notin Unrouting /\ k.todo \notin Deleting
        /\ k.todo \notin Creating /\ k.todo \notin Routed /\ k.todo \notin Removing
    BY <2>1, TodoSays
  <2> QED BY <1>0, <2>1, <2>3, <2>4, <2>s
          DEF OnTrack, JobRecords, JobRoutes
<1>5. CASE plan = "createA"
  <2>1. k.todo = <<"createA">>
    BY <1>5, CallsAre
  <2>2. mode(svc) = "direct" /\ m = "A"
    BY <1>5 DEF PlanTo, planDNS
  <2>3. Records(svc) = {} /\ Routes(svc) = {}
    BY <2>2 DEF Records, Routes
  <2>s. /\ k.todo # <<>> /\ k.todo \notin Unrouting /\ k.todo \notin Deleting
        /\ k.todo \in Creating /\ k.todo \notin Routed /\ k.todo \notin Removing
    BY <2>1, TodoSays
  <2> QED BY <1>0, <1>3, <2>1, <2>2, <2>3, <2>s
          DEF OnTrack, JobRecords, JobRoutes
<1>6. CASE plan = "createTunnel"
  <2>1. k.todo = <<"route", "find", "createCNAME">>
    BY <1>6, CallsAre
  <2>2. mode(svc) = "direct" /\ m = "tunnel"
    BY <1>6 DEF PlanTo, planDNS
  <2>3. Records(svc) = {} /\ Routes(svc) = {}
    BY <2>2 DEF Records, Routes
  <2>s. /\ k.todo # <<>> /\ k.todo \notin Unrouting /\ k.todo \notin Deleting
        /\ k.todo \in Creating /\ k.todo \notin Routed /\ k.todo \notin Removing
    BY <2>1, TodoSays
  <2> QED BY <1>0, <1>3, <2>1, <2>2, <2>3, <2>s
          DEF OnTrack, JobRecords, JobRoutes
<1>7. CASE plan = "aToTunnel"
  <2>2. mode(svc) = "A" /\ m = "tunnel"
    BY <1>7 DEF PlanTo, planDNS
  <2>1. k.todo = <<"deleteRecord", "route", "find", "createCNAME">>
    BY <1>1, <1>2, <1>7, <2>2, CallsAre
  <2>3. Routes(svc) = {}
    BY <2>2 DEF Routes
  <2>s. /\ k.todo # <<>> /\ k.todo \notin Unrouting /\ k.todo \in Deleting
        /\ k.todo \notin Creating /\ k.todo \notin Routed /\ k.todo \notin Removing
    BY <2>1, TodoSays
  <2> QED BY <1>0, <1>3, <2>1, <2>2, <2>3, <2>s
          DEF OnTrack, JobRecords, JobRoutes
<1>8. CASE plan = "tunnelToA"
  <2>2. mode(svc) = "tunnel" /\ m = "A"
    BY <1>8 DEF PlanTo, planDNS
  <2>1. k.todo = <<"unroute", "deleteRecord", "createA">>
    BY <1>1, <1>2, <1>8, <2>2, CallsAre
  <2>s. /\ k.todo # <<>> /\ k.todo \in Unrouting /\ k.todo \notin Deleting
        /\ k.todo \notin Creating /\ k.todo \notin Routed /\ k.todo \notin Removing
    BY <2>1, TodoSays
  <2> QED BY <1>0, <1>3, <2>1, <2>2, <2>s
          DEF OnTrack, JobRecords, JobRoutes
<1>9. CASE plan = "deleteAll"
  <2>2. mode(svc) # "direct" /\ m = "direct"
    BY <1>9 DEF PlanTo, planDNS
  <2>1. k.todo = IF svc.data.tun = NoHost THEN <<"deleteRecord">>
                 ELSE <<"unroute", "deleteRecord">>
    <3>1. PICK old : old = k.drop
      OBVIOUS
    <3>2. old.dns # NoRec /\ old.tun = svc.data.tun /\ k.todo = Calls("deleteAll", old, TRUE)
      BY <1>1, <1>2, <1>9, <2>2, <3>1
    <3> QED BY <3>2, CallsAre
  <2>3. Settled(k.want) /\ k.want.data.direct
    BY <1>9, <2>2 DEF Settled, KeepsIds
  <2>4. CASE mode(svc) = "A"
    <3>1. k.todo = <<"deleteRecord">> /\ Routes(svc) = {}
      BY <1>2, <2>1, <2>4 DEF Routes
    <3>s. /\ k.todo # <<>> /\ k.todo \notin Unrouting /\ k.todo \in Deleting
          /\ k.todo \notin Creating /\ k.todo \notin Routed /\ k.todo \in Removing
      BY <3>1, TodoSays
    <3> QED BY <1>0, <2>2, <2>3, <3>1, <3>s
            DEF OnTrack, JobRecords, JobRoutes
  <2>5. CASE mode(svc) = "tunnel"
    <3>1. k.todo = <<"unroute", "deleteRecord">>
      BY <1>2, <2>1, <2>5
    <3>s. /\ k.todo # <<>> /\ k.todo \in Unrouting /\ k.todo \notin Deleting
          /\ k.todo \notin Creating /\ k.todo \notin Routed /\ k.todo \in Removing
      BY <3>1, TodoSays
    <3> QED BY <1>0, <2>3, <2>5, <3>1, <3>s
            DEF OnTrack, JobRecords, JobRoutes
  <2> QED BY <2>2, <2>4, <2>5, ModeIs
<1>10. CASE plan = "swapA"
  <2>2. mode(svc) = "A" /\ m = "A"
    BY <1>10 DEF PlanTo, planDNS
  <2>1. k.todo = <<"deleteRecord", "createA">>
    BY <1>1, <1>2, <1>10, <2>2, CallsAre
  <2>3. Routes(svc) = {}
    BY <2>2 DEF Routes
  <2>s. /\ k.todo # <<>> /\ k.todo \notin Unrouting /\ k.todo \in Deleting
        /\ k.todo \notin Creating /\ k.todo \notin Routed /\ k.todo \notin Removing
    BY <2>1, TodoSays
  <2> QED BY <1>0, <1>3, <2>1, <2>2, <2>3, <2>s
          DEF OnTrack, JobRecords, JobRoutes
<1>11. CASE plan = "replaceTunnel"
  <2>2. mode(svc) = "tunnel" /\ m = "tunnel"
    BY <1>11 DEF PlanTo, planDNS
  <2>1. k.todo = <<"reroute", "deleteRecord", "createCNAME">>
    BY <1>1, <1>2, <1>11, <2>2, CallsAre
  <2>s. /\ k.todo # <<>> /\ k.todo \in Unrouting /\ k.todo \notin Deleting
        /\ k.todo \notin Creating /\ k.todo \notin Routed /\ k.todo \notin Removing
    BY <2>1, TodoSays
  <2> QED BY <1>0, <1>3, <2>1, <2>2, <2>s
          DEF OnTrack, JobRecords, JobRoutes
<1>12. plan \in Plans
  BY ModeIs DEF PlanTo, planDNS, Plans, AllModes
<1> QED BY <1>4, <1>5, <1>6, <1>7, <1>8, <1>9, <1>10, <1>11, <1>12 DEF Plans

\* A new service has nothing.
LEMMA CreateOnTrack ==
    ASSUME NEW m \in AllModes, NEW plan, NEW k, m # "direct" => k.want.sub \in Sub,
           plan = planDNS("direct", m, TRUE, TRUE),
           k.svc = NoService, k.todo = Calls(plan, Nothing, TRUE), k.want # NoService,
           k.want.data.direct = (m = "direct"),
           k.want.data.dns = NoRec, k.want.data.tun = NoHost
    PROVE  OnTrack(k) /\ JobRecords(k) = {} /\ JobRoutes(k) = {}
<1>1. CASE m = "direct"
  <2>1. plan = "noop"
    BY <1>1 DEF planDNS
  <2>2. k.todo = <<>>
    BY <2>1, CallsAre
  <2>3. Records(k.want) = {} /\ Routes(k.want) = {} /\ Settled(k.want)
    BY <1>1, ModeIs DEF Records, Routes, Settled
  <2>s. /\ k.todo = <<>> /\ k.todo \notin Unrouting /\ k.todo \notin Deleting
        /\ k.todo \notin Creating /\ k.todo \notin Routed /\ k.todo \notin Removing
    BY <2>2, TodoSays
  <2> QED BY <2>2, <2>3, <2>s DEF OnTrack, JobRecords, JobRoutes
<1>2. CASE m = "A"
  <2>1. plan = "createA"
    BY <1>2 DEF planDNS
  <2>2. k.todo = <<"createA">>
    BY <2>1, CallsAre
  <2>s. /\ k.todo # <<>> /\ k.todo \notin Unrouting /\ k.todo \notin Deleting
        /\ k.todo \in Creating /\ k.todo \notin Routed /\ k.todo \notin Removing
    BY <2>2, TodoSays
  <2> QED BY <1>2, <2>2, <2>s
          DEF OnTrack, JobRecords, JobRoutes
<1>3. CASE m = "tunnel"
  <2>1. plan = "createTunnel"
    BY <1>3 DEF planDNS
  <2>2. k.todo = <<"route", "find", "createCNAME">>
    BY <2>1, CallsAre
  <2>s. /\ k.todo # <<>> /\ k.todo \notin Unrouting /\ k.todo \notin Deleting
        /\ k.todo \in Creating /\ k.todo \notin Routed /\ k.todo \notin Removing
    BY <2>2, TodoSays
  <2> QED BY <1>3, <2>2, <2>s
          DEF OnTrack, JobRecords, JobRoutes
<1> QED BY <1>1, <1>2, <1>3 DEF AllModes

-----------------------------------------------------------------------------
(* A step of request p about service i, after which it has record k *)

StepOf(p, k, step, i) ==
    /\ Becomes(p, k, step)
    /\ pc[p] = "idle" \/ job[p].id = i
    /\ step = "idle" \/ k.id = i
    /\ \A q \in Proc \ {p} : pc[q] # "idle" => job[q].id # i
    /\ \A id \in Id \ {i} : idIdx'[id] = idIdx[id]

Active == {"calls", "modify", "put"}

RecordsBefore(p, i) == IF pc[p] \in Active THEN JobRecords(job[p]) ELSE Records(idIdx[i])

RoutesBefore(p, i) == IF pc[p] \in Active THEN JobRoutes(job[p]) ELSE Routes(idIdx[i])

RecordsAfter(k, step, svc) == IF step \in Active THEN JobRecords(k) ELSE Records(svc)

RoutesAfter(k, step, svc) == IF step \in Active THEN JobRoutes(k) ELSE Routes(svc)

\* What a service has now, by the request about it.
LEMMA HasIs ==
    ASSUME NEW p \in Proc, NEW i, pc[p] = "idle" \/ job[p].id = i,
           \A q \in Proc \ {p} : pc[q] # "idle" => job[q].id # i
    PROVE  HasRecords(i) = RecordsBefore(p, i) /\ HasRoutes(i) = RoutesBefore(p, i)
<1>1. \A q \in Proc : Reconciles(q, i) <=> q = p /\ pc[p] \in Active
  BY DEF Reconciles, Active
<1>2. CASE pc[p] \in Active
  <2>1. {q \in Proc : Reconciles(q, i)} = {p} /\ \E q \in Proc : Reconciles(q, i)
    BY <1>1, <1>2
  <2>2. UNION {JobRecords(job[q]) : q \in {p}} = JobRecords(job[p])
    OBVIOUS
  <2>3. UNION {JobRoutes(job[q]) : q \in {p}} = JobRoutes(job[p])
    OBVIOUS
  <2>4. HasRecords(i) = JobRecords(job[p])
    BY <2>1, <2>2 DEF HasRecords
  <2>5. HasRoutes(i) = JobRoutes(job[p])
    BY <2>1, <2>3 DEF HasRoutes
  <2> QED BY <1>2, <2>4, <2>5 DEF RecordsBefore, RoutesBefore
<1>3. CASE pc[p] \notin Active
  BY <1>1, <1>3 DEF HasRecords, HasRoutes, RecordsBefore, RoutesBefore
<1> QED BY <1>2, <1>3

\* What it has after the step.
LEMMA HasAfter ==
    ASSUME NEW p \in Proc, NEW k, NEW step, NEW i, StepOf(p, k, step, i)
    PROVE  /\ HasRecords(i)' = RecordsAfter(k, step, idIdx'[i])
           /\ HasRoutes(i)' = RoutesAfter(k, step, idIdx'[i])
<1>1. \A q \in Proc : job'[q] = (IF q = p THEN k ELSE job[q])
                      /\ pc'[q] = (IF q = p THEN step ELSE pc[q])
  BY DEF StepOf, Becomes
<1>2. \A q \in Proc : Reconciles(q, i)' <=> q = p /\ step \in Active
  BY <1>1 DEF StepOf, Reconciles, Active
<1>3. CASE step \in Active
  <2>1. {q \in Proc : Reconciles(q, i)'} = {p} /\ \E q \in Proc : Reconciles(q, i)'
    BY <1>2, <1>3
  <2>2. UNION {JobRecords(job'[q]) : q \in {p}} = JobRecords(k)
    BY <1>1
  <2>3. UNION {JobRoutes(job'[q]) : q \in {p}} = JobRoutes(k)
    BY <1>1
  <2>4. HasRecords(i)' = JobRecords(k)
    BY <2>1, <2>2 DEF HasRecords
  <2>5. HasRoutes(i)' = JobRoutes(k)
    BY <2>1, <2>3 DEF HasRoutes
  <2> QED BY <1>3, <2>4, <2>5 DEF RecordsAfter, RoutesAfter
<1>4. CASE step \notin Active
  BY <1>2, <1>4 DEF HasRecords, HasRoutes, RecordsAfter, RoutesAfter
<1> QED BY <1>3, <1>4

\* What the other services have stays.
LEMMA OthersKeep ==
    ASSUME NEW p \in Proc, NEW k, NEW step, NEW i, StepOf(p, k, step, i),
           NEW id \in Id, id # i
    PROVE  HasRecords(id)' = HasRecords(id) /\ HasRoutes(id)' = HasRoutes(id)
<1>1. \A q \in Proc : job'[q] = (IF q = p THEN k ELSE job[q])
                      /\ pc'[q] = (IF q = p THEN step ELSE pc[q])
  BY DEF StepOf, Becomes
<1>2. \A q \in Proc : Reconciles(q, id)' <=> Reconciles(q, id)
  BY <1>1 DEF StepOf, Reconciles
<1>3. \A q \in Proc : Reconciles(q, id) => job'[q] = job[q]
  BY <1>1 DEF StepOf, Reconciles
<1>4. idIdx'[id] = idIdx[id]
  BY DEF StepOf
<1>5. {q \in Proc : Reconciles(q, id)'} = {q \in Proc : Reconciles(q, id)}
  BY <1>2
<1>6. UNION {JobRecords(job'[q]) : q \in {r \in Proc : Reconciles(r, id)}}
          = UNION {JobRecords(job[q]) : q \in {r \in Proc : Reconciles(r, id)}}
  BY <1>3
<1>7. UNION {JobRoutes(job'[q]) : q \in {r \in Proc : Reconciles(r, id)}}
          = UNION {JobRoutes(job[q]) : q \in {r \in Proc : Reconciles(r, id)}}
  BY <1>3
<1>8. HasRecords(id)' = HasRecords(id)
  BY <1>2, <1>4, <1>5, <1>6 DEF HasRecords
<1>9. HasRoutes(id)' = HasRoutes(id)
  BY <1>2, <1>4, <1>5, <1>7 DEF HasRoutes
<1> QED BY <1>8, <1>9

\* What a request's service has is of an object of the request.
LEMMA JobHas ==
    ASSUME NEW j, OnTrack(j)
    PROVE  /\ \A rec \in JobRecords(j) : \E svc \in {j.svc, j.want} \ {NoService} :
                  rec = RecordOf(svc)
           /\ \A rule \in JobRoutes(j) : \E svc \in {j.svc, j.want} \ {NoService} :
                  rule = Rule(svc)
<1>1. j.todo \in Routed => j.todo # <<>> /\ j.todo \notin Removing
  <2>1. j.todo \in Routed => j.todo \in {<<"deleteRecord", "createCNAME">>,
                                         <<"find", "createCNAME">>, <<"createCNAME">>}
    BY DEF Routed
  <2> QED BY <2>1, TodoSays
<1>2. j.todo \in Routed => j.want # NoService
  BY <1>1 DEF OnTrack
<1>3. /\ \A svc : \A rec \in Records(svc) : svc # NoService /\ rec = RecordOf(svc)
      /\ \A svc : \A rule \in Routes(svc) : svc # NoService /\ rule = Rule(svc)
  BY DEF Records, Routes
<1> QED BY <1>2, <1>3 DEF JobRecords, JobRoutes

\* What a service has is of a version of it.
LEMMA HasOwn ==
    ASSUME Typed, AllSettled, NEW id \in Id
    PROVE  /\ \A rec \in HasRecords(id) : \E v \in VersionsOf(id) : rec = RecordOf(v)
           /\ \A rule \in HasRoutes(id) : \E v \in VersionsOf(id) : rule = Rule(v)
<1>1. ASSUME NEW p \in Proc, Reconciles(p, id)
      PROVE  /\ \A rec \in JobRecords(job[p]) : \E v \in VersionsOf(id) : rec = RecordOf(v)
             /\ \A rule \in JobRoutes(job[p]) : \E v \in VersionsOf(id) : rule = Rule(v)
  <2>1. Busy(p) /\ job[p].id = id /\ OnTrack(job[p])
    BY <1>1, CallingJob DEF Reconciles, AllSettled
  <2>2. \A svc \in {job[p].svc, job[p].want} \ {NoService} : svc \in VersionsOf(id)
    BY <2>1, VersionIs
  <2>3. PICK j : j = job[p]
    OBVIOUS
  <2> QED BY <2>1, <2>2, <2>3, JobHas
<1>2. /\ \A rec \in Records(idIdx[id]) : \E v \in VersionsOf(id) : rec = RecordOf(v)
      /\ \A rule \in Routes(idIdx[id]) : \E v \in VersionsOf(id) : rule = Rule(v)
  BY VersionIs DEF Records, Routes
<1>3. CASE \E p \in Proc : Reconciles(p, id)
  <2>1. /\ HasRecords(id) = UNION {JobRecords(job[p]) : p \in {q \in Proc : Reconciles(q, id)}}
        /\ HasRoutes(id) = UNION {JobRoutes(job[p]) : p \in {q \in Proc : Reconciles(q, id)}}
    BY <1>3 DEF HasRecords, HasRoutes
  <2>2. /\ \A rec \in HasRecords(id) : \E p \in Proc : Reconciles(p, id) /\ rec \in JobRecords(job[p])
        /\ \A rule \in HasRoutes(id) : \E p \in Proc : Reconciles(p, id) /\ rule \in JobRoutes(job[p])
    BY <2>1
  <2> QED BY <1>1, <2>2
<1>4. CASE ~\E p \in Proc : Reconciles(p, id)
  BY <1>2, <1>4 DEF HasRecords, HasRoutes
<1> QED BY <1>3, <1>4

\* What there is for the subdomain of a service is the service's.
LEMMA HostIsOwn ==
    ASSUME Typed, SubsApart, AllSettled, ZoneInStep, NEW i \in Id, NEW v \in VersionsOf(i)
    PROVE  /\ \A rec \in zone : rec.host = v.sub => rec \in HasRecords(i)
           /\ \A rule \in Rules : rule.host = v.sub =>
                  ingress[rule] = IF rule \in HasRoutes(i) THEN 1 ELSE 0
           /\ \A rule \in HasRoutes(i), id \in Id : id # i => rule \notin HasRoutes(id)
<1>1. \A id \in Id : \A rec \in HasRecords(id) : \E w \in VersionsOf(id) : rec.host = w.sub
  BY HasOwn DEF RecordOf
<1>2. \A id \in Id : \A rule \in HasRoutes(id) : \E w \in VersionsOf(id) : rule.host = w.sub
  BY HasOwn DEF Rule
<1>3. \A id \in Id : id # i => \A u \in VersionsOf(i), w \in VersionsOf(id) : u.sub # w.sub
  BY DEF SubsApart
<1>4. \A rec \in zone : \E id \in Id : rec \in HasRecords(id)
  BY DEF ZoneInStep
<1>5. \A rec \in zone : rec.host = v.sub => rec \in HasRecords(i)
  BY <1>1, <1>3, <1>4
<1>6. \A rule : rule.host = v.sub =>
          ((\E id \in Id : rule \in HasRoutes(id)) <=> rule \in HasRoutes(i))
  BY <1>2, <1>3
<1>7. \A rule \in HasRoutes(i), id \in Id : id # i => rule \notin HasRoutes(id)
  BY <1>2, <1>3
<1> QED BY <1>5, <1>6, <1>7 DEF ZoneInStep

\* A step that changes no more than what its service has.
LEMMA ZoneFollows ==
    ASSUME Typed, SubsApart, AllSettled, ZoneInStep, NEW p \in Proc, NEW k, NEW step,
           NEW i \in Id, StepOf(p, k, step, i),
           zone' = (zone \ HasRecords(i)) \cup HasRecords(i)',
           \A rule \in Rules : ingress'[rule] = IF rule \in HasRoutes(i)' THEN 1
                                               ELSE IF rule \in HasRoutes(i) THEN 0
                                               ELSE ingress[rule]
    PROVE  ZoneInStep'
<1>1. \A id \in Id : id # i => HasRecords(id)' = HasRecords(id) /\ HasRoutes(id)' = HasRoutes(id)
  BY OthersKeep
<1>2. \A id \in Id : id # i => HasRecords(id) \cap HasRecords(i) = {}
  <2>1. \A id \in Id : \A rec \in HasRecords(id) : \E w \in VersionsOf(id) : rec.host = w.sub
    BY HasOwn DEF RecordOf
  <2> QED BY <2>1 DEF SubsApart
<1>3. \A id \in Id : id # i => HasRoutes(id) \cap HasRoutes(i) = {}
  <2>1. \A id \in Id : \A rule \in HasRoutes(id) : \E w \in VersionsOf(id) : rule.host = w.sub
    BY HasOwn DEF Rule
  <2> QED BY <2>1 DEF SubsApart
<1>4. zone' = UNION {HasRecords(id)' : id \in Id}
  <2>1. \A rec : rec \in zone <=> \E id \in Id : rec \in HasRecords(id)
    BY DEF ZoneInStep
  <2>2. \A rec : rec \in zone' <=> \E id \in Id : rec \in HasRecords(id)'
    BY <1>1, <1>2, <2>1
  <2> QED BY <2>2
<1>5. ASSUME NEW rule \in Rules
      PROVE  ingress'[rule] = IF \E id \in Id : rule \in HasRoutes(id)' THEN 1 ELSE 0
  <2>1. ingress[rule] = IF \E id \in Id : rule \in HasRoutes(id) THEN 1 ELSE 0
    BY DEF ZoneInStep
  <2> QED BY <1>1, <1>3, <2>1
<1> QED BY <1>4, <1>5 DEF ZoneInStep

\* What the object a step leaves in the store, and the record it leaves to the
\* request, must be for the others to rely on.
Keeps(k, step, svc) ==
    /\ svc # NoService => Settled(svc)
    /\ step \in Active => OnTrack(k)
    /\ \/ step \in {"remove", "icon"}
       \/ step \in Active /\ k.svc # NoService /\ k.want # NoService
       => svc = k.svc

\* A step that does so keeps what the requests rely on.
LEMMA StepKeeps ==
    ASSUME Typed, ReadIsCurrent, AllSettled, NEW p \in Proc, NEW k, NEW step, NEW i \in Id,
           StepOf(p, k, step, i), Keeps(k, step, idIdx'[i])
    PROVE  ReadIsCurrent' /\ AllSettled'
<1>1. \A q \in Proc : job'[q] = (IF q = p THEN k ELSE job[q])
                      /\ pc'[q] = (IF q = p THEN step ELSE pc[q])
  BY DEF StepOf, Becomes
<1>2. \A q \in Proc \ {p} : pc[q] # "idle" => idIdx'[job[q].id] = idIdx[job[q].id]
  BY BusyJob DEF StepOf
<1>3. ReadIsCurrent'
  <2> SUFFICES ASSUME NEW q \in Proc,
                      \/ pc'[q] \in {"remove", "icon"}
                      \/ pc'[q] \in {"calls", "modify", "put"} /\ job'[q].svc # NoService
                         /\ job'[q].want # NoService
               PROVE  idIdx'[job'[q].id] = job'[q].svc
    BY DEF ReadIsCurrent
  <2>1. CASE q = p
    BY <1>1, <2>1 DEF StepOf, Keeps, Active
  <2>2. CASE q # p
    BY <1>1, <1>2, <2>2 DEF ReadIsCurrent
  <2> QED BY <2>1, <2>2
<1>4. \A id \in LiveIds' : Settled(idIdx'[id])
  BY DEF StepOf, Keeps, AllSettled, LiveIds, Live
<1>5. \A q \in Proc : pc'[q] \in {"calls", "modify", "put"} => OnTrack(job'[q])
  BY <1>1 DEF Keeps, Active, AllSettled
<1> QED BY <1>3, <1>4, <1>5 DEF AllSettled

\* So does the zone, when nothing changes of it and of what the service has.
LEMMA ZoneStays ==
    ASSUME Typed, SubsApart, AllSettled, ZoneInStep, NEW p \in Proc, NEW k, NEW step,
           NEW i \in Id, StepOf(p, k, step, i), UNCHANGED <<zone, ingress>>,
           RecordsAfter(k, step, idIdx'[i]) = RecordsBefore(p, i),
           RoutesAfter(k, step, idIdx'[i]) = RoutesBefore(p, i)
    PROVE  ZoneInStep'
<1>1. HasRecords(i)' = HasRecords(i) /\ HasRoutes(i)' = HasRoutes(i)
  BY HasIs, HasAfter DEF StepOf
<1>2. HasRecords(i) \subseteq zone
  BY DEF ZoneInStep
<1>3. \A rule \in Rules : rule \in HasRoutes(i) => ingress[rule] = 1
  BY DEF ZoneInStep
<1> QED BY <1>1, <1>2, <1>3, ZoneFollows

-----------------------------------------------------------------------------
(* Requests begin with what their service has *)

\* The record of an update, and of a creation, that has made no call yet.
UpdateStarts(k, m, plan) ==
    /\ m \in AllModes /\ plan = PlanTo(k.svc, m, k.want.sub, k.want.data.tgt)
    /\ m # "direct" => k.want.sub \in Sub
    /\ k.drop = DnsFields(k.svc) /\ k.todo = Calls(plan, k.drop, TRUE)
    /\ k.want # NoService /\ k.want.data.direct = (m = "direct")
    /\ k.want.data.dns = IF KeepsIds(plan, TRUE) THEN k.svc.data.dns ELSE NoRec
    /\ k.want.data.tun = IF KeepsIds(plan, TRUE) THEN k.svc.data.tun ELSE NoHost

CreateStarts(k, m, plan) ==
    /\ m \in AllModes /\ plan = planDNS("direct", m, TRUE, TRUE)
    /\ m # "direct" => k.want.sub \in Sub
    /\ k.svc = NoService /\ k.todo = Calls(plan, Nothing, TRUE)
    /\ k.want # NoService /\ k.want.data.direct = (m = "direct")
    /\ k.want.data.dns = NoRec /\ k.want.data.tun = NoHost

\* What updateService starts its calls with.
LEMMA UpdateStartsAs ==
    ASSUME Typed, tunnelOn, NEW p \in Proc, BeginUpdate(p), NEW k, k = job'[p]
    PROVE  /\ k.svc \in Addable /\ \E id \in LiveIds : k.svc = idIdx[id]
           /\ \E m, plan : UpdateStarts(k, m, plan)
<1>0. PICK id \in LiveIds, m \in Modes, tgt \in Target :
       \E sub \in IF m # "direct" THEN Host \cup {idIdx[id].sub}
                  ELSE IF idIdx[id].data.direct THEN {idIdx[id].sub} ELSE {DirectKey(id)} :
           BeginCalls(p, [Job(id) EXCEPT
                                !.svc = idIdx[id],
                                !.want = [idIdx[id] EXCEPT !.sub = sub, !.data = NewData(m, tgt)]],
                        planDNS(mode(idIdx[id]), m, sub # idIdx[id].sub,
                                tgt # idIdx[id].data.tgt),
                        DnsFields(idIdx[id]))
  BY DEF BeginUpdate
<1>1. PICK sub :
          /\ sub \in IF m # "direct" THEN Host \cup {idIdx[id].sub}
                     ELSE IF idIdx[id].data.direct THEN {idIdx[id].sub} ELSE {DirectKey(id)}
          /\ BeginCalls(p, [Job(id) EXCEPT
                                !.svc = idIdx[id],
                                !.want = [idIdx[id] EXCEPT !.sub = sub, !.data = NewData(m, tgt)]],
                        planDNS(mode(idIdx[id]), m, sub # idIdx[id].sub,
                                tgt # idIdx[id].data.tgt),
                        DnsFields(idIdx[id]))
  BY <1>0
<1>2. PICK svc : svc = idIdx[id]
  OBVIOUS
<1>3. id \in Id /\ svc \in Addable /\ svc \in Service /\ svc.data \in Data
  BY <1>2, HandlersAssumption
     DEF Typed, StoreTyped, LiveIds, Live, Addable, Service
<1>4. sub \in Sub /\ (m # "direct" => sub \in Sub) /\ m \in AllModes
  BY <1>1, <1>2, <1>3, HandlersAssumption DEF Service, AllModes
<1>5. PICK want : want = [svc EXCEPT !.sub = sub, !.data = NewData(m, tgt)]
  OBVIOUS
<1>6. /\ want \in Addable /\ want.sub = sub
      /\ want.data.direct = (m = "direct") /\ want.data.tgt = tgt
  <2>1. NewData(m, tgt) \in Payload
    BY HandlersAssumption DEF NewData, Data
  <2>2. NewData(m, tgt).direct = (m = "direct") /\ NewData(m, tgt).tgt = tgt
    BY DEF NewData
  <2>3. want \in Addable /\ want.sub = sub /\ want.data = NewData(m, tgt)
    BY <1>3, <1>4, <1>5, <2>1 DEF Addable, Service
  <2> QED BY <2>2, <2>3
<1>7. PICK plan : plan = PlanTo(svc, m, sub, tgt)
  OBVIOUS
<1>8. BeginCalls(p, Starting(id, svc, want, NoEntry), plan, DnsFields(svc))
  <2>1. [Job(id) EXCEPT !.svc = svc, !.want = want] = Starting(id, svc, want, NoEntry)
    BY StartingIs
  <2> QED BY <1>1, <1>2, <1>5, <1>7, <2>1 DEF PlanTo
<1>9. PICK old, todo, dns, tun :
          /\ old = DnsFields(svc) /\ todo = Calls(plan, old, TRUE)
          /\ dns = IF KeepsIds(plan, TRUE) THEN svc.data.dns ELSE NoRec
          /\ tun = IF KeepsIds(plan, TRUE) THEN svc.data.tun ELSE NoHost
  OBVIOUS
<1>10. tunnelOn = TRUE
  BY DEF Typed, CloudTyped
<1>11. k = Reconciling(Starting(id, svc, want, NoEntry), old, todo, dns, tun)
  <2>1. old.dns = svc.data.dns /\ old.tun = svc.data.tun
    BY <1>9 DEF DnsFields
  <2>2. job' = [job EXCEPT ![p] = Reconciling(Starting(id, svc, want, NoEntry),
                                              old, todo, dns, tun)]
    BY <1>8, <1>9, <1>10, <2>1 DEF BeginCalls, Begin, Reconciling
  <2>3. job = [q \in Proc |-> job[q]]
    BY DEF Typed, JobsTyped
  <2> QED BY <2>2, <2>3
<1>12. dns \in RecId \cup {NoRec} /\ tun \in Sub \cup {NoHost}
  BY <1>3, <1>9 DEF Data
<1>13. /\ k.svc = svc /\ k.drop = old /\ k.todo = todo /\ k.want \in Addable
       /\ k.want.sub = sub /\ k.want.data.direct = (m = "direct") /\ k.want.data.tgt = tgt
       /\ k.want.data.dns = dns /\ k.want.data.tun = tun
  <2>1. /\ k.svc = svc /\ k.drop = old /\ k.todo = todo /\ k.want \in Addable
        /\ k.want.sub = want.sub /\ k.want.data.direct = want.data.direct
        /\ k.want.data.tgt = want.data.tgt /\ k.want.data.dns = dns /\ k.want.data.tun = tun
    BY ONLY <1>6, <1>11, <1>12, ReconcilingIs
  <2> QED BY <1>6, <2>1
<1>14. k.want # NoService
  BY <1>13, NoServiceAssumption DEF Addable
<1>15. /\ plan = PlanTo(svc, m, k.want.sub, k.want.data.tgt)
       /\ m # "direct" => k.want.sub \in Sub
       /\ k.drop = DnsFields(svc) /\ k.todo = Calls(plan, k.drop, TRUE)
       /\ k.want.data.dns = IF KeepsIds(plan, TRUE) THEN svc.data.dns ELSE NoRec
       /\ k.want.data.tun = IF KeepsIds(plan, TRUE) THEN svc.data.tun ELSE NoHost
  BY <1>4, <1>7, <1>9, <1>13
<1>16. UpdateStarts(k, m, plan)
  BY <1>4, <1>13, <1>14, <1>15 DEF UpdateStarts
<1> QED BY <1>2, <1>3, <1>13, <1>16

\* updateService has made no call yet.
LEMMA UpdateBegins ==
    ASSUME Typed, AllSettled, tunnelOn, NEW p \in Proc, BeginUpdate(p), NEW k, k = job'[p]
    PROVE  OnTrack(k) /\ JobRecords(k) = Records(k.svc) /\ JobRoutes(k) = Routes(k.svc)
<1>1. /\ k.svc \in Addable /\ \E id \in LiveIds : k.svc = idIdx[id]
      /\ \E m, plan : UpdateStarts(k, m, plan)
  BY UpdateStartsAs
<1>2. Settled(k.svc)
  BY <1>1 DEF AllSettled
<1>3. PICK m, plan : UpdateStarts(k, m, plan)
  BY <1>1
<1>4. PICK svc : svc = k.svc
  OBVIOUS
<1>5. /\ svc \in Addable /\ Settled(svc) /\ k.svc = svc
      /\ m \in AllModes /\ plan = PlanTo(svc, m, k.want.sub, k.want.data.tgt)
      /\ m # "direct" => k.want.sub \in Sub
      /\ k.drop = DnsFields(svc) /\ k.todo = Calls(plan, k.drop, TRUE)
      /\ k.want # NoService /\ k.want.data.direct = (m = "direct")
      /\ k.want.data.dns = IF KeepsIds(plan, TRUE) THEN svc.data.dns ELSE NoRec
      /\ k.want.data.tun = IF KeepsIds(plan, TRUE) THEN svc.data.tun ELSE NoHost
  BY <1>1, <1>2, <1>3, <1>4 DEF UpdateStarts
<1>6. OnTrack(k) /\ JobRecords(k) = Records(svc) /\ JobRoutes(k) = Routes(svc)
  BY ONLY <1>5, UpdateOnTrack
<1> QED BY <1>4, <1>6

\* What createService starts its calls with.
LEMMA CreateStartsAs ==
    ASSUME Typed, tunnelOn, NEW p \in Proc, BeginCreate(p), NEW k, k = job'[p]
    PROVE  \E m, plan : CreateStarts(k, m, plan)
<1>0. PICK id \in Id, m \in Modes, tgt \in Target, entry \in discovered \cup {NoEntry},
           order \in 1..MaxOrder :
       \E sub \in IF m = "direct" THEN {DirectKey(id)} ELSE Host :
           BeginCalls(p, [Job(id) EXCEPT
                                !.want = NewService(sub, entry, order, NewData(m, tgt)),
                                !.entry = entry],
                        planDNS("direct", m, TRUE, TRUE), Nothing)
  BY DEF BeginCreate
<1>1. PICK sub :
          /\ sub \in IF m = "direct" THEN {DirectKey(id)} ELSE Host
          /\ BeginCalls(p, [Job(id) EXCEPT
                                !.want = NewService(sub, entry, order, NewData(m, tgt)),
                                !.entry = entry],
                        planDNS("direct", m, TRUE, TRUE), Nothing)
  BY <1>0
<1>2. PICK want : want = NewService(sub, entry, order, NewData(m, tgt))
  OBVIOUS
<1>3. sub \in Sub /\ (m # "direct" => sub \in Sub) /\ m \in AllModes
  BY <1>1, HandlersAssumption DEF AllModes
<1>4. want \in Addable /\ want.sub = sub /\ want.data.direct = (m = "direct")
  <2>1. NewData(m, tgt) \in Payload /\ NewData(m, tgt).direct = (m = "direct")
    BY HandlersAssumption DEF NewData, Data
  <2>2. order \in 0..MaxOrder
    BY OrderAssumption
  <2>3. entry \in Entry \cup {NoEntry} /\ NoEntry \notin Entry
    BY NullsAreApart DEF Typed, CloudTyped
  <2> QED BY <1>2, <1>3, <2>1, <2>2, <2>3 DEF NewService, Addable, Service, Source, Entry
<1>5. PICK plan : plan = planDNS("direct", m, TRUE, TRUE)
  OBVIOUS
<1>6. BeginCalls(p, Starting(id, NoService, want, entry), plan, Nothing)
  <2>1. [Job(id) EXCEPT !.want = want, !.entry = entry] = Starting(id, NoService, want, entry)
    BY StartingIs
  <2> QED BY <1>1, <1>2, <1>5, <2>1
<1>7. PICK todo : todo = Calls(plan, Nothing, TRUE)
  OBVIOUS
<1>8. tunnelOn = TRUE
  BY DEF Typed, CloudTyped
<1>9. k = Reconciling(Starting(id, NoService, want, entry), Nothing, todo, NoRec, NoHost)
  <2>1. Nothing.dns = NoRec /\ Nothing.tun = NoHost
    BY DEF Nothing
  <2>2. job' = [job EXCEPT ![p] = Reconciling(Starting(id, NoService, want, entry),
                                              Nothing, todo, NoRec, NoHost)]
    BY <1>6, <1>7, <1>8, <2>1 DEF BeginCalls, Begin, Reconciling
  <2>3. job = [q \in Proc |-> job[q]]
    BY DEF Typed, JobsTyped
  <2> QED BY <2>2, <2>3
<1>10. /\ k.svc = NoService /\ k.todo = todo /\ k.want \in Addable
       /\ k.want.sub = want.sub /\ k.want.data.direct = want.data.direct
       /\ k.want.data.dns = NoRec /\ k.want.data.tun = NoHost
  <2>1. NoRec \in RecId \cup {NoRec} /\ NoHost \in Sub \cup {NoHost}
    OBVIOUS
  <2> QED BY ONLY <1>4, <1>9, <2>1, ReconcilingIs
<1>11. k.want # NoService
  BY <1>10, NoServiceAssumption DEF Addable
<1>12. /\ m # "direct" => k.want.sub \in Sub
       /\ k.todo = Calls(plan, Nothing, TRUE) /\ k.want.data.direct = (m = "direct")
  BY <1>3, <1>4, <1>7, <1>10
<1>13. CreateStarts(k, m, plan)
  BY <1>3, <1>5, <1>10, <1>11, <1>12 DEF CreateStarts
<1> QED BY <1>13

\* createService has made no call yet.
LEMMA CreateBegins ==
    ASSUME Typed, tunnelOn, NEW p \in Proc, BeginCreate(p), NEW k, k = job'[p]
    PROVE  OnTrack(k) /\ JobRecords(k) = {} /\ JobRoutes(k) = {}
<1>1. PICK m, plan : CreateStarts(k, m, plan)
  BY CreateStartsAs
<1>2. /\ m \in AllModes /\ (m # "direct" => k.want.sub \in Sub)
      /\ plan = planDNS("direct", m, TRUE, TRUE)
      /\ k.svc = NoService /\ k.todo = Calls(plan, Nothing, TRUE) /\ k.want # NoService
      /\ k.want.data.direct = (m = "direct")
      /\ k.want.data.dns = NoRec /\ k.want.data.tun = NoHost
  BY <1>1 DEF CreateStarts
<1> QED BY ONLY <1>2, CreateOnTrack

\* A step that changes nothing at Cloudflare and nothing of what its service is
\* to have there.
LEMMA StaysInStep ==
    ASSUME CarefulHandlers, InStep, NEW p \in Proc, NEW k, NEW step, NEW i \in Id,
           StepOf(p, k, step, i), Keeps(k, step, idIdx'[i]),
           UNCHANGED <<zone, ingress, tunnelOn, tunnelUp>>,
           RecordsAfter(k, step, idIdx'[i]) = RecordsBefore(p, i),
           RoutesAfter(k, step, idIdx'[i]) = RoutesBefore(p, i)
    PROVE  InStep'
<1>1. Typed /\ SubsApart /\ tunnelOn /\ ReadIsCurrent /\ AllSettled /\ ZoneInStep
  BY DEF CarefulHandlers, TakingTurns, CallerInv, InStep
<1>2. ReadIsCurrent' /\ AllSettled'
  BY <1>1, StepKeeps
<1>3. ZoneInStep'
  BY <1>1, ZoneStays
<1> QED BY <1>1, <1>2, <1>3 DEF InStep

\* A request that begins is alone with its service.
LEMMA BeginIsStepOf ==
    ASSUME TakingTurns, OneWriter, NEW p \in Proc, NEW k, NEW step,
           BeginStep(p, k, step), k.id \notin usedIds \/ Alone(k.id)
    PROVE  /\ StepOf(p, k, step, k.id) /\ k.id \in Id /\ pc[p] = "idle" /\ idIdx' = idIdx
           /\ UNCHANGED <<zone, ingress, tunnelOn, tunnelUp>>
<1> USE DEF TakingTurns, CallerInv
<1>1. /\ pc[p] = "idle" /\ Becomes(p, k, step) /\ k.id \in Id /\ idIdx' = idIdx
      /\ UNCHANGED <<zone, ingress, tunnelOn, tunnelUp>>
  BY DEF BeginStep, storeVars, cfVars
<1>2. ASSUME NEW q \in Proc \ {p}, pc[q] # "idle"
      PROVE  job[q].id # k.id
  <2>1. Busy(q) /\ job[q].id \in usedIds
    BY <1>2, BusyJob
  <2> QED BY <2>1 DEF Alone
<1> QED BY <1>1, <1>2 DEF StepOf

\* Requests begin in step.
LEMMA BeginStaysInStep ==
    ASSUME CarefulHandlers, OneWriter, InStep, NEW p \in Proc,
           BeginCreate(p) \/ BeginUpdate(p) \/ BeginDelete(p) \/ BeginIcon(p)
    PROVE  InStep'
<1>0. Typed /\ AllSettled /\ tunnelOn
  BY DEF CarefulHandlers, TakingTurns, CallerInv, InStep
<1>1. CASE BeginCreate(p)
  <2>1. PICK k : BeginStep(p, k, "calls") /\ k.id \notin usedIds /\ k.svc = NoService
    BY <1>0, <1>1, BeginCreateTakes
  <2>2. /\ StepOf(p, k, "calls", k.id) /\ k.id \in Id /\ pc[p] = "idle" /\ idIdx' = idIdx
        /\ UNCHANGED <<zone, ingress, tunnelOn, tunnelUp>>
    BY <2>1, BeginIsStepOf DEF CarefulHandlers
  <2>3. k = job'[p]
    BY <2>2 DEF StepOf, Becomes
  <2>4. OnTrack(k) /\ JobRecords(k) = {} /\ JobRoutes(k) = {}
    BY <1>0, <1>1, <2>3, CreateBegins
  <2>5. idIdx'[k.id] = NoService /\ idIdx[k.id] = NoService
    BY <1>0, <2>1, <2>2 DEF Typed, StoreTyped, LiveIds, Live
  <2>6. Keeps(k, "calls", idIdx'[k.id])
    BY <2>1, <2>4, <2>5 DEF Keeps
  <2>7. /\ RecordsAfter(k, "calls", idIdx'[k.id]) = RecordsBefore(p, k.id)
        /\ RoutesAfter(k, "calls", idIdx'[k.id]) = RoutesBefore(p, k.id)
    BY <2>2, <2>4, <2>5
       DEF RecordsAfter, RoutesAfter, RecordsBefore, RoutesBefore, Active, Records, Routes
  <2> QED BY <2>2, <2>6, <2>7, StaysInStep
<1>2. CASE BeginUpdate(p)
  <2>1. PICK k : BeginStep(p, k, "calls") /\ Alone(k.id) /\ Live(k.id) /\ k.svc = idIdx[k.id]
    BY <1>0, <1>2, BeginUpdateTakes
  <2>2. /\ StepOf(p, k, "calls", k.id) /\ k.id \in Id /\ pc[p] = "idle" /\ idIdx' = idIdx
        /\ UNCHANGED <<zone, ingress, tunnelOn, tunnelUp>>
    BY <2>1, BeginIsStepOf DEF CarefulHandlers
  <2>3. k = job'[p]
    BY <2>2 DEF StepOf, Becomes
  <2>4. OnTrack(k) /\ JobRecords(k) = Records(k.svc) /\ JobRoutes(k) = Routes(k.svc)
    BY <1>0, <1>2, <2>3, UpdateBegins
  <2>5. Keeps(k, "calls", idIdx'[k.id])
    BY <1>0, <2>1, <2>2, <2>4 DEF Keeps, AllSettled, LiveIds
  <2>6. /\ RecordsAfter(k, "calls", idIdx'[k.id]) = RecordsBefore(p, k.id)
        /\ RoutesAfter(k, "calls", idIdx'[k.id]) = RoutesBefore(p, k.id)
    BY <2>1, <2>2, <2>4 DEF RecordsAfter, RoutesAfter, RecordsBefore, RoutesBefore, Active
  <2> QED BY <2>2, <2>5, <2>6, StaysInStep
<1>3. CASE BeginDelete(p) \/ BeginIcon(p)
  <2>1. PICK k, step : /\ BeginStep(p, k, step) /\ step \in {"remove", "icon"}
                       /\ Alone(k.id) /\ Live(k.id) /\ k.svc = idIdx[k.id]
    BY <1>0, <1>3, BeginReadTakes
  <2>2. /\ StepOf(p, k, step, k.id) /\ k.id \in Id /\ pc[p] = "idle" /\ idIdx' = idIdx
        /\ UNCHANGED <<zone, ingress, tunnelOn, tunnelUp>>
    BY <2>1, BeginIsStepOf DEF CarefulHandlers
  <2>3. Keeps(k, step, idIdx'[k.id])
    BY <1>0, <2>1, <2>2 DEF Keeps, AllSettled, LiveIds, Active
  <2>4. /\ RecordsAfter(k, step, idIdx'[k.id]) = RecordsBefore(p, k.id)
        /\ RoutesAfter(k, step, idIdx'[k.id]) = RoutesBefore(p, k.id)
    BY <2>1, <2>2 DEF RecordsAfter, RoutesAfter, RecordsBefore, RoutesBefore, Active
  <2> QED BY <2>2, <2>3, <2>4, StaysInStep
<1> QED BY <1>1, <1>2, <1>3

-----------------------------------------------------------------------------
(* Requests end with what their service is to have *)

\* A request writes its own service only.
LEMMA WriteIsStepOf ==
    ASSUME TakingTurns, NEW p \in Proc, NEW k, NEW step, WriteStep(p, k, step)
    PROVE  /\ StepOf(p, k, step, job[p].id) /\ job[p].id \in Id /\ pc[p] # "idle"
           /\ UNCHANGED <<zone, ingress, tunnelOn, tunnelUp>>
<1> USE DEF TakingTurns, CallerInv
<1>1. /\ pc[p] # "idle" /\ Becomes(p, k, step) /\ WritesOwn(p)
      /\ UNCHANGED <<zone, ingress, tunnelOn, tunnelUp>>
      /\ step # "idle" => k.id = job[p].id
  BY DEF WriteStep, cfVars
<1>2. Busy(p) /\ job[p].id \in Id
  BY <1>1, BusyJob
<1>3. \A q \in Proc \ {p} : pc[q] # "idle" => job[q].id # job[p].id
  BY <1>2, BusyJob DEF OneEach
<1> QED BY <1>1, <1>2, <1>3 DEF StepOf, WritesOwn

\* deleteService is to delete what its service has.
LEMMA DeleteOnTrack ==
    ASSUME NEW svc \in Addable, Settled(svc), NEW k, k.svc = svc, k.want = NoService,
           k.drop = DnsFields(svc), k.todo = Calls("deleteAll", k.drop, TRUE)
    PROVE  OnTrack(k) /\ JobRecords(k) = Records(svc) /\ JobRoutes(k) = Routes(svc)
<1>0. svc # NoService
  BY NoServiceAssumption DEF Addable
<1>1. k.drop.dns = svc.data.dns /\ k.drop.tun = svc.data.tun
  BY DEF DnsFields
<1>2. PICK old : old = k.drop
  OBVIOUS
<1>3. /\ old.dns = NoRec /\ old.tun = NoHost => k.todo = <<>>
      /\ old.dns # NoRec => k.todo = IF old.tun = NoHost THEN <<"deleteRecord">>
                                     ELSE <<"unroute", "deleteRecord">>
  BY <1>2, CallsAre
<1>4. CASE svc.data.direct
  <2>1. mode(svc) = "direct" /\ k.todo = <<>>
    BY <1>1, <1>2, <1>3, <1>4, ModeIs DEF Settled
  <2>2. Records(svc) = {} /\ Routes(svc) = {} /\ Records(k.want) = {} /\ Routes(k.want) = {}
    BY <2>1 DEF Records, Routes
  <2>3. /\ k.todo \notin Unrouting /\ k.todo \notin Deleting
        /\ k.todo \notin Creating /\ k.todo \notin Routed /\ k.todo \notin Removing
    BY <2>1, TodoSays
  <2> QED BY <2>1, <2>2, <2>3 DEF OnTrack, JobRecords, JobRoutes
<1>5. CASE ~svc.data.direct /\ svc.data.tun = NoHost
  <2>1. mode(svc) = "A" /\ k.todo = <<"deleteRecord">>
    BY <1>1, <1>2, <1>3, <1>5, ModeIs DEF Settled
  <2>2. Routes(svc) = {}
    BY <2>1 DEF Routes
  <2>3. /\ k.todo # <<>> /\ k.todo \notin Unrouting /\ k.todo \in Deleting
        /\ k.todo \notin Creating /\ k.todo \notin Routed /\ k.todo \in Removing
    BY <2>1, TodoSays
  <2> QED BY <1>0, <2>1, <2>2, <2>3 DEF OnTrack, JobRecords, JobRoutes
<1>6. CASE ~svc.data.direct /\ svc.data.tun # NoHost
  <2>1. mode(svc) = "tunnel" /\ k.todo = <<"unroute", "deleteRecord">>
    BY <1>1, <1>2, <1>3, <1>6, ModeIs DEF Settled
  <2>2. /\ k.todo # <<>> /\ k.todo \in Unrouting /\ k.todo \notin Deleting
        /\ k.todo \notin Creating /\ k.todo \notin Routed /\ k.todo \in Removing
    BY <2>1, TodoSays
  <2> QED BY <1>0, <2>1, <2>2 DEF OnTrack, JobRecords, JobRoutes
<1> QED BY <1>4, <1>5, <1>6

\* A request that has made its calls has for its service what it is to write.
LEMMA DoneHas ==
    ASSUME AllSettled, NEW p \in Proc, Done(p, "calls"), NEW i
    PROVE  /\ RecordsBefore(p, i) = Records(job[p].want)
           /\ RoutesBefore(p, i) = Routes(job[p].want)
           /\ job[p].want # NoService => Settled(job[p].want)
<1>1. pc[p] = "calls" /\ job[p].todo = <<>> /\ OnTrack(job[p])
  BY DEF Done, AllSettled
<1>2. /\ job[p].todo \notin Unrouting /\ job[p].todo \notin Deleting
      /\ job[p].todo \notin Routed /\ job[p].todo \notin Removing
  BY <1>1, TodoSays
<1>3. JobRecords(job[p]) = Records(job[p].want) /\ JobRoutes(job[p]) = Routes(job[p].want)
  BY <1>1 DEF JobRecords, JobRoutes
<1>4. job[p].want # NoService => Settled(job[p].want)
  BY <1>1 DEF OnTrack
<1> QED BY <1>1, <1>3, <1>4 DEF RecordsBefore, RoutesBefore, Active

\* What deleteService starts its calls with.
LEMMA RemoveStartsAs ==
    ASSUME Typed, tunnelOn, NEW p \in Proc, RemoveService(p), Live(job[p].id),
           NEW k, k = job'[p], NEW svc, svc = idIdx[job[p].id]
    PROVE  k.drop = DnsFields(svc) /\ k.todo = Calls("deleteAll", DnsFields(svc), TRUE)
<1>1. PICK drop, todo : drop = DnsFields(svc) /\ todo = Calls("deleteAll", DnsFields(svc), TRUE)
  OBVIOUS
<1>2. tunnelOn = TRUE /\ job[p] \in Jobs /\ job = [q \in Proc |-> job[q]]
  BY BusyJob DEF RemoveService, Typed, CloudTyped, JobsTyped
<1>3. job' = [job EXCEPT ![p].drop = drop, ![p].todo = todo]
  BY <1>1, <1>2 DEF RemoveService
<1>4. k.drop = drop /\ k.todo = todo
  BY <1>2, <1>3 DEF Jobs
<1> QED BY <1>1, <1>4

\* Writes of the store end in step.
LEMMA WriteStaysInStep ==
    ASSUME CarefulHandlers, InStep, NEW p \in Proc,
           \/ FinishCreate(p) \/ Forget(p) \/ FinishUpdate(p)
           \/ RemoveService(p) \/ FinishDelete(p) \/ FinishIcon(p)
    PROVE  InStep'
<1> DEFINE i == job[p].id
<1>0. /\ Typed /\ OriginsKept /\ AllSettled /\ tunnelOn = TRUE /\ ReadIsCurrent
      /\ DeletedIsGone /\ idIdx \in [Id -> Service \cup {NoService}]
  BY DEF CarefulHandlers, TakingTurns, CallerInv, InStep, Typed, CloudTyped, StoreTyped, TypeOK
<1>a. ASSUME NEW k, NEW step, WriteStep(p, k, step), step # "calls", Done(p, "calls"),
             idIdx'[i] = job[p].want
      PROVE  InStep'
  <2>1. /\ StepOf(p, k, step, i) /\ i \in Id /\ UNCHANGED <<zone, ingress, tunnelOn, tunnelUp>>
    BY <1>a, WriteIsStepOf DEF CarefulHandlers
  <2>2. step \in {"idle", "forget"}
    BY <1>a DEF WriteStep
  <2>3. Keeps(k, step, idIdx'[i])
    BY <1>0, <1>a, <2>2, DoneHas DEF Keeps, Active
  <2>4. /\ RecordsAfter(k, step, idIdx'[i]) = RecordsBefore(p, i)
        /\ RoutesAfter(k, step, idIdx'[i]) = RoutesBefore(p, i)
    BY <1>0, <1>a, <2>2, DoneHas DEF RecordsAfter, RoutesAfter, Active
  <2> QED BY <2>1, <2>3, <2>4, StaysInStep
<1>b. ASSUME pc[p] \in {"forget", "icon"}, WriteStep(p, NoJob, "idle"), idIdx'[i] = idIdx[i]
      PROVE  InStep'
  <2>1. /\ StepOf(p, NoJob, "idle", i) /\ i \in Id /\ UNCHANGED <<zone, ingress, tunnelOn, tunnelUp>>
    BY <1>b, WriteIsStepOf DEF CarefulHandlers
  <2>2. Keeps(NoJob, "idle", idIdx'[i])
    BY <1>0, <1>b, <2>1 DEF Keeps, AllSettled, LiveIds, Live, Active
  <2>3. /\ RecordsAfter(NoJob, "idle", idIdx'[i]) = RecordsBefore(p, i)
        /\ RoutesAfter(NoJob, "idle", idIdx'[i]) = RoutesBefore(p, i)
    BY <1>b DEF RecordsAfter, RoutesAfter, RecordsBefore, RoutesBefore, Active
  <2> QED BY <2>1, <2>2, <2>3, StaysInStep
<1>1. CASE FinishCreate(p)
  <2>1. PICK k, step : WriteStep(p, k, step) /\ step # "calls"
    BY <1>0, <1>1, FinishCreateTakes
  <2>2. Done(p, "calls") /\ AddService(i, job[p].want) /\ i \in Id
    BY <1>0, <1>1, BusyJob DEF FinishCreate, Done
  <2>3. idIdx'[i] = job[p].want
    BY <1>0, <2>2 DEF AddService, Put
  <2> QED BY <1>a, <2>1, <2>2, <2>3
<1>2. CASE FinishUpdate(p)
  <2>1. WriteStep(p, NoJob, "idle")
    BY <1>0, <1>2, FinishUpdateTakes
  <2>2. /\ Done(p, "calls") /\ UpdateService(i, job[p].want) /\ i \in Id
        /\ job[p].svc # NoService /\ job[p].want # NoService /\ pc[p] = "calls"
    BY <1>0, <1>2, BusyJob DEF FinishUpdate, Done
  <2>3. idIdx[i] = job[p].svc
    BY <1>0, <2>2 DEF ReadIsCurrent
  <2>4. idIdx'[i] = job[p].want
    BY <1>0, <2>2, <2>3 DEF UpdateService, Put, Live
  <2> QED BY <1>a, <2>1, <2>2, <2>4
<1>3. CASE FinishIcon(p)
  <2>1. WriteStep(p, NoJob, "idle") /\ pc[p] = "icon"
    BY <1>0, <1>3, FinishUpdateTakes DEF FinishIcon
  <2>2. UpdateService(i, job[p].svc) /\ i \in Id
    BY <1>0, <1>3, <2>1, BusyJob DEF FinishIcon
  <2>3. idIdx[i] = job[p].svc
    BY <1>0, <2>1 DEF ReadIsCurrent
  <2>4. idIdx'[i] = idIdx[i]
    BY <1>0, <2>2, <2>3 DEF UpdateService, Put, storeVars
  <2> QED BY <1>b, <2>1, <2>4
<1>4. CASE Forget(p)
  <2>1. WriteStep(p, NoJob, "idle") /\ pc[p] = "forget" /\ idIdx' = idIdx
    BY <1>0, <1>4, ForgetTakes DEF Forget, storeVars
  <2> QED BY <1>b, <2>1
<1>5. CASE FinishDelete(p)
  <2>1. /\ WriteStep(p, NoJob, "idle") /\ Done(p, "calls") /\ job[p].want = NoService
        /\ pc[p] = "calls" /\ idIdx' = idIdx
    BY <1>0, <1>5, FinishDeleteTakes DEF FinishDelete, storeVars
  <2>2. idIdx[i] = NoService
    BY <1>0, <2>1 DEF DeletedIsGone, Live
  <2> QED BY <1>a, <2>1, <2>2
<1>6. CASE RemoveService(p)
  <2>1. PICK k : WriteStep(p, k, "calls")
    BY <1>0, <1>6, RemoveServiceTakes
  <2>2. job[p].want = NoService /\ idIdx'[i] = NoService /\ pc[p] = "remove"
    BY <1>0, <1>6, RemoveServiceTakes DEF RemoveService
  <2>3. /\ StepOf(p, k, "calls", i) /\ i \in Id /\ UNCHANGED <<zone, ingress, tunnelOn, tunnelUp>>
    BY <2>1, WriteIsStepOf DEF CarefulHandlers
  <2>4. JobTyped(job[p], "remove") /\ job[p] \in Jobs
    BY <1>0, <2>2, BusyJob
  <2>5. PICK svc : svc = idIdx[i]
    OBVIOUS
  <2>6. svc = job[p].svc /\ svc # NoService /\ svc \in Addable /\ Settled(svc)
    <3>1. svc = job[p].svc
      BY <1>0, <2>2, <2>5 DEF ReadIsCurrent
    <3>2. svc # NoService
      BY <2>2, <2>4, <3>1 DEF JobTyped
    <3> QED BY <1>0, <2>3, <2>5, <3>1, <3>2 DEF AllSettled, LiveIds, Live, Typed, StoreTyped
  <2>7. k.svc = svc /\ k.want = NoService
    BY <2>1, <2>2, <2>6 DEF WriteStep
  <2>8. k.drop = DnsFields(svc) /\ k.todo = Calls("deleteAll", DnsFields(svc), TRUE)
    <3>1. k = job'[p] /\ Live(i)
      BY <2>1, <2>2, <2>5, <2>6 DEF WriteStep, Becomes, Live
    <3> QED BY <1>0, <1>6, <2>5, <3>1, RemoveStartsAs
  <2>9. OnTrack(k) /\ JobRecords(k) = Records(svc) /\ JobRoutes(k) = Routes(svc)
    <3>1. k.todo = Calls("deleteAll", k.drop, TRUE) /\ k.drop = DnsFields(svc)
      BY <2>8
    <3> QED BY ONLY <2>6, <2>7, <3>1, DeleteOnTrack
  <2>10. Keeps(k, "calls", idIdx'[i])
    BY <2>2, <2>7, <2>9 DEF Keeps
  <2>11. /\ RecordsAfter(k, "calls", idIdx'[i]) = RecordsBefore(p, i)
         /\ RoutesAfter(k, "calls", idIdx'[i]) = RoutesBefore(p, i)
    BY <2>2, <2>5, <2>9 DEF RecordsAfter, RoutesAfter, RecordsBefore, RoutesBefore, Active
  <2> QED BY <2>3, <2>10, <2>11, StaysInStep
<1> QED BY <1>1, <1>2, <1>3, <1>4, <1>5, <1>6

-----------------------------------------------------------------------------
(* Calls bring a service closer to what it is to have *)

\* What the first of the calls left says of the rest.
LEMMA TodoGoesOn ==
    ASSUME NEW t \in Unrouting \cup Deleting \cup Creating, NEW c, c = Head(t),
           NEW r, r = Tail(t)
    PROVE  /\ t # <<>>
           /\ c \in {"unroute", "reroute", "deleteRecord", "find", "route",
                     "createA", "createCNAME"}
           /\ c = "unroute" => /\ t \in Unrouting /\ r # <<>> /\ r \notin Unrouting
                               /\ r \in Deleting /\ r \notin Routed
                               /\ (r \in Removing <=> t \in Removing)
           /\ c = "reroute" => /\ t \in Unrouting /\ t \notin Removing /\ r # <<>>
                               /\ r \notin Unrouting /\ r \in Deleting /\ r \in Routed
                               /\ r \notin Removing
           /\ c = "deleteRecord" => /\ t \notin Unrouting /\ t \in Deleting
                                    /\ r \in {<<>>} \cup Creating
                                    /\ r \notin Unrouting /\ r \notin Deleting
                                    /\ (r = <<>> <=> t \in Removing) /\ r \notin Removing
                                    /\ (r \in Routed <=> t \in Routed)
           /\ c \in {"find", "route"} => /\ t \notin Unrouting /\ t \notin Deleting
                                         /\ t \notin Removing /\ r # <<>>
                                         /\ r \in Creating /\ r \in Routed
                                         /\ r \notin Unrouting /\ r \notin Deleting
                                         /\ r \notin Removing
                                         /\ (t \in Routed <=> c = "find")
           /\ c \in {"createA", "createCNAME"} =>
                  /\ t \notin Unrouting /\ t \notin Deleting /\ t \notin Removing
                  /\ (t \in Routed <=> c = "createCNAME")
<1>1. CASE t = <<"unroute", "deleteRecord">>
  <2>1. c = "unroute" /\ r = <<"deleteRecord">>
    BY <1>1
  <2> QED BY <1>1, <2>1, TodoSays
<1>2. CASE t = <<"unroute", "deleteRecord", "createA">>
  <2>1. c = "unroute" /\ r = <<"deleteRecord", "createA">>
    BY <1>2
  <2> QED BY <1>2, <2>1, TodoSays
<1>3. CASE t = <<"reroute", "deleteRecord", "createCNAME">>
  <2>1. c = "reroute" /\ r = <<"deleteRecord", "createCNAME">>
    BY <1>3
  <2> QED BY <1>3, <2>1, TodoSays
<1>4. CASE t = <<"deleteRecord">>
  <2>1. c = "deleteRecord" /\ r = <<>>
    BY <1>4
  <2> QED BY <1>4, <2>1, TodoSays
<1>5. CASE t = <<"deleteRecord", "createA">>
  <2>1. c = "deleteRecord" /\ r = <<"createA">>
    BY <1>5
  <2> QED BY <1>5, <2>1, TodoSays
<1>6. CASE t = <<"deleteRecord", "createCNAME">>
  <2>1. c = "deleteRecord" /\ r = <<"createCNAME">>
    BY <1>6
  <2> QED BY <1>6, <2>1, TodoSays
<1>7. CASE t = <<"deleteRecord", "route", "find", "createCNAME">>
  <2>1. c = "deleteRecord" /\ r = <<"route", "find", "createCNAME">>
    BY <1>7
  <2> QED BY <1>7, <2>1, TodoSays
<1>8. CASE t = <<"createA">>
  <2>1. c = "createA" /\ r = <<>>
    BY <1>8
  <2> QED BY <1>8, <2>1, TodoSays
<1>9. CASE t = <<"createCNAME">>
  <2>1. c = "createCNAME" /\ r = <<>>
    BY <1>9
  <2> QED BY <1>9, <2>1, TodoSays
<1>10. CASE t = <<"find", "createCNAME">>
  <2>1. c = "find" /\ r = <<"createCNAME">>
    BY <1>10
  <2> QED BY <1>10, <2>1, TodoSays
<1>11. CASE t = <<"route", "find", "createCNAME">>
  <2>1. c = "route" /\ r = <<"find", "createCNAME">>
    BY <1>11
  <2> QED BY <1>11, <2>1, TodoSays
<1> QED BY <1>1, <1>2, <1>3, <1>4, <1>5, <1>6, <1>7, <1>8, <1>9, <1>10, <1>11
   DEF Unrouting, Deleting, Creating

\* What a request's service has before and after a call that makes no record.
LEMMA SkipHas ==
    ASSUME NEW j, OnTrack(j), j.todo # <<>>, NEW c, c = Head(j.todo),
           c \notin {"createA", "createCNAME"},
           NEW k, k.svc = j.svc, k.want = j.want, k.drop = j.drop, k.todo = Tail(j.todo)
    PROVE  /\ OnTrack(k)
           /\ c \in {"unroute", "reroute", "deleteRecord", "find", "route"}
           /\ c # "deleteRecord" => JobRecords(k) = JobRecords(j)
           /\ c = "deleteRecord" => /\ j.svc # NoService /\ j.drop = DnsFields(j.svc)
                                    /\ JobRecords(j) = {RecordOf(j.svc)} /\ JobRecords(k) = {}
           /\ c \in {"deleteRecord", "find"} => JobRoutes(k) = JobRoutes(j)
           /\ c \in {"unroute", "reroute"} => /\ j.svc # NoService
                                              /\ j.drop.tun = j.svc.sub
                                              /\ JobRoutes(j) = {Rule(j.svc)}
           /\ c = "unroute" => JobRoutes(k) = {}
           /\ c \in {"route", "reroute"} => j.want # NoService /\ JobRoutes(k) = {Rule(j.want)}
           /\ c = "route" => JobRoutes(j) = {}
           /\ c = "find" => j.want # NoService /\ JobRecords(j) = {}
<1> DEFINE t == j.todo
           r == k.todo
<1>1. t \in Unrouting \cup Deleting \cup Creating
  BY DEF OnTrack
<1>2. c \in {"unroute", "reroute", "deleteRecord", "find", "route"}
  BY <1>1, TodoGoesOn
<1>3. CASE c = "unroute"
  <2>1. /\ t \in Unrouting /\ r # <<>> /\ r \notin Unrouting /\ r \in Deleting
        /\ r \notin Routed /\ (r \in Removing <=> t \in Removing)
    BY <1>1, <1>3, TodoGoesOn
  <2>2. j.svc # NoService /\ mode(j.svc) = "tunnel" /\ Settled(j.svc) /\ j.drop = DnsFields(j.svc)
    BY <2>1 DEF OnTrack
  <2>3. j.drop.tun = j.svc.sub
    BY <2>2, ModeIs DEF Settled, DnsFields
  <2>4. OnTrack(k)
    BY <2>1, <2>2 DEF OnTrack
  <2>5. JobRecords(k) = JobRecords(j)
    BY <1>1, <2>1 DEF JobRecords
  <2>6. JobRoutes(j) = {Rule(j.svc)} /\ JobRoutes(k) = {}
    BY <2>1, <2>2 DEF JobRoutes, Routes
  <2> QED BY <1>3, <2>2, <2>3, <2>4, <2>5, <2>6
<1>4. CASE c = "reroute"
  <2>1. /\ t \in Unrouting /\ t \notin Removing /\ r # <<>> /\ r \notin Unrouting
        /\ r \in Deleting /\ r \in Routed /\ r \notin Removing
    BY <1>1, <1>4, TodoGoesOn
  <2>2. j.svc # NoService /\ mode(j.svc) = "tunnel" /\ Settled(j.svc) /\ j.drop = DnsFields(j.svc)
    BY <2>1 DEF OnTrack
  <2>3. j.drop.tun = j.svc.sub
    BY <2>2, ModeIs DEF Settled, DnsFields
  <2>4. OnTrack(k) /\ j.want # NoService
    BY <2>1, <2>2 DEF OnTrack
  <2>5. JobRecords(k) = JobRecords(j)
    BY <1>1, <2>1 DEF JobRecords
  <2>6. JobRoutes(j) = {Rule(j.svc)} /\ JobRoutes(k) = {Rule(j.want)}
    BY <2>1, <2>2 DEF JobRoutes, Routes
  <2> QED BY <1>4, <2>2, <2>3, <2>4, <2>5, <2>6
<1>5. CASE c = "deleteRecord"
  <2>1. /\ t \notin Unrouting /\ t \in Deleting /\ r \in {<<>>} \cup Creating
        /\ r \notin Unrouting /\ r \notin Deleting
        /\ (r = <<>> <=> t \in Removing) /\ r \notin Removing /\ (r \in Routed <=> t \in Routed)
    BY <1>1, <1>5, TodoGoesOn
  <2>2. j.svc # NoService /\ mode(j.svc) # "direct" /\ j.drop = DnsFields(j.svc)
    BY <2>1 DEF OnTrack
  <2>3. OnTrack(k)
    BY <2>1, <2>2 DEF OnTrack
  <2>4. r = <<>> => k.want = NoService \/ mode(k.want) = "direct"
    BY <2>1, ModeIs DEF OnTrack
  <2>5. r = <<>> => Records(k.want) = {} /\ Routes(k.want) = {}
    BY <2>4 DEF Records, Routes
  <2>6. JobRecords(j) = {RecordOf(j.svc)} /\ JobRecords(k) = {}
    BY <2>1, <2>2, <2>5 DEF JobRecords, Records
  <2>7. t \in Routed => t \notin Removing
    <3>1. t \in Routed => t \in {<<"deleteRecord", "createCNAME">>,
                                 <<"find", "createCNAME">>, <<"createCNAME">>}
      BY DEF Routed
    <3> QED BY <3>1, TodoSays
  <2>8. JobRoutes(k) = JobRoutes(j)
    BY <2>1, <2>5, <2>7 DEF JobRoutes
  <2> QED BY <1>5, <2>2, <2>3, <2>6, <2>8
<1>6. CASE c \in {"find", "route"}
  <2>1. /\ t \notin Unrouting /\ t \notin Deleting /\ t \notin Removing /\ r # <<>>
        /\ r \in Creating /\ r \in Routed /\ r \notin Unrouting /\ r \notin Deleting
        /\ r \notin Removing /\ (t \in Routed <=> c = "find")
    BY <1>1, <1>6, TodoGoesOn
  <2>2. OnTrack(k) /\ j.want # NoService
    BY <2>1 DEF OnTrack
  <2>3. JobRecords(j) = {} /\ JobRecords(k) = {}
    BY <2>1 DEF JobRecords
  <2>4. JobRoutes(k) = {Rule(j.want)} /\ JobRoutes(j) = IF c = "find" THEN {Rule(j.want)} ELSE {}
    BY <2>1 DEF JobRoutes
  <2> QED BY <1>6, <2>2, <2>3, <2>4
<1> QED BY <1>2, <1>3, <1>4, <1>5, <1>6

\* What it has before and after a call that makes a record.
LEMMA ReturnHas ==
    ASSUME NEW j, OnTrack(j), j.todo # <<>>, NEW c \in {"createA", "createCNAME"},
           c = Head(j.todo), j.want \in Addable, NEW rec \in RecId,
           NEW k, k.svc = j.svc, k.drop = j.drop, k.todo = <<>>, k.want # NoService,
           k.want.sub = j.want.sub, k.want.data.direct = j.want.data.direct,
           k.want.data.tgt = j.want.data.tgt, k.want.data.dns = rec,
           k.want.data.tun = IF c = "createA" THEN NoHost ELSE j.want.sub
    PROVE  /\ OnTrack(k) /\ j.want # NoService
           /\ JobRecords(j) = {}
           /\ JobRecords(k) = {[id |-> rec, host |-> j.want.sub,
                                type |-> IF c = "createA" THEN "A" ELSE "CNAME"]}
           /\ JobRoutes(k) = JobRoutes(j)
<1>1. j.todo \in Unrouting \cup Deleting \cup Creating
  BY DEF OnTrack
<1>2. /\ j.todo \notin Unrouting /\ j.todo \notin Deleting /\ j.todo \notin Removing
      /\ (j.todo \in Routed <=> c = "createCNAME")
  BY <1>1, TodoGoesOn
<1>3. j.want # NoService /\ ~j.want.data.direct /\ j.want.sub \in Sub
  BY <1>2 DEF OnTrack
<1>4. j.want.sub # NoHost /\ rec # NoRec
  BY <1>3, HandlersAssumption
<1>5. Settled(k.want) /\ mode(k.want) = IF c = "createA" THEN "A" ELSE "tunnel"
  BY <1>3, <1>4, ModeIs DEF Settled
<1>6. /\ k.todo \notin Unrouting /\ k.todo \notin Deleting
      /\ k.todo \notin Routed /\ k.todo \notin Removing
  BY TodoSays
<1>7. OnTrack(k)
  BY <1>5, <1>6 DEF OnTrack
<1>8. JobRecords(j) = {} /\ JobRecords(k) = {RecordOf(k.want)}
  BY <1>2, <1>5 DEF JobRecords, Records
<1>9. JobRoutes(k) = JobRoutes(j)
  <2>1. JobRoutes(j) = IF c = "createCNAME" THEN {Rule(j.want)} ELSE {}
    BY <1>2 DEF JobRoutes
  <2>2. JobRoutes(k) = IF c = "createCNAME" THEN {Rule(k.want)} ELSE {}
    BY <1>5 DEF JobRoutes, Routes
  <2> QED BY <2>1, <2>2 DEF Rule
<1>10. RecordOf(k.want) = [id |-> rec, host |-> j.want.sub,
                           type |-> IF c = "createA" THEN "A" ELSE "CNAME"]
  BY <1>5 DEF RecordOf
<1> QED BY <1>3, <1>7, <1>8, <1>9, <1>10

\* A call is about its request's service.
LEMMA CallIsStepOf ==
    ASSUME CarefulHandlers, InStep, NEW p \in Proc, NEW k, NEW step, CallStep(p, k, step),
           OnTrack(k)
    PROVE  /\ StepOf(p, k, step, job[p].id) /\ job[p].id \in Id
           /\ Keeps(k, step, idIdx'[job[p].id])
           /\ \A svc \in {job[p].svc, job[p].want} \ {NoService} : svc \in VersionsOf(job[p].id)
           /\ RecordsBefore(p, job[p].id) = JobRecords(job[p])
           /\ RoutesBefore(p, job[p].id) = JobRoutes(job[p])
           /\ RecordsAfter(k, step, idIdx'[job[p].id]) = JobRecords(k)
           /\ RoutesAfter(k, step, idIdx'[job[p].id]) = JobRoutes(k)
<1> USE DEF CarefulHandlers, TakingTurns, CallerInv
<1>1. /\ pc[p] \in {"calls", "modify", "put"} /\ step \in {"calls", "modify", "put"} /\ Becomes(p, k, step)
      /\ k.id = job[p].id /\ k.svc = job[p].svc /\ idIdx' = idIdx
      /\ (k.want = NoService <=> job[p].want = NoService)
  BY DEF CallStep, Advances, storeVars
<1>2. Busy(p) /\ job[p].id \in Id
  BY <1>1, BusyJob
<1>3. \A q \in Proc \ {p} : pc[q] # "idle" => job[q].id # job[p].id
  BY <1>2, BusyJob DEF OneEach
<1>4. StepOf(p, k, step, job[p].id)
  BY <1>1, <1>3 DEF StepOf
<1>5. Keeps(k, step, idIdx'[job[p].id])
  <2>1. idIdx[job[p].id] # NoService => Settled(idIdx[job[p].id])
    BY <1>2 DEF InStep, AllSettled, LiveIds, Live
  <2>2. job[p].svc # NoService /\ job[p].want # NoService => idIdx[job[p].id] = job[p].svc
    BY <1>1 DEF InStep, ReadIsCurrent
  <2> QED BY <1>1, <2>1, <2>2 DEF Keeps
<1>6. \A svc \in {job[p].svc, job[p].want} \ {NoService} : svc \in VersionsOf(job[p].id)
  BY <1>2, VersionIs
<1> QED BY <1>1, <1>2, <1>4, <1>5, <1>6
        DEF RecordsBefore, RoutesBefore, RecordsAfter, RoutesAfter, Active

\* After a call the zone and the rules have what the request says.
LEMMA CallStaysInStep ==
    ASSUME CarefulHandlers, InStep, NEW p \in Proc, NEW k, NEW step, CallStep(p, k, step),
           OnTrack(k), UNCHANGED <<tunnelOn, tunnelUp>>,
           zone' = (zone \ JobRecords(job[p])) \cup JobRecords(k),
           \A rule \in Rules : ingress'[rule] = IF rule \in JobRoutes(k) THEN 1
                                               ELSE IF rule \in JobRoutes(job[p]) THEN 0
                                               ELSE ingress[rule]
    PROVE  InStep'
<1>0. PICK i : i = job[p].id
  OBVIOUS
<1>1. /\ StepOf(p, k, step, i) /\ i \in Id /\ Keeps(k, step, idIdx'[i])
      /\ RecordsBefore(p, i) = JobRecords(job[p]) /\ RoutesBefore(p, i) = JobRoutes(job[p])
      /\ RecordsAfter(k, step, idIdx'[i]) = JobRecords(k)
      /\ RoutesAfter(k, step, idIdx'[i]) = JobRoutes(k)
  BY <1>0, CallIsStepOf
<1>2. Typed /\ SubsApart /\ tunnelOn /\ ReadIsCurrent /\ AllSettled /\ ZoneInStep
  BY DEF CarefulHandlers, TakingTurns, CallerInv, InStep
<1>3. ReadIsCurrent' /\ AllSettled'
  BY <1>1, <1>2, StepKeeps
<1>4. HasRecords(i) = JobRecords(job[p]) /\ HasRoutes(i) = JobRoutes(job[p])
  BY <1>1, HasIs DEF StepOf
<1>5. HasRecords(i)' = JobRecords(k) /\ HasRoutes(i)' = JobRoutes(k)
  BY <1>1, HasAfter
<1>6. ZoneInStep'
  BY <1>1, <1>2, <1>4, <1>5, ZoneFollows
<1> QED BY <1>2, <1>3, <1>6 DEF InStep

\* What the zone and the tunnel have for a request that makes its calls.
LEMMA CallerHas ==
    ASSUME CarefulHandlers, InStep, NEW p \in Proc, pc[p] \in {"calls", "modify", "put"}
    PROVE  /\ OnTrack(job[p]) /\ JobRecords(job[p]) \subseteq zone
           /\ \A svc \in {job[p].svc, job[p].want} \ {NoService} :
                /\ \A rec \in zone : rec.host = svc.sub => rec \in JobRecords(job[p])
                /\ \A rule \in Rules : rule.host = svc.sub =>
                       ingress[rule] = IF rule \in JobRoutes(job[p]) THEN 1 ELSE 0
           /\ \A rule \in Rules : rule \in JobRoutes(job[p]) => ingress[rule] = 1
<1> USE DEF CarefulHandlers, TakingTurns, CallerInv
<1> DEFINE i == job[p].id
<1>1. Busy(p) /\ i \in Id /\ OnTrack(job[p])
  BY BusyJob DEF InStep, AllSettled
<1>2. \A q \in Proc \ {p} : pc[q] # "idle" => job[q].id # i
  BY <1>1, BusyJob DEF OneEach
<1>3. HasRecords(i) = JobRecords(job[p]) /\ HasRoutes(i) = JobRoutes(job[p])
  BY <1>2, HasIs DEF RecordsBefore, RoutesBefore, Active
<1>4. \A svc \in {job[p].svc, job[p].want} \ {NoService} : svc \in VersionsOf(i)
  BY <1>1, VersionIs
<1>5. AllSettled /\ ZoneInStep
  BY DEF InStep
<1>6. \A svc \in {job[p].svc, job[p].want} \ {NoService} :
         /\ \A rec \in zone : rec.host = svc.sub => rec \in JobRecords(job[p])
         /\ \A rule \in Rules : rule.host = svc.sub =>
                ingress[rule] = IF rule \in JobRoutes(job[p]) THEN 1 ELSE 0
  BY <1>1, <1>3, <1>4, <1>5, HostIsOwn
<1>7. JobRecords(job[p]) \subseteq zone
  BY <1>1, <1>3, <1>5 DEF ZoneInStep
<1>8. \A rule \in Rules : rule \in JobRoutes(job[p]) => ingress[rule] = 1
  BY <1>1, <1>3, <1>5 DEF ZoneInStep
<1> QED BY <1>1, <1>6, <1>7, <1>8

\* A record of a request going on: what Skip and ReadIngress make of it.
LEMMA SkippedIs ==
    ASSUME NEW j \in Jobs, NEW k, k = Skip(j)
    PROVE  k.svc = j.svc /\ k.want = j.want /\ k.drop = j.drop /\ k.todo = Tail(j.todo)
BY DEF Jobs, Skip

\* reconcileDNS returns with the new record's ID.
LEMMA ReturnedIs ==
    ASSUME NEW j \in Jobs, j.want \in Addable, NEW dns \in RecId \cup {NoRec},
           NEW tun \in Sub \cup {NoHost}, NEW k, k = Return(j, dns, tun)
    PROVE  /\ k.svc = j.svc /\ k.drop = j.drop /\ k.todo = <<>> /\ k.want # NoService
           /\ k.want.sub = j.want.sub /\ k.want.data.direct = j.want.data.direct
           /\ k.want.data.tgt = j.want.data.tgt
           /\ k.want.data.dns = dns /\ k.want.data.tun = tun
<1>1. j.want \in Service /\ j.want.data \in Data
  BY HandlersAssumption DEF Addable, Service
<1>2. PICK data : data = [j.want.data EXCEPT !.dns = dns, !.tun = tun]
  OBVIOUS
<1>3. /\ data.direct = j.want.data.direct /\ data.tgt = j.want.data.tgt
      /\ data.dns = dns /\ data.tun = tun /\ data \in Payload
  BY <1>1, <1>2, HandlersAssumption DEF Data
<1>4. PICK want : want = [j.want EXCEPT !.data = data]
  OBVIOUS
<1>5. want.sub = j.want.sub /\ want.data = data /\ want \in Service
  BY <1>1, <1>3, <1>4 DEF Service
<1>6. k = [j EXCEPT !.todo = <<>>, !.want = want]
  BY <1>1, <1>2, <1>4 DEF Return, Jobs, Service
<1>7. k.svc = j.svc /\ k.drop = j.drop /\ k.todo = <<>> /\ k.want = want
  BY <1>6 DEF Jobs
<1> QED BY <1>3, <1>5, <1>7, NoServiceAssumption

\* The record that a call makes or deletes is that of its request's service.
LEMMA CallReturnsInStep ==
    ASSUME CarefulHandlers, FoundIsOfHost, InStep, NEW p \in Proc, CallReturns(p)
    PROVE  InStep'
<1>0. Typed
  BY DEF CarefulHandlers, TakingTurns, CallerInv
<1>1. PICK j, c : j = job[p] /\ c = NextCall(p)
  OBVIOUS
<1>2. /\ JobTyped(j, "calls") /\ j \in Jobs /\ j.todo # <<>> /\ c = Head(j.todo)
      /\ pc[p] = "calls" /\ ~NeedsTunnel(c) /\ UNCHANGED <<ingress, tunnelOn, tunnelUp>>
  BY <1>0, <1>1, CallingJob DEF CallReturns, Pending, NextCall
<1>3. /\ OnTrack(j) /\ JobRecords(j) \subseteq zone
      /\ \A svc \in {j.svc, j.want} \ {NoService} :
             \A rec \in zone : rec.host = svc.sub => rec \in JobRecords(j)
      /\ \A rule \in Rules : rule \in JobRoutes(j) => ingress[rule] = 1
  BY <1>1, <1>2, CallerHas
<1>4. j.todo \in Unrouting \cup Deleting \cup Creating
  BY <1>2, <1>3 DEF OnTrack
<1>5. c \in {"createA", "createCNAME", "find", "deleteRecord"}
  <2>1. c \in {"unroute", "reroute", "deleteRecord", "find", "route", "createA", "createCNAME"}
    BY <1>2, <1>4, TodoGoesOn
  <2> QED BY <1>2, <2>1 DEF NeedsTunnel
<1>6. PICK k : CallStep(p, k, "calls")
  BY <1>0, CallReturnsTakes
<1>7. k = job'[p] /\ job = [q \in Proc |-> job[q]]
  BY <1>0, <1>6 DEF CallStep, Becomes, Typed, JobsTyped
<1>a. ASSUME OnTrack(k), JobRoutes(k) = JobRoutes(j),
             zone' = (zone \ JobRecords(j)) \cup JobRecords(k)
      PROVE  InStep'
  <2>1. \A rule \in Rules : ingress'[rule] = IF rule \in JobRoutes(k) THEN 1
                                            ELSE IF rule \in JobRoutes(job[p]) THEN 0
                                            ELSE ingress[rule]
    BY <1>1, <1>2, <1>3, <1>a
  <2> QED BY <1>1, <1>2, <1>6, <1>a, <2>1, CallStaysInStep
<1>8. CASE c \in {"createA", "createCNAME"}
  <2>1. j.want # NoService /\ j.want.sub \in Sub /\ j.want \in Addable
    BY <1>2, <1>8, OpenCall
  <2>2. j.todo \notin Unrouting /\ j.todo \notin Deleting
    BY <1>2, <1>4, <1>8, TodoGoesOn
  <2>3. JobRecords(j) = {}
    BY <1>2, <2>2 DEF JobRecords
  <2>4. RecordsFor(j.want.sub) = {}
    BY <1>3, <2>1, <2>3 DEF RecordsFor
  <2>5. Accepts(j, c)
    BY <1>8, <2>4 DEF Accepts
  <2>6. Effect(j, c) /\ \E s \in Succeeded(j, c) : job' = [job EXCEPT ![p] = s]
    BY <1>1, <2>5 DEF CallReturns
  <2>7. PICK type, tun : /\ type = IF c = "createA" THEN "A" ELSE "CNAME"
                         /\ tun = IF c = "createA" THEN NoHost ELSE j.want.sub
    OBVIOUS
  <2>8. Insert(j.want.sub, type)
    BY <1>8, <2>6, <2>7 DEF Effect
  <2>9. k = Return(j, nextRec, tun)
    <3>1. Succeeded(j, c) = {Return(j, nextRec, tun)}
      BY <1>8, <2>7 DEF Succeeded
    <3> QED BY <1>7, <2>6, <3>1
  <2>10. nextRec \in RecId
    BY <1>0, <2>8, HandlersAssumption DEF Insert, Typed, CloudTyped, RecId
  <2>11. nextRec \in RecId \cup {NoRec} /\ tun \in Sub \cup {NoHost}
    BY <2>1, <2>7, <2>10
  <2>12. /\ k.svc = j.svc /\ k.drop = j.drop /\ k.todo = <<>> /\ k.want # NoService
         /\ k.want.sub = j.want.sub /\ k.want.data.direct = j.want.data.direct
         /\ k.want.data.tgt = j.want.data.tgt
         /\ k.want.data.dns = nextRec /\ k.want.data.tun = tun
    BY ONLY <1>2, <2>1, <2>9, <2>11, ReturnedIs
  <2>13. PICK rec \in RecId : rec = nextRec
    BY <2>10
  <2>14. /\ OnTrack(k) /\ JobRoutes(k) = JobRoutes(j)
         /\ JobRecords(k) = {[id |-> rec, host |-> j.want.sub, type |-> type]}
    BY <1>2, <1>3, <1>8, <2>1, <2>7, <2>12, <2>13, ReturnHas
  <2>15. zone' = (zone \ JobRecords(j)) \cup JobRecords(k)
    BY <2>3, <2>8, <2>13, <2>14 DEF Insert
  <2> QED BY <1>a, <2>14, <2>15
<1>9. CASE c \in {"find", "deleteRecord"}
  <2>1. PICK s : s = Skip(j)
    OBVIOUS
  <2>2. s.svc = j.svc /\ s.want = j.want /\ s.drop = j.drop /\ s.todo = Tail(j.todo)
    BY <1>2, <2>1, SkippedIs
  <2>3. /\ OnTrack(s) /\ JobRoutes(s) = JobRoutes(j)
        /\ c = "find" => /\ j.want # NoService
                         /\ JobRecords(j) = {} /\ JobRecords(s) = {}
        /\ c = "deleteRecord" => /\ j.svc # NoService /\ j.drop = DnsFields(j.svc)
                                 /\ JobRecords(j) = {RecordOf(j.svc)} /\ JobRecords(s) = {}
    BY <1>2, <1>3, <1>9, <2>2, SkipHas
  <2>4. CASE c = "find"
    <3>1. RecordsFor(j.want.sub) = {}
      BY <1>3, <2>3, <2>4 DEF RecordsFor
    <3>2. Accepts(j, c) /\ Succeeded(j, c) = {s}
      BY <2>1, <2>4, <3>1 DEF Accepts, Succeeded
    <3>3. k = s /\ Effect(j, c)
      BY <1>1, <1>7, <3>2 DEF CallReturns
    <3>4. zone' = zone
      BY <2>4, <3>3 DEF Effect
    <3> QED BY <1>a, <2>3, <2>4, <3>3, <3>4
  <2>5. CASE c = "deleteRecord"
    <3>1. RecordOf(j.svc) \in zone /\ RecordOf(j.svc).id = j.drop.dns
      BY <1>3, <2>3, <2>5 DEF RecordOf, DnsFields
    <3>2. Accepts(j, c) /\ Succeeded(j, c) = {s}
      BY <2>1, <2>5, <3>1 DEF Accepts, Succeeded
    <3>3. k = s /\ Effect(j, c)
      BY <1>1, <1>7, <3>2 DEF CallReturns
    <3>4. zone' = {r \in zone : r.id # j.drop.dns}
      BY <2>5, <3>3 DEF Effect, DeleteRecord
    <3>5. \A r \in zone : r.id = j.drop.dns <=> r = RecordOf(j.svc)
      BY <3>1 DEF FoundIsOfHost
    <3>6. zone' = (zone \ JobRecords(j)) \cup JobRecords(k)
      BY <2>3, <2>5, <3>3, <3>4, <3>5
    <3> QED BY <1>a, <2>3, <3>3, <3>6
  <2> QED BY <1>9, <2>4, <2>5
<1> QED BY <1>5, <1>8, <1>9

\* What has been read of the rules changes nothing yet.
LEMMA ReadIngressInStep ==
    ASSUME CarefulHandlers, InStep, NEW p \in Proc, ReadIngress(p)
    PROVE  InStep'
<1>0. Typed
  BY DEF CarefulHandlers, TakingTurns, CallerInv
<1>1. PICK j : j = job[p]
  OBVIOUS
<1>2. pc[p] = "modify" /\ j \in Jobs /\ UNCHANGED <<zone, ingress, tunnelOn, tunnelUp>>
  BY <1>0, <1>1, CallingJob DEF ReadIngress
<1>3. PICK k : CallStep(p, k, "put")
  BY <1>0, ReadIngressTakes
<1>4. k = job'[p] /\ job = [q \in Proc |-> job[q]]
  BY <1>0, <1>3 DEF CallStep, Becomes, Typed, JobsTyped
<1>5. PICK rules : job' = [job EXCEPT ![p].rules = rules]
  BY DEF ReadIngress
<1>6. k.svc = j.svc /\ k.want = j.want /\ k.drop = j.drop /\ k.todo = j.todo
  BY <1>1, <1>2, <1>4, <1>5 DEF Jobs
<1>7. /\ OnTrack(j) /\ JobRecords(j) \subseteq zone
      /\ \A rule \in Rules : rule \in JobRoutes(j) => ingress[rule] = 1
  BY <1>1, <1>2, CallerHas
<1>8. OnTrack(k) /\ JobRecords(k) = JobRecords(j) /\ JobRoutes(k) = JobRoutes(j)
  BY <1>6, <1>7 DEF OnTrack, JobRecords, JobRoutes
<1>9. zone' = (zone \ JobRecords(j)) \cup JobRecords(k)
  BY <1>2, <1>7, <1>8
<1>10. \A rule \in Rules : ingress'[rule] = IF rule \in JobRoutes(k) THEN 1
                                           ELSE IF rule \in JobRoutes(j) THEN 0
                                           ELSE ingress[rule]
  BY <1>2, <1>7, <1>8
<1> QED BY <1>1, <1>2, <1>3, <1>8, <1>9, <1>10, CallStaysInStep

\* Nor does going on to modifyIngress.
LEMMA CallModifiesInStep ==
    ASSUME CarefulHandlers, InStep, NEW p \in Proc, CallModifies(p)
    PROVE  InStep'
<1>0. Typed
  BY DEF CarefulHandlers, TakingTurns, CallerInv
<1>1. PICK j : j = job[p]
  OBVIOUS
<1>2. pc[p] = "calls" /\ j \in Jobs /\ UNCHANGED <<zone, ingress, tunnelOn, tunnelUp>>
  BY <1>0, <1>1, CallingJob DEF CallModifies, Pending, cfVars
<1>3. CallStep(p, j, "modify")
  BY <1>0, <1>1, CallModifiesTakes
<1>4. /\ OnTrack(j) /\ JobRecords(j) \subseteq zone
      /\ \A rule \in Rules : rule \in JobRoutes(j) => ingress[rule] = 1
  BY <1>1, <1>2, CallerHas
<1>5. zone' = (zone \ JobRecords(j)) \cup JobRecords(j)
  BY <1>2, <1>4
<1>6. \A rule \in Rules : ingress'[rule] = IF rule \in JobRoutes(j) THEN 1
                                          ELSE IF rule \in JobRoutes(j) THEN 0
                                          ELSE ingress[rule]
  BY <1>2, <1>4
<1> QED BY <1>1, <1>2, <1>3, <1>4, <1>5, <1>6, CallStaysInStep

\* The rules that are put have the service's new route and not its old one.
LEMMA WriteIngressInStep ==
    ASSUME CarefulHandlers, InStep, NEW p \in Proc, WriteIngress(p)
    PROVE  InStep'
<1>0. Typed /\ IngressIsCurrent /\ ingress \in [Rules -> Nat]
  BY DEF CarefulHandlers, TakingTurns, CallerInv, Typed, CloudTyped
<1>1. PICK j, c : j = job[p] /\ c = NextCall(p)
  OBVIOUS
<1>2. /\ pc[p] = "put" /\ JobTyped(j, "put") /\ j \in Jobs /\ j.todo # <<>>
      /\ c = Head(j.todo) /\ NeedsTunnel(c)
      /\ UNCHANGED <<zone, tunnelOn, tunnelUp>> /\ ingress' = Modified(ingress, j, c)
  <2>1. /\ pc[p] = "put" /\ JobTyped(j, "put") /\ j \in Jobs /\ UNCHANGED <<zone, tunnelOn, tunnelUp>>
        /\ ingress' = j.rules /\ tunnelUp
    BY <1>0, <1>1, CallingJob DEF WriteIngress
  <2> QED BY <1>0, <1>1, <2>1 DEF JobTyped, NextCall, IngressIsCurrent
<1>3. PICK k : CallStep(p, k, "calls")
  BY <1>0, WriteIngressTakes
<1>4. k = job'[p] /\ job = [q \in Proc |-> job[q]]
  BY <1>0, <1>3 DEF CallStep, Becomes, Typed, JobsTyped
<1>5. k = Skip(j)
  BY <1>1, <1>4 DEF WriteIngress
<1>6. k.svc = j.svc /\ k.want = j.want /\ k.drop = j.drop /\ k.todo = Tail(j.todo)
  BY <1>2, <1>5, SkippedIs
<1>7. /\ OnTrack(j) /\ JobRecords(j) \subseteq zone
      /\ \A svc \in {j.svc, j.want} \ {NoService} : \A rule \in Rules :
             rule.host = svc.sub =>
                 ingress[rule] = IF rule \in JobRoutes(j) THEN 1 ELSE 0
  BY <1>1, <1>2, CallerHas
<1>8. c \in {"route", "unroute", "reroute"}
  BY <1>2 DEF NeedsTunnel
<1>9. /\ OnTrack(k) /\ JobRecords(k) = JobRecords(j)
      /\ c \in {"unroute", "reroute"} => /\ j.svc # NoService /\ j.drop.tun = j.svc.sub
                                         /\ JobRoutes(j) = {Rule(j.svc)}
      /\ c = "unroute" => JobRoutes(k) = {}
      /\ c \in {"route", "reroute"} => j.want # NoService /\ JobRoutes(k) = {Rule(j.want)}
      /\ c = "route" => JobRoutes(j) = {}
  BY <1>2, <1>6, <1>7, <1>8, SkipHas
<1>10. zone' = (zone \ JobRecords(j)) \cup JobRecords(k)
  BY <1>2, <1>7, <1>9
<1>a. ASSUME NEW host, NEW rule \in Rules
      PROVE  removeHostname(ingress, host)[rule] = IF rule.host = host THEN 0 ELSE ingress[rule]
  BY DEF removeHostname
<1>b. ASSUME NEW host, NEW new, NEW rule \in Rules
      PROVE  appendRule(removeHostname(ingress, host), new)[rule] =
                 IF rule = new THEN removeHostname(ingress, host)[rule] + 1
                 ELSE removeHostname(ingress, host)[rule]
  <2>1. PICK old : old = removeHostname(ingress, host)
    OBVIOUS
  <2>2. DOMAIN old = Rules
    BY <2>1 DEF removeHostname
  <2>3. appendRule(old, new)[rule] = IF rule = new THEN old[rule] + 1 ELSE old[rule]
    BY <2>2 DEF appendRule
  <2> QED BY <2>1, <2>3
<1>11. ASSUME NEW rule \in Rules
       PROVE  ingress'[rule] = IF rule \in JobRoutes(k) THEN 1
                               ELSE IF rule \in JobRoutes(j) THEN 0 ELSE ingress[rule]
  <2>0. /\ j.svc # NoService /\ rule.host = j.svc.sub =>
              ingress[rule] = IF rule \in JobRoutes(j) THEN 1 ELSE 0
        /\ j.want # NoService /\ rule.host = j.want.sub =>
              ingress[rule] = IF rule \in JobRoutes(j) THEN 1 ELSE 0
        /\ Rule(j.svc).host = j.svc.sub /\ Rule(j.want).host = j.want.sub
    BY <1>7 DEF Rule
  <2>1. CASE c = "unroute"
    <3>1. ingress' = removeHostname(ingress, j.svc.sub)
      BY <1>2, <1>9, <2>1 DEF Modified
    <3>2. ingress'[rule] = IF rule.host = j.svc.sub THEN 0 ELSE ingress[rule]
      BY <1>a, <3>1
    <3> QED BY <1>9, <2>0, <2>1, <3>2
  <2>2. CASE c = "reroute"
    <3>1. ingress' = appendRule(removeHostname(ingress, j.svc.sub), Rule(j.want))
      BY <1>2, <2>2 DEF Modified
    <3>2. ingress'[rule] = IF rule = Rule(j.want) THEN removeHostname(ingress, j.svc.sub)[rule] + 1
                           ELSE removeHostname(ingress, j.svc.sub)[rule]
      BY <1>b, <3>1
    <3>3. removeHostname(ingress, j.svc.sub)[rule]
              = IF rule.host = j.svc.sub THEN 0 ELSE ingress[rule]
      BY <1>a
    <3> QED BY <1>9, <2>0, <2>2, <3>2, <3>3
  <2>3. CASE c = "route"
    <3>1. ingress' = appendRule(removeHostname(ingress, j.want.sub), Rule(j.want))
      BY <1>2, <2>3 DEF Modified
    <3>2. ingress'[rule] = IF rule = Rule(j.want) THEN removeHostname(ingress, j.want.sub)[rule] + 1
                           ELSE removeHostname(ingress, j.want.sub)[rule]
      BY <1>b, <3>1
    <3>3. removeHostname(ingress, j.want.sub)[rule]
              = IF rule.host = j.want.sub THEN 0 ELSE ingress[rule]
      BY <1>a
    <3> QED BY <1>9, <2>0, <2>3, <3>2, <3>3
  <2> QED BY <1>8, <2>1, <2>2, <2>3
<1> QED BY <1>1, <1>2, <1>3, <1>9, <1>10, <1>11, CallStaysInStep

-----------------------------------------------------------------------------
(* The zone and the tunnel are those of the store *)

\* Only a call that fails and a new tunnel count as disturbances.
LEMMA OnlyTheseDisturb ==
    ASSUME Typed, OriginsKept, HandlersNext, Undisturbed'
    PROVE  /\ Undisturbed
           /\ \E p \in Proc :
                 \/ BeginCreate(p) \/ BeginUpdate(p) \/ BeginDelete(p) \/ BeginIcon(p)
                 \/ CallReturns(p) \/ CallSkipped(p) \/ CallModifies(p)
                 \/ ReadIngress(p) \/ WriteIngress(p) \/ IngressRefused(p)
                 \/ \/ FinishCreate(p) \/ Forget(p) \/ FinishUpdate(p)
                    \/ RemoveService(p) \/ FinishDelete(p) \/ FinishIcon(p)
<1>0. failures \in Nat /\ toggles \in Nat /\ failures' = 0 /\ toggles' = 0 /\ tunnelOn'
  BY HandlersAssumption DEF Typed, CloudTyped, Undisturbed
<1>1. ASSUME TunnelStep PROVE FALSE
  <2>1. toggles' # 0
    BY <1>1, TunnelTakes
  <2> QED BY <1>0, <2>1
<1>2. \A p \in Proc : ~CallFails(p) /\ ~WriteIngressFails(p)
  <2>1. ASSUME NEW p \in Proc, CallFails(p) PROVE failures' = failures + 1
    BY <2>1 DEF CallFails
  <2>2. ASSUME NEW p \in Proc, WriteIngressFails(p) PROVE failures' = failures + 1
    BY <2>2 DEF WriteIngressFails
  <2> QED BY <1>0, <2>1, <2>2
<1>3. ASSUME NEW p \in Proc,
             BeginCreate(p) \/ BeginUpdate(p) \/ BeginDelete(p) \/ BeginIcon(p)
      PROVE  UNCHANGED <<failures, toggles, tunnelOn>>
  BY <1>3, BeginsIs DEF BeginsStep, BeginStep, cfVars
<1>4. ASSUME NEW p \in Proc,
             \/ CallReturns(p) \/ CallSkipped(p) \/ CallModifies(p)
             \/ ReadIngress(p) \/ WriteIngress(p) \/ IngressRefused(p)
      PROVE  UNCHANGED <<failures, toggles, tunnelOn>>
  BY <1>4 DEF CallReturns, CallSkipped, CallModifies, ReadIngress, WriteIngress,
              IngressRefused, cfVars
<1>5. ASSUME NEW p \in Proc,
             \/ FinishCreate(p) \/ Forget(p) \/ FinishUpdate(p)
             \/ RemoveService(p) \/ FinishDelete(p) \/ FinishIcon(p)
      PROVE  UNCHANGED <<failures, toggles, tunnelOn>>
  BY <1>5, WritesIs DEF WritesStep, WriteStep, cfVars
<1>6. \E p \in Proc :
          \/ BeginCreate(p) \/ BeginUpdate(p) \/ BeginDelete(p) \/ BeginIcon(p)
          \/ CallReturns(p) \/ CallSkipped(p) \/ CallModifies(p)
          \/ ReadIngress(p) \/ WriteIngress(p) \/ IngressRefused(p)
          \/ \/ FinishCreate(p) \/ Forget(p) \/ FinishUpdate(p)
             \/ RemoveService(p) \/ FinishDelete(p) \/ FinishIcon(p)
  BY <1>1, <1>2 DEF HandlersNext, TunnelStep
<1>7. UNCHANGED <<failures, toggles, tunnelOn>>
  BY <1>3, <1>4, <1>5, <1>6
<1> QED BY <1>0, <1>6, <1>7 DEF Undisturbed

\* Every step that is no disturbance stays in step.
LEMMA StepStaysInStep ==
    ASSUME CarefulHandlers, RecordsInv, OneWriter, Undisturbed => InStep, HandlersNext, Undisturbed'
    PROVE  InStep'
<1>1. CarefulHandlers /\ FoundIsOfHost /\ Typed /\ OriginsKept
  BY DEF RecordsInv, CarefulHandlers, TakingTurns, CallerInv
<1>2. /\ Undisturbed
      /\ \E p \in Proc :
            \/ BeginCreate(p) \/ BeginUpdate(p) \/ BeginDelete(p) \/ BeginIcon(p)
            \/ CallReturns(p) \/ CallSkipped(p) \/ CallModifies(p)
            \/ ReadIngress(p) \/ WriteIngress(p) \/ IngressRefused(p)
            \/ \/ FinishCreate(p) \/ Forget(p) \/ FinishUpdate(p)
               \/ RemoveService(p) \/ FinishDelete(p) \/ FinishIcon(p)
  BY <1>1, OnlyTheseDisturb
<1>3. InStep /\ tunnelOn /\ tunnelUp
  BY <1>2 DEF InStep
<1>4. \A p \in Proc : ~CallSkipped(p) /\ ~IngressRefused(p)
  BY <1>3 DEF CallSkipped, IngressRefused
<1> QED BY <1>1, <1>2, <1>3, <1>4, BeginStaysInStep, WriteStaysInStep,
           CallReturnsInStep, CallModifiesInStep, ReadIngressInStep, WriteIngressInStep

\* At the start there is nothing.
LEMMA BeginsInStep == HandlersInit /\ tunnelOn => InStep
<1> SUFFICES ASSUME HandlersInit, tunnelOn PROVE InStep
  OBVIOUS
<1>1. /\ \A p \in Proc : pc[p] = "idle"
      /\ \A id \in Id : idIdx[id] = NoService
      /\ zone = {} /\ \A rule \in Rules : ingress[rule] = 0
      /\ tunnelOn /\ tunnelUp
  BY DEF HandlersInit, Init, NoRules
<1>2. \A id \in Id : HasRecords(id) = {} /\ HasRoutes(id) = {}
  BY <1>1 DEF HasRecords, HasRoutes, Reconciles, Records, Routes
<1>3. ReadIsCurrent /\ AllSettled
  BY <1>1 DEF ReadIsCurrent, AllSettled, LiveIds, Live
<1>4. ZoneInStep
  BY <1>1, <1>2 DEF ZoneInStep
<1> QED BY <1>1, <1>3, <1>4 DEF InStep

\* The invariant of undisturbed users.
LEMMA ZoneInvariant ==
    FreeHostsOnly /\ OneWriter => (HandlersSpec => []ZoneInv)
<1> SUFFICES ASSUME FreeHostsOnly, OneWriter
             PROVE  HandlersSpec => []ZoneInv
  OBVIOUS
<1>1. ZoneInv /\ CarefulHandlers' /\ RecordsInv' /\ [HandlersNext]_handlerVars => ZoneInv'
  <2> SUFFICES ASSUME ZoneInv, CarefulHandlers', RecordsInv', [HandlersNext]_handlerVars
               PROVE  ZoneInv'
    OBVIOUS
  <2>1. CarefulHandlers /\ RecordsInv /\ (Undisturbed => InStep)
    BY DEF ZoneInv
  <2>2. CASE HandlersNext
    BY <2>1, <2>2, StepStaysInStep DEF ZoneInv
  <2>3. CASE UNCHANGED handlerVars
    <3>1. UNCHANGED <<idIdx, zone, ingress, tunnelOn, tunnelUp, manager, toggles, failures, pc, job>>
      BY <2>3 DEF handlerVars, storeVars, cfVars
    <3>2. \A id \in Id : HasRecords(id)' = HasRecords(id) /\ HasRoutes(id)' = HasRoutes(id)
      BY <3>1 DEF HasRecords, HasRoutes, Reconciles
    <3>3. InStep => InStep'
      BY <3>1, <3>2 DEF InStep, ReadIsCurrent, AllSettled, ZoneInStep, LiveIds, Live
    <3> QED BY <2>1, <3>1, <3>3 DEF ZoneInv, Undisturbed
  <2> QED BY <2>2, <2>3
<1>2. HandlersInit => ZoneInv
  BY TurnsInit, FreeSubsInit, RecordsInit, BeginsInStep
     DEF ZoneInv, CarefulHandlers, FreeSubs, Undisturbed
<1>3. HandlersSpec => []RecordsInv
  BY RecordsInvariant
<1>4. HandlersSpec => []CarefulHandlers
  BY CarefulHandlersInvariant
<1> QED BY <1>1, <1>2, <1>3, <1>4, PTL DEF HandlersSpec

\* When no call has failed and the client has had one tunnel, then whenever all requests
\* of careful users have ended the zone and the tunnel hold exactly what the
\* services in the store ask for, however many requests ran at once.
THEOREM ZoneIsTheStore ==
    FreeHostsOnly /\ OneWriter => (HandlersSpec => []ZoneMatchesStore)
<1>1. ZoneInv => ZoneMatchesStore
  <2> SUFFICES ASSUME ZoneInv, Quiet, Undisturbed
               PROVE  /\ zone = {RecordOf(svc) : svc \in With({"A", "tunnel"})}
                      /\ ingress = [rule \in Rules |->
                             IF \E svc \in With({"tunnel"}) : Rule(svc) = rule THEN 1 ELSE 0]
    BY DEF ZoneMatchesStore
  <2>1. Typed /\ ZoneInStep /\ ingress \in [Rules -> Nat]
    BY DEF ZoneInv, InStep, RecordsInv, CarefulHandlers, CallerInv, Typed, CloudTyped
  <2>2. \A p \in Proc : pc[p] = "idle"
    BY <2>1, IdleHasNoJob DEF Quiet
  <2>3. \A id \in Id : HasRecords(id) = Records(idIdx[id]) /\ HasRoutes(id) = Routes(idIdx[id])
    BY <2>2 DEF HasRecords, HasRoutes, Reconciles
  <2>4. /\ \A rec : rec \in zone <=> \E id \in Id : rec \in Records(idIdx[id])
        /\ \A rule \in Rules :
               ingress[rule] = IF \E id \in Id : rule \in Routes(idIdx[id]) THEN 1 ELSE 0
    BY <2>1, <2>3 DEF ZoneInStep
  <2>5. \A svc : /\ svc \in With({"A", "tunnel"}) <=>
                        \E id \in Id : /\ svc = idIdx[id] /\ svc # NoService
                                       /\ mode(svc) # "direct"
                 /\ svc \in With({"tunnel"}) <=>
                        \E id \in Id : /\ svc = idIdx[id] /\ svc # NoService
                                       /\ mode(svc) = "tunnel"
    BY ModeIs DEF With, LiveIds, Live
  <2>6. \A rec : rec \in zone <=> \E svc \in With({"A", "tunnel"}) : rec = RecordOf(svc)
    BY <2>4, <2>5 DEF Records
  <2>7. zone = {RecordOf(svc) : svc \in With({"A", "tunnel"})}
    BY <2>6
  <2>8. \A rule \in Rules :
            ingress[rule] = IF \E svc \in With({"tunnel"}) : Rule(svc) = rule THEN 1 ELSE 0
    BY <2>4, <2>5 DEF Routes
  <2> QED BY <2>1, <2>7, <2>8
<1> SUFFICES ASSUME FreeHostsOnly, OneWriter
             PROVE  HandlersSpec => []ZoneMatchesStore
  OBVIOUS
<1>2. HandlersSpec => []ZoneInv
  BY ZoneInvariant
<1> QED BY <1>1, <1>2, PTL

-----------------------------------------------------------------------------
(***************************************************************************)
(* The records that nobody knows of any more, whichever calls failed, as   *)
(* long as the tunnel stays.  A record is known to the request that still  *)
(* is to delete it or has found its ID, or to its service, if no request   *)
(* reconciles that.                                                        *)
(***************************************************************************)

\* As reconcileDNS leaves a service, calls that failed included.
Consistent(svc) ==
    /\ svc.data.direct => svc.data.dns = NoRec
    /\ svc.data.direct \/ svc.data.dns = NoRec => svc.data.tun = NoHost

\* FindRecord found a record of the hostname.
Replacing == {<<"deleteFound", "createCNAME">>}

\* The old record may still stand.
Holding == Unrouting \cup Deleting

JobKnows(j) ==
    IF j.todo \in Holding THEN {j.drop.dns}
    ELSE IF j.todo = <<>> /\ j.want # NoService THEN {j.want.data.dns}
    ELSE {}

ServiceKnows(svc) == IF svc # NoService THEN {svc.data.dns} ELSE {}

OnPlan(j) ==
    /\ j.todo \in {<<>>} \cup Holding \cup Creating \cup Replacing
    /\ j.want # NoService => Consistent(j.want)
    /\ j.todo \notin {<<>>} \cup Removing => j.want # NoService /\ ~j.want.data.direct
    /\ j.todo = <<"reroute", "deleteRecord", "createCNAME">> =>
           j.want.data.dns = j.drop.dns

AllOnPlan ==
    /\ \A id \in LiveIds : Consistent(idIdx[id])
    /\ \A p \in Proc : pc[p] \in {"calls", "modify", "put"} => OnPlan(job[p])

Accounts(id, rec) ==
    IF \E p \in Proc : Reconciles(p, id)
    THEN \E p \in Proc : Reconciles(p, id) /\ rec.id \in JobKnows(job[p])
    ELSE rec.id \in ServiceKnows(idIdx[id])

Lost == {rec \in zone : \A id \in Id : ~Accounts(id, rec)}

Charged ==
    /\ tunnelOn /\ tunnelUp /\ ReadIsCurrent /\ AllOnPlan
    /\ IsFiniteSet(zone) /\ Cardinality(Lost) <= failures

OneTunnel == toggles = 0 /\ tunnelOn

LeakInv == TakingTurns /\ RecordsInv /\ (OneTunnel => Charged)

\* What of the records a service accounts for, by the request about it.
KnownBefore(p, i) ==
    IF pc[p] \in Active THEN JobKnows(job[p]) ELSE ServiceKnows(idIdx[i])

KnownAfter(k, step, svc) == IF step \in Active THEN JobKnows(k) ELSE ServiceKnows(svc)

\* What a service accounts for now,
LEMMA AccountsIs ==
    ASSUME NEW p \in Proc, NEW i, pc[p] = "idle" \/ job[p].id = i,
           \A q \in Proc \ {p} : pc[q] # "idle" => job[q].id # i, NEW rec
    PROVE  Accounts(i, rec) <=> rec.id \in KnownBefore(p, i)
<1>1. \A q \in Proc : Reconciles(q, i) <=> q = p /\ pc[p] \in Active
  BY DEF Reconciles, Active
<1> QED BY <1>1 DEF Accounts, KnownBefore

\* and after the step,
LEMMA AccountsAfter ==
    ASSUME NEW p \in Proc, NEW k, NEW step, NEW i, StepOf(p, k, step, i), NEW rec
    PROVE  Accounts(i, rec)' <=> rec.id \in KnownAfter(k, step, idIdx'[i])
<1>1. \A q \in Proc : job'[q] = (IF q = p THEN k ELSE job[q])
                      /\ pc'[q] = (IF q = p THEN step ELSE pc[q])
  BY DEF StepOf, Becomes
<1>2. \A q \in Proc : Reconciles(q, i)' <=> q = p /\ step \in Active
  BY <1>1 DEF StepOf, Reconciles, Active
<1>3. Accounts(i, rec)' <=> IF \E q \in Proc : Reconciles(q, i)'
                            THEN \E q \in Proc : Reconciles(q, i)' /\ rec.id \in JobKnows(job'[q])
                            ELSE rec.id \in ServiceKnows(idIdx'[i])
  BY DEF Accounts, JobKnows, ServiceKnows
<1> QED BY <1>1, <1>2, <1>3 DEF KnownAfter

\* which changes nothing of what the others account for.
LEMMA OthersAccount ==
    ASSUME NEW p \in Proc, NEW k, NEW step, NEW i, StepOf(p, k, step, i),
           NEW id \in Id, id # i, NEW rec
    PROVE  Accounts(id, rec)' <=> Accounts(id, rec)
<1>1. \A q \in Proc : job'[q] = (IF q = p THEN k ELSE job[q])
                      /\ pc'[q] = (IF q = p THEN step ELSE pc[q])
  BY DEF StepOf, Becomes
<1>2. \A q \in Proc : Reconciles(q, id)' <=> Reconciles(q, id)
  BY <1>1 DEF StepOf, Reconciles
<1>3. \A q \in Proc : Reconciles(q, id) => job'[q] = job[q]
  BY <1>1 DEF StepOf, Reconciles
<1>4. idIdx'[id] = idIdx[id]
  BY DEF StepOf
<1>5. Accounts(id, rec)' <=> IF \E q \in Proc : Reconciles(q, id)'
                             THEN \E q \in Proc : Reconciles(q, id)' /\ rec.id \in JobKnows(job'[q])
                             ELSE rec.id \in ServiceKnows(idIdx'[id])
  BY DEF Accounts, JobKnows, ServiceKnows
<1> QED BY <1>2, <1>3, <1>4, <1>5 DEF Accounts

\* A step loses no records but those of its service that nobody accounts for after it.
LEMMA LostFollows ==
    ASSUME NEW p \in Proc, NEW k, NEW step, NEW i \in Id, StepOf(p, k, step, i), NEW X,
           \A rec \in zone' : \/ rec \in X
                              \/ rec.id \in KnownAfter(k, step, idIdx'[i])
                              \/ rec \in zone /\ rec.id \notin KnownBefore(p, i)
    PROVE  Lost' \subseteq Lost \cup X
<1> SUFFICES ASSUME NEW rec \in Lost', rec \notin X
             PROVE  rec \in Lost
  OBVIOUS
<1>1. rec \in zone' /\ \A id \in Id : ~Accounts(id, rec)'
  BY DEF Lost
<1>2. rec.id \notin KnownAfter(k, step, idIdx'[i])
  BY <1>1, AccountsAfter
<1>3. rec \in zone /\ rec.id \notin KnownBefore(p, i)
  BY <1>1, <1>2
<1>4. ~Accounts(i, rec)
  BY <1>3, AccountsIs DEF StepOf
<1>5. \A id \in Id : id # i => ~Accounts(id, rec)
  BY <1>1, OthersAccount
<1> QED BY <1>3, <1>4, <1>5 DEF Lost

\* What the object a step leaves in the store, and the record it leaves to the
\* request, must be for the others to rely on, whichever calls fail.
KeepsPlan(k, step, svc) ==
    /\ svc # NoService => Consistent(svc)
    /\ step \in Active => OnPlan(k)
    /\ \/ step \in {"remove", "icon"}
       \/ step \in Active /\ k.svc # NoService /\ k.want # NoService
       => svc = k.svc

\* A step that does so keeps what the requests rely on.
LEMMA StepKeepsPlan ==
    ASSUME Typed, ReadIsCurrent, AllOnPlan, NEW p \in Proc, NEW k, NEW step, NEW i \in Id,
           StepOf(p, k, step, i), KeepsPlan(k, step, idIdx'[i])
    PROVE  ReadIsCurrent' /\ AllOnPlan'
<1>1. \A q \in Proc : job'[q] = (IF q = p THEN k ELSE job[q])
                      /\ pc'[q] = (IF q = p THEN step ELSE pc[q])
  BY DEF StepOf, Becomes
<1>2. \A q \in Proc \ {p} : pc[q] # "idle" => idIdx'[job[q].id] = idIdx[job[q].id]
  BY BusyJob DEF StepOf
<1>3. ReadIsCurrent'
  <2> SUFFICES ASSUME NEW q \in Proc,
                      \/ pc'[q] \in {"remove", "icon"}
                      \/ pc'[q] \in {"calls", "modify", "put"} /\ job'[q].svc # NoService
                         /\ job'[q].want # NoService
               PROVE  idIdx'[job'[q].id] = job'[q].svc
    BY DEF ReadIsCurrent
  <2>1. CASE q = p
    BY <1>1, <2>1 DEF StepOf, KeepsPlan, Active
  <2>2. CASE q # p
    BY <1>1, <1>2, <2>2 DEF ReadIsCurrent
  <2> QED BY <2>1, <2>2
<1>4. \A id \in LiveIds' : Consistent(idIdx'[id])
  BY DEF StepOf, KeepsPlan, AllOnPlan, LiveIds, Live
<1>5. \A q \in Proc : pc'[q] \in {"calls", "modify", "put"} => OnPlan(job'[q])
  BY <1>1 DEF KeepsPlan, Active, AllOnPlan
<1> QED BY <1>3, <1>4, <1>5 DEF AllOnPlan

\* A subset is no larger; with one element more it is at most one larger.
LEMMA OneMore ==
    ASSUME NEW S, NEW T, IsFiniteSet(S), NEW x
    PROVE  /\ Cardinality(S) \in Nat
           /\ T \subseteq S \cup {x} => IsFiniteSet(T) /\ Cardinality(T) \in Nat
           /\ T \subseteq S => Cardinality(T) <= Cardinality(S)
           /\ T \subseteq S \cup {x} => Cardinality(T) <= Cardinality(S) + 1
<1>1. /\ IsFiniteSet(S \cup {x}) /\ Cardinality(S) \in Nat
      /\ Cardinality(S \cup {x}) <= Cardinality(S) + 1 /\ Cardinality(S \cup {x}) \in Nat
  BY FS_AddElement, FS_CardinalityType
<1>2. T \subseteq S => Cardinality(T) <= Cardinality(S)
  BY FS_Subset
<1>3. T \subseteq S \cup {x} => /\ IsFiniteSet(T) /\ Cardinality(T) \in Nat
                                /\ Cardinality(T) <= Cardinality(S \cup {x})
  BY <1>1, FS_Subset, FS_CardinalityType
<1> QED BY <1>1, <1>2, <1>3

\* A step pays for the record it loses.
LEMMA StaysCharged ==
    ASSUME Typed, Charged, NEW p \in Proc, NEW k, NEW step, NEW i \in Id,
           StepOf(p, k, step, i), KeepsPlan(k, step, idIdx'[i]), UNCHANGED <<tunnelOn, tunnelUp>>,
           NEW made, zone' \subseteq zone \cup {made},
           NEW lost, NEW cost \in {0, 1}, failures' = failures + cost,
           \A rec \in zone' : \/ cost = 1 /\ rec = lost
                              \/ rec.id \in KnownAfter(k, step, idIdx'[i])
                              \/ rec \in zone /\ rec.id \notin KnownBefore(p, i)
    PROVE  Charged'
<1>1. /\ tunnelOn /\ ReadIsCurrent /\ AllOnPlan /\ IsFiniteSet(zone)
      /\ Cardinality(Lost) <= failures
  BY DEF Charged
<1>2. ReadIsCurrent' /\ AllOnPlan'
  BY <1>1, StepKeepsPlan
<1>3. IsFiniteSet(zone')
  BY <1>1, OneMore
<1>4. IsFiniteSet(Lost)
  <2>1. Lost \subseteq zone
    BY DEF Lost
  <2> QED BY <1>1, <2>1, FS_Subset
<1>5. failures \in Nat
  BY HandlersAssumption DEF Typed, CloudTyped
<1>6. CASE cost = 0
  <2>1. Lost' \subseteq Lost \cup {}
    BY <1>6, LostFollows
  <2>2. /\ Cardinality(Lost') <= Cardinality(Lost)
        /\ Cardinality(Lost) \in Nat /\ Cardinality(Lost') \in Nat
    BY <1>4, <2>1, OneMore
  <2>3. failures' = failures
    BY <1>5, <1>6
  <2>4. Cardinality(Lost') <= failures'
    BY <1>1, <1>5, <2>2, <2>3
  <2> QED BY <1>1, <1>2, <1>3, <2>4 DEF Charged
<1>7. CASE cost = 1
  <2>1. Lost' \subseteq Lost \cup {lost}
    BY LostFollows
  <2>2. /\ Cardinality(Lost') <= Cardinality(Lost) + 1 /\ failures' = failures + 1
        /\ Cardinality(Lost) \in Nat /\ Cardinality(Lost') \in Nat
    BY <1>4, <1>7, <2>1, OneMore
  <2>3. Cardinality(Lost') <= failures'
    BY <1>1, <1>5, <2>2
  <2> QED BY <1>1, <1>2, <1>3, <2>3 DEF Charged
<1> QED BY <1>6, <1>7

-----------------------------------------------------------------------------
(* Plans, whichever of their calls fail *)

\* Who replaces a record that was found deletes it first.
LEMMA ReplacingSays ==
    ASSUME NEW t \in Replacing
    PROVE  /\ t # <<>> /\ t \notin Holding /\ t \notin Creating /\ t \notin Removing
           /\ t # <<"reroute", "deleteRecord", "createCNAME">>
           /\ Head(t) = "deleteFound" /\ Tail(t) = <<"createCNAME">>
<1>1. t = <<"deleteFound", "createCNAME">>
  BY DEF Replacing
<1> QED BY <1>1 DEF Holding, Unrouting, Deleting, Creating, Removing

\* What the calls left say of the old record.
LEMMA PlanSays ==
    ASSUME NEW t
    PROVE  /\ t = <<>> => t \notin Holding /\ t \notin Creating /\ t \notin Removing
           /\ t \in Creating => t # <<>> /\ t \notin Holding /\ t \notin Removing
           /\ t \in Holding => t # <<>> /\ t \notin Creating
           /\ t \in Removing => t \in Holding
           /\ t \in {<<>>} \cup Creating \cup Removing \/ t \notin Unrouting =>
                  t # <<"reroute", "deleteRecord", "createCNAME">>
<1>1. t = <<>> => t \notin Holding /\ t \notin Creating /\ t \notin Removing
  BY TodoSays DEF Holding
<1>2. t \in Creating => t # <<>> /\ t \notin Holding /\ t \notin Removing
  <2>1. t \in Creating => t \in {<<"createA">>, <<"createCNAME">>, <<"find", "createCNAME">>,
                                 <<"route", "find", "createCNAME">>}
    BY DEF Creating
  <2> QED BY <2>1, TodoSays DEF Holding
<1>3. t \in Holding => t # <<>> /\ t \notin Creating
  BY <1>1, <1>2
<1>4. t \in Removing => t \in Holding
  <2>1. t \in Removing => t \in {<<"deleteRecord">>, <<"unroute", "deleteRecord">>}
    BY DEF Removing
  <2> QED BY <2>1, TodoSays DEF Holding
<1>5. t = <<"reroute", "deleteRecord", "createCNAME">> =>
          t \in Unrouting /\ t # <<>> /\ t \notin Creating /\ t \notin Removing
  BY TodoSays
<1> QED BY <1>1, <1>2, <1>3, <1>4, <1>5

\* A plan goes on with the next call.
LEMMA SkipKnows ==
    ASSUME NEW j, OnPlan(j), j.todo # <<>>, NEW c, c = Head(j.todo),
           c \notin {"createA", "createCNAME"},
           NEW k, k.want = j.want, k.drop = j.drop, k.todo = Tail(j.todo)
    PROVE  /\ OnPlan(k)
           /\ c # "deleteRecord" => JobKnows(k) = JobKnows(j)
           /\ c = "deleteRecord" => JobKnows(j) = {j.drop.dns}
           /\ c \in {"route", "find", "deleteFound"} => JobKnows(j) = {}
           /\ c = "reroute" => JobKnows(j) = {j.want.data.dns} /\ j.want # NoService
           /\ c \in {"unroute", "reroute", "deleteRecord", "find", "route", "deleteFound"}
<1> DEFINE t == j.todo
           r == k.todo
<1>0. /\ t \in Holding \cup Creating \cup Replacing
      /\ j.want # NoService => Consistent(j.want)
      /\ t \notin Removing => j.want # NoService /\ ~j.want.data.direct
  BY DEF OnPlan
<1>1. CASE t \in Replacing
  <2>1. /\ c = "deleteFound" /\ r = <<"createCNAME">> /\ t \notin Holding /\ t # <<>>
        /\ t \notin Removing
    BY <1>1, ReplacingSays
  <2>2. /\ r \in Creating /\ r \notin Holding /\ r # <<>> /\ r \notin Removing
        /\ r # <<"reroute", "deleteRecord", "createCNAME">>
    BY <2>1, PlanSays, TodoSays DEF Holding
  <2>3. JobKnows(j) = {} /\ JobKnows(k) = {}
    BY <2>1, <2>2 DEF JobKnows
  <2>4. OnPlan(k)
    BY <1>0, <2>1, <2>2 DEF OnPlan
  <2> QED BY <2>1, <2>3, <2>4
<1>2. CASE t \in Holding \cup Creating
  <2>0. t \in Unrouting \cup Deleting \cup Creating
    BY <1>2 DEF Holding
  <2>1. c \in {"unroute", "reroute", "deleteRecord", "find", "route"}
    BY <2>0, TodoGoesOn
  <2>2. CASE c \in {"unroute", "reroute"}
    <3>1. /\ t \in Unrouting /\ r # <<>> /\ r \notin Unrouting /\ r \in Deleting
          /\ (t \notin Removing \/ r \in Removing)
          /\ c = "reroute" => t \notin Removing
      BY <2>0, <2>2, TodoGoesOn
    <3>2. /\ r \in Holding /\ t \in Holding
          /\ r # <<"reroute", "deleteRecord", "createCNAME">>
      BY <3>1, PlanSays DEF Holding
    <3>3. JobKnows(k) = {j.drop.dns} /\ JobKnows(j) = {j.drop.dns}
      BY <3>2 DEF JobKnows
    <3>4. OnPlan(k)
      BY <1>0, <3>1, <3>2 DEF OnPlan
    <3>5. c = "reroute" => t = <<"reroute", "deleteRecord", "createCNAME">>
      BY <3>1 DEF Unrouting
    <3>6. c = "reroute" => j.want.data.dns = j.drop.dns /\ j.want # NoService
      BY <1>0, <3>1, <3>5 DEF OnPlan
    <3> QED BY <2>2, <3>3, <3>4, <3>6
  <2>3. CASE c = "deleteRecord"
    <3>1. /\ t \in Deleting /\ r \in {<<>>} \cup Creating /\ (r = <<>> <=> t \in Removing)
          /\ r \notin Unrouting
      BY <2>0, <2>3, TodoGoesOn
    <3>2. JobKnows(j) = {j.drop.dns}
      BY <3>1 DEF JobKnows, Holding
    <3>3. r # <<"reroute", "deleteRecord", "createCNAME">>
      BY <3>1, PlanSays
    <3>4. OnPlan(k)
      BY <1>0, <3>1, <3>3 DEF OnPlan
    <3> QED BY <2>3, <3>2, <3>4
  <2>4. CASE c \in {"find", "route"}
    <3>1. /\ t \notin Unrouting /\ t \notin Deleting /\ t \notin Removing /\ r # <<>>
          /\ r \in Creating /\ r \notin Unrouting /\ r \notin Deleting
      BY <2>0, <2>4, TodoGoesOn
    <3>2. JobKnows(j) = {} /\ JobKnows(k) = {}
      BY <3>1 DEF JobKnows, Holding
    <3>3. r # <<"reroute", "deleteRecord", "createCNAME">>
      BY <3>1, PlanSays
    <3>4. OnPlan(k)
      BY <1>0, <3>1, <3>3 DEF OnPlan
    <3> QED BY <2>4, <3>2, <3>4
  <2> QED BY <2>1, <2>2, <2>3, <2>4
<1> QED BY <1>0, <1>1, <1>2

\* A plan that ends with a call that fails keeps the IDs it was set up with.
LEMMA StopKnows ==
    ASSUME NEW j, OnPlan(j), j.todo # <<>>,
           Head(j.todo) \in {"createA", "createCNAME", "route", "reroute"},
           NEW k, k.want = j.want, k.drop = j.drop, k.todo = <<>>
    PROVE  /\ OnPlan(k) /\ j.want # NoService /\ ~j.want.data.direct
           /\ JobKnows(j) \subseteq JobKnows(k)
           /\ Head(j.todo) \in {"createA", "createCNAME"} => JobKnows(j) = {}
<1>1. OnPlan(k)
  BY PlanSays DEF OnPlan
<1>2. JobKnows(k) = IF j.want # NoService THEN {j.want.data.dns} ELSE {}
  BY PlanSays DEF JobKnows
<1>3. j.todo \notin Replacing
  BY ReplacingSays
<1>4. CASE Head(j.todo) \in {"createA", "createCNAME"}
  <2>1. j.todo \in Unrouting \cup Deleting \cup Creating
    BY <1>3 DEF OnPlan, Holding
  <2>2. j.todo \notin Unrouting /\ j.todo \notin Deleting /\ j.todo \notin Removing
    BY <1>4, <2>1, TodoGoesOn
  <2> QED BY <1>1, <2>2 DEF OnPlan, JobKnows, Holding
<1>5. CASE Head(j.todo) \in {"route", "reroute"}
  <2>0. j.todo \in Unrouting \cup Deleting \cup Creating
    BY <1>3 DEF OnPlan, Holding
  <2>1. j.todo \notin Removing
    BY <1>5, <2>0, TodoGoesOn
  <2>2. PICK c : c = Head(j.todo)
    OBVIOUS
  <2>3. PICK r : r.want = j.want /\ r.drop = j.drop /\ r.todo = Tail(j.todo)
    <3>1. PICK want, drop, todo : want = j.want /\ drop = j.drop /\ todo = Tail(j.todo)
      OBVIOUS
    <3>2. PICK r : r = [want |-> want, drop |-> drop, todo |-> todo]
      OBVIOUS
    <3>3. r.want = want /\ r.drop = drop /\ r.todo = todo
      BY <3>2
    <3> QED BY <3>1, <3>3
  <2>4. /\ c \in {"route"} => JobKnows(j) = {}
        /\ c = "reroute" => JobKnows(j) = {j.want.data.dns} /\ j.want # NoService
    BY <1>5, <2>2, <2>3, SkipKnows
  <2>5. j.want # NoService /\ ~j.want.data.direct
    BY <2>1 DEF OnPlan
  <2> QED BY <1>1, <1>2, <1>5, <2>2, <2>4, <2>5
<1> QED BY <1>4, <1>5

\* RemoveTunnelRoute that fails leaves the record.
LEMMA LeaveKnows ==
    ASSUME NEW j \in Jobs, OnPlan(j), j.todo # <<>>, Head(j.todo) = "unroute",
           NEW k, k = SkipDeletion(j)
    PROVE  OnPlan(k) /\ JobKnows(j) = {j.drop.dns}
<1>1. j.todo \notin Replacing
  BY ReplacingSays
<1>2. j.todo \in Unrouting \cup Deleting \cup Creating
  BY <1>1 DEF OnPlan, Holding
<1>3. j.todo \in Unrouting
  BY <1>2, TodoGoesOn
<1>4. j.todo \in {<<"unroute", "deleteRecord">>, <<"unroute", "deleteRecord", "createA">>}
  BY <1>3 DEF Unrouting
<1>5. k.want = j.want /\ k.todo = IF j.todo = <<"unroute", "deleteRecord">> THEN <<>> ELSE <<"createA">>
  <2>1. PICK left : left = IF Tail(j.todo) # <<>> /\ Head(Tail(j.todo)) = "deleteRecord"
                           THEN Tail(Tail(j.todo)) ELSE Tail(j.todo)
    OBVIOUS
  <2>2. left = IF j.todo = <<"unroute", "deleteRecord">> THEN <<>> ELSE <<"createA">>
    <3>1. CASE j.todo = <<"unroute", "deleteRecord">>
      <4>1. PICK rest : rest = Tail(j.todo)
        OBVIOUS
      <4>2. rest = <<"deleteRecord">>
        BY <3>1, <4>1
      <4>3. Head(rest) = "deleteRecord" /\ rest # <<>> /\ Tail(rest) = <<>>
        BY <4>2
      <4> QED BY <2>1, <3>1, <4>1, <4>3
    <3>2. CASE j.todo = <<"unroute", "deleteRecord", "createA">>
      <4>1. PICK rest : rest = Tail(j.todo)
        OBVIOUS
      <4>2. rest = <<"deleteRecord", "createA">>
        BY <3>2, <4>1
      <4>3. Head(rest) = "deleteRecord" /\ rest # <<>> /\ Tail(rest) = <<"createA">>
        BY <4>2
      <4>4. j.todo # <<"unroute", "deleteRecord">>
        BY <3>2
      <4> QED BY <2>1, <4>1, <4>3, <4>4
    <3> QED BY <1>4, <3>1, <3>2
  <2>3. k = [j EXCEPT !.todo = left, !.rules = NoRules]
    BY <2>1 DEF SkipDeletion
  <2> QED BY <2>2, <2>3 DEF Jobs
<1>6. JobKnows(j) = {j.drop.dns}
  BY <1>3 DEF JobKnows, Holding
<1>7. CASE j.todo = <<"unroute", "deleteRecord">>
  <2>1. k.todo = <<>> /\ k.todo # <<"reroute", "deleteRecord", "createCNAME">>
    BY <1>5, <1>7
  <2> QED BY <1>5, <1>6, <2>1 DEF OnPlan
<1>8. CASE j.todo = <<"unroute", "deleteRecord", "createA">>
  <2>1. k.todo = <<"createA">>
    BY <1>5, <1>8
  <2>2. k.todo \in Creating /\ k.todo # <<"reroute", "deleteRecord", "createCNAME">>
    BY <2>1, PlanSays, TodoSays
  <2>3. j.todo \notin {<<>>} \cup Removing
    BY <1>8, TodoSays
  <2> QED BY <1>5, <1>6, <2>2, <2>3 DEF OnPlan
<1> QED BY <1>4, <1>6, <1>7, <1>8

\* A plan that ends with a new record knows that record.
LEMMA ReturnKnows ==
    ASSUME NEW j, OnPlan(j), j.todo # <<>>, NEW c \in {"createA", "createCNAME"},
           c = Head(j.todo), NEW rec \in RecId,
           NEW k, k.todo = <<>>, k.want # NoService,
           k.want.data.direct = j.want.data.direct, k.want.data.dns = rec
    PROVE  OnPlan(k) /\ JobKnows(j) = {} /\ JobKnows(k) = {rec}
<1>1. PICK s : s.want = j.want /\ s.drop = j.drop /\ s.todo = <<>>
  <2>1. \E s : s = [want |-> j.want, drop |-> j.drop, todo |-> <<>>]
    OBVIOUS
  <2> QED BY <2>1
<1>2. JobKnows(j) = {} /\ ~j.want.data.direct
  BY <1>1, StopKnows
<1>3. rec # NoRec
  BY HandlersAssumption
<1>4. Consistent(k.want)
  BY <1>2, <1>3 DEF Consistent
<1>5. OnPlan(k)
  BY <1>4, PlanSays DEF OnPlan
<1>6. JobKnows(k) = {rec}
  BY PlanSays DEF JobKnows
<1> QED BY <1>2, <1>5, <1>6

\* With nothing to delete the new record is made at once.
LEMMA EmptyDeletes ==
    ASSUME NEW data, data.dns = NoRec
    PROVE  /\ Calls("swapA", data, TRUE) = <<"createA">>
           /\ Calls("aToTunnel", data, TRUE) = <<"route", "find", "createCNAME">>
<1>1. deleteOld(data) = <<>>
  BY DEF deleteOld
<1>2. /\ Calls("swapA", data, TRUE) = <<>> \o <<"createA">>
      /\ Calls("aToTunnel", data, TRUE) = <<>> \o <<"route", "find", "createCNAME">>
  BY <1>1 DEF Calls, addRoute
<1>3. <<>> \o <<"createA">> = <<"createA">>
  <2>1. <<"createA">> \in Seq({"createA"})
    OBVIOUS
  <2> QED BY <2>1, ConcatEmptySeq
<1>4. <<>> \o <<"route", "find", "createCNAME">> = <<"route", "find", "createCNAME">>
  <2>1. <<"route", "find", "createCNAME">> \in Seq({"route", "find", "createCNAME"})
    OBVIOUS
  <2> QED BY <2>1, ConcatEmptySeq
<1> QED BY <1>2, <1>3, <1>4

-----------------------------------------------------------------------------
(* Requests begin and end with the record of their service *)

\* updateService is to delete the old record, or keeps it.
LEMMA UpdateOnPlan ==
    ASSUME NEW svc, Consistent(svc), NEW k, k.svc = svc, NEW m, NEW plan,
           UpdateStarts(k, m, plan)
    PROVE  OnPlan(k) /\ (svc.data.dns # NoRec => svc.data.dns \in JobKnows(k))
<1> DEFINE old == k.drop
<1>1. /\ plan = PlanTo(svc, m, k.want.sub, k.want.data.tgt) /\ m \in AllModes
      /\ old.dns = svc.data.dns /\ old.tun = svc.data.tun
      /\ k.todo = Calls(plan, old, TRUE)
      /\ k.want # NoService /\ k.want.data.direct = (m = "direct")
      /\ k.want.data.dns = IF KeepsIds(plan, TRUE) THEN svc.data.dns ELSE NoRec
      /\ k.want.data.tun = IF KeepsIds(plan, TRUE) THEN svc.data.tun ELSE NoHost
  BY DEF UpdateStarts, DnsFields
<1>2. /\ mode(svc) = "direct" => svc.data.dns = NoRec /\ svc.data.tun = NoHost
      /\ mode(svc) = "A" => svc.data.tun = NoHost
      /\ mode(svc) = "tunnel" => svc.data.tun # NoHost /\ svc.data.dns # NoRec
      /\ mode(svc) = "direct" <=> svc.data.direct
      /\ mode(svc) \in AllModes
  BY ModeIs DEF Consistent, AllModes
<1>3. plan \in Plans
  BY <1>1, <1>2 DEF PlanTo, planDNS, Plans, AllModes
<1>4. Consistent(k.want)
  <2>1. CASE plan = "noop"
    <3>1. mode(svc) = m
      BY <1>1, <1>2, <2>1 DEF PlanTo, planDNS, AllModes
    <3> QED BY <1>1, <1>2, <2>1, <3>1 DEF Consistent, KeepsIds
  <2>2. CASE plan = "replaceTunnel"
    <3>1. mode(svc) = "tunnel" /\ m = "tunnel"
      BY <1>1, <2>2 DEF PlanTo, planDNS
    <3> QED BY <1>1, <1>2, <2>2, <3>1 DEF Consistent, KeepsIds
  <2>3. CASE plan \notin {"noop", "replaceTunnel"}
    BY <1>1, <2>3 DEF Consistent, KeepsIds
  <2> QED BY <2>1, <2>2, <2>3
<1>a. ASSUME k.todo = <<>>
      PROVE  OnPlan(k) /\ JobKnows(k) = {k.want.data.dns}
  <2>1. k.todo \notin Holding /\ k.todo # <<"reroute", "deleteRecord", "createCNAME">>
    BY <1>a, PlanSays
  <2> QED BY <1>1, <1>4, <1>a, <2>1 DEF OnPlan, JobKnows
<1>b. ASSUME k.todo \in Creating, m # "direct"
      PROVE  OnPlan(k)
  <2>1. k.todo # <<"reroute", "deleteRecord", "createCNAME">>
    BY <1>b, PlanSays
  <2> QED BY <1>1, <1>4, <1>b, <2>1 DEF OnPlan
<1>c. ASSUME k.todo \in Holding, k.todo \in Removing \/ m # "direct",
             k.todo = <<"reroute", "deleteRecord", "createCNAME">> => plan = "replaceTunnel"
      PROVE  OnPlan(k) /\ JobKnows(k) = {svc.data.dns}
  <2>1. plan = "replaceTunnel" => k.want.data.dns = old.dns
    BY <1>1 DEF KeepsIds
  <2>2. OnPlan(k)
    BY <1>1, <1>4, <1>c, <2>1 DEF OnPlan
  <2> QED BY <1>1, <1>c, <2>2 DEF JobKnows
<1>5. CASE plan = "noop"
  <2>1. k.todo = <<>> /\ k.want.data.dns = svc.data.dns
    BY <1>1, <1>5, CallsAre DEF KeepsIds
  <2> QED BY <1>a, <2>1
<1>6. CASE plan \in {"createA", "createTunnel"}
  <2>1. mode(svc) = "direct" /\ m # "direct"
    BY <1>1, <1>6 DEF PlanTo, planDNS
  <2>2. k.todo \in {<<"createA">>, <<"route", "find", "createCNAME">>}
    BY <1>1, <1>6, CallsAre
  <2>3. k.todo \in Creating
    BY <2>2, TodoSays
  <2> QED BY <1>2, <1>b, <2>1, <2>3
<1>7. CASE plan \in {"aToTunnel", "swapA"}
  <2>1. m # "direct"
    BY <1>1, <1>7 DEF PlanTo, planDNS
  <2>2. CASE svc.data.dns = NoRec
    <3>1. k.todo \in {<<"route", "find", "createCNAME">>, <<"createA">>}
      BY <1>1, <1>7, <2>2, EmptyDeletes
    <3>2. k.todo \in Creating
      BY <3>1, TodoSays
    <3> QED BY <1>b, <2>1, <2>2, <3>2
  <2>3. CASE svc.data.dns # NoRec
    <3>1. k.todo \in {<<"deleteRecord", "route", "find", "createCNAME">>,
                      <<"deleteRecord", "createA">>}
      BY <1>1, <1>7, <2>3, CallsAre
    <3>2. k.todo \in Holding /\ k.todo \notin Unrouting
      BY <3>1, TodoSays DEF Holding
    <3>3. k.todo # <<"reroute", "deleteRecord", "createCNAME">>
      BY <3>2, PlanSays
    <3> QED BY <1>c, <2>1, <3>2, <3>3
  <2> QED BY <2>2, <2>3
<1>8. CASE plan \in {"tunnelToA", "replaceTunnel"}
  <2>1. mode(svc) = "tunnel" /\ m # "direct"
    BY <1>1, <1>8 DEF PlanTo, planDNS
  <2>2. /\ plan = "tunnelToA" => k.todo = <<"unroute", "deleteRecord", "createA">>
        /\ plan = "replaceTunnel" => k.todo = <<"reroute", "deleteRecord", "createCNAME">>
    BY <1>1, <1>2, <2>1, CallsAre
  <2>3. k.todo \in Holding
    BY <1>8, <2>2, TodoSays DEF Holding
  <2>4. k.todo = <<"reroute", "deleteRecord", "createCNAME">> => plan = "replaceTunnel"
    BY <1>8, <2>2
  <2> QED BY <1>c, <2>1, <2>3, <2>4
<1>9. CASE plan = "deleteAll"
  <2>1. CASE svc.data.dns = NoRec
    <3>1. svc.data.tun = NoHost
      BY <2>1 DEF Consistent
    <3>2. PICK data : data = old
      OBVIOUS
    <3>3. data.dns = NoRec /\ data.tun = NoHost /\ k.todo = Calls("deleteAll", data, TRUE)
      BY <1>1, <1>9, <2>1, <3>1, <3>2
    <3>4. k.todo = <<>>
      BY <3>3, CallsAre
    <3> QED BY <1>a, <2>1, <3>4
  <2>2. CASE svc.data.dns # NoRec
    <3>1. PICK data : data = old
      OBVIOUS
    <3>2. data.dns # NoRec /\ k.todo = Calls("deleteAll", data, TRUE)
      BY <1>1, <1>9, <2>2, <3>1
    <3>3. k.todo \in {<<"deleteRecord">>, <<"unroute", "deleteRecord">>}
      BY <3>2, CallsAre
    <3>4. k.todo \in Holding /\ k.todo \in Removing
      BY <3>3, TodoSays DEF Holding
    <3>5. k.todo # <<"reroute", "deleteRecord", "createCNAME">>
      BY <3>4, PlanSays
    <3> QED BY <1>c, <3>4, <3>5
  <2> QED BY <2>1, <2>2
<1> QED BY <1>3, <1>5, <1>6, <1>7, <1>8, <1>9 DEF Plans

\* createService has nothing to delete.
LEMMA CreateOnPlan ==
    ASSUME NEW k, NEW m, NEW plan, CreateStarts(k, m, plan)
    PROVE  OnPlan(k)
<1>1. /\ plan = planDNS("direct", m, TRUE, TRUE) /\ m \in AllModes
      /\ k.todo = Calls(plan, Nothing, TRUE)
      /\ k.want # NoService /\ k.want.data.direct = (m = "direct")
  BY DEF CreateStarts
<1>2. Consistent(k.want)
  BY DEF CreateStarts, Consistent
<1>3. CASE m = "direct"
  <2>1. plan = "noop"
    BY <1>1, <1>3 DEF planDNS
  <2>2. k.todo = <<>> /\ k.todo # <<"reroute", "deleteRecord", "createCNAME">>
    BY <1>1, <2>1, CallsAre, PlanSays
  <2> QED BY <1>1, <1>2, <2>2 DEF OnPlan
<1>4. CASE m # "direct"
  <2>1. plan \in {"createA", "createTunnel"}
    BY <1>1, <1>4 DEF planDNS, AllModes
  <2>2. k.todo \in {<<"createA">>, <<"route", "find", "createCNAME">>}
    BY <1>1, <2>1, CallsAre
  <2>3. k.todo \in Creating
    BY <2>2, TodoSays
  <2>4. k.todo # <<"reroute", "deleteRecord", "createCNAME">>
    BY <2>3, PlanSays
  <2> QED BY <1>1, <1>2, <1>4, <2>3, <2>4 DEF OnPlan
<1> QED BY <1>3, <1>4

\* deleteService is to delete the record it has.
LEMMA DeleteOnPlan ==
    ASSUME NEW svc, Consistent(svc), NEW k, k.want = NoService,
           k.drop = DnsFields(svc), k.todo = Calls("deleteAll", DnsFields(svc), TRUE)
    PROVE  OnPlan(k) /\ (svc.data.dns # NoRec => svc.data.dns \in JobKnows(k))
<1>1. PICK data : data = DnsFields(svc)
  OBVIOUS
<1>2. /\ data.dns = svc.data.dns /\ data.tun = svc.data.tun
      /\ k.drop = data /\ k.todo = Calls("deleteAll", data, TRUE)
  BY <1>1 DEF DnsFields
<1>3. CASE svc.data.dns = NoRec
  <2>0. k.todo = <<>>
    BY <1>2, <1>3, CallsAre DEF Consistent
  <2>1. k.todo = <<>> /\ k.todo # <<"reroute", "deleteRecord", "createCNAME">>
    BY <2>0, PlanSays
  <2> QED BY <1>3, <2>1 DEF OnPlan
<1>4. CASE svc.data.dns # NoRec
  <2>1. k.todo \in {<<"deleteRecord">>, <<"unroute", "deleteRecord">>}
    BY <1>2, <1>4, CallsAre
  <2>2. k.todo \in Holding /\ k.todo \in Removing
    BY <2>1, TodoSays DEF Holding
  <2>3. k.todo # <<"reroute", "deleteRecord", "createCNAME">>
    BY <2>2, PlanSays
  <2> QED BY <1>2, <2>2, <2>3 DEF OnPlan, JobKnows
<1> QED BY <1>3, <1>4

\* A step at which no call fails and nothing changes at Cloudflare.
LEMMA QuietStep ==
    ASSUME Typed, Charged, NEW p \in Proc, NEW k, NEW step, NEW i \in Id,
           StepOf(p, k, step, i), KeepsPlan(k, step, idIdx'[i]),
           UNCHANGED <<zone, tunnelOn, tunnelUp, failures>>,
           KnownBefore(p, i) \subseteq KnownAfter(k, step, idIdx'[i]) \cup {NoRec}
    PROVE  Charged'
<1>1. PICK made, lost, cost : cost = 0 /\ made = NoRec /\ lost = NoRec
  OBVIOUS
<1>2. failures \in Nat /\ zone \subseteq Record
  BY HandlersAssumption DEF Typed, CloudTyped
<1>3. cost \in {0, 1} /\ failures' = failures + cost /\ zone' \subseteq zone \cup {made}
  BY <1>1, <1>2
<1>4. \A rec \in zone' : rec.id # NoRec
  BY <1>2, HandlersAssumption DEF Record
<1>5. \A rec \in zone' : \/ rec.id \in KnownAfter(k, step, idIdx'[i])
                         \/ rec \in zone /\ rec.id \notin KnownBefore(p, i)
  BY <1>4
<1> QED BY <1>3, <1>5, StaysCharged

\* Requests begin with a plan.
LEMMA BeginStaysCharged ==
    ASSUME TakingTurns, OneWriter, Charged, NEW p \in Proc,
           BeginCreate(p) \/ BeginUpdate(p) \/ BeginDelete(p) \/ BeginIcon(p)
    PROVE  Charged'
<1>0. Typed /\ AllOnPlan /\ tunnelOn
  BY DEF TakingTurns, CallerInv, Charged
<1>a. ASSUME NEW k, NEW step, BeginStep(p, k, step), k.id \notin usedIds \/ Alone(k.id),
             KeepsPlan(k, step, idIdx[k.id]),
             ServiceKnows(idIdx[k.id]) \subseteq KnownAfter(k, step, idIdx[k.id]) \cup {NoRec}
      PROVE  Charged'
  <2>1. /\ StepOf(p, k, step, k.id) /\ k.id \in Id /\ pc[p] = "idle" /\ idIdx' = idIdx
        /\ UNCHANGED <<zone, ingress, tunnelOn, tunnelUp>>
    BY <1>a, BeginIsStepOf
  <2>2. UNCHANGED failures
    BY <1>a DEF BeginStep
  <2>3. KnownBefore(p, k.id) = ServiceKnows(idIdx[k.id])
    BY <2>1 DEF KnownBefore, Active
  <2> QED BY <1>0, <1>a, <2>1, <2>2, <2>3, QuietStep
<1>1. CASE BeginCreate(p)
  <2>1. PICK k : BeginStep(p, k, "calls") /\ k.id \notin usedIds /\ k.svc = NoService
    BY <1>0, <1>1, BeginCreateTakes
  <2>2. k = job'[p]
    BY <2>1 DEF BeginStep, Becomes
  <2>3. PICK m, plan : CreateStarts(k, m, plan)
    BY <1>0, <1>1, <2>2, CreateStartsAs
  <2>4. OnPlan(k)
    BY <2>3, CreateOnPlan
  <2>5. idIdx[k.id] = NoService
    BY <1>0, <2>1 DEF Typed, StoreTyped, LiveIds, Live, BeginStep
  <2>6. KeepsPlan(k, "calls", idIdx[k.id]) /\ ServiceKnows(idIdx[k.id]) = {}
    BY <2>1, <2>4, <2>5 DEF KeepsPlan, ServiceKnows
  <2> QED BY <1>a, <2>1, <2>6
<1>2. CASE BeginUpdate(p)
  <2>1. PICK k : BeginStep(p, k, "calls") /\ Alone(k.id) /\ Live(k.id) /\ k.svc = idIdx[k.id]
    BY <1>0, <1>2, BeginUpdateTakes
  <2>2. k = job'[p] /\ k.id \in Id
    BY <2>1 DEF BeginStep, Becomes
  <2>3. PICK svc : svc = k.svc
    OBVIOUS
  <2>4. PICK m, plan : UpdateStarts(k, m, plan)
    BY <1>0, <1>2, <2>2, UpdateStartsAs
  <2>5. Consistent(svc)
    BY <1>0, <2>1, <2>2, <2>3 DEF AllOnPlan, LiveIds
  <2>6. OnPlan(k) /\ (svc.data.dns # NoRec => svc.data.dns \in JobKnows(k))
    BY <2>3, <2>4, <2>5, UpdateOnPlan
  <2>7. KeepsPlan(k, "calls", idIdx[k.id])
    BY <2>1, <2>3, <2>5, <2>6 DEF KeepsPlan
  <2>8. ServiceKnows(idIdx[k.id]) \subseteq KnownAfter(k, "calls", idIdx[k.id]) \cup {NoRec}
    BY <2>1, <2>3, <2>6 DEF ServiceKnows, KnownAfter, Active
  <2> QED BY <1>a, <2>1, <2>7, <2>8
<1>3. CASE BeginDelete(p) \/ BeginIcon(p)
  <2>1. PICK k, step : /\ BeginStep(p, k, step) /\ step \in {"remove", "icon"}
                       /\ Alone(k.id) /\ Live(k.id) /\ k.svc = idIdx[k.id]
    BY <1>0, <1>3, BeginReadTakes
  <2>2. Consistent(idIdx[k.id])
    BY <1>0, <2>1 DEF AllOnPlan, LiveIds, BeginStep
  <2>3. KeepsPlan(k, step, idIdx[k.id])
    BY <2>1, <2>2 DEF KeepsPlan, Active
  <2>4. ServiceKnows(idIdx[k.id]) \subseteq KnownAfter(k, step, idIdx[k.id]) \cup {NoRec}
    BY <2>1 DEF KnownAfter, Active
  <2> QED BY <1>a, <2>1, <2>3, <2>4
<1> QED BY <1>1, <1>2, <1>3

\* Requests end with their service accounting for what they accounted for.
LEMMA WriteStaysCharged ==
    ASSUME TakingTurns, Charged, NEW p \in Proc,
           \/ FinishCreate(p) \/ Forget(p) \/ FinishUpdate(p)
           \/ RemoveService(p) \/ FinishDelete(p) \/ FinishIcon(p)
    PROVE  Charged'
<1> DEFINE i == job[p].id
<1>0. /\ Typed /\ OriginsKept /\ AllOnPlan /\ tunnelOn /\ ReadIsCurrent
      /\ DeletedIsGone /\ idIdx \in [Id -> Service \cup {NoService}]
  BY DEF TakingTurns, CallerInv, Charged, Typed, CloudTyped, StoreTyped, TypeOK
<1>z. ASSUME NEW k, NEW step, WriteStep(p, k, step), KeepsPlan(k, step, idIdx'[i]),
             KnownBefore(p, i) \subseteq KnownAfter(k, step, idIdx'[i]) \cup {NoRec}
      PROVE  Charged'
  <2>1. /\ StepOf(p, k, step, i) /\ i \in Id /\ UNCHANGED <<zone, ingress, tunnelOn, tunnelUp>>
    BY <1>z, WriteIsStepOf
  <2>2. UNCHANGED failures
    BY <1>z DEF WriteStep
  <2> QED BY <1>0, <1>z, <2>1, <2>2, QuietStep
<1>a. ASSUME NEW k, NEW step, WriteStep(p, k, step), step # "calls", Done(p, "calls"),
             idIdx'[i] = job[p].want
      PROVE  Charged'
  <2>1. step \in {"idle", "forget"} /\ pc[p] = "calls" /\ job[p].todo = <<>>
    BY <1>a DEF WriteStep, Done
  <2>2. job[p].want # NoService => Consistent(job[p].want)
    BY <1>0, <2>1 DEF AllOnPlan, OnPlan
  <2>3. KeepsPlan(k, step, idIdx'[i])
    BY <1>a, <2>1, <2>2 DEF KeepsPlan, Active
  <2>4. JobKnows(job[p]) = ServiceKnows(job[p].want)
    BY <2>1, PlanSays DEF JobKnows, ServiceKnows
  <2>5. KnownBefore(p, i) = KnownAfter(k, step, idIdx'[i])
    BY <1>a, <2>1, <2>4 DEF KnownBefore, KnownAfter, Active
  <2> QED BY <1>a, <1>z, <2>3, <2>5
<1>b. ASSUME pc[p] \in {"forget", "icon"}, WriteStep(p, NoJob, "idle"), idIdx'[i] = idIdx[i]
      PROVE  Charged'
  <2>1. i \in Id
    BY <1>0, <1>b, BusyJob
  <2>2. KeepsPlan(NoJob, "idle", idIdx'[i])
    BY <1>0, <1>b, <2>1 DEF KeepsPlan, AllOnPlan, LiveIds, Live, Active
  <2>3. KnownBefore(p, i) = KnownAfter(NoJob, "idle", idIdx'[i])
    BY <1>b DEF KnownBefore, KnownAfter, Active
  <2> QED BY <1>b, <1>z, <2>2, <2>3
<1>1. CASE FinishCreate(p)
  <2>1. PICK k, step : WriteStep(p, k, step) /\ step # "calls"
    BY <1>0, <1>1, FinishCreateTakes
  <2>2. Done(p, "calls") /\ AddService(i, job[p].want) /\ i \in Id
    BY <1>0, <1>1, BusyJob DEF FinishCreate, Done
  <2>3. idIdx'[i] = job[p].want
    BY <1>0, <2>2 DEF AddService, Put
  <2> QED BY <1>a, <2>1, <2>2, <2>3
<1>2. CASE FinishUpdate(p)
  <2>1. WriteStep(p, NoJob, "idle")
    BY <1>0, <1>2, FinishUpdateTakes
  <2>2. /\ Done(p, "calls") /\ UpdateService(i, job[p].want) /\ i \in Id
        /\ job[p].svc # NoService /\ job[p].want # NoService /\ pc[p] = "calls"
    BY <1>0, <1>2, BusyJob DEF FinishUpdate, Done
  <2>3. idIdx[i] = job[p].svc
    BY <1>0, <2>2 DEF ReadIsCurrent
  <2>4. idIdx'[i] = job[p].want
    BY <1>0, <2>2, <2>3 DEF UpdateService, Put, Live
  <2> QED BY <1>a, <2>1, <2>2, <2>4
<1>3. CASE FinishIcon(p)
  <2>1. WriteStep(p, NoJob, "idle") /\ pc[p] = "icon"
    BY <1>0, <1>3, FinishUpdateTakes DEF FinishIcon
  <2>2. UpdateService(i, job[p].svc) /\ i \in Id
    BY <1>0, <1>3, <2>1, BusyJob DEF FinishIcon
  <2>3. idIdx[i] = job[p].svc
    BY <1>0, <2>1 DEF ReadIsCurrent
  <2>4. idIdx'[i] = idIdx[i]
    BY <1>0, <2>2, <2>3 DEF UpdateService, Put, storeVars
  <2> QED BY <1>b, <2>1, <2>4
<1>4. CASE Forget(p)
  <2>1. WriteStep(p, NoJob, "idle") /\ pc[p] = "forget" /\ idIdx' = idIdx
    BY <1>0, <1>4, ForgetTakes DEF Forget, storeVars
  <2> QED BY <1>b, <2>1
<1>5. CASE FinishDelete(p)
  <2>1. /\ WriteStep(p, NoJob, "idle") /\ Done(p, "calls") /\ job[p].want = NoService
        /\ pc[p] = "calls" /\ idIdx' = idIdx
    BY <1>0, <1>5, FinishDeleteTakes DEF FinishDelete, storeVars
  <2>2. idIdx[i] = NoService
    BY <1>0, <2>1 DEF DeletedIsGone, Live
  <2> QED BY <1>a, <2>1, <2>2
<1>6. CASE RemoveService(p)
  <2>1. PICK k : WriteStep(p, k, "calls")
    BY <1>0, <1>6, RemoveServiceTakes
  <2>2. job[p].want = NoService /\ idIdx'[i] = NoService /\ pc[p] = "remove"
    BY <1>0, <1>6, RemoveServiceTakes DEF RemoveService
  <2>3. JobTyped(job[p], "remove") /\ i \in Id
    BY <1>0, <2>2, BusyJob
  <2>4. PICK svc : svc = idIdx[i]
    OBVIOUS
  <2>5. svc = job[p].svc /\ svc # NoService /\ Consistent(svc)
    <3>1. svc = job[p].svc
      BY <1>0, <2>2, <2>4 DEF ReadIsCurrent
    <3>2. svc # NoService
      BY <2>2, <2>3, <3>1 DEF JobTyped
    <3> QED BY <1>0, <2>3, <2>4, <3>1, <3>2 DEF AllOnPlan, LiveIds, Live
  <2>6. k = job'[p] /\ Live(i) /\ k.want = NoService
    BY <2>1, <2>2, <2>4, <2>5 DEF WriteStep, Becomes, Live
  <2>7. k.drop = DnsFields(svc) /\ k.todo = Calls("deleteAll", DnsFields(svc), TRUE)
    BY <1>0, <1>6, <2>4, <2>6, RemoveStartsAs
  <2>8. OnPlan(k) /\ (svc.data.dns # NoRec => svc.data.dns \in JobKnows(k))
    BY <2>5, <2>6, <2>7, DeleteOnPlan
  <2>9. KeepsPlan(k, "calls", idIdx'[i])
    BY <2>2, <2>6, <2>8 DEF KeepsPlan
  <2>10. KnownBefore(p, i) \subseteq KnownAfter(k, "calls", idIdx'[i]) \cup {NoRec}
    BY <2>2, <2>4, <2>5, <2>8 DEF KnownBefore, KnownAfter, ServiceKnows, Active
  <2> QED BY <1>z, <2>1, <2>9, <2>10
<1> QED BY <1>1, <1>2, <1>3, <1>4, <1>5, <1>6

-----------------------------------------------------------------------------
(* A call loses at most one record, and only if it fails *)

\* A call is about its request's service.
LEMMA CallStaysCharged ==
    ASSUME TakingTurns, Charged, NEW p \in Proc, NEW k, NEW step, CallStep(p, k, step),
           OnPlan(k), UNCHANGED <<tunnelOn, tunnelUp>>,
           NEW made, zone' \subseteq zone \cup {made},
           NEW lost, NEW cost \in {0, 1}, failures' = failures + cost,
           \A rec \in zone' : \/ cost = 1 /\ rec = lost
                              \/ rec.id \in JobKnows(k)
                              \/ rec \in zone /\ rec.id \notin JobKnows(job[p])
    PROVE  Charged'
<1> USE DEF TakingTurns, CallerInv
<1>0. PICK i : i = job[p].id
  OBVIOUS
<1>1. /\ pc[p] \in {"calls", "modify", "put"} /\ step \in {"calls", "modify", "put"} /\ Becomes(p, k, step)
      /\ k.id = i /\ k.svc = job[p].svc /\ idIdx' = idIdx
      /\ (k.want = NoService <=> job[p].want = NoService)
  BY <1>0 DEF CallStep, Advances, storeVars
<1>2. Busy(p) /\ i \in Id
  BY <1>0, <1>1, BusyJob
<1>3. \A q \in Proc \ {p} : pc[q] # "idle" => job[q].id # i
  BY <1>0, <1>2, BusyJob DEF OneEach
<1>4. StepOf(p, k, step, i)
  BY <1>0, <1>1, <1>3 DEF StepOf
<1>5. KeepsPlan(k, step, idIdx'[i])
  <2>1. idIdx[i] # NoService => Consistent(idIdx[i])
    BY <1>2 DEF Charged, AllOnPlan, LiveIds, Live
  <2>2. job[p].svc # NoService /\ job[p].want # NoService => idIdx[i] = job[p].svc
    BY <1>0, <1>1 DEF Charged, ReadIsCurrent
  <2> QED BY <1>1, <2>1, <2>2 DEF KeepsPlan
<1>6. KnownBefore(p, i) = JobKnows(job[p]) /\ KnownAfter(k, step, idIdx'[i]) = JobKnows(k)
  BY <1>1 DEF KnownBefore, KnownAfter, Active
<1> QED BY <1>2, <1>4, <1>5, <1>6, StaysCharged

\* What is known of a request as it makes its next call.
LEMMA CallerIs ==
    ASSUME TakingTurns, Charged, NEW p \in Proc, pc[p] \in {"calls", "modify", "put"},
           NEW j, j = job[p]
    PROVE  /\ Typed /\ JobTyped(j, pc[p]) /\ j \in Jobs /\ OnPlan(j)
           /\ failures \in Nat /\ job = [q \in Proc |-> job[q]]
<1>1. Typed
  BY DEF TakingTurns, CallerInv
<1> QED BY <1>1, CallingJob, HandlersAssumption
        DEF Charged, AllOnPlan, Typed, CloudTyped, JobsTyped

\* A record of a request whose calls are over.
LEMMA StoppedIs ==
    ASSUME NEW j \in Jobs, NEW k, k = [j EXCEPT !.todo = <<>>, !.rules = NoRules]
    PROVE  k.want = j.want /\ k.drop = j.drop /\ k.todo = <<>>
BY DEF Jobs

\* What a failed or refused call that needs no tunnel leaves to the request.
LEMMA FailedKnows ==
    ASSUME NEW j \in Jobs, OnPlan(j), j.todo # <<>>, NEW c, c = Head(j.todo),
           ~NeedsTunnel(c), NEW k, k = Failed(j, c)
    PROVE  /\ OnPlan(k)
           /\ c \in {"createA", "createCNAME", "deleteRecord", "find", "deleteFound"}
           /\ c = "deleteRecord" => JobKnows(j) = {j.drop.dns}
           /\ c # "deleteRecord" => JobKnows(j) = {}
<1>1. CASE c \in {"createA", "createCNAME"}
  <2>1. k = [j EXCEPT !.todo = <<>>, !.rules = NoRules]
    BY <1>1 DEF Failed
  <2>2. k.want = j.want /\ k.drop = j.drop /\ k.todo = <<>>
    BY <2>1, StoppedIs
  <2> QED BY <1>1, <2>2, StopKnows
<1>2. CASE c \notin {"createA", "createCNAME"}
  <2>1. PICK s : s = Skip(j)
    OBVIOUS
  <2>2. s.want = j.want /\ s.drop = j.drop /\ s.todo = Tail(j.todo)
    BY <2>1, SkippedIs
  <2>3. /\ OnPlan(s)
        /\ c = "deleteRecord" => JobKnows(j) = {j.drop.dns}
        /\ c \in {"route", "find", "deleteFound"} => JobKnows(j) = {}
        /\ c \in {"unroute", "reroute", "deleteRecord", "find", "route", "deleteFound"}
    BY <1>2, <2>2, SkipKnows
  <2>4. c \in {"deleteRecord", "find", "deleteFound"}
    BY <2>3 DEF NeedsTunnel
  <2>5. k = s
    BY <2>1, <2>4 DEF Failed
  <2> QED BY <2>3, <2>4, <2>5
<1> QED BY <1>1, <1>2

\* Cloudflare's part: a new record, or fewer.
LEMMA EffectIs ==
    ASSUME NEW j, NEW c, Effect(j, c)
    PROVE  /\ c \in {"createA", "createCNAME"} =>
                  zone' = zone \cup {[id |-> nextRec, host |-> j.want.sub,
                                      type |-> IF c = "createA" THEN "A" ELSE "CNAME"]}
           /\ c \in {"deleteRecord", "deleteFound", "find"} => zone' \subseteq zone
           /\ c = "deleteRecord" => \A rec \in zone' : rec.id # j.drop.dns
BY DEF Effect, Insert, DeleteRecord

\* FindRecord found a record, which is to be replaced.
LEMMA DeleteFirstKnows ==
    ASSUME NEW j \in Jobs, OnPlan(j), j.todo # <<>>, Head(j.todo) = "find",
           NEW rec, NEW k, k = DeleteFirst(j, rec)
    PROVE  OnPlan(k)
<1>1. j.todo \notin Replacing
  BY ReplacingSays
<1>2. j.todo \in Unrouting \cup Deleting \cup Creating
  BY <1>1 DEF OnPlan, Holding
<1>3. j.todo \notin Unrouting /\ j.todo \notin Deleting /\ j.todo \notin Removing
  BY <1>2, TodoGoesOn
<1>4. j.todo = <<"find", "createCNAME">>
  BY <1>2, <1>3 DEF Creating
<1>5. PICK todo : todo = <<"deleteFound">> \o Tail(j.todo)
  OBVIOUS
<1>6. todo = <<"deleteFound", "createCNAME">>
  <2>1. PICK rest : rest = Tail(j.todo)
    OBVIOUS
  <2>2. rest = <<"createCNAME">>
    BY <1>4, <2>1
  <2>3. <<"deleteFound">> \o <<"createCNAME">> = <<"deleteFound", "createCNAME">>
    <3>1. "deleteFound" \in AllCalls /\ "createCNAME" \in AllCalls
      BY DEF AllCalls
    <3> QED BY ONLY <3>1, JoinedTwo
  <2> QED BY <1>5, <2>1, <2>2, <2>3
<1>7. k = [j EXCEPT !.todo = todo, !.found = rec.id]
  BY <1>5 DEF DeleteFirst
<1>8. k.todo = todo /\ k.want = j.want
  BY <1>7 DEF Jobs
<1>9. k.todo \in Replacing
  BY <1>6, <1>8 DEF Replacing
<1>10. k.todo # <<"reroute", "deleteRecord", "createCNAME">>
  BY <1>9, ReplacingSays
<1>11. j.todo \notin {<<>>} \cup Removing
  BY <1>3
<1> QED BY <1>8, <1>9, <1>10, <1>11 DEF OnPlan

\* A call that returns loses no record.
LEMMA CallReturnsCharged ==
    ASSUME TakingTurns, Charged, NEW p \in Proc, CallReturns(p)
    PROVE  Charged'
<1>1. PICK j, c : j = job[p] /\ c = NextCall(p)
  OBVIOUS
<1>2. /\ pc[p] = "calls" /\ j.todo # <<>> /\ c = Head(j.todo) /\ ~NeedsTunnel(c)
      /\ UNCHANGED <<tunnelOn, tunnelUp, failures>>
  BY <1>1 DEF CallReturns, Pending, NextCall
<1>3. /\ Typed /\ JobTyped(j, "calls") /\ j \in Jobs /\ OnPlan(j)
      /\ failures \in Nat /\ job = [q \in Proc |-> job[q]]
  BY <1>1, <1>2, CallerIs
<1>4. PICK k : CallStep(p, k, "calls")
  BY <1>3, CallReturnsTakes
<1>5. k = job'[p]
  BY <1>4 DEF CallStep, Becomes
<1>6. PICK f : f = Failed(j, c)
  OBVIOUS
<1>7. /\ OnPlan(f)
      /\ c \in {"createA", "createCNAME", "deleteRecord", "find", "deleteFound"}
      /\ c = "deleteRecord" => JobKnows(j) = {j.drop.dns}
      /\ c # "deleteRecord" => JobKnows(j) = {}
  BY <1>2, <1>3, <1>6, FailedKnows
<1>a. ASSUME OnPlan(k), NEW made, zone' \subseteq zone \cup {made},
             \A rec \in zone' : \/ rec.id \in JobKnows(k)
                                \/ rec \in zone /\ rec.id \notin JobKnows(j)
      PROVE  Charged'
  <2>1. PICK lost, cost : lost = NoRec /\ cost = 0
    OBVIOUS
  <2>2. cost \in {0, 1} /\ failures' = failures + cost
    BY <1>2, <1>3, <2>1
  <2>3. UNCHANGED <<tunnelOn, tunnelUp>>
    BY <1>2
  <2> QED BY <1>1, <1>4, <1>a, <2>2, <2>3, CallStaysCharged
<1>8. CASE Accepts(j, c)
  <2>1. Effect(j, c) /\ \E s \in Succeeded(j, c) : job' = [job EXCEPT ![p] = s]
    BY <1>1, <1>8 DEF CallReturns
  <2>2. k \in Succeeded(j, c)
    BY <1>3, <1>5, <2>1
  <2>3. CASE c \in {"createA", "createCNAME"}
    <3>1. j.want # NoService /\ j.want.sub \in Sub /\ j.want \in Addable
      BY <1>2, <1>3, <2>3, OpenCall
    <3>2. PICK tun : tun = IF c = "createA" THEN NoHost ELSE j.want.sub
      OBVIOUS
    <3>3. k = Return(j, nextRec, tun)
      BY <2>2, <2>3, <3>2 DEF Succeeded
    <3>4. nextRec \in RecId
      <4>1. PICK type : type = IF c = "createA" THEN "A" ELSE "CNAME"
        OBVIOUS
      <4>2. Insert(j.want.sub, type)
        BY <2>1, <2>3, <4>1 DEF Effect
      <4> QED BY <1>3, <4>2, HandlersAssumption DEF Insert, Typed, CloudTyped, RecId
    <3>5. nextRec \in RecId \cup {NoRec} /\ tun \in Sub \cup {NoHost}
      BY <3>1, <3>2, <3>4
    <3>6. /\ k.todo = <<>> /\ k.want # NoService
          /\ k.want.data.direct = j.want.data.direct /\ k.want.data.dns = nextRec
      BY ONLY <1>3, <3>1, <3>3, <3>5, ReturnedIs
    <3>7. PICK rec \in RecId : rec = nextRec
      BY <3>4
    <3>8. OnPlan(k) /\ JobKnows(k) = {rec}
      BY <1>2, <1>3, <2>3, <3>6, <3>7, ReturnKnows
    <3>9. PICK made : made = [id |-> nextRec, host |-> j.want.sub,
                              type |-> IF c = "createA" THEN "A" ELSE "CNAME"]
      OBVIOUS
    <3>10. zone' = zone \cup {made} /\ made.id = nextRec
      BY <2>1, <2>3, <3>9, EffectIs
    <3>11. JobKnows(j) = {}
      BY <1>7, <2>3
    <3> QED BY <1>a, <3>7, <3>8, <3>10, <3>11
  <2>4. CASE c \notin {"createA", "createCNAME"}
    <3>1. zone' \subseteq zone /\ (c = "deleteRecord" => \A rec \in zone' : rec.id # j.drop.dns)
      BY <1>7, <2>1, <2>4, EffectIs
    <3>2. \A rec \in zone' : rec \in zone /\ rec.id \notin JobKnows(j)
      BY <1>7, <3>1
    <3>3. OnPlan(k)
      <4>1. CASE c = "find" /\ RecordsFor(j.want.sub) # {}
        <5>1. PICK rec : k = DeleteFirst(j, rec)
          BY <2>2, <4>1 DEF Succeeded
        <5> QED BY <1>2, <1>3, <4>1, <5>1, DeleteFirstKnows
      <4>2. CASE ~(c = "find" /\ RecordsFor(j.want.sub) # {})
        <5>1. k = Skip(j)
          BY <2>2, <2>4, <4>2 DEF Succeeded
        <5>2. k.want = j.want /\ k.drop = j.drop /\ k.todo = Tail(j.todo)
          BY <1>3, <5>1, SkippedIs
        <5> QED BY <1>2, <1>3, <2>4, <5>2, SkipKnows
      <4> QED BY <4>1, <4>2
    <3>4. PICK made : made = NoRec
      OBVIOUS
    <3>5. zone' \subseteq zone \cup {made}
      BY <3>1
    <3> QED BY <1>a, <3>2, <3>3, <3>5
  <2> QED BY <2>3, <2>4
<1>9. CASE ~Accepts(j, c)
  <2>1. UNCHANGED zone /\ k = f
    BY <1>1, <1>3, <1>5, <1>6, <1>9 DEF CallReturns
  <2>2. c = "deleteRecord" => \A rec \in zone : rec.id # j.drop.dns
    BY <1>9 DEF Accepts
  <2>3. \A rec \in zone' : rec \in zone /\ rec.id \notin JobKnows(j)
    BY <1>7, <2>1, <2>2
  <2>4. PICK made : made = NoRec
    OBVIOUS
  <2>5. zone' \subseteq zone \cup {made}
    BY <2>1
  <2> QED BY <1>7, <1>a, <2>1, <2>3, <2>5
<1> QED BY <1>8, <1>9

\* One that fails may lose the record it made or was to delete.
LEMMA CallFailsCharged ==
    ASSUME TakingTurns, FoundIsOfHost, Charged, NEW p \in Proc, CallFails(p)
    PROVE  Charged'
<1>1. PICK j, c : j = job[p] /\ c = NextCall(p)
  OBVIOUS
<1>2. /\ pc[p] = "calls" /\ j.todo # <<>> /\ c = Head(j.todo) /\ ~NeedsTunnel(c)
      /\ UNCHANGED <<tunnelOn, tunnelUp>> /\ failures' = failures + 1
      /\ Effect(j, c) \/ UNCHANGED zone
  BY <1>1 DEF CallFails, Pending, NextCall
<1>3. /\ Typed /\ JobTyped(j, "calls") /\ j \in Jobs /\ OnPlan(j)
      /\ failures \in Nat /\ job = [q \in Proc |-> job[q]]
  BY <1>1, <1>2, CallerIs
<1>4. PICK k : CallStep(p, k, "calls")
  BY <1>3, CallFailsTakes
<1>5. k = Failed(j, c)
  <2>1. k = job'[p] /\ job' = [job EXCEPT ![p] = Failed(@, NextCall(p))]
    BY <1>4 DEF CallStep, Becomes, CallFails
  <2> QED BY <1>1, <1>3, <2>1
<1>6. /\ OnPlan(k)
      /\ c \in {"createA", "createCNAME", "deleteRecord", "find", "deleteFound"}
      /\ c = "deleteRecord" => JobKnows(j) = {j.drop.dns}
      /\ c # "deleteRecord" => JobKnows(j) = {}
  BY <1>2, <1>3, <1>5, FailedKnows
<1>a. ASSUME NEW lost, zone' \subseteq zone \cup {lost},
             \A rec \in zone' : \/ rec = lost
                                \/ rec \in zone /\ rec.id \notin JobKnows(j)
      PROVE  Charged'
  <2>1. PICK cost : cost = 1
    OBVIOUS
  <2>2. cost \in {0, 1} /\ failures' = failures + cost /\ UNCHANGED <<tunnelOn, tunnelUp>>
    BY <1>2, <2>1
  <2> QED BY <1>1, <1>4, <1>6, <1>a, <2>1, <2>2, CallStaysCharged
<1>7. CASE c \in {"createA", "createCNAME"}
  <2>1. PICK made : made = [id |-> nextRec, host |-> j.want.sub,
                            type |-> IF c = "createA" THEN "A" ELSE "CNAME"]
    OBVIOUS
  <2>2. zone' = zone \/ zone' = zone \cup {made}
    BY <1>2, <1>7, <2>1, EffectIs
  <2>3. JobKnows(j) = {}
    BY <1>6, <1>7
  <2> QED BY <1>a, <2>2, <2>3
<1>8. CASE c \notin {"createA", "createCNAME"}
  <2>1. zone' \subseteq zone
    BY <1>2, <1>6, <1>8, EffectIs
  <2>2. PICK lost : \A rec \in zone : rec.id = j.drop.dns => rec = lost
    BY DEF FoundIsOfHost
  <2>3. \A rec \in zone' : \/ rec = lost
                           \/ rec \in zone /\ rec.id \notin JobKnows(j)
    BY <1>6, <2>1, <2>2
  <2>4. zone' \subseteq zone \cup {lost}
    BY <2>1
  <2> QED BY <1>a, <2>3, <2>4
<1> QED BY <1>7, <1>8

\* The rules have no part in it, unless putting them fails: then the record
\* that was to go with them stays.
LEMMA IngressCharged ==
    ASSUME TakingTurns, FoundIsOfHost, Charged, NEW p \in Proc,
           CallModifies(p) \/ ReadIngress(p) \/ WriteIngress(p) \/ WriteIngressFails(p)
    PROVE  Charged'
<1>1. PICK j, c : j = job[p] /\ c = NextCall(p)
  OBVIOUS
<1>2. pc[p] \in {"calls", "modify", "put"} /\ UNCHANGED <<zone, tunnelOn, tunnelUp>>
  BY DEF CallModifies, ReadIngress, Pending, WriteIngress, WriteIngressFails, cfVars
<1>3. /\ Typed /\ JobTyped(j, pc[p]) /\ j \in Jobs /\ OnPlan(j)
      /\ failures \in Nat /\ job = [q \in Proc |-> job[q]]
  BY <1>1, <1>2, CallerIs
<1>4. PICK made : made = NoRec
  OBVIOUS
<1>5. zone' \subseteq zone \cup {made} /\ UNCHANGED <<tunnelOn, tunnelUp>>
  BY <1>2
<1>a. ASSUME NEW k, NEW step, CallStep(p, k, step), OnPlan(k), failures' = failures,
             JobKnows(j) \subseteq JobKnows(k)
      PROVE  Charged'
  <2>1. PICK lost, cost : lost = NoRec /\ cost = 0
    OBVIOUS
  <2>2. cost \in {0, 1} /\ failures' = failures + cost
    BY <1>3, <1>a, <2>1
  <2>3. \A rec \in zone' : \/ rec.id \in JobKnows(k)
                           \/ rec \in zone /\ rec.id \notin JobKnows(j)
    BY <1>2, <1>a
  <2> QED BY <1>1, <1>5, <1>a, <2>2, <2>3, CallStaysCharged
<1>b. CASE CallModifies(p)
  <2>1. CallStep(p, j, "modify")
    BY <1>1, <1>3, <1>b, CallModifiesTakes
  <2>2. failures' = failures
    BY <1>b DEF CallModifies
  <2> QED BY <1>3, <1>a, <2>1, <2>2
<1>6. CASE ReadIngress(p)
  <2>1. PICK k : CallStep(p, k, "put")
    BY <1>3, <1>6, ReadIngressTakes
  <2>2. PICK rules : job' = [job EXCEPT ![p].rules = rules]
    BY <1>6 DEF ReadIngress
  <2>3. k.want = j.want /\ k.drop = j.drop /\ k.todo = j.todo
    <3>1. k = job'[p]
      BY <2>1 DEF CallStep, Becomes
    <3> QED BY <1>1, <1>3, <2>2, <3>1 DEF Jobs
  <2>4. OnPlan(k) /\ JobKnows(k) = JobKnows(j)
    BY <1>3, <2>3 DEF OnPlan, JobKnows
  <2>5. failures' = failures
    BY <1>6 DEF ReadIngress
  <2> QED BY <1>a, <2>1, <2>4, <2>5
<1>7. ASSUME WriteIngress(p) \/ WriteIngressFails(p)
      PROVE  j.todo # <<>> /\ c = Head(j.todo) /\ c \in {"route", "unroute", "reroute"}
  <2>1. pc[p] = "put"
    BY <1>7 DEF WriteIngress, WriteIngressFails
  <2> QED BY <1>1, <1>3, <2>1 DEF JobTyped, NextCall, NeedsTunnel
<1>8. CASE WriteIngress(p)
  <2>1. PICK k : CallStep(p, k, "calls")
    BY <1>3, <1>8, WriteIngressTakes
  <2>2. k = Skip(j) /\ failures' = failures
    <3>1. k = job'[p]
      BY <2>1 DEF CallStep, Becomes
    <3> QED BY <1>1, <1>3, <1>8, <3>1 DEF WriteIngress
  <2>3. k.want = j.want /\ k.drop = j.drop /\ k.todo = Tail(j.todo)
    BY <1>3, <2>2, SkippedIs
  <2>4. OnPlan(k) /\ JobKnows(k) = JobKnows(j)
    BY <1>3, <1>7, <1>8, <2>3, SkipKnows
  <2> QED BY <1>a, <2>1, <2>2, <2>4
<1>9. CASE WriteIngressFails(p)
  <2>1. PICK k : CallStep(p, k, "calls")
    BY <1>3, <1>9, WriteIngressTakes
  <2>2. k = Failed(j, c) /\ failures' = failures + 1
    <3>1. k = job'[p]
      BY <2>1 DEF CallStep, Becomes
    <3> QED BY <1>1, <1>3, <1>9, <3>1 DEF WriteIngressFails
  <2>3. PICK lost : \A rec \in zone : rec.id = j.drop.dns => rec = lost
    BY DEF FoundIsOfHost
  <2>4. /\ OnPlan(k)
        /\ JobKnows(j) \subseteq JobKnows(k) \/ JobKnows(j) = {j.drop.dns}
    <3>1. CASE c \in {"route", "reroute"}
      <4>1. k = [j EXCEPT !.todo = <<>>, !.rules = NoRules]
        BY <2>2, <3>1 DEF Failed
      <4>2. k.want = j.want /\ k.drop = j.drop /\ k.todo = <<>>
        BY <1>3, <4>1, StoppedIs
      <4>3. OnPlan(k) /\ JobKnows(j) \subseteq JobKnows(k)
        BY <1>3, <1>7, <1>9, <3>1, <4>2, StopKnows
      <4> QED BY <4>3
    <3>2. CASE c = "unroute"
      <4>1. k = SkipDeletion(j)
        BY <2>2, <3>2 DEF Failed
      <4>2. OnPlan(k) /\ JobKnows(j) = {j.drop.dns}
        BY <1>3, <1>7, <1>9, <3>2, <4>1, LeaveKnows
      <4> QED BY <4>2
    <3> QED BY <1>7, <1>9, <3>1, <3>2
  <2>5. PICK cost : cost = 1
    OBVIOUS
  <2>6. cost \in {0, 1} /\ failures' = failures + cost
    BY <2>2, <2>5
  <2>7. \A rec \in zone' : \/ cost = 1 /\ rec = lost
                           \/ rec.id \in JobKnows(k)
                           \/ rec \in zone /\ rec.id \notin JobKnows(job[p])
    BY <1>1, <1>2, <2>3, <2>4, <2>5
  <2> QED BY <1>5, <2>1, <2>4, <2>6, <2>7, CallStaysCharged
<1> QED BY <1>b, <1>6, <1>8, <1>9

-----------------------------------------------------------------------------
(* No more records are lost than calls have failed *)

\* A new tunnel takes what is behind it out of consideration; every other step
\* stays in charge.
LEMMA StepStaysCharged ==
    ASSUME TakingTurns, RecordsInv, OneWriter, OneTunnel => Charged, HandlersNext, OneTunnel'
    PROVE  Charged'
<1>1. FoundIsOfHost /\ Typed /\ OriginsKept /\ toggles \in Nat /\ toggles' = 0 /\ tunnelOn'
  BY HandlersAssumption DEF RecordsInv, TakingTurns, CallerInv, Typed, CloudTyped, OneTunnel
<1>2. ~TunnelStep
  BY <1>1, TunnelTakes
<1>3. PICK p \in Proc :
          \/ BeginCreate(p) \/ BeginUpdate(p) \/ BeginDelete(p) \/ BeginIcon(p)
          \/ CallReturns(p) \/ CallFails(p) \/ CallSkipped(p) \/ CallModifies(p)
          \/ ReadIngress(p) \/ WriteIngress(p) \/ IngressRefused(p) \/ WriteIngressFails(p)
          \/ \/ FinishCreate(p) \/ Forget(p) \/ FinishUpdate(p)
             \/ RemoveService(p) \/ FinishDelete(p) \/ FinishIcon(p)
  BY <1>2 DEF HandlersNext, TunnelStep
<1>4. UNCHANGED <<toggles, tunnelOn>>
  <2>1. CASE BeginCreate(p) \/ BeginUpdate(p) \/ BeginDelete(p) \/ BeginIcon(p)
    BY <1>1, <2>1, BeginsIs DEF BeginsStep, BeginStep, cfVars
  <2>2. CASE \/ CallReturns(p) \/ CallFails(p) \/ CallSkipped(p) \/ CallModifies(p)
             \/ ReadIngress(p) \/ WriteIngress(p) \/ IngressRefused(p) \/ WriteIngressFails(p)
    BY <2>2 DEF CallReturns, CallFails, CallSkipped, CallModifies, ReadIngress, WriteIngress,
                IngressRefused, WriteIngressFails, cfVars
  <2>3. CASE \/ FinishCreate(p) \/ Forget(p) \/ FinishUpdate(p)
             \/ RemoveService(p) \/ FinishDelete(p) \/ FinishIcon(p)
    BY <1>1, <2>3, WritesIs DEF WritesStep, WriteStep, cfVars
  <2> QED BY <1>3, <2>1, <2>2, <2>3
<1>5. Charged /\ tunnelOn /\ tunnelUp
  BY <1>1, <1>4 DEF Charged, OneTunnel
<1>6. ~CallSkipped(p) /\ ~IngressRefused(p)
  BY <1>5 DEF CallSkipped, IngressRefused
<1> QED BY <1>1, <1>3, <1>5, <1>6, BeginStaysCharged, WriteStaysCharged,
           CallReturnsCharged, CallFailsCharged, IngressCharged

\* At the start there is nothing to lose.
LEMMA BeginsCharged == HandlersInit /\ tunnelOn => Charged
<1> SUFFICES ASSUME HandlersInit, tunnelOn PROVE Charged
  OBVIOUS
<1>1. /\ \A p \in Proc : pc[p] = "idle"
      /\ \A id \in Id : idIdx[id] = NoService
      /\ zone = {} /\ failures = 0 /\ tunnelOn /\ tunnelUp
  BY DEF HandlersInit, Init
<1>2. ReadIsCurrent /\ AllOnPlan
  BY <1>1 DEF ReadIsCurrent, AllOnPlan, LiveIds, Live
<1>3. Lost = {}
  BY <1>1 DEF Lost
<1>4. IsFiniteSet(zone) /\ Cardinality(Lost) = 0
  BY <1>1, <1>3, FS_EmptySet
<1> QED BY <1>1, <1>2, <1>4 DEF Charged

\* The invariant of users whose calls may fail.
LEMMA LeakInvariant ==
    OneWriter => (HandlersSpec => []LeakInv)
<1> SUFFICES ASSUME OneWriter
             PROVE  HandlersSpec => []LeakInv
  OBVIOUS
<1>1. LeakInv /\ TakingTurns' /\ RecordsInv' /\ [HandlersNext]_handlerVars => LeakInv'
  <2> SUFFICES ASSUME LeakInv, TakingTurns', RecordsInv', [HandlersNext]_handlerVars
               PROVE  LeakInv'
    OBVIOUS
  <2>1. TakingTurns /\ RecordsInv /\ (OneTunnel => Charged)
    BY DEF LeakInv
  <2>2. CASE HandlersNext
    BY <2>1, <2>2, StepStaysCharged DEF LeakInv
  <2>3. CASE UNCHANGED handlerVars
    <3>1. UNCHANGED <<idIdx, zone, tunnelOn, tunnelUp, manager, toggles, failures, pc, job>>
      BY <2>3 DEF handlerVars, storeVars, cfVars
    <3>2. Lost' = Lost
      BY <3>1 DEF Lost, Accounts, Reconciles, JobKnows, ServiceKnows
    <3>3. Charged => Charged'
      BY <3>1, <3>2 DEF Charged, ReadIsCurrent, AllOnPlan, LiveIds, Live
    <3> QED BY <2>1, <3>1, <3>3 DEF LeakInv, OneTunnel
  <2> QED BY <2>2, <2>3
<1>2. HandlersInit => LeakInv
  BY TurnsInit, RecordsInit, BeginsCharged DEF LeakInv, OneTunnel
<1>3. HandlersSpec => []RecordsInv
  BY RecordsInvariant
<1>4. HandlersSpec => []TakingTurns
  BY TurnsInvariant
<1> QED BY <1>1, <1>2, <1>3, <1>4, PTL DEF HandlersSpec

\* As long as the client has one tunnel, whenever all requests of users who take turns at a
\* service have ended, even of users who collide on its subdomain, there are no more
\* records that no service knows of than Cloudflare calls have failed, however many
\* requests ran at once and acted on half-done work.
THEOREM LeaksArePaidFor ==
    OneWriter => (HandlersSpec => []LeaksBounded)
<1>1. LeakInv => LeaksBounded
  <2> SUFFICES ASSUME LeakInv, Quiet, toggles = 0, tunnelOn
               PROVE  Cardinality(Orphans) <= failures
    BY DEF LeaksBounded
  <2>1. Charged /\ Typed
    BY DEF LeakInv, OneTunnel, TakingTurns, CallerInv
  <2>2. \A p \in Proc : pc[p] = "idle"
    BY <2>1, IdleHasNoJob DEF Quiet
  <2>3. \A id \in Id, rec \in zone : Accounts(id, rec) <=> rec.id \in ServiceKnows(idIdx[id])
    BY <2>2 DEF Accounts, Reconciles
  <2>4. \A id \in Id, rec \in zone :
            Accounts(id, rec) <=> id \in LiveIds /\ idIdx[id].data.dns = rec.id
    BY <2>3 DEF ServiceKnows, LiveIds, Live
  <2>5. Orphans = Lost
    BY <2>4 DEF Orphans, Lost, LiveIds
  <2> QED BY <2>1, <2>5 DEF Charged
<1>2. OneWriter => (HandlersSpec => []LeakInv)
  BY LeakInvariant
<1> QED BY <1>1, <1>2, PTL
==============================================================================
