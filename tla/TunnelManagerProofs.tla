------------------------ MODULE TunnelManagerProofs -------------------------
(* Theorems about TunnelManager, for every value of its constants.          *)
EXTENDS TunnelManager, FiniteSetTheorems, SequenceTheorems, TLAPS

(***************************************************************************)
(* What holds for any number of requests: the types, and that who needs a  *)
(* tunnel, a process or a context holds one.                               *)
(***************************************************************************)
Actor == Req \cup {Main}

Known == 1..created \cup {NoTunnel}

CmdRecord ==
    [tid : Tunnel, ctx : Ctx, alive : BOOLEAN, ps : BOOLEAN,
     collected : BOOLEAN, sent : BOOLEAN]

CtxRecord ==
    [tid : Tunnel, cancelled : BOOLEAN, pc : WatcherLabels, cmd : CmdId \cup {NoCmd}]

CloudTyped ==
    /\ created \in 0..MaxTunnels
    /\ exists \subseteq 1..created
    /\ info \in Known /\ disk \in Known
    /\ cfId \in Known \cup {Adopted}

ManagerTyped ==
    /\ cmd \in DOMAIN cmds \cup {NoCmd}
    /\ running \in BOOLEAN
    /\ cancel \in DOMAIN ctxs \cup {NoCtx}

\* Besides the types: ProcessState is only set of a process that has ended, and
\* a watcher that waits has a process to wait for.
ProcessesTyped ==
    /\ cmds \in Seq(CmdRecord) /\ Len(cmds) <= MaxLaunches
    /\ \A c \in DOMAIN cmds :
           /\ cmds[c].tid \in 1..created
           /\ cmds[c].ctx \in DOMAIN ctxs
           /\ cmds[c].ps => ~cmds[c].alive

WatchersTyped ==
    /\ ctxs \in Seq(CtxRecord) /\ Len(ctxs) <= MaxStarts
    /\ \A w \in DOMAIN ctxs :
           /\ ctxs[w].tid \in 1..created
           /\ ctxs[w].cmd \in DOMAIN cmds \cup {NoCmd}
           /\ ctxs[w].pc \in {"wait", "collect", "result"} => ctxs[w].cmd # NoCmd
           /\ ctxs[w].pc = "result" => ~cmds[ctxs[w].cmd].alive

JobsTyped ==
    /\ pc \in [Actor -> ReqLabels \cup MainLabels]
    /\ pc[Main] \in MainLabels /\ \A r \in Req : pc[r] \in ReqLabels
    /\ job \in [Actor -> [tid : Known, cmd : DOMAIN cmds \cup {NoCmd},
                          ctx : DOMAIN ctxs \cup {NoCtx}]]
    /\ \A r \in Req :
           pc[r] \in {"token", "set", "saveCreate", "start"} => job[r].tid # NoTunnel
    /\ \A p \in Actor :
           pc[p] \in {"kill", "wait", "collect", "result"} => job[p].cmd # NoCmd

CountersTyped ==
    /\ exits \in 0..MaxExits
    /\ failures \in 0..MaxFailures
    /\ restarts \in 0..MaxRestarts

Types ==
    /\ CloudTyped
    /\ ManagerTyped
    /\ ProcessesTyped
    /\ WatchersTyped
    /\ JobsTyped
    /\ CountersTyped

(***************************************************************************)
(* What holds when one request is served at a time.                        *)
(***************************************************************************)
OneRequest == \A r, s \in Req : r = s

Agree ==
    IF info # NoTunnel THEN cfId = info ELSE cfId \in {NoTunnel, Adopted}

StopLabels == {"take", "cancel", "kill", "wait", "collect", "result"}

\* What store and client say at each step of a request.
ClientInv ==
    /\ (\A r \in Req : pc[r] \notin {"set", "unset"}) => Agree
    /\ \A r \in Req :
           /\ pc[r] \in {"post", "token", "set", "unset"} => info = NoTunnel
           /\ pc[r] = "set" => cfId = job[r].tid
           /\ pc[r] \in {"saveCreate", "start"} => info = job[r].tid
           /\ pc[r] \in StopLabels \cup {"deleteTunnel", "clear"} => info = job[r].tid

Pending == IF \E r \in Req : pc[r] \in {"token", "set"} THEN 1 ELSE 0

\* A tunnel that is just being created is not in the store yet.
LeakInv ==
    /\ Cardinality(exists \ {info}) <= failures + restarts + Pending
    /\ \A r \in Req :
           /\ pc[r] \in {"token", "set"} => job[r].tid \in exists
           /\ pc[r] \in {"clear", "unset"} => job[r].tid \notin exists

Active(w) == ~ctxs[w].cancelled

\* The processes that context w still has.
Alive(w) == {c \in DOMAIN cmds : cmds[c].alive /\ cmds[c].ctx = w}

\* A context that nobody has cancelled is the manager's, or a deletion is about
\* to cancel it.
ContextsHeld ==
    /\ info = NoTunnel => cancel = NoCtx
    /\ \A r \in Req :
           pc[r] \in {"saveCreate", "start", "cancel", "kill", "wait", "collect",
                      "result", "deleteTunnel", "clear", "unset", "saveDelete"}
               => cancel = NoCtx
    /\ \A w \in DOMAIN ctxs :
           Active(w) => \/ w = cancel
                        \/ \E r \in Req : pc[r] = "cancel" /\ job[r].ctx = w

\* It is for the stored tunnel, and its watcher has its newest process, which
\* is the only one that may be alive.
OneProcess ==
    /\ \A c \in DOMAIN cmds : cmds[c].tid = ctxs[cmds[c].ctx].tid
    /\ \A w \in DOMAIN ctxs : Active(w) =>
           /\ ctxs[w].tid = info
           /\ Alive(w) \subseteq {Len(cmds)}
           /\ ctxs[w].pc = "read" => cmd \in {NoCmd, Len(cmds)}
           /\ ctxs[w].pc \in {"wait", "collect", "result"} => Alive(w) \subseteq {ctxs[w].cmd}
           /\ ctxs[w].pc \in {"exited", "sleep"} => Alive(w) = {}

StrayInv == ~RootDone => ContextsHeld /\ OneProcess

-----------------------------------------------------------------------------
(***************************************************************************)
(* Sequences of processes and contexts.                                    *)
(***************************************************************************)
\* Changing one element of a sequence.
LEMMA Updated ==
    ASSUME NEW S, NEW s \in Seq(S), NEW i \in DOMAIN s, NEW e \in S,
           NEW t, t = [s EXCEPT ![i] = e]
    PROVE  /\ t \in Seq(S) /\ Len(t) = Len(s) /\ DOMAIN t = DOMAIN s
           /\ \A j \in DOMAIN s : t[j] = IF j = i THEN e ELSE s[j]
<1>1. t \in Seq(S) /\ Len(t) = Len(s) /\ DOMAIN t = DOMAIN s
  BY ExceptSeq
<1>2. QED
  BY <1>1

\* Adding one.
LEMMA Appended ==
    ASSUME NEW S, NEW s \in Seq(S), NEW e \in S, NEW t, t = Append(s, e)
    PROVE  /\ t \in Seq(S) /\ Len(t) = Len(s) + 1 /\ Len(s) \in Nat
           /\ DOMAIN s = 1..Len(s) /\ DOMAIN t = 1..(Len(s) + 1)
           /\ \A j \in DOMAIN s : t[j] = s[j]
           /\ t[Len(s) + 1] = e
  OBVIOUS

\* No process is launched, and none comes back to life.
ProcessesKept ==
    /\ cmds' \in Seq(CmdRecord) /\ Len(cmds') = Len(cmds)
    /\ DOMAIN cmds' = DOMAIN cmds
    /\ \A c \in DOMAIN cmds :
           /\ cmds'[c].tid = cmds[c].tid /\ cmds'[c].ctx = cmds[c].ctx
           /\ cmds'[c].alive => cmds[c].alive
           /\ cmds'[c].ps => ~cmds'[c].alive

\* No context is made, none is revived, and the watchers stay where they are.
ContextsKept ==
    /\ ctxs' \in Seq(CtxRecord) /\ Len(ctxs') = Len(ctxs)
    /\ DOMAIN ctxs' = DOMAIN ctxs
    /\ \A w \in DOMAIN ctxs :
           /\ ctxs'[w].tid = ctxs[w].tid
           /\ ctxs'[w].pc = ctxs[w].pc /\ ctxs'[w].cmd = ctxs[w].cmd
           /\ ctxs[w].cancelled => ctxs'[w].cancelled

\* What a step leaves alone it keeps.
LEMMA UnchangedKept ==
    ASSUME Types
    PROVE  /\ cmds' = cmds => ProcessesKept
           /\ ctxs' = ctxs => ContextsKept
  BY DEF Types, ProcessesTyped, WatchersTyped, ProcessesKept, ContextsKept

\* A process ends.
LEMMA DeathKept ==
    ASSUME Types, NEW c \in DOMAIN cmds, cmds' = [cmds EXCEPT ![c].alive = FALSE]
    PROVE  ProcessesKept /\ ~cmds'[c].alive
<1> DEFINE e == [cmds[c] EXCEPT !.alive = FALSE]
<1>1. c \in DOMAIN cmds /\ cmds \in Seq(CmdRecord) /\ cmds[c] \in CmdRecord
  BY DEF Types, ProcessesTyped
<1>2. e \in CmdRecord
  BY <1>1 DEF CmdRecord
<1>3. e.tid = cmds[c].tid /\ e.ctx = cmds[c].ctx /\ ~e.alive
  BY <1>1 DEF CmdRecord
<1>4. cmds' = [cmds EXCEPT ![c] = e]
  OBVIOUS
<1> HIDE DEF e
<1>5. /\ cmds' \in Seq(CmdRecord) /\ Len(cmds') = Len(cmds)
      /\ DOMAIN cmds' = DOMAIN cmds
      /\ \A d \in DOMAIN cmds : cmds'[d] = IF d = c THEN e ELSE cmds[d]
  BY ONLY <1>1, <1>2, <1>4, Updated
<1>6. QED
  BY <1>3, <1>5 DEF Types, ProcessesTyped, ProcessesKept

\* Its exit status is collected.
LEMMA CollectKept ==
    ASSUME Types, NEW c \in DOMAIN cmds, Collect(c)
    PROVE  ProcessesKept /\ ~cmds[c].alive
<1>1. PICK ps \in BOOLEAN :
          cmds' = [cmds EXCEPT ![c].ps = ps, ![c].collected = TRUE]
  BY DEF Collect
<1> DEFINE e == [cmds[c] EXCEPT !.ps = ps, !.collected = TRUE]
<1>2. cmds \in Seq(CmdRecord) /\ cmds[c] \in CmdRecord /\ ~cmds[c].alive
  BY DEF Types, ProcessesTyped, Collect
<1>3. /\ e \in CmdRecord
      /\ e.tid = cmds[c].tid /\ e.ctx = cmds[c].ctx /\ ~e.alive
  BY <1>2 DEF CmdRecord
<1>4. cmds' = [cmds EXCEPT ![c] = e]
  BY <1>1
<1> HIDE DEF e
<1>5. /\ cmds' \in Seq(CmdRecord) /\ Len(cmds') = Len(cmds)
      /\ DOMAIN cmds' = DOMAIN cmds
      /\ \A d \in DOMAIN cmds : cmds'[d] = IF d = c THEN e ELSE cmds[d]
  BY <1>2, <1>3, <1>4, Updated
<1>6. QED
  BY <1>2, <1>3, <1>5 DEF Types, ProcessesTyped, ProcessesKept

\* Its context's result is taken.
LEMMA ResultKept ==
    ASSUME Types, NEW c \in DOMAIN cmds, TakeResult(c)
    PROVE  ProcessesKept
<1> DEFINE e == [cmds[c] EXCEPT !.sent = TRUE]
<1>1. cmds \in Seq(CmdRecord) /\ cmds[c] \in CmdRecord
  BY DEF Types, ProcessesTyped
<1>2. /\ e \in CmdRecord /\ e.alive = cmds[c].alive /\ e.ps = cmds[c].ps
      /\ e.tid = cmds[c].tid /\ e.ctx = cmds[c].ctx
  BY <1>1 DEF CmdRecord
<1>3. cmds' = [cmds EXCEPT ![c] = e]
  BY DEF TakeResult
<1> HIDE DEF e
<1>4. /\ cmds' \in Seq(CmdRecord) /\ Len(cmds') = Len(cmds)
      /\ DOMAIN cmds' = DOMAIN cmds
      /\ \A d \in DOMAIN cmds : cmds'[d] = IF d = c THEN e ELSE cmds[d]
  BY <1>1, <1>2, <1>3, Updated
<1>5. QED
  BY <1>2, <1>4 DEF Types, ProcessesTyped, ProcessesKept

\* A context is cancelled.
LEMMA CancelKept ==
    ASSUME Types, NEW w \in DOMAIN ctxs, CancelContext(w)
    PROVE  /\ ContextsKept
           /\ \A v \in DOMAIN ctxs : ctxs'[v].cancelled <=> v = w \/ ctxs[v].cancelled
<1> DEFINE e == [ctxs[w] EXCEPT !.cancelled = TRUE]
<1>1. ctxs \in Seq(CtxRecord) /\ ctxs[w] \in CtxRecord
  BY DEF Types, WatchersTyped
<1>2. /\ e \in CtxRecord /\ e.cancelled = TRUE
      /\ e.tid = ctxs[w].tid /\ e.pc = ctxs[w].pc /\ e.cmd = ctxs[w].cmd
  BY <1>1 DEF CtxRecord
<1>3. ctxs' = [ctxs EXCEPT ![w] = e]
  BY DEF CancelContext
<1> HIDE DEF e
<1>4. /\ ctxs' \in Seq(CtxRecord) /\ Len(ctxs') = Len(ctxs)
      /\ DOMAIN ctxs' = DOMAIN ctxs
      /\ \A v \in DOMAIN ctxs : ctxs'[v] = IF v = w THEN e ELSE ctxs[v]
  BY <1>1, <1>2, <1>3, Updated
<1>5. ContextsKept
  BY <1>2, <1>4 DEF ContextsKept
<1>6. QED
  BY <1>2, <1>4, <1>5

\* main's cancel() cancels them all.
LEMMA ShutdownKept ==
    ASSUME Types, ctxs' = [w \in DOMAIN ctxs |-> [ctxs[w] EXCEPT !.cancelled = TRUE]]
    PROVE  ContextsKept
<1>1. /\ ctxs \in Seq(CtxRecord) /\ Len(ctxs) \in Nat /\ DOMAIN ctxs = 1..Len(ctxs)
      /\ \A w \in DOMAIN ctxs : ctxs[w] \in CtxRecord
  BY DEF Types, WatchersTyped
<1>2. \A w \in DOMAIN ctxs :
          /\ ctxs'[w] \in CtxRecord /\ ctxs'[w].cancelled
          /\ ctxs'[w].tid = ctxs[w].tid
          /\ ctxs'[w].pc = ctxs[w].pc /\ ctxs'[w].cmd = ctxs[w].cmd
  BY <1>1 DEF CtxRecord
<1>3. ctxs' \in Seq(CtxRecord) /\ Len(ctxs') = Len(ctxs) /\ DOMAIN ctxs' = DOMAIN ctxs
  <2>1. ctxs' \in [1..Len(ctxs) -> CtxRecord]
    BY <1>1, <1>2
  <2>2. QED
    BY <1>1, <2>1
<1>4. QED
  BY <1>2, <1>3 DEF ContextsKept

\* A watcher goes on to another label, holding the process k.
WatcherAt(w, label, k) ==
    /\ ctxs' \in Seq(CtxRecord) /\ Len(ctxs') = Len(ctxs)
    /\ DOMAIN ctxs' = DOMAIN ctxs
    /\ \A v \in DOMAIN ctxs :
           /\ ctxs'[v].tid = ctxs[v].tid
           /\ ctxs'[v].cancelled <=> ctxs[v].cancelled
           /\ v # w => ctxs'[v].pc = ctxs[v].pc /\ ctxs'[v].cmd = ctxs[v].cmd
    /\ ctxs'[w].pc = label /\ ctxs'[w].cmd = k

\* Most watcher steps keep the process.
LEMMA WatcherMoves ==
    ASSUME Types, NEW w \in DOMAIN ctxs, NEW label \in WatcherLabels,
           WatcherGoto(w, label)
    PROVE  WatcherAt(w, label, ctxs[w].cmd)
<1> DEFINE e == [ctxs[w] EXCEPT !.pc = label]
<1>1. ctxs \in Seq(CtxRecord) /\ ctxs[w] \in CtxRecord
  BY DEF Types, WatchersTyped
<1>2. e \in CtxRecord
  BY <1>1 DEF CtxRecord
<1>3. /\ e.tid = ctxs[w].tid /\ e.cmd = ctxs[w].cmd /\ e.pc = label
      /\ e.cancelled = ctxs[w].cancelled
  BY <1>1 DEF CtxRecord
<1>4. ctxs' = [ctxs EXCEPT ![w] = e]
  BY DEF WatcherGoto
<1> HIDE DEF e
<1>5. /\ ctxs' \in Seq(CtxRecord) /\ Len(ctxs') = Len(ctxs)
      /\ DOMAIN ctxs' = DOMAIN ctxs
      /\ \A v \in DOMAIN ctxs : ctxs'[v] = IF v = w THEN e ELSE ctxs[v]
  BY <1>1, <1>2, <1>4, Updated
<1>6. QED
  BY <1>3, <1>5 DEF WatcherAt

\* The first one reads m.cmd.
LEMMA WatcherReadsCmd ==
    ASSUME Types, NEW w \in DOMAIN ctxs, WatcherReads(w)
    PROVE  WatcherAt(w, IF cmd = NoCmd THEN "done" ELSE "wait", cmd)
<1> DEFINE label == IF cmd = NoCmd THEN "done" ELSE "wait"
           e == [ctxs[w] EXCEPT !.cmd = cmd, !.pc = label]
<1>1. ctxs \in Seq(CtxRecord) /\ ctxs[w] \in CtxRecord
  BY DEF Types, WatchersTyped
<1>2. cmd \in CmdId \cup {NoCmd}
  <2>1. DOMAIN cmds = 1..Len(cmds) /\ Len(cmds) \in Nat /\ Len(cmds) <= MaxLaunches
    BY DEF Types, ProcessesTyped
  <2>2. QED
    BY <2>1, TunnelAssumption DEF Types, ManagerTyped, CmdId
<1>3. label \in WatcherLabels
  BY DEF WatcherLabels
<1>4. /\ e \in CtxRecord
      /\ e.tid = ctxs[w].tid /\ e.cmd = cmd /\ e.pc = label
      /\ e.cancelled = ctxs[w].cancelled
  BY <1>1, <1>2, <1>3 DEF CtxRecord
<1>5. ctxs' = [ctxs EXCEPT ![w] = e]
  BY DEF WatcherReads
<1> HIDE DEF e, label
<1>6. /\ ctxs' \in Seq(CtxRecord) /\ Len(ctxs') = Len(ctxs)
      /\ DOMAIN ctxs' = DOMAIN ctxs
      /\ \A v \in DOMAIN ctxs : ctxs'[v] = IF v = w THEN e ELSE ctxs[v]
  BY <1>1, <1>4, <1>5, Updated
<1>7. QED
  BY <1>4, <1>6 DEF WatcherAt, label

\* launchCmd: one more process, which m.cmd is from now on.
Launched(w, t) ==
    /\ cmds' \in Seq(CmdRecord) /\ Len(cmds') = Len(cmds) + 1
    /\ DOMAIN cmds' = 1..(Len(cmds) + 1) /\ DOMAIN cmds = 1..Len(cmds)
    /\ Len(cmds) \in Nat /\ Len(cmds) + 1 <= MaxLaunches
    /\ \A c \in DOMAIN cmds : cmds'[c] = cmds[c]
    /\ cmds'[Len(cmds) + 1] = Process(w, t)
    /\ cmd' = Len(cmds) + 1 /\ running'

\* A launch adds one living process and touches no other.
LEMMA LaunchAdds ==
    ASSUME Types, NEW w \in Ctx, NEW t \in Tunnel, LaunchSucceeds(w, t)
    PROVE  Launched(w, t)
<1>1. cmds \in Seq(CmdRecord) /\ Len(cmds) \in Nat
  BY DEF Types, ProcessesTyped
<1>2. Process(w, t) \in CmdRecord
  BY DEF Process, CmdRecord
<1>3. /\ cmds' = Append(cmds, Process(w, t)) /\ Len(cmds) < MaxLaunches
      /\ cmd' = Len(cmds) + 1 /\ running'
  BY DEF LaunchSucceeds
<1>4. /\ cmds' \in Seq(CmdRecord) /\ Len(cmds') = Len(cmds) + 1
      /\ DOMAIN cmds = 1..Len(cmds) /\ DOMAIN cmds' = 1..(Len(cmds) + 1)
      /\ \A c \in DOMAIN cmds : cmds'[c] = cmds[c]
      /\ cmds'[Len(cmds) + 1] = Process(w, t)
  BY ONLY <1>1, <1>2, <1>3, Appended
<1>5. QED
  BY <1>1, <1>3, <1>4, TunnelAssumption DEF Launched

\* context.WithCancel: one more context, with its watcher.
ContextMade(t, label, done) ==
    /\ ctxs' \in Seq(CtxRecord) /\ Len(ctxs') = Len(ctxs) + 1
    /\ DOMAIN ctxs' = 1..(Len(ctxs) + 1) /\ DOMAIN ctxs = 1..Len(ctxs)
    /\ Len(ctxs) \in Nat
    /\ \A w \in DOMAIN ctxs : ctxs'[w] = ctxs[w]
    /\ ctxs'[Len(ctxs) + 1] =
           [tid |-> t, cancelled |-> done, pc |-> label, cmd |-> NoCmd]

\* A new context has a number of its own.
LEMMA ContextAdds ==
    ASSUME Types, NEW t \in Tunnel, NEW label \in WatcherLabels, NEW done \in BOOLEAN,
           ctxs' = NewContext(t, label, done)
    PROVE  ContextMade(t, label, done)
<1> DEFINE e == [tid |-> t, cancelled |-> done, pc |-> label, cmd |-> NoCmd]
<1>1. ctxs \in Seq(CtxRecord) /\ Len(ctxs) \in Nat
  BY DEF Types, WatchersTyped
<1>2. e \in CtxRecord
  BY DEF CtxRecord
<1>3. ctxs' = Append(ctxs, e)
  BY DEF NewContext
<1>4. /\ ctxs' \in Seq(CtxRecord) /\ Len(ctxs') = Len(ctxs) + 1
      /\ DOMAIN ctxs = 1..Len(ctxs) /\ DOMAIN ctxs' = 1..(Len(ctxs) + 1)
      /\ \A w \in DOMAIN ctxs : ctxs'[w] = ctxs[w]
      /\ ctxs'[Len(ctxs) + 1] = e
  BY ONLY <1>1, <1>2, <1>3, Appended
<1>5. QED
  BY <1>1, <1>4 DEF ContextMade

-----------------------------------------------------------------------------
(***************************************************************************)
(* The types, step by step.                                                *)
(***************************************************************************)
Grows == created \in Nat /\ created' \in created..MaxTunnels

\* Steps that launch nothing and move no watcher.
LEMMA OsTypesKept ==
    ASSUME Types, Grows, ProcessesKept, ContextsKept
    PROVE  ProcessesTyped' /\ WatchersTyped'
<1>1. 1..created \subseteq 1..created'
  BY DEF Grows
<1>2. ProcessesTyped'
  BY <1>1 DEF Types, ProcessesTyped, ProcessesKept, ContextsKept
<1>3. \A w \in DOMAIN ctxs :
          ctxs[w].pc = "result" => ctxs[w].cmd \in DOMAIN cmds
  BY DEF Types, WatchersTyped
<1>4. WatchersTyped'
  BY <1>1, <1>3 DEF Types, WatchersTyped, ProcessesKept, ContextsKept
<1>5. QED
  BY <1>2, <1>4

\* The steps of a request between its calls, and the last Save.
LEMMA RequestTypes ==
    ASSUME Types, NEW r \in Req,
           BeginCreate(r) \/ BeginDelete(r) \/ PostTunnel(r) \/ GetToken(r)
           \/ SetTunnel(r) \/ SaveCreate(r) \/ DeleteTunnel(r) \/ ClearTunnel(r)
           \/ UnsetTunnelID(r) \/ SaveDelete(r)
    PROVE  Types'
<1>1. /\ UNCHANGED <<managerVars, osVars>>
      /\ pc' \in [Actor -> ReqLabels \cup MainLabels]
      /\ \A q \in Actor : q # r => pc'[q] = pc[q] /\ job'[q] = job[q]
  BY DEF Types, JobsTyped, BeginCreate, BeginDelete, PostTunnel, GetToken, SetTunnel,
         SaveCreate, DeleteTunnel, ClearTunnel, UnsetTunnelID, SaveDelete, Goto, Finish,
         ReqLabels, Actor, managerVars, osVars
<1>2. Grows
  BY TunnelAssumption
     DEF Types, CloudTyped, Grows, BeginCreate, BeginDelete, PostTunnel, GetToken,
         SetTunnel, SaveCreate, DeleteTunnel, ClearTunnel, UnsetTunnelID, SaveDelete, cfVars
<1>3. CloudTyped'
  BY <1>2, TunnelAssumption
     DEF Types, CloudTyped, JobsTyped, Known, Grows, BeginCreate, BeginDelete, PostTunnel,
         GetToken, SetTunnel, SaveCreate, DeleteTunnel, ClearTunnel, UnsetTunnelID,
         SaveDelete, Save, cfVars, storeVars, Actor
<1>4. ProcessesTyped' /\ WatchersTyped' /\ ManagerTyped'
  BY <1>1, <1>2, UnchangedKept, OsTypesKept
     DEF Types, ManagerTyped, managerVars, osVars
<1>5. CountersTyped'
  BY TunnelAssumption
     DEF Types, CountersTyped, BeginCreate, BeginDelete, PostTunnel, GetToken, SetTunnel,
         SaveCreate, DeleteTunnel, ClearTunnel, UnsetTunnelID, SaveDelete, Save, Fail,
         counters
<1>6. JobsTyped'
  <2> DEFINE Job(known) == [tid : known, cmd : DOMAIN cmds \cup {NoCmd},
                            ctx : DOMAIN ctxs \cup {NoCtx}]
  <2>1. Known \subseteq Known' /\ info \in Known /\ NoTunnel \in Known
    BY <1>2 DEF Grows, Known, Types, CloudTyped
  <2>2. \A q \in Actor : job[q] \in Job(Known')
    BY <2>1 DEF Types, JobsTyped
  <2>3. /\ job'[r] \in Job(Known')
        /\ pc'[r] \in {"token", "set", "saveCreate", "start"} => job'[r].tid # NoTunnel
        /\ pc'[r] \notin {"kill", "wait", "collect", "result"}
    <3>1. CASE PostTunnel(r)
      <4>1. created' \in Nat /\ (pc'[r] = "token" => created' \in 1..created' /\ created' \in Tunnel)
        BY <1>2, <3>1, TunnelAssumption
           DEF Grows, PostTunnel, Tunnel, Goto, Finish, Actor, Types, JobsTyped, CloudTyped
      <4>2. \/ pc'[r] = "token" /\ job'[r] = [job[r] EXCEPT !.tid = created']
            \/ pc'[r] = "idle" /\ job'[r] = Idle
        BY <3>1 DEF PostTunnel, Goto, Finish, Actor, Types, JobsTyped
      <4>3. QED
        BY <2>2, <4>1, <4>2, TunnelAssumption DEF Idle, Known, Actor
    <3>2. CASE ~PostTunnel(r)
      <4>1. \/ job'[r] = job[r]
               /\ (pc'[r] \in {"token", "set", "saveCreate", "start"}
                       => pc[r] \in {"token", "set", "saveCreate", "start"})
               /\ pc'[r] \notin {"kill", "wait", "collect", "result"}
            \/ pc'[r] = "idle" /\ job'[r] = Idle
            \/ pc'[r] = "take" /\ job'[r] = [job[r] EXCEPT !.tid = info]
        BY <3>2 DEF Types, JobsTyped, BeginCreate, BeginDelete, GetToken,
           SetTunnel, SaveCreate, DeleteTunnel, ClearTunnel, UnsetTunnelID,
           SaveDelete, Goto, Finish, Actor
      <4>2. QED
        BY <2>1, <2>2, <4>1 DEF Idle, Actor, Types, JobsTyped
    <3>3. QED
      BY <3>1, <3>2
  <2>4. job' \in [Actor -> Job(Known')]
    <3>1. DOMAIN job' = Actor /\ job' = [q \in Actor |-> job'[q]]
      BY DEF Types, JobsTyped, BeginCreate, BeginDelete, PostTunnel, GetToken,
             SetTunnel, SaveCreate, DeleteTunnel, ClearTunnel, UnsetTunnelID,
             SaveDelete, Finish
    <3>2. QED
      BY <1>1, <2>2, <2>3, <3>1
  <2>5. pc'[r] \in ReqLabels /\ Main # r
    BY TunnelAssumption
       DEF Types, JobsTyped, BeginCreate, BeginDelete, PostTunnel, GetToken,
           SetTunnel, SaveCreate, DeleteTunnel, ClearTunnel, UnsetTunnelID,
           SaveDelete, Goto, Finish, ReqLabels, Actor
  <2>6. QED
    BY <1>1, <2>3, <2>4, <2>5 DEF Types, JobsTyped, Actor, osVars
<1>7. QED
  BY <1>3, <1>4, <1>5, <1>6 DEF Types

\* startProcess at the end of a creation.
LEMMA StartTypes ==
    ASSUME Types, NEW r \in Req, StartProcess(r)
    PROVE  Types'
<1> DEFINE t == job[r].tid
           n == Len(ctxs) + 1
<1>1. /\ pc[r] = "start" /\ t \in 1..created /\ t \in Tunnel
      /\ UNCHANGED <<cfVars, storeVars, exits, restarts>> /\ startProcess(t)
      /\ r \in Actor
  BY TunnelAssumption
     DEF StartProcess, Types, CloudTyped, JobsTyped, Known, Tunnel, Actor
<1>2. /\ pc' = [pc EXCEPT ![r] = "idle"] /\ job' = [job EXCEPT ![r] = Idle]
  BY DEF StartProcess, Finish, Goto
<1>3. CloudTyped'
  BY <1>1 DEF Types, CloudTyped, Known, cfVars, storeVars
<1>4. CountersTyped'
  <2>1. \/ failures' = failures
        \/ failures < MaxFailures /\ failures' = failures + 1
    BY <1>1 DEF startProcess, Fail
  <2>2. QED
    BY <1>1, <2>1, TunnelAssumption DEF Types, CountersTyped
<1>5. ASSUME DOMAIN cmds \subseteq DOMAIN cmds', DOMAIN ctxs \subseteq DOMAIN ctxs'
      PROVE  JobsTyped'
  <2>1. created' = created
    BY <1>1 DEF cfVars
  <2>2. Idle \in [tid : Known', cmd : DOMAIN cmds' \cup {NoCmd},
                  ctx : DOMAIN ctxs' \cup {NoCtx}]
    BY DEF Idle, Known
  <2>3. job' \in [Actor -> [tid : Known', cmd : DOMAIN cmds' \cup {NoCmd},
                            ctx : DOMAIN ctxs' \cup {NoCtx}]]
    BY <1>1, <1>2, <1>5, <2>1, <2>2 DEF Types, JobsTyped, Known
  <2>4. pc' \in [Actor -> ReqLabels \cup MainLabels] /\ Main # r
    BY <1>1, <1>2, TunnelAssumption DEF Types, JobsTyped, ReqLabels
  <2>5. QED
    BY <1>1, <1>2, <2>3, <2>4 DEF Types, JobsTyped, Actor, ReqLabels
<1>6. CASE running
  <2>1. UNCHANGED <<managerVars, osVars>> /\ Grows
    BY <1>1, <1>6, TunnelAssumption
       DEF startProcess, Grows, Types, CloudTyped, cfVars
  <2>2. ProcessesTyped' /\ WatchersTyped' /\ ManagerTyped'
    BY <2>1, UnchangedKept, OsTypesKept DEF Types, ManagerTyped, managerVars, osVars
  <2>3. QED
    BY <1>3, <1>4, <1>5, <2>1, <2>2 DEF Types, osVars
<1>7. CASE ~running
  <2>1. /\ Len(ctxs) \in Nat /\ n <= MaxStarts /\ n \in Ctx /\ cancel' = n
        /\ created' = created
    <3>1. Len(ctxs) < MaxStarts /\ cancel' = n /\ created' = created
      BY <1>1, <1>7 DEF startProcess, cfVars
    <3>2. QED
      BY <3>1, TunnelAssumption DEF Types, WatchersTyped, Ctx
  <2>2. CASE LaunchSucceeds(n, t) /\ ctxs' = NewContext(t, "read", FALSE)
    <3>1. Launched(n, t) /\ ContextMade(t, "read", FALSE)
      BY <1>1, <2>1, <2>2, LaunchAdds, ContextAdds DEF WatcherLabels
    <3>2. ProcessesTyped'
      BY <1>1, <2>1, <3>1 DEF Types, ProcessesTyped, Launched, ContextMade, Process
    <3>3. WatchersTyped'
      <4>1. \A w \in DOMAIN ctxs :
                ctxs[w].pc = "result" => ctxs[w].cmd \in DOMAIN cmds
        BY DEF Types, WatchersTyped
      <4>2. QED
        BY <1>1, <2>1, <3>1, <4>1 DEF Types, WatchersTyped, Launched, ContextMade
    <3>4. ManagerTyped'
      BY <2>1, <3>1 DEF ManagerTyped, Launched, ContextMade, LaunchSucceeds
    <3>5. DOMAIN cmds \subseteq DOMAIN cmds' /\ DOMAIN ctxs \subseteq DOMAIN ctxs'
      BY <3>1 DEF Launched, ContextMade
    <3>6. QED
      BY <1>3, <1>4, <1>5, <3>2, <3>3, <3>4, <3>5 DEF Types
  <2>3. CASE /\ ctxs' = NewContext(t, "done", TRUE)
             /\ cmds' = cmds /\ cmd' = cmd /\ running' = running
    <3>1. ContextMade(t, "done", TRUE)
      BY <1>1, <2>1, <2>3, ContextAdds DEF WatcherLabels
    <3>2. cmds' = cmds /\ cmd' = cmd /\ running' = running
      BY <2>3
    <3>3. ProcessesTyped'
      BY <2>1, <3>1, <3>2 DEF Types, ProcessesTyped, ContextMade
    <3>4. WatchersTyped'
      BY <1>1, <2>1, <3>1, <3>2 DEF Types, WatchersTyped, ContextMade
    <3>5. ManagerTyped'
      BY <2>1, <3>1, <3>2 DEF Types, ManagerTyped, ContextMade
    <3>6. DOMAIN cmds \subseteq DOMAIN cmds' /\ DOMAIN ctxs \subseteq DOMAIN ctxs'
      BY <3>1, <3>2 DEF ContextMade
    <3>7. QED
      BY <1>3, <1>4, <1>5, <3>3, <3>4, <3>5, <3>6 DEF Types
  <2>4. QED
    BY <1>1, <1>7, <2>2, <2>3 DEF startProcess
<1>8. QED
  BY <1>6, <1>7

\* Stop, by whoever calls it.
LEMMA StopTypes ==
    ASSUME Types, NEW p \in Actor, StopSteps(p)
    PROVE  Types'
<1>1. /\ UNCHANGED <<cfVars, storeVars, counters>>
      /\ pc' \in [Actor -> ReqLabels \cup MainLabels]
      /\ \A q \in Actor : q # p => pc'[q] = pc[q]
      /\ (p = Main => pc'[p] \in MainLabels) /\ (p # Main => pc'[p] \in ReqLabels)
  BY DEF StopSteps, TakeManager, CallCancel, Kill, Wait, Goto, AfterStop, Types,
         JobsTyped, ReqLabels, MainLabels
<1>2. CloudTyped' /\ CountersTyped' /\ Grows
  BY <1>1, TunnelAssumption
     DEF Types, CloudTyped, CountersTyped, Known, Grows, cfVars, storeVars, counters
<1>3. ProcessesKept
  <2>1. CASE TakeManager(p) \/ CallCancel(p)
    BY <2>1, UnchangedKept DEF TakeManager, CallCancel, osVars
  <2>2. pc[p] \in {"kill", "collect", "result"} => job[p].cmd \in DOMAIN cmds
    BY DEF Types, JobsTyped
  <2>3. CASE Kill(p)
    BY <2>2, <2>3, DeathKept DEF Kill
  <2>4. CASE Wait(p)
    BY <2>2, <2>4, UnchangedKept, CollectKept, ResultKept DEF Wait
  <2>5. QED
    BY <2>1, <2>3, <2>4 DEF StopSteps
<1>4. ContextsKept
  <2>1. CASE TakeManager(p) \/ Kill(p) \/ Wait(p)
    BY <2>1, UnchangedKept DEF TakeManager, Kill, Wait, osVars
  <2>2. CASE CallCancel(p)
    <3>1. job[p].ctx \in DOMAIN ctxs \cup {NoCtx}
      BY DEF Types, JobsTyped
    <3>2. QED
      BY <2>2, <3>1, UnchangedKept, CancelKept DEF CallCancel
  <2>3. QED
    BY <2>1, <2>2 DEF StopSteps
<1>5. ProcessesTyped' /\ WatchersTyped'
  BY <1>2, <1>3, <1>4, OsTypesKept
<1>6. ManagerTyped'
  BY <1>3, <1>4
     DEF StopSteps, TakeManager, CallCancel, Kill, Wait, Types, ManagerTyped,
         ProcessesKept, ContextsKept, managerVars
<1>7. JobsTyped'
  <2> DEFINE J == [tid : Known, cmd : DOMAIN cmds \cup {NoCmd},
                   ctx : DOMAIN ctxs \cup {NoCtx}]
  <2>1. Known' = Known /\ DOMAIN cmds' = DOMAIN cmds /\ DOMAIN ctxs' = DOMAIN ctxs
    BY <1>1, <1>3, <1>4 DEF Known, cfVars, ProcessesKept, ContextsKept
  <2>2. job \in [Actor -> J]
    BY DEF Types, JobsTyped
  <2>3. /\ job' \in [Actor -> J]
        /\ \A q \in Actor : job'[q].tid = job[q].tid
        /\ \A q \in Actor : q # p => job'[q] = job[q]
    <3>1. CASE job' = job
      BY <2>2, <3>1
    <3>2. CASE TakeManager(p)
      BY <2>2, <3>2 DEF TakeManager, Types, ManagerTyped
    <3>3. QED
      BY <3>1, <3>2 DEF StopSteps, CallCancel, Kill, Wait
  <2>4. pc'[p] \in {"kill", "wait", "collect", "result"} => job'[p].cmd # NoCmd
    BY DEF StopSteps, TakeManager, CallCancel, Kill, Wait, AfterStop, Goto, Types, JobsTyped
  <2>5. pc'[p] \notin {"token", "set", "saveCreate", "start"}
    BY DEF StopSteps, TakeManager, CallCancel, Kill, Wait, AfterStop, Goto, Types, JobsTyped
  <2>6. QED
    BY <1>1, <2>1, <2>3, <2>4, <2>5, TunnelAssumption DEF Types, JobsTyped, Actor
<1>8. QED
  BY <1>2, <1>5, <1>6, <1>7 DEF Types

\* main's cancel() and its last Save, and the ends of processes.
LEMMA OtherTypes ==
    ASSUME Types,
           Shutdown \/ LastSave \/ \E c \in DOMAIN cmds : Exits(c) \/ ContextKills(c)
    PROVE  Types'
<1>1. CASE Shutdown \/ LastSave
  <2>1. /\ pc' \in [Actor -> ReqLabels \cup MainLabels] /\ pc'[Main] \in {"take", "exited"}
        /\ \A r \in Req : pc'[r] = pc[r]
    BY <1>1, TunnelAssumption
       DEF Shutdown, LastSave, Goto, Types, JobsTyped, MainLabels, Actor
  <2>2. /\ UNCHANGED <<managerVars, cmds, job, cfId, created, exists, info>>
        /\ disk' \in {disk, info}
    BY <1>1 DEF Shutdown, LastSave, Save, cfVars, storeVars, osVars
  <2>3. CountersTyped'
    BY <1>1, TunnelAssumption
       DEF Shutdown, LastSave, Save, Fail, Types, CountersTyped, counters
  <2>4. CloudTyped' /\ Grows
    BY <2>2, TunnelAssumption DEF Types, CloudTyped, Known, Grows
  <2>5. ProcessesKept /\ ContextsKept
    <3>1. ctxs' = ctxs \/ ctxs' = [w \in DOMAIN ctxs |-> [ctxs[w] EXCEPT !.cancelled = TRUE]]
      BY <1>1 DEF Shutdown, LastSave, osVars
    <3>2. QED
      BY <2>2, <3>1, UnchangedKept, ShutdownKept
  <2>6. ProcessesTyped' /\ WatchersTyped' /\ ManagerTyped'
    BY <2>2, <2>4, <2>5, OsTypesKept
       DEF Types, ManagerTyped, ProcessesKept, ContextsKept, managerVars
  <2>7. JobsTyped'
    <3>1. /\ Known' = Known /\ DOMAIN cmds' = DOMAIN cmds /\ DOMAIN ctxs' = DOMAIN ctxs
          /\ job' = job
      BY <2>2, <2>5 DEF Known, ProcessesKept, ContextsKept
    <3>2. QED
      BY <2>1, <3>1 DEF Types, JobsTyped, MainLabels, Actor
  <2>8. QED
    BY <2>3, <2>4, <2>6, <2>7 DEF Types
<1>2. ASSUME NEW c \in DOMAIN cmds, Exits(c) \/ ContextKills(c)
      PROVE  Types'
  <2>1. /\ UNCHANGED <<cfVars, storeVars, managerVars, ctxs, pc, job, failures, restarts>>
        /\ exits' \in {exits, exits + 1} /\ (exits' = exits \/ exits < MaxExits)
        /\ cmds' = [cmds EXCEPT ![c].alive = FALSE]
    BY <1>2 DEF Exits, ContextKills, counters
  <2>2. ProcessesKept /\ ContextsKept
    BY <2>1, DeathKept, UnchangedKept
  <2>3. Grows
    BY <2>1, TunnelAssumption DEF Types, CloudTyped, Grows, cfVars
  <2>4. ProcessesTyped' /\ WatchersTyped'
    BY <2>2, <2>3, OsTypesKept
  <2>5. DOMAIN cmds' = DOMAIN cmds
    BY <2>2 DEF ProcessesKept
  <2>6. CountersTyped'
    BY <2>1, TunnelAssumption DEF Types, CountersTyped
  <2>7. CloudTyped'
    BY <2>1 DEF Types, CloudTyped, Known, cfVars, storeVars
  <2>8. ManagerTyped'
    BY <2>1, <2>5 DEF Types, ManagerTyped, managerVars
  <2>9. JobsTyped'
    BY <2>1, <2>5 DEF Types, JobsTyped, Known, cfVars
  <2>10. QED
    BY <2>4, <2>6, <2>7, <2>8, <2>9 DEF Types
<1>3. QED
  BY <1>1, <1>2

\* Where a watcher goes while it launches nothing.
Moves(w) ==
    LET at == ctxs[w].pc
        k == ctxs[w].cmd
    IN  \/ at = "read" /\ cmd = NoCmd /\ WatcherAt(w, "done", cmd)
        \/ at = "read" /\ cmd # NoCmd /\ WatcherAt(w, "wait", cmd)
        \/ at = "wait" /\ WatcherAt(w, "collect", k)
        \/ at = "wait" /\ ~cmds[k].alive /\ WatcherAt(w, "exited", k)
        \/ at = "collect" /\ ~cmds[k].alive /\ WatcherAt(w, "result", k)
        \/ at = "result" /\ WatcherAt(w, "exited", k)
        \/ at = "exited" /\ WatcherAt(w, "sleep", k)
        \/ at = "sleep" /\ WatcherAt(w, "done", k)

Watches(w) ==
    /\ ProcessesKept /\ Moves(w)
    /\ UNCHANGED <<cmd, cancel>> /\ running' \in BOOLEAN
    /\ failures' \in 0..MaxFailures

Relaunches(w) ==
    /\ ctxs[w].pc = "sleep" /\ Active(w)
    /\ Launched(w, ctxs[w].tid) /\ WatcherAt(w, "read", ctxs[w].cmd)
    /\ UNCHANGED <<cancel, failures>>

\* A watcher moves on, or launches its tunnel's process again.
LEMMA WatcherDoes ==
    ASSUME Types, NEW w \in DOMAIN ctxs, WatcherSteps(w)
    PROVE  /\ UNCHANGED <<cfVars, storeVars, pc, job, exits, restarts>>
           /\ Watches(w) \/ Relaunches(w)
<1> DEFINE k == ctxs[w].cmd
<1>1. /\ cmd \in DOMAIN cmds \cup {NoCmd} /\ running \in BOOLEAN
      /\ failures \in 0..MaxFailures /\ MaxFailures \in Nat
  BY TunnelAssumption DEF Types, ManagerTyped, CountersTyped
<1>2. /\ ctxs[w].pc \in {"wait", "collect", "result"} => k \in DOMAIN cmds
      /\ ctxs[w].tid \in Tunnel /\ w \in Ctx
  <2>1. DOMAIN ctxs = 1..Len(ctxs) /\ Len(ctxs) \in Nat /\ ctxs[w] \in CtxRecord
    BY DEF Types, WatchersTyped
  <2>2. QED
    BY <2>1, TunnelAssumption DEF Types, WatchersTyped, CtxRecord, Ctx
<1>3. {"read", "wait", "collect", "result", "exited", "sleep", "done"} = WatcherLabels
  BY DEF WatcherLabels
<1>4. CASE WatcherReads(w) /\ UNCHANGED <<managerVars, failures>>
  <2>1. WatcherAt(w, IF cmd = NoCmd THEN "done" ELSE "wait", cmd)
    BY <1>4, WatcherReadsCmd
  <2>2. ProcessesKept
    BY <1>4, UnchangedKept DEF WatcherReads
  <2>3. QED
    BY <1>1, <1>4, <2>1, <2>2 DEF WatcherSteps, Watches, Moves, WatcherReads, managerVars
<1>5. CASE WatcherWaits(w) /\ UNCHANGED <<managerVars, failures>>
  <2>1. WatcherAt(w, IF cmds[k].ps THEN "exited" ELSE "collect", k)
    BY <1>3, <1>5, WatcherMoves DEF WatcherWaits
  <2>2. cmds[k].ps => ~cmds[k].alive
    BY <1>2, <1>5 DEF WatcherWaits, Types, ProcessesTyped
  <2>3. ProcessesKept
    BY <1>5, UnchangedKept DEF WatcherWaits
  <2>4. QED
    BY <1>1, <1>5, <2>1, <2>2, <2>3 DEF WatcherSteps, Watches, Moves, WatcherWaits, managerVars
<1>6. CASE WatcherCollects(w) /\ UNCHANGED <<managerVars, failures>>
  <2>1. WatcherAt(w, "result", k)
    BY <1>3, <1>6, WatcherMoves DEF WatcherCollects
  <2>2. ProcessesKept /\ ~cmds[k].alive
    BY <1>2, <1>6, CollectKept DEF WatcherCollects
  <2>3. QED
    BY <1>1, <1>6, <2>1, <2>2 DEF WatcherSteps, Watches, Moves, WatcherCollects, managerVars
<1>7. CASE WatcherTakesResult(w) /\ UNCHANGED <<managerVars, failures>>
  <2>1. WatcherAt(w, "exited", k)
    BY <1>3, <1>7, WatcherMoves DEF WatcherTakesResult
  <2>2. ProcessesKept
    BY <1>2, <1>7, ResultKept DEF WatcherTakesResult
  <2>3. QED
    BY <1>1, <1>7, <2>1, <2>2 DEF WatcherSteps, Watches, Moves, WatcherTakesResult, managerVars
<1>8. CASE WatcherMarks(w)
  <2>1. WatcherAt(w, "sleep", k)
    BY <1>3, <1>8, WatcherMoves DEF WatcherMarks
  <2>2. ProcessesKept
    BY <1>8, UnchangedKept DEF WatcherMarks
  <2>3. QED
    BY <1>1, <1>8, <2>1, <2>2 DEF WatcherSteps, Watches, Moves, WatcherMarks
<1>9. CASE WatcherEnds(w)
  <2>1. WatcherAt(w, "done", k)
    BY <1>3, <1>9, WatcherMoves DEF WatcherEnds
  <2>2. ProcessesKept
    BY <1>9, UnchangedKept DEF WatcherEnds
  <2>3. QED
    BY <1>1, <1>9, <2>1, <2>2 DEF WatcherSteps, Watches, Moves, WatcherEnds, managerVars
<1>10. CASE Relaunch(w)
  <2>1. CASE LaunchSucceeds(w, ctxs[w].tid) /\ WatcherGoto(w, "read")
             /\ UNCHANGED <<cancel, failures>>
    <3>1. Launched(w, ctxs[w].tid)
      BY <1>2, <2>1, LaunchAdds
    <3>2. WatcherAt(w, "read", k)
      BY <1>3, <2>1, WatcherMoves
    <3>3. QED
      BY <1>10, <2>1, <3>1, <3>2 DEF WatcherSteps, Relaunches, Relaunch, Active
  <2>2. CASE Fail /\ WatcherGoto(w, "done") /\ UNCHANGED <<cmds, managerVars>>
    <3>1. WatcherAt(w, "done", k)
      BY <1>3, <2>2, WatcherMoves
    <3>2. ProcessesKept
      BY <2>2, UnchangedKept
    <3>3. failures' \in 0..MaxFailures
      BY <1>1, <2>2 DEF Fail
    <3>4. QED
      BY <1>1, <1>10, <2>2, <3>1, <3>2, <3>3
         DEF WatcherSteps, Watches, Moves, Relaunch, managerVars
  <2>3. QED
    BY <1>10, <2>1, <2>2 DEF Relaunch
<1>11. QED
  BY <1>4, <1>5, <1>6, <1>7, <1>8, <1>9, <1>10 DEF WatcherSteps

\* Any step of a watcher keeps the types.
LEMMA WatcherTypes ==
    ASSUME Types, NEW w \in DOMAIN ctxs, WatcherSteps(w)
    PROVE  Types'
<1>1. /\ UNCHANGED <<cfVars, storeVars, pc, job, exits, restarts>>
      /\ Watches(w) \/ Relaunches(w)
  BY WatcherDoes
<1>2. CloudTyped' /\ Known' = Known /\ created' = created
  BY <1>1 DEF Types, CloudTyped, Known, cfVars, storeVars
<1>3. CountersTyped'
  BY <1>1 DEF Types, CountersTyped, Watches, Relaunches
<1>4. /\ DOMAIN cmds \subseteq DOMAIN cmds' /\ DOMAIN ctxs' = DOMAIN ctxs
      /\ ctxs' \in Seq(CtxRecord) /\ Len(ctxs') = Len(ctxs)
      /\ \A v \in DOMAIN ctxs : ctxs'[v].tid = ctxs[v].tid
  BY <1>1 DEF Watches, Moves, Relaunches, ProcessesKept, Launched, WatcherAt
<1>5. JobsTyped'
  BY <1>1, <1>2, <1>4 DEF Types, JobsTyped
<1>6. CASE Watches(w)
  <2>1. ManagerTyped'
    BY <1>4, <1>6 DEF Types, ManagerTyped, Watches
  <2>2. ProcessesTyped'
    BY <1>2, <1>4, <1>6 DEF Types, ProcessesTyped, Watches, ProcessesKept
  <2>3. WatchersTyped'
    <3>1. DOMAIN cmds' = DOMAIN cmds
      BY <1>6 DEF Watches, ProcessesKept
    <3>2. \A v \in DOMAIN ctxs :
             ctxs[v].pc = "result" => ctxs[v].cmd \in DOMAIN cmds
      BY DEF Types, WatchersTyped
    <3>3. \A c \in DOMAIN cmds : cmds'[c].alive => cmds[c].alive
      BY <1>6 DEF Watches, ProcessesKept
    <3>4. /\ ctxs'[w].cmd \in DOMAIN cmds \cup {NoCmd}
          /\ ctxs'[w].pc \in {"wait", "collect", "result"} => ctxs'[w].cmd # NoCmd
          /\ ctxs'[w].pc = "result" => ~cmds[ctxs'[w].cmd].alive
      BY <1>6 DEF Watches, Moves, WatcherAt, Types, WatchersTyped, ManagerTyped
    <3>5. \A v \in DOMAIN ctxs :
             v # w => ctxs'[v].pc = ctxs[v].pc /\ ctxs'[v].cmd = ctxs[v].cmd
      BY <1>6 DEF Watches, Moves, WatcherAt
    <3>6. QED
      BY <1>2, <1>4, <3>1, <3>2, <3>3, <3>4, <3>5 DEF Types, WatchersTyped
  <2>4. QED
    BY <1>2, <1>3, <1>5, <2>1, <2>2, <2>3 DEF Types
<1>7. CASE Relaunches(w)
  <2>1. /\ cmds' \in Seq(CmdRecord) /\ Len(cmds') <= MaxLaunches
        /\ DOMAIN cmds' = 1..(Len(cmds) + 1) /\ DOMAIN cmds = 1..Len(cmds)
        /\ Len(cmds) \in Nat
        /\ \A c \in DOMAIN cmds : cmds'[c] = cmds[c]
        /\ cmds'[Len(cmds) + 1] = Process(w, ctxs[w].tid)
        /\ cmd' = Len(cmds) + 1 /\ running' \in BOOLEAN /\ cancel' = cancel
    BY <1>7 DEF Relaunches, Launched
  <2>2. /\ \A v \in DOMAIN ctxs :
              v # w => ctxs'[v].pc = ctxs[v].pc /\ ctxs'[v].cmd = ctxs[v].cmd
        /\ ctxs'[w].pc = "read" /\ ctxs'[w].cmd = ctxs[w].cmd
    BY <1>7 DEF Relaunches, WatcherAt
  <2>3. ManagerTyped'
    <3>1. cmd' \in DOMAIN cmds'
      BY <2>1
    <3>2. cancel' \in DOMAIN ctxs' \cup {NoCtx}
      BY <1>4, <2>1 DEF Types, ManagerTyped
    <3>3. QED
      BY <2>1, <3>1, <3>2 DEF ManagerTyped
  <2>4. ProcessesTyped'
    <3>1. ctxs[w].tid \in 1..created
      BY DEF Types, WatchersTyped
    <3>2. /\ Process(w, ctxs[w].tid).tid = ctxs[w].tid
          /\ Process(w, ctxs[w].tid).ctx = w
          /\ ~Process(w, ctxs[w].tid).ps
      BY DEF Process
    <3>3. ASSUME NEW c \in DOMAIN cmds'
          PROVE  /\ cmds'[c].tid \in 1..created
                 /\ cmds'[c].ctx \in DOMAIN ctxs
                 /\ cmds'[c].ps => ~cmds'[c].alive
      <4>1. CASE c \in DOMAIN cmds
        BY <2>1, <4>1 DEF Types, ProcessesTyped
      <4>2. CASE c \notin DOMAIN cmds
        <5>1. c = Len(cmds) + 1
          BY ONLY <2>1, <3>3, <4>2
        <5>2. QED
          BY ONLY <2>1, <3>1, <3>2, <5>1, w \in DOMAIN ctxs
      <4>3. QED
        BY <4>1, <4>2
    <3>4. QED
      BY ONLY <1>2, <1>4, <2>1, <3>3 DEF ProcessesTyped
  <2>5. WatchersTyped'
    <3>1. ASSUME NEW v \in DOMAIN ctxs
          PROVE  /\ ctxs'[v].tid \in 1..created
                 /\ ctxs'[v].cmd \in DOMAIN cmds' \cup {NoCmd}
                 /\ ctxs'[v].pc \in {"wait", "collect", "result"} => ctxs'[v].cmd # NoCmd
                 /\ ctxs'[v].pc = "result" => ~cmds'[ctxs'[v].cmd].alive
      <4>1. /\ ctxs[v].tid \in 1..created
            /\ ctxs[v].cmd \in DOMAIN cmds \cup {NoCmd}
            /\ ctxs[v].pc \in {"wait", "collect", "result"} => ctxs[v].cmd # NoCmd
            /\ ctxs[v].pc = "result" => ctxs[v].cmd \in DOMAIN cmds /\ ~cmds[ctxs[v].cmd].alive
        BY DEF Types, WatchersTyped
      <4>2. CASE v = w
        BY ONLY <1>4, <2>2, <4>1, <4>2, <3>1
      <4>3. CASE v # w
        BY ONLY <1>4, <2>1, <2>2, <4>1, <4>3, <3>1
      <4>4. QED
        BY <4>2, <4>3
    <3>2. Len(ctxs) <= MaxStarts
      BY DEF Types, WatchersTyped
    <3>3. QED
      BY ONLY <1>2, <1>4, <3>1, <3>2 DEF WatchersTyped
  <2>6. QED
    BY <1>2, <1>3, <1>5, <2>3, <2>4, <2>5 DEF Types
<1>8. QED
  BY <1>1, <1>6, <1>7

\* A start-up, with the process of the tunnel on disk or without one.
LEMMA RestartTypes ==
    ASSUME Types, Restart
    PROVE  Types'
<1>1. /\ disk \in Known /\ info' = disk /\ disk' = disk
      /\ created' = created /\ exists' = exists
      /\ cfId' \in Known \cup {Adopted} /\ restarts' \in 0..MaxRestarts
      /\ exits' = exits
      /\ StartIfConfigured(disk)
  BY TunnelAssumption DEF Restart, Types, CloudTyped, CountersTyped
<1>2. pc' = AllIdle /\ job' = [p \in Actor |-> Idle]
  BY DEF Restart, Actor
<1>3. CloudTyped'
  BY <1>1 DEF Types, CloudTyped, Known
<1>4. JobsTyped'
  BY <1>2, TunnelAssumption
     DEF JobsTyped, AllIdle, Idle, Known, Actor, ReqLabels, MainLabels
<1>5. failures' \in 0..MaxFailures
  BY <1>1, TunnelAssumption DEF StartIfConfigured, Fail, Types, CountersTyped
<1>6. CASE disk = NoTunnel
  <2>1. /\ cmd' = NoCmd /\ running' = FALSE /\ cancel' = NoCtx
        /\ cmds' = <<>> /\ ctxs' = <<>>
    BY <1>1, <1>6 DEF StartIfConfigured
  <2>2. /\ cmds' \in Seq(CmdRecord) /\ Len(cmds') = 0 /\ DOMAIN cmds' = {}
        /\ ctxs' \in Seq(CtxRecord) /\ Len(ctxs') = 0 /\ DOMAIN ctxs' = {}
    BY <2>1
  <2>3. ManagerTyped'
    BY <2>1 DEF ManagerTyped
  <2>4. ProcessesTyped' /\ WatchersTyped'
    BY <2>2, TunnelAssumption DEF ProcessesTyped, WatchersTyped
  <2>5. QED
    BY <1>1, <1>3, <1>4, <1>5, <2>3, <2>4 DEF Types, CountersTyped
<1>7. CASE disk # NoTunnel
  <2> DEFINE p == Process(1, disk)
             good == [tid |-> disk, cancelled |-> FALSE, pc |-> "read", cmd |-> NoCmd]
             bad == [tid |-> disk, cancelled |-> TRUE, pc |-> "done", cmd |-> NoCmd]
  <2>1. /\ 1 \in Ctx /\ 1 \in CmdId /\ disk \in Tunnel /\ disk \in 1..created
        /\ 1 <= MaxStarts /\ 1 <= MaxLaunches
    BY <1>1, <1>7, TunnelAssumption DEF Ctx, CmdId, Known, Tunnel, Types, CloudTyped
  <2>2. p \in CmdRecord /\ good \in CtxRecord /\ bad \in CtxRecord
    BY <2>1 DEF Process, CmdRecord, CtxRecord, WatcherLabels
  <2>3. cancel' = 1
    BY <1>1, <1>7 DEF StartIfConfigured
  <2>4. CASE cmd' = 1 /\ running' = TRUE /\ cmds' = <<p>> /\ ctxs' = <<good>>
    <3>1. /\ cmds' \in Seq(CmdRecord) /\ Len(cmds') = 1 /\ DOMAIN cmds' = {1}
          /\ cmds'[1] = p
      BY <2>2, <2>4
    <3>2. /\ ctxs' \in Seq(CtxRecord) /\ Len(ctxs') = 1 /\ DOMAIN ctxs' = {1}
          /\ ctxs'[1] = good
      BY <2>2, <2>4
    <3>3. ProcessesTyped'
      BY <1>1, <2>1, <3>1, <3>2 DEF ProcessesTyped, Process
    <3>4. WatchersTyped'
      BY <1>1, <2>1, <3>1, <3>2 DEF WatchersTyped
    <3>5. ManagerTyped'
      BY <2>3, <2>4, <3>1, <3>2 DEF ManagerTyped
    <3>6. QED
      BY <1>1, <1>3, <1>4, <1>5, <3>3, <3>4, <3>5 DEF Types, CountersTyped
  <2>5. CASE cmd' = NoCmd /\ running' = FALSE /\ cmds' = <<>> /\ ctxs' = <<bad>>
    <3>1. cmds' \in Seq(CmdRecord) /\ Len(cmds') = 0 /\ DOMAIN cmds' = {}
      BY <2>5
    <3>2. /\ ctxs' \in Seq(CtxRecord) /\ Len(ctxs') = 1 /\ DOMAIN ctxs' = {1}
          /\ ctxs'[1] = bad
      BY <2>2, <2>5
    <3>3. ProcessesTyped'
      BY <3>1, TunnelAssumption DEF ProcessesTyped
    <3>4. WatchersTyped'
      BY <1>1, <2>1, <3>2 DEF WatchersTyped
    <3>5. ManagerTyped'
      BY <2>3, <2>5, <3>2 DEF ManagerTyped
    <3>6. QED
      BY <1>1, <1>3, <1>4, <1>5, <3>3, <3>4, <3>5 DEF Types, CountersTyped
  <2>6. QED
    BY <1>1, <1>7, <2>4, <2>5 DEF StartIfConfigured
<1>8. QED
  BY <1>6, <1>7

\* Nothing is configured, nothing runs.
LEMMA InitTypes == Init => Types
<1> SUFFICES ASSUME Init
             PROVE  Types
  OBVIOUS
<1>1. /\ cmds \in Seq(CmdRecord) /\ Len(cmds) = 0 /\ DOMAIN cmds = {}
      /\ ctxs \in Seq(CtxRecord) /\ Len(ctxs) = 0 /\ DOMAIN ctxs = {}
  BY DEF Init
<1>2. ManagerTyped
  BY DEF Init, ManagerTyped
<1>3. ProcessesTyped /\ WatchersTyped
  BY <1>1, TunnelAssumption DEF ProcessesTyped, WatchersTyped
<1>4. CloudTyped /\ CountersTyped
  BY TunnelAssumption DEF Init, CloudTyped, CountersTyped, Known
<1>5. JobsTyped
  BY TunnelAssumption
     DEF Init, JobsTyped, AllIdle, Idle, Known, Actor, ReqLabels, MainLabels
<1>6. QED
  BY <1>2, <1>3, <1>4, <1>5 DEF Types

\* Every step keeps the types.
LEMMA NextTypes ==
    ASSUME Types, [Next]_vars
    PROVE  Types'
<1>1. CASE Lantern
  <2>1. ASSUME NEW r \in Req, BeginCreate(r) \/ BeginDelete(r) \/ RequestSteps(r)
        PROVE  Types'
    BY <2>1, RequestTypes, StartTypes DEF RequestSteps
  <2>2. ASSUME NEW p \in Actor, StopSteps(p)
        PROVE  Types'
    BY <2>2, StopTypes
  <2>3. ASSUME NEW w \in DOMAIN ctxs, WatcherSteps(w)
        PROVE  Types'
    BY <2>3, WatcherTypes
  <2>4. CASE Shutdown \/ LastSave \/ \E c \in DOMAIN cmds : Exits(c) \/ ContextKills(c)
    BY <2>4, OtherTypes
  <2>5. QED
    BY <1>1, <2>1, <2>2, <2>3, <2>4 DEF Lantern, Actor
<1>2. CASE Restart
  BY <1>2, RestartTypes
<1>3. CASE UNCHANGED vars
  BY <1>3
     DEF vars, cfVars, storeVars, managerVars, osVars, counters, Types, CloudTyped,
         ManagerTyped, ProcessesTyped, WatchersTyped, JobsTyped, CountersTyped, Known
<1>4. QED
  BY <1>1, <1>2, <1>3 DEF Next

\* manager.go holds only processes and contexts it has made, and tunnels that
\* Cloudflare has: for any number of requests at a time.
THEOREM TunnelTyped == Spec => []TypeOK
<1>1. Types => TypeOK
  <2> SUFFICES ASSUME Types
               PROVE  TypeOK
    OBVIOUS
  <2>1. \A c \in DOMAIN cmds : cmds[c] \in CmdRecord
    BY DEF Types, ProcessesTyped
  <2>2. \A c \in DOMAIN cmds :
            cmds[c] \in [tid : 1..created, ctx : DOMAIN ctxs, alive : BOOLEAN,
                         ps : BOOLEAN, collected : BOOLEAN, sent : BOOLEAN]
    BY <2>1 DEF Types, ProcessesTyped, CmdRecord
  <2>3. \A w \in DOMAIN ctxs : ctxs[w] \in CtxRecord
    BY DEF Types, WatchersTyped
  <2>4. \A w \in DOMAIN ctxs :
            ctxs[w] \in [tid : 1..created, cancelled : BOOLEAN,
                         pc : WatcherLabels, cmd : DOMAIN cmds \cup {NoCmd}]
    BY <2>3 DEF Types, WatchersTyped, CtxRecord
  <2>5. QED
    BY <2>2, <2>4
       DEF Types, CloudTyped, ManagerTyped, ProcessesTyped, WatchersTyped, JobsTyped,
           CountersTyped, Known, Actor, TypeOK
<1>2. Types /\ [Next]_vars => Types'
  BY NextTypes
<1>3. QED
  BY <1>1, <1>2, InitTypes, PTL DEF Spec

-----------------------------------------------------------------------------
(***************************************************************************)
(* Stop and shutdown, for any number of requests: what a Stop has taken is *)
(* stopped for good, and so is everything once main is told to stop.       *)
(***************************************************************************)
\* Where a Stop has cancelled the context it took, and where it has killed the
\* process too.
StoppedLabels ==
    {"wait", "collect", "result", "deleteTunnel", "clear", "unset", "saveDelete",
     "lastSave", "exited"}
CancelledLabels == StoppedLabels \cup {"kill"}

StopHolds ==
    \A p \in Actor :
        /\ pc[p] \in CancelledLabels /\ job[p].ctx # NoCtx => ctxs[job[p].ctx].cancelled
        /\ pc[p] \in StoppedLabels /\ job[p].cmd # NoCmd => ~cmds[job[p].cmd].alive

ShutdownHolds == RootDone => \A w \in DOMAIN ctxs : ctxs[w].cancelled

StopInv == Types /\ StopHolds /\ ShutdownHolds

\* Dead processes stay dead and cancelled contexts cancelled; what is launched
\* has a context that is not cancelled, and none such is made after the signal.
Grown ==
    /\ DOMAIN cmds \subseteq DOMAIN cmds' /\ DOMAIN ctxs \subseteq DOMAIN ctxs'
    /\ \A c \in DOMAIN cmds : /\ cmds'[c].alive => cmds[c].alive
                              /\ cmds'[c].ctx = cmds[c].ctx
    /\ \A w \in DOMAIN ctxs : ctxs[w].cancelled => ctxs'[w].cancelled
    /\ \A w \in DOMAIN ctxs' \ DOMAIN ctxs : RootDone => ctxs'[w].cancelled
    /\ \A c \in DOMAIN cmds' \ DOMAIN cmds :
           cmds'[c].ctx \in DOMAIN ctxs' /\ ~ctxs'[cmds'[c].ctx].cancelled

\* Steps that launch nothing and make no context.
LEMMA KeptGrow == ASSUME ProcessesKept, ContextsKept PROVE Grown
BY DEF ProcessesKept, ContextsKept, Grown

\* startProcess makes a context, done or with a process.
LEMMA StartGrows == ASSUME Types, NEW r \in Req, StartProcess(r) PROVE Grown
<1> DEFINE t == job[r].tid
           n == Len(ctxs) + 1
<1>1. t \in Tunnel /\ startProcess(t)
  BY TunnelAssumption DEF StartProcess, Types, CloudTyped, JobsTyped, Known, Tunnel, Actor
<1>2. CASE running
  <2>1. ProcessesKept /\ ContextsKept
    BY <1>1, <1>2, UnchangedKept DEF startProcess, osVars
  <2> QED BY <2>1, KeptGrow
<1>3. CASE ~running
  <2>1. n \in Ctx
    <3>1. Len(ctxs) < MaxStarts
      BY <1>1, <1>3 DEF startProcess
    <3>2. Len(ctxs) \in Nat
      BY DEF Types, WatchersTyped
    <3> QED BY <3>1, <3>2, TunnelAssumption DEF Ctx
  <2>2. CASE ~RootDone /\ LaunchSucceeds(n, t) /\ ctxs' = NewContext(t, "read", FALSE)
    <3>1. Launched(n, t) /\ ContextMade(t, "read", FALSE)
      BY <1>1, <2>1, <2>2, LaunchAdds, ContextAdds DEF WatcherLabels
    <3>2. \A c \in DOMAIN cmds' \ DOMAIN cmds : c = Len(cmds) + 1
      BY <3>1 DEF Launched
    <3>3. \A w \in DOMAIN ctxs' \ DOMAIN ctxs : w = n
      BY <3>1 DEF ContextMade
    <3>4. /\ cmds'[Len(cmds) + 1].ctx = n /\ n \in DOMAIN ctxs' /\ ~ctxs'[n].cancelled
          /\ DOMAIN cmds \subseteq DOMAIN cmds' /\ DOMAIN ctxs \subseteq DOMAIN ctxs'
      BY <3>1 DEF Launched, ContextMade, Process
    <3>5. /\ \A c \in DOMAIN cmds : cmds'[c] = cmds[c]
          /\ \A w \in DOMAIN ctxs : ctxs'[w] = ctxs[w]
      BY <3>1 DEF Launched, ContextMade
    <3> QED BY <2>2, <3>2, <3>3, <3>4, <3>5 DEF Grown
  <2>3. CASE ctxs' = NewContext(t, "done", TRUE) /\ cmds' = cmds
    <3>1. ContextMade(t, "done", TRUE)
      BY <1>1, <2>3, ContextAdds DEF WatcherLabels
    <3>2. \A w \in DOMAIN ctxs' \ DOMAIN ctxs : ctxs'[w].cancelled
      BY <3>1 DEF ContextMade
    <3>3. /\ DOMAIN ctxs \subseteq DOMAIN ctxs'
          /\ \A w \in DOMAIN ctxs : ctxs'[w] = ctxs[w]
      BY <3>1 DEF ContextMade
    <3> QED BY <2>3, <3>2, <3>3 DEF Grown
  <2> QED BY <1>1, <1>3, <2>2, <2>3 DEF startProcess
<1> QED BY <1>2, <1>3

\* A watcher relaunches only while its context is not cancelled.
LEMMA WatcherGrows == ASSUME Types, NEW w \in DOMAIN ctxs, WatcherSteps(w) PROVE Grown
<1>1. CASE Watches(w)
  BY <1>1 DEF Watches, Moves, ProcessesKept, WatcherAt, Grown
<1>2. CASE Relaunches(w)
  BY <1>2 DEF Relaunches, Active, Launched, WatcherAt, Process, Grown
<1> QED BY <1>1, <1>2, WatcherDoes

\* A Stop launches nothing, and goes on from what it has cancelled and killed.
LEMMA StopGrows ==
    ASSUME StopInv, NEW p \in Actor, StopSteps(p)
    PROVE  /\ Grown
           /\ \A q \in Actor : q # p => pc'[q] = pc[q] /\ job'[q] = job[q]
           /\ pc'[p] \in CancelledLabels /\ job'[p].ctx # NoCtx
                  => ctxs'[job'[p].ctx].cancelled
           /\ pc'[p] \in StoppedLabels /\ job'[p].cmd # NoCmd
                  => ~cmds'[job'[p].cmd].alive
<1> USE DEF StopInv
<1>1. /\ job[p].cmd \in DOMAIN cmds \cup {NoCmd}
      /\ job[p].ctx \in DOMAIN ctxs \cup {NoCtx}
      /\ pc[p] \in {"kill", "collect", "result"} => job[p].cmd # NoCmd
      /\ DOMAIN pc = Actor /\ DOMAIN job = Actor
  BY DEF Types, JobsTyped
<1>2. CASE TakeManager(p)
  <2>1. Grown
    BY <1>2, UnchangedKept, KeptGrow DEF TakeManager, osVars
  <2>2. pc' = [pc EXCEPT ![p] = "cancel"]
        /\ job' = [job EXCEPT ![p].cmd = cmd, ![p].ctx = cancel]
    BY <1>2 DEF TakeManager, Goto
  <2> QED BY <1>1, <2>1, <2>2 DEF CancelledLabels, StoppedLabels
<1>3. CASE CallCancel(p)
  <2>1. ProcessesKept /\ ContextsKept
    BY <1>1, <1>3, UnchangedKept, CancelKept DEF CallCancel
  <2>2. job[p].ctx # NoCtx => ctxs'[job[p].ctx].cancelled
    BY <1>1, <1>3, CancelKept DEF CallCancel
  <2>3. /\ job' = job
        /\ pc' = [pc EXCEPT ![p] = IF job[p].cmd = NoCmd THEN AfterStop(p) ELSE "kill"]
    BY <1>3 DEF CallCancel, Goto
  <2> QED BY <1>1, <2>1, <2>2, <2>3, KeptGrow DEF StoppedLabels
<1>4. CASE Kill(p)
  <2>1. ProcessesKept /\ ContextsKept /\ ~cmds'[job[p].cmd].alive
    BY <1>1, <1>4, UnchangedKept, DeathKept DEF Kill
  <2>2. pc[p] = "kill" /\ job' = job /\ pc' = [pc EXCEPT ![p] = "wait"] /\ ctxs' = ctxs
    BY <1>4 DEF Kill, Goto
  <2> QED BY <1>1, <2>1, <2>2, KeptGrow DEF StopHolds, CancelledLabels
<1>5. CASE Wait(p)
  <2>1. ProcessesKept /\ ContextsKept
    BY <1>1, <1>5, UnchangedKept, CollectKept, ResultKept DEF Wait
  <2>2. /\ job' = job /\ \A q \in Actor : q # p => pc'[q] = pc[q]
        /\ ctxs' = ctxs /\ pc[p] \in {"wait", "collect", "result"}
    BY <1>5 DEF Wait, Goto, Types, JobsTyped
  <2>3. /\ job[p].ctx # NoCtx => ctxs[job[p].ctx].cancelled
        /\ job[p].cmd # NoCmd => ~cmds[job[p].cmd].alive
    BY <2>2 DEF StopHolds, CancelledLabels, StoppedLabels
  <2>4. job[p].cmd # NoCmd => ~cmds'[job[p].cmd].alive
    BY <1>1, <2>1, <2>3 DEF ProcessesKept
  <2> QED BY <2>1, <2>2, <2>3, <2>4, KeptGrow
<1> QED BY <1>2, <1>3, <1>4, <1>5 DEF StopSteps

\* The request's own steps come after its Stop or have nothing to do with one.
LEMMA RequestGrows ==
    ASSUME StopInv, NEW r \in Req, BeginCreate(r) \/ BeginDelete(r) \/ RequestSteps(r)
    PROVE  /\ Grown
           /\ \A q \in Actor : q # r => pc'[q] = pc[q] /\ job'[q] = job[q]
           /\ pc'[r] \in CancelledLabels => pc[r] \in StoppedLabels /\ job'[r] = job[r]
<1> USE DEF StopInv
<1>1. CASE StartProcess(r)
  BY <1>1, StartGrows
     DEF StartProcess, Finish, Goto, Types, JobsTyped, CancelledLabels, StoppedLabels, Actor
<1>2. ASSUME ~StartProcess(r),
             BeginCreate(r) \/ BeginDelete(r) \/ PostTunnel(r) \/ GetToken(r)
             \/ SetTunnel(r) \/ SaveCreate(r) \/ DeleteTunnel(r) \/ ClearTunnel(r)
             \/ UnsetTunnelID(r) \/ SaveDelete(r)
      PROVE  /\ UNCHANGED osVars
             /\ \A q \in Actor : q # r => pc'[q] = pc[q] /\ job'[q] = job[q]
             /\ \/ pc'[r] \in {"idle", "post", "token", "set", "saveCreate", "start", "take"}
                \/ /\ pc[r] \in {"deleteTunnel", "clear", "unset"}
                   /\ job'[r] = job[r]
  BY <1>2 DEF Types, JobsTyped, BeginCreate, BeginDelete, PostTunnel, GetToken, SetTunnel,
         SaveCreate, DeleteTunnel, ClearTunnel, UnsetTunnelID, SaveDelete, Goto, Finish,
         Actor
<1>3. UNCHANGED osVars => Grown
  BY UnchangedKept, KeptGrow DEF osVars
<1> QED BY <1>1, <1>2, <1>3 DEF RequestSteps, CancelledLabels, StoppedLabels

\* main's steps: the signal cancels everything.
LEMMA MainGrows ==
    ASSUME StopInv, Shutdown \/ LastSave
    PROVE  /\ Grown /\ job' = job
           /\ \A r \in Req : pc'[r] = pc[r]
           /\ pc'[Main] \in CancelledLabels => pc[Main] \in StoppedLabels
           /\ Shutdown => \A w \in DOMAIN ctxs' : ctxs'[w].cancelled
<1> USE DEF StopInv
<1>1. cmds' = cmds /\ job' = job
  BY DEF Shutdown, LastSave, osVars
<1>2. /\ Shutdown => pc' = [pc EXCEPT ![Main] = "take"]
      /\ LastSave => pc[Main] = "lastSave" /\ pc' = [pc EXCEPT ![Main] = "exited"]
  BY DEF Shutdown, LastSave, Goto
<1>3. DOMAIN pc = Actor /\ Main \notin Req
  BY TunnelAssumption DEF Types, JobsTyped
<1>4. CASE Shutdown
  <2>1. ctxs' = [w \in DOMAIN ctxs |-> [ctxs[w] EXCEPT !.cancelled = TRUE]]
    BY <1>4 DEF Shutdown
  <2>2. ProcessesKept /\ ContextsKept
    BY <1>1, <2>1, UnchangedKept, ShutdownKept
  <2>3. \A w \in DOMAIN ctxs : ctxs[w] \in CtxRecord
    BY DEF Types, WatchersTyped
  <2>4. \A w \in DOMAIN ctxs' : ctxs'[w].cancelled
    BY <2>1, <2>3 DEF CtxRecord
  <2> QED BY <1>1, <1>2, <1>3, <1>4, <2>2, <2>4, KeptGrow
             DEF CancelledLabels, StoppedLabels, Actor
<1>5. CASE LastSave /\ ~Shutdown
  <2>1. ProcessesKept /\ ContextsKept
    BY <1>1, <1>5, UnchangedKept DEF LastSave, osVars
  <2> QED BY <1>1, <1>2, <1>3, <1>5, <2>1, KeptGrow DEF StoppedLabels, Actor
<1> QED BY <1>4, <1>5

\* What has stopped stays so while others launch, cancel and kill.
LEMMA StoppedStays ==
    ASSUME StopInv, Grown, NEW p \in Actor, job'[p] = job[p],
           pc'[p] = pc[p] \/ pc[p] \in StoppedLabels
    PROVE  /\ pc'[p] \in CancelledLabels /\ job'[p].ctx # NoCtx
                  => ctxs'[job'[p].ctx].cancelled
           /\ pc'[p] \in StoppedLabels /\ job'[p].cmd # NoCmd
                  => ~cmds'[job'[p].cmd].alive
BY DEF StopInv, StopHolds, Types, JobsTyped, Grown, CancelledLabels

\* No context that is not cancelled appears after the signal.
LEMMA ShutdownStays ==
    ASSUME StopInv, Grown, RootDone' => RootDone
    PROVE  ShutdownHolds'
BY DEF StopInv, ShutdownHolds, Grown

\* Lantern's steps keep what Stop and shutdown have done.
LEMMA LanternStops ==
    ASSUME StopInv, Lantern
    PROVE  Grown /\ StopHolds' /\ ShutdownHolds'
<1> USE DEF StopInv
<1>1. ASSUME NEW r \in Req, BeginCreate(r) \/ BeginDelete(r) \/ RequestSteps(r)
      PROVE  Grown /\ StopHolds' /\ ShutdownHolds'
  <2>1. /\ Grown
        /\ \A q \in Actor : q # r => pc'[q] = pc[q] /\ job'[q] = job[q]
        /\ pc'[r] \in CancelledLabels => pc[r] \in StoppedLabels /\ job'[r] = job[r]
    BY <1>1, RequestGrows
  <2>2. RootDone' = RootDone
    BY <2>1, TunnelAssumption DEF RootDone, Actor
  <2>3. StoppedLabels \subseteq CancelledLabels
    BY DEF CancelledLabels
  <2>4. StopHolds'
    BY <2>1, <2>3, StoppedStays DEF StopHolds
  <2> QED BY <2>1, <2>2, <2>4, ShutdownStays
<1>2. ASSUME NEW p \in Actor, StopSteps(p)
      PROVE  Grown /\ StopHolds' /\ ShutdownHolds'
  <2>1. /\ Grown
        /\ \A q \in Actor : q # p => pc'[q] = pc[q] /\ job'[q] = job[q]
        /\ pc'[p] \in CancelledLabels /\ job'[p].ctx # NoCtx
               => ctxs'[job'[p].ctx].cancelled
        /\ pc'[p] \in StoppedLabels /\ job'[p].cmd # NoCmd
               => ~cmds'[job'[p].cmd].alive
    BY <1>2, StopGrows
  <2>2. StopHolds'
    BY <2>1, StoppedStays DEF StopHolds
  <2>3. RootDone' => RootDone
    <3>1. CASE p = Main
      BY <1>2, <3>1 DEF StopSteps, TakeManager, CallCancel, Kill, Wait, RootDone
    <3>2. CASE p # Main
      BY <2>1, <3>2 DEF RootDone, Actor
    <3> QED BY <3>1, <3>2
  <2> QED BY <2>1, <2>2, <2>3, ShutdownStays
<1>3. ASSUME Grown, UNCHANGED <<pc, job>>
      PROVE  StopHolds' /\ ShutdownHolds'
  <2>1. StopHolds'
    BY <1>3, StoppedStays DEF StopHolds
  <2>2. RootDone' => RootDone
    BY <1>3 DEF RootDone
  <2> QED BY <1>3, <2>1, <2>2, ShutdownStays
<1>4. ASSUME NEW w \in DOMAIN ctxs, WatcherSteps(w)
      PROVE  Grown /\ StopHolds' /\ ShutdownHolds'
  BY <1>3, <1>4, WatcherGrows DEF WatcherSteps
<1>5. ASSUME NEW c \in DOMAIN cmds, Exits(c) \/ ContextKills(c)
      PROVE  Grown /\ StopHolds' /\ ShutdownHolds'
  <2>1. UNCHANGED <<ctxs, pc, job>> /\ cmds' = [cmds EXCEPT ![c].alive = FALSE]
    BY <1>5 DEF Exits, ContextKills
  <2>2. Grown
    BY <2>1, DeathKept, UnchangedKept, KeptGrow
  <2> QED BY <1>3, <2>1, <2>2
<1>6. CASE Shutdown \/ LastSave
  <2>1. /\ Grown /\ job' = job
        /\ \A r \in Req : pc'[r] = pc[r]
        /\ pc'[Main] \in CancelledLabels => pc[Main] \in StoppedLabels
        /\ Shutdown => \A w \in DOMAIN ctxs' : ctxs'[w].cancelled
    BY <1>6, MainGrows
  <2>2. StoppedLabels \subseteq CancelledLabels
    BY DEF CancelledLabels
  <2>3. \A p \in Actor : p \in Req \/ p = Main
    BY DEF Actor
  <2>4. StopHolds'
    BY <2>1, <2>2, <2>3, StoppedStays DEF StopHolds
  <2>5. CASE Shutdown
    BY <2>1, <2>4, <2>5 DEF ShutdownHolds
  <2>6. CASE LastSave
    <3>1. RootDone
      BY <2>6 DEF LastSave, RootDone
    <3> QED BY <2>1, <2>4, <3>1, ShutdownStays
  <2> QED BY <1>6, <2>5, <2>6
<1> QED BY <1>1, <1>2, <1>4, <1>5, <1>6 DEF Lantern, Actor

\* A start-up begins with no Stop and no signal.
LEMMA FreshStops ==
    /\ Init => StopHolds /\ ShutdownHolds
    /\ Restart => StopHolds' /\ ShutdownHolds'
<1>1. AllIdle[Main] = "up" /\ \A p \in Actor : AllIdle[p] \notin CancelledLabels
  BY DEF AllIdle, Actor, CancelledLabels, StoppedLabels
<1>2. StoppedLabels \subseteq CancelledLabels
  BY DEF CancelledLabels
<1>3. ASSUME Init PROVE StopHolds /\ ShutdownHolds
  <2>1. pc = AllIdle
    BY <1>3 DEF Init
  <2> QED BY <1>1, <1>2, <2>1 DEF StopHolds, ShutdownHolds, RootDone
<1>4. ASSUME Restart PROVE StopHolds' /\ ShutdownHolds'
  <2>1. pc' = AllIdle
    BY <1>4 DEF Restart
  <2> QED BY <1>1, <1>2, <2>1 DEF StopHolds, ShutdownHolds, RootDone
<1> QED BY <1>3, <1>4

\* Every step keeps them.
LEMMA StopInvariant == Spec => []StopInv /\ [][Lantern => Grown]_vars
<1>1. Init => StopInv
  BY InitTypes, FreshStops DEF StopInv
<1>2. StopInv /\ [Next]_vars => StopInv'
  <2> SUFFICES ASSUME StopInv, [Next]_vars
               PROVE  StopInv'
    OBVIOUS
  <2>1. Types'
    BY NextTypes DEF StopInv
  <2>2. CASE UNCHANGED vars
    <3>1. UNCHANGED <<pc, job, cmds, ctxs>>
      BY <2>2 DEF vars, osVars
    <3>2. StopHolds'
      BY <3>1 DEF StopInv, StopHolds
    <3>3. ShutdownHolds'
      BY <3>1 DEF StopInv, ShutdownHolds, RootDone
    <3> QED BY <2>1, <3>2, <3>3 DEF StopInv
  <2> QED BY <2>1, <2>2, LanternStops, FreshStops DEF Next, StopInv
<1>3. StopInv /\ [Next]_vars => [Lantern => Grown]_vars
  BY LanternStops
<1> QED BY <1>1, <1>2, <1>3, PTL DEF Spec

\* Where a deletion talks to Cloudflare and main saves for the last time, the
\* process that Stop found is dead, and no process of its context is kept.
StoppedIsStopped ==
    \A p \in Actor : pc[p] \in StoppedLabels \ {"wait", "collect", "result"} =>
        /\ job[p].cmd # NoCmd => ~cmds[job[p].cmd].alive
        /\ \A c \in Kept : cmds[c].ctx # job[p].ctx

\* manager.go, "Delete stops cloudflared and deletes the tunnel from Cloudflare",
\* in this order, whatever other requests, watchers and relaunches come between.
THEOREM StopStops == Spec => []StoppedIsStopped
<1>1. StopInv => StoppedIsStopped
  <2> SUFFICES ASSUME StopInv, NEW p \in Actor,
                      pc[p] \in StoppedLabels \ {"wait", "collect", "result"}
               PROVE  /\ job[p].cmd # NoCmd => ~cmds[job[p].cmd].alive
                      /\ \A c \in Kept : cmds[c].ctx # job[p].ctx
    BY DEF StoppedIsStopped
  <2>1. pc[p] \in StoppedLabels /\ pc[p] \in CancelledLabels
    BY DEF CancelledLabels
  <2>2. /\ job[p].cmd # NoCmd => ~cmds[job[p].cmd].alive
        /\ job[p].ctx # NoCtx => ctxs[job[p].ctx].cancelled
    BY <2>1 DEF StopInv, StopHolds
  <2>3. \A c \in Kept : cmds[c].ctx # NoCtx /\ ~ctxs[cmds[c].ctx].cancelled
    <3>1. \A w \in DOMAIN ctxs : w \in Ctx
      BY TunnelAssumption DEF StopInv, Types, WatchersTyped, Ctx
    <3> QED BY <3>1, TunnelAssumption DEF StopInv, Types, ProcessesTyped, Kept
  <2> QED BY <2>2, <2>3
<1> QED BY <1>1, StopInvariant, PTL

\* main.go: from the signal on no cloudflared is kept running, not even one that a
\* request in progress starts or a watcher relaunches.
THEOREM ShutdownStopsAll == Spec => [](RootDone => Kept = {})
<1>1. StopInv => (RootDone => Kept = {})
  BY DEF StopInv, ShutdownHolds, Kept, Types, ProcessesTyped
<1> QED BY <1>1, StopInvariant, PTL

\* What is launched, first or again, is launched for a context that nobody has
\* cancelled, and not after the signal.
LaunchesAreWanted ==
    Lantern => \A c \in DOMAIN cmds' \ DOMAIN cmds :
                   ~ctxs'[cmds'[c].ctx].cancelled /\ ~RootDone'

\* manager.go's startProcess and watchAndRestart: a relaunch that comes after Stop's
\* cancel or after the signal launches nothing, for any number of requests.
THEOREM NoLateLaunch == Spec => [][LaunchesAreWanted]_vars
<1>1. StopInv' /\ (Lantern => Grown) => LaunchesAreWanted
  BY DEF StopInv, ShutdownHolds, Grown, LaunchesAreWanted
<1>2. StopInv' /\ [Lantern => Grown]_vars => [LaunchesAreWanted]_vars
  BY <1>1
<1> QED BY <1>2, StopInvariant, PTL

-----------------------------------------------------------------------------
(***************************************************************************)
(* Store, client and leaked tunnels.                                       *)
(***************************************************************************)
\* Steps that touch neither the two IDs nor a request's way.
LEMMA ClientStays ==
    ASSUME ClientInv, info' = info, cfId' = cfId,
           \A r \in Req : pc'[r] = pc[r] /\ job'[r].tid = job[r].tid
    PROVE  ClientInv'
  BY DEF ClientInv, Agree

\* A request moves from one step to the next: what each tells the next.
LEMMA RequestClient ==
    ASSUME Types, OneRequest, ClientInv, NEW r \in Req,
           BeginCreate(r) \/ BeginDelete(r) \/ RequestSteps(r) \/ StopSteps(r)
    PROVE  ClientInv'
<1>1. /\ r \in Actor /\ r # Main /\ Actor = DOMAIN pc /\ Actor = DOMAIN job
      /\ \A q \in Req : q = r
  BY TunnelAssumption DEF Types, JobsTyped, OneRequest, Actor
<1> USE <1>1 DEF ClientInv, Agree, StopLabels, Goto, Finish
<1>2. CASE BeginCreate(r)
  BY <1>2 DEF BeginCreate, NoTunnelYet, cfVars, storeVars
<1>3. CASE BeginDelete(r)
  BY <1>3 DEF BeginDelete, cfVars, storeVars, Types, JobsTyped
<1>4. CASE PostTunnel(r)
  BY <1>4 DEF PostTunnel, storeVars
<1>5. CASE GetToken(r)
  BY <1>5 DEF GetToken, storeVars
<1>6. CASE SetTunnel(r)
  BY <1>6 DEF SetTunnel, cfVars, Types, JobsTyped
<1>7. CASE SaveCreate(r) \/ SaveDelete(r)
  BY <1>7 DEF SaveCreate, SaveDelete, cfVars
<1>8. CASE StartProcess(r)
  BY <1>8 DEF StartProcess, cfVars, storeVars
<1>9. CASE DeleteTunnel(r)
  BY <1>9 DEF DeleteTunnel, storeVars
<1>10. CASE ClearTunnel(r)
  BY <1>10 DEF ClearTunnel, cfVars
<1>11. CASE UnsetTunnelID(r)
  BY <1>11 DEF UnsetTunnelID, storeVars
<1>12. CASE StopSteps(r)
  <2>1. /\ info' = info /\ cfId' = cfId
        /\ pc[r] \in StopLabels /\ pc'[r] \in StopLabels \cup {"deleteTunnel"}
        /\ job'[r].tid = job[r].tid
    BY <1>12 DEF StopSteps, TakeManager, CallCancel, Kill, Wait, AfterStop, cfVars,
                 storeVars, Types, JobsTyped
  <2>2. QED
    BY <2>1
<1>13. QED
  BY <1>2, <1>3, <1>4, <1>5, <1>6, <1>7, <1>8, <1>9, <1>10, <1>11, <1>12 DEF RequestSteps

\* Every step keeps client and store together.
LEMMA NextClient ==
    ASSUME Types, OneRequest, ClientInv, [Next]_vars
    PROVE  ClientInv'
<1>1. CASE Lantern
  <2>1. ASSUME NEW r \in Req, BeginCreate(r) \/ BeginDelete(r) \/ RequestSteps(r) \/ StopSteps(r)
        PROVE  ClientInv'
    BY <2>1, RequestClient
  <2>2. CASE StopSteps(Main)
    BY <2>2, TunnelAssumption, ClientStays
       DEF StopSteps, TakeManager, CallCancel, Kill, Wait, Goto, cfVars, storeVars, Types,
           JobsTyped, Actor
  <2>3. ASSUME NEW w \in DOMAIN ctxs, WatcherSteps(w)
        PROVE  ClientInv'
    BY <2>3, ClientStays DEF WatcherSteps, cfVars, storeVars
  <2>4. ASSUME NEW c \in DOMAIN cmds, Exits(c) \/ ContextKills(c)
        PROVE  ClientInv'
    BY <2>4, ClientStays DEF Exits, ContextKills, cfVars, storeVars
  <2>5. CASE Shutdown \/ LastSave
    BY <2>5, TunnelAssumption, ClientStays
       DEF Shutdown, LastSave, Goto, cfVars, storeVars, Types, JobsTyped, Actor
  <2>6. QED
    BY <1>1, <2>1, <2>2, <2>3, <2>4, <2>5 DEF Lantern
<1>2. CASE Restart
  BY <1>2, TunnelAssumption DEF Restart, ClientInv, Agree, AllIdle, StopLabels
<1>3. CASE UNCHANGED vars
  BY <1>3, ClientStays DEF vars, cfVars, storeVars
<1>4. QED
  BY <1>1, <1>2, <1>3 DEF Next

\* How many tunnels nobody knows of, and how one step can change that.
Leaks == Cardinality(exists \ {info})

\* There are finitely many tunnels to leak.
LEMMA TunnelsFinite ==
    ASSUME NEW n \in Nat, NEW tunnels \in SUBSET (1..n), NEW t
    PROVE  IsFiniteSet(tunnels) /\ Cardinality(tunnels \ {t}) \in Nat
<1>1. IsFiniteSet(1..n)
  BY FS_Interval
<1>2. IsFiniteSet(tunnels) /\ IsFiniteSet(tunnels \ {t})
  BY <1>1, FS_Subset
<1>3. QED
  BY <1>2, FS_CardinalityType

\* No tunnel has the name of none.
LEMMA TunnelsAreNumbers ==
    ASSUME Types
    PROVE  /\ created \in Nat /\ exists \in SUBSET (1..created)
           /\ NoTunnel \notin exists /\ failures \in Nat /\ restarts \in Nat
<1>1. /\ created \in 0..MaxTunnels /\ MaxTunnels \in Nat /\ exists \subseteq 1..created
      /\ NoTunnel \notin Tunnel
  BY TunnelAssumption DEF Types, CloudTyped
<1>2. exists \subseteq Tunnel /\ created \in Nat
  BY <1>1 DEF Tunnel
<1>3. failures \in Nat /\ restarts \in Nat
  BY TunnelAssumption DEF Types, CountersTyped
<1>4. QED
  BY <1>1, <1>2, <1>3

\* Nor after a step.
LEMMA TunnelsAreNumbersNext ==
    ASSUME Types'
    PROVE  created' \in Nat /\ exists' \in SUBSET (1..created')
<1>1. /\ created' \in 0..MaxTunnels /\ MaxTunnels \in Nat
      /\ exists' \subseteq 1..created'
  BY TunnelAssumption DEF Types, CloudTyped
<1>2. QED
  BY <1>1

\* A subset is no larger; with one element more it is at most one larger.
LEMMA SmallSteps ==
    ASSUME NEW S, NEW T, IsFiniteSet(S), NEW x
    PROVE  /\ T \subseteq S => Cardinality(T) <= Cardinality(S)
           /\ T \subseteq S \cup {x} => Cardinality(T) <= Cardinality(S) + 1
           /\ T \subseteq S /\ T \cup {x} = S /\ x \notin T
                  => Cardinality(T) + 1 = Cardinality(S)
<1>1. /\ IsFiniteSet(S \cup {x})
      /\ Cardinality(S) \in Nat
      /\ Cardinality(S \cup {x}) <= Cardinality(S) + 1
  BY FS_AddElement, FS_CardinalityType
<1>2. T \subseteq S => Cardinality(T) <= Cardinality(S)
  BY FS_Subset
<1>3. T \subseteq S \cup {x} => Cardinality(T) <= Cardinality(S) + 1
  <2>1. T \subseteq S \cup {x} => /\ Cardinality(T) <= Cardinality(S \cup {x})
                                  /\ Cardinality(T) \in Nat
    BY <1>1, FS_Subset, FS_CardinalityType
  <2>2. Cardinality(S \cup {x}) \in Nat
    BY <1>1, FS_CardinalityType
  <2>3. QED
    BY <1>1, <2>1, <2>2
<1>4. T \subseteq S /\ T \cup {x} = S /\ x \notin T => Cardinality(T) + 1 = Cardinality(S)
  BY FS_Subset, FS_AddElement
<1>5. QED
  BY <1>2, <1>3, <1>4

\* Steps that neither make nor lose a tunnel.
LEMMA LeaksStay ==
    ASSUME Types, LeakInv, exists' = exists, info' = info,
           failures' \in Nat, failures' >= failures, restarts' = restarts,
           \A r \in Req : pc'[r] = pc[r] /\ job'[r].tid = job[r].tid
    PROVE  LeakInv'
<1>1. Leaks \in Nat /\ Leaks' = Leaks
  <2>1. created \in Nat /\ exists \in SUBSET (1..created)
    BY TunnelAssumption DEF Types, CloudTyped
  <2>2. Cardinality(exists \ {info}) \in Nat
    BY ONLY <2>1, TunnelsFinite
  <2>3. QED
    BY <2>2 DEF Leaks
<1>2. Pending' = Pending /\ Pending \in Nat
  BY DEF Pending
<1>3. failures \in Nat /\ restarts \in Nat
  BY TunnelAssumption DEF Types, CountersTyped
<1>4. QED
  BY <1>1, <1>2, <1>3 DEF LeakInv, Leaks

\* One request's step: what leaks is paid for by a failing call.
LEMMA RequestLeaks ==
    ASSUME Types, Types', OneRequest, ClientInv, LeakInv, NEW r \in Req,
           BeginCreate(r) \/ BeginDelete(r) \/ RequestSteps(r) \/ StopSteps(r)
    PROVE  LeakInv'
<1> DEFINE pending == IF pc[r] \in {"token", "set"} THEN 1 ELSE 0
<1>1. /\ r \in Actor /\ r # Main /\ Actor = DOMAIN pc /\ Actor = DOMAIN job
      /\ \A q \in Req : q = r
  BY TunnelAssumption DEF Types, JobsTyped, OneRequest, Actor
<1>2. Pending = pending /\ (Pending)' = pending' /\ pending \in Nat
  BY <1>1 DEF Pending
<1>3. /\ IsFiniteSet(exists) /\ Leaks \in Nat /\ Leaks' \in Nat
      /\ failures \in Nat /\ restarts \in Nat
      /\ NoTunnel \notin exists /\ exists \subseteq 1..created /\ created \in Nat
  <2>1. /\ created \in Nat /\ exists \in SUBSET (1..created)
        /\ created' \in Nat /\ exists' \in SUBSET (1..created')
        /\ NoTunnel \notin exists /\ failures \in Nat /\ restarts \in Nat
    BY TunnelsAreNumbers, TunnelsAreNumbersNext
  <2>2. /\ IsFiniteSet(exists)
        /\ Cardinality(exists \ {info}) \in Nat /\ Cardinality(exists' \ {info'}) \in Nat
    BY ONLY <2>1, TunnelsFinite
  <2>3. QED
    BY <2>1, <2>2 DEF Leaks
<1>4. IsFiniteSet(exists \ {info})
  BY <1>3, FS_Subset
<1>5. Leaks <= failures + restarts + pending
  BY <1>2 DEF LeakInv, Leaks
<1>6. ASSUME /\ Leaks' <= failures' + restarts' + pending'
             /\ pc'[r] \in {"token", "set"} => job'[r].tid \in exists'
             /\ pc'[r] \in {"clear", "unset"} => job'[r].tid \notin exists'
      PROVE  LeakInv'
  BY <1>1, <1>2, <1>6 DEF LeakInv, Leaks
<1> USE DEF Goto, Finish, Fail
<1>7. CASE BeginCreate(r) \/ BeginDelete(r) \/ StopSteps(r)
  <2>1. /\ exists' = exists /\ info' = info /\ failures' = failures /\ restarts' = restarts
        /\ pc[r] \notin {"token", "set"}
        /\ pc'[r] \in {"post"} \cup StopLabels \cup {"deleteTunnel"}
    BY <1>1, <1>7
       DEF BeginCreate, BeginDelete, StopSteps, TakeManager, CallCancel, Kill, Wait,
           AfterStop, cfVars, storeVars, counters, StopLabels
  <2>2. Leaks' = Leaks
    BY <2>1 DEF Leaks
  <2>3. QED
    BY <1>3, <1>5, <1>6, <2>1, <2>2 DEF StopLabels
<1>8. CASE PostTunnel(r)
  <2>1. info' = info /\ pending = 0 /\ restarts' = restarts
    BY <1>8 DEF PostTunnel, storeVars
  <2>2. CASE exists' = exists
    <3>1. failures' = failures + 1 /\ pending' = 0 /\ pc'[r] = "idle"
      <4>1. created + 1 \notin exists
        BY <1>3
      <4>2. QED
        BY <1>1, <1>8, <2>2, <4>1 DEF PostTunnel
    <3>2. Leaks' = Leaks
      BY <2>1, <2>2 DEF Leaks
    <3>3. QED
      BY <1>3, <1>5, <1>6, <2>1, <3>1, <3>2
  <2>3. CASE exists' = exists \cup {created'}
    <3>1. exists' \ {info'} \subseteq (exists \ {info}) \cup {created'}
      BY <2>1, <2>3
    <3>2. Leaks' <= Leaks + 1
      BY <1>4, <3>1, SmallSteps DEF Leaks
    <3>3. CASE pc'[r] = "token" /\ job'[r].tid = created' /\ failures' = failures
      BY <1>3, <1>5, <1>6, <2>1, <2>3, <3>2, <3>3
    <3>4. CASE pc'[r] = "idle" /\ failures' = failures + 1
      BY <1>3, <1>5, <1>6, <2>1, <3>2, <3>4
    <3>5. QED
      BY <1>1, <1>8, <3>3, <3>4 DEF PostTunnel, Types, JobsTyped
  <2>4. QED
    BY <1>8, <2>2, <2>3 DEF PostTunnel
<1>9. CASE GetToken(r)
  <2>1. /\ exists' = exists /\ info' = info /\ restarts' = restarts /\ pending = 1
        /\ \/ pc'[r] = "set" /\ job' = job /\ failures' = failures
           \/ pc'[r] = "idle" /\ failures' = failures + 1
    BY <1>1, <1>9 DEF GetToken, storeVars
  <2>2. Leaks' = Leaks
    BY <2>1 DEF Leaks
  <2>3. job[r].tid \in exists
    BY <1>9 DEF LeakInv, GetToken
  <2>4. QED
    BY <1>3, <1>5, <1>6, <2>1, <2>2, <2>3
<1>10. CASE SetTunnel(r)
  <2>1. /\ exists' = exists /\ info' = job[r].tid /\ restarts' = restarts
        /\ failures' = failures /\ pending = 1 /\ pc'[r] = "saveCreate"
    BY <1>1, <1>10 DEF SetTunnel, cfVars, counters
  <2>2. info = NoTunnel /\ job[r].tid \in exists
    BY <1>10 DEF ClientInv, LeakInv, SetTunnel
  <2>3. /\ exists' \ {info'} \subseteq exists \ {info}
        /\ (exists' \ {info'}) \cup {info'} = exists \ {info}
    BY <1>3, <2>1, <2>2
  <2>4. Leaks' + 1 = Leaks
    BY <1>4, <2>3, SmallSteps DEF Leaks
  <2>5. QED
    BY <1>3, <1>5, <1>6, <2>1, <2>4
<1>11. CASE SaveCreate(r) \/ SaveDelete(r) \/ StartProcess(r) \/ UnsetTunnelID(r)
  <2>1. /\ exists' = exists /\ info' = info /\ restarts' = restarts
        /\ failures' \in {failures, failures + 1}
        /\ pc[r] \notin {"token", "set"} /\ pc'[r] \in {"start", "idle", "saveDelete"}
    BY <1>1, <1>11
       DEF SaveCreate, SaveDelete, StartProcess, startProcess, UnsetTunnelID, Save, cfVars,
           storeVars, counters
  <2>2. Leaks' = Leaks
    BY <2>1 DEF Leaks
  <2>3. QED
    BY <1>3, <1>5, <1>6, <2>1, <2>2
<1>12. CASE DeleteTunnel(r)
  <2>1. /\ exists' \subseteq exists /\ info' = info /\ restarts' = restarts /\ pending = 0
        /\ failures' \in {failures, failures + 1}
        /\ pc'[r] \in {"clear", "idle"}
        /\ pc'[r] = "clear" => job'[r].tid \notin exists'
    BY <1>1, <1>3, <1>12 DEF DeleteTunnel, storeVars
  <2>2. Leaks' <= Leaks
    BY <1>4, <2>1, SmallSteps DEF Leaks
  <2>3. QED
    BY <1>3, <1>5, <1>6, <2>1, <2>2
<1>13. CASE ClearTunnel(r)
  <2>1. /\ exists' = exists /\ info' = NoTunnel /\ restarts' = restarts /\ pending = 0
        /\ failures' = failures /\ pc'[r] = "unset" /\ job' = job
    BY <1>1, <1>13 DEF ClearTunnel, cfVars, counters
  <2>2. info = job[r].tid /\ job[r].tid \notin exists
    BY <1>13 DEF ClientInv, LeakInv, ClearTunnel
  <2>3. exists' \ {info'} = exists \ {info}
    BY <1>3, <2>1, <2>2
  <2>4. Leaks' = Leaks
    BY <2>3 DEF Leaks
  <2>5. QED
    BY <1>3, <1>5, <1>6, <2>1, <2>2, <2>4
<1>14. QED
  BY <1>7, <1>8, <1>9, <1>10, <1>11, <1>12, <1>13 DEF RequestSteps

\* A restart forgets at most the tunnel that was not saved or not stored yet.
LEMMA RestartLeaks ==
    ASSUME Types, Types', OneRequest, ClientInv, LeakInv, Restart
    PROVE  LeakInv'
<1>1. /\ exists' = exists /\ info' = disk /\ restarts' = restarts + 1
      /\ failures' \in {failures, failures + 1}
      /\ \A r \in Req : pc'[r] = "idle"
  BY TunnelAssumption DEF Restart, AllIdle, StartIfConfigured, Fail
<1>2. /\ IsFiniteSet(exists) /\ Leaks \in Nat /\ Leaks' \in Nat
      /\ failures \in Nat /\ restarts \in Nat
      /\ NoTunnel \notin exists
      /\ IsFiniteSet(exists \ {info})
  <2>1. /\ created \in Nat /\ exists \in SUBSET (1..created)
        /\ created' \in Nat /\ exists' \in SUBSET (1..created')
        /\ NoTunnel \notin exists /\ failures \in Nat /\ restarts \in Nat
    BY TunnelsAreNumbers, TunnelsAreNumbersNext
  <2>2. /\ IsFiniteSet(exists)
        /\ Cardinality(exists \ {info}) \in Nat /\ Cardinality(exists' \ {info'}) \in Nat
    BY ONLY <2>1, TunnelsFinite
  <2>3. QED
    BY <2>1, <2>2, FS_Subset DEF Leaks
<1>3. Leaks' <= failures + restarts + 1
  <2>1. CASE \E r \in Req : pc[r] \in {"token", "set"}
    <3>1. info = NoTunnel /\ Leaks <= failures + restarts + 1
      BY <2>1 DEF ClientInv, LeakInv, Pending, Leaks
    <3>2. exists' \ {info'} \subseteq exists \ {info}
      BY <1>1, <1>2, <3>1
    <3>3. Leaks' <= Leaks
      BY <1>2, <3>2, SmallSteps DEF Leaks
    <3>4. QED
      BY <1>2, <3>1, <3>3
  <2>2. CASE ~\E r \in Req : pc[r] \in {"token", "set"}
    <3>1. Leaks <= failures + restarts
      BY <1>2, <2>2 DEF LeakInv, Pending, Leaks
    <3>2. exists' \ {info'} \subseteq (exists \ {info}) \cup {info}
      BY <1>1
    <3>3. Leaks' <= Leaks + 1
      BY <1>2, <3>2, SmallSteps DEF Leaks
    <3>4. QED
      BY <1>2, <3>1, <3>3
  <2>3. QED
    BY <2>1, <2>2
<1>4. Pending' \in Nat
  BY DEF Pending
<1>5. QED
  BY <1>1, <1>2, <1>3, <1>4 DEF LeakInv, Leaks

\* Every step pays for what it leaks.
LEMMA NextLeaks ==
    ASSUME Types, Types', OneRequest, ClientInv, LeakInv, [Next]_vars
    PROVE  LeakInv'
<1>1. failures' \in Nat /\ failures \in Nat
  BY TunnelAssumption DEF Types, CountersTyped
<1>2. CASE Lantern
  <2>1. ASSUME NEW r \in Req, BeginCreate(r) \/ BeginDelete(r) \/ RequestSteps(r) \/ StopSteps(r)
        PROVE  LeakInv'
    BY <2>1, RequestLeaks
  <2>2. CASE StopSteps(Main)
    BY <1>1, <2>2, TunnelAssumption, LeaksStay
       DEF StopSteps, TakeManager, CallCancel, Kill, Wait, Goto, cfVars, storeVars, counters,
           Types, JobsTyped, Actor
  <2>3. ASSUME NEW w \in DOMAIN ctxs, WatcherSteps(w)
        PROVE  LeakInv'
    <3>1. failures' >= failures
      BY <1>1, <2>3
         DEF WatcherSteps, WatcherMarks, WatcherEnds, Relaunch, Fail
    <3>2. QED
      BY <1>1, <2>3, <3>1, LeaksStay DEF WatcherSteps, cfVars, storeVars
  <2>4. ASSUME NEW c \in DOMAIN cmds, Exits(c) \/ ContextKills(c)
        PROVE  LeakInv'
    BY <1>1, <2>4, LeaksStay DEF Exits, ContextKills, cfVars, storeVars, counters
  <2>5. CASE Shutdown \/ LastSave
    BY <1>1, <2>5, TunnelAssumption, LeaksStay
       DEF Shutdown, LastSave, Save, Fail, Goto, cfVars, storeVars, counters, Types, JobsTyped,
           Actor
  <2>6. QED
    BY <1>2, <2>1, <2>2, <2>3, <2>4, <2>5 DEF Lantern
<1>3. CASE Restart
  BY <1>3, RestartLeaks
<1>4. CASE UNCHANGED vars
  BY <1>1, <1>4, LeaksStay DEF vars, cfVars, storeVars, counters
<1>5. QED
  BY <1>2, <1>3, <1>4 DEF Next

-----------------------------------------------------------------------------
(***************************************************************************)
(* Processes.                                                              *)
(***************************************************************************)
\* Contexts are numbers, and none of them is nil.
LEMMA ContextsAreNumbers ==
    ASSUME Types
    PROVE  NoCtx \notin DOMAIN ctxs
<1>1. DOMAIN ctxs = 1..Len(ctxs) /\ Len(ctxs) \in Nat /\ Len(ctxs) <= MaxStarts
  BY DEF Types, WatchersTyped
<1>2. QED
  BY <1>1, TunnelAssumption DEF Ctx

\* What nobody holds has been cancelled, and nobody holds two.
LEMMA NoneActive ==
    ASSUME Types, ContextsHeld, cancel = NoCtx, \A r \in Req : pc[r] # "cancel"
    PROVE  \A w \in DOMAIN ctxs : ~Active(w)
  BY ContextsAreNumbers DEF ContextsHeld

\* With one request at a time, one context at most has not been cancelled.
LEMMA OneActive ==
    ASSUME OneRequest, ContextsHeld, NEW v \in DOMAIN ctxs, NEW w \in DOMAIN ctxs,
           Active(v), Active(w), Types
    PROVE  v = w
  BY ContextsAreNumbers DEF ContextsHeld, OneRequest

\* Deaths, and contexts that are cancelled, leave at most the newest process.
LEMMA HeldProcesses ==
    ASSUME Types, OneProcess, ProcessesKept, ContextsKept, info' = info,
           cmd' \in {cmd, NoCmd}
    PROVE  OneProcess'
<1>1. \A w \in DOMAIN ctxs : Alive(w)' \subseteq Alive(w)
  BY DEF Alive, ProcessesKept
<1>2. \A w \in DOMAIN ctxs' : Active(w)' => Active(w)
  BY DEF Active, ContextsKept
<1>3. \A c \in DOMAIN cmds : cmds[c].ctx \in DOMAIN ctxs
  BY DEF Types, ProcessesTyped
<1>4. \A c \in DOMAIN cmds' : cmds'[c].tid = ctxs'[cmds'[c].ctx].tid
  BY <1>3 DEF OneProcess, ProcessesKept, ContextsKept
<1>5. ASSUME NEW w \in DOMAIN ctxs', Active(w)'
      PROVE  /\ ctxs'[w].tid = info'
             /\ Alive(w)' \subseteq {Len(cmds')}
             /\ ctxs'[w].pc = "read" => cmd' \in {NoCmd, Len(cmds')}
             /\ ctxs'[w].pc \in {"wait", "collect", "result"}
                    => Alive(w)' \subseteq {ctxs'[w].cmd}
             /\ ctxs'[w].pc \in {"exited", "sleep"} => Alive(w)' = {}
  <2>1. w \in DOMAIN ctxs /\ Active(w)
    BY <1>2, <1>5 DEF ContextsKept
  <2>2. QED
    BY <1>1, <2>1 DEF OneProcess, ProcessesKept, ContextsKept
<1>6. QED
  BY <1>4, <1>5 DEF OneProcess

\* Without an active context the store may change the tunnel.
LEMMA NoProcesses ==
    ASSUME Types, OneProcess, ProcessesKept, ContextsKept,
           \A w \in DOMAIN ctxs : ~Active(w)
    PROVE  OneProcess'
<1>1. \A w \in DOMAIN ctxs' : ~Active(w)'
  BY DEF Active, ContextsKept
<1>2. \A c \in DOMAIN cmds : cmds[c].ctx \in DOMAIN ctxs
  BY DEF Types, ProcessesTyped
<1>3. \A c \in DOMAIN cmds' : cmds'[c].tid = ctxs'[cmds'[c].ctx].tid
  BY <1>2 DEF OneProcess, ProcessesKept, ContextsKept
<1>4. QED
  BY <1>1, <1>3 DEF OneProcess

\* Processes end, watchers stay, and nobody takes or returns the context.
LEMMA StrayStays ==
    ASSUME Types, ContextsHeld, OneProcess, ProcessesKept, ContextsKept,
           info' = info, cmd' = cmd, cancel' = cancel,
           \A r \in Req : pc'[r] = pc[r] /\ job'[r].ctx = job[r].ctx
    PROVE  ContextsHeld' /\ OneProcess'
<1>1. OneProcess'
  BY HeldProcesses
<1>2. DOMAIN ctxs' = DOMAIN ctxs /\ \A w \in DOMAIN ctxs : Active(w)' => Active(w)
  BY DEF Active, ContextsKept
<1>3. QED
  BY <1>1, <1>2 DEF ContextsHeld

HeldLabels == {"saveCreate", "start", "cancel", "kill", "wait", "collect", "result",
               "deleteTunnel", "clear", "unset", "saveDelete"}

\* A request's steps between its calls do not touch manager or processes.
LEMMA RequestStray ==
    ASSUME Types, OneRequest, ClientInv, ContextsHeld, OneProcess, NEW r \in Req,
           BeginCreate(r) \/ BeginDelete(r) \/ PostTunnel(r) \/ GetToken(r)
           \/ SetTunnel(r) \/ SaveCreate(r) \/ DeleteTunnel(r) \/ ClearTunnel(r)
           \/ UnsetTunnelID(r) \/ SaveDelete(r)
    PROVE  ContextsHeld' /\ OneProcess'
<1>1. /\ r \in Actor /\ r # Main /\ Actor = DOMAIN pc /\ Actor = DOMAIN job
      /\ \A q \in Req : q = r
  BY TunnelAssumption DEF Types, JobsTyped, OneRequest, Actor
<1>2. cmds' = cmds /\ ctxs' = ctxs /\ cmd' = cmd /\ cancel' = cancel
  BY DEF BeginCreate, BeginDelete, PostTunnel, GetToken, SetTunnel, SaveCreate,
         DeleteTunnel, ClearTunnel, UnsetTunnelID, SaveDelete, managerVars, osVars
<1>3. ProcessesKept /\ ContextsKept
  BY <1>2, UnchangedKept
<1>4. /\ pc[r] # "cancel" /\ pc'[r] # "cancel"
      /\ pc'[r] \in HeldLabels => pc[r] \in HeldLabels \cup {"set"}
      /\ \/ info' = info
         \/ pc[r] = "clear"
         \/ pc[r] = "set" /\ info' = job[r].tid
  BY <1>1 DEF BeginCreate, BeginDelete, PostTunnel, GetToken, SetTunnel, SaveCreate,
         DeleteTunnel, ClearTunnel, UnsetTunnelID, SaveDelete, Goto, Finish, storeVars,
         HeldLabels
<1>5. pc[r] \in HeldLabels \cup {"set"} => cancel = NoCtx
  BY DEF ContextsHeld, ClientInv, HeldLabels
<1>6. pc[r] = "set" => job[r].tid # NoTunnel
  BY DEF Types, JobsTyped
<1>7. ContextsHeld'
  <2>1. info' = NoTunnel => cancel' = NoCtx
    BY <1>2, <1>4, <1>5, <1>6 DEF ContextsHeld, HeldLabels
  <2>2. \A q \in Req : pc'[q] \in HeldLabels => cancel' = NoCtx
    BY <1>1, <1>2, <1>4, <1>5
  <2>3. \A w \in DOMAIN ctxs : Active(w) => w = cancel
    BY <1>1, <1>4 DEF ContextsHeld
  <2>4. QED
    BY <1>2, <2>1, <2>2, <2>3 DEF ContextsHeld, Active, HeldLabels
<1>8. OneProcess'
  <2>1. CASE info' = info
    BY <1>2, <1>3, <2>1, HeldProcesses
  <2>2. CASE info' # info
    <3>1. cancel = NoCtx /\ \A q \in Req : pc[q] # "cancel"
      BY <1>1, <1>4, <1>5, <2>2 DEF HeldLabels
    <3>2. QED
      BY <1>3, <3>1, NoneActive, NoProcesses
  <2>3. QED
    BY <2>1, <2>2
<1>9. QED
  BY <1>7, <1>8

\* startProcess at the end of a creation: the one active context is the new one.
LEMMA StartStray ==
    ASSUME Types, OneRequest, ClientInv, ContextsHeld, OneProcess, ~RootDone,
           NEW r \in Req, StartProcess(r)
    PROVE  ContextsHeld' /\ OneProcess'
<1> DEFINE t == job[r].tid
<1>1. /\ r \in Actor /\ r # Main /\ Actor = DOMAIN pc
      /\ \A q \in Req : q = r
  BY TunnelAssumption DEF Types, JobsTyped, OneRequest, Actor
<1>2. /\ startProcess(t) /\ pc'[r] = "idle" /\ pc[r] = "start"
      /\ info' = info /\ info = t /\ t \in Tunnel /\ t # NoTunnel
      /\ cancel = NoCtx
  <2>1. pc[r] = "start" /\ startProcess(t) /\ pc'[r] = "idle" /\ info' = info
    BY <1>1 DEF StartProcess, Finish, Goto, storeVars
  <2>2. job[r].tid \in Known /\ t # NoTunnel /\ created \in 0..MaxTunnels /\ MaxTunnels \in Nat
    BY <1>1, <2>1, TunnelAssumption DEF Types, JobsTyped, CloudTyped
  <2>3. t \in Tunnel
    BY <2>2 DEF Known, Tunnel
  <2>4. QED
    BY <2>1, <2>2, <2>3 DEF ClientInv, ContextsHeld
<1>3. \A w \in DOMAIN ctxs : ~Active(w)
  BY <1>1, <1>2, NoneActive
<1>4. \A c \in DOMAIN cmds : cmds[c].ctx \in DOMAIN ctxs /\ cmds[c].tid = ctxs[cmds[c].ctx].tid
  BY DEF Types, ProcessesTyped, OneProcess
<1>5. CASE running
  <2>1. UNCHANGED <<cmd, cancel, cmds, ctxs>>
    BY <1>2, <1>5 DEF startProcess, managerVars, osVars
  <2>2. ProcessesKept /\ ContextsKept
    BY <2>1, UnchangedKept
  <2>3. OneProcess'
    BY <1>3, <2>2, NoProcesses
  <2>4. QED
    BY <1>1, <1>2, <1>3, <2>1, <2>3 DEF ContextsHeld, Active
<1>6. CASE ~running
  <2>1. PICK n \in Ctx : n = Len(ctxs) + 1 /\ cancel' = n
    <3>1. Len(ctxs) < MaxStarts /\ cancel' = Len(ctxs) + 1
      BY <1>2, <1>6 DEF startProcess
    <3>2. QED
      BY <3>1, TunnelAssumption DEF Types, WatchersTyped, Ctx
  <2>2. CASE LaunchSucceeds(n, t) /\ ctxs' = NewContext(t, "read", FALSE)
    <3>1. Launched(n, t) /\ ContextMade(t, "read", FALSE)
      BY <1>2, <2>1, <2>2, LaunchAdds, ContextAdds DEF WatcherLabels
    <3>2. /\ DOMAIN ctxs' = DOMAIN ctxs \cup {n} /\ n \notin DOMAIN ctxs
          /\ \A w \in DOMAIN ctxs : ctxs'[w] = ctxs[w]
          /\ ctxs'[n].tid = t /\ ctxs'[n].pc = "read"
      BY <2>1, <3>1 DEF ContextMade
    <3>3. /\ DOMAIN cmds' = DOMAIN cmds \cup {Len(cmds')} /\ cmd' = Len(cmds')
          /\ \A c \in DOMAIN cmds : cmds'[c] = cmds[c]
          /\ cmds'[Len(cmds')].tid = t /\ cmds'[Len(cmds')].ctx = n
      BY <3>1 DEF Launched, Process
    <3>4. \A w \in DOMAIN ctxs' : Active(w)' => w = n
      BY <1>3, <3>2 DEF Active
    <3>5. ContextsHeld'
      BY <1>1, <1>2, <2>1, <3>4 DEF ContextsHeld
    <3>6. \A c \in DOMAIN cmds' : cmds'[c].tid = ctxs'[cmds'[c].ctx].tid
      <4>1. ASSUME NEW c \in DOMAIN cmds
            PROVE  cmds'[c].tid = ctxs'[cmds'[c].ctx].tid
        BY <1>4, <3>2, <3>3
      <4>2. QED
        BY <3>2, <3>3, <4>1
    <3>7. Alive(n)' \subseteq {Len(cmds')}
      BY <1>4, <3>2, <3>3 DEF Alive
    <3>8. OneProcess'
      BY <1>2, <3>2, <3>3, <3>4, <3>6, <3>7 DEF OneProcess
    <3>9. QED
      BY <3>5, <3>8
  <2>3. CASE /\ ctxs' = NewContext(t, "done", TRUE)
             /\ cmds' = cmds /\ cmd' = cmd
    <3>1. ContextMade(t, "done", TRUE) /\ cmds' = cmds
      BY <1>2, <2>3, ContextAdds DEF WatcherLabels
    <3>2. /\ DOMAIN ctxs' = DOMAIN ctxs \cup {n}
          /\ \A w \in DOMAIN ctxs : ctxs'[w] = ctxs[w]
          /\ ctxs'[n].cancelled /\ cmds' = cmds
      BY <2>1, <3>1 DEF ContextMade
    <3>3. \A w \in DOMAIN ctxs' : ~Active(w)'
      BY <1>3, <3>2 DEF Active
    <3>4. QED
      BY <1>1, <1>2, <1>4, <3>2, <3>3 DEF ContextsHeld, OneProcess
  <2>4. QED
    BY <1>2, <1>6, <2>1, <2>2, <2>3 DEF startProcess
<1>7. QED
  BY <1>5, <1>6

\* Stop: the deletion takes the context, and cancels it.
LEMMA StopStray ==
    ASSUME Types, OneRequest, ContextsHeld, OneProcess, NEW r \in Req, StopSteps(r)
    PROVE  ContextsHeld' /\ OneProcess'
<1>1. /\ r \in Actor /\ r # Main /\ Actor = DOMAIN pc /\ Actor = DOMAIN job
      /\ \A q \in Req : q = r
  BY TunnelAssumption DEF Types, JobsTyped, OneRequest, Actor
<1>2. CASE TakeManager(r)
  <2>1. /\ cmds' = cmds /\ ctxs' = ctxs /\ cmd' = NoCmd /\ cancel' = NoCtx /\ info' = info
        /\ pc[r] = "take" /\ pc'[r] = "cancel" /\ job'[r].ctx = cancel
    BY <1>1, <1>2 DEF TakeManager, Goto, osVars, storeVars, Types, JobsTyped
  <2>2. ProcessesKept /\ ContextsKept
    BY <2>1, UnchangedKept
  <2>3. OneProcess'
    BY <2>1, <2>2, HeldProcesses
  <2>4. \A w \in DOMAIN ctxs : Active(w) => w = cancel
    BY <1>1, <2>1 DEF ContextsHeld
  <2>5. QED
    BY <1>1, <2>1, <2>3, <2>4 DEF ContextsHeld, Active
<1>3. CASE CallCancel(r)
  <2>1. /\ cmds' = cmds /\ cmd' = cmd /\ cancel' = cancel /\ info' = info
        /\ pc[r] = "cancel" /\ job[r].ctx \in DOMAIN ctxs \cup {NoCtx}
        /\ cancel = NoCtx
    BY <1>1, <1>3 DEF CallCancel, managerVars, storeVars, Types, JobsTyped, ContextsHeld
  <2>2. \A w \in DOMAIN ctxs : Active(w) => w = job[r].ctx
    BY <1>1, <2>1, ContextsAreNumbers DEF ContextsHeld
  <2>3. /\ ContextsKept
        /\ \A w \in DOMAIN ctxs : w = job[r].ctx => ctxs'[w].cancelled
    <3>1. CASE job[r].ctx = NoCtx
      <4>1. ctxs' = ctxs
        BY <1>3, <3>1 DEF CallCancel
      <4>2. QED
        BY <3>1, <4>1, ContextsAreNumbers, UnchangedKept
    <3>2. CASE job[r].ctx # NoCtx
      BY <1>3, <2>1, <3>2, CancelKept DEF CallCancel
    <3>3. QED
      BY <3>1, <3>2
  <2>4. \A w \in DOMAIN ctxs' : ~Active(w)'
    BY <2>2, <2>3 DEF Active, ContextsKept
  <2>5. OneProcess'
    BY <2>1, <2>3, UnchangedKept, HeldProcesses
  <2>6. QED
    BY <2>1, <2>4, <2>5 DEF ContextsHeld
<1>4. CASE Kill(r) \/ Wait(r)
  <2>1. /\ ctxs' = ctxs /\ cmd' = cmd /\ cancel' = cancel /\ info' = info
        /\ pc[r] \in HeldLabels \ {"cancel"} /\ pc'[r] # "cancel"
    BY <1>1, <1>4 DEF Kill, Wait, Goto, AfterStop, managerVars, storeVars, HeldLabels
  <2>2. ProcessesKept
    <3>1. job[r].cmd \in DOMAIN cmds
      BY <1>1, <1>4 DEF Kill, Wait, Types, JobsTyped
    <3>2. CASE Kill(r)
      BY <3>1, <3>2, DeathKept DEF Kill
    <3>3. CASE Wait(r)
      BY <3>1, <3>3, UnchangedKept, CollectKept, ResultKept DEF Wait
    <3>4. QED
      BY <1>4, <3>2, <3>3
  <2>3. OneProcess'
    BY <2>1, <2>2, UnchangedKept, HeldProcesses
  <2>4. cancel = NoCtx /\ \A w \in DOMAIN ctxs : Active(w) => w = cancel
    BY <1>1, <2>1 DEF ContextsHeld, HeldLabels
  <2>5. QED
    BY <1>1, <2>1, <2>3, <2>4 DEF ContextsHeld, Active
<1>5. QED
  BY <1>2, <1>3, <1>4 DEF StopSteps

\* A watcher waits for the process it read, and launches only when it has gone.
LEMMA WatcherStray ==
    ASSUME Types, OneRequest, ContextsHeld, OneProcess, NEW w \in DOMAIN ctxs, WatcherSteps(w)
    PROVE  ContextsHeld' /\ OneProcess'
<1>1. /\ info' = info /\ pc' = pc /\ job' = job
      /\ Watches(w) \/ Relaunches(w)
  BY WatcherDoes DEF storeVars
<1>2. \A c \in DOMAIN cmds : cmds[c].ctx \in DOMAIN ctxs /\ cmds[c].tid = ctxs[cmds[c].ctx].tid
  BY DEF Types, ProcessesTyped, OneProcess
<1>3. CASE Watches(w)
  <2>1. PICK label, k : WatcherAt(w, label, k)
    BY <1>3 DEF Watches, Moves
  <2>2. /\ DOMAIN ctxs' = DOMAIN ctxs
        /\ \A v \in DOMAIN ctxs : (Active(v)' <=> Active(v)) /\ ctxs'[v].tid = ctxs[v].tid
        /\ \A v \in DOMAIN ctxs :
               v # w => ctxs'[v].pc = ctxs[v].pc /\ ctxs'[v].cmd = ctxs[v].cmd
    BY <2>1 DEF WatcherAt, Active
  <2>3. ProcessesKept /\ cmd' = cmd /\ cancel' = cancel
    BY <1>3 DEF Watches
  <2>4. ContextsHeld'
    BY <1>1, <2>2, <2>3 DEF ContextsHeld
  <2>5. \A v \in DOMAIN ctxs : Alive(v)' \subseteq Alive(v)
    BY <2>3 DEF Alive, ProcessesKept
  <2>6. \A c \in DOMAIN cmds' : cmds'[c].tid = ctxs'[cmds'[c].ctx].tid
    BY <1>2, <2>2, <2>3 DEF ProcessesKept
  <2>7. Len(cmds') = Len(cmds)
    BY <2>3 DEF ProcessesKept
  <2>8. ASSUME NEW v \in DOMAIN ctxs, Active(v), v # w
        PROVE  /\ ctxs'[v].tid = info'
               /\ Alive(v)' \subseteq {Len(cmds')}
               /\ ctxs'[v].pc = "read" => cmd' \in {NoCmd, Len(cmds')}
               /\ ctxs'[v].pc \in {"wait", "collect", "result"}
                      => Alive(v)' \subseteq {ctxs'[v].cmd}
               /\ ctxs'[v].pc \in {"exited", "sleep"} => Alive(v)' = {}
    BY <1>1, <2>2, <2>3, <2>5, <2>7, <2>8 DEF OneProcess
  <2>9. ASSUME Active(w)
        PROVE  /\ ctxs'[w].tid = info'
               /\ Alive(w)' \subseteq {Len(cmds')}
               /\ ctxs'[w].pc = "read" => cmd' \in {NoCmd, Len(cmds')}
               /\ ctxs'[w].pc \in {"wait", "collect", "result"}
                      => Alive(w)' \subseteq {ctxs'[w].cmd}
               /\ ctxs'[w].pc \in {"exited", "sleep"} => Alive(w)' = {}
    <3>1. ctxs'[w].tid = info' /\ Alive(w)' \subseteq {Len(cmds')} /\ ctxs'[w].pc # "read"
      BY <1>1, <1>3, <2>2, <2>5, <2>7, <2>9 DEF OneProcess, Watches, Moves, WatcherAt
    <3>2. ctxs'[w].pc \in {"wait", "collect", "result"} => Alive(w) \subseteq {ctxs'[w].cmd}
      BY <1>3, <2>9 DEF OneProcess, Watches, Moves, WatcherAt
    <3>3. ctxs'[w].pc \in {"exited", "sleep"} => Alive(w) = {}
      <4>1. CASE ctxs[w].pc \in {"wait", "result"} /\ ~cmds[ctxs[w].cmd].alive
        BY <2>9, <4>1 DEF OneProcess, Alive
      <4>2. CASE ctxs[w].pc = "exited"
        BY <2>9, <4>2 DEF OneProcess
      <4>3. ctxs[w].pc = "result" => ~cmds[ctxs[w].cmd].alive
        BY DEF Types, WatchersTyped
      <4>4. QED
        BY <1>3, <4>1, <4>2, <4>3 DEF Watches, Moves, WatcherAt
    <3>4. QED
      BY <2>5, <3>1, <3>2, <3>3
  <2>10. OneProcess'
    BY <2>2, <2>6, <2>8, <2>9 DEF OneProcess
  <2>11. QED
    BY <2>4, <2>10
<1>4. CASE Relaunches(w)
  <2>1. /\ Active(w) /\ ctxs[w].pc = "sleep" /\ cancel' = cancel
        /\ Launched(w, ctxs[w].tid) /\ WatcherAt(w, "read", ctxs[w].cmd)
    BY <1>4 DEF Relaunches
  <2>2. /\ DOMAIN ctxs' = DOMAIN ctxs
        /\ \A v \in DOMAIN ctxs : (Active(v)' <=> Active(v)) /\ ctxs'[v].tid = ctxs[v].tid
        /\ ctxs'[w].pc = "read"
    BY <2>1 DEF WatcherAt, Active
  <2>3. /\ DOMAIN cmds' = DOMAIN cmds \cup {Len(cmds')} /\ cmd' = Len(cmds')
        /\ \A c \in DOMAIN cmds : cmds'[c] = cmds[c]
        /\ cmds'[Len(cmds')].tid = ctxs[w].tid /\ cmds'[Len(cmds')].ctx = w
    BY <2>1 DEF Launched, Process
  <2>4. ContextsHeld'
    BY <1>1, <2>1, <2>2 DEF ContextsHeld
  <2>5. \A v \in DOMAIN ctxs : Active(v) => v = w
    BY <2>1, OneActive
  <2>6. \A c \in DOMAIN cmds' : cmds'[c].tid = ctxs'[cmds'[c].ctx].tid
    <3>1. ASSUME NEW c \in DOMAIN cmds
          PROVE  cmds'[c].tid = ctxs'[cmds'[c].ctx].tid
      BY <1>2, <2>2, <2>3
    <3>2. QED
      BY <2>2, <2>3, <3>1
  <2>7. Alive(w)' \subseteq {Len(cmds')}
    <3>1. Alive(w) = {}
      BY <2>1 DEF OneProcess
    <3>2. QED
      BY <2>3, <3>1 DEF Alive
  <2>8. ctxs'[w].tid = info'
    BY <1>1, <2>1, <2>2 DEF OneProcess
  <2>9. OneProcess'
    BY <2>2, <2>3, <2>5, <2>6, <2>7, <2>8 DEF OneProcess
  <2>10. QED
    BY <2>4, <2>9
<1>5. QED
  BY <1>1, <1>3, <1>4

\* StartIfConfigured launches at most one process, for the saved tunnel.
LEMMA RestartStray ==
    ASSUME Restart
    PROVE  ContextsHeld' /\ OneProcess'
<1>1. /\ info' = disk /\ StartIfConfigured(disk)
      /\ \A r \in Req : pc'[r] = "idle"
  BY TunnelAssumption DEF Restart, AllIdle
<1>2. CASE ctxs' = <<>> /\ cmds' = <<>> /\ cancel' = NoCtx
  <2>1. DOMAIN ctxs' = {} /\ DOMAIN cmds' = {}
    BY <1>2
  <2>2. QED
    BY <1>1, <1>2, <2>1 DEF ContextsHeld, OneProcess
<1>3. CASE disk # NoTunnel
  <2> DEFINE good == [tid |-> disk, cancelled |-> FALSE, pc |-> "read", cmd |-> NoCmd]
             bad == [tid |-> disk, cancelled |-> TRUE, pc |-> "done", cmd |-> NoCmd]
  <2>1. /\ cancel' = 1
        /\ \/ cmd' = 1 /\ cmds' = <<Process(1, disk)>> /\ ctxs' = <<good>>
           \/ cmds' = <<>> /\ ctxs' = <<bad>>
    BY <1>1, <1>3 DEF StartIfConfigured
  <2>2. CASE cmd' = 1 /\ cmds' = <<Process(1, disk)>> /\ ctxs' = <<good>>
    <3>1. /\ DOMAIN ctxs' = {1} /\ ctxs'[1] = good
          /\ DOMAIN cmds' = {1} /\ Len(cmds') = 1
          /\ cmds'[1].tid = disk /\ cmds'[1].ctx = 1
      BY <2>2 DEF Process
    <3>2. Alive(1)' \subseteq {Len(cmds')}
      BY <3>1 DEF Alive
    <3>3. ContextsHeld'
      BY <1>1, <1>3, <2>1, <3>1 DEF ContextsHeld
    <3>4. OneProcess'
      BY <1>1, <2>2, <3>1, <3>2 DEF OneProcess
    <3>5. QED
      BY <3>3, <3>4
  <2>3. CASE cmds' = <<>> /\ ctxs' = <<bad>>
    <3>1. DOMAIN ctxs' = {1} /\ ctxs'[1].cancelled /\ DOMAIN cmds' = {}
      BY <2>3
    <3>2. \A w \in DOMAIN ctxs' : ~Active(w)'
      BY <3>1 DEF Active
    <3>3. QED
      BY <1>1, <1>3, <3>1, <3>2 DEF ContextsHeld, OneProcess
  <2>4. QED
    BY <2>1, <2>2, <2>3
<1>4. QED
  BY <1>1, <1>2, <1>3 DEF StartIfConfigured

\* Until main is asked to stop, every step keeps the one process.
LEMMA NextStray ==
    ASSUME Types, OneRequest, ClientInv, StrayInv, [Next]_vars
    PROVE  StrayInv'
<1>1. SUFFICES ASSUME pc'[Main] = "up"
               PROVE  ContextsHeld' /\ OneProcess'
  BY DEF StrayInv, RootDone
<1>2. CASE Restart
  BY <1>2, RestartStray
<1>3. ASSUME pc[Main] = "up", ~Restart
      PROVE  ContextsHeld' /\ OneProcess'
  <2>1. ContextsHeld /\ OneProcess /\ ~RootDone
    BY <1>3 DEF StrayInv, RootDone
  <2>2. ASSUME NEW r \in Req, BeginCreate(r) \/ BeginDelete(r) \/ RequestSteps(r)
        PROVE  ContextsHeld' /\ OneProcess'
    BY <2>1, <2>2, RequestStray, StartStray DEF RequestSteps
  <2>3. ASSUME NEW r \in Req, StopSteps(r)
        PROVE  ContextsHeld' /\ OneProcess'
    BY <2>1, <2>3, StopStray
  <2>4. ~StopSteps(Main)
    BY <1>3 DEF StopSteps, TakeManager, CallCancel, Kill, Wait
  <2>5. ASSUME NEW w \in DOMAIN ctxs, WatcherSteps(w)
        PROVE  ContextsHeld' /\ OneProcess'
    BY <2>1, <2>5, WatcherStray
  <2>6. ASSUME NEW c \in DOMAIN cmds, Exits(c) \/ ContextKills(c)
        PROVE  ContextsHeld' /\ OneProcess'
    <3>1. /\ cmds' = [cmds EXCEPT ![c].alive = FALSE]
          /\ UNCHANGED <<ctxs, info, cmd, cancel, pc, job>>
      BY <2>6 DEF Exits, ContextKills, storeVars, managerVars
    <3>2. ProcessesKept /\ ContextsKept
      BY <3>1, DeathKept, UnchangedKept
    <3>3. QED
      BY <2>1, <3>1, <3>2, StrayStays
  <2>7. ~Shutdown /\ ~LastSave
    BY <1>1, <1>3 DEF Shutdown, LastSave, Goto, Types, JobsTyped, Actor
  <2>8. CASE UNCHANGED vars
    BY <2>1, <2>8, UnchangedKept, StrayStays
       DEF vars, storeVars, managerVars, osVars
  <2>9. QED
    BY <1>3, <2>2, <2>3, <2>4, <2>5, <2>6, <2>7, <2>8 DEF Next, Lantern
<1>4. ASSUME pc[Main] # "up", ~Restart
      PROVE  FALSE
  <2>1. pc'[Main] # pc[Main]
    BY <1>1, <1>4
  <2>2. CASE Lantern
    <3>1. ASSUME NEW p \in Actor, StopSteps(p)
          PROVE  FALSE
      BY <1>1, <1>4, <3>1
         DEF StopSteps, TakeManager, CallCancel, Kill, Wait, AfterStop, Goto, Types, JobsTyped,
             Actor
    <3>2. ASSUME NEW r \in Req, BeginCreate(r) \/ BeginDelete(r) \/ RequestSteps(r)
          PROVE  FALSE
      BY <1>1, <1>4, <3>2, TunnelAssumption
         DEF RequestSteps, BeginCreate, BeginDelete, PostTunnel, GetToken, SetTunnel, SaveCreate,
             StartProcess, DeleteTunnel, ClearTunnel, UnsetTunnelID, SaveDelete, Goto, Finish,
             Types, JobsTyped, Actor
    <3>3. ASSUME \/ \E w \in DOMAIN ctxs : WatcherSteps(w)
                 \/ \E c \in DOMAIN cmds : Exits(c) \/ ContextKills(c)
          PROVE  FALSE
      BY <2>1, <3>3 DEF WatcherSteps, Exits, ContextKills
    <3>4. ~Shutdown /\ ~LastSave
      BY <1>1, <1>4 DEF Shutdown, LastSave, Goto, Types, JobsTyped, Actor
    <3>5. QED
      BY <2>2, <3>1, <3>2, <3>3, <3>4 DEF Lantern, Actor
  <2>3. CASE UNCHANGED vars
    BY <2>1, <2>3 DEF vars
  <2>4. QED
    BY <1>4, <2>2, <2>3 DEF Next
<1>5. QED
  BY <1>2, <1>3, <1>4

-----------------------------------------------------------------------------
(***************************************************************************)
(* What a team can rely on when requests come one at a time.               *)
(***************************************************************************)
TunnelInv == Types /\ ClientInv /\ LeakInv /\ StrayInv

\* Nothing exists, so nothing leaks, disagrees or strays.
LEMMA InitTunnel == Init => TunnelInv
<1> SUFFICES ASSUME Init
             PROVE  ClientInv /\ LeakInv /\ StrayInv
  BY InitTypes DEF TunnelInv
<1>1. \A r \in Req : pc[r] = "idle"
  BY TunnelAssumption DEF Init, AllIdle
<1>2. ClientInv
  BY <1>1 DEF Init, ClientInv, Agree, StopLabels
<1>3. LeakInv
  <2>1. exists \ {info} = {} /\ failures = 0 /\ restarts = 0 /\ Pending = 0
    BY <1>1 DEF Init, Pending
  <2>2. Cardinality(exists \ {info}) = 0
    BY <2>1, FS_EmptySet
  <2>3. QED
    BY <1>1, <2>1, <2>2 DEF LeakInv
<1>4. StrayInv
  <2>1. DOMAIN ctxs = {} /\ DOMAIN cmds = {} /\ cancel = NoCtx
    BY DEF Init
  <2>2. QED
    BY <2>1 DEF StrayInv, ContextsHeld, OneProcess
<1>5. QED
  BY <1>2, <1>3, <1>4

\* The four parts hold together.
LEMMA TunnelInvariant ==
    ASSUME OneRequest
    PROVE  Spec => []TunnelInv
<1>1. TunnelInv /\ [Next]_vars => TunnelInv'
  <2> SUFFICES ASSUME TunnelInv, [Next]_vars
               PROVE  TunnelInv'
    OBVIOUS
  <2>1. Types /\ ClientInv /\ LeakInv /\ StrayInv
    BY DEF TunnelInv
  <2>2. Types'
    BY <2>1, NextTypes
  <2>3. ClientInv'
    BY <2>1, NextClient
  <2>4. LeakInv'
    BY <2>1, <2>2, NextLeaks
  <2>5. StrayInv'
    BY <2>1, NextStray
  <2>6. QED
    BY <2>2, <2>3, <2>4, <2>5 DEF TunnelInv
<1>2. QED
  BY <1>1, InitTunnel, PTL DEF Spec

\* Whatever fails, and wherever Lantern restarts: once no request is in progress
\* the Cloudflare client works on the tunnel of the store (SetTunnelID's callers).
THEOREM ClientAgrees == OneRequest => (Spec => []ClientKnowsTunnel)
<1> SUFFICES ASSUME OneRequest
             PROVE  Spec => []ClientKnowsTunnel
  OBVIOUS
<1>1. TunnelInv => ClientKnowsTunnel
  <2> SUFFICES ASSUME TunnelInv, AllQuiet
               PROVE  Agree
    BY DEF ClientKnowsTunnel, Agree
  <2>1. \A r \in Req : pc[r] = "idle"
    BY TunnelAssumption DEF AllQuiet, AllIdle
  <2>2. QED
    BY <2>1 DEF TunnelInv, ClientInv
<1>2. QED
  BY <1>1, TunnelInvariant, PTL

\* Each tunnel at Cloudflare that the store does not know cost a failing call or
\* a restart (CreateTunnel, DeleteTunnel).
THEOREM LeaksArePaid == OneRequest => (Spec => []TunnelLeaksBounded)
<1> SUFFICES ASSUME OneRequest
             PROVE  Spec => []TunnelLeaksBounded
  OBVIOUS
<1>1. TunnelInv => TunnelLeaksBounded
  <2> SUFFICES ASSUME TunnelInv, AllQuiet
               PROVE  Cardinality(exists \ {info}) <= failures + restarts
    BY DEF TunnelLeaksBounded
  <2>1. \A r \in Req : pc[r] = "idle"
    BY TunnelAssumption DEF AllQuiet, AllIdle
  <2>2. Pending = 0 /\ failures \in Nat /\ restarts \in Nat
    BY <2>1, TunnelAssumption DEF Pending, TunnelInv, Types, CountersTyped
  <2>3. QED
    BY <2>2 DEF TunnelInv, LeakInv
<1>2. QED
  BY <1>1, TunnelInvariant, PTL

\* One cloudflared at most is kept running, for the tunnel the store has, through
\* exits, relaunches, failing launches and deletions (watchAndRestart and Stop).
THEOREM NoStray == OneRequest => (Spec => []NoStrayProcess)
<1> SUFFICES ASSUME OneRequest
             PROVE  Spec => []NoStrayProcess
  OBVIOUS
<1>1. TunnelInv => NoStrayProcess
  <2> SUFFICES ASSUME TunnelInv, AllQuiet
               PROVE  Cardinality(Kept) <= 1 /\ \A c \in Kept : cmds[c].tid = info
    BY DEF NoStrayProcess
  <2>1. ContextsHeld /\ OneProcess
    BY TunnelAssumption DEF AllQuiet, AllIdle, TunnelInv, StrayInv, RootDone
  <2>2. ASSUME NEW c \in Kept
        PROVE  c = Len(cmds) /\ cmds[c].tid = info
    <3>1. c \in DOMAIN cmds /\ cmds[c].alive /\ cmds[c].ctx \in DOMAIN ctxs
      BY DEF Kept, TunnelInv, Types, ProcessesTyped
    <3>2. Active(cmds[c].ctx) /\ c \in Alive(cmds[c].ctx)
      BY <3>1 DEF Kept, Active, Alive
    <3>3. QED
      BY <2>1, <3>1, <3>2 DEF OneProcess
  <2>3. Kept \subseteq {Len(cmds)}
    BY <2>2
  <2>4. IsFiniteSet({Len(cmds)}) /\ Cardinality({Len(cmds)}) = 1
    BY FS_Singleton
  <2>5. Cardinality(Kept) <= 1
    BY <2>3, <2>4, FS_Subset
  <2>6. QED
    BY <2>2, <2>5
<1>2. QED
  BY <1>1, TunnelInvariant, PTL
=============================================================================
