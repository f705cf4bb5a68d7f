--------------------------- MODULE TunnelManager ---------------------------
(***************************************************************************)
(* internal/tunnel/manager.go: the life of the Cloudflare tunnel and of    *)
(* the cloudflared process that serves it, driven by the handlers of       *)
(* internal/web/handle_tunnel.go, by start-up and by shutdown (main.go).   *)
(*                                                                         *)
(* Each startProcess makes a context and a watcher goroutine; ctxs holds   *)
(* the two together, cmds the processes launched since start-up.  What     *)
(* manager.go does with m.mu held is one step.  The wait for a process is  *)
(* os/exec's Cmd.Wait, which a watcher and Stop may both be in: it returns *)
(* at once when ProcessState is set, then collects the exit status, then   *)
(* takes the one value that the goroutine of CommandContext sends.         *)
(* Log pipes and the 10 s of the restart delay are not modelled.           *)
(***************************************************************************)
EXTENDS Naturals, Sequences, FiniteSets

CONSTANTS
    Req,            \* goroutines of requests to /api/tunnel
    Main,           \* the main goroutine
    Adopted,        \* CF_TUNNEL_ID, or NoTunnel
    NoTunnel,
    NoCmd,          \* m.cmd == nil
    NoCtx,          \* m.cancel == nil
    MaxTunnels,     \* bound on tunnels created at Cloudflare
    MaxStarts,      \* bound on startProcess calls between two restarts
    MaxLaunches,    \* bound on processes launched between two restarts
    MaxExits,       \* bound on cloudflared exiting of its own accord
    MaxFailures,    \* bound on failing calls, launches and saves
    MaxRestarts     \* bound on restarts of the container

Tunnel == 1..MaxTunnels
CmdId == 1..MaxLaunches
Ctx == 1..MaxStarts

ASSUME TunnelAssumption ==
    /\ MaxTunnels \in Nat /\ {MaxStarts, MaxLaunches} \subseteq Nat \ {0}
    /\ MaxExits \in Nat /\ MaxFailures \in Nat /\ MaxRestarts \in Nat
    /\ Main \notin Req
    /\ NoTunnel \notin Tunnel /\ Adopted \notin Tunnel
    /\ NoCmd \notin CmdId /\ NoCtx \notin Ctx

VARIABLES
    created,        \* how many tunnels Cloudflare has made
    exists,         \* the tunnels that exist at Cloudflare
    info,           \* s.d.Tunnel
    disk,           \* the tunnel in config.json
    cfId,           \* cf.Client.tunnelID
    cmd,            \* m.cmd
    running,        \* m.running
    cancel,         \* m.cancel
    cmds,           \* processes launched since start-up
    ctxs,           \* contexts made by startProcess, each with its watcher
    pc, job,        \* requests and main: next step, and what they hold
    exits, failures, restarts

cfVars == <<created, exists, cfId>>
storeVars == <<info, disk>>
managerVars == <<cmd, running, cancel>>
osVars == <<cmds, ctxs>>
counters == <<exits, failures, restarts>>
vars == <<cfVars, storeVars, managerVars, osVars, pc, job, counters>>

Idle == [tid |-> NoTunnel, cmd |-> NoCmd, ctx |-> NoCtx]

Goto(p, label) == pc' = [pc EXCEPT ![p] = label]
Finish(p) == Goto(p, "idle") /\ job' = [job EXCEPT ![p] = Idle]

Fail == failures < MaxFailures /\ failures' = failures + 1

-----------------------------------------------------------------------------
(* Processes, contexts and Cmd.Wait.                                       *)

\* A process of the tunnel of context w; ps is ProcessState # nil, collected
\* and sent say whether the exit status and the context goroutine's result
\* are gone.
Process(w, t) ==
    [tid |-> t, ctx |-> w, alive |-> TRUE,
     ps |-> FALSE, collected |-> FALSE, sent |-> FALSE]

LaunchSucceedsMutant(w, t) ==
    /\ Len(cmds) < MaxLaunches
    /\ cmd' = Len(cmds) + 1
    /\ running' = TRUE
    /\ UNCHANGED cmds

LaunchSucceeds(w, t) ==
    /\ Len(cmds) < MaxLaunches
    /\ cmds' = Append(cmds, Process(w, t))
    /\ cmd' = Len(cmds) + 1
    /\ running' = TRUE

\* Any process may exit, and CommandContext kills those whose context ends.
Exits(c) ==
    /\ cmds[c].alive
    /\ exits < MaxExits
    /\ cmds' = [cmds EXCEPT ![c].alive = FALSE]
    /\ exits' = exits + 1
    /\ UNCHANGED <<cfVars, storeVars, managerVars, ctxs, pc, job,
                   failures, restarts>>

ContextKills(c) ==
    /\ cmds[c].alive
    /\ ctxs[cmds[c].ctx].cancelled
    /\ cmds' = [cmds EXCEPT ![c].alive = FALSE]
    /\ UNCHANGED <<cfVars, storeVars, managerVars, ctxs, pc, job, counters>>

\* The second waiter gets ECHILD and stores a nil ProcessState, before or
\* after the first stores its own: the two do so with no lock.
Collect(c) ==
    /\ ~cmds[c].alive
    /\ \E ps \in IF cmds[c].collected THEN BOOLEAN ELSE {TRUE} :
           cmds' = [cmds EXCEPT ![c].ps = ps, ![c].collected = TRUE]

TakeResult(c) ==
    /\ ~cmds[c].sent
    /\ cmds' = [cmds EXCEPT ![c].sent = TRUE]

CancelContextMutant(w) == UNCHANGED ctxs

CancelContext(w) == ctxs' = [ctxs EXCEPT ![w].cancelled = TRUE]

-----------------------------------------------------------------------------
(* watchAndRestart, one watcher per context.                               *)

WatcherGoto(w, label) == ctxs' = [ctxs EXCEPT ![w].pc = label]

WatcherReads(w) ==
    /\ ctxs[w].pc = "read"
    /\ ctxs' = [ctxs EXCEPT ![w].cmd = cmd,
                            ![w].pc = IF cmd = NoCmd THEN "done" ELSE "wait"]
    /\ UNCHANGED cmds

WatcherWaits(w) ==
    /\ ctxs[w].pc = "wait"
    /\ WatcherGoto(w, IF cmds[ctxs[w].cmd].ps THEN "exited" ELSE "collect")
    /\ UNCHANGED cmds

WatcherCollects(w) ==
    /\ ctxs[w].pc = "collect"
    /\ Collect(ctxs[w].cmd)
    /\ WatcherGoto(w, "result")

WatcherTakesResult(w) ==
    /\ ctxs[w].pc = "result"
    /\ TakeResult(ctxs[w].cmd)
    /\ WatcherGoto(w, "exited")

\* running goes to false whichever process m.cmd is by now.  ctx.Err() is
\* looked at here and again by the select, which comes to the same.
WatcherMarks(w) ==
    /\ ctxs[w].pc = "exited"
    /\ running' = FALSE
    /\ WatcherGoto(w, "sleep")
    /\ UNCHANGED <<cmds, cmd, cancel, failures>>

WatcherEnds(w) ==
    /\ ctxs[w].pc = "sleep"
    /\ ctxs[w].cancelled
    /\ WatcherGoto(w, "done")
    /\ UNCHANGED <<cmds, managerVars, failures>>

\* cmd.Start refuses a context that is done, as it may any launch.
Relaunch(w) ==
    /\ ctxs[w].pc = "sleep"
    /\ ~ctxs[w].cancelled
    /\ \/ /\ LaunchSucceeds(w, ctxs[w].tid)
          /\ WatcherGoto(w, "read")
          /\ UNCHANGED <<cancel, failures>>
       \/ /\ Fail
          /\ WatcherGoto(w, "done")
          /\ UNCHANGED <<cmds, managerVars>>

WatcherSteps(w) ==
    /\ \/ /\ \/ WatcherReads(w) \/ WatcherWaits(w)
             \/ WatcherCollects(w) \/ WatcherTakesResult(w)
          /\ UNCHANGED <<managerVars, failures>>
       \/ WatcherMarks(w)
       \/ WatcherEnds(w)
       \/ Relaunch(w)
    /\ UNCHANGED <<cfVars, storeVars, pc, job, exits, restarts>>

-----------------------------------------------------------------------------
(* startProcess, and what follows it.                                      *)

NewContext(t, label, done) ==
    Append(ctxs, [tid |-> t, cancelled |-> done, pc |-> label, cmd |-> NoCmd])

\* rootCtx is cancelled once main has left its wait for a signal.
RootDone == pc[Main] # "up"

startProcess(t) ==
    \/ /\ running
       /\ UNCHANGED <<managerVars, osVars, failures>>
    \/ /\ ~running
       /\ Len(ctxs) < MaxStarts
       /\ cancel' = Len(ctxs) + 1
       /\ \/ /\ ~RootDone
             /\ LaunchSucceeds(Len(ctxs) + 1, t)
             /\ ctxs' = NewContext(t, "read", FALSE)
             /\ UNCHANGED failures
          \/ /\ IF RootDone THEN UNCHANGED failures ELSE Fail
             /\ ctxs' = NewContext(t, "done", TRUE)
             /\ UNCHANGED <<cmds, cmd, running>>

-----------------------------------------------------------------------------
(* createTunnel and Manager.Create.                                        *)

NoTunnelYetMutant == TRUE

\* The handler answers 409 when Status reports a tunnel.
NoTunnelYet == info = NoTunnel

BeginCreate(r) ==
    /\ pc[r] = "idle" /\ ~RootDone
    /\ NoTunnelYet
    /\ Goto(r, "post")
    /\ UNCHANGED <<cfVars, storeVars, managerVars, osVars, job, counters>>

\* The first of CreateTunnel's two calls; a failed one may have had its
\* effect.  Cloudflare may or may not take a second tunnel named "lantern".
PostTunnel(r) ==
    /\ pc[r] = "post"
    /\ created < MaxTunnels
    /\ \/ /\ created' = created + 1
          /\ exists' = exists \cup {created'}
          /\ \/ /\ Goto(r, "token")
                /\ job' = [job EXCEPT ![r].tid = created']
                /\ UNCHANGED failures
             \/ Fail /\ Finish(r)
       \/ /\ Fail /\ Finish(r)
          /\ UNCHANGED <<created, exists>>
    /\ UNCHANGED <<cfId, storeVars, managerVars, osVars, exits, restarts>>

GetToken(r) ==
    /\ pc[r] = "token"
    /\ \/ /\ cfId' = job[r].tid
          /\ Goto(r, "set")
          /\ UNCHANGED <<job, failures>>
       \/ Fail /\ Finish(r) /\ UNCHANGED cfId
    /\ UNCHANGED <<created, exists, storeVars, managerVars, osVars,
                   exits, restarts>>

SetTunnel(r) ==
    /\ pc[r] = "set"
    /\ info' = job[r].tid
    /\ Goto(r, "saveCreate")
    /\ UNCHANGED <<cfVars, disk, managerVars, osVars, job, counters>>

\* SaveLog logs a failure and goes on.
Save ==
    \/ disk' = info /\ UNCHANGED failures
    \/ Fail /\ UNCHANGED disk

SaveCreate(r) ==
    /\ pc[r] = "saveCreate"
    /\ Save
    /\ Goto(r, "start")
    /\ UNCHANGED <<cfVars, info, managerVars, osVars, job, exits, restarts>>

StartProcess(r) ==
    /\ pc[r] = "start"
    /\ startProcess(job[r].tid)
    /\ Finish(r)
    /\ UNCHANGED <<cfVars, storeVars, exits, restarts>>

-----------------------------------------------------------------------------
(* Stop, called by Delete and by main.                                     *)

TakeManager(p) ==
    /\ pc[p] = "take"
    /\ job' = [job EXCEPT ![p].cmd = cmd, ![p].ctx = cancel]
    /\ cancel' = NoCtx
    /\ cmd' = NoCmd
    /\ running' = FALSE
    /\ Goto(p, "cancel")
    /\ UNCHANGED <<cfVars, storeVars, osVars, counters>>

AfterStop(p) == IF p = Main THEN "lastSave" ELSE "deleteTunnel"

CallCancel(p) ==
    /\ pc[p] = "cancel"
    /\ IF job[p].ctx = NoCtx THEN UNCHANGED ctxs ELSE CancelContext(job[p].ctx)
    /\ Goto(p, IF job[p].cmd = NoCmd THEN AfterStop(p) ELSE "kill")
    /\ UNCHANGED <<cfVars, storeVars, managerVars, cmds, job, counters>>

Kill(p) ==
    /\ pc[p] = "kill"
    /\ cmds' = [cmds EXCEPT ![job[p].cmd].alive = FALSE]
    /\ Goto(p, "wait")
    /\ UNCHANGED <<cfVars, storeVars, managerVars, ctxs, job, counters>>

Wait(p) ==
    /\ \/ /\ pc[p] = "wait"
          /\ Goto(p, IF cmds[job[p].cmd].ps THEN AfterStop(p) ELSE "collect")
          /\ UNCHANGED cmds
       \/ /\ pc[p] = "collect"
          /\ Collect(job[p].cmd)
          /\ Goto(p, "result")
       \/ /\ pc[p] = "result"
          /\ TakeResult(job[p].cmd)
          /\ Goto(p, AfterStop(p))
    /\ UNCHANGED <<cfVars, storeVars, managerVars, ctxs, job, counters>>

Stopping(p) == pc[p] \in {"take", "cancel", "kill", "wait", "collect", "result"}

StopSteps(p) == TakeManager(p) \/ CallCancel(p) \/ Kill(p) \/ Wait(p)

-----------------------------------------------------------------------------
(* deleteTunnel and Manager.Delete.                                        *)

BeginDelete(r) ==
    /\ pc[r] = "idle" /\ ~RootDone
    /\ job' = [job EXCEPT ![r].tid = info]
    /\ Goto(r, "take")
    /\ UNCHANGED <<cfVars, storeVars, managerVars, osVars, counters>>

\* Cloudflare refuses to delete a tunnel that is gone.
DeleteTunnel(r) ==
    /\ pc[r] = "deleteTunnel"
    /\ \/ /\ job[r].tid = NoTunnel
          /\ Goto(r, "clear")
          /\ UNCHANGED <<exists, job, failures>>
       \/ /\ job[r].tid \in exists
          /\ exists' = exists \ {job[r].tid}
          /\ \/ Goto(r, "clear") /\ UNCHANGED <<job, failures>>
             \/ Fail /\ Finish(r)
       \/ /\ job[r].tid \in exists
          /\ Fail /\ Finish(r)
          /\ UNCHANGED exists
       \/ /\ job[r].tid \notin exists \cup {NoTunnel}
          /\ Finish(r)
          /\ UNCHANGED <<exists, failures>>
    /\ UNCHANGED <<created, cfId, storeVars, managerVars, osVars,
                   exits, restarts>>

ClearTunnel(r) ==
    /\ pc[r] = "clear"
    /\ info' = NoTunnel
    /\ Goto(r, "unset")
    /\ UNCHANGED <<cfVars, disk, managerVars, osVars, job, counters>>

UnsetTunnelIDMutant(r) ==
    /\ pc[r] = "unset"
    /\ Goto(r, "saveDelete")
    /\ UNCHANGED <<cfVars, storeVars, managerVars, osVars, job, counters>>

UnsetTunnelID(r) ==
    /\ pc[r] = "unset"
    /\ cfId' = NoTunnel
    /\ Goto(r, "saveDelete")
    /\ UNCHANGED <<created, exists, storeVars, managerVars, osVars, job, counters>>

SaveDelete(r) ==
    /\ pc[r] = "saveDelete"
    /\ Save
    /\ Finish(r)
    /\ UNCHANGED <<cfVars, info, managerVars, osVars, exits, restarts>>

-----------------------------------------------------------------------------
(* main: shutdown, and the restart of the container, which also follows a  *)
(* crash anywhere.  cloudflared does not outlive the container.            *)

\* The servers' Shutdown, which may give up on a request, stays before Stop.
Shutdown ==
    /\ pc[Main] = "up"
    /\ Goto(Main, "take")
    /\ ctxs' = [w \in DOMAIN ctxs |-> [ctxs[w] EXCEPT !.cancelled = TRUE]]
    /\ UNCHANGED <<cfVars, storeVars, managerVars, cmds, job, counters>>

LastSave ==
    /\ pc[Main] = "lastSave"
    /\ Save
    /\ Goto(Main, "exited")
    /\ UNCHANGED <<cfVars, info, managerVars, osVars, job, exits, restarts>>

AllIdle == [p \in Req \cup {Main} |-> IF p = Main THEN "up" ELSE "idle"]

\* StartIfConfigured, before any request; a failed launch is only logged.
StartIfConfigured(saved) ==
    IF saved = NoTunnel
    THEN /\ cmd' = NoCmd /\ running' = FALSE /\ cancel' = NoCtx
         /\ cmds' = <<>> /\ ctxs' = <<>>
         /\ UNCHANGED failures
    ELSE /\ cancel' = 1
         /\ \/ /\ cmd' = 1 /\ running' = TRUE
               /\ cmds' = <<Process(1, saved)>>
               /\ ctxs' = <<[tid |-> saved, cancelled |-> FALSE,
                             pc |-> "read", cmd |-> NoCmd]>>
               /\ UNCHANGED failures
            \/ /\ Fail
               /\ cmd' = NoCmd /\ running' = FALSE
               /\ cmds' = <<>>
               /\ ctxs' = <<[tid |-> saved, cancelled |-> TRUE,
                             pc |-> "done", cmd |-> NoCmd]>>

Restart ==
    /\ restarts < MaxRestarts
    /\ restarts' = restarts + 1
    /\ info' = disk
    /\ cfId' = IF disk = NoTunnel THEN Adopted ELSE disk
    /\ StartIfConfigured(disk)
    /\ pc' = AllIdle
    /\ job' = [p \in Req \cup {Main} |-> Idle]
    /\ UNCHANGED <<created, exists, disk, exits>>

-----------------------------------------------------------------------------
Init ==
    /\ created = 0 /\ exists = {}
    /\ info = NoTunnel /\ disk = NoTunnel
    /\ cfId = Adopted
    /\ cmd = NoCmd /\ running = FALSE /\ cancel = NoCtx
    /\ cmds = <<>> /\ ctxs = <<>>
    /\ pc = AllIdle
    /\ job = [p \in Req \cup {Main} |-> Idle]
    /\ exits = 0 /\ failures = 0 /\ restarts = 0

RequestSteps(r) ==
    \/ PostTunnel(r) \/ GetToken(r) \/ SetTunnel(r) \/ SaveCreate(r)
    \/ StartProcess(r)
    \/ DeleteTunnel(r) \/ ClearTunnel(r) \/ UnsetTunnelID(r) \/ SaveDelete(r)

\* Nothing runs after main has returned.
Lantern ==
    /\ pc[Main] # "exited"
    /\ \/ \E r \in Req : BeginCreate(r) \/ BeginDelete(r) \/ RequestSteps(r)
       \/ \E p \in Req \cup {Main} : StopSteps(p)
       \/ \E w \in DOMAIN ctxs : WatcherSteps(w)
       \/ \E c \in DOMAIN cmds : Exits(c) \/ ContextKills(c)
       \/ Shutdown \/ LastSave

Next == Lantern \/ Restart

Spec == Init /\ [][Next]_vars

\* Goroutines are scheduled and killed processes die; nothing obliges users
\* to send requests, cloudflared to exit or Docker to restart the container.
FairSpec ==
    /\ Spec
    /\ \A r \in Req : WF_vars(Lantern /\ RequestSteps(r))
    /\ \A p \in Req \cup {Main} : WF_vars(Lantern /\ StopSteps(p))
    /\ \A w \in Ctx : WF_vars(Lantern /\ w \in DOMAIN ctxs /\ WatcherSteps(w))
    /\ \A c \in CmdId : WF_vars(Lantern /\ c \in DOMAIN cmds /\ ContextKills(c))
    /\ WF_vars(LastSave)

-----------------------------------------------------------------------------
(* Properties.                                                             *)

ReqLabels == {"idle", "post", "token", "set", "saveCreate", "start",
              "take", "cancel", "kill", "wait", "collect", "result",
              "deleteTunnel", "clear", "unset", "saveDelete"}
MainLabels == {"up", "take", "cancel", "kill", "wait", "collect", "result",
               "lastSave", "exited"}
WatcherLabels == {"read", "wait", "collect", "result", "exited", "sleep", "done"}

\* Every variable keeps its type, and the manager, the watchers and the
\* requests only hold processes and contexts that were made since start-up.
TypeOK ==
    /\ created \in 0..MaxTunnels
    /\ exists \subseteq 1..created
    /\ {info, disk} \subseteq 1..created \cup {NoTunnel}
    /\ cfId \in 1..created \cup {NoTunnel, Adopted}
    /\ cmd \in DOMAIN cmds \cup {NoCmd}
    /\ running \in BOOLEAN
    /\ cancel \in DOMAIN ctxs \cup {NoCtx}
    /\ Len(cmds) <= MaxLaunches /\ Len(ctxs) <= MaxStarts
    /\ \A c \in DOMAIN cmds :
           cmds[c] \in [tid : 1..created, ctx : DOMAIN ctxs, alive : BOOLEAN,
                        ps : BOOLEAN, collected : BOOLEAN, sent : BOOLEAN]
    /\ \A w \in DOMAIN ctxs :
           ctxs[w] \in [tid : 1..created, cancelled : BOOLEAN,
                        pc : WatcherLabels, cmd : DOMAIN cmds \cup {NoCmd}]
    /\ pc \in [Req \cup {Main} -> ReqLabels \cup MainLabels]
    /\ pc[Main] \in MainLabels /\ \A r \in Req : pc[r] \in ReqLabels
    /\ job \in [Req \cup {Main} ->
                   [tid : 1..created \cup {NoTunnel},
                    cmd : DOMAIN cmds \cup {NoCmd},
                    ctx : DOMAIN ctxs \cup {NoCtx}]]
    /\ exits \in 0..MaxExits
    /\ failures \in 0..MaxFailures
    /\ restarts \in 0..MaxRestarts

AllQuiet == pc = AllIdle

\* The processes that nothing is about to kill.
Kept == {c \in DOMAIN cmds : cmds[c].alive /\ ~ctxs[cmds[c].ctx].cancelled}

\* With no request in progress at most one cloudflared is kept running, and it
\* serves the tunnel the store has: neither a late watcher, nor a relaunch
\* that overtakes Stop, nor a failing step of Create or Delete leaves another
\* (Manager.Create, Delete, Stop and watchAndRestart).
NoStrayProcess ==
    AllQuiet => /\ Cardinality(Kept) <= 1
                /\ \A c \in Kept : cmds[c].tid = info

\* With no request in progress the Cloudflare client works on the tunnel the
\* store has, after any failing step and after a restart (SetTunnelID's three
\* callers).
ClientKnowsTunnel ==
    AllQuiet => IF info # NoTunnel THEN cfId = info
                ELSE cfId \in {NoTunnel, Adopted}

\* A tunnel that exists at Cloudflare and that the store does not know is the
\* price of one failing call or one restart (CreateTunnel, DeleteTunnel).
TunnelLeaksBounded ==
    AllQuiet => Cardinality(exists \ {info}) <= failures + restarts

\* A deletion that has come to Stop ends, unless Lantern does (manager.go:
\* "Delete stops cloudflared and deletes the tunnel from Cloudflare").
DeleteEnds == \A r \in Req : pc[r] = "take" ~> pc[r] = "idle" \/ RootDone
=============================================================================
