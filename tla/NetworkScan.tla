---------------------------- MODULE NetworkScan -----------------------------
(***************************************************************************)
(* The full and the light scan of internal/discovery/discovery.go over the *)
(* lists they share with the users and the Docker watcher.  What comes out *)
(* of the two channels is ScanResults, which ScanPipeline implements: each *)
(* address at most once per scan, in any order, and then the end.          *)
(*                                                                         *)
(* Both scans read the assigned targets when they begin, the full scan     *)
(* also the ignored addresses, and filter with those copies for as long as *)
(* they take, which is minutes for a full one.                             *)
(***************************************************************************)
EXTENDS DiscoveredLists

CONSTANTS
    MaxScans,       \* bound on the scans of each kind
    MaxRequests     \* bound on what users and the watcher do meanwhile

VARIABLES
    scanning,       \* d.scanning
    full,           \* the runScan in progress, or NoScan
    light,          \* the runLightScan in progress, or NoScan
    budget,         \* what may still happen
    fresh,          \* history: addresses reported, or listed again by a user,
                    \* since the last full scan began; NoEntry before the first
    excused         \* history: addresses ignored or assigned in a way that a
                    \* scan may overlook

scanVars == <<scanning, full, light>>
vars == <<storeVars, listVars, scanVars, budget, fresh, excused>>

\* A service's target is its data, and there is something to say of an entry.
ASSUME TargetAssumption == Addr \subseteq Payload /\ Info # {}

NoScan == [seen |-> {}, assigned |-> {}, ignored |-> {}, on |-> FALSE]

Spend(what) ==
    /\ budget[what] > 0
    /\ budget' = [budget EXCEPT ![what] = @ - 1]

-----------------------------------------------------------------------------
(* Scans *)

assignedTargets == {idIdx[id].data : id \in LiveIds}

\* ignoredSet, from the list: the index may miss an address that is on it twice.
ignoredSet == {ignoredIdx[did] : did \in ignored}

Report(addr) == fresh' = IF fresh = NoEntry THEN NoEntry ELSE fresh \cup {addr}

\* upsertProbeResult, under a new ID
Upsert(addr) ==
    \E did \in Did, info \in Info :
        /\ Unused(did) /\ did = CHOOSE free \in Did : Unused(free)
        /\ UpsertNetworkDiscovered(did, addr, info)

\* The check and the flag are one critical section of d.mu.
ScanNow ==
    /\ ~scanning
    /\ Spend("full")
    /\ scanning' = TRUE
    /\ UNCHANGED <<storeVars, listVars, full, light, fresh, excused>>

clearMutant == UNCHANGED discoveredVars

clear == ClearNetworkDiscovered

\* runScan to the call of scanNetwork
BeginFull ==
    /\ scanning /\ ~full.on
    /\ full' = [on |-> TRUE, seen |-> {}, assigned |-> assignedTargets,
                ignored |-> ignoredSet]
    /\ clear
    /\ fresh' = {}
    /\ UNCHANGED <<storeVars, ignoredVars, scanning, light, budget, excused>>

skippedMutant == full.assigned

skipped == full.ignored \cup full.assigned

FullResult(addr) ==
    /\ full.on /\ addr \notin full.seen
    /\ full' = [full EXCEPT !.seen = @ \cup {addr}]
    /\ Report(addr)
    /\ IF addr \in skipped THEN UNCHANGED discoveredVars ELSE Upsert(addr)
    /\ UNCHANGED <<storeVars, ignoredVars, scanning, light, budget, excused>>

FinishFullMutant ==
    /\ full.on
    /\ full' = NoScan
    /\ scanning' = (full.seen = {})
    /\ UNCHANGED <<storeVars, listVars, light, budget, fresh, excused>>

FinishFull ==
    /\ full.on
    /\ full' = NoScan
    /\ scanning' = FALSE
    /\ UNCHANGED <<storeVars, listVars, light, budget, fresh, excused>>

\* A tick of ScheduledScan, skipped during a full scan; a full scan may begin
\* while a light one runs.
BeginLight ==
    /\ ~scanning /\ ~light.on
    /\ Spend("light")
    /\ light' = [NoScan EXCEPT !.on = TRUE, !.assigned = assignedTargets]
    /\ UNCHANGED <<storeVars, listVars, scanning, full, fresh, excused>>

\* Ignored addresses are not looked at.
LightResult(addr) ==
    /\ light.on /\ addr \notin light.seen
    /\ light' = [light EXCEPT !.seen = @ \cup {addr}]
    /\ Report(addr)
    /\ IF addr \in light.assigned THEN UNCHANGED discoveredVars ELSE Upsert(addr)
    /\ excused' = excused \cup ({addr} \cap ignoredSet)
    /\ UNCHANGED <<storeVars, ignoredVars, scanning, full, budget>>

FinishLightMutant ==
    /\ light.on
    /\ light' = NoScan
    /\ scanning' = FALSE
    /\ UNCHANGED <<storeVars, listVars, full, budget, fresh, excused>>

FinishLight ==
    /\ light.on
    /\ light' = NoScan
    /\ UNCHANGED <<storeVars, listVars, scanning, full, budget, fresh, excused>>

-----------------------------------------------------------------------------
(* Users and the Docker watcher meanwhile *)

\* Entries of the same address, one scanned and one a container's, are apart.
Twins(did) == {d \in discovered \ {did} : discoveredIdx[d].addr = discoveredIdx[did].addr}

\* The address of an entry is settled, by the book or while a scan works with
\* older copies or another entry has it.
Settle(did, overlooked) ==
    excused' = IF overlooked \/ Twins(did) # {}
               THEN excused \cup {discoveredIdx[did].addr}
               ELSE excused \ {discoveredIdx[did].addr}

\* createService from an entry
Assign(did, sub) ==
    /\ IsListed(did) /\ ~SubdomainTaken(sub)
    /\ \E id \in Id \ LiveIds :
           /\ id = CHOOSE free \in Id : ~Live(free)
           /\ AddService(id, [sub |-> sub, source |-> discoveredIdx[did].source,
                              cid |-> discoveredIdx[did].cid, name |-> NoName,
                              order |-> 0, data |-> discoveredIdx[did].addr])
    /\ RemoveDiscovered(did)
    /\ Settle(did, full.on \/ light.on)
    /\ UNCHANGED <<ignoredVars, fresh>>

Delete(id) ==
    /\ Live(id)
    /\ DeleteService(id)
    /\ UNCHANGED <<listVars, fresh, excused>>

Ignore(did) ==
    /\ IgnoreDiscovered(did)
    /\ Settle(did, full.on)
    /\ UNCHANGED <<storeVars, fresh>>

\* A user may put back what is assigned.
Unignore(did) ==
    /\ \E info \in Info : unignoreService(did, info)
    /\ Report(ignoredIdx[did])
    /\ excused' = excused \cup {ignoredIdx[did]}
    /\ UNCHANGED storeVars

\* The watcher lists a container and removes its entry.
ContainerListedOrEnded(cid, addr) ==
    /\ \/ \E did \in Did :
              /\ Unused(did) /\ did = CHOOSE free \in Did : Unused(free)
              /\ AddDiscovered(did, [addr |-> addr, source |-> "docker", cid |-> cid,
                                     name |-> NoName, info |-> CHOOSE i \in Info : TRUE])
       \/ RemoveDiscoveredByContainerID(cid)
    /\ UNCHANGED <<storeVars, ignoredVars, fresh, excused>>

\* Both scans are gone, and so is the flag.
Restart ==
    /\ scanning' = FALSE /\ full' = NoScan /\ light' = NoScan
    /\ fresh' = NoEntry
    /\ rebuildIndexes
    /\ rebuildListIndexes
    /\ UNCHANGED excused

Meanwhile ==
    /\ Spend("requests")
    /\ \/ /\ \/ \E did \in Did, sub \in Sub : Assign(did, sub)
             \/ \E id \in Id : Delete(id)
             \/ \E did \in Did : Ignore(did) \/ Unignore(did)
             \/ \E cid \in Cid, addr \in Addr : ContainerListedOrEnded(cid, addr)
          /\ UNCHANGED scanVars
       \/ Restart

-----------------------------------------------------------------------------

ScanInit ==
    /\ Init /\ ListsInit
    /\ scanning = FALSE /\ full = NoScan /\ light = NoScan
    /\ budget = [full |-> MaxScans, light |-> MaxScans, requests |-> MaxRequests]
    /\ fresh = NoEntry /\ excused = {}

ScanNext ==
    \/ ScanNow \/ BeginFull \/ FinishFull
    \/ BeginLight \/ FinishLight
    \/ \E addr \in Addr : FullResult(addr) \/ LightResult(addr)
    \/ Meanwhile

\* A scan that was asked for begins, and its channel is closed in the end, as
\* ScanResults promises.
ScanSpec == ScanInit /\ [][ScanNext]_vars /\ WF_vars(BeginFull) /\ WF_vars(FinishFull)

-----------------------------------------------------------------------------
(* Properties *)

\* The types of the scans' variables and of those they share.
ScanTypeOK ==
    /\ TypeOK /\ ListsTypeOK
    /\ scanning \in BOOLEAN
    /\ \A scan \in {full, light} : scan.seen \cup scan.assigned \cup scan.ignored \subseteq Addr
    /\ full.on => scanning

\* Once a full scan has begun, every scanned entry on the list was reported
\* by it or by a light scan since, or put back by a user: what an earlier scan
\* found and is no longer there disappears, also when light scans and the
\* Docker watcher write to the list at the same time.
FullScanRefreshes ==
    fresh # NoEntry => \A did \in NetworkEntries : discoveredIdx[did].addr \in fresh

\* Every full scan that was asked for ends, and lets the next one be asked for.
ScanEnds == scanning ~> ~scanning

\* A scan does not offer an address that the user has ignored or assigned,
\* unless a light scan met the ignored address, the user settled it while a scan
\* was filtering with older copies, or an entry of the same address was left
\* (runScan and runLightScan read both lists at their start).
SettledIsNotOffered ==
    \A did \in NetworkEntries :
        LET addr == discoveredIdx[did].addr IN
        addr \in excused \/ addr \notin ignoredSet \cup assignedTargets
=============================================================================
