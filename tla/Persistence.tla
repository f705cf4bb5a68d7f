---------------------------- MODULE Persistence -----------------------------
(***************************************************************************)
(* Store.Save and Store.New (internal/store/store.go) under concurrent     *)
(* requests and crashes of the process.                                    *)
(*                                                                         *)
(* Every handler that changes the store does so under Store.mu and then    *)
(* calls Save, which marshals the whole store under the read lock, lets    *)
(* that lock go, and only then queues for saveMu to write config.json.tmp  *)
(* and rename it over config.json.                                         *)
(*                                                                         *)
(* The store's content is the sequence of changes made to it: all that     *)
(* matters here is which changes a snapshot contains.  A crash loses the   *)
(* process, not the file system: the kernel keeps what was written, in     *)
(* order (Save calls no fsync, so a power failure is outside this model).  *)
(***************************************************************************)
EXTENDS Naturals, Sequences, SequencesExt

CONSTANTS
    Proc,           \* goroutines that change the store: handlers, background tasks
    MaxChanges,     \* bound on the changes each of them makes
    MaxCrashes,     \* bound on crashes
    MayFail,        \* whether writing files can fail
    NoFile,         \* the path does not exist
    Torn,           \* a file that holds part of a snapshot
    Nobody          \* saveMu is free

ASSUME BoundsAssumption ==
    /\ MaxChanges \in Nat /\ MaxCrashes \in Nat
    /\ MayFail \in BOOLEAN
    /\ Nobody \notin Proc

VARIABLES
    mem,        \* changes applied to s.d since the start of time, in order
    disk,       \* config.json
    tmp,        \* config.json.tmp
    saveMu,     \* holder of saveMu
    pc,         \* what each goroutine does next
    raw,        \* the snapshot each goroutine has marshalled
    done,       \* changes begun, per goroutine
    saved,      \* changes whose Save has returned nil
    up,         \* the process runs
    crashes

vars == <<mem, disk, tmp, saveMu, pc, raw, done, saved, up, crashes>>

Change == Proc \X (1..MaxChanges)

\* A store's content, in memory or in a file.
Snapshot == Seq(Change)

ASSUME FilesAssumption == NoFile \notin Snapshot /\ Torn \notin Snapshot /\ NoFile # Torn

CurrentChange(p) == <<p, done[p]>>

Goto(p, from, to) ==
    /\ up
    /\ pc[p] = from
    /\ pc' = [pc EXCEPT ![p] = to]

-----------------------------------------------------------------------------
\* A store operation under Store.mu (AddService, UpdateService, ...).
Mutate(p) ==
    /\ done[p] < MaxChanges
    /\ Goto(p, "idle", "marshal")
    /\ done' = [done EXCEPT ![p] = @ + 1]
    /\ mem' = Append(mem, <<p, done[p] + 1>>)
    /\ UNCHANGED <<disk, tmp, saveMu, raw, saved, up, crashes>>

\* json.Marshal(s.d) under mu.RLock, which is released before saveMu is taken.
MarshalMutant(p) ==
    /\ Goto(p, "marshal", "lock")
    /\ \E i \in 0..Len(mem) :
           raw' = [raw EXCEPT ![p] = SubSeq(mem, 1, i) \o SubSeq(mem, i + 2, Len(mem))]
    /\ UNCHANGED <<mem, disk, tmp, saveMu, done, saved, up, crashes>>

Marshal(p) ==
    /\ Goto(p, "marshal", "lock")
    /\ raw' = [raw EXCEPT ![p] = mem]
    /\ UNCHANGED <<mem, disk, tmp, saveMu, done, saved, up, crashes>>

LockSaveMutant(p) ==
    /\ Goto(p, "lock", "create")
    /\ saveMu' = p
    /\ UNCHANGED <<mem, disk, tmp, raw, done, saved, up, crashes>>

LockSave(p) ==
    /\ saveMu = Nobody
    /\ Goto(p, "lock", "create")
    /\ saveMu' = p
    /\ UNCHANGED <<mem, disk, tmp, raw, done, saved, up, crashes>>

\* os.WriteFile opens the file with O_TRUNC ...
CreateTmp(p) ==
    /\ Goto(p, "create", "write")
    /\ tmp' = Torn
    /\ UNCHANGED <<mem, disk, saveMu, raw, done, saved, up, crashes>>

\* ... then writes the bytes and closes it.
WriteTmp(p) ==
    /\ Goto(p, "write", "rename")
    /\ tmp' = raw[p]
    /\ UNCHANGED <<mem, disk, saveMu, raw, done, saved, up, crashes>>

\* An error on open, write or rename: Save returns it, its caller logs it.
WriteFailsMutant(p) ==
    /\ MayFail
    /\ Goto(p, "write", "idle")
    /\ UNCHANGED <<mem, disk, tmp, raw, done, saved, up, crashes, saveMu>>

WriteFails(p) ==
    /\ MayFail
    /\ \/ Goto(p, "create", "idle")
       \/ Goto(p, "write", "idle")
       \/ Goto(p, "rename", "idle")
    /\ saveMu' = Nobody
    /\ UNCHANGED <<mem, disk, tmp, raw, done, saved, up, crashes>>

\* os.Rename, the deferred unlock, and Save's nil result.
RenameMutant(p) ==
    /\ Goto(p, "rename", "idle")
    /\ saveMu' = Nobody
    /\ saved' = saved \cup {CurrentChange(p)}
    /\ UNCHANGED <<mem, disk, tmp, raw, done, up, crashes>>

Rename(p) ==
    /\ Goto(p, "rename", "idle")
    /\ disk' = tmp
    /\ tmp' = NoFile
    /\ saveMu' = Nobody
    /\ saved' = saved \cup {CurrentChange(p)}
    /\ UNCHANGED <<mem, raw, done, up, crashes>>

\* The process dies: memory, locks and goroutines are gone, files stay.
Crash ==
    /\ up
    /\ crashes < MaxCrashes
    /\ up' = FALSE
    /\ crashes' = crashes + 1
    /\ pc' = [p \in Proc |-> "idle"]
    /\ saveMu' = Nobody
    /\ UNCHANGED <<mem, disk, tmp, raw, done, saved>>

NewMutant ==
    /\ ~up
    /\ disk # Torn
    /\ up' = TRUE
    /\ mem' = disk
    /\ UNCHANGED <<disk, tmp, saveMu, pc, raw, done, saved, crashes>>

\* store.New: an unreadable config.json is fatal, a missing one is an empty store.
New ==
    /\ ~up
    /\ disk # Torn
    /\ up' = TRUE
    /\ mem' = IF disk = NoFile THEN <<>> ELSE disk
    /\ UNCHANGED <<disk, tmp, saveMu, pc, raw, done, saved, crashes>>

Finished == up /\ \A p \in Proc : pc[p] = "idle" /\ done[p] = MaxChanges

\* All requests are served and the program idles.
Idle == Finished /\ UNCHANGED vars

-----------------------------------------------------------------------------
Init ==
    /\ mem = <<>>
    /\ disk = NoFile
    /\ tmp = NoFile
    /\ saveMu = Nobody
    /\ pc = [p \in Proc |-> "idle"]
    /\ raw = [p \in Proc |-> <<>>]
    /\ done = [p \in Proc |-> 0]
    /\ saved = {}
    /\ up = TRUE
    /\ crashes = 0

SaveStep(p) ==
    Marshal(p) \/ CreateTmp(p) \/ WriteTmp(p) \/ WriteFails(p) \/ Rename(p)

Next ==
    \/ \E p \in Proc : Mutate(p) \/ SaveStep(p) \/ LockSave(p)
    \/ Crash
    \/ New
    \/ Idle

\* A running goroutine is scheduled, and a Go mutex hands itself to a waiter
\* that has starved for 1ms, so nobody waits for saveMu forever.  Requests and
\* crashes are not owed to anyone; a supervisor restarts the process.
Fairness ==
    /\ \A p \in Proc : WF_vars(SaveStep(p)) /\ SF_vars(LockSave(p))
    /\ WF_vars(New)

Spec == Init /\ [][Next]_vars /\ Fairness

-----------------------------------------------------------------------------
\* The types of memory, files and goroutines.
TypeOK ==
    /\ mem \in Snapshot
    /\ disk \in Snapshot \cup {NoFile, Torn}
    /\ tmp \in Snapshot \cup {NoFile, Torn}
    /\ saveMu \in Proc \cup {Nobody}
    /\ pc \in [Proc -> {"idle", "marshal", "lock", "create", "write", "rename"}]
    /\ raw \in [Proc -> Snapshot]
    /\ done \in [Proc -> 0..MaxChanges]
    /\ saved \subseteq Change
    /\ up \in BOOLEAN
    /\ crashes \in 0..MaxCrashes

\* Wherever the process dies, config.json is not half-written, so the next
\* start does not end in log.Fatalf("store: ...").
AlwaysStartable == disk # Torn

\* While the process runs, config.json is a state its memory has been in: a
\* prefix of the changes made so far, never a mixture of two moments.
DiskIsAPastState ==
    up /\ disk \notin {NoFile, Torn} => IsPrefix(disk, mem)

\* "Save flushes the store to disk. Safe to call concurrently": a change whose
\* Save returned nil is on disk, and stays there through crashes.  It holds
\* when saves do not overlap; with overlapping saves an older snapshot may be
\* renamed over a newer one, because it was marshalled outside saveMu.
SavedStaysSaved ==
    \A change \in saved :
        disk \notin {NoFile, Torn} /\ Contains(disk, change)

\* No Save is stuck: whatever the other goroutines do, it returns or dies
\* with the process, and a crashed process comes back.
SaveReturns ==
    /\ \A p \in Proc : (pc[p] # "idle") ~> (pc[p] = "idle")
    /\ ~up ~> up
=============================================================================
