-------------------------- MODULE PersistenceProofs -------------------------
(***************************************************************************)
(* Store.Save keeps config.json whole and consistent, and keeps in it what *)
(* was saved while no two Saves overlapped, for any number of goroutines,  *)
(* changes and crashes.                                                    *)
(***************************************************************************)
EXTENDS MCPersistence, TLAPS

\* Only the holder of saveMu touches config.json.tmp.
Exclusive ==
    \A p \in Proc : pc[p] \in {"create", "write", "rename"} => saveMu = p

\* What is about to be renamed is the whole snapshot of the one who renames it.
TmpWhole == \A p \in Proc : pc[p] = "rename" => tmp = raw[p]

\* A marshalled snapshot is a past state of memory until it is on disk.
RawIsAPastState ==
    \A p \in Proc :
        pc[p] \in {"lock", "create", "write", "rename"} => IsPrefix(raw[p], mem)

\* When the process is down no goroutine is left.
DeadIsIdle == ~up => \A p \in Proc : pc[p] = "idle"

\* Who is saving has changed something.
Begun == \A p \in Proc : pc[p] # "idle" => done[p] # 0

SaveInv ==
    /\ TypeOK
    /\ Begun
    /\ Exclusive
    /\ TmpWhole
    /\ RawIsAPastState
    /\ DeadIsIdle
    /\ AlwaysStartable
    /\ DiskIsAPastState

-----------------------------------------------------------------------------
\* A snapshot is a prefix of itself, which is why marshalling memory keeps
\* RawIsAPastState, and why DiskIsAPastState holds again after New.
LEMMA PrefixOfSelf ==
    ASSUME NEW S, NEW s \in Seq(S)
    PROVE  IsPrefix(s, s)
  BY DEF IsPrefix

\* A past state stays one when memory changes.
LEMMA PrefixOfAppend ==
    ASSUME NEW S, NEW s \in Seq(S), NEW t \in Seq(S), NEW e \in S, IsPrefix(s, t)
    PROVE  IsPrefix(s, Append(t, e))
  BY DEF IsPrefix

-----------------------------------------------------------------------------
\* A fresh store satisfies the invariant.
LEMMA InitSaveInv == Init => SaveInv
  BY FilesAssumption, BoundsAssumption
     DEF Init, SaveInv, TypeOK, Begun, Exclusive, TmpWhole, RawIsAPastState,
         DeadIsIdle, AlwaysStartable, DiskIsAPastState, Snapshot

\* Changing the store under Store.mu disturbs no snapshot.
LEMMA MutateSaveInv ==
    ASSUME SaveInv, NEW p \in Proc, Mutate(p)
    PROVE  SaveInv'
<1>1. mem' = Append(mem, <<p, done[p] + 1>>) /\ <<p, done[p] + 1>> \in Change
  BY BoundsAssumption DEF SaveInv, TypeOK, Mutate, Change
<1>2. mem' \in Snapshot
  BY <1>1 DEF SaveInv, TypeOK, Snapshot
<1>3. TypeOK' /\ Begun'
  BY <1>2, BoundsAssumption DEF SaveInv, TypeOK, Begun, Mutate, Goto
<1>4. ASSUME NEW s \in Snapshot, IsPrefix(s, mem)
      PROVE  IsPrefix(s, mem')
  BY <1>1, <1>4, PrefixOfAppend DEF SaveInv, TypeOK, Snapshot
<1>5. RawIsAPastState'
  BY <1>4 DEF SaveInv, TypeOK, RawIsAPastState, Mutate, Goto
<1>6. DiskIsAPastState'
  BY <1>4 DEF SaveInv, TypeOK, DiskIsAPastState, Mutate, Goto
<1>7. Exclusive' /\ TmpWhole' /\ DeadIsIdle' /\ AlwaysStartable'
  BY DEF SaveInv, TypeOK, Exclusive, TmpWhole, DeadIsIdle, AlwaysStartable,
         Mutate, Goto
<1>8. QED
  BY <1>3, <1>5, <1>6, <1>7 DEF SaveInv

\* The snapshot is memory itself.
LEMMA MarshalSaveInv ==
    ASSUME SaveInv, NEW p \in Proc, Marshal(p)
    PROVE  SaveInv'
<1>1. TypeOK' /\ Begun'
  BY DEF SaveInv, TypeOK, Begun, Marshal, Goto
<1>2. IsPrefix(mem, mem)
  BY PrefixOfSelf DEF SaveInv, TypeOK, Snapshot
<1>3. RawIsAPastState'
  BY <1>2 DEF SaveInv, TypeOK, RawIsAPastState, Marshal, Goto
<1>4. TmpWhole' /\ Exclusive'
  BY DEF SaveInv, TypeOK, TmpWhole, Exclusive, Marshal, Goto
<1>5. DeadIsIdle' /\ AlwaysStartable' /\ DiskIsAPastState'
  BY DEF SaveInv, TypeOK, DeadIsIdle, AlwaysStartable, DiskIsAPastState,
         Marshal, Goto
<1>6. QED
  BY <1>1, <1>3, <1>4, <1>5 DEF SaveInv

\* saveMu goes to one goroutine, and no other is in the section it protects.
LEMMA LockSaveInv ==
    ASSUME SaveInv, NEW p \in Proc, LockSave(p)
    PROVE  SaveInv'
<1>1. TypeOK' /\ Begun'
  BY DEF SaveInv, TypeOK, Begun, LockSave, Goto
<1>2. Exclusive'
  BY BoundsAssumption DEF SaveInv, TypeOK, Exclusive, LockSave, Goto
<1>3. TmpWhole' /\ RawIsAPastState'
  BY DEF SaveInv, TypeOK, TmpWhole, RawIsAPastState, LockSave, Goto
<1>4. DeadIsIdle' /\ AlwaysStartable' /\ DiskIsAPastState'
  BY DEF SaveInv, TypeOK, DeadIsIdle, AlwaysStartable, DiskIsAPastState,
         LockSave, Goto
<1>5. QED
  BY <1>1, <1>2, <1>3, <1>4 DEF SaveInv

\* The temporary file changes while nobody else is about to rename it.
LEMMA TmpSaveInv ==
    ASSUME SaveInv, NEW p \in Proc, CreateTmp(p) \/ WriteTmp(p)
    PROVE  SaveInv'
<1>1. TypeOK' /\ Begun'
  BY DEF SaveInv, TypeOK, Begun, CreateTmp, WriteTmp, Goto
<1>2. Exclusive' /\ RawIsAPastState'
  BY DEF SaveInv, TypeOK, Exclusive, RawIsAPastState, CreateTmp, WriteTmp, Goto
<1>3. TmpWhole'
  <2>1. \A q \in Proc \ {p} : pc[q] # "rename"
    BY BoundsAssumption
       DEF SaveInv, TypeOK, Exclusive, CreateTmp, WriteTmp, Goto
  <2>2. QED
    BY <2>1 DEF SaveInv, TypeOK, TmpWhole, CreateTmp, WriteTmp, Goto
<1>4. DeadIsIdle' /\ AlwaysStartable' /\ DiskIsAPastState'
  BY DEF SaveInv, TypeOK, DeadIsIdle, AlwaysStartable, DiskIsAPastState,
         CreateTmp, WriteTmp, Goto
<1>5. QED
  BY <1>1, <1>2, <1>3, <1>4 DEF SaveInv

\* A failing write leaves config.json alone and releases saveMu.
LEMMA WriteFailsSaveInv ==
    ASSUME SaveInv, NEW p \in Proc, WriteFails(p)
    PROVE  SaveInv'
<1>1. TypeOK' /\ Begun'
  BY DEF SaveInv, TypeOK, Begun, WriteFails, Goto
<1>2. Exclusive'
  BY BoundsAssumption DEF SaveInv, TypeOK, Exclusive, WriteFails, Goto
<1>3. TmpWhole' /\ RawIsAPastState'
  BY DEF SaveInv, TypeOK, TmpWhole, RawIsAPastState, WriteFails, Goto
<1>4. DeadIsIdle' /\ AlwaysStartable' /\ DiskIsAPastState'
  BY DEF SaveInv, TypeOK, DeadIsIdle, AlwaysStartable, DiskIsAPastState,
         WriteFails, Goto
<1>5. QED
  BY <1>1, <1>2, <1>3, <1>4 DEF SaveInv

\* The rename puts a whole snapshot in place, the renamer's own.
LEMMA RenameSaveInv ==
    ASSUME SaveInv, NEW p \in Proc, Rename(p)
    PROVE  SaveInv'
<1>1. disk' = raw[p] /\ raw[p] \in Snapshot /\ IsPrefix(raw[p], mem)
  BY DEF SaveInv, TypeOK, TmpWhole, RawIsAPastState, Rename, Goto
<1>2. TypeOK' /\ Begun'
  BY <1>1 DEF SaveInv, TypeOK, Begun, Rename, Goto, CurrentChange, Change
<1>3. Exclusive'
  BY BoundsAssumption DEF SaveInv, TypeOK, Exclusive, Rename, Goto
<1>4. TmpWhole'
  <2>1. \A q \in Proc \ {p} : pc[q] # "rename"
    BY BoundsAssumption DEF SaveInv, TypeOK, Exclusive, Rename, Goto
  <2>2. QED
    BY <2>1 DEF SaveInv, TypeOK, TmpWhole, Rename, Goto
<1>5. RawIsAPastState' /\ DeadIsIdle'
  BY DEF SaveInv, TypeOK, RawIsAPastState, DeadIsIdle, Rename, Goto
<1>6. AlwaysStartable' /\ DiskIsAPastState'
  BY <1>1, FilesAssumption DEF AlwaysStartable, DiskIsAPastState, Rename
<1>7. QED
  BY <1>2, <1>3, <1>4, <1>5, <1>6 DEF SaveInv

\* A crash loses the goroutines; a start reads back what is on disk.
LEMMA RestartSaveInv ==
    ASSUME SaveInv, Crash \/ New
    PROVE  SaveInv'
<1>1. CASE Crash
  <2>1. crashes' \in 0..MaxCrashes
    BY <1>1, BoundsAssumption DEF SaveInv, TypeOK, Crash
  <2>2. TypeOK'
    BY <1>1, <2>1 DEF SaveInv, TypeOK, Crash
  <2>3. QED
    BY <1>1, <2>2
       DEF SaveInv, Begun, Exclusive, TmpWhole, RawIsAPastState, DeadIsIdle,
           AlwaysStartable, DiskIsAPastState, Crash
<1>2. CASE New
  <2>1. \A p \in Proc : pc[p] = "idle"
    BY <1>2 DEF SaveInv, DeadIsIdle, New
  <2>2. mem' \in Snapshot
    BY <1>2 DEF SaveInv, TypeOK, Snapshot, New
  <2>3. TypeOK' /\ Begun'
    BY <1>2, <2>2 DEF SaveInv, TypeOK, Begun, New
  <2>4. Exclusive' /\ TmpWhole' /\ RawIsAPastState' /\ DeadIsIdle'
    BY <1>2, <2>1 DEF Exclusive, TmpWhole, RawIsAPastState, DeadIsIdle, New
  <2>5. AlwaysStartable'
    BY <1>2 DEF AlwaysStartable, New
  <2>6. DiskIsAPastState'
    BY <1>2, PrefixOfSelf DEF SaveInv, TypeOK, Snapshot, DiskIsAPastState, New
  <2>7. QED
    BY <2>3, <2>4, <2>5, <2>6 DEF SaveInv
<1>3. QED
  BY <1>1, <1>2

\* Every step keeps the invariant.
LEMMA NextSaveInv == SaveInv /\ [Next]_vars => SaveInv'
<1> SUFFICES ASSUME SaveInv, [Next]_vars
             PROVE  SaveInv'
  OBVIOUS
<1>1. ASSUME NEW p \in Proc, Mutate(p) \/ SaveStep(p) \/ LockSave(p)
      PROVE  SaveInv'
  BY <1>1, MutateSaveInv, MarshalSaveInv, LockSaveInv, TmpSaveInv,
     WriteFailsSaveInv, RenameSaveInv DEF SaveStep
<1>2. CASE Crash \/ New
  BY <1>2, RestartSaveInv
<1>3. CASE UNCHANGED vars
  BY <1>3 DEF vars, SaveInv, TypeOK, Begun, Exclusive, TmpWhole, RawIsAPastState,
              DeadIsIdle, AlwaysStartable, DiskIsAPastState
<1>4. QED
  BY <1>1, <1>2, <1>3 DEF Next, Idle

\* For any number of goroutines and changes, and wherever they crash or fail to
\* write, config.json is never half-written (Save writes a temporary file,
\* under saveMu, and renames it).
THEOREM SaveIsAtomic == Spec => []AlwaysStartable
<1>1. SaveInv => AlwaysStartable
  BY DEF SaveInv
<1>2. QED
  BY <1>1, InitSaveInv, NextSaveInv, PTL DEF Spec

\* For any number of goroutines, changes and crashes, config.json holds a state
\* that the memory of the running process has been in (Save marshals the whole
\* store under mu, New reads the whole file).
THEOREM SaveIsConsistent == Spec => []DiskIsAPastState
<1>1. SaveInv => DiskIsAPastState
  BY DEF SaveInv
<1>2. QED
  BY <1>1, InitSaveInv, NextSaveInv, PTL DEF Spec

\* The goroutines, files and snapshots keep their types, for any number of them.
THEOREM PersistenceTyped == Spec => []TypeOK
<1>1. SaveInv => TypeOK
  BY DEF SaveInv
<1>2. QED
  BY <1>1, InitSaveInv, NextSaveInv, PTL DEF Spec

-----------------------------------------------------------------------------
(***************************************************************************)
(* While no two Saves have overlapped.  The one goroutine that is saving   *)
(* carries everything that was saved before, and its own change: first in  *)
(* memory, then in its snapshot.                                           *)
(***************************************************************************)
Holds(content, change) ==
    content \notin {NoFile, Torn} /\ Contains(content, change)

CarriesSaved ==
    \A p \in Proc :
        pc[p] \in {"lock", "create", "write", "rename"} =>
            \A change \in saved : Holds(raw[p], change)

CarriesOwn ==
    \A p \in Proc :
        /\ pc[p] = "marshal" => Contains(mem, CurrentChange(p))
        /\ pc[p] \in {"lock", "create", "write", "rename"} =>
               Contains(raw[p], CurrentChange(p))

MemHasSaved == up => \A change \in saved : Contains(mem, change)

AloneInv ==
    ~overlapped =>
        /\ ~SavingTogether
        /\ CarriesSaved
        /\ CarriesOwn
        /\ MemHasSaved
        /\ SavedStaysSaved

\* A change stays in memory when another one is added.
LEMMA ContainsAppend ==
    ASSUME NEW S, NEW s \in Seq(S), NEW e \in S
    PROVE  /\ Contains(Append(s, e), e)
           /\ \A change : Contains(s, change) => Contains(Append(s, e), change)
<1>1. /\ Append(s, e)[Len(s) + 1] = e
      /\ Len(Append(s, e)) = Len(s) + 1
      /\ Len(s) \in Nat
      /\ \A i \in 1..Len(s) : Append(s, e)[i] = s[i]
  OBVIOUS
<1>2. QED
  BY <1>1 DEF Contains

\* Changing the store: memory grows, snapshots and files stay.
LEMMA MutateAlone ==
    ASSUME SaveInv, AloneInv, NEW p \in Proc, Mutate(p), ~overlapped, ~SavingTogether'
    PROVE  CarriesSaved' /\ CarriesOwn' /\ MemHasSaved' /\ SavedStaysSaved'
<1>1. /\ mem' = Append(mem, <<p, done[p] + 1>>)
      /\ <<p, done[p] + 1>> \in Change
      /\ mem \in Seq(Change)
  BY BoundsAssumption DEF SaveInv, TypeOK, Mutate, Change, Snapshot
<1>2. /\ Contains(mem', <<p, done[p] + 1>>)
      /\ \A change : Contains(mem, change) => Contains(mem', change)
  BY <1>1, ContainsAppend
<1>3. /\ \A q \in Proc : pc'[q] = IF q = p THEN "marshal" ELSE pc[q]
      /\ \A q \in Proc : done'[q] = IF q = p THEN done[p] + 1 ELSE done[q]
      /\ raw' = raw /\ saved' = saved /\ disk' = disk /\ up' = up
  BY DEF SaveInv, TypeOK, Mutate, Goto
<1>4. CarriesSaved' /\ SavedStaysSaved'
  BY <1>3 DEF AloneInv, CarriesSaved, SavedStaysSaved, Holds
<1>5. MemHasSaved'
  BY <1>2, <1>3 DEF AloneInv, MemHasSaved
<1>6. CarriesOwn'
  BY <1>2, <1>3 DEF AloneInv, CarriesOwn, CurrentChange
<1>7. QED
  BY <1>4, <1>5, <1>6

\* The snapshot is memory, which has every saved change.
LEMMA MarshalAlone ==
    ASSUME SaveInv, AloneInv, NEW p \in Proc, Marshal(p), ~overlapped, ~SavingTogether'
    PROVE  CarriesSaved' /\ CarriesOwn' /\ MemHasSaved' /\ SavedStaysSaved'
<1>1. /\ \A q \in Proc : pc'[q] = IF q = p THEN "lock" ELSE pc[q]
      /\ \A q \in Proc : raw'[q] = IF q = p THEN mem ELSE raw[q]
      /\ mem \notin {NoFile, Torn}
      /\ pc[p] = "marshal" /\ up
  BY FilesAssumption DEF SaveInv, TypeOK, Marshal, Goto
<1>2. CarriesSaved'
  BY <1>1 DEF AloneInv, CarriesSaved, MemHasSaved, Holds, Marshal
<1>3. CarriesOwn'
  BY <1>1 DEF AloneInv, CarriesOwn, CurrentChange, Marshal
<1>4. MemHasSaved' /\ SavedStaysSaved'
  BY DEF AloneInv, MemHasSaved, SavedStaysSaved, Marshal, Goto
<1>5. QED
  BY <1>2, <1>3, <1>4

\* Nobody else is saving when the snapshot replaces config.json, and it has
\* what config.json had.
LEMMA RenameAlone ==
    ASSUME SaveInv, AloneInv, NEW p \in Proc, Rename(p), ~overlapped, ~SavingTogether'
    PROVE  CarriesSaved' /\ CarriesOwn' /\ MemHasSaved' /\ SavedStaysSaved'
<1>1. disk' = raw[p] /\ raw[p] \in Snapshot /\ IsPrefix(raw[p], mem)
  BY DEF SaveInv, TypeOK, TmpWhole, RawIsAPastState, Rename, Goto
<1>2. \A q \in Proc : pc'[q] = "idle"
  BY DEF SaveInv, TypeOK, AloneInv, SavingTogether, Rename, Goto
<1>3. Contains(raw[p], CurrentChange(p)) /\ Contains(mem, CurrentChange(p))
  <2>1. Contains(raw[p], CurrentChange(p))
    BY DEF AloneInv, CarriesOwn, Rename, Goto
  <2>2. raw[p] \in Seq(Change) /\ mem \in Seq(Change)
    BY <1>1 DEF SaveInv, TypeOK, Snapshot
  <2>3. QED
    BY <1>1, <2>1, <2>2 DEF IsPrefix, Contains
<1>4. CarriesSaved' /\ CarriesOwn'
  BY <1>2 DEF CarriesSaved, CarriesOwn
<1>5. MemHasSaved'
  BY <1>3 DEF AloneInv, MemHasSaved, Rename
<1>6. SavedStaysSaved'
  <2>1. \A change \in saved : Holds(raw[p], change)
    BY DEF AloneInv, CarriesSaved, Rename, Goto
  <2>2. raw[p] \notin {NoFile, Torn}
    BY <1>1, FilesAssumption
  <2>3. QED
    BY <1>1, <1>3, <2>1, <2>2 DEF SavedStaysSaved, Holds, Rename
<1>7. QED
  BY <1>4, <1>5, <1>6

\* A restart reads back what was saved; nobody is saving yet.
LEMMA RestartAlone ==
    ASSUME SaveInv, AloneInv, Crash \/ New, ~overlapped, ~SavingTogether'
    PROVE  CarriesSaved' /\ CarriesOwn' /\ MemHasSaved' /\ SavedStaysSaved'
<1>1. \A q \in Proc : pc'[q] = "idle"
  BY DEF SaveInv, DeadIsIdle, Crash, New
<1>2. CarriesSaved' /\ CarriesOwn'
  BY <1>1 DEF CarriesSaved, CarriesOwn
<1>3. SavedStaysSaved'
  BY DEF AloneInv, SavedStaysSaved, Crash, New
<1>4. MemHasSaved'
  BY DEF AloneInv, SavedStaysSaved, MemHasSaved, Crash, New
<1>5. QED
  BY <1>2, <1>3, <1>4

\* The other steps of a Save move it from one stage to the next.
LEMMA StageAlone ==
    ASSUME SaveInv, AloneInv, NEW p \in Proc, ~overlapped, ~SavingTogether',
           LockSave(p) \/ CreateTmp(p) \/ WriteTmp(p) \/ WriteFails(p)
    PROVE  CarriesSaved' /\ CarriesOwn' /\ MemHasSaved' /\ SavedStaysSaved'
<1>1. /\ \A q \in Proc : q # p => pc'[q] = pc[q]
      /\ pc'[p] = "idle"
         \/ {pc[p], pc'[p]} \subseteq {"lock", "create", "write", "rename"}
      /\ raw' = raw /\ mem' = mem /\ saved' = saved /\ disk' = disk
      /\ up' = up /\ done' = done
  BY DEF SaveInv, TypeOK, LockSave, CreateTmp, WriteTmp, WriteFails, Goto
<1>2. CarriesSaved' /\ CarriesOwn'
  BY <1>1 DEF AloneInv, CarriesSaved, CarriesOwn, CurrentChange, Holds
<1>3. MemHasSaved' /\ SavedStaysSaved'
  BY <1>1 DEF AloneInv, MemHasSaved, SavedStaysSaved
<1>4. QED
  BY <1>2, <1>3

\* Every step keeps what was saved, unless two Saves overlap by then.
LEMMA NextAlone ==
    ASSUME SaveInv, AloneInv, [MCNext]_<<vars, overlapped>>
    PROVE  AloneInv'
<1>1. CASE UNCHANGED <<vars, overlapped>>
  BY <1>1 DEF vars, AloneInv, SavingTogether, CarriesSaved, CarriesOwn, CurrentChange,
              MemHasSaved, SavedStaysSaved
<1>2. CASE MCNext
  <2> SUFFICES ASSUME ~overlapped'
               PROVE  /\ ~SavingTogether'
                      /\ CarriesSaved' /\ CarriesOwn' /\ MemHasSaved' /\ SavedStaysSaved'
    BY DEF AloneInv
  <2>1. ~overlapped /\ ~SavingTogether'
    BY <1>2 DEF MCNext
  <2>2. ASSUME NEW p \in Proc, Mutate(p) \/ SaveStep(p) \/ LockSave(p)
        PROVE  CarriesSaved' /\ CarriesOwn' /\ MemHasSaved' /\ SavedStaysSaved'
    BY <2>1, <2>2, MutateAlone, MarshalAlone, RenameAlone, StageAlone DEF SaveStep
  <2>3. CASE Crash \/ New
    BY <2>1, <2>3, RestartAlone
  <2>4. CASE UNCHANGED vars
    BY <2>1, <2>4 DEF vars, AloneInv, CarriesSaved, CarriesOwn, CurrentChange,
                      MemHasSaved, SavedStaysSaved
  <2>5. QED
    BY <1>2, <2>1, <2>2, <2>3, <2>4 DEF MCNext, Next, Idle
<1>3. QED
  BY <1>1, <1>2

\* For any number of goroutines, changes, failing writes and crashes: as long
\* as no two Saves have overlapped, each change whose Save returned nil is in
\* config.json (Save marshals outside saveMu, so overlapping ones may not).
THEOREM SavedStays == MCSpec => []SavedStaysUnlessOverlapped
<1>1. MCInit => SaveInv /\ AloneInv
  BY InitSaveInv
     DEF MCInit, Init, AloneInv, SavingTogether, CarriesSaved, CarriesOwn,
         MemHasSaved, SavedStaysSaved
<1>2. SaveInv /\ AloneInv /\ [MCNext]_<<vars, overlapped>> => SaveInv' /\ AloneInv'
  <2> SUFFICES ASSUME SaveInv, AloneInv, [MCNext]_<<vars, overlapped>>
               PROVE  SaveInv' /\ AloneInv'
    OBVIOUS
  <2>1. [Next]_vars
    BY DEF MCNext, vars
  <2>2. QED
    BY <2>1, NextSaveInv, NextAlone
<1>3. AloneInv => SavedStaysUnlessOverlapped
  BY DEF AloneInv, SavedStaysUnlessOverlapped
<1>4. QED
  BY <1>1, <1>2, <1>3, PTL DEF MCSpec
=============================================================================
