--------------------------- MODULE ScannerProofs ----------------------------
(* Theorems about the network scanner, for every value of its constants:    *)
(* first NetworkScan, the scans over the store's lists, then ScanPipeline,  *)
(* the inside of one scan, with what makes its end come.                    *)
EXTENDS NetworkScan, ScanPipeline, ServiceStoreProofs, DiscoveredListsProofs,
        SequenceTheorems, TLAPS

(***************************************************************************)
(* The inductive invariant: what ServiceStoreProofs and                    *)
(* DiscoveredListsProofs say of the store, and what the copies a scan      *)
(* works with still say of the lists they were made from.                  *)
(***************************************************************************)
\* The addresses that scans offer
Offered == {discoveredIdx[did].addr : did \in NetworkEntries}

\* A service added from an entry has the address for its target.
TargetsAreAddresses == \A id \in LiveIds : idIdx[id].data \in Addr

\* A scan knows nothing of containers.
ScannedHaveNoContainer == \A did \in NetworkEntries : discoveredIdx[did].cid = NoCid

StoreInv == TypeOK /\ IndexSound /\ TargetsAreAddresses

EntriesInv == ListsInv /\ ScannedHaveNoContainer

Scan == [seen : SUBSET Addr, assigned : SUBSET Addr, ignored : SUBSET Addr, on : BOOLEAN]

ScansTyped ==
    /\ scanning \in BOOLEAN
    /\ full \in Scan /\ light \in Scan
    /\ full.on => scanning

\* What a copy of a list misses is excused; a light scan does not look at the
\* ignored addresses.
CopiesHeld ==
    /\ full.on => ignoredSet \cup assignedTargets \subseteq skipped \cup excused
    /\ light.on => assignedTargets \subseteq light.assigned \cup ignoredSet \cup excused

OffersHeld ==
    /\ Offered \cap (ignoredSet \cup assignedTargets) \subseteq excused
    /\ fresh # NoEntry => Offered \subseteq fresh

ScanInv == StoreInv /\ EntriesInv /\ ScansTyped /\ CopiesHeld /\ OffersHeld

-----------------------------------------------------------------------------
(* What the operations of the store and the lists do to these sets *)

\* Every operation of the store keeps its types and lookups.
LEMMA StoreKeeps ==
    ASSUME StoreInv, [Next]_storeVars, TargetsAreAddresses' PROVE StoreInv'
BY NextType, NextSubdomain, NextContainerID, NextContainerName DEF StoreInv, IndexSound

\* What leaves the services alone keeps the targets.
LEMMA StoreFrame ==
    ASSUME StoreInv, UNCHANGED storeVars
    PROVE  StoreInv' /\ assignedTargets' = assignedTargets
<1>1. assignedTargets' = assignedTargets /\ TargetsAreAddresses'
  BY DEF storeVars, assignedTargets, TargetsAreAddresses, StoreInv, LiveIds, Live
<1> QED BY <1>1, StoreKeeps

\* AddService adds its target.
LEMMA AddServiceKeeps ==
    ASSUME StoreInv, NEW id \in Id, NEW svc \in Addable, svc.data \in Addr, AddService(id, svc)
    PROVE  StoreInv' /\ assignedTargets' = assignedTargets \cup {svc.data}
<1>1. \A i \in Id : idIdx'[i] = IF i = id THEN svc ELSE idIdx[i]
  BY DEF AddService, Put, StoreInv, TypeOK
<1>2. LiveIds' = LiveIds \cup {id} /\ id \notin LiveIds
  BY <1>1, NoServiceAssumption DEF AddService, LiveIds, Live, Addable
<1>3. assignedTargets' = assignedTargets \cup {svc.data} /\ TargetsAreAddresses'
  BY <1>1, <1>2 DEF assignedTargets, TargetsAreAddresses, StoreInv, LiveIds
<1>4. Next
  BY DEF Next
<1> QED BY <1>3, <1>4, StoreKeeps

\* DeleteService and a restart only take targets away.
LEMMA FewerTargets ==
    ASSUME StoreInv, [Next]_storeVars,
           \A id \in Id : idIdx'[id] \in {idIdx[id], NoService}
    PROVE  StoreInv' /\ assignedTargets' \subseteq assignedTargets
<1>1. \A id \in LiveIds' : id \in LiveIds /\ idIdx'[id] = idIdx[id]
  BY DEF LiveIds, Live
<1>2. assignedTargets' \subseteq assignedTargets /\ TargetsAreAddresses'
  BY <1>1 DEF assignedTargets, TargetsAreAddresses, StoreInv
<1> QED BY <1>2, StoreKeeps

\* What leaves the discovered list alone keeps the offers.
LEMMA OfferedFrame ==
    ASSUME UNCHANGED discoveredVars
    PROVE  Offered' = Offered /\ (ScannedHaveNoContainer => ScannedHaveNoContainer')
BY DEF discoveredVars, Offered, NetworkEntries, ScannedHaveNoContainer

\* unlist withdraws the offers of its entries and no other.
LEMMA UnlistOffers ==
    ASSUME DiscoveredInv, ScannedHaveNoContainer, NEW dids \in SUBSET Did, unlist(dids)
    PROVE  /\ NetworkEntries' = NetworkEntries \ dids
           /\ Offered' = {discoveredIdx[did].addr : did \in NetworkEntries \ dids}
           /\ ScannedHaveNoContainer'
<1>1. discovered' = discovered \ dids
      /\ \A did \in Did \ dids : discoveredIdx'[did] = discoveredIdx[did]
  BY DEF unlist
<1>2. discovered \subseteq Did
  BY DEF DiscoveredInv, DiscoveredTypeOK
<1>3. NetworkEntries' = NetworkEntries \ dids
  BY <1>1, <1>2 DEF NetworkEntries
<1> QED BY <1>1, <1>2, <1>3 DEF Offered, ScannedHaveNoContainer, NetworkEntries

\* indexDiscovered adds at most its own offer.
LEMMA IndexOffers ==
    ASSUME DiscoveredInv, ScannedHaveNoContainer, NEW did \in Did, did \notin discovered,
           NEW entry \in Entry, entry.source = "network" => entry.cid = NoCid,
           indexDiscovered(did, entry)
    PROVE  /\ Offered' \subseteq Offered \cup (IF entry.source = "network" THEN {entry.addr}
                                               ELSE {})
           /\ ScannedHaveNoContainer'
<1>1. discovered' = discovered \cup {did} /\ discovered \subseteq Did
  BY DEF indexDiscovered, DiscoveredInv, DiscoveredTypeOK
<1>2. \A d \in Did : discoveredIdx'[d] = IF d = did THEN entry ELSE discoveredIdx[d]
  BY DEF indexDiscovered, Put, DiscoveredInv, DiscoveredTypeOK
<1>3. \A d \in NetworkEntries' :
          \/ d \in NetworkEntries /\ d \in Did /\ discoveredIdx'[d] = discoveredIdx[d]
          \/ d = did /\ entry.source = "network" /\ discoveredIdx'[d] = entry
  BY <1>1, <1>2 DEF NetworkEntries
<1>4. ScannedHaveNoContainer'
  BY <1>3 DEF ScannedHaveNoContainer
<1>5. \A d \in NetworkEntries' : discoveredIdx'[d].addr
          \in Offered \cup (IF entry.source = "network" THEN {entry.addr} ELSE {})
  BY <1>3 DEF Offered
<1> QED BY <1>4, <1>5 DEF Offered

\* AddDiscovered offers at most its own address, and no container of a scan.
LEMMA AddOffers ==
    ASSUME DiscoveredInv, ScannedHaveNoContainer, NEW did \in Did, did \notin discovered,
           NEW entry \in Entry, entry.source = "network" => entry.cid = NoCid,
           AddDiscovered(did, entry)
    PROVE  /\ Offered' \subseteq Offered \cup (IF entry.source = "network" THEN {entry.addr}
                                               ELSE {})
           /\ ScannedHaveNoContainer'
<1>1. CASE AddRefused(entry)
  BY <1>1, OfferedFrame DEF AddDiscovered
<1>2. CASE ~AddRefused(entry)
  BY <1>2, IndexOffers DEF AddDiscovered
<1> QED BY <1>1, <1>2

\* The result of a scan offers its address.
LEMMA UpsertOffers ==
    ASSUME EntriesInv, NEW addr \in Addr, Upsert(addr), UNCHANGED ignoredVars
    PROVE  EntriesInv' /\ Offered' \subseteq Offered \cup {addr}
<1>1. DiscoveredInv /\ ScannedHaveNoContainer /\ ListsInv
  BY DEF EntriesInv, ListsInv
<1>2. PICK did \in Did, info \in Info :
          Unused(did) /\ UpsertNetworkDiscovered(did, addr, info)
  BY DEF Upsert
<1>3. ListsInv'
  <2>1. ListsNext
    BY <1>2 DEF ListsNext
  <2> QED BY <1>1, <2>1, ListsNextKeeps
<1>4. CASE SameAddress(addr) # {}
  <2>1. PICK old \in SameAddress(addr) :
            discoveredIdx' = [discoveredIdx EXCEPT ![old].info = info]
    BY <1>2, <1>4 DEF UpsertNetworkDiscovered
  <2>2. UNCHANGED discovered /\ discovered \subseteq Did
    BY <1>1, <1>2, <1>4 DEF UpsertNetworkDiscovered, DiscoveredInv, DiscoveredTypeOK
  <2>3. \A d \in discovered : /\ discoveredIdx'[d].addr = discoveredIdx[d].addr
                              /\ discoveredIdx'[d].source = discoveredIdx[d].source
                              /\ discoveredIdx'[d].cid = discoveredIdx[d].cid
    <3> SUFFICES ASSUME NEW d \in discovered
                 PROVE  /\ discoveredIdx'[d].addr = discoveredIdx[d].addr
                        /\ discoveredIdx'[d].source = discoveredIdx[d].source
                        /\ discoveredIdx'[d].cid = discoveredIdx[d].cid
      OBVIOUS
    <3>1. discoveredIdx[d] \in Entry
      BY <1>1, <2>2 DEF DiscoveredInv, DiscoveredTypeOK, DiscoveredMatches, IsListed
    <3>2. discoveredIdx'[d] = IF d = old THEN [discoveredIdx[d] EXCEPT !.info = info]
                              ELSE discoveredIdx[d]
      BY <1>1, <2>1, <2>2 DEF DiscoveredInv, DiscoveredTypeOK
    <3> QED BY <3>1, <3>2 DEF Entry
  <2>4. NetworkEntries' = NetworkEntries
    BY <2>2, <2>3 DEF NetworkEntries
  <2>5. Offered' = Offered /\ ScannedHaveNoContainer'
    BY <1>1, <2>2, <2>3, <2>4 DEF Offered, NetworkEntries, ScannedHaveNoContainer
  <2> QED BY <1>3, <2>5 DEF EntriesInv
<1>5. CASE SameAddress(addr) = {}
  <2>1. PICK entry : entry = [addr |-> addr, source |-> "network", cid |-> NoCid,
                              name |-> NoName, info |-> info]
    OBVIOUS
  <2>2. entry \in Entry /\ entry.cid = NoCid /\ entry.addr = addr /\ entry.source = "network"
    BY <2>1 DEF Entry
  <2>3. indexDiscovered(did, entry) /\ did \notin discovered
    BY <1>2, <1>5, <2>1 DEF UpsertNetworkDiscovered, Unused
  <2> QED BY <1>1, <1>3, <2>2, <2>3, IndexOffers DEF EntriesInv
<1> QED BY <1>4, <1>5

\* What leaves the lists alone keeps what holds of them.
LEMMA EntriesFrame ==
    ASSUME EntriesInv, UNCHANGED listVars
    PROVE  EntriesInv' /\ Offered' = Offered /\ ignoredSet' = ignoredSet
<1>1. UNCHANGED discoveredVars /\ ListsInv'
  BY ListsNextKeeps DEF EntriesInv, listVars, discoveredVars
<1>2. ignoredSet' = ignoredSet
  BY DEF listVars, ignoredSet
<1> QED BY <1>1, <1>2, OfferedFrame DEF EntriesInv

\* The set that scans copy depends on the ignored list alone.
LEMMA IgnoredSetFrame == ASSUME UNCHANGED ignoredVars PROVE ignoredSet' = ignoredSet
BY DEF ignoredVars, ignoredSet

-----------------------------------------------------------------------------
(* The scans *)

\* An empty store and no scan.
LEMMA ScanInitHolds == ScanInit => ScanInv
<1> SUFFICES ASSUME ScanInit PROVE ScanInv
  OBVIOUS
<1> USE DEF ScanInit
<1>1. LiveIds = {} /\ StoreInv
  BY InitType DEF Init, StoreInv, IndexSound, SubdomainSound, ContainerIDSound,
                  ContainerNameSound, TargetsAreAddresses, LiveIds, Live
<1>2. NetworkEntries = {} /\ EntriesInv
  BY ListsInitHolds DEF ListsInit, EntriesInv, ScannedHaveNoContainer, NetworkEntries
<1>3. ScansTyped /\ CopiesHeld
  BY DEF ScansTyped, Scan, NoScan, CopiesHeld
<1>4. OffersHeld
  BY <1>2 DEF OffersHeld, Offered
<1> QED BY <1>1, <1>2, <1>3, <1>4 DEF ScanInv

\* ScanNow, FinishFull and FinishLight change only the flags.
LEMMA FlagsKeep ==
    ASSUME ScanInv, ScanNow \/ FinishFull \/ FinishLight
    PROVE  ScanInv'
<1> USE DEF ScanInv, ScanNow, FinishFull, FinishLight
<1>1. StoreInv' /\ assignedTargets' = assignedTargets
  BY StoreFrame
<1>2. EntriesInv' /\ Offered' = Offered /\ ignoredSet' = ignoredSet
  BY EntriesFrame
<1>3. ScansTyped'
  <2>1. NoScan \in Scan /\ NoScan.on = FALSE
    BY DEF NoScan, Scan
  <2>2. full' \in Scan /\ light' \in Scan /\ scanning' \in BOOLEAN
    BY <2>1 DEF ScansTyped
  <2>3. full'.on => scanning'
    BY <2>1 DEF ScansTyped
  <2> QED BY <2>2, <2>3 DEF ScansTyped
<1>4. CopiesHeld'
  <2>1. /\ full' = full \/ full'.on = FALSE
        /\ light' = light \/ light'.on = FALSE
        /\ excused' = excused
    BY DEF NoScan
  <2> QED BY ONLY <1>1, <1>2, <2>1, ScanInv DEF ScanInv, CopiesHeld, skipped
<1>5. OffersHeld'
  BY <1>1, <1>2 DEF OffersHeld
<1> QED BY <1>1, <1>2, <1>3, <1>4, <1>5

\* runScan reads both lists, so its copies miss nothing, and withdraws every
\* offer.
LEMMA BeginFullKeeps == ASSUME ScanInv, BeginFull PROVE ScanInv'
<1> USE DEF ScanInv, BeginFull, clear, ClearNetworkDiscovered
<1>1. StoreInv' /\ assignedTargets' = assignedTargets /\ ignoredSet' = ignoredSet
  BY StoreFrame, IgnoredSetFrame
<1>2. ListsInv /\ DiscoveredInv /\ ScannedHaveNoContainer
  BY DEF EntriesInv, ListsInv
<1>3. ListsInv'
  BY <1>2, ListsNextKeeps DEF ListsNext
<1>4. NetworkEntries \in SUBSET Did
  BY <1>2 DEF NetworkEntries, DiscoveredInv, DiscoveredTypeOK
<1>5. Offered' = {} /\ ScannedHaveNoContainer'
  BY <1>2, <1>4, UnlistOffers
<1>6. assignedTargets \subseteq Addr
  BY DEF StoreInv, TargetsAreAddresses, assignedTargets
<1>7. ignoredSet \subseteq Addr
  BY <1>2 DEF ListsInv, IgnoredInv, IgnoredTypeOK, IgnoredMatches, ignoredSet
<1>8. full' \in Scan /\ full'.assigned = assignedTargets /\ full'.ignored = ignoredSet
  BY <1>6, <1>7 DEF Scan
<1>9. ScansTyped'
  BY <1>8 DEF ScansTyped
<1>10. CopiesHeld'
  BY <1>1, <1>8 DEF CopiesHeld, skipped
<1>11. OffersHeld'
  BY <1>5 DEF OffersHeld
<1> QED BY <1>1, <1>3, <1>5, <1>9, <1>10, <1>11 DEF EntriesInv

\* ScheduledScan reads the services.
LEMMA BeginLightKeeps == ASSUME ScanInv, BeginLight PROVE ScanInv'
<1> USE DEF ScanInv, BeginLight
<1>1. StoreInv' /\ assignedTargets' = assignedTargets
  BY StoreFrame
<1>2. EntriesInv' /\ Offered' = Offered /\ ignoredSet' = ignoredSet
  BY EntriesFrame
<1>3. assignedTargets \subseteq Addr
  BY DEF StoreInv, TargetsAreAddresses, assignedTargets
<1>4. light' \in Scan /\ light'.assigned = assignedTargets
  BY <1>3 DEF Scan, NoScan
<1>5. ScansTyped'
  BY <1>4 DEF ScansTyped
<1>6. CopiesHeld'
  BY <1>1, <1>2, <1>4 DEF CopiesHeld, skipped
<1>7. OffersHeld'
  BY <1>1, <1>2 DEF OffersHeld
<1> QED BY <1>1, <1>2, <1>5, <1>6, <1>7

\* A result of the full scan is filtered with its copies.
LEMMA FullResultKeeps == ASSUME ScanInv, NEW addr \in Addr, FullResult(addr) PROVE ScanInv'
<1> USE DEF ScanInv, FullResult
<1>1. StoreInv' /\ assignedTargets' = assignedTargets /\ ignoredSet' = ignoredSet
  BY StoreFrame, IgnoredSetFrame
<1>2. /\ full' \in Scan /\ full'.on = full.on
      /\ full'.assigned = full.assigned /\ full'.ignored = full.ignored
  BY DEF ScansTyped, Scan
<1>3. ScansTyped'
  BY <1>2 DEF ScansTyped
<1>4. CopiesHeld'
  BY <1>1, <1>2 DEF CopiesHeld, skipped
<1>5. fresh' # NoEntry => fresh # NoEntry /\ fresh' = fresh \cup {addr}
  BY DEF Report
<1>6. CASE addr \in skipped
  <2>1. UNCHANGED listVars
    BY <1>6 DEF listVars, ignoredVars, discoveredVars
  <2>2. EntriesInv' /\ Offered' = Offered
    BY <2>1, EntriesFrame
  <2> QED BY <1>1, <1>3, <1>4, <1>5, <2>2 DEF OffersHeld
<1>7. CASE addr \notin skipped
  <2>1. EntriesInv' /\ Offered' \subseteq Offered \cup {addr}
    BY <1>7, UpsertOffers
  <2>2. addr \in ignoredSet \cup assignedTargets => addr \in excused
    BY <1>7 DEF CopiesHeld
  <2> QED BY <1>1, <1>3, <1>4, <1>5, <2>1, <2>2 DEF OffersHeld
<1> QED BY <1>6, <1>7

\* A result of a light scan is filtered with the copy of the services; what is
\* ignored is excused.
LEMMA LightResultKeeps == ASSUME ScanInv, NEW addr \in Addr, LightResult(addr) PROVE ScanInv'
<1> USE DEF ScanInv, LightResult
<1>1. StoreInv' /\ assignedTargets' = assignedTargets /\ ignoredSet' = ignoredSet
  BY StoreFrame, IgnoredSetFrame
<1>2. light' \in Scan /\ light'.on = light.on /\ light'.assigned = light.assigned
  BY DEF ScansTyped, Scan
<1>3. ScansTyped'
  BY <1>2 DEF ScansTyped
<1>4. CopiesHeld'
  BY <1>1, <1>2 DEF CopiesHeld, skipped
<1>5. fresh' # NoEntry => fresh # NoEntry /\ fresh' = fresh \cup {addr}
  BY DEF Report
<1>6. CASE addr \in light.assigned
  <2>1. UNCHANGED listVars
    BY <1>6 DEF listVars, ignoredVars, discoveredVars
  <2>2. EntriesInv' /\ Offered' = Offered
    BY <2>1, EntriesFrame
  <2> QED BY <1>1, <1>3, <1>4, <1>5, <2>2 DEF OffersHeld
<1>7. CASE addr \notin light.assigned
  <2>1. EntriesInv' /\ Offered' \subseteq Offered \cup {addr}
    BY <1>7, UpsertOffers
  <2>2. addr \in ignoredSet \cup assignedTargets => addr \in excused'
    BY <1>7 DEF CopiesHeld
  <2> QED BY <1>1, <1>3, <1>4, <1>5, <2>1, <2>2 DEF OffersHeld
<1> QED BY <1>6, <1>7

-----------------------------------------------------------------------------
(* Users, the watcher and restarts *)

\* The entry's address was the only offer of it, unless it has twins.
LEMMA WithdrawnOffer ==
    ASSUME EntriesInv, NEW did \in discovered, unlist({did})
    PROVE  /\ ScannedHaveNoContainer' /\ Offered' \subseteq Offered
           /\ discoveredIdx[did].addr \in Offered' => Twins(did) # {}
<1>1. DiscoveredInv /\ ScannedHaveNoContainer /\ {did} \in SUBSET Did
  BY DEF EntriesInv, ListsInv, DiscoveredInv, DiscoveredTypeOK
<1>2. /\ Offered' = {discoveredIdx[d].addr : d \in NetworkEntries \ {did}}
      /\ ScannedHaveNoContainer'
  BY <1>1, UnlistOffers
<1>3. NetworkEntries \subseteq discovered
  BY DEF NetworkEntries
<1> QED BY <1>2, <1>3 DEF Offered, Twins

\* createService from an entry: scans that are on have an older copy of the
\* services.
LEMMA AssignKeeps ==
    ASSUME ScanInv, NEW did \in Did, NEW sub \in Sub, Assign(did, sub), UNCHANGED scanVars
    PROVE  ScanInv'
<1> USE DEF ScanInv, Assign
<1>1. /\ ListsInv /\ DiscoveredInv /\ ScannedHaveNoContainer
      /\ did \in discovered /\ discoveredIdx[did] \in Entry
  BY DEF EntriesInv, ListsInv, DiscoveredInv, DiscoveredTypeOK, DiscoveredMatches, IsListed
<1>2. PICK addr \in Addr : addr = discoveredIdx[did].addr
  BY <1>1, EntryFields
<1>3. StoreInv' /\ assignedTargets' = assignedTargets \cup {addr}
  <2>1. PICK id \in Id :
            AddService(id, [sub |-> sub, source |-> discoveredIdx[did].source,
                            cid |-> discoveredIdx[did].cid, name |-> NoName,
                            order |-> 0, data |-> discoveredIdx[did].addr])
    OBVIOUS
  <2>2. PICK svc : svc = [sub |-> sub, source |-> discoveredIdx[did].source,
                          cid |-> discoveredIdx[did].cid, name |-> NoName,
                          order |-> 0, data |-> discoveredIdx[did].addr]
    OBVIOUS
  <2>3. discoveredIdx[did].source = "network" => discoveredIdx[did].cid = NoCid
    BY <1>1 DEF ScannedHaveNoContainer, NetworkEntries
  <2>4. svc \in Service
    BY <1>1, <1>2, <2>2, EntryFields, TargetAssumption, OrderAssumption DEF Service, Source
  <2>5. svc \in Addable /\ svc.data = addr
    BY <1>1, <1>2, <2>2, <2>3, <2>4, EntryFields DEF Addable
  <2> QED BY <2>1, <2>2, <2>5, AddServiceKeeps
<1>4. unlist({did})
  <2>1. {did} \cap discovered = {did}
    BY <1>1
  <2> QED BY <2>1 DEF RemoveDiscovered
<1>5. /\ ScannedHaveNoContainer' /\ Offered' \subseteq Offered
      /\ addr \in Offered' => Twins(did) # {}
  BY <1>1, <1>2, <1>4, WithdrawnOffer
<1>6. EntriesInv' /\ ignoredSet' = ignoredSet
  BY <1>1, <1>5, ListsNextKeeps, IgnoredSetFrame DEF ListsNext, EntriesInv
<1>7. /\ UNCHANGED <<scanning, full, light, fresh>>
      /\ excused \ {addr} \subseteq excused'
      /\ full.on \/ light.on \/ Twins(did) # {} => excused' = excused \cup {addr}
  BY <1>2 DEF Settle, scanVars
<1>8. ScansTyped'
  BY <1>7 DEF ScansTyped
<1>9. CopiesHeld'
  BY <1>3, <1>6, <1>7 DEF CopiesHeld, skipped
<1>10. OffersHeld'
  BY <1>3, <1>5, <1>6, <1>7 DEF OffersHeld
<1> QED BY <1>3, <1>6, <1>8, <1>9, <1>10

\* deleteService only takes a target away.
LEMMA DeleteKeeps ==
    ASSUME ScanInv, NEW id \in Id, Delete(id), UNCHANGED scanVars
    PROVE  ScanInv'
<1> USE DEF ScanInv, Delete
<1>1. EntriesInv' /\ Offered' = Offered /\ ignoredSet' = ignoredSet
  BY EntriesFrame
<1>2. StoreInv' /\ assignedTargets' \subseteq assignedTargets
  <2>1. \A i \in Id : idIdx'[i] \in {idIdx[i], NoService}
    BY DEF DeleteService, Put, StoreInv, TypeOK, storeVars
  <2> QED BY <2>1, FewerTargets DEF Next
<1>3. UNCHANGED <<scanning, full, light, fresh, excused>>
  BY DEF scanVars
<1>4. ScansTyped' /\ CopiesHeld' /\ OffersHeld'
  BY <1>1, <1>2, <1>3 DEF ScansTyped, CopiesHeld, skipped, OffersHeld
<1> QED BY <1>1, <1>2, <1>4

\* A full scan that is on has an older copy of the ignored list; a light scan
\* has none.
LEMMA IgnoreKeepsScan ==
    ASSUME ScanInv, NEW did \in Did, Ignore(did), UNCHANGED scanVars
    PROVE  ScanInv'
<1> USE DEF ScanInv, Ignore
<1>1. /\ ListsInv /\ DiscoveredInv /\ IgnoredInv
      /\ did \in discovered /\ discoveredIdx[did] \in Entry /\ did \notin ignored
  BY DEF EntriesInv, ListsInv, DiscoveredInv, DiscoveredTypeOK, DiscoveredMatches, IsListed,
         IgnoreDiscovered
<1>2. PICK addr \in Addr : addr = discoveredIdx[did].addr
  BY <1>1, EntryFields
<1>3. StoreInv' /\ assignedTargets' = assignedTargets
  BY StoreFrame
<1>4. /\ ScannedHaveNoContainer' /\ Offered' \subseteq Offered
      /\ addr \in Offered' => Twins(did) # {}
  BY <1>1, <1>2, WithdrawnOffer DEF IgnoreDiscovered
<1>5. EntriesInv'
  BY <1>1, <1>4, IgnoreKeeps DEF EntriesInv
<1>6. ignoredSet' = ignoredSet \cup {addr}
  <2>1. \A d \in Did : ignoredIdx'[d] = IF d = did THEN addr ELSE ignoredIdx[d]
    BY <1>1, <1>2 DEF IgnoreDiscovered, Put, IgnoredInv, IgnoredTypeOK
  <2>2. ignored' = ignored \cup {did} /\ ignored \subseteq Did
    BY <1>1 DEF IgnoreDiscovered, IgnoredInv, IgnoredTypeOK
  <2> QED BY <1>1, <2>1, <2>2 DEF ignoredSet
<1>7. /\ UNCHANGED <<scanning, full, light, fresh>>
      /\ excused \ {addr} \subseteq excused'
      /\ full.on \/ Twins(did) # {} => excused' = excused \cup {addr}
  BY <1>2 DEF Settle, scanVars
<1>8. ScansTyped'
  BY <1>7 DEF ScansTyped
<1>9. CopiesHeld'
  BY <1>3, <1>6, <1>7 DEF CopiesHeld, skipped
<1>10. OffersHeld'
  BY <1>3, <1>4, <1>6, <1>7 DEF OffersHeld
<1> QED BY <1>3, <1>5, <1>8, <1>9, <1>10

\* The handler unignoreService may offer the address again: it is excused.
LEMMA UnignoreKeepsScan ==
    ASSUME ScanInv, NEW did \in Did, Unignore(did), UNCHANGED scanVars
    PROVE  ScanInv'
<1> USE DEF ScanInv, Unignore
<1>1. ListsInv /\ DiscoveredInv /\ IgnoredInv /\ ScannedHaveNoContainer
  BY DEF EntriesInv, ListsInv
<1>2. PICK info \in Info : unignoreService(did, info)
  OBVIOUS
<1>3. IgnoredInv' /\ did \in ignored /\ ignored' = ignored \ {did}
  BY <1>1, <1>2, UnignoreKeeps DEF unignoreService
<1>4. PICK addr \in Addr : addr = ignoredIdx[did]
  BY <1>1, <1>3 DEF IgnoredInv, IgnoredTypeOK, IgnoredMatches
<1>5. StoreInv' /\ assignedTargets' = assignedTargets
  BY StoreFrame
<1>6. Offered' \subseteq Offered \cup {addr} /\ ScannedHaveNoContainer'
  <2>1. PICK entry : entry = [addr |-> ignoredIdx[did], source |-> "network",
                              cid |-> NoCid, name |-> NoName, info |-> info]
    OBVIOUS
  <2>2. entry \in Entry /\ entry.cid = NoCid /\ entry.addr = addr /\ entry.source = "network"
    BY <1>4, <2>1 DEF Entry
  <2>3. AddDiscovered(did, entry) /\ did \notin discovered
    BY <1>2, <1>3, <2>1 DEF unignoreService, EntriesInv, ListsInv
  <2> QED BY <1>1, <2>2, <2>3, AddOffers
<1>7. EntriesInv'
  BY <1>1, <1>2, <1>6, HandlerKeeps DEF EntriesInv
<1>8. ignoredSet' \subseteq ignoredSet /\ ignoredSet \ ignoredSet' \subseteq {addr}
  <2>1. \A d \in Did \ {did} : ignoredIdx'[d] = ignoredIdx[d]
    BY <1>1, <1>2 DEF unignoreService, UnignoreService, Put, IgnoredInv, IgnoredTypeOK
  <2>2. ignored \subseteq Did
    BY <1>1 DEF IgnoredInv, IgnoredTypeOK
  <2> QED BY <1>3, <1>4, <2>1, <2>2 DEF ignoredSet
<1>9. /\ UNCHANGED <<scanning, full, light>>
      /\ excused' = excused \cup {addr}
      /\ fresh' # NoEntry => fresh # NoEntry /\ fresh' = fresh \cup {addr}
  BY <1>4 DEF Report, scanVars
<1>10. ScansTyped'
  BY <1>9 DEF ScansTyped
<1>11. CopiesHeld'
  BY <1>5, <1>8, <1>9 DEF CopiesHeld, skipped
<1>12. OffersHeld'
  BY <1>5, <1>6, <1>8, <1>9 DEF OffersHeld
<1> QED BY <1>5, <1>7, <1>10, <1>11, <1>12

\* The watcher lists containers, and offers nothing in a scan's name.
LEMMA WatcherKeeps ==
    ASSUME ScanInv, NEW cid \in Cid, NEW addr \in Addr,
           ContainerListedOrEnded(cid, addr), UNCHANGED scanVars
    PROVE  ScanInv'
<1> USE DEF ScanInv, ContainerListedOrEnded
<1>1. ListsInv /\ DiscoveredInv /\ ScannedHaveNoContainer
  BY DEF EntriesInv, ListsInv
<1>2. StoreInv' /\ assignedTargets' = assignedTargets /\ ignoredSet' = ignoredSet
  BY StoreFrame, IgnoredSetFrame
<1>3. EntriesInv' /\ Offered' \subseteq Offered
  <2>1. ASSUME NEW did \in Did, Unused(did),
               AddDiscovered(did, [addr |-> addr, source |-> "docker", cid |-> cid,
                                   name |-> NoName, info |-> CHOOSE i \in Info : TRUE])
        PROVE  EntriesInv' /\ Offered' \subseteq Offered
    <3>1. PICK entry : entry = [addr |-> addr, source |-> "docker", cid |-> cid,
                                name |-> NoName, info |-> CHOOSE i \in Info : TRUE]
      OBVIOUS
    <3>2. entry \in Entry /\ entry.source = "docker" /\ entry.cid = cid
      BY <3>1, TargetAssumption DEF Entry
    <3>3. entry \in ContainerEntries
      BY <3>2, NullsAssumption DEF ContainerEntries
    <3>4. ListsInv'
      BY <1>1, <2>1, <3>1, <3>3, ListsNextKeeps DEF ListsNext
    <3>5. did \notin discovered
      BY <2>1 DEF Unused
    <3>6. Offered' \subseteq Offered /\ ScannedHaveNoContainer'
      BY <1>1, <2>1, <3>1, <3>2, <3>5, AddOffers
    <3> QED BY <3>4, <3>6 DEF EntriesInv
  <2>2. ASSUME RemoveDiscoveredByContainerID(cid)
        PROVE  EntriesInv' /\ Offered' \subseteq Offered
    <3>1. ListsInv'
      BY <1>1, <2>2, ListsNextKeeps DEF ListsNext
    <3>2. PICK dids : dids = {did \in discovered : discoveredIdx[did].cid = cid}
      OBVIOUS
    <3>3. dids \in SUBSET Did /\ unlist(dids)
      BY <1>1, <2>2, <3>2 DEF RemoveDiscoveredByContainerID, DiscoveredInv, DiscoveredTypeOK
    <3>4. /\ Offered' = {discoveredIdx[did].addr : did \in NetworkEntries \ dids}
          /\ ScannedHaveNoContainer'
      BY <1>1, <3>3, UnlistOffers
    <3>5. Offered' \subseteq Offered
      BY <3>4 DEF Offered
    <3> QED BY <3>1, <3>4, <3>5 DEF EntriesInv
  <2> QED BY <2>1, <2>2
<1>4. UNCHANGED <<scanning, full, light, fresh, excused>>
  BY DEF scanVars
<1>5. ScansTyped' /\ CopiesHeld' /\ OffersHeld'
  BY <1>2, <1>3, <1>4 DEF ScansTyped, CopiesHeld, skipped, OffersHeld
<1> QED BY <1>2, <1>3, <1>5

\* A restart ends both scans and keeps both lists.
LEMMA RestartKeeps == ASSUME ScanInv, Restart PROVE ScanInv'
<1> USE DEF ScanInv, Restart
<1>1. ListsInv /\ DiscoveredInv /\ IgnoredInv /\ ScannedHaveNoContainer
  BY DEF EntriesInv, ListsInv
<1>2. StoreInv' /\ assignedTargets' \subseteq assignedTargets
  <2>1. \A id \in Id : idIdx'[id] \in {idIdx[id], NoService}
    BY DEF rebuildIndexes
  <2> QED BY <2>1, FewerTargets DEF Next
<1>3. ListsInv'
  BY <1>1, ListsNextKeeps DEF ListsNext
<1>4. UNCHANGED <<discovered, discoveredIdx, ignored, ignoredIdx>>
  BY <1>1 DEF rebuildListIndexes, DiscoveredInv, DiscoveredTypeOK, DiscoveredMatches, IsListed,
              IgnoredInv, IgnoredTypeOK, IgnoredMatches
<1>5. /\ Offered' = Offered /\ ignoredSet' = ignoredSet /\ ScannedHaveNoContainer'
  BY <1>1, <1>4 DEF Offered, NetworkEntries, ignoredSet, ScannedHaveNoContainer
<1>6. ScansTyped'
  BY DEF ScansTyped, NoScan, Scan
<1>7. CopiesHeld' /\ OffersHeld'
  BY <1>2, <1>5 DEF CopiesHeld, OffersHeld, NoScan
<1> QED BY <1>2, <1>3, <1>5, <1>6, <1>7 DEF EntriesInv

-----------------------------------------------------------------------------
\* Every step keeps the invariant.
THEOREM ScanInvariant == ScanSpec => []ScanInv
<1>1. ASSUME ScanInv, [ScanNext]_vars PROVE ScanInv'
  <2>1. ASSUME Meanwhile PROVE ScanInv'
    BY <1>1, <2>1, AssignKeeps, DeleteKeeps, IgnoreKeepsScan, UnignoreKeepsScan,
       WatcherKeeps, RestartKeeps DEF Meanwhile
  <2>2. ASSUME UNCHANGED vars PROVE ScanInv'
    <3>1. /\ UNCHANGED <<storeVars, listVars>>
          /\ UNCHANGED <<scanning, full, light, fresh, excused>>
      BY <2>2 DEF vars, scanVars
    <3>2. StoreInv' /\ assignedTargets' = assignedTargets
      BY <1>1, <3>1, StoreFrame DEF ScanInv
    <3>3. EntriesInv' /\ Offered' = Offered /\ ignoredSet' = ignoredSet
      BY <1>1, <3>1, EntriesFrame DEF ScanInv
    <3>4. ScansTyped' /\ CopiesHeld' /\ OffersHeld'
      BY <1>1, <3>1, <3>2, <3>3 DEF ScanInv, ScansTyped, CopiesHeld, skipped, OffersHeld
    <3> QED BY <3>2, <3>3, <3>4 DEF ScanInv
  <2> QED BY <1>1, <2>1, <2>2, FlagsKeep, BeginFullKeeps, BeginLightKeeps, FullResultKeeps,
             LightResultKeeps DEF ScanNext
<1> QED BY ScanInitHolds, <1>1, PTL DEF ScanSpec

\* The types of the scans' variables, of the services and of both lists.
THEOREM ScanTyped == ScanSpec => []ScanTypeOK
<1>1. ScanInv => ScanTypeOK
  BY DEF ScanInv, StoreInv, EntriesInv, ListsInv, DiscoveredInv, DiscoveredTypeOK, IgnoredInv,
         IgnoredTypeOK, ListsTypeOK, ScansTyped, Scan, ScanTypeOK
<1> QED BY ScanInvariant, <1>1, PTL

\* The lists and their maps agree, whatever the scans, the users and the
\* watcher do to them at the same time.
THEOREM ScansKeepListsExact == ScanSpec => []ListsExact
<1>1. ScanInv => ListsExact
  BY DEF ScanInv, EntriesInv, ListsInv, DiscoveredInv, DiscoveredMatches, IgnoredInv,
         IgnoredMatches, ListsExact, SliceMatchesMap
<1> QED BY ScanInvariant, <1>1, PTL

\* runScan: what was not found again since the last full scan began, nor put
\* back by a user, is off the list.
THEOREM ScansRefresh == ScanSpec => []FullScanRefreshes
<1>1. ScanInv => FullScanRefreshes
  BY DEF ScanInv, OffersHeld, Offered, FullScanRefreshes
<1> QED BY ScanInvariant, <1>1, PTL

\* runScan and runLightScan: what is assigned or ignored is not offered, but
\* for the excuses that come of filtering with the copies made at the start.
THEOREM SettledStaysSettled == ScanSpec => []SettledIsNotOffered
<1>1. ScanInv => SettledIsNotOffered
  BY DEF ScanInv, OffersHeld, Offered, SettledIsNotOffered
<1> QED BY ScanInvariant, <1>1, PTL

-----------------------------------------------------------------------------
(***************************************************************************)
(* ScanPipeline.  An address that some path came up with is in             *)
(* exactly one place: still in a list, at a prober, in the channel, or     *)
(* received; the last three only after one claim.                          *)
(***************************************************************************)
Places == {"listen", "idle", "probe", "send", "done"}

Heard == UNION {Announced[path] : path \in Path}

\* The types the steps need.
ProbersTyped ==
    /\ tcp \in {"hosts", "sweep", "probe", "done"}
    /\ at \in [Prober -> Places]
    /\ DOMAIN item = Prober
    /\ found \in [Path -> SUBSET Heard]
    /\ NoItem \notin jobs
    /\ \A p \in Prober : item[p] # NoItem <=> at[p] \in {"probe", "send"}
    /\ \A w \in HttpWorker : at[w] # "listen"
    /\ \A path \in Path : at[path] = "listen" => found[path] = {}
    /\ cancelled \in BOOLEAN

ChannelTyped ==
    /\ ch \in Seq(Answers)
    /\ received \in [Answers -> {0, 1}]

Holds(p, a) == at[p] \in {"probe", "send"} /\ item[p].at = a

Queued(a) == \E i \in 1..Len(ch) : ch[i] = a

Delivered(a) == a \in Answers /\ received[a] = 1

\* A prober that is past its claim holds the address alone, and nobody has
\* sent it; what waits to be sent answered.
OneHolder ==
    /\ \A p \in Prober : at[p] = "send" => item[p].at \in Answers
    /\ \A p \in Prober : at[p] \in {"probe", "send"} =>
           /\ item[p].at \in probed
           /\ ~Queued(item[p].at) /\ ~Delivered(item[p].at)
    /\ \A p, q \in Prober :
           at[p] \in {"probe", "send"} /\ at[q] \in {"probe", "send"}
               /\ item[p].at = item[q].at
           => p = q

\* What is in the channel is there once and was not received before.
OneCopy ==
    /\ \A i, j \in 1..Len(ch) : ch[i] = ch[j] => i = j
    /\ \A i \in 1..Len(ch) : ch[i] \in probed /\ received[ch[i]] = 0
    /\ \A a \in Answers : received[a] = 1 => a \in probed

\* Until a cancellation, a claimed address that answers is on its way or
\* received, and what a path came up with is claimed or still in its list.
NoneForgotten ==
    ~cancelled =>
        /\ \A a \in probed \cap Answers :
               (\E p \in Prober : Holds(p, a)) \/ Queued(a) \/ Delivered(a)
        /\ \A a \in known :
               \/ a \in probed
               \/ \E path \in Path : \E i \in found[path] : i.at = a
               \/ \E i \in jobs : i.at = a

\* A prober is done when its list is, unless the scan was cancelled; the
\* sweep is done when its workers are.
DoneWhenEmpty ==
    /\ ~cancelled =>
           /\ \A path \in Path : at[path] = "done" => found[path] = {}
           /\ \A w \in HttpWorker : at[w] = "done" /\ tcp \in {"probe", "done"} => jobs = {}
    /\ tcp # "probe" => \A w \in HttpWorker : at[w] = "done"
    /\ tcp \in {"hosts", "sweep"} => jobs = {}

ClosedWhenDone ==
    /\ closed => wait
    /\ finished => closed /\ ch = <<>>

PipelineInv ==
    /\ ProbersTyped /\ ChannelTyped
    /\ OneHolder /\ OneCopy /\ NoneForgotten
    /\ DoneWhenEmpty /\ ClosedWhenDone

\* The two kinds of goroutines are apart, as ScanAssumption has it.
LEMMA WorkersAreNoPaths == \A w \in HttpWorker : w \notin Path /\ w \in Prober
BY ScanAssumption DEF Prober

\* What the lists hold is not NoItem.
LEMMA SourcesTyped ==
    ASSUME ProbersTyped, NEW p \in Prober
    PROVE  NoItem \notin Feed(p)
<1>1. ASSUME p \in Path PROVE NoItem \notin found[p]
  BY <1>1, AnnouncedAssumption DEF ProbersTyped, Heard, NoItem
<1> QED BY <1>1 DEF Feed, ProbersTyped

-----------------------------------------------------------------------------
(* Steps that concern no prober's item: the stages of the sweep. *)

\* No path has come up with anything.
LEMMA InitHolds == PipelineInit => PipelineInv
<1> SUFFICES ASSUME PipelineInit PROVE PipelineInv
  OBVIOUS
<1> USE DEF PipelineInit
<1>1. ProbersTyped
  BY WorkersAreNoPaths DEF ProbersTyped, Prober, Places
<1>2. ChannelTyped
  BY DEF ChannelTyped
<1>3. OneHolder
  BY DEF OneHolder
<1>4. OneCopy
  BY DEF OneCopy
<1>5. NoneForgotten
  BY DEF NoneForgotten
<1>6. DoneWhenEmpty
  BY WorkersAreNoPaths DEF DoneWhenEmpty, Prober
<1>7. ClosedWhenDone
  BY DEF ClosedWhenDone
<1> QED BY <1>1, <1>2, <1>3, <1>4, <1>5, <1>6, <1>7 DEF PipelineInv

\* ChooseHosts and SweepDone move the sweep on.
LEMMA StageKeeps ==
    ASSUME PipelineInv, ChooseHosts \/ SweepDone
    PROVE  PipelineInv'
<1> USE DEF PipelineInv, ChooseHosts, SweepDone, contextVars, proberVars, sharedVars,
            channelVars, readerVars
<1>1. ProbersTyped' /\ ChannelTyped'
  BY DEF ProbersTyped, ChannelTyped
<1>2. OneHolder' /\ OneCopy' /\ NoneForgotten'
  BY DEF OneHolder, OneCopy, NoneForgotten, Holds, Queued, Delivered
<1>3. DoneWhenEmpty'
  BY DEF DoneWhenEmpty, ProbersTyped
<1>4. ClosedWhenDone'
  BY DEF ClosedWhenDone, wait
<1> QED BY <1>1, <1>2, <1>3, <1>4

\* The sweep hands its open ports to the workers.
LEMMA SweepKeeps ==
    ASSUME PipelineInv, Sweep
    PROVE  PipelineInv'
<1> USE DEF PipelineInv
<1>1. PICK open \in tcpSweep(ips) :
          IF open = {} \/ cancelled
          THEN tcp' = "done" /\ UNCHANGED <<jobs, at, known>>
          ELSE /\ tcp' = "probe"
               /\ jobs' = open
               /\ known' = known \cup {a.at : a \in open}
               /\ at' = [p \in Prober |-> IF p \in HttpWorker THEN "idle" ELSE at[p]]
  BY DEF Sweep
<1>2. /\ UNCHANGED <<cancelled, item, found, probed, ch, closed, received, finished>>
      /\ tcp = "sweep" /\ ~wait
  BY DEF Sweep, contextVars, channelVars, readerVars, wait
<1>3. CASE open = {} \/ cancelled
  <2>1. tcp' = "done" /\ UNCHANGED <<jobs, at, known>>
    BY <1>1, <1>3
  <2>2. ProbersTyped' /\ ChannelTyped'
    BY <1>2, <2>1 DEF ProbersTyped, ChannelTyped
  <2>3. OneHolder' /\ OneCopy' /\ NoneForgotten'
    BY <1>2, <2>1 DEF OneHolder, OneCopy, NoneForgotten, Holds, Queued, Delivered
  <2>4. DoneWhenEmpty' /\ ClosedWhenDone'
    BY <1>2, <2>1 DEF DoneWhenEmpty, ClosedWhenDone, wait
  <2> QED BY <2>2, <2>3, <2>4
<1>4. CASE ~(open = {} \/ cancelled)
  <2>1. /\ tcp' = "probe" /\ jobs' = open
        /\ known' = known \cup {a.at : a \in open}
        /\ at' = [p \in Prober |-> IF p \in HttpWorker THEN "idle" ELSE at[p]]
    BY <1>1, <1>4
  <2>2. \A a \in open : a.id = "open"
    BY DEF tcpSweep
  <2>3. \A w \in HttpWorker : at[w] = "done" /\ at'[w] = "idle"
    BY <1>2, <2>1, WorkersAreNoPaths DEF DoneWhenEmpty
  <2>4. \A p \in Prober : /\ at'[p] \in {"probe", "send"} <=> at[p] \in {"probe", "send"}
                          /\ at'[p] = "send" <=> at[p] = "send"
    BY <2>1, <2>3
  <2>5. ProbersTyped' /\ ChannelTyped'
    <3>1. NoItem \notin jobs'
      BY <2>1, <2>2 DEF NoItem
    <3>2. at' \in [Prober -> Places]
      BY <2>1 DEF ProbersTyped, Places
    <3>3. \A path \in Path : at'[path] = "listen" => found[path] = {}
      BY <2>1 DEF ProbersTyped, Prober
    <3> QED BY <1>2, <2>1, <2>3, <2>4, <3>1, <3>2, <3>3 DEF ProbersTyped, ChannelTyped
  <2>6. OneHolder' /\ OneCopy'
    BY <1>2, <2>4 DEF OneHolder, OneCopy, Queued, Delivered
  <2>7. NoneForgotten'
    <3>1. \A a \in known' : a \in known \/ \E i \in jobs' : i.at = a
      BY <2>1
    <3>2. jobs = {}
      BY <1>2 DEF DoneWhenEmpty
    <3>3. \A p \in Prober : \A a : Holds(p, a)' <=> Holds(p, a)
      BY <1>2, <2>4 DEF Holds
    <3> QED BY <1>2, <3>1, <3>2, <3>3 DEF NoneForgotten, Queued, Delivered
  <2>8. DoneWhenEmpty' /\ ClosedWhenDone'
    BY <1>2, <2>1, <2>3, WorkersAreNoPaths DEF DoneWhenEmpty, ClosedWhenDone, Prober
  <2> QED BY <2>5, <2>6, <2>7, <2>8
<1> QED BY <1>3, <1>4

-----------------------------------------------------------------------------
(* The probers' steps *)

\* A multicast path has its list.
LEMMA ListenKeeps ==
    ASSUME PipelineInv, NEW path \in Path, NEW outcomes \in SUBSET (SUBSET Announced[path]),
           Listen(path, outcomes)
    PROVE  PipelineInv'
<1> USE DEF PipelineInv
<1>1. PICK heard \in outcomes :
          /\ found' = [found EXCEPT ![path] = heard]
          /\ known' = known \cup {a.at : a \in heard}
  BY DEF Listen
<1>2. /\ at[path] = "listen" /\ at' = [at EXCEPT ![path] = "idle"]
      /\ UNCHANGED <<cancelled, tcp, jobs, item, probed, ch, closed, received, finished>>
  BY DEF Listen, contextVars, sweepVars, channelVars, readerVars
<1>3. path \in Prober /\ path \notin HttpWorker
  BY ScanAssumption DEF Prober
<1>4. /\ heard \in SUBSET Heard
      /\ \A p \in Path : found'[p] = IF p = path THEN heard ELSE found[p]
  BY <1>1 DEF Heard, ProbersTyped
<1>5. \A p \in Prober : at'[p] = IF p = path THEN "idle" ELSE at[p]
  BY <1>2 DEF ProbersTyped
<1>6. \A p \in Prober : /\ at'[p] \in {"probe", "send"} <=> at[p] \in {"probe", "send"}
                        /\ at'[p] = "send" <=> at[p] = "send"
  BY <1>2, <1>5
<1>7. ProbersTyped' /\ ChannelTyped'
  <2>1. at' \in [Prober -> Places]
    BY <1>2 DEF ProbersTyped, Places
  <2>2. found' \in [Path -> SUBSET Heard]
    BY <1>1, <1>4 DEF ProbersTyped
  <2>3. \A p \in Path : at'[p] = "listen" => found'[p] = {}
    BY <1>4, <1>5 DEF ProbersTyped, Prober
  <2> QED BY <1>2, <1>3, <1>5, <1>6, <2>1, <2>2, <2>3, WorkersAreNoPaths
          DEF ProbersTyped, ChannelTyped
<1>8. OneHolder' /\ OneCopy'
  BY <1>2, <1>6 DEF OneHolder, OneCopy, Queued, Delivered
<1>9. NoneForgotten'
  <2>1. \A p \in Prober : \A a : Holds(p, a)' <=> Holds(p, a)
    BY <1>2, <1>6 DEF Holds
  <2>2. SUFFICES ASSUME ~cancelled, NEW a \in known'
                 PROVE  \/ a \in probed
                        \/ \E p \in Path : \E i \in found'[p] : i.at = a
                        \/ \E i \in jobs : i.at = a
    BY <1>2, <2>1 DEF NoneForgotten, Queued, Delivered
  <2>3. CASE a \in known
    <3>1. found[path] = {}
      BY <1>2 DEF ProbersTyped
    <3> QED BY <1>4, <2>2, <2>3, <3>1 DEF NoneForgotten
  <2>4. CASE \E i \in heard : i.at = a
    BY <1>4, <2>4
  <2> QED BY <1>1, <2>3, <2>4
<1>10. DoneWhenEmpty'
  BY <1>2, <1>3, <1>4, <1>5, WorkersAreNoPaths DEF DoneWhenEmpty, Prober
<1>11. ClosedWhenDone'
  BY <1>2, <1>5, <1>3 DEF ClosedWhenDone, wait, Prober
<1> QED BY <1>7, <1>8, <1>9, <1>10, <1>11

\* What a prober at "probe" or "send" has, it alone has; the step of one
\* prober leaves the others where they are.
LEMMA MoveFrame ==
    ASSUME ProbersTyped, NEW p \in Prober, NEW place \in Places, Move(p, place)
    PROVE  /\ at' \in [Prober -> Places]
           /\ \A q \in Prober : at'[q] = IF q = p THEN place ELSE at[q]
BY DEF Move, ProbersTyped

\* A prober that works means that the scan is not over.
LEMMA WorkingMeansOpen ==
    ASSUME PipelineInv, NEW p \in Prober, at[p] # "done"
    PROVE  /\ ~wait /\ ~closed /\ ~finished
           /\ p \in HttpWorker => tcp = "probe"
BY DEF PipelineInv, DoneWhenEmpty, ClosedWhenDone, wait, Prober

\* A prober takes an address and claims it, or finds it claimed.
LEMMA TakeKeeps ==
    ASSUME PipelineInv, NEW p \in Prober, Take(p)
    PROVE  PipelineInv'
<1> USE DEF PipelineInv
<1>1. PICK i \in Feed(p) :
          /\ TakeFrom(p, i)
          /\ \/ i.at \in probed /\ UNCHANGED <<at, item, probed>>
             \/ /\ i.at \notin probed
                /\ claim(i.at)
                /\ Move(p, "probe")
                /\ item' = [item EXCEPT ![p] = i]
  BY DEF Take
<1>2. /\ at[p] = "idle" /\ ~cancelled
      /\ UNCHANGED <<cancelled, tcp, ch, closed, received, finished, known>>
  BY DEF Take, contextVars, channelVars, readerVars
<1>3. /\ ~wait /\ ~closed /\ ~finished
      /\ p \in HttpWorker => tcp = "probe"
  BY <1>2, WorkingMeansOpen
<1>4. i # NoItem
  BY SourcesTyped
<1>5. /\ found' \in [Path -> SUBSET Heard]
      /\ \A path \in Path : found'[path] = IF path = p THEN found[path] \ {i} ELSE found[path]
      /\ jobs' = IF p \in Path THEN jobs ELSE jobs \ {i}
  <2>1. CASE p \in Path
    BY <1>1, <2>1 DEF TakeFrom, ProbersTyped
  <2>2. CASE p \notin Path
    BY <1>1, <2>2 DEF TakeFrom, ProbersTyped
  <2> QED BY <2>1, <2>2
<1>6. /\ NoItem \notin jobs'
      /\ \A path \in Path : found[path] = {} => found'[path] = {}
      /\ jobs = {} => jobs' = {}
  BY <1>5 DEF ProbersTyped
<1>7. \A a \in known :
          \/ a \in probed \/ a = i.at
          \/ \E path \in Path : \E j \in found'[path] : j.at = a
          \/ \E j \in jobs' : j.at = a
  <2> SUFFICES ASSUME NEW a \in known, a \notin probed, a # i.at
               PROVE  \/ \E path \in Path : \E j \in found'[path] : j.at = a
                      \/ \E j \in jobs' : j.at = a
    OBVIOUS
  <2>1. CASE \E path \in Path : \E j \in found[path] : j.at = a
    BY <1>5, <2>1
  <2>2. CASE \E j \in jobs : j.at = a
    BY <1>5, <2>2
  <2> QED BY <1>2, <2>1, <2>2 DEF NoneForgotten
<1>8. ChannelTyped' /\ ClosedWhenDone'
  BY <1>2, <1>3 DEF ChannelTyped, ClosedWhenDone
<1>9. CASE i.at \in probed /\ UNCHANGED <<at, item, probed>>
  <2>1. ProbersTyped'
    BY <1>2, <1>5, <1>6, <1>9 DEF ProbersTyped
  <2>2. OneHolder' /\ OneCopy'
    BY <1>2, <1>9 DEF OneHolder, OneCopy, Queued, Delivered
  <2>3. NoneForgotten'
    <3>1. \A q \in Prober, a \in probed : Holds(q, a)' <=> Holds(q, a)
      BY <1>9 DEF Holds
    <3> QED BY <1>2, <1>7, <1>9, <3>1 DEF NoneForgotten, Queued, Delivered
  <2>4. DoneWhenEmpty'
    BY <1>2, <1>6, <1>9 DEF DoneWhenEmpty
  <2> QED BY <1>8, <2>1, <2>2, <2>3, <2>4
<1>10. CASE /\ i.at \notin probed
            /\ claim(i.at)
            /\ Move(p, "probe")
            /\ item' = [item EXCEPT ![p] = i]
  <2>1. /\ at' \in [Prober -> Places]
        /\ \A q \in Prober : at'[q] = IF q = p THEN "probe" ELSE at[q]
    BY <1>10, MoveFrame DEF Places
  <2>2. /\ DOMAIN item' = Prober
        /\ \A q \in Prober : item'[q] = IF q = p THEN i ELSE item[q]
        /\ probed' = probed \cup {i.at}
    BY <1>10 DEF ProbersTyped, claim
  <2>3. ProbersTyped'
    <3>1. \A q \in Prober : item'[q] # NoItem <=> at'[q] \in {"probe", "send"}
      BY <1>4, <2>1, <2>2 DEF ProbersTyped
    <3>2. \A w \in HttpWorker : at'[w] # "listen"
      BY <2>1, WorkersAreNoPaths DEF ProbersTyped
    <3>3. \A path \in Path : at'[path] = "listen" => found'[path] = {}
      BY <1>6, <2>1 DEF ProbersTyped, Prober
    <3> QED BY <1>2, <1>5, <1>6, <2>1, <2>2, <3>1, <3>2, <3>3 DEF ProbersTyped
  <2>4. ~Queued(i.at) /\ ~Delivered(i.at)
    BY <1>10 DEF OneCopy, Queued, Delivered
  <2>5. OneHolder'
    <3>1. \A q \in Prober : at'[q] \in {"probe", "send"} =>
              \/ q = p
              \/ q # p /\ at[q] \in {"probe", "send"} /\ item'[q] = item[q]
      BY <2>1, <2>2
    <3>2. \A q \in Prober : at'[q] = "send" => at[q] = "send" /\ item'[q] = item[q]
      BY <2>1, <2>2
    <3> QED BY <1>2, <1>10, <2>2, <2>4, <3>1, <3>2 DEF OneHolder, Queued, Delivered
  <2>6. OneCopy'
    BY <1>2, <2>2 DEF OneCopy
  <2>7. NoneForgotten'
    <3>1. Holds(p, i.at)'
      BY <2>1, <2>2 DEF Holds
    <3>2. \A q \in Prober, a \in probed : Holds(q, a) => Holds(q, a)'
      BY <1>2, <2>1, <2>2 DEF Holds
    <3> QED BY <1>2, <1>7, <2>2, <3>1, <3>2 DEF NoneForgotten, Queued, Delivered
  <2>8. DoneWhenEmpty'
    BY <1>2, <1>3, <1>6, <2>1, WorkersAreNoPaths DEF DoneWhenEmpty, Prober
  <2> QED BY <1>8, <2>3, <2>5, <2>6, <2>7, <2>8
<1> QED BY <1>1, <1>9, <1>10

\* A prober that has come to the end of its list.
LEMMA LeaveKeeps ==
    ASSUME PipelineInv, NEW p \in Prober, Leave(p)
    PROVE  PipelineInv'
<1> USE DEF PipelineInv
<1>1. /\ at[p] = "idle" /\ (Feed(p) = {} \/ cancelled) /\ Move(p, "done")
      /\ UNCHANGED <<cancelled, tcp, jobs, found, probed, known, ch, closed, received,
                     finished, item>>
  BY DEF Leave, contextVars, sweepVars, sharedVars, channelVars, readerVars
<1>2. /\ at' \in [Prober -> Places]
      /\ \A q \in Prober : at'[q] = IF q = p THEN "done" ELSE at[q]
  BY <1>1, MoveFrame DEF Places
<1>3. \A q \in Prober : /\ at'[q] \in {"probe", "send"} <=> at[q] \in {"probe", "send"}
                        /\ at'[q] = "send" <=> at[q] = "send"
                        /\ at'[q] = "listen" <=> at[q] = "listen"
  BY <1>1, <1>2
<1>4. ~closed /\ ~finished
  BY <1>1, WorkingMeansOpen
<1>5. ProbersTyped' /\ ChannelTyped'
  BY <1>1, <1>2, <1>3, WorkersAreNoPaths DEF ProbersTyped, ChannelTyped, Prober
<1>6. OneHolder' /\ OneCopy'
  BY <1>1, <1>3 DEF OneHolder, OneCopy, Queued, Delivered
<1>7. NoneForgotten'
  <2>1. \A q \in Prober : \A a : Holds(q, a)' <=> Holds(q, a)
    BY <1>1, <1>3 DEF Holds
  <2> QED BY <1>1, <2>1 DEF NoneForgotten, Queued, Delivered
<1>8. DoneWhenEmpty'
  BY <1>1, <1>2, WorkersAreNoPaths DEF DoneWhenEmpty, Feed, Prober
<1>9. ClosedWhenDone'
  BY <1>1, <1>4 DEF ClosedWhenDone
<1> QED BY <1>5, <1>6, <1>7, <1>8, <1>9

\* A probe finds a service, or the address has none.
LEMMA ProbeKeeps ==
    ASSUME PipelineInv, NEW p \in Prober, Probe(p)
    PROVE  PipelineInv'
<1> USE DEF PipelineInv
<1>1. /\ at[p] = "probe"
      /\ UNCHANGED <<cancelled, tcp, jobs, found, probed, known, ch, closed, received,
                     finished>>
  BY DEF Probe, contextVars, sweepVars, sharedVars, channelVars, readerVars
<1>2. ~closed /\ ~finished
  BY <1>1, WorkingMeansOpen
<1>3. ChannelTyped' /\ OneCopy' /\ ClosedWhenDone'
  BY <1>1, <1>2 DEF ChannelTyped, OneCopy, ClosedWhenDone
<1>4. CASE item[p].at \in Answers /\ Move(p, "send") /\ UNCHANGED item
  <2>1. /\ at' \in [Prober -> Places]
        /\ \A q \in Prober : at'[q] = IF q = p THEN "send" ELSE at[q]
    BY <1>4, MoveFrame DEF Places
  <2>2. \A q \in Prober : /\ at'[q] \in {"probe", "send"} <=> at[q] \in {"probe", "send"}
                          /\ at'[q] = "send" => at[q] = "send" \/ q = p
                          /\ at'[q] = "listen" <=> at[q] = "listen"
                          /\ at'[q] = "done" <=> at[q] = "done"
    BY <1>1, <2>1
  <2>3. ProbersTyped'
    BY <1>1, <1>4, <2>1, <2>2, WorkersAreNoPaths DEF ProbersTyped, Prober
  <2>4. OneHolder'
    BY <1>1, <1>4, <2>2 DEF OneHolder, Queued, Delivered
  <2>5. NoneForgotten'
    <3>1. \A q \in Prober, a \in probed : Holds(q, a)' <=> Holds(q, a)
      BY <1>4, <2>2 DEF Holds
    <3> QED BY <1>1, <3>1 DEF NoneForgotten, Queued, Delivered
  <2>6. DoneWhenEmpty'
    BY <1>1, <2>2, WorkersAreNoPaths DEF DoneWhenEmpty, Prober
  <2> QED BY <1>3, <2>3, <2>4, <2>5, <2>6
<1>5. CASE /\ item[p].at \notin Answers \/ cancelled
           /\ Move(p, "idle")
           /\ item' = [item EXCEPT ![p] = NoItem]
  <2>1. /\ at' \in [Prober -> Places]
        /\ \A q \in Prober : at'[q] = IF q = p THEN "idle" ELSE at[q]
    BY <1>5, MoveFrame DEF Places
  <2>2. /\ DOMAIN item' = Prober
        /\ \A q \in Prober : item'[q] = IF q = p THEN NoItem ELSE item[q]
    BY <1>5 DEF ProbersTyped
  <2>3. \A q \in Prober : /\ at'[q] \in {"probe", "send"}
                              <=> at[q] \in {"probe", "send"} /\ q # p
                          /\ at'[q] = "send" => at[q] = "send" /\ q # p
                          /\ at'[q] = "listen" <=> at[q] = "listen"
                          /\ at'[q] = "done" <=> at[q] = "done"
    BY <1>1, <2>1
  <2>4. ProbersTyped'
    BY <1>1, <2>1, <2>2, <2>3, WorkersAreNoPaths DEF ProbersTyped, Prober
  <2>5. OneHolder'
    BY <1>1, <2>2, <2>3 DEF OneHolder, Queued, Delivered
  <2>6. NoneForgotten'
    <3>1. \A q \in Prober, a \in probed : Holds(q, a) => Holds(q, a)' \/ item[p].at = a
      BY <2>2, <2>3 DEF Holds
    <3> QED BY <1>1, <1>5, <3>1 DEF NoneForgotten, Queued, Delivered
  <2>7. DoneWhenEmpty'
    BY <1>1, <2>3, WorkersAreNoPaths DEF DoneWhenEmpty, Prober
  <2> QED BY <1>3, <2>4, <2>5, <2>6, <2>7
<1> QED BY <1>4, <1>5 DEF Probe

-----------------------------------------------------------------------------
(* The channel *)

\* A sequence with one element more.
LEMMA Appended ==
    ASSUME NEW S, NEW s \in Seq(S), NEW e \in S
    PROVE  /\ Append(s, e) \in Seq(S)
           /\ Len(Append(s, e)) = Len(s) + 1
           /\ \A i \in 1..Len(s) : Append(s, e)[i] = s[i]
           /\ Append(s, e)[Len(s) + 1] = e
OBVIOUS

\* A sequence without its head.
LEMMA Taken ==
    ASSUME NEW S, NEW s \in Seq(S), s # <<>>
    PROVE  /\ Tail(s) \in Seq(S) /\ Head(s) = s[1] /\ 1 \in 1..Len(s)
           /\ Len(Tail(s)) = Len(s) - 1 /\ Len(s) \in Nat
           /\ \A i \in 1..Len(Tail(s)) : i + 1 \in 1..Len(s) /\ Tail(s)[i] = s[i + 1]
OBVIOUS

\* A result goes into the channel; its prober holds it no longer.
LEMMA SendKeeps ==
    ASSUME PipelineInv, NEW p \in Prober, Send(p)
    PROVE  PipelineInv'
<1> USE DEF PipelineInv
<1>1. /\ at[p] = "send" /\ ch' = Append(ch, item[p].at) /\ Move(p, "idle")
      /\ item' = [item EXCEPT ![p] = NoItem]
      /\ UNCHANGED <<cancelled, tcp, jobs, found, probed, known, closed, received, finished>>
  BY DEF Send, contextVars, sweepVars, sharedVars, readerVars
<1>2. ~closed /\ ~finished
  BY <1>1, WorkingMeansOpen
<1>3. PICK a : a = item[p].at
  OBVIOUS
<1>4. a \in Answers /\ a \in probed /\ received[a] = 0 /\ ~Queued(a) /\ ~Delivered(a)
  BY <1>1, <1>3 DEF OneHolder, ChannelTyped, Delivered
<1>5. /\ ch' \in Seq(Answers) /\ Len(ch') = Len(ch) + 1 /\ Len(ch) \in Nat
      /\ \A i \in 1..Len(ch) : ch'[i] = ch[i]
      /\ ch'[Len(ch) + 1] = a
  BY <1>1, <1>3, <1>4, Appended DEF ChannelTyped
<1>6. \A i \in 1..Len(ch') : i = Len(ch) + 1 \/ i \in 1..Len(ch)
  BY <1>5
<1>7. \A b \in known \cup probed \cup Answers : Queued(b)' <=> Queued(b) \/ b = a
  BY <1>5, <1>6 DEF Queued
<1>8. /\ at' \in [Prober -> Places]
      /\ \A q \in Prober : at'[q] = IF q = p THEN "idle" ELSE at[q]
  BY <1>1, MoveFrame DEF Places
<1>9. /\ DOMAIN item' = Prober
      /\ \A q \in Prober : item'[q] = IF q = p THEN NoItem ELSE item[q]
  BY <1>1 DEF ProbersTyped
<1>10. \A q \in Prober : /\ at'[q] \in {"probe", "send"}
                              <=> at[q] \in {"probe", "send"} /\ q # p
                         /\ at'[q] = "send" => at[q] = "send" /\ q # p
                         /\ at'[q] = "listen" <=> at[q] = "listen"
                         /\ at'[q] = "done" <=> at[q] = "done"
  BY <1>1, <1>8
<1>11. ProbersTyped' /\ ChannelTyped'
  BY <1>1, <1>5, <1>8, <1>9, <1>10, WorkersAreNoPaths DEF ProbersTyped, ChannelTyped, Prober
<1>12. OneHolder'
  <2>1. \A q \in Prober : at'[q] \in {"probe", "send"} =>
            /\ item'[q] = item[q] /\ item[q].at # a /\ item[q].at \in probed
            /\ ~Queued(item[q].at) /\ ~Delivered(item[q].at)
    BY <1>1, <1>3, <1>9, <1>10 DEF OneHolder
  <2>2. \A q \in Prober : at'[q] \in {"probe", "send"} => ~Queued(item[q].at)'
    <3> SUFFICES ASSUME NEW q \in Prober, at'[q] \in {"probe", "send"}
                 PROVE  ~Queued(item[q].at)'
      OBVIOUS
    <3>1. item'[q] = item[q] /\ item[q].at # a /\ item[q].at \in probed /\ ~Queued(item[q].at)
      BY <2>1
    <3> QED BY <1>5, <1>6, <3>1 DEF Queued
  <2> QED BY <1>1, <1>9, <1>10, <2>1, <2>2 DEF OneHolder, Delivered
<1>13. OneCopy'
  <2>1. \A i \in 1..Len(ch) : ch[i] # a
    BY <1>4 DEF Queued
  <2>2. \A i, j \in 1..Len(ch') : ch'[i] = ch'[j] => i = j
    BY <1>5, <1>6, <2>1 DEF OneCopy
  <2>3. \A i \in 1..Len(ch') : ch'[i] \in probed /\ received[ch'[i]] = 0
    BY <1>4, <1>5, <1>6 DEF OneCopy
  <2> QED BY <1>1, <2>2, <2>3 DEF OneCopy
<1>14. NoneForgotten'
  <2>1. \A q \in Prober, b \in probed : Holds(q, b) => Holds(q, b)' \/ b = a
    BY <1>3, <1>9, <1>10 DEF Holds
  <2> QED BY <1>1, <1>7, <2>1 DEF NoneForgotten, Delivered
<1>15. DoneWhenEmpty' /\ ClosedWhenDone'
  BY <1>1, <1>2, <1>10, WorkersAreNoPaths DEF DoneWhenEmpty, ClosedWhenDone, Prober
<1> QED BY <1>11, <1>12, <1>13, <1>14, <1>15

\* The reader takes the next result, which it has not had before.
LEMMA ReceiveKeeps ==
    ASSUME PipelineInv, Receive
    PROVE  PipelineInv' /\ received[Head(ch)] = 0 /\ ~finished /\ Head(ch) \in Answers
<1> USE DEF PipelineInv
<1>1. /\ ch # <<>> /\ received' = [received EXCEPT ![Head(ch)] = @ + 1] /\ ch' = Tail(ch)
      /\ UNCHANGED <<cancelled, tcp, jobs, at, item, found, probed, known, closed, finished>>
  BY DEF Receive, contextVars, sweepVars, proberVars, sharedVars
<1>2. /\ ch' \in Seq(Answers) /\ Head(ch) = ch[1] /\ 1 \in 1..Len(ch)
      /\ Len(ch') = Len(ch) - 1 /\ Len(ch) \in Nat
      /\ \A i \in 1..Len(ch') : i + 1 \in 1..Len(ch) /\ ch'[i] = ch[i + 1]
  BY <1>1, Taken DEF ChannelTyped
<1>3. PICK a : a = Head(ch)
  OBVIOUS
<1>4. a \in Answers /\ a \in probed /\ received[a] = 0 /\ a = ch[1]
  BY <1>2, <1>3 DEF OneCopy, ChannelTyped
<1>5. received' = [received EXCEPT ![a] = 1]
  BY <1>1, <1>3, <1>4
<1>6. /\ received' \in [Answers -> {0, 1}]
      /\ \A b \in Answers : received'[b] = IF b = a THEN 1 ELSE received[b]
  BY <1>4, <1>5 DEF ChannelTyped
<1>7. \A i \in 1..Len(ch') : ch'[i] # a
  BY <1>2, <1>4 DEF OneCopy
<1>8. \A i \in 1..Len(ch) : i = 1 \/ (i - 1 \in 1..Len(ch') /\ ch'[i - 1] = ch[i])
  BY <1>2
<1>9. \A b \in probed : Queued(b) => Queued(b)' \/ b = a
  BY <1>4, <1>8 DEF Queued
<1>10. ~finished
  BY <1>1 DEF ClosedWhenDone
<1>11. ProbersTyped' /\ ChannelTyped'
  BY <1>1, <1>2, <1>6 DEF ProbersTyped, ChannelTyped
<1>12. OneHolder'
  <2>1. \A p \in Prober : at[p] \in {"probe", "send"} => item[p].at # a
    BY <1>2, <1>4 DEF OneHolder, Queued
  <2>2. \A p \in Prober : at[p] \in {"probe", "send"} =>
            ~Queued(item[p].at)' /\ ~Delivered(item[p].at)'
    <3> SUFFICES ASSUME NEW p \in Prober, at[p] \in {"probe", "send"}
                 PROVE  ~Queued(item[p].at)' /\ ~Delivered(item[p].at)'
      OBVIOUS
    <3>1. ~Queued(item[p].at) /\ ~Delivered(item[p].at) /\ item[p].at # a
      BY <2>1 DEF OneHolder
    <3>2. ~Queued(item[p].at)'
      BY <1>1, <1>2, <3>1 DEF Queued
    <3>3. ~Delivered(item[p].at)'
      BY <1>1, <1>6, <3>1 DEF Delivered
    <3> QED BY <3>2, <3>3
  <2> QED BY <1>1, <2>2 DEF OneHolder
<1>13. OneCopy'
  <2>1. \A i, j \in 1..Len(ch') : ch'[i] = ch'[j] => i = j
    <3> SUFFICES ASSUME NEW i \in 1..Len(ch'), NEW j \in 1..Len(ch'), ch'[i] = ch'[j]
                 PROVE  i = j
      OBVIOUS
    <3>1. i + 1 = j + 1
      BY <1>2 DEF OneCopy
    <3> QED BY <1>2, <3>1
  <2>2. \A i \in 1..Len(ch') : ch'[i] \in probed /\ received'[ch'[i]] = 0
    BY <1>2, <1>6, <1>7 DEF OneCopy, ChannelTyped
  <2> QED BY <1>1, <1>4, <1>6, <2>1, <2>2 DEF OneCopy
<1>14. NoneForgotten'
  <2>1. \A q \in Prober, b \in probed : Holds(q, b)' <=> Holds(q, b)
    BY <1>1 DEF Holds
  <2>2. \A b \in probed : Delivered(b)' <=> Delivered(b) \/ b = a
    BY <1>4, <1>6 DEF Delivered
  <2> QED BY <1>1, <1>9, <2>1, <2>2 DEF NoneForgotten
<1>15. DoneWhenEmpty' /\ ClosedWhenDone'
  BY <1>1, <1>10 DEF DoneWhenEmpty, ClosedWhenDone, wait
<1> QED BY <1>3, <1>4, <1>10, <1>11, <1>12, <1>13, <1>14, <1>15

\* The channel is closed, the reader's loop ends, the scan is cancelled.
LEMMA EndKeeps ==
    ASSUME PipelineInv, Close \/ RangeEnds \/ Cancel
    PROVE  PipelineInv'
<1> USE DEF PipelineInv, Close, RangeEnds, Cancel, contextVars, sweepVars, proberVars,
            sharedVars, channelVars, readerVars
<1>1. ProbersTyped' /\ ChannelTyped'
  BY DEF ProbersTyped, ChannelTyped
<1>2. OneHolder' /\ OneCopy' /\ NoneForgotten'
  <2>1. OneHolder' /\ OneCopy'
    BY DEF OneHolder, OneCopy, Queued, Delivered
  <2>2. \A q \in Prober, a \in probed : Holds(q, a)' <=> Holds(q, a)
    BY DEF Holds
  <2>3. cancelled => cancelled'
    BY DEF ProbersTyped
  <2>4. NoneForgotten'
    BY <2>2, <2>3 DEF NoneForgotten, Queued, Delivered
  <2> QED BY <2>1, <2>4
<1>3. DoneWhenEmpty' /\ ClosedWhenDone'
  BY DEF DoneWhenEmpty, ClosedWhenDone, wait
<1> QED BY <1>1, <1>2, <1>3

-----------------------------------------------------------------------------

\* Every step of a prober, the sweep or the reader keeps the invariant.
LEMMA NextKeeps == PipelineInv /\ [PipelineNext]_pipelineVars => PipelineInv'
<1> SUFFICES ASSUME PipelineInv, [PipelineNext]_pipelineVars PROVE PipelineInv'
  OBVIOUS
<1>1. CASE ChooseHosts \/ SweepDone
  BY <1>1, StageKeeps
<1>2. CASE Sweep
  BY <1>2, SweepKeeps
<1>3. CASE Listen("mdns", discoverMDNS)
  <2>1. discoverMDNS \in SUBSET (SUBSET Announced["mdns"])
    BY DEF discoverMDNS
  <2> QED BY <1>3, <2>1, ListenKeeps DEF Path
<1>4. CASE Listen("ssdp", discoverSSDP)
  <2>1. discoverSSDP \in SUBSET (SUBSET Announced["ssdp"])
    BY DEF discoverSSDP
  <2> QED BY <1>4, <2>1, ListenKeeps DEF Path
<1>5. CASE Listen("wsd", discoverWSDiscovery)
  <2>1. discoverWSDiscovery \in SUBSET (SUBSET Announced["wsd"])
    BY DEF discoverWSDiscovery
  <2> QED BY <1>5, <2>1, ListenKeeps DEF Path
<1>6. ASSUME NEW p \in Prober, Take(p) \/ Leave(p) \/ Probe(p) \/ Send(p)
      PROVE  PipelineInv'
  BY <1>6, TakeKeeps, LeaveKeeps, ProbeKeeps, SendKeeps
<1>7. CASE Receive
  BY <1>7, ReceiveKeeps
<1>8. CASE Close \/ RangeEnds \/ Cancel
  BY <1>8, EndKeeps
<1>9. CASE UNCHANGED pipelineVars
  <2> USE <1>9 DEF PipelineInv, pipelineVars, contextVars, sweepVars, proberVars,
                   sharedVars, channelVars, readerVars
  <2>1. ProbersTyped' /\ ChannelTyped'
    BY DEF ProbersTyped, ChannelTyped
  <2>2. OneHolder' /\ OneCopy' /\ NoneForgotten'
    BY DEF OneHolder, OneCopy, NoneForgotten, Holds, Queued, Delivered
  <2>3. DoneWhenEmpty' /\ ClosedWhenDone'
    BY DEF DoneWhenEmpty, ClosedWhenDone, wait
  <2> QED BY <2>1, <2>2, <2>3
<1> QED BY <1>1, <1>2, <1>3, <1>4, <1>5, <1>6, <1>7, <1>8, <1>9
        DEF PipelineNext, PipelineStep

\* At the end of a scan that was not cancelled every list is empty, nobody
\* holds an address and the channel is empty: what is left is "received".
LEMMA InvMeansNothingLost == PipelineInv => NothingLost
<1> SUFFICES ASSUME PipelineInv PROVE NothingLost
  OBVIOUS
<1> USE DEF PipelineInv
<1>1. ASSUME closed PROVE \A p \in Prober : at[p] = "done"
  BY <1>1 DEF ClosedWhenDone, DoneWhenEmpty, wait, Prober
<1>2. ASSUME finished, ~cancelled, NEW a \in known \cap Answers
      PROVE  received[a] = 1
  <2>1. closed /\ ch = <<>> /\ wait /\ \A p \in Prober : at[p] = "done"
    BY <1>1, <1>2 DEF ClosedWhenDone
  <2>2. PICK w \in HttpWorker : TRUE
    BY ScanAssumption
  <2>3. jobs = {} /\ \A path \in Path : found[path] = {}
    BY <1>2, <2>1, <2>2, WorkersAreNoPaths DEF DoneWhenEmpty, wait
  <2>4. a \in probed
    BY <1>2, <2>3 DEF NoneForgotten
  <2>5. ~Queued(a)
    BY <2>1 DEF Queued
  <2>6. \A p \in Prober : ~Holds(p, a)
    BY <2>1 DEF Holds
  <2> QED BY <1>2, <2>4, <2>5, <2>6 DEF NoneForgotten, Delivered
<1> QED BY <1>1, <1>2 DEF NothingLost

\* network.go: however the four paths interleave their claims and sends, on
\* any network and with any buffer, the channel is closed after the last send,
\* and every service that a path came up with has then been received.
THEOREM NothingIsLost == PipelineSpec => []NothingLost
<1>1. PipelineInit => PipelineInv
  BY InitHolds
<1>2. PipelineInv /\ [PipelineNext]_pipelineVars => PipelineInv'
  BY NextKeeps
<1>3. PipelineInv => NothingLost
  BY InvMeansNothingLost
<1> QED BY <1>1, <1>2, <1>3, PTL DEF PipelineSpec

\* A step of a scan is a delivery of ScanResults, its end, or nothing to see.
LEMMA StepMaps ==
    PipelineInv /\ [PipelineNext]_pipelineVars => [Results!Next]_<<received, finished>>
<1> SUFFICES ASSUME PipelineInv, [PipelineNext]_pipelineVars
             PROVE  Results!Next \/ UNCHANGED <<received, finished>>
  OBVIOUS
<1>1. CASE Receive
  <2>1. /\ Head(ch) \in Answers /\ received[Head(ch)] = 0 /\ ~finished
        /\ received' = [received EXCEPT ![Head(ch)] = @ + 1] /\ UNCHANGED finished
    BY <1>1, ReceiveKeeps DEF Receive
  <2>2. Results!Deliver(Head(ch))
    BY <2>1 DEF Results!Deliver
  <2> QED BY <2>1, <2>2 DEF Results!Next
<1>2. CASE RangeEnds
  BY <1>2 DEF RangeEnds, Results!Next, Results!Finish
<1>3. CASE \/ ChooseHosts \/ Sweep \/ SweepDone \/ Close \/ Cancel
           \/ Listen("mdns", discoverMDNS) \/ Listen("ssdp", discoverSSDP)
           \/ Listen("wsd", discoverWSDiscovery)
  BY <1>3 DEF ChooseHosts, Sweep, SweepDone, Close, Cancel, Listen, readerVars
<1>4. ASSUME NEW p \in Prober, Take(p) \/ Leave(p) \/ Probe(p) \/ Send(p)
      PROVE  UNCHANGED <<received, finished>>
  BY <1>4 DEF Take, Leave, Probe, Send, readerVars
<1>5. CASE UNCHANGED pipelineVars
  BY <1>5 DEF pipelineVars, readerVars
<1> QED BY <1>1, <1>2, <1>3, <1>4, <1>5 DEF PipelineNext, PipelineStep

\* scanNetwork implements what the loops of runScan and runLightScan rely on:
\* each service at most once, in any order, and nothing after the end.  (That
\* the end comes is the liveness part of ScanResults.)
THEOREM DeliversOnce ==
    PipelineSpec => Results!Init /\ [][Results!Next]_<<received, finished>>
<1>1. PipelineInit => Results!Init /\ PipelineInv
  BY InitHolds DEF PipelineInit, Results!Init
<1>2. PipelineInv /\ [PipelineNext]_pipelineVars => PipelineInv'
  BY NextKeeps
<1>3. PipelineInv /\ [PipelineNext]_pipelineVars
          => [Results!Next]_<<received, finished>>
  BY StepMaps
<1> QED BY <1>1, <1>2, <1>3, PTL DEF PipelineSpec
-----------------------------------------------------------------------------
(* The types that TLC checks: what is swept are addresses, and what is claimed *)
(* was come up with by some path.                                              *)

SweepTyped == ips \subseteq IP

\* What waits to be probed, and what was claimed, is known.
ClaimsKnown ==
    /\ \A path \in Path : \A i \in found[path] : i.at \in known
    /\ \A i \in jobs : i.at \in known
    /\ probed \subseteq known

\* Whatever the subnets are: hosts are addresses.
LEMMA HostsAreAddresses == Hosts \subseteq IP
BY DEF Hosts, generateIPs

\* ChooseHosts sweeps hosts, all of them or those that answered.
LEMMA ChosenAreAddresses ==
    ASSUME SweepTyped, ChooseHosts
    PROVE  SweepTyped' /\ UNCHANGED <<found, jobs, probed, known>>
<1>1. ASSUME NEW live \in arpSweep(Hosts) PROVE live \subseteq IP
  BY <1>1, HostsAreAddresses DEF arpSweep
<1>2. ASSUME UNCHANGED ips PROVE SweepTyped'
  BY <1>2 DEF SweepTyped
<1>3. ASSUME \E live \in arpSweep(Hosts) : ips' = IF live # {} THEN live ELSE Hosts
      PROVE  SweepTyped'
  BY <1>1, <1>3, HostsAreAddresses DEF SweepTyped
<1> QED BY <1>2, <1>3 DEF ChooseHosts, sharedVars

\* Only ChooseHosts chooses what is swept, and what a step adds to a list or
\* claims is known.
LEMMA StepClaimsKnown ==
    ASSUME PipelineInv, SweepTyped, ClaimsKnown, [PipelineNext]_pipelineVars
    PROVE  SweepTyped' /\ ClaimsKnown'
<1>1. ASSUME UNCHANGED <<ips, found, jobs, probed, known>> PROVE SweepTyped' /\ ClaimsKnown'
  BY <1>1 DEF SweepTyped, ClaimsKnown
<1>2. CASE ChooseHosts
  BY <1>2, ChosenAreAddresses DEF ClaimsKnown
<1>3. CASE Sweep
  BY <1>3 DEF Sweep, SweepTyped, ClaimsKnown
<1>4. ASSUME NEW path \in Path, NEW outcomes, Listen(path, outcomes)
      PROVE  SweepTyped' /\ ClaimsKnown'
  <2>1. /\ UNCHANGED <<ips, jobs, probed>> /\ DOMAIN found = Path
        /\ \E heard \in outcomes : /\ found' = [found EXCEPT ![path] = heard]
                                   /\ known' = known \cup {a.at : a \in heard}
    BY <1>4 DEF Listen, sweepVars, PipelineInv, ProbersTyped
  <2> QED BY <2>1 DEF SweepTyped, ClaimsKnown
<1>5. ASSUME NEW p \in Prober, Take(p) PROVE SweepTyped' /\ ClaimsKnown'
  <2>1. PICK i \in Feed(p) : TakeFrom(p, i) /\ (UNCHANGED probed \/ claim(i.at))
    BY <1>5 DEF Take
  <2>2. UNCHANGED <<ips, known>> /\ DOMAIN found = Path
    BY <1>5 DEF Take, PipelineInv, ProbersTyped
  <2>3. i.at \in known
    BY <2>1 DEF Feed, ClaimsKnown
  <2>4. probed' \subseteq known
    BY <2>1, <2>3 DEF claim, ClaimsKnown
  <2>5. jobs' \subseteq jobs /\ \A path \in Path : found'[path] \subseteq found[path]
    BY <2>1, <2>2 DEF TakeFrom
  <2> QED BY <2>2, <2>4, <2>5 DEF SweepTyped, ClaimsKnown
<1>6. ASSUME NEW p \in Prober, Leave(p) \/ Probe(p) \/ Send(p)
      PROVE  SweepTyped' /\ ClaimsKnown'
  BY <1>1, <1>6 DEF Leave, Probe, Send, sweepVars, sharedVars
<1>7. CASE SweepDone \/ Close \/ Receive \/ RangeEnds \/ Cancel
  BY <1>1, <1>7 DEF SweepDone, Close, Receive, RangeEnds, Cancel, sweepVars, sharedVars
<1>8. CASE UNCHANGED pipelineVars
  BY <1>1, <1>8 DEF pipelineVars, sweepVars, sharedVars
<1>9. {"mdns", "ssdp", "wsd"} \subseteq Path
  BY DEF Path
<1> QED BY <1>2, <1>3, <1>4, <1>5, <1>6, <1>7, <1>8, <1>9 DEF PipelineNext, PipelineStep

\* network.go: every variable of a scan keeps its type, for addresses of any
\* width, any subnets and interfaces and whatever is found and announced.
THEOREM PipelineTyped == PipelineSpec => []PipelineTypeOK
<1>1. PipelineInit => PipelineInv /\ SweepTyped /\ ClaimsKnown
  BY InitHolds DEF PipelineInit, SweepTyped, ClaimsKnown
<1>2. PipelineInv /\ [PipelineNext]_pipelineVars => PipelineInv'
  BY NextKeeps
<1>3. PipelineInv /\ SweepTyped /\ ClaimsKnown /\ [PipelineNext]_pipelineVars
          => (SweepTyped /\ ClaimsKnown)'
  BY StepClaimsKnown
<1>4. PipelineInv /\ SweepTyped /\ ClaimsKnown => PipelineTypeOK
  BY DEF PipelineInv, ProbersTyped, ChannelTyped, SweepTyped, ClaimsKnown, PipelineTypeOK,
         Places
<1> QED BY <1>1, <1>2, <1>3, <1>4, PTL DEF PipelineSpec
-----------------------------------------------------------------------------
(***************************************************************************)
(* Why the end comes, on any network: until the reader's loop has ended    *)
(* some step is possible, and each step but the cancellation uses up       *)
(* something that never comes back.  What is left to do is, at first,      *)
(* at most what is on the network.                                         *)
(***************************************************************************)
Stages == CASE tcp = "hosts" -> {"choose", "sweep", "wait"}
            [] tcp = "sweep" -> {"sweep", "wait"}
            [] tcp = "probe" -> {"wait"}
            [] OTHER -> {}

Listening == {path \in Path : at[path] = "listen"}

ListOf(path) == IF at[path] = "listen" THEN Announced[path] ELSE found[path]

Jobs == IF tcp \in {"hosts", "sweep"} THEN {[id |-> "open", at |-> a] : a \in Open} ELSE jobs

\* The addresses there are: no other is ever claimed.
Addresses == Open \cup UNION {{i.at : i \in Announced[path]} : path \in Path}

\* Those that are still to be probed, and to be sent, for all that is known.
Probing ==
    {a \in Addresses : a \in probed => \E p \in Prober : at[p] = "probe" /\ item[p].at = a}

Sending ==
    {a \in Addresses :
        a \in probed => \E p \in Prober : at[p] \in {"probe", "send"} /\ item[p].at = a}

Undelivered == {a \in Answers : received[a] = 0}

\* Whose loop has still to end
Staying ==
    {p \in Prober : at[p] # "done" \/ (p \in HttpWorker /\ tcp \in {"hosts", "sweep"})}

Ends == {e \in {"close", "end"} : IF e = "close" THEN ~closed ELSE ~finished}

ToDo == <<Stages, Listening, [path \in Path |-> ListOf(path)], Jobs, Probing, Sending,
          Undelivered, Staying, Ends>>

NothingComesBack ==
    /\ Stages' \subseteq Stages /\ Listening' \subseteq Listening
    /\ \A path \in Path : ListOf(path)' \subseteq ListOf(path)
    /\ Jobs' \subseteq Jobs
    /\ Probing' \subseteq Probing /\ Sending' \subseteq Sending
    /\ Undelivered' \subseteq Undelivered
    /\ Staying' \subseteq Staying /\ Ends' \subseteq Ends

\* Somebody does not wait for anybody: the reader has a result or the end to
\* read, a path listens or has work, a prober has room to send, a stage of the
\* sweep can begin or its wait is over, or the channel can be closed.
SomeoneCanGoOn ==
    \/ ch # <<>> \/ (closed /\ ch = <<>> /\ ~finished)
    \/ \E p \in Prober : \/ at[p] \in {"listen", "idle", "probe"}
                         \/ at[p] = "send" /\ Len(ch) < Capacity
    \/ tcp \in {"hosts", "sweep"}
    \/ tcp = "probe" /\ \A w \in HttpWorker : at[w] = "done"
    \/ wait /\ ~closed

\* What is come up with is on the network.
LEMMA StepKnowsAddresses ==
    ASSUME PipelineInv, ClaimsKnown, ClaimsKnown', known \subseteq Addresses,
           [PipelineNext]_pipelineVars
    PROVE  known' \subseteq Addresses
<1>1. CASE UNCHANGED known
  BY <1>1
<1>2. CASE Sweep
  <2>1. PICK open \in tcpSweep(ips) :
            UNCHANGED known \/ known' = known \cup {a.at : a \in open}
    BY <1>2 DEF Sweep
  <2>2. \A a \in open : a.at \in Open
    BY DEF tcpSweep
  <2> QED BY <2>1, <2>2 DEF Addresses
<1>3. ASSUME NEW path \in Path, NEW outcomes \in SUBSET (SUBSET Announced[path]),
             Listen(path, outcomes)
      PROVE  known' \subseteq Addresses
  <2>1. PICK heard \in outcomes : known' = known \cup {a.at : a \in heard}
    BY <1>3 DEF Listen
  <2> QED BY <2>1 DEF Addresses
<1>4. ASSUME NEW p \in Prober, Take(p) \/ Leave(p) \/ Probe(p) \/ Send(p)
      PROVE  UNCHANGED known
  BY <1>4 DEF Take, Leave, Probe, Send, sharedVars
<1>5. CASE ChooseHosts \/ SweepDone \/ Close \/ Receive \/ RangeEnds \/ Cancel
  BY <1>1, <1>5 DEF ChooseHosts, SweepDone, Close, Receive, RangeEnds, Cancel, sharedVars
<1>6. CASE UNCHANGED pipelineVars
  BY <1>1, <1>6 DEF pipelineVars, sharedVars
<1>7. /\ discoverMDNS \in SUBSET (SUBSET Announced["mdns"])
      /\ discoverSSDP \in SUBSET (SUBSET Announced["ssdp"])
      /\ discoverWSDiscovery \in SUBSET (SUBSET Announced["wsd"])
      /\ {"mdns", "ssdp", "wsd"} \subseteq Path
  BY DEF discoverMDNS, discoverSSDP, discoverWSDiscovery, Path
<1> QED BY <1>1, <1>2, <1>3, <1>4, <1>5, <1>6, <1>7 DEF PipelineNext, PipelineStep

\* A stage of the sweep is over.
LEMMA StageUsesUp ==
    ASSUME PipelineInv, ChooseHosts \/ Sweep \/ SweepDone
    PROVE  NothingComesBack /\ Stages' # Stages
<1> USE DEF PipelineInv
<1>1. UNCHANGED <<item, found, probed, closed, received, finished>>
  BY DEF ChooseHosts, Sweep, SweepDone, proberVars, sharedVars, channelVars, readerVars
<1>2. Stages' \subseteq Stages /\ Stages' # Stages
  BY DEF ChooseHosts, Sweep, SweepDone, Stages
<1>3. /\ \A path \in Path : at'[path] = at[path]
      /\ \A p \in Prober : at'[p] # at[p] =>
             p \in HttpWorker /\ tcp = "sweep" /\ at[p] = "done" /\ at'[p] = "idle"
  <2>1. CASE UNCHANGED at
    BY <2>1
  <2>2. CASE tcp = "sweep" /\ at' = [p \in Prober |-> IF p \in HttpWorker THEN "idle" ELSE at[p]]
    BY <2>2, WorkersAreNoPaths DEF Prober, DoneWhenEmpty
  <2> QED BY <2>1, <2>2 DEF ChooseHosts, Sweep, SweepDone, proberVars
<1>4. Listening' = Listening /\ \A path \in Path : ListOf(path)' = ListOf(path)
  BY <1>1, <1>3 DEF Listening, ListOf
<1>5. Jobs' \subseteq Jobs
  BY DEF ChooseHosts, Sweep, SweepDone, Jobs, DoneWhenEmpty, tcpSweep
<1>6. \A p \in Prober : /\ at'[p] = "probe" <=> at[p] = "probe"
                        /\ at'[p] = "send" <=> at[p] = "send"
  BY <1>3
<1>7. Probing' = Probing /\ Sending' = Sending
  BY <1>1, <1>6 DEF Probing, Sending
<1>8. Staying' \subseteq Staying
  <2>1. tcp' \in {"hosts", "sweep"} => tcp \in {"hosts", "sweep"}
    BY DEF ChooseHosts, Sweep, SweepDone
  <2> QED BY <1>3, <2>1 DEF Staying
<1>9. Undelivered' = Undelivered /\ Ends' = Ends
  BY <1>1 DEF Undelivered, Ends
<1> QED BY <1>2, <1>4, <1>5, <1>7, <1>8, <1>9 DEF NothingComesBack

\* A path has listened: what it has heard is some of what is announced.
LEMMA ListenUsesUp ==
    ASSUME PipelineInv, NEW path \in Path, NEW outcomes \in SUBSET (SUBSET Announced[path]),
           Listen(path, outcomes)
    PROVE  NothingComesBack /\ Listening' # Listening
<1> USE DEF PipelineInv
<1>1. PICK heard \in outcomes : found' = [found EXCEPT ![path] = heard]
  BY DEF Listen
<1>2. /\ at[path] = "listen" /\ at' = [at EXCEPT ![path] = "idle"] /\ path \in Prober
      /\ UNCHANGED <<tcp, jobs, item, probed, closed, received, finished>>
  BY DEF Listen, sweepVars, channelVars, readerVars, Prober
<1>3. /\ \A p \in Prober : at'[p] = IF p = path THEN "idle" ELSE at[p]
      /\ \A p \in Path : found'[p] = IF p = path THEN heard ELSE found[p]
      /\ Path \subseteq Prober
  BY <1>1, <1>2 DEF ProbersTyped, Prober
<1>4. Listening' = Listening \ {path} /\ path \in Listening
  BY <1>2, <1>3 DEF Listening
<1>5. \A p \in Path : ListOf(p)' \subseteq ListOf(p)
  BY <1>2, <1>3 DEF ListOf
<1>6. Probing' = Probing /\ Sending' = Sending
  <2>1. \A p \in Prober : /\ at'[p] = "probe" <=> at[p] = "probe"
                          /\ at'[p] = "send" <=> at[p] = "send"
    BY <1>2, <1>3
  <2> QED BY <1>2, <2>1 DEF Probing, Sending
<1>7. Staying' \subseteq Staying
  BY <1>2, <1>3 DEF Staying
<1>8. Stages' = Stages /\ Jobs' = Jobs /\ Undelivered' = Undelivered /\ Ends' = Ends
  BY <1>2 DEF Stages, Jobs, Undelivered, Ends
<1> QED BY <1>4, <1>5, <1>6, <1>7, <1>8 DEF NothingComesBack

\* A prober has taken an item off its list,
LEMMA TakeUsesUp ==
    ASSUME PipelineInv, NEW p \in Prober, Take(p)
    PROVE  NothingComesBack /\ ToDo' # ToDo
<1> USE DEF PipelineInv
<1>1. PICK i \in Feed(p) :
          /\ TakeFrom(p, i)
          /\ \/ i.at \in probed /\ UNCHANGED <<at, item, probed>>
             \/ /\ i.at \notin probed
                /\ claim(i.at)
                /\ Move(p, "probe")
                /\ item' = [item EXCEPT ![p] = i]
  BY DEF Take
<1>2. at[p] = "idle" /\ UNCHANGED <<tcp, closed, received, finished>>
  BY DEF Take, channelVars, readerVars
<1>3. p \in HttpWorker => tcp = "probe"
  BY <1>2, WorkingMeansOpen
<1>4. /\ \A q \in Prober : at'[q] = at[q] \/ (q = p /\ at'[q] = "probe")
      /\ \A q \in Prober : at[q] \in {"probe", "send"} => at'[q] = at[q] /\ item'[q] = item[q]
      /\ \A a : a \in probed' => \/ a \in probed
                                 \/ at'[p] = "probe" /\ item'[p].at = a
      /\ probed \subseteq probed'
  <2>1. CASE UNCHANGED <<at, item, probed>>
    BY <2>1
  <2>2. CASE claim(i.at) /\ Move(p, "probe") /\ item' = [item EXCEPT ![p] = i]
    <3>1. \A q \in Prober : at'[q] = IF q = p THEN "probe" ELSE at[q]
      BY <2>2, MoveFrame DEF Places
    <3>2. \A q \in Prober : item'[q] = IF q = p THEN i ELSE item[q]
      BY <2>2 DEF ProbersTyped
    <3> QED BY <1>2, <2>2, <3>1, <3>2 DEF claim
  <2> QED BY <1>1, <2>1, <2>2
<1>5. /\ \A path \in Path : found'[path] = IF path = p THEN found[path] \ {i} ELSE found[path]
      /\ jobs' = IF p \in Path THEN jobs ELSE jobs \ {i}
      /\ i \in (IF p \in Path THEN found[p] ELSE jobs)
  BY <1>1 DEF TakeFrom, Feed, ProbersTyped
<1>6. Path \subseteq Prober
  BY DEF Prober
<1>7. Listening' = Listening
  BY <1>2, <1>4, <1>6 DEF Listening
<1>8. \A path \in Path : ListOf(path)' \subseteq ListOf(path)
  BY <1>2, <1>4, <1>5, <1>6 DEF ListOf
<1>9. Jobs' \subseteq Jobs
  BY <1>2, <1>3, <1>5 DEF Jobs, Prober
<1>10. ToDo' # ToDo
  <2>1. CASE p \in Path
    <3>1. ListOf(p)' = found[p] \ {i} /\ ListOf(p) = found[p] /\ i \in found[p]
      BY <1>2, <1>4, <1>5, <2>1 DEF ListOf
    <3>2. [path \in Path |-> ListOf(path)]' # [path \in Path |-> ListOf(path)]
      BY <2>1, <3>1
    <3> QED BY <3>2 DEF ToDo
  <2>2. CASE p \notin Path
    <3>1. Jobs' = jobs \ {i} /\ Jobs = jobs /\ i \in jobs
      BY <1>2, <1>3, <1>5, <2>2 DEF Jobs, Prober
    <3>2. Jobs' # Jobs
      BY <3>1
    <3> QED BY <3>2 DEF ToDo
  <2> QED BY <2>1, <2>2
<1>11. Probing' \subseteq Probing /\ Sending' \subseteq Sending
  <2>1. ASSUME NEW a \in Probing' PROVE a \in Probing
    <3>1. a \in Addresses /\ (a \in probed' => \E q \in Prober : at'[q] = "probe" /\ item'[q].at = a)
      BY DEF Probing
    <3>2. CASE a \in probed
      <4>1. PICK q \in Prober : at'[q] = "probe" /\ item'[q].at = a
        BY <1>4, <3>1, <3>2
      <4>2. at[q] = "probe" /\ item[q].at = a
        <5>1. CASE at[q] \in {"probe", "send"}
          BY <1>4, <4>1, <5>1
        <5>2. CASE at[q] \notin {"probe", "send"}
          <6>1. q = p /\ at'[p] # at[p]
            BY <1>4, <4>1, <5>2
          <6>2. i.at \notin probed /\ item'[p] = i
            BY <1>1, <6>1 DEF ProbersTyped
          <6> QED BY <3>2, <4>1, <6>1, <6>2
        <5> QED BY <5>1, <5>2
      <4> QED BY <3>1, <4>2 DEF Probing
    <3> QED BY <3>1, <3>2 DEF Probing
  <2>2. ASSUME NEW a \in Sending' PROVE a \in Sending
    <3>1. a \in Addresses /\ (a \in probed' => \E q \in Prober :
                                  at'[q] \in {"probe", "send"} /\ item'[q].at = a)
      BY DEF Sending
    <3>2. CASE a \in probed
      <4>1. PICK q \in Prober : at'[q] \in {"probe", "send"} /\ item'[q].at = a
        BY <1>4, <3>1, <3>2
      <4>2. at[q] \in {"probe", "send"} /\ item[q].at = a
        <5>1. CASE at[q] \in {"probe", "send"}
          BY <1>4, <4>1, <5>1
        <5>2. CASE at[q] \notin {"probe", "send"}
          <6>1. q = p /\ at'[p] # at[p]
            BY <1>4, <4>1, <5>2
          <6>2. i.at \notin probed /\ item'[p] = i
            BY <1>1, <6>1 DEF ProbersTyped
          <6> QED BY <3>2, <4>1, <6>1, <6>2
        <5> QED BY <5>1, <5>2
      <4> QED BY <3>1, <4>2 DEF Sending
    <3> QED BY <3>1, <3>2 DEF Sending
  <2> QED BY <2>1, <2>2
<1>12. Staying' \subseteq Staying
  BY <1>2, <1>4 DEF Staying
<1>13. Stages' = Stages /\ Undelivered' = Undelivered /\ Ends' = Ends
  BY <1>2 DEF Stages, Undelivered, Ends
<1> QED BY <1>7, <1>8, <1>9, <1>10, <1>11, <1>12, <1>13 DEF NothingComesBack

\* has come to the end of its loop, has probed or has sent.
LEMMA MoveUsesUp ==
    ASSUME PipelineInv, ClaimsKnown, known \subseteq Addresses, NEW p \in Prober,
           Leave(p) \/ Probe(p) \/ Send(p)
    PROVE  NothingComesBack /\ ToDo' # ToDo
<1> USE DEF PipelineInv
<1>1. UNCHANGED <<tcp, jobs, found, probed, closed, received, finished>>
  BY DEF Leave, Probe, Send, sweepVars, sharedVars, channelVars, readerVars
<1>2. /\ \A q \in Prober : q # p => at'[q] = at[q] /\ item'[q] = item[q]
      /\ \/ at[p] = "idle" /\ at'[p] = "done"
         \/ at[p] = "probe" /\ at'[p] = "send" /\ item'[p] = item[p]
         \/ at[p] \in {"probe", "send"} /\ at'[p] = "idle"
  <2>1. ASSUME NEW place \in Places, Move(p, place)
        PROVE  \A q \in Prober : at'[q] = IF q = p THEN place ELSE at[q]
    BY <2>1, MoveFrame
  <2>2. {"done", "send", "idle"} \subseteq Places
    BY DEF Places
  <2>3. \A q \in Prober : q # p => item'[q] = item[q]
    BY DEF Leave, Probe, Send, ProbersTyped
  <2>4. CASE Leave(p)
    BY <2>1, <2>2, <2>3, <2>4 DEF Leave
  <2>5. CASE Probe(p)
    BY <2>1, <2>2, <2>3, <2>5 DEF Probe
  <2>6. CASE Send(p)
    BY <2>1, <2>2, <2>3, <2>6 DEF Send
  <2> QED BY <2>4, <2>5, <2>6
<1>3. Path \subseteq Prober
  BY DEF Prober
<1>4. /\ Listening' = Listening
      /\ \A path \in Path : ListOf(path)' = ListOf(path)
      /\ Jobs' = Jobs
  BY <1>1, <1>2, <1>3 DEF Listening, ListOf, Jobs
<1>5. Probing' \subseteq Probing /\ Sending' \subseteq Sending
  BY <1>1, <1>2 DEF Probing, Sending
<1>6. Staying' \subseteq Staying
  BY <1>1, <1>2 DEF Staying
<1>7. Stages' = Stages /\ Undelivered' = Undelivered /\ Ends' = Ends
  BY <1>1 DEF Stages, Undelivered, Ends
<1>8. CASE at[p] = "idle"
  <2>1. p \in Staying /\ p \notin Staying'
    BY <1>1, <1>2, <1>8, WorkingMeansOpen DEF Staying
  <2>2. Staying' # Staying
    BY <2>1
  <2> QED BY <1>4, <1>5, <1>6, <1>7, <2>2 DEF NothingComesBack, ToDo
<1>9. CASE at[p] \in {"probe", "send"}
  <2>1. item[p].at \in probed /\ item[p].at \in Addresses
    BY <1>9 DEF OneHolder, ClaimsKnown
  <2>2. \A q \in Prober : q # p /\ at[q] \in {"probe", "send"} => item[q].at # item[p].at
    BY <1>9 DEF OneHolder
  <2>3. CASE at'[p] = "send"
    <3>1. at[p] = "probe"
      BY <1>2, <1>9, <2>3
    <3>2. item[p].at \in Probing /\ item[p].at \notin Probing'
      BY <1>1, <1>2, <2>1, <2>2, <2>3, <3>1 DEF Probing
    <3>3. Probing' # Probing
      BY <3>2
    <3> QED BY <1>4, <1>5, <1>6, <1>7, <3>3 DEF NothingComesBack, ToDo
  <2>4. CASE at'[p] = "idle"
    <3>1. item[p].at \in Sending /\ item[p].at \notin Sending'
      BY <1>1, <1>2, <1>9, <2>1, <2>2, <2>4 DEF Sending
    <3>2. Sending' # Sending
      BY <3>1
    <3> QED BY <1>4, <1>5, <1>6, <1>7, <3>2 DEF NothingComesBack, ToDo
  <2> QED BY <1>2, <1>9, <2>3, <2>4
<1> QED BY <1>2, <1>8, <1>9

\* The channel was closed, or read, or found closed.
LEMMA ChannelUsesUp ==
    ASSUME PipelineInv, Close \/ Receive \/ RangeEnds
    PROVE  NothingComesBack /\ ToDo' # ToDo
<1> USE DEF PipelineInv
<1>1. /\ Stages' = Stages /\ Listening' = Listening
      /\ \A path \in Path : ListOf(path)' = ListOf(path)
      /\ Jobs' = Jobs /\ Probing' = Probing /\ Sending' = Sending /\ Staying' = Staying
  BY DEF Close, Receive, RangeEnds, sweepVars, proberVars, sharedVars,
         Stages, Listening, ListOf, Jobs, Probing, Sending, Staying
<1>2. CASE Close \/ RangeEnds
  <2>1. Undelivered' = Undelivered
    BY <1>2 DEF Close, RangeEnds, readerVars, Undelivered
  <2>2. Ends' \subseteq Ends /\ Ends' # Ends
    BY <1>2 DEF Close, RangeEnds, readerVars, channelVars, Ends
  <2> QED BY <1>1, <2>1, <2>2 DEF NothingComesBack, ToDo
<1>3. CASE Receive
  <2>1. /\ received[Head(ch)] = 0 /\ Head(ch) \in Answers
        /\ received' = [received EXCEPT ![Head(ch)] = @ + 1]
        /\ UNCHANGED <<closed, finished>>
    BY <1>3, ReceiveKeeps DEF Receive
  <2>2. \A a \in Answers : received'[a] = IF a = Head(ch) THEN 1 ELSE received[a]
    BY <2>1 DEF ChannelTyped
  <2>3. Undelivered' = Undelivered \ {Head(ch)} /\ Head(ch) \in Undelivered
    BY <2>1, <2>2 DEF Undelivered
  <2>4. Ends' = Ends
    BY <2>1 DEF Ends
  <2>5. Undelivered' \subseteq Undelivered /\ Undelivered' # Undelivered
    BY <2>3
  <2> QED BY <1>1, <2>4, <2>5 DEF NothingComesBack, ToDo
<1> QED BY <1>2, <1>3

\* Every step of a scan brings it nearer to its end.
LEMMA StepUsesUp ==
    ASSUME PipelineInv, ClaimsKnown, known \subseteq Addresses, PipelineStep
    PROVE  NothingComesBack /\ ToDo' # ToDo
<1>1. CASE ChooseHosts \/ Sweep \/ SweepDone
  <2>1. NothingComesBack /\ Stages' # Stages
    BY <1>1, StageUsesUp
  <2> QED BY <2>1 DEF ToDo
<1>2. ASSUME NEW path \in Path, NEW outcomes \in SUBSET (SUBSET Announced[path]),
             Listen(path, outcomes)
      PROVE  NothingComesBack /\ ToDo' # ToDo
  <2>1. NothingComesBack /\ Listening' # Listening
    BY <1>2, ListenUsesUp
  <2> QED BY <2>1 DEF ToDo
<1>3. /\ discoverMDNS \in SUBSET (SUBSET Announced["mdns"])
      /\ discoverSSDP \in SUBSET (SUBSET Announced["ssdp"])
      /\ discoverWSDiscovery \in SUBSET (SUBSET Announced["wsd"])
      /\ {"mdns", "ssdp", "wsd"} \subseteq Path
  BY DEF discoverMDNS, discoverSSDP, discoverWSDiscovery, Path
<1> QED BY <1>1, <1>2, <1>3, TakeUsesUp, MoveUsesUp, ChannelUsesUp DEF PipelineStep

\* A cancellation uses up nothing, but it comes once.
LEMMA CancelUsesUpNothing == Cancel => NothingComesBack
BY DEF Cancel, sweepVars, proberVars, sharedVars, channelVars, readerVars,
       NothingComesBack, Stages, Listening, ListOf, Jobs, Probing, Sending, Undelivered,
       Staying, Ends

\* Nobody waits for somebody who waits: whoever has a result to send finds room
\* as soon as the reader has read, and the reader waits only for those who work.
LEMMA InvMeansSomeoneCanGoOn ==
    PipelineInv /\ ~finished => SomeoneCanGoOn
<1> SUFFICES ASSUME PipelineInv, ~finished, ~SomeoneCanGoOn
             PROVE  FALSE
  OBVIOUS
<1> USE DEF PipelineInv, SomeoneCanGoOn
<1>1. ch = <<>> /\ ~closed
  OBVIOUS
<1>2. Len(ch) < Capacity
  BY <1>1, ScanAssumption
<1>3. \A p \in Prober : at[p] = "done"
  BY <1>2 DEF ProbersTyped, Places
<1>4. tcp = "done"
  BY <1>3, WorkersAreNoPaths, ScanAssumption DEF ProbersTyped
<1>5. wait
  BY <1>3, <1>4 DEF wait, Prober
<1> QED BY <1>1, <1>5

\* network.go: until the reader's loop has ended somebody in scanNetwork can go
\* on, whatever the size of the channel and the number of workers: the wait
\* groups, the jobs channel and the results channel never wait for one another.
THEOREM ScanIsNeverStuck == PipelineSpec => [](~finished => SomeoneCanGoOn)
<1>1. PipelineInit => PipelineInv
  BY InitHolds
<1>2. PipelineInv /\ [PipelineNext]_pipelineVars => PipelineInv'
  BY NextKeeps
<1>3. PipelineInv => (~finished => SomeoneCanGoOn)
  BY InvMeansSomeoneCanGoOn
<1> QED BY <1>1, <1>2, <1>3, PTL DEF PipelineSpec

\* network.go: no step of a scan puts back what an earlier one has used up,
\* and each uses up something, a skipped duplicate and a failed probe too:
\* no loop of scanNetwork can run for ever on a finite network.
THEOREM ScanRunsOut ==
    PipelineSpec => [][NothingComesBack /\ (PipelineStep => ToDo' # ToDo)]_pipelineVars
<1>1. PipelineInit => PipelineInv /\ SweepTyped /\ ClaimsKnown /\ known \subseteq Addresses
  BY InitHolds DEF PipelineInit, SweepTyped, ClaimsKnown
<1>2. PipelineInv /\ [PipelineNext]_pipelineVars => PipelineInv'
  BY NextKeeps
<1>3. PipelineInv /\ SweepTyped /\ ClaimsKnown /\ [PipelineNext]_pipelineVars
          => (SweepTyped /\ ClaimsKnown)'
  BY StepClaimsKnown
<1>4. PipelineInv /\ ClaimsKnown /\ ClaimsKnown' /\ known \subseteq Addresses
          /\ [PipelineNext]_pipelineVars
              => (known \subseteq Addresses)'
  <2> SUFFICES ASSUME PipelineInv, ClaimsKnown, ClaimsKnown', known \subseteq Addresses,
                      [PipelineNext]_pipelineVars
               PROVE  (known \subseteq Addresses)'
    OBVIOUS
  <2>1. known' \subseteq Addresses
    BY StepKnowsAddresses
  <2> QED BY <2>1 DEF Addresses
<1>5. PipelineInv /\ ClaimsKnown /\ known \subseteq Addresses /\ [PipelineNext]_pipelineVars
          => [NothingComesBack /\ (PipelineStep => ToDo' # ToDo)]_pipelineVars
  BY StepUsesUp, CancelUsesUpNothing DEF PipelineNext
<1> QED BY <1>1, <1>2, <1>3, <1>4, <1>5, PTL DEF PipelineSpec
=============================================================================
