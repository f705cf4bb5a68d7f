----------------------- MODULE DiscoveredListsProofs -----------------------
(* Theorems about DiscoveredLists, for every value of its constants. *)
EXTENDS DiscoveredLists, TLAPS

(***************************************************************************)
(* ListsExact is inductive together with the types.  An operation changes  *)
(* the lists in one of three ways (an entry is listed, entries are taken   *)
(* off, an entry is described anew), and there is one lemma for each.      *)
(***************************************************************************)
DiscoveredTypeOK ==
    /\ discovered \in SUBSET Did
    /\ discoveredIdx \in [Did -> Entry \cup {NoEntry}]
    /\ discoveredContainerIdx \in [Cid -> Did \cup {NoDid}]

IgnoredTypeOK ==
    /\ ignored \in SUBSET Did
    /\ ignoredIdx \in [Did -> Addr \cup {NoEntry}]
    /\ ignoredIPPortIdx \in SUBSET Addr

DiscoveredMatches == \A did \in Did : did \in discovered <=> IsListed(did)

IgnoredMatches == \A did \in Did : did \in ignored <=> ignoredIdx[did] # NoEntry

DiscoveredInv == DiscoveredTypeOK /\ DiscoveredMatches /\ ContainerMapExact /\ NoTwins

IgnoredInv ==
    /\ IgnoredTypeOK
    /\ IgnoredMatches
    /\ ignoredIPPortIdx \subseteq {ignoredIdx[did] : did \in ignored}

\* The inductive invariant: the types and ListsExact, list by list.
ListsInv == DiscoveredInv /\ IgnoredInv /\ discovered \cap ignored = {}

\* No entry is NoEntry, and an entry has its fields.
LEMMA EntryFields ==
    ASSUME NEW e \in Entry
    PROVE  /\ e # NoEntry
           /\ e.addr \in Addr
           /\ e.cid \in Cid \cup {NoCid}
           /\ e.source \in {"docker", "network"}
BY ListsAssumption DEF Entry

\* indexDiscovered lists an entry under its ID and its container, if neither
\* is taken and no other entry of the source has the address.
LEMMA IndexKeeps ==
    ASSUME DiscoveredInv,
           NEW did \in Did, did \notin discovered,
           NEW entry \in Entry,
           entry.cid = NoCid \/ ~ContainerListed(entry.cid),
           \A other \in discovered :
               ~(/\ discoveredIdx[other].addr = entry.addr
                 /\ discoveredIdx[other].source = entry.source),
           indexDiscovered(did, entry)
    PROVE  DiscoveredInv' /\ discovered' = discovered \cup {did}
<1> USE DEF DiscoveredInv, DiscoveredTypeOK, indexDiscovered
<1>1. discoveredIdx' = [d \in Did |-> IF d = did THEN entry ELSE discoveredIdx[d]]
  BY DEF Put
<1>2. discoveredContainerIdx' =
          [c \in Cid |-> IF c = entry.cid THEN did ELSE discoveredContainerIdx[c]]
  BY DEF Put
<1>3. DiscoveredTypeOK'
  BY <1>1, <1>2
<1>4. DiscoveredMatches'
  BY <1>1, EntryFields DEF DiscoveredMatches, IsListed
<1>5. ContainerMapExact'
  <2> SUFFICES ASSUME NEW d \in Did, NEW c \in Cid
               PROVE  discoveredContainerIdx'[c] = d
                          <=> d \in discovered' /\ discoveredIdx'[d].cid = c
    BY DEF ContainerMapExact
  <2>1. discoveredContainerIdx[c] = d <=> d \in discovered /\ discoveredIdx[d].cid = c
    BY DEF ContainerMapExact
  <2>2. CASE c = entry.cid
    <3>1. discoveredContainerIdx[c] = NoDid
      BY <2>2, NullsAssumption DEF ContainerListed
    <3> QED BY <1>1, <1>2, <2>1, <2>2, <3>1, ListsAssumption
  <2>3. CASE c # entry.cid
    BY <1>1, <1>2, <2>1, <2>3
  <2> QED BY <2>2, <2>3
<1>6. NoTwins'
  BY <1>1 DEF NoTwins
<1> QED BY <1>3, <1>4, <1>5, <1>6

\* unindexDiscovered and filterSlice take entries off the list and both maps.
LEMMA UnlistKeeps ==
    ASSUME DiscoveredInv, NEW dids \in SUBSET Did, unlist(dids)
    PROVE  DiscoveredInv' /\ discovered' = discovered \ dids
<1> USE DEF DiscoveredInv, DiscoveredTypeOK, unlist
<1>1. DiscoveredTypeOK'
  OBVIOUS
<1>2. DiscoveredMatches'
  BY DEF DiscoveredMatches, IsListed
<1>3. ContainerMapExact'
  <2> SUFFICES ASSUME NEW d \in Did, NEW c \in Cid
               PROVE  discoveredContainerIdx'[c] = d
                          <=> d \in discovered' /\ discoveredIdx'[d].cid = c
    BY DEF ContainerMapExact
  <2>1. \A e \in Did : discoveredContainerIdx[c] = e
                           <=> e \in discovered /\ discoveredIdx[e].cid = c
    BY DEF ContainerMapExact
  <2>2. CASE \E e \in dids : IsListed(e) /\ discoveredIdx[e].cid = c
    <3>1. discoveredContainerIdx'[c] = NoDid
      BY <2>2
    <3>2. PICK e \in dids : IsListed(e) /\ discoveredIdx[e].cid = c
      BY <2>2
    <3>3. discoveredContainerIdx[c] = e
      BY <2>1, <3>2 DEF DiscoveredMatches
    <3> QED BY <2>1, <3>1, <3>3, ListsAssumption
  <2>3. CASE ~\E e \in dids : IsListed(e) /\ discoveredIdx[e].cid = c
    <3>1. discoveredContainerIdx'[c] = discoveredContainerIdx[c]
      BY <2>3
    <3>2. d \in dids /\ d \in discovered => discoveredIdx[d].cid # c
      BY <2>3 DEF DiscoveredMatches
    <3> QED BY <2>1, <3>1, <3>2
  <2> QED BY <2>2, <2>3
<1>4. NoTwins'
  BY DEF NoTwins
<1> QED BY <1>1, <1>2, <1>3, <1>4

\* AddDiscovered refuses what would make two of one container or address.
LEMMA AddKeeps ==
    ASSUME DiscoveredInv, NEW did \in Did, did \notin discovered, NEW entry \in Entry,
           AddDiscovered(did, entry)
    PROVE  DiscoveredInv' /\ discovered' \subseteq discovered \cup {did}
<1>1. CASE AddRefused(entry)
  BY <1>1 DEF AddDiscovered, DiscoveredInv, DiscoveredTypeOK, DiscoveredMatches, IsListed,
              ContainerMapExact, NoTwins, discoveredVars
<1>2. CASE ~AddRefused(entry)
  BY <1>2, IndexKeeps DEF AddDiscovered, AddRefused
<1> QED BY <1>1, <1>2

\* UpsertNetworkDiscovered describes the entry of the address anew, or adds one.
LEMMA UpsertKeeps ==
    ASSUME DiscoveredInv, NEW did \in Did, did \notin discovered,
           NEW addr \in Addr, NEW info \in Info,
           UpsertNetworkDiscovered(did, addr, info)
    PROVE  DiscoveredInv' /\ discovered' \subseteq discovered \cup {did}
<1>1. CASE SameAddress(addr) # {}
  <2>1. PICK old \in SameAddress(addr) :
            discoveredIdx' = [discoveredIdx EXCEPT ![old].info = info]
    BY <1>1 DEF UpsertNetworkDiscovered
  <2>2. old \in discovered /\ UNCHANGED <<discovered, discoveredContainerIdx>>
    BY <1>1 DEF UpsertNetworkDiscovered, SameAddress, NetworkEntries
  <2>3. old \in Did /\ discoveredIdx[old] \in Entry
    BY <2>2 DEF DiscoveredInv, DiscoveredTypeOK, DiscoveredMatches, IsListed
  <2>4. PICK new : new = [discoveredIdx[old] EXCEPT !.info = info]
    OBVIOUS
  <2>5. /\ new \in Entry
        /\ new.addr = discoveredIdx[old].addr
        /\ new.source = discoveredIdx[old].source
        /\ new.cid = discoveredIdx[old].cid
    BY <2>3, <2>4 DEF Entry
  <2>6. \A d \in Did : discoveredIdx'[d] = IF d = old THEN new ELSE discoveredIdx[d]
    BY <2>1, <2>3, <2>4 DEF DiscoveredInv, DiscoveredTypeOK
  <2>7. DiscoveredTypeOK'
    BY <2>1, <2>2, <2>3, <2>4, <2>5, <2>6 DEF DiscoveredInv, DiscoveredTypeOK
  <2>8. DiscoveredMatches'
    BY <2>2, <2>3, <2>5, <2>6, EntryFields DEF DiscoveredInv, DiscoveredMatches, IsListed
  <2>9. ContainerMapExact'
    BY <2>2, <2>5, <2>6 DEF DiscoveredInv, ContainerMapExact
  <2>10. NoTwins'
    BY <2>2, <2>5, <2>6 DEF DiscoveredInv, DiscoveredTypeOK, NoTwins
  <2> QED BY <2>2, <2>7, <2>8, <2>9, <2>10 DEF DiscoveredInv
<1>2. CASE SameAddress(addr) = {}
  <2>1. PICK entry : entry = [addr |-> addr, source |-> "network", cid |-> NoCid,
                              name |-> NoName, info |-> info]
    OBVIOUS
  <2>2. entry \in Entry /\ entry.cid = NoCid /\ entry.addr = addr /\ entry.source = "network"
    BY <2>1 DEF Entry
  <2>3. indexDiscovered(did, entry)
    BY <1>2, <2>1 DEF UpsertNetworkDiscovered
  <2>4. \A other \in discovered : ~(/\ discoveredIdx[other].addr = addr
                                    /\ discoveredIdx[other].source = "network")
    BY <1>2 DEF SameAddress, NetworkEntries
  <2> QED BY <2>2, <2>3, <2>4, IndexKeeps
<1> QED BY <1>1, <1>2

\* What leaves the discovered list alone keeps what holds of it.
LEMMA DiscoveredFrame ==
    ASSUME DiscoveredInv, UNCHANGED discoveredVars PROVE DiscoveredInv'
BY DEF DiscoveredInv, DiscoveredTypeOK, DiscoveredMatches, IsListed, ContainerMapExact,
       NoTwins, discoveredVars

\* The same of the ignored list.
LEMMA IgnoredFrame ==
    ASSUME IgnoredInv, UNCHANGED ignoredVars
    PROVE  IgnoredInv' /\ ignored' = ignored
BY DEF IgnoredInv, IgnoredTypeOK, IgnoredMatches, ignoredVars

\* unindexIgnored takes the entry and its address out; another entry with the
\* address stays on the list.
LEMMA UnignoreKeeps ==
    ASSUME IgnoredInv, NEW did \in Did, UnignoreService(did)
    PROVE  IgnoredInv' /\ did \in ignored /\ ignored' = ignored \ {did}
<1> USE DEF IgnoredInv, IgnoredTypeOK, UnignoreService, Put
<1>1. did \in ignored /\ ignoredIdx[did] \in Addr
  BY DEF IgnoredMatches
<1>2. \A d \in Did : ignoredIdx'[d] = IF d = did THEN NoEntry ELSE ignoredIdx[d]
  OBVIOUS
<1>3. IgnoredTypeOK'
  OBVIOUS
<1>4. IgnoredMatches'
  BY <1>2 DEF IgnoredMatches
<1>5. ignoredIPPortIdx' \subseteq {ignoredIdx'[d] : d \in ignored'}
  <2> SUFFICES ASSUME NEW a \in ignoredIPPortIdx' PROVE \E d \in ignored' : a = ignoredIdx'[d]
    OBVIOUS
  <2>1. PICK d \in ignored : a = ignoredIdx[d]
    OBVIOUS
  <2>2. d # did
    BY <2>1
  <2> QED BY <1>2, <2>1, <2>2
<1> QED BY <1>1, <1>3, <1>4, <1>5

\* IgnoreDiscovered moves an entry from one list to the other.
LEMMA IgnoreKeeps ==
    ASSUME ListsInv, NEW did \in Did, IgnoreDiscovered(did)
    PROVE  ListsInv'
<1>1. DiscoveredInv /\ IgnoredInv /\ discovered \cap ignored = {}
  BY DEF ListsInv
<1>2. DiscoveredInv' /\ discovered' = discovered \ {did}
  <2>1. {did} \in SUBSET Did /\ unlist({did})
    BY DEF IgnoreDiscovered
  <2> QED BY <1>1, <2>1, UnlistKeeps
<1>3. discoveredIdx[did] \in Entry
  BY <1>1 DEF IgnoreDiscovered, DiscoveredInv, DiscoveredTypeOK, IsListed
<1>4. PICK addr \in Addr : addr = discoveredIdx[did].addr
  BY <1>3, EntryFields
<1>5. /\ ignored' = ignored \cup {did}
      /\ ignoredIdx' = [d \in Did |-> IF d = did THEN addr ELSE ignoredIdx[d]]
      /\ ignoredIPPortIdx' = ignoredIPPortIdx \cup {addr}
  BY <1>1, <1>4 DEF IgnoreDiscovered, Put, IgnoredInv, IgnoredTypeOK
<1>6. IgnoredTypeOK'
  BY <1>1, <1>5 DEF IgnoredInv, IgnoredTypeOK
<1>7. IgnoredMatches'
  BY <1>1, <1>5, ListsAssumption DEF IgnoredInv, IgnoredTypeOK, IgnoredMatches
<1>8. ignoredIPPortIdx' \subseteq {ignoredIdx'[d] : d \in ignored'}
  <2>1. did \notin ignored
    BY <1>1 DEF IgnoreDiscovered, DiscoveredInv, DiscoveredMatches
  <2> QED BY <1>1, <1>5, <2>1 DEF IgnoredInv, IgnoredTypeOK
<1>9. discovered' \cap ignored' = {}
  BY <1>1, <1>2, <1>5
<1> QED BY <1>2, <1>6, <1>7, <1>8, <1>9 DEF IgnoredInv, ListsInv

\* The handler unignoreService moves it back, or drops it if the address is listed.
LEMMA HandlerKeeps ==
    ASSUME ListsInv, NEW did \in Did, NEW info \in Info, unignoreService(did, info)
    PROVE  ListsInv'
<1>1. DiscoveredInv /\ IgnoredInv /\ discovered \cap ignored = {}
  BY DEF ListsInv
<1>2. IgnoredInv' /\ did \in ignored /\ ignored' = ignored \ {did}
  BY <1>1, UnignoreKeeps DEF unignoreService
<1>3. PICK entry : entry = [addr |-> ignoredIdx[did], source |-> "network",
                            cid |-> NoCid, name |-> NoName, info |-> info]
  OBVIOUS
<1>4. entry \in Entry
  BY <1>1, <1>2, <1>3 DEF Entry, IgnoredInv, IgnoredTypeOK, IgnoredMatches
<1>5. DiscoveredInv' /\ discovered' \subseteq discovered \cup {did}
  BY <1>1, <1>2, <1>3, <1>4, AddKeeps DEF unignoreService
<1> QED BY <1>1, <1>2, <1>5 DEF ListsInv

\* rebuildIndexes computes the maps from the slices.
LEMMA RebuildKeeps ==
    ASSUME ListsInv, rebuildListIndexes
    PROVE  ListsInv'
<1>1. DiscoveredInv /\ IgnoredInv /\ discovered \cap ignored = {}
  BY DEF ListsInv
<1>2. discovered' = discovered /\ ignored' = ignored
  BY DEF rebuildListIndexes
<1>3. discoveredIdx' = discoveredIdx
  BY <1>1 DEF rebuildListIndexes, DiscoveredInv, DiscoveredTypeOK, DiscoveredMatches, IsListed
<1>4. ignoredIdx' = ignoredIdx
  BY <1>1 DEF rebuildListIndexes, IgnoredInv, IgnoredTypeOK, IgnoredMatches
<1>5. IgnoredInv'
  BY <1>1, <1>2, <1>4 DEF rebuildListIndexes, IgnoredInv, IgnoredTypeOK, IgnoredMatches
<1>6. discoveredContainerIdx' = discoveredContainerIdx
  <2> SUFFICES ASSUME NEW c \in Cid
               PROVE  discoveredContainerIdx'[c] = discoveredContainerIdx[c]
    BY <1>1 DEF rebuildListIndexes, DiscoveredInv, DiscoveredTypeOK
  <2>1. PICK holders : holders = {did \in discovered : discoveredIdx[did].cid = c}
    OBVIOUS
  <2>2. IF holders = {} THEN discoveredContainerIdx'[c] = NoDid
                        ELSE discoveredContainerIdx'[c] \in holders
    BY <2>1 DEF rebuildListIndexes
  <2>3. \A did \in Did : discoveredContainerIdx[c] = did <=> did \in holders
    BY <1>1, <2>1 DEF DiscoveredInv, ContainerMapExact
  <2>4. discoveredContainerIdx[c] \in Did \cup {NoDid} /\ holders \subseteq Did
    BY <1>1, <2>1 DEF DiscoveredInv, DiscoveredTypeOK
  <2> QED BY <2>2, <2>3, <2>4
<1>7. DiscoveredInv'
  BY <1>1, <1>2, <1>3, <1>6, DiscoveredFrame DEF discoveredVars
<1> QED BY <1>1, <1>2, <1>5, <1>7 DEF ListsInv

\* Every operation keeps the invariant.
LEMMA ListsNextKeeps == ListsInv /\ [ListsNext]_listVars => ListsInv'
<1> SUFFICES ASSUME ListsInv, [ListsNext]_listVars PROVE ListsInv'
  OBVIOUS
<1>a. DiscoveredInv /\ IgnoredInv /\ discovered \cap ignored = {}
  BY DEF ListsInv
<1>b. ASSUME DiscoveredInv', UNCHANGED ignoredVars, discovered' \cap ignored = {}
      PROVE  ListsInv'
  BY <1>a, <1>b, IgnoredFrame DEF ListsInv
<1>1. ASSUME NEW did \in Did, NEW entry \in ContainerEntries,
             Unused(did) /\ AddDiscovered(did, entry) /\ UNCHANGED ignoredVars
      PROVE  ListsInv'
  BY <1>a, <1>b, <1>1, AddKeeps DEF ContainerEntries, Unused
<1>2. ASSUME NEW did \in Did, NEW addr \in Addr, NEW info \in Info,
             Unused(did) /\ UpsertNetworkDiscovered(did, addr, info) /\ UNCHANGED ignoredVars
      PROVE  ListsInv'
  BY <1>a, <1>b, <1>2, UpsertKeeps DEF Unused
<1>3. ASSUME NEW did \in Did, RemoveDiscovered(did) /\ UNCHANGED ignoredVars
      PROVE  ListsInv'
  <2>1. {did} \cap discovered \in SUBSET Did /\ unlist({did} \cap discovered)
    BY <1>3 DEF RemoveDiscovered
  <2> QED BY <1>a, <1>b, <1>3, <2>1, UnlistKeeps
<1>4. ASSUME NEW cid \in Cid, RemoveDiscoveredByContainerID(cid) /\ UNCHANGED ignoredVars
      PROVE  ListsInv'
  <2>1. PICK dids : dids = {did \in discovered : discoveredIdx[did].cid = cid}
    OBVIOUS
  <2>2. dids \in SUBSET Did /\ unlist(dids)
    BY <1>a, <1>4, <2>1 DEF RemoveDiscoveredByContainerID, DiscoveredInv, DiscoveredTypeOK
  <2> QED BY <1>a, <1>b, <1>4, <2>2, UnlistKeeps
<1>5. ASSUME ClearNetworkDiscovered, UNCHANGED ignoredVars
      PROVE  ListsInv'
  <2>1. NetworkEntries \in SUBSET Did
    BY <1>a DEF NetworkEntries, DiscoveredInv, DiscoveredTypeOK
  <2> QED BY <1>a, <1>b, <1>5, <2>1, UnlistKeeps DEF ClearNetworkDiscovered
<1>6. ASSUME NEW did \in Did, IgnoreDiscovered(did)
      PROVE  ListsInv'
  BY <1>6, IgnoreKeeps
<1>7. ASSUME NEW did \in Did, NEW info \in Info, unignoreService(did, info)
      PROVE  ListsInv'
  BY <1>7, HandlerKeeps
<1>8. CASE rebuildListIndexes
  BY <1>8, RebuildKeeps
<1>9. CASE UNCHANGED listVars
  BY <1>a, <1>b, <1>9, DiscoveredFrame DEF listVars, ignoredVars, discoveredVars
<1> QED BY <1>1, <1>2, <1>3, <1>4, <1>5, <1>6, <1>7, <1>8, <1>9 DEF ListsNext

\* The empty lists satisfy it.
LEMMA ListsInitHolds == ListsInit => ListsInv
BY ListsAssumption DEF ListsInit, ListsInv, DiscoveredInv, IgnoredInv, DiscoveredTypeOK,
       IgnoredTypeOK, DiscoveredMatches, IgnoredMatches, IsListed, ContainerMapExact, NoTwins

\* The slices of store.go's two lists and their four maps hold the same
\* entries after any sequence of its operations: what the handlers and the
\* Docker watcher look up is what the page shows and config.json saves.
THEOREM ListsStayExact == ListsSpec => [](ListsTypeOK /\ ListsExact)
<1>1. ListsInit => ListsInv
  BY ListsInitHolds
<1>2. ListsInv /\ [ListsNext]_listVars => ListsInv'
  BY ListsNextKeeps
<1>3. ListsInv => ListsTypeOK /\ ListsExact
  BY DEF ListsInv, DiscoveredInv, IgnoredInv, DiscoveredTypeOK, IgnoredTypeOK,
         DiscoveredMatches, IgnoredMatches, ListsTypeOK, ListsExact, SliceMatchesMap
<1> QED BY <1>1, <1>2, <1>3, PTL DEF ListsSpec
=============================================================================
