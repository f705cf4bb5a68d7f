-------------------------- MODULE DiscoveredLists ---------------------------
(***************************************************************************)
(* The discovered and the ignored list of internal/store/store.go, with    *)
(* the maps kept beside them.  They live in the same Store as the services *)
(* and share its mutex: every operation is one critical section.           *)
(*                                                                         *)
(* The slices and the maps hold pointers to the same objects.  An entry's  *)
(* ID never changes and no two entries have the same (a new one is 64      *)
(* random bits; Unignore reuses that of the entry it takes off the other   *)
(* list), so a slice is modelled by the IDs in it and the object is        *)
(* discoveredIdx[id].  That the slice and the map hold the same IDs is     *)
(* part of ListsExact, proved in DiscoveredListsProofs.                    *)
(***************************************************************************)
EXTENDS ServiceStore

CONSTANTS
    Did,            \* IDs of discovered and ignored entries
    Addr,           \* IP:port pairs
    Info,           \* what a probe or label says of an entry: title, icon, time
    NoDid,          \* "no such entry" in discoveredContainerIdx
    NoEntry         \* discoveredIdx[id] == nil, ignoredIdx[id] == nil

\* A DiscoveredService.
Entry ==
    [addr   : Addr,
     source : {"docker", "network"},
     cid    : Cid \cup {NoCid},
     name   : CName \cup {NoName},
     info   : Info]

ASSUME ListsAssumption == NoDid \notin Did /\ NoEntry \notin Entry \cup Addr

VARIABLES
    discovered,             \* s.d.Discovered
    discoveredIdx,          \* entry ID -> the object
    discoveredContainerIdx, \* container ID -> entry
    ignored,                \* s.d.Ignored
    ignoredIdx,             \* entry ID -> the address it hides
    ignoredIPPortIdx        \* addresses hidden

listVars == <<discovered, discoveredIdx, discoveredContainerIdx,
              ignored, ignoredIdx, ignoredIPPortIdx>>
ignoredVars == <<ignored, ignoredIdx, ignoredIPPortIdx>>
discoveredVars == <<discovered, discoveredIdx, discoveredContainerIdx>>

\* GetDiscoveredByID, GetDiscoveredByContainerID and IsIgnored
IsListed(did) == discoveredIdx[did] # NoEntry

ContainerListed(cid) == discoveredContainerIdx[cid] # NoDid

IsIgnored(addr) == addr \in ignoredIPPortIdx

Unused(did) == did \notin discovered \cup ignored

-----------------------------------------------------------------------------
(* Discovered *)

indexDiscovered(did, entry) ==
    /\ discovered' = discovered \cup {did}
    /\ discoveredIdx' = Put(discoveredIdx, did, entry)
    /\ discoveredContainerIdx' = Put(discoveredContainerIdx, entry.cid, did)

\* The container map is left alone.
unlistMutant(dids) ==
    /\ discovered' = discovered \ dids
    /\ discoveredIdx' = [did \in Did |-> IF did \in dids THEN NoEntry
                                         ELSE discoveredIdx[did]]
    /\ UNCHANGED discoveredContainerIdx

\* unindexDiscovered and filterSlice
unlist(dids) ==
    /\ discovered' = discovered \ dids
    /\ discoveredIdx' = [did \in Did |-> IF did \in dids THEN NoEntry
                                         ELSE discoveredIdx[did]]
    /\ discoveredContainerIdx' =
           [cid \in Cid |->
                IF \E did \in dids : IsListed(did) /\ discoveredIdx[did].cid = cid
                THEN NoDid ELSE discoveredContainerIdx[cid]]

\* Refused for a container that has an entry, and for an address that has one.
AddRefused(entry) ==
    \/ entry.cid # NoCid /\ ContainerListed(entry.cid)
    \/ \E other \in discovered : discoveredIdx[other].addr = entry.addr

AddDiscovered(did, entry) ==
    IF AddRefused(entry) THEN UNCHANGED discoveredVars
                         ELSE indexDiscovered(did, entry)

RemoveDiscovered(did) == unlist({did} \cap discovered)

RemoveDiscoveredByContainerID(cid) ==
    unlist({did \in discovered : discoveredIdx[did].cid = cid})

NetworkEntries == {did \in discovered : discoveredIdx[did].source = "network"}

ClearNetworkDiscovered == unlist(NetworkEntries)

SameAddressMutant(addr) == {did \in NetworkEntries : discoveredIdx[did].cid # NoCid}

SameAddress(addr) == {did \in NetworkEntries : discoveredIdx[did].addr = addr}

\* An entry for the address keeps its ID and takes the new description; an
\* entry of a container for the same address does not count.
UpsertNetworkDiscovered(did, addr, info) ==
    IF SameAddress(addr) # {}
    THEN /\ \E old \in SameAddress(addr) :
                discoveredIdx' = [discoveredIdx EXCEPT ![old].info = info]
         /\ UNCHANGED <<discovered, discoveredContainerIdx>>
    ELSE indexDiscovered(did, [addr |-> addr, source |-> "network", cid |-> NoCid,
                               name |-> NoName, info |-> info])

-----------------------------------------------------------------------------
(* Ignored *)

IgnoreDiscovered(did) ==
    /\ IsListed(did)
    /\ unlist({did})
    /\ ignored' = ignored \cup {did}
    /\ ignoredIdx' = Put(ignoredIdx, did, discoveredIdx[did].addr)
    /\ ignoredIPPortIdx' = ignoredIPPortIdx \cup {discoveredIdx[did].addr}

\* unindexIgnored takes the address out of the map even if another ignored
\* entry has the same.
UnignoreService(did) ==
    /\ ignoredIdx[did] # NoEntry
    /\ ignored' = ignored \ {did}
    /\ ignoredIdx' = Put(ignoredIdx, did, NoEntry)
    /\ ignoredIPPortIdx' = ignoredIPPortIdx \ {ignoredIdx[did]}

\* The handler unignoreService lists the address again, as found by a scan
\* whatever it was; the container it may have belonged to is forgotten.
unignoreService(did, info) ==
    /\ UnignoreService(did)
    /\ AddDiscovered(did, [addr |-> ignoredIdx[did], source |-> "network",
                           cid |-> NoCid, name |-> NoName, info |-> info])

\* The lists' share of rebuildIndexes
rebuildListIndexes ==
    /\ discoveredIdx' = [did \in Did |-> IF did \in discovered
                                         THEN discoveredIdx[did] ELSE NoEntry]
    /\ discoveredContainerIdx' \in [Cid -> Did \cup {NoDid}]
    /\ \A cid \in Cid :
           LET holders == {did \in discovered : discoveredIdx[did].cid = cid} IN
           IF holders = {} THEN discoveredContainerIdx'[cid] = NoDid
                           ELSE discoveredContainerIdx'[cid] \in holders
    /\ ignoredIdx' = [did \in Did |-> IF did \in ignored
                                      THEN ignoredIdx[did] ELSE NoEntry]
    /\ ignoredIPPortIdx' = {ignoredIdx[did] : did \in ignored}
    /\ UNCHANGED <<discovered, ignored>>

-----------------------------------------------------------------------------
(* Specification of the lists for callers that respect the types of         *)
(* entries: a container's entry has its ID, a scanned one has none.         *)

ListsInit ==
    /\ discovered = {} /\ ignored = {}
    /\ discoveredIdx = [did \in Did |-> NoEntry]
    /\ discoveredContainerIdx = [cid \in Cid |-> NoDid]
    /\ ignoredIdx = [did \in Did |-> NoEntry]
    /\ ignoredIPPortIdx = {}

ContainerEntries == {e \in Entry : e.source = "docker" /\ e.cid # NoCid}

ListsNext ==
    \/ \E did \in Did, entry \in ContainerEntries :
           Unused(did) /\ AddDiscovered(did, entry) /\ UNCHANGED ignoredVars
    \/ \E did \in Did, addr \in Addr, info \in Info :
           /\ Unused(did)
           /\ UpsertNetworkDiscovered(did, addr, info)
           /\ UNCHANGED ignoredVars
    \/ \E did \in Did : RemoveDiscovered(did) /\ UNCHANGED ignoredVars
    \/ \E cid \in Cid : RemoveDiscoveredByContainerID(cid) /\ UNCHANGED ignoredVars
    \/ ClearNetworkDiscovered /\ UNCHANGED ignoredVars
    \/ \E did \in Did : IgnoreDiscovered(did)
    \/ \E did \in Did, info \in Info : unignoreService(did, info)
    \/ rebuildListIndexes

ListsSpec == ListsInit /\ [][ListsNext]_listVars

-----------------------------------------------------------------------------
(* Properties *)

\* The types of the lists and their maps.
ListsTypeOK ==
    /\ discovered \in SUBSET Did
    /\ discoveredIdx \in [Did -> Entry \cup {NoEntry}]
    /\ discoveredContainerIdx \in [Cid -> Did \cup {NoDid}]
    /\ ignored \in SUBSET Did
    /\ ignoredIdx \in [Did -> Addr \cup {NoEntry}]
    /\ ignoredIPPortIdx \in SUBSET Addr

\* The slice and the ID map hold the same entries.
SliceMatchesMap ==
    /\ \A did \in Did : did \in discovered <=> IsListed(did)
    /\ \A did \in Did : did \in ignored <=> ignoredIdx[did] # NoEntry

\* The container map finds exactly the entries that have a container ID.
ContainerMapExact ==
    \A did \in Did, cid \in Cid :
        discoveredContainerIdx[cid] = did
            <=> did \in discovered /\ discoveredIdx[did].cid = cid

\* Of two entries for one address, one is a container's and the other is not.
NoTwins ==
    \A d1, d2 \in discovered :
        /\ discoveredIdx[d1].addr = discoveredIdx[d2].addr
        /\ discoveredIdx[d1].source = discoveredIdx[d2].source
        => d1 = d2

\* No operation of the store, in any order, leaves a map pointing at an entry
\* that is off its slice or misses one that is on it (indexDiscovered and
\* unindexDiscovered are called by hand next to each change of the slice), no
\* entry is on both lists, an address is offered at most once per source, and
\* IsIgnored names only addresses on the list.
ListsExact ==
    /\ SliceMatchesMap
    /\ ContainerMapExact
    /\ discovered \cap ignored = {}
    /\ NoTwins
    /\ ignoredIPPortIdx \subseteq {ignoredIdx[did] : did \in ignored}
=============================================================================
