-------------------------- MODULE DockerWatchProofs -------------------------
(* Theorems about DockerWatch, for every value of its constants: any number *)
(* of containers, services, entries and concurrent requests.                *)
EXTENDS DockerWatch, ServiceStoreProofs, DiscoveredListsProofs

(***************************************************************************)
(* The inductive invariant: what ServiceStoreProofs and                    *)
(* DiscoveredListsProofs say of the store, what a request and the watcher  *)
(* hold of what they read, and where the end of a container is.            *)
(***************************************************************************)
\* What the services carry, UpdateService may write back.
AllAddable == \A id \in LiveIds : idIdx[id] \in Addable

\* An entry that no container made carries none.
Bare(entry) == entry.source # "docker" => entry.cid = NoCid /\ entry.name = NoName

StoreInv == TypeOK /\ IndexSound /\ AllAddable

EntriesInv == ListsInv /\ \A did \in discovered : Bare(discoveredIdx[did])

Event == [kind : {"start", "end"}, cid : Cid]

Resolved == {"name", "sub", "offer", "add"}

Label == {"off", "list", "sync", "watch", "delay", "forget", "reattach"} \cup Resolved

WatcherTyped ==
    /\ daemon \in [Cid -> {"none", "up", "down", "gone"}]
    /\ stream \in BOOLEAN
    /\ events \in Seq(Event)
    /\ pc \in Label
    /\ todo \in SUBSET Cid /\ loose \in SUBSET Cid
    /\ doubled \in SUBSET (CName \cup {NoName})
    /\ arrived \in SUBSET Id /\ missed \in Cid \cup {NoCid}

\* A container being upserted is resolved; the list from the start is worked
\* off before the first event is read.
JobHeld ==
    /\ pc \in {"off", "list", "sync", "watch"} => job.cid = NoCid
    /\ pc \in {"delay", "forget"} => job.cid \in Cid
    /\ pc \in Resolved =>
           /\ job.cid \in Cid
           /\ job.info.title \in CName /\ job.info.sub \in Sub /\ job.info.addr \in Addr
    /\ pc = "reattach" =>
           /\ job.cid \in Cid /\ job.id \in Id
           /\ job.svc \in Addable /\ job.svc.source = "docker" /\ job.svc.cid = job.cid
    /\ pc \in Resolved \cup {"reattach"} => job.back \in {"sync", "watch"}
    /\ pc \in {"watch", "delay", "forget"} => todo = {}
    /\ pc \in Resolved \cup {"reattach"} /\ job.back = "watch" => todo = {}

\* The service to be written back has kept its source if it is still there.
TargetHeld ==
    pc = "reattach" /\ Live(job.id) => idIdx[job.id].source = job.svc.source

\* What a request read has the types of what it writes; the service it edits
\* has kept its source if it is still there.
HeldBy(r) ==
    \/ r.op = "none"
    \/ /\ r.op = "assign"
       /\ r.did \in Did /\ r.sub \in Sub
       /\ r.entry \in Entry /\ Bare(r.entry)
    \/ r.op = "assigned" /\ r.did \in Did
    \/ /\ r.op = "edit"
       /\ r.id \in Id /\ r.svc \in Addable
       /\ Live(r.id) => idIdx[r.id].source = r.svc.source
    \/ r.op = "delete" /\ r.svc \in Addable

RequestsHeld ==
    /\ req = [u \in User |-> req[u]]
    /\ \A u \in User : HeldBy(req[u])

\* The map finds every service that has a container, as long as no two have
\* the same.
IndexHasAll ==
    \A id \in LiveIds : idIdx[id].cid \notin loose \cup {NoCid}
                            => containerIDIdx[idIdx[id].cid] = id

Start(cid) == [kind |-> "start", cid |-> cid]

End(cid) == [kind |-> "end", cid |-> cid]

NoStart(cid) == \A i \in DOMAIN events : events[i] # Start(cid)

\* The end is on its way, and no start behind it.
EndAwaited(cid) ==
    \E i \in DOMAIN events :
        events[i] = End(cid) /\ \A j \in DOMAIN events : events[j] = Start(cid) => j < i

\* No service has the container, and nobody can come up with it any more.
Freed(cid) ==
    /\ containerIDIdx[cid] = NoId
    /\ ~Holds(cid)
    /\ cid \notin todo
    /\ NoStart(cid)

\* No entry has it either.
Forgotten(cid) == Freed(cid) /\ ~ContainerListed(cid) /\ job.cid # cid

\* Its end is being handled, or has been.
Settled(cid) == (HalfDetached(cid) /\ Freed(cid)) \/ Forgotten(cid)

EndsHeard == \A cid \in Cid \ loose : Ended(cid) => EndAwaited(cid) \/ Settled(cid)

WatchInv ==
    /\ StoreInv /\ EntriesInv
    /\ WatcherTyped /\ JobHeld /\ TargetHeld /\ RequestsHeld
    /\ IndexHasAll /\ EndsHeard

-----------------------------------------------------------------------------
(* What resolveContainer comes up with *)

\* Of the ports Lantern prefers, those a container publishes have a first.
LEMMA FirstPreferred ==
    ASSUME NEW ranked \in SUBSET (1..11), ranked # {}
    PROVE  \E i \in ranked : \A j \in ranked : i <= j
<1>1. CASE 1 \in ranked \/ 2 \in ranked \/ 3 \in ranked
  BY <1>1
<1>2. CASE ~(1 \in ranked \/ 2 \in ranked \/ 3 \in ranked)
           /\ (4 \in ranked \/ 5 \in ranked \/ 6 \in ranked)
  BY <1>2
<1>3. CASE ~(1 \in ranked \/ 2 \in ranked \/ 3 \in ranked)
           /\ ~(4 \in ranked \/ 5 \in ranked \/ 6 \in ranked)
           /\ (7 \in ranked \/ 8 \in ranked \/ 9 \in ranked)
  BY <1>3
<1>4. CASE ~(1 \in ranked \/ 2 \in ranked \/ 3 \in ranked)
           /\ ~(4 \in ranked \/ 5 \in ranked \/ 6 \in ranked)
           /\ ~(7 \in ranked \/ 8 \in ranked \/ 9 \in ranked)
  <2>1. \A j \in ranked : j \in {10, 11}
    BY <1>4
  <2>2. PICK last \in ranked : TRUE
    OBVIOUS
  <2> QED BY <2>1, <2>2
<1> QED BY <1>1, <1>2, <1>3, <1>4

\* bestPort picks from what is published.
LEMMA BestPortIsPublished ==
    ASSUME NEW published PROVE bestPort(published) \subseteq published
<1> DEFINE ranked == {i \in DOMAIN preferred : preferred[i] \in published}
<1>1. CASE ranked = {}
  BY <1>1 DEF bestPort
<1>2. CASE ranked # {}
  <2>1. DOMAIN preferred = 1..11
    BY DEF preferred
  <2>2. ranked \in SUBSET (1..11)
    BY <2>1
  <2> DEFINE first == CHOOSE i \in ranked : \A j \in ranked : i <= j
  <2>3. first \in ranked
    <3> HIDE DEF ranked
    <3> QED BY <1>2, <2>2, FirstPreferred
  <2>4. preferred[first] \in published
    BY <2>3
  <2>5. bestPort(published) = {preferred[first]}
    BY <1>2 DEF bestPort
  <2> QED BY <2>4, <2>5
<1> QED BY <1>1, <1>2

\* Every outcome is a title, a subdomain and an address.
LEMMA ResolvedTypes ==
    ASSUME NEW cid \in Cid, NEW up, NEW info \in resolveContainer(cid, up)
    PROVE  info.title \in CName /\ info.sub \in Sub /\ info.addr \in Addr
<1> DEFINE c == Labels[cid]
<1>1. c \in Container
  BY DockerAssumption
<1>2. /\ info.title \in {IF c.title # NoName THEN c.title ELSE c.name}
      /\ info.sub \in Subdomains(c)
      /\ info.addr \in Addresses(c, up)
  BY DEF resolveContainer
<1>3. info.title \in CName
  BY <1>1, <1>2 DEF Container
<1>4. Subdomains(c) \subseteq Sub
  BY <1>1 DEF Subdomains, traefikSubdomain, Container
<1>5. bestPort(c.published) \subseteq Addr
  BY <1>1, BestPortIsPublished DEF Container, Port
<1>6. Addresses(c, up) \subseteq Addr
  BY <1>1, <1>5 DEF Addresses, traefikPort, Container, Port
<1> QED BY <1>2, <1>3, <1>4, <1>6

-----------------------------------------------------------------------------
(* What the store's operations do to the services and the container map *)

\* Every operation keeps types and lookups.
LEMMA StoreKeeps ==
    ASSUME StoreInv, [Next]_storeVars, AllAddable' PROVE StoreInv'
BY NextType, NextSubdomain, NextContainerID, NextContainerName DEF StoreInv, IndexSound

\* What leaves the services alone.
LEMMA StoreFrame ==
    ASSUME StoreInv, UNCHANGED storeVars
    PROVE  StoreInv' /\ LiveIds' = LiveIds
<1>1. AllAddable' /\ LiveIds' = LiveIds
  BY DEF StoreInv, AllAddable, storeVars, LiveIds, Live
<1> QED BY <1>1, StoreKeeps

\* AddService: the service has its container to itself, or the container is
\* loose.
LEMMA AddServiceKeeps ==
    ASSUME StoreInv, IndexHasAll, loose \in SUBSET Cid,
           NEW id \in Id, NEW svc \in Addable, AddService(id, svc), Attach(svc.cid, id)
    PROVE  /\ StoreInv' /\ IndexHasAll'
           /\ loose' \in SUBSET Cid /\ loose \subseteq loose'
           /\ \A cid \in Cid : containerIDIdx[cid] = NoId /\ cid # svc.cid
                                   => containerIDIdx'[cid] = NoId
           /\ \A i \in Id : idIdx'[i] = IF i = id THEN svc ELSE idIdx[i]
<1> USE DEF StoreInv
<1>0. svc \in Service /\ svc.cid \in Cid \cup {NoCid} /\ svc # NoService
  BY NoServiceAssumption DEF Addable, Service
<1>1. \A i \in Id : idIdx'[i] = IF i = id THEN svc ELSE idIdx[i]
  BY DEF AddService, Put, TypeOK
<1>2. LiveIds' = LiveIds \cup {id} /\ id \notin LiveIds
  BY <1>0, <1>1 DEF AddService, LiveIds, Live
<1>3. AllAddable'
  BY <1>1, <1>2 DEF AllAddable, LiveIds
<1>4. StoreInv'
  BY <1>3, StoreKeeps DEF Next
<1>5. loose' \in SUBSET Cid /\ loose \subseteq loose'
  BY <1>0 DEF Attach
<1>6. \A cid \in Cid : containerIDIdx'[cid] = IF cid = svc.cid THEN id ELSE containerIDIdx[cid]
  BY DEF AddService, IndexCid, Put, TypeOK
<1>7. IndexHasAll'
  <2> SUFFICES ASSUME NEW i \in LiveIds', idIdx'[i].cid \notin loose' \cup {NoCid}
               PROVE  containerIDIdx'[idIdx'[i].cid] = i
    BY DEF IndexHasAll
  <2>1. CASE i = id
    BY <1>0, <1>1, <1>6, <2>1
  <2>2. CASE i # id
    <3>1. i \in LiveIds /\ i \in Id /\ idIdx'[i] = idIdx[i]
      BY <1>1, <1>2, <2>2 DEF LiveIds
    <3>2. containerIDIdx[idIdx[i].cid] = i
      BY <1>5, <3>1 DEF IndexHasAll
    <3>3. idIdx[i].cid \in Cid
      BY <3>1 DEF TypeOK, LiveIds, Live, Service
    <3>4. idIdx[i].cid # svc.cid
      BY <2>2, <3>1, <3>2, <3>3, NullsAssumption DEF Attach
    <3> QED BY <1>6, <3>1, <3>2, <3>3, <3>4
  <2> QED BY <2>1, <2>2
<1> QED BY <1>1, <1>4, <1>5, <1>6, <1>7

\* UpdateService of a service that is there.
LEMMA UpdateServiceKeeps ==
    ASSUME StoreInv, IndexHasAll, loose \in SUBSET Cid,
           NEW id \in Id, Live(id), NEW svc \in Replacements(id),
           UpdateService(id, svc), Attach(svc.cid, id)
    PROVE  /\ StoreInv' /\ IndexHasAll'
           /\ loose' \in SUBSET Cid /\ loose \subseteq loose'
           /\ \A cid \in Cid : containerIDIdx[cid] = NoId /\ cid # svc.cid
                                   => containerIDIdx'[cid] = NoId
           /\ \A i \in Id : idIdx'[i] = IF i = id THEN svc ELSE idIdx[i]
<1> USE DEF StoreInv
<1>0. /\ svc \in Service /\ svc.cid \in Cid \cup {NoCid} /\ svc # NoService
      /\ svc \in Addable
  BY NoServiceAssumption DEF Replacements, Addable, Service
<1>1. \A i \in Id : idIdx'[i] = IF i = id THEN svc ELSE idIdx[i]
  BY DEF UpdateService, Put, TypeOK
<1>2. LiveIds' = LiveIds /\ id \in LiveIds
  BY <1>0, <1>1 DEF LiveIds, Live
<1>3. AllAddable'
  BY <1>0, <1>1, <1>2 DEF AllAddable, LiveIds
<1>4. StoreInv'
  BY <1>3, StoreKeeps DEF Next
<1>5. loose' \in SUBSET Cid /\ loose \subseteq loose'
  BY <1>0 DEF Attach
<1>6. \A cid \in Cid : containerIDIdx'[cid] =
          IF cid = svc.cid THEN id
          ELSE IF cid = idIdx[id].cid THEN NoId ELSE containerIDIdx[cid]
  BY DEF UpdateService, IndexCid, UnindexCid, Put, TypeOK
<1>7. IndexHasAll'
  <2> SUFFICES ASSUME NEW i \in LiveIds', idIdx'[i].cid \notin loose' \cup {NoCid}
               PROVE  containerIDIdx'[idIdx'[i].cid] = i
    BY DEF IndexHasAll
  <2>1. CASE i = id
    BY <1>0, <1>1, <1>6, <2>1
  <2>2. CASE i # id
    <3>1. i \in LiveIds /\ i \in Id /\ idIdx'[i] = idIdx[i]
      BY <1>1, <1>2, <2>2 DEF LiveIds
    <3>2. containerIDIdx[idIdx[i].cid] = i
      BY <1>5, <3>1 DEF IndexHasAll
    <3>3. idIdx[i].cid \in Cid
      BY <3>1 DEF TypeOK, LiveIds, Live, Service
    <3>4. idIdx[i].cid # svc.cid
      BY <2>2, <3>1, <3>2, <3>3, NullsAssumption DEF Attach
    <3>5. idIdx[i].cid # idIdx[id].cid
      BY <1>2, <1>5, <2>2, <3>1, <3>2, <3>3, NullsAssumption DEF IndexHasAll
    <3> QED BY <1>6, <3>1, <3>2, <3>3, <3>4, <3>5
  <2> QED BY <2>1, <2>2
<1> QED BY <1>1, <1>4, <1>5, <1>6, <1>7
\* An operation that gives no service a container: no other service comes to
\* be found by it, and sources stay.
OnlyLoses ==
    /\ \A cid \in Cid \ loose : containerIDIdx[cid] = NoId => containerIDIdx'[cid] = NoId
    /\ \A id \in Id : Live(id)' => Live(id) /\ idIdx'[id].source = idIdx[id].source

\* DeleteService.
LEMMA DeleteServiceKeeps ==
    ASSUME StoreInv, IndexHasAll, NEW id \in Id, Live(id), DeleteService(id), loose' = loose
    PROVE  StoreInv' /\ IndexHasAll' /\ OnlyLoses
<1> USE DEF StoreInv
<1>1. \A i \in Id : idIdx'[i] = IF i = id THEN NoService ELSE idIdx[i]
  BY DEF DeleteService, Put, TypeOK
<1>2. LiveIds' = LiveIds \ {id} /\ id \in LiveIds
  BY <1>1 DEF LiveIds, Live
<1>3. AllAddable'
  BY <1>1, <1>2 DEF AllAddable, LiveIds
<1>4. StoreInv'
  BY <1>3, StoreKeeps DEF Next
<1>5. \A cid \in Cid : containerIDIdx'[cid] =
          IF cid = idIdx[id].cid THEN NoId ELSE containerIDIdx[cid]
  BY DEF DeleteService, UnindexCid, Put, TypeOK
<1>6. IndexHasAll'
  <2> SUFFICES ASSUME NEW i \in LiveIds', idIdx'[i].cid \notin loose \cup {NoCid}
               PROVE  containerIDIdx'[idIdx'[i].cid] = i
    BY DEF IndexHasAll
  <2>1. i \in LiveIds /\ i \in Id /\ i # id /\ idIdx'[i] = idIdx[i]
    BY <1>1, <1>2 DEF LiveIds
  <2>2. containerIDIdx[idIdx[i].cid] = i
    BY <2>1 DEF IndexHasAll
  <2>3. idIdx[i].cid \in Cid
    BY <2>1 DEF TypeOK, LiveIds, Live, Service
  <2>4. idIdx[i].cid # idIdx[id].cid
    BY <1>2, <2>1, <2>2, <2>3 DEF IndexHasAll
  <2> QED BY <1>5, <2>1, <2>2, <2>3, <2>4
<1> QED BY <1>1, <1>4, <1>5, <1>6 DEF OnlyLoses, Live

\* ClearContainerID.
LEMMA ClearKeeps ==
    ASSUME StoreInv, IndexHasAll, NEW cid \in Cid, ClearContainerID(cid),
           loose \subseteq loose'
    PROVE  StoreInv' /\ IndexHasAll' /\ OnlyLoses /\ containerIDIdx'[cid] = NoId
<1>1. CASE containerIDIdx[cid] = NoId
  <2>1. UNCHANGED storeVars
    BY <1>1 DEF ClearContainerID
  <2>2. IndexHasAll'
    BY <2>1 DEF storeVars, IndexHasAll, LiveIds, Live
  <2> QED BY <1>1, <2>1, <2>2, StoreFrame DEF OnlyLoses, storeVars, Live
<1>2. CASE containerIDIdx[cid] # NoId
  <2> USE DEF StoreInv
  <2>1. PICK id \in Id : id = containerIDIdx[cid]
    BY <1>2 DEF TypeOK
  <2>2. Live(id) /\ idIdx[id].cid = cid /\ idIdx[id] \in Addable
    BY <1>2, <2>1 DEF IndexSound, ContainerIDSound, AllAddable, LiveIds
  <2>3. PICK svc : svc = [idIdx[id] EXCEPT !.cid = NoCid]
    OBVIOUS
  <2>4. /\ svc \in Addable /\ svc.cid = NoCid /\ svc.source = idIdx[id].source
        /\ svc # NoService
    BY <2>2, <2>3, NoServiceAssumption DEF Addable, Service
  <2>5. \A i \in Id : idIdx'[i] = IF i = id THEN svc ELSE idIdx[i]
    BY <1>2, <2>1, <2>3 DEF ClearContainerID, Put, TypeOK
  <2>6. \A c \in Cid : containerIDIdx'[c] = IF c = cid THEN NoId ELSE containerIDIdx[c]
    BY <1>2 DEF ClearContainerID, Put, TypeOK
  <2>7. LiveIds' = LiveIds
    BY <2>2, <2>4, <2>5 DEF LiveIds, Live
  <2>8. AllAddable'
    BY <2>4, <2>5, <2>7 DEF AllAddable, LiveIds
  <2>9. StoreInv'
    BY <2>8, StoreKeeps DEF Next
  <2>10. IndexHasAll'
    <3> SUFFICES ASSUME NEW i \in LiveIds', idIdx'[i].cid \notin loose' \cup {NoCid}
                 PROVE  containerIDIdx'[idIdx'[i].cid] = i
      BY DEF IndexHasAll
    <3>1. i \in LiveIds /\ i \in Id /\ i # id /\ idIdx'[i] = idIdx[i]
      BY <2>4, <2>5, <2>7 DEF LiveIds
    <3>2. containerIDIdx[idIdx[i].cid] = i
      BY <3>1 DEF IndexHasAll
    <3>3. idIdx[i].cid \in Cid
      BY <3>1 DEF TypeOK, LiveIds, Live, Service
    <3> QED BY <2>1, <2>6, <3>1, <3>2, <3>3
  <2>11. OnlyLoses
    BY <2>2, <2>4, <2>5, <2>6 DEF OnlyLoses, Live
  <2> QED BY <2>6, <2>9, <2>10, <2>11
<1> QED BY <1>1, <1>2

\* A restart: the map is made anew from the services saved.
LEMMA RebuildServicesKeeps ==
    ASSUME StoreInv, IndexHasAll, rebuildIndexes, loose \subseteq loose'
    PROVE  StoreInv' /\ IndexHasAll' /\ OnlyLoses
<1> USE DEF StoreInv
<1>1. \A i \in Id : idIdx'[i] = IF i \in Saved THEN idIdx[i] ELSE NoService
  BY DEF rebuildIndexes
<1>2. LiveIds' = Saved /\ Saved \subseteq LiveIds /\ LiveIds \subseteq Id
  BY <1>1 DEF Saved, LiveIds, Live
<1>3. AllAddable'
  BY <1>1, <1>2 DEF AllAddable
<1>4. StoreInv'
  BY <1>3, StoreKeeps DEF Next
<1>5. IndexHasAll'
  <2> SUFFICES ASSUME NEW i \in LiveIds', idIdx'[i].cid \notin loose' \cup {NoCid}
               PROVE  containerIDIdx'[idIdx'[i].cid] = i
    BY DEF IndexHasAll
  <2>1. i \in Saved /\ i \in LiveIds /\ i \in Id /\ idIdx'[i] = idIdx[i]
    BY <1>1, <1>2
  <2>2. PICK cid \in Cid : cid = idIdx[i].cid /\ cid \notin loose
    BY <2>1 DEF TypeOK, LiveIds, Live, Service
  <2>3. PICK holders : holders = {id \in Saved : idIdx[id].cid = cid}
    OBVIOUS
  <2>4. i \in holders
    BY <2>1, <2>2, <2>3
  <2>5. containerIDIdx'[cid] \in holders
    BY <2>3, <2>4 DEF rebuildIndexes, IsRebuiltCidIdx
  <2>6. \A other \in holders : other = i
    BY <1>2, <2>1, <2>2, <2>3, NullsAssumption DEF IndexHasAll
  <2> QED BY <2>1, <2>2, <2>5, <2>6
<1>6. \A cid \in Cid \ loose : containerIDIdx[cid] = NoId => containerIDIdx'[cid] = NoId
  <2> SUFFICES ASSUME NEW cid \in Cid \ loose, containerIDIdx[cid] = NoId
               PROVE  containerIDIdx'[cid] = NoId
    OBVIOUS
  <2>1. {id \in Saved : idIdx[id].cid = cid} = {}
    BY <1>2, NullsAssumption DEF IndexHasAll
  <2> QED BY <2>1 DEF rebuildIndexes, IsRebuiltCidIdx
<1> QED BY <1>1, <1>2, <1>4, <1>5, <1>6 DEF OnlyLoses, Live

-----------------------------------------------------------------------------
(* What the operations do to the discovered list *)

\* What leaves the lists alone.
LEMMA EntriesFrame ==
    ASSUME EntriesInv, UNCHANGED listVars
    PROVE  EntriesInv'
BY ListsNextKeeps DEF EntriesInv, listVars

\* unlist takes entries off the list and adds none.
LEMMA UnlistLeaves ==
    ASSUME EntriesInv, NEW dids \in SUBSET Did, unlist(dids)
    PROVE  /\ DiscoveredInv' /\ discovered' = discovered \ dids
           /\ \A did \in discovered' : Bare(discoveredIdx'[did])
           /\ \A cid \in Cid : ~ContainerListed(cid) => ~ContainerListed(cid)'
<1>1. DiscoveredInv /\ discovered \subseteq Did
  BY DEF EntriesInv, ListsInv, DiscoveredInv, DiscoveredTypeOK
<1>2. DiscoveredInv' /\ discovered' = discovered \ dids
  BY <1>1, UnlistKeeps
<1>3. \A did \in discovered' : discoveredIdx'[did] = discoveredIdx[did]
  BY <1>1, <1>2 DEF unlist
<1>4. \A cid \in Cid : discoveredContainerIdx'[cid] \in {NoDid, discoveredContainerIdx[cid]}
  BY DEF unlist
<1> QED BY <1>2, <1>3, <1>4 DEF EntriesInv, ContainerListed

\* AddDiscovered lists at most the entry it is given.
LEMMA AddLists ==
    ASSUME EntriesInv, NEW did \in Did, did \notin discovered,
           NEW entry \in Entry, Bare(entry), AddDiscovered(did, entry)
    PROVE  /\ DiscoveredInv' /\ discovered' \subseteq discovered \cup {did}
           /\ \A d \in discovered' : Bare(discoveredIdx'[d])
           /\ \A cid \in Cid : ~ContainerListed(cid) /\ cid # entry.cid
                                   => ~ContainerListed(cid)'
<1>1. DiscoveredInv
  BY DEF EntriesInv, ListsInv
<1>2. DiscoveredInv' /\ discovered' \subseteq discovered \cup {did}
  BY <1>1, AddKeeps
<1>3. CASE AddRefused(entry)
  BY <1>2, <1>3 DEF AddDiscovered, discoveredVars, EntriesInv, ContainerListed
<1>4. CASE ~AddRefused(entry)
  <2>1. \A d \in Did : discoveredIdx'[d] = IF d = did THEN entry ELSE discoveredIdx[d]
    BY <1>1, <1>4 DEF AddDiscovered, indexDiscovered, Put, DiscoveredInv, DiscoveredTypeOK
  <2>2. \A cid \in Cid : discoveredContainerIdx'[cid] =
            IF cid = entry.cid THEN did ELSE discoveredContainerIdx[cid]
    BY <1>1, <1>4 DEF AddDiscovered, indexDiscovered, Put, DiscoveredInv, DiscoveredTypeOK
  <2>3. \A d \in discovered' : d \in Did /\ Bare(discoveredIdx'[d])
    BY <1>1, <1>2, <2>1 DEF EntriesInv, DiscoveredInv, DiscoveredTypeOK
  <2> QED BY <1>2, <2>2, <2>3 DEF ContainerListed
<1> QED BY <1>3, <1>4

\* Lists kept as ListsNext keeps them.
LEMMA EntriesKeep ==
    ASSUME EntriesInv, [ListsNext]_listVars, \A did \in discovered' : Bare(discoveredIdx'[did])
    PROVE  EntriesInv'
BY ListsNextKeeps DEF EntriesInv
-----------------------------------------------------------------------------
(* The queue of events and the requests *)

\* The events of a container are two, and differ from those of others.
LEMMA EventsDiffer ==
    ASSUME NEW c \in Cid, NEW d \in Cid
    PROVE  /\ Start(c) \in Event /\ End(c) \in Event
           /\ Start(c) # End(d)
           /\ c # d => Start(c) # Start(d) /\ End(c) # End(d)
<1>1. Start(c).kind = "start" /\ End(d).kind = "end"
  BY DEF Start, End
<1>2. Start(c).cid = c /\ End(c).cid = c /\ Start(d).cid = d /\ End(d).cid = d
  BY DEF Start, End
<1> QED BY <1>1, <1>2 DEF Start, End, Event

\* An event goes to the end of the queue.
LEMMA Appended ==
    ASSUME events \in Seq(Event), NEW e \in Event, events' = Append(events, e),
           NEW cid \in Cid, e # Start(cid)
    PROVE  /\ events' \in Seq(Event)
           /\ EndAwaited(cid) => EndAwaited(cid)'
           /\ NoStart(cid) => NoStart(cid)'
           /\ e = End(cid) => EndAwaited(cid)'
<1>1. /\ events' \in Seq(Event) /\ Len(events) \in Nat
      /\ DOMAIN events = 1..Len(events) /\ DOMAIN events' = 1..Len(events) + 1
      /\ \A i \in 1..Len(events) : events'[i] = events[i]
      /\ events'[Len(events) + 1] = e
  OBVIOUS
<1>2. EndAwaited(cid) => EndAwaited(cid)'
  <2> SUFFICES ASSUME NEW i \in DOMAIN events, events[i] = End(cid),
                      \A j \in DOMAIN events : events[j] = Start(cid) => j < i
               PROVE  EndAwaited(cid)'
    BY DEF EndAwaited
  <2>1. i \in DOMAIN events' /\ events'[i] = End(cid)
    BY <1>1
  <2>2. \A j \in DOMAIN events' : events'[j] = Start(cid) => j < i
    BY <1>1
  <2> QED BY <2>1, <2>2 DEF EndAwaited, Start, End
<1>3. NoStart(cid) => NoStart(cid)'
  BY <1>1 DEF NoStart, Start
<1>4. ASSUME e = End(cid) PROVE EndAwaited(cid)'
  <2>1. Len(events) + 1 \in DOMAIN events' /\ events'[Len(events) + 1] = End(cid)
    BY <1>1, <1>4
  <2>2. \A j \in DOMAIN events' : events'[j] = Start(cid) => j < Len(events) + 1
    BY <1>1
  <2> QED BY <2>1, <2>2 DEF EndAwaited, Start, End
<1> QED BY <1>1, <1>2, <1>3, <1>4

\* The first event is taken.
LEMMA Taken ==
    ASSUME events \in Seq(Event), events # <<>>, events' = Tail(events), NEW cid \in Cid
    PROVE  /\ events' \in Seq(Event) /\ Head(events) \in Event
           /\ NoStart(cid) => NoStart(cid)' /\ Head(events) # Start(cid)
           /\ EndAwaited(cid) /\ Head(events) # End(cid) => EndAwaited(cid)'
           /\ EndAwaited(cid) => EndAwaited(cid)' \/ NoStart(cid)'
<1>1. /\ events' \in Seq(Event) /\ Head(events) = events[1] /\ Head(events) \in Event
      /\ Len(events) \in Nat \ {0} /\ DOMAIN events = 1..Len(events)
      /\ DOMAIN events' = 1..Len(events) - 1
      /\ \A i \in 1..Len(events) - 1 : events'[i] = events[i + 1]
  OBVIOUS
<1>2. NoStart(cid) => NoStart(cid)' /\ Head(events) # Start(cid)
  BY <1>1 DEF NoStart, Start
<1>3. ASSUME NEW i \in DOMAIN events, events[i] = End(cid), i # 1,
             \A j \in DOMAIN events : events[j] = Start(cid) => j < i
      PROVE  EndAwaited(cid)'
  <2>1. i - 1 \in DOMAIN events' /\ events'[i - 1] = End(cid)
    BY <1>1, <1>3
  <2>2. \A j \in DOMAIN events' : events'[j] = Start(cid) => j < i - 1
    BY <1>1, <1>3
  <2> QED BY <2>1, <2>2 DEF EndAwaited, Start, End
<1>4. ASSUME EndAwaited(cid)
      PROVE  /\ Head(events) # End(cid) => EndAwaited(cid)'
             /\ EndAwaited(cid)' \/ NoStart(cid)'
  <2>1. PICK i \in DOMAIN events :
            events[i] = End(cid) /\ \A j \in DOMAIN events : events[j] = Start(cid) => j < i
    BY <1>4 DEF EndAwaited
  <2>2. CASE i # 1
    BY <1>3, <2>1, <2>2
  <2>3. CASE i = 1
    BY <1>1, <2>1, <2>3 DEF NoStart, Start
  <2> QED BY <2>2, <2>3
<1> QED BY <1>1, <1>2, <1>4

\* A request's share of the invariant survives what gives no ID away.
LEMMA RequestsStay ==
    ASSUME RequestsHeld, UNCHANGED req,
           \A id \in Id : Live(id)' => \/ Live(id) /\ idIdx'[id].source = idIdx[id].source
                                       \/ \A u \in User : req[u].op = "edit" => req[u].id # id
    PROVE  RequestsHeld' /\ \A cid \in Cid : Holds(cid)' = Holds(cid)
<1>1. \A u \in User : HeldBy(req[u])'
  BY DEF RequestsHeld, HeldBy
<1> QED BY <1>1 DEF RequestsHeld, Holds

\* A request begins, goes on or ends.
LEMMA RequestsStep ==
    ASSUME RequestsHeld, NEW u \in User, NEW r, req' = [req EXCEPT ![u] = r], HeldBy(r)',
           \A id \in Id : Live(id)' =>
               \/ Live(id) /\ idIdx'[id].source = idIdx[id].source
               \/ \A v \in User : req[v].op = "edit" => req[v].id # id
    PROVE  /\ RequestsHeld'
           /\ \A cid \in Cid : ~Holds(cid) =>
                  \/ ~Holds(cid)'
                  \/ r.op = "assign" /\ r.entry.cid = cid
                  \/ r.op \in {"edit", "delete"} /\ r.svc.cid = cid
<1>1. \A v \in User : req'[v] = IF v = u THEN r ELSE req[v]
  BY DEF RequestsHeld
<1>2. req' = [v \in User |-> req'[v]]
  BY DEF RequestsHeld
<1>3. ASSUME NEW v \in User PROVE HeldBy(req[v])'
  <2>1. CASE v = u
    BY <1>1, <2>1 DEF HeldBy
  <2>2. CASE v # u
    BY <1>1, <2>2 DEF RequestsHeld, HeldBy
  <2> QED BY <2>1, <2>2
<1> QED BY <1>1, <1>2, <1>3 DEF RequestsHeld, Holds

\* A step that leaves the containers and the events alone.
LEMMA EndsStay ==
    ASSUME EndsHeard, UNCHANGED <<daemon, events>>, loose \subseteq loose',
           \A cid \in Cid \ loose' : Settled(cid) => Settled(cid)'
    PROVE  EndsHeard'
BY DEF EndsHeard, Ended, EndAwaited

\* What the watcher is about to write back is of the service's kind.
LEMMA TargetStays ==
    ASSUME TargetHeld, UNCHANGED <<pc, job>>,
           \A id \in Id : Live(id)' => \/ Live(id) /\ idIdx'[id].source = idIdx[id].source
                                       \/ pc = "reattach" => job.id # id,
           pc = "reattach" => job.id \in Id
    PROVE  TargetHeld'
BY DEF TargetHeld

\* A step that leaves the store and the requests alone.
LEMMA QuietKeeps ==
    ASSUME WatchInv, UNCHANGED <<storeVars, listVars, req>>, loose \subseteq loose'
    PROVE  /\ StoreInv' /\ EntriesInv' /\ RequestsHeld' /\ IndexHasAll'
           /\ \A cid \in Cid : Holds(cid)' = Holds(cid)
           /\ \A cid \in Cid : ContainerListed(cid)' = ContainerListed(cid)
           /\ UNCHANGED <<containerIDIdx, idIdx>>
<1>1. StoreInv' /\ EntriesInv'
  BY StoreFrame, EntriesFrame DEF WatchInv
<1>2. RequestsHeld' /\ \A cid \in Cid : Holds(cid)' = Holds(cid)
  BY RequestsStay DEF WatchInv, storeVars, Live
<1>3. IndexHasAll'
  BY DEF WatchInv, IndexHasAll, storeVars, LiveIds, Live
<1> QED BY <1>1, <1>2, <1>3 DEF storeVars, listVars, ContainerListed

\* A container stays settled where the watcher is, if no start comes in.
LEMMA StaysSettled ==
    ASSUME WatchInv, UNCHANGED <<storeVars, listVars, req, watcherVars>>,
           loose \subseteq loose', NEW cid \in Cid, Settled(cid), NoStart(cid)'
    PROVE  Settled(cid)'
BY QuietKeeps DEF Settled, HalfDetached, Forgotten, Freed, watcherVars
-----------------------------------------------------------------------------
(* The daemon: what happens to one container *)

\* The part of the invariant that the daemon's actions leave alone.
LEMMA DaemonFrame ==
    ASSUME WatchInv, UNCHANGED <<storeVars, listVars, watcherVars, req, doubled, arrived, missed>>,
           stream' \in BOOLEAN,
           loose \subseteq loose', loose' \in SUBSET Cid,
           daemon' \in [Cid -> {"none", "up", "down", "gone"}],
           events' \in Seq(Event), EndsHeard'
    PROVE  WatchInv'
<1>1. /\ StoreInv' /\ EntriesInv' /\ RequestsHeld' /\ IndexHasAll'
      /\ idIdx' = idIdx
  BY QuietKeeps
<1>2. WatcherTyped' /\ JobHeld'
  BY DEF WatchInv, WatcherTyped, JobHeld, watcherVars
<1>3. TargetHeld'
  BY <1>1 DEF WatchInv, TargetHeld, Live, watcherVars
<1> QED BY <1>1, <1>2, <1>3 DEF WatchInv

\* A container that is up has no end to be heard; its start goes to the end of
\* the queue.
LEMMA RunKeeps == ASSUME WatchInv, NEW cid \in Cid, Run(cid) PROVE WatchInv'
<1> USE DEF Run, Happens, Emit
<1>1. daemon' = [daemon EXCEPT ![cid] = "up"] /\ loose' = loose
  OBVIOUS
<1>2. /\ daemon' \in [Cid -> {"none", "up", "down", "gone"}]
      /\ \A c \in Cid : daemon'[c] = IF c = cid THEN "up" ELSE daemon[c]
  BY <1>1 DEF WatchInv, WatcherTyped
<1>3. events' = events \/ events' = Append(events, Start(cid))
  BY DEF Start
<1>4. events \in Seq(Event) /\ Start(cid) \in Event
  BY EventsDiffer DEF WatchInv, WatcherTyped
<1>5. events' \in Seq(Event)
  BY <1>3, <1>4
<1>6. ASSUME NEW c \in Cid \ loose', Ended(c)'
      PROVE  EndAwaited(c)' \/ Settled(c)'
  <2>1. c # cid /\ Ended(c) /\ c \notin loose
    BY <1>1, <1>2, <1>6 DEF Ended
  <2>2. Start(cid) # Start(c)
    BY <2>1, EventsDiffer
  <2>3. (EndAwaited(c) => EndAwaited(c)') /\ (NoStart(c) => NoStart(c)')
    <3>1. CASE events' = events
      BY <3>1 DEF EndAwaited, NoStart
    <3>2. CASE events' = Append(events, Start(cid))
      BY <1>4, <2>2, <3>2, Appended
    <3> QED BY <1>3, <3>1, <3>2
  <2>4. Settled(c) => Settled(c)'
    BY <1>1, <2>3, StaysSettled DEF Settled, Forgotten, Freed
  <2> QED BY <2>1, <2>3, <2>4 DEF WatchInv, EndsHeard
<1>7. EndsHeard'
  BY <1>6 DEF EndsHeard
<1> QED BY <1>1, <1>2, <1>5, <1>7, DaemonFrame DEF WatchInv, WatcherTyped

\* What ends sends its end, or is loose if nobody listens.
LEMMA EndKeeps ==
    ASSUME WatchInv, NEW cid \in Cid, Exit(cid) \/ Remove(cid) \/ Signal(cid)
    PROVE  WatchInv'
<1> USE DEF Exit, Remove, Signal, Happens, Emit
<1>1. PICK state \in {"up", "down", "gone"} : daemon' = [daemon EXCEPT ![cid] = state]
  OBVIOUS
<1>2. /\ daemon' \in [Cid -> {"none", "up", "down", "gone"}]
      /\ \A c \in Cid : daemon'[c] = IF c = cid THEN state ELSE daemon[c]
  BY <1>1 DEF WatchInv, WatcherTyped
<1>3. events' = IF stream THEN Append(events, End(cid)) ELSE events
  BY DEF End
<1>4. events \in Seq(Event) /\ End(cid) \in Event
  BY EventsDiffer DEF WatchInv, WatcherTyped
<1>5. events' \in Seq(Event)
  BY <1>3, <1>4
<1>6. loose \subseteq loose' /\ loose' \in SUBSET Cid
  BY DEF WatchInv, WatcherTyped
<1>7. ASSUME NEW c \in Cid \ loose', Ended(c)'
      PROVE  EndAwaited(c)' \/ Settled(c)'
  <2>1. End(cid) # Start(c)
    BY EventsDiffer
  <2>2. (EndAwaited(c) => EndAwaited(c)') /\ (NoStart(c) => NoStart(c)')
    <3>1. CASE ~stream
      BY <1>3, <3>1 DEF EndAwaited, NoStart
    <3>2. CASE stream
      BY <1>3, <1>4, <2>1, <3>2, Appended
    <3> QED BY <3>1, <3>2
  <2>3. Settled(c) => Settled(c)'
    BY <1>6, <2>2, StaysSettled DEF Settled, Forgotten, Freed
  <2>4. CASE Ended(c)
    BY <1>6, <1>7, <2>2, <2>3, <2>4 DEF WatchInv, EndsHeard
  <2>5. CASE ~Ended(c)
    <3>1. c = cid /\ state # "up" /\ daemon[c] \notin {"down", "gone"}
      BY <1>2, <1>7, <2>5 DEF Ended
    <3>2. stream
      BY <1>1, <1>2, <1>7, <3>1
    <3>3. EndAwaited(c)'
      BY <1>3, <1>4, <2>1, <3>1, <3>2, Appended
    <3> QED BY <3>3
  <2> QED BY <2>4, <2>5
<1>8. EndsHeard'
  BY <1>7 DEF EndsHeard
<1>9. UNCHANGED <<storeVars, listVars, watcherVars, req, stream, doubled, arrived, missed>>
  OBVIOUS
<1> QED BY <1>2, <1>5, <1>6, <1>8, <1>9, DaemonFrame DEF WatchInv, WatcherTyped

\* Ends that were on their way are not heard.
LEMMA LostEvents ==
    ASSUME WatchInv, NEW handled \in SUBSET Cid, LoseEvents(handled)
    PROVE  /\ events' \in Seq(Event)
           /\ loose' \in SUBSET Cid /\ loose \cup handled \subseteq loose'
           /\ \A cid \in Cid \ loose' : NoStart(cid)' /\ (Ended(cid) => Settled(cid))
<1> USE DEF LoseEvents
<1>1. events' = <<>> /\ \A cid \in Cid : NoStart(cid)'
  BY DEF NoStart
<1>2. loose' \in SUBSET Cid /\ loose \cup handled \subseteq loose'
  BY DEF WatchInv, WatcherTyped
<1>3. ASSUME NEW cid \in Cid \ loose', Ended(cid) PROVE Settled(cid)
  <2>1. cid \notin loose /\ ~EndAwaited(cid)
    BY <1>2, <1>3 DEF EndAwaited, EndOnItsWay, End
  <2> QED BY <1>3, <2>1 DEF WatchInv, EndsHeard
<1>4. events' \in Seq(Event)
  BY <1>1
<1> QED BY <1>1, <1>2, <1>3, <1>4

\* A stream that breaks loses the ends in it; their containers are loose from then on.
LEMMA BreakKeeps == ASSUME WatchInv, StreamBreaks PROVE WatchInv'
<1> USE DEF StreamBreaks
<1>1. /\ LoseEvents({}) /\ stream' = FALSE
      /\ UNCHANGED <<storeVars, listVars, daemon, watcherVars, req, doubled, arrived, missed>>
  OBVIOUS
<1>2. /\ events' \in Seq(Event)
      /\ loose' \in SUBSET Cid /\ loose \subseteq loose'
      /\ \A cid \in Cid \ loose' : NoStart(cid)' /\ (Ended(cid) => Settled(cid))
  <2>1. PICK handled \in SUBSET Cid : handled = {} /\ LoseEvents(handled)
    BY <1>1
  <2> QED BY <2>1, LostEvents
<1>3. EndsHeard'
  BY <1>1, <1>2, StaysSettled DEF EndsHeard, Ended
<1> QED BY <1>1, <1>2, <1>3, DaemonFrame DEF WatchInv, WatcherTyped

\* A restart rebuilds the maps from what was saved; requests are gone.
LEMMA RestartKeeps == ASSUME WatchInv, Restart PROVE WatchInv'
<1> USE DEF Restart
<1>1. /\ events' \in Seq(Event)
      /\ loose' \in SUBSET Cid /\ loose \subseteq loose'
      /\ \A cid \in Cid \ loose' : NoStart(cid)' /\ (Ended(cid) => Forgotten(cid))
  <2>1. PICK handled \in SUBSET Cid :
            handled = {cid \in Cid : HalfDetached(cid)} /\ LoseEvents(handled)
    OBVIOUS
  <2>2. /\ events' \in Seq(Event)
        /\ loose' \in SUBSET Cid /\ loose \cup handled \subseteq loose'
        /\ \A cid \in Cid \ loose' : NoStart(cid)' /\ (Ended(cid) => Settled(cid))
    BY <2>1, LostEvents
  <2> QED BY <2>1, <2>2 DEF Settled
<1>2. StoreInv' /\ IndexHasAll' /\ OnlyLoses
  BY <1>1, RebuildServicesKeeps DEF WatchInv
<1>3. EntriesInv' /\ \A cid \in Cid : ~ContainerListed(cid) => ~ContainerListed(cid)'
  <2>1. ListsInv /\ DiscoveredInv
    BY DEF WatchInv, EntriesInv, ListsInv
  <2>2. \A did \in discovered' : discoveredIdx'[did] = discoveredIdx[did]
    BY <2>1 DEF rebuildListIndexes, DiscoveredInv, DiscoveredTypeOK
  <2>3. discovered' = discovered
    BY DEF rebuildListIndexes
  <2>4. EntriesInv'
    BY <2>2, <2>3, EntriesKeep DEF WatchInv, EntriesInv, ListsNext
  <2>5. ASSUME NEW cid \in Cid, ~ContainerListed(cid) PROVE ~ContainerListed(cid)'
    <3>1. {did \in discovered : discoveredIdx[did].cid = cid} = {}
      BY <2>1, <2>5, ListsAssumption
         DEF ContainerListed, DiscoveredInv, DiscoveredTypeOK, ContainerMapExact
    <3> QED BY <3>1 DEF rebuildListIndexes, ContainerListed
  <2> QED BY <2>4, <2>5
<1>4. RequestsHeld' /\ \A cid \in Cid : ~Holds(cid)'
  BY DEF RequestsHeld, HeldBy, Idle, Holds
<1>5. WatcherTyped' /\ JobHeld' /\ TargetHeld'
  BY <1>1 DEF WatchInv, WatcherTyped, JobHeld, TargetHeld, Nobody, Label, Resolved
<1>6. ASSUME NEW cid \in Cid \ loose', Ended(cid)' PROVE Settled(cid)'
  <2>1. Forgotten(cid) /\ NoStart(cid)' /\ cid \notin loose
    BY <1>1, <1>6 DEF Ended
  <2>2. containerIDIdx'[cid] = NoId
    BY <1>2, <2>1 DEF OnlyLoses, Forgotten, Freed
  <2>3. ~ContainerListed(cid)' /\ ~Holds(cid)'
    BY <1>3, <1>4, <2>1 DEF Forgotten
  <2>4. cid \notin todo' /\ job'.cid # cid
    BY NullsAssumption DEF Nobody
  <2> QED BY <2>1, <2>2, <2>3, <2>4 DEF Settled, Forgotten, Freed
<1>7. EndsHeard'
  BY <1>6 DEF EndsHeard
<1> QED BY <1>2, <1>3, <1>4, <1>5, <1>7 DEF WatchInv
-----------------------------------------------------------------------------
(* The watcher, as long as it only reads *)

\* The part of the invariant that a read of the watcher leaves alone.
LEMMA ReadFrame ==
    ASSUME WatchInv, UNCHANGED <<storeVars, listVars, daemon, req, loose, doubled>>,
           arrived' \in SUBSET Id, missed' \in Cid \cup {NoCid},
           stream' \in BOOLEAN, events' \in Seq(Event), todo' \in SUBSET Cid,
           pc' \in Label, JobHeld', TargetHeld', EndsHeard'
    PROVE  WatchInv'
<1>1. StoreInv' /\ EntriesInv' /\ RequestsHeld' /\ IndexHasAll'
  BY QuietKeeps
<1>2. WatcherTyped'
  BY DEF WatchInv, WatcherTyped
<1> QED BY <1>1, <1>2 DEF WatchInv

\* A container is done with unless the watcher comes across it.
LEMMA StaysForgotten ==
    ASSUME WatchInv, UNCHANGED <<storeVars, listVars, req>>, loose' = loose, pc # "forget",
           NEW cid \in Cid, Settled(cid),
           cid \notin todo', job'.cid # cid, NoStart(cid)'
    PROVE  Settled(cid)'
BY QuietKeeps DEF Settled, HalfDetached, Forgotten, Freed

\* What is settled is not on the watcher's mind, unless it is being detached.
LEMMA SettledFacts ==
    ASSUME NEW cid \in Cid, Settled(cid)
    PROVE  /\ cid \notin todo /\ NoStart(cid)
           /\ pc # "forget" => job.cid # cid
BY DEF Settled, HalfDetached, Forgotten, Freed

\* syncContainers lists what is up.
LEMMA ListKeeps == ASSUME WatchInv, ListContainers PROVE WatchInv'
<1> USE DEF ListContainers, dockerVars, historyVars
<1>1. /\ UNCHANGED <<storeVars, listVars, daemon, stream, events, job, req, historyVars>>
      /\ pc = "list" /\ pc' \in {"off", "sync"}
      /\ todo' \subseteq todo \cup {cid \in Cid : daemon[cid] = "up"}
  OBVIOUS
<1>2. JobHeld' /\ TargetHeld' /\ pc' \in Label
  BY <1>1 DEF WatchInv, JobHeld, TargetHeld, Label, Resolved
<1>3. ASSUME NEW cid \in Cid \ loose, Ended(cid), Settled(cid)
      PROVE  Settled(cid)'
  <2>1. cid \notin todo' /\ NoStart(cid)' /\ job'.cid # cid
    BY <1>1, <1>3, SettledFacts DEF Ended, NoStart
  <2> QED BY <1>1, <1>3, <2>1, StaysForgotten
<1>4. EndsHeard'
  BY <1>1, <1>3 DEF WatchInv, EndsHeard, Ended, EndAwaited
<1>5. todo' \in SUBSET Cid
  BY <1>1 DEF WatchInv, WatcherTyped
<1> QED BY <1>1, <1>2, <1>4, <1>5, ReadFrame DEF WatchInv, WatcherTyped

\* The watcher gives a container up, or has nothing more to do with it.
LEMMA GivenUp ==
    ASSUME WatchInv, NEW back \in {"sync", "watch"}, pc' = back, job' = Nobody,
           pc # "forget",
           UNCHANGED <<storeVars, listVars, daemon, stream, events, req, loose, doubled>>,
           arrived' \in SUBSET Id, missed' \in Cid \cup {NoCid},
           todo' \subseteq todo, back = "watch" => todo = {}
    PROVE  WatchInv'
<1>1. job'.cid = NoCid
  BY DEF Nobody
<1>2. JobHeld' /\ TargetHeld' /\ pc' \in Label
  BY <1>1 DEF JobHeld, TargetHeld, Label, Resolved
<1>3. ASSUME NEW c \in Cid, Settled(c) PROVE Settled(c)'
  <2>1. c \notin todo' /\ NoStart(c)' /\ job'.cid # c
    BY <1>1, <1>3, SettledFacts, NullsAssumption DEF NoStart
  <2> QED BY <1>3, <2>1, StaysForgotten
<1>4. EndsHeard'
  BY <1>3, EndsStay DEF WatchInv
<1> QED BY <1>2, <1>4, ReadFrame DEF WatchInv, WatcherTyped

\* The early returns and the resolved labels of an upsert.
LEMMA ConsiderKeeps ==
    ASSUME WatchInv, NEW cid \in Cid, NEW up, NEW back \in {"sync", "watch"},
           Consider(cid, up, back), pc # "forget",
           UNCHANGED <<storeVars, listVars, daemon, stream, events, req, loose, doubled>>,
           arrived' \in SUBSET Id, missed' \in Cid \cup {NoCid},
           todo' \subseteq todo, back = "watch" => todo = {},
           \A c \in Cid : Settled(c) => c # cid
    PROVE  WatchInv'
<1>1. CASE Skipped(cid, up)
  BY <1>1, GivenUp DEF Consider
<1>2. CASE ~Skipped(cid, up)
  <2>1. PICK info \in resolveContainer(cid, up) :
            pc' = "name" /\ job' = [cid |-> cid, info |-> info, back |-> back]
    BY <1>2 DEF Consider
  <2>2. info.title \in CName /\ info.sub \in Sub /\ info.addr \in Addr
    BY ResolvedTypes
  <2>3. job'.cid = cid /\ job'.info = info /\ job'.back = back
    BY <2>1
  <2>4. JobHeld' /\ TargetHeld' /\ pc' \in Label
    BY <2>1, <2>2, <2>3 DEF JobHeld, TargetHeld, Label, Resolved
  <2>5. ASSUME NEW c \in Cid, Settled(c) PROVE Settled(c)'
    <3>1. c \notin todo' /\ NoStart(c)' /\ job'.cid # c
      BY <2>3, <2>5, SettledFacts DEF NoStart
    <3> QED BY <2>5, <3>1, StaysForgotten
  <2>6. EndsHeard'
    BY <2>5, EndsStay DEF WatchInv
  <2> QED BY <2>4, <2>6, ReadFrame DEF WatchInv, WatcherTyped
<1> QED BY <1>1, <1>2

\* syncContainers handles one container of the daemon's answer.
LEMMA SyncKeeps == ASSUME WatchInv, NEW cid \in Cid, SyncNext(cid) PROVE WatchInv'
<1> USE DEF SyncNext, TurnTo, dockerVars
<1>1. \A c \in Cid : Settled(c) => c # cid
  BY SettledFacts
<1>2. todo' \subseteq todo /\ arrived' \in SUBSET Id /\ missed' \in Cid \cup {NoCid}
  BY DEF WatchInv, WatcherTyped
<1>3. Consider(cid, TRUE, "sync")
  OBVIOUS
<1> QED BY <1>1, <1>2, <1>3, ConsiderKeeps

\* The container of the job is on someone's mind.
LEMMA InspectKeeps == ASSUME WatchInv, Inspect PROVE WatchInv'
<1> USE DEF Inspect, Quiet, dockerVars, historyVars
<1>1. PICK cid \in Cid : cid = job.cid
  BY DEF WatchInv, JobHeld
<1>2. todo = {} /\ arrived' \in SUBSET Id /\ missed' \in Cid \cup {NoCid}
  BY DEF WatchInv, WatcherTyped, JobHeld
<1>3. PICK up \in BOOLEAN : up = (daemon[cid] = "up")
  OBVIOUS
<1>4. Consider(cid, up, "watch")
  BY <1>1, <1>3
<1>5. \A c \in Cid : Settled(c) => c # cid
  BY <1>1, SettledFacts
<1> QED BY <1>2, <1>4, <1>5, ConsiderKeeps

\* A start that is dropped changes nothing.
LEMMA InspectFailsKeeps == ASSUME WatchInv, InspectFails PROVE WatchInv'
<1> USE DEF InspectFails, Return, Quiet, dockerVars
<1>1. todo = {} /\ arrived' \in SUBSET Id /\ missed' \in Cid \cup {NoCid}
  BY DEF WatchInv, WatcherTyped, JobHeld
<1> QED BY <1>1, GivenUp

\* Subscribing, at first or after an error, changes no container and no service.
LEMMA ConnectKeeps == ASSUME WatchInv, Subscribe \/ Reconnect PROVE WatchInv'
<1> USE DEF Subscribe, Reconnect, watcherVars, historyVars
<1>1. /\ UNCHANGED <<storeVars, listVars, daemon, events, todo, job, req, historyVars>>
      /\ pc' = "watch" /\ stream' = TRUE /\ pc \in {"sync", "watch"}
  OBVIOUS
<1>2. JobHeld' /\ TargetHeld' /\ pc' \in Label
  BY DEF WatchInv, JobHeld, TargetHeld, Label, Resolved
<1>3. ASSUME NEW c \in Cid, Settled(c) PROVE Settled(c)'
  <2>1. c \notin todo' /\ NoStart(c)' /\ job'.cid # c
    BY <1>1, <1>3, SettledFacts DEF NoStart
  <2> QED BY <1>1, <1>3, <2>1, StaysForgotten
<1>4. EndsHeard'
  BY <1>1, <1>3, EndsStay DEF WatchInv
<1> QED BY <1>1, <1>2, <1>4, ReadFrame DEF WatchInv, WatcherTyped

\* The start of a container that has ended has its end behind it.
LEMMA TakeStartKeeps == ASSUME WatchInv, TakeStart PROVE WatchInv'
<1> USE DEF TakeStart, TakeEvent, TurnTo
<1>1. /\ UNCHANGED <<storeVars, listVars, daemon, stream, todo, req, loose, doubled>>
      /\ pc = "watch" /\ pc' = "delay"
      /\ events # <<>> /\ events' = Tail(events)
      /\ job' = [cid |-> Head(events).cid] /\ Head(events).kind = "start"
  OBVIOUS
<1>2. events \in Seq(Event) /\ arrived' \in SUBSET Id /\ missed' \in Cid \cup {NoCid}
  BY DEF WatchInv, WatcherTyped
<1>3. events' \in Seq(Event) /\ Head(events) \in Event
  BY <1>1, <1>2
<1>4. PICK cid \in Cid : Head(events) = Start(cid) /\ job'.cid = cid
  BY <1>1, <1>3 DEF Event, Start
<1>5. JobHeld' /\ TargetHeld' /\ pc' \in Label
  BY <1>1, <1>4 DEF WatchInv, JobHeld, TargetHeld, Label, Resolved
<1>6. ASSUME NEW c \in Cid \ loose', Ended(c)'
      PROVE  EndAwaited(c)' \/ Settled(c)'
  <2>1. CASE EndAwaited(c)
    BY <1>1, <1>2, <1>4, <2>1, EventsDiffer, Taken
  <2>2. CASE Settled(c)
    <3>1. NoStart(c)' /\ Head(events) # Start(c)
      BY <1>1, <1>2, <2>2, Taken, SettledFacts
    <3>2. job'.cid # c /\ c \notin todo'
      BY <1>1, <1>4, <2>2, <3>1, SettledFacts
    <3> QED BY <1>1, <2>2, <3>1, <3>2, StaysForgotten
  <2> QED BY <1>1, <1>6, <2>1, <2>2 DEF WatchInv, EndsHeard, Ended
<1>7. EndsHeard'
  BY <1>6 DEF EndsHeard
<1> QED BY <1>1, <1>2, <1>3, <1>5, <1>7, ReadFrame DEF WatchInv, WatcherTyped
-----------------------------------------------------------------------------
(* The watcher's writes *)

\* RemoveDiscoveredByContainerID takes the container's entry off the list.
LEMMA RemoveByContainer ==
    ASSUME EntriesInv, NEW cid \in Cid, RemoveDiscoveredByContainerID(cid),
           UNCHANGED ignoredVars
    PROVE  /\ EntriesInv'
           /\ \A c \in Cid : ~ContainerListed(c) => ~ContainerListed(c)'
           /\ ~ContainerListed(cid)'
<1> DEFINE dids == {did \in discovered : discoveredIdx[did].cid = cid}
<1>1. ListsInv /\ DiscoveredInv /\ dids \in SUBSET Did
  BY DEF EntriesInv, ListsInv, DiscoveredInv, DiscoveredTypeOK
<1>2. unlist(dids)
  BY DEF RemoveDiscoveredByContainerID
<1>3. /\ \A did \in discovered' : Bare(discoveredIdx'[did])
      /\ \A c \in Cid : ~ContainerListed(c) => ~ContainerListed(c)'
  <2> HIDE DEF dids
  <2> QED BY <1>1, <1>2, UnlistLeaves
<1>4. EntriesInv'
  BY <1>3, EntriesKeep DEF ListsNext
<1>5. ~ContainerListed(cid)'
  <2>1. CASE ContainerListed(cid)
    <3>1. PICK did \in discovered : discoveredIdx[did].cid = cid
      BY <1>1, <2>1 DEF ContainerListed, DiscoveredInv, DiscoveredTypeOK, ContainerMapExact
    <3>2. IsListed(did) /\ did \in dids
      BY <1>1, <3>1 DEF DiscoveredInv, DiscoveredTypeOK, DiscoveredMatches
    <3> QED BY <1>2, <3>1, <3>2 DEF unlist, ContainerListed
  <2>2. CASE ~ContainerListed(cid)
    BY <1>3, <2>2
  <2> QED BY <2>1, <2>2
<1> QED BY <1>3, <1>4, <1>5

\* The end of a container is heard: from now on no service has it, and nobody
\* will bring it back, unless a request held it.
LEMMA TakeEndKeeps == ASSUME WatchInv, TakeEnd PROVE WatchInv'
<1> USE DEF TakeEnd, TakeEvent, TurnTo
<1>1. /\ UNCHANGED <<listVars, daemon, stream, todo, req, doubled, arrived>>
      /\ pc = "watch" /\ pc' = "forget" /\ missed' = NoCid
      /\ events # <<>> /\ events' = Tail(events)
      /\ job' = [cid |-> Head(events).cid] /\ Head(events).kind = "end"
  OBVIOUS
<1>2. events \in Seq(Event) /\ todo = {} /\ job.cid = NoCid
  BY <1>1 DEF WatchInv, WatcherTyped, JobHeld
<1>3. events' \in Seq(Event) /\ Head(events) \in Event
  BY <1>1, <1>2
<1>4. PICK cid \in Cid :
          cid = Head(events).cid /\ Head(events) = End(cid) /\ job'.cid = cid
  BY <1>1, <1>3 DEF Event, End
<1>5. /\ ClearContainerID(cid)
      /\ loose' = IF Holds(cid) THEN loose \cup {cid} ELSE loose
  BY <1>4
<1>6. loose \subseteq loose' /\ loose' \in SUBSET Cid
  BY <1>5 DEF WatchInv, WatcherTyped
<1>7. StoreInv' /\ IndexHasAll' /\ OnlyLoses /\ containerIDIdx'[cid] = NoId
  BY <1>5, <1>6, ClearKeeps DEF WatchInv
<1>8. EntriesInv' /\ \A c \in Cid : ContainerListed(c)' = ContainerListed(c)
  BY <1>1, EntriesFrame DEF WatchInv, listVars, ContainerListed
<1>9. RequestsHeld' /\ \A c \in Cid : Holds(c)' = Holds(c)
  BY <1>1, <1>7, RequestsStay DEF WatchInv, OnlyLoses
<1>10. WatcherTyped' /\ JobHeld' /\ TargetHeld'
  BY <1>1, <1>3, <1>4, <1>6
     DEF WatchInv, WatcherTyped, JobHeld, TargetHeld, Label, Resolved
<1>11. ASSUME NEW c \in Cid \ loose', Ended(c)'
       PROVE  EndAwaited(c)' \/ Settled(c)'
  <2>1. c \notin loose /\ (EndAwaited(c) \/ Settled(c))
    BY <1>1, <1>6, <1>11 DEF WatchInv, EndsHeard, Ended
  <2>2. c \notin todo'
    BY <1>1, <1>2
  <2>3. CASE Settled(c)
    <3>1. NoStart(c)'
      BY <1>1, <1>2, <2>3, Taken, SettledFacts
    <3>2. containerIDIdx'[c] = NoId /\ ~ContainerListed(c)' /\ ~Holds(c)'
      BY <1>1, <1>7, <1>8, <1>9, <2>1, <2>3
         DEF OnlyLoses, Settled, HalfDetached, Forgotten, Freed
    <3>3. Freed(c)'
      BY <2>2, <3>1, <3>2 DEF Freed
    <3> QED BY <1>1, <3>2, <3>3 DEF Settled, HalfDetached, Forgotten
  <2>4. CASE EndAwaited(c) /\ c # cid
    BY <1>1, <1>2, <1>4, <2>4, EventsDiffer, Taken
  <2>5. CASE EndAwaited(c) /\ c = cid
    <3>1. ~Holds(c)'
      BY <1>5, <1>9, <1>11, <2>5
    <3>2. EndAwaited(c)' \/ NoStart(c)'
      BY <1>1, <1>2, <2>5, Taken
    <3>3. NoStart(c)' => Freed(c)'
      BY <1>7, <2>2, <2>5, <3>1 DEF Freed
    <3> QED BY <1>1, <1>4, <2>5, <3>2, <3>3 DEF Settled, HalfDetached
  <2> QED BY <2>1, <2>3, <2>4, <2>5
<1>12. EndsHeard'
  BY <1>11 DEF EndsHeard
<1> QED BY <1>7, <1>8, <1>9, <1>10, <1>12 DEF WatchInv

\* The part of the invariant that is left when the watcher has written and is
\* done with a container.
LEMMA WrittenFrame ==
    ASSUME WatchInv, pc \notin {"off", "list", "sync", "watch", "delay"},
           NEW back \in {"sync", "watch"}, pc' = back, job' = Nobody,
           UNCHANGED <<dockerVars, todo, req, arrived>>, back = "watch" => todo = {},
           StoreInv', EntriesInv', IndexHasAll', loose' \in SUBSET Cid, loose \subseteq loose',
           doubled' \in SUBSET (CName \cup {NoName}), missed' \in Cid \cup {NoCid},
           \A id \in Id : Live(id)' => Live(id) /\ idIdx'[id].source = idIdx[id].source,
           \A c \in Cid : c # job.cid /\ containerIDIdx[c] = NoId => containerIDIdx'[c] = NoId,
           \A c \in Cid : c # job.cid /\ ~ContainerListed(c) => ~ContainerListed(c)',
           \A c \in Cid : c = job.cid /\ pc = "forget" =>
                              containerIDIdx'[c] = containerIDIdx[c] /\ ~ContainerListed(c)'
    PROVE  WatchInv'
<1> USE DEF dockerVars
<1>1. RequestsHeld' /\ \A c \in Cid : Holds(c)' = Holds(c)
  BY RequestsStay DEF WatchInv
<1>2. job'.cid = NoCid
  BY DEF Nobody
<1>3. WatcherTyped' /\ JobHeld' /\ TargetHeld'
  BY <1>2 DEF WatchInv, WatcherTyped, JobHeld, TargetHeld, Label, Resolved
<1>4. ASSUME NEW c \in Cid, Settled(c) PROVE Settled(c)'
  <2>1. Freed(c) /\ (c # job.cid => ~ContainerListed(c)) /\ (c = job.cid => pc = "forget")
    BY <1>4 DEF Settled, HalfDetached, Forgotten
  <2>2. containerIDIdx'[c] = NoId /\ ~ContainerListed(c)'
    BY <2>1 DEF Freed
  <2>3. Freed(c)'
    BY <1>1, <2>1, <2>2 DEF Freed, NoStart
  <2> QED BY <1>2, <2>2, <2>3, NullsAssumption DEF Settled, Forgotten
<1>5. EndsHeard'
  BY <1>4, EndsStay DEF WatchInv
<1> QED BY <1>1, <1>3, <1>5 DEF WatchInv

\* What the watcher holds when it is about to write.
LEMMA JobFacts ==
    ASSUME WatchInv
    PROVE  /\ pc = "forget" => job.cid \in Cid /\ todo = {}
           /\ pc \in Resolved \cup {"reattach"} =>
                  /\ job.cid \in Cid /\ job.back \in {"sync", "watch"}
                  /\ job.back = "watch" => todo = {}
           /\ pc \in Resolved =>
                  job.info.title \in CName /\ job.info.sub \in Sub /\ job.info.addr \in Addr
           /\ pc = "reattach" =>
                  /\ job.id \in Id /\ job.svc \in Addable
                  /\ job.svc.source = "docker" /\ job.svc.cid = job.cid
                  /\ Live(job.id) => idIdx[job.id].source = "docker"
BY DEF WatchInv, JobHeld, TargetHeld

\* The list forgets the container too.
LEMMA ForgetKeeps == ASSUME WatchInv, Forget PROVE WatchInv'
<1> USE DEF Forget, Return, Quiet, forget, historyVars
<1>1. /\ pc = "forget" /\ pc' = "watch" /\ job' = Nobody
      /\ UNCHANGED <<dockerVars, todo, req, arrived, storeVars, ignoredVars, loose>>
  OBVIOUS
<1>2. PICK cid \in Cid : cid = job.cid /\ todo = {}
  BY <1>1, JobFacts
<1>3. /\ EntriesInv'
      /\ \A c \in Cid : ~ContainerListed(c) => ~ContainerListed(c)'
      /\ ~ContainerListed(cid)'
  BY <1>1, <1>2, RemoveByContainer DEF WatchInv
<1>4. /\ StoreInv' /\ IndexHasAll'
      /\ \A id \in Id : Live(id)' => Live(id) /\ idIdx'[id].source = idIdx[id].source
      /\ containerIDIdx' = containerIDIdx
  BY <1>1, StoreFrame DEF WatchInv, storeVars, IndexHasAll, LiveIds, Live
<1>5. /\ doubled' \in SUBSET (CName \cup {NoName}) /\ missed' \in Cid \cup {NoCid}
      /\ loose' \in SUBSET Cid /\ loose \subseteq loose'
  BY DEF WatchInv, WatcherTyped
<1> QED BY <1>1, <1>2, <1>3, <1>4, <1>5, WrittenFrame

\* The copy that the watcher makes of the service it has found.
LEMMA TakingTyped ==
    ASSUME WatchInv, pc \in {"name", "sub"}, NEW id \in Id, Live(id),
           idIdx[id].source = "docker", NEW name \in CName \cup {NoName}
    PROVE  /\ Taking(id, name).cid = job.cid /\ Taking(id, name).back = job.back
           /\ Taking(id, name).id = id
           /\ LET svc == Taking(id, name).svc IN
              /\ svc \in Addable /\ svc.source = "docker" /\ svc.cid = job.cid
              /\ svc.name = name /\ svc.data.home = Labels[job.cid].name
<1>1. /\ job.cid \in Cid /\ job.info.addr \in Addr
      /\ Labels[job.cid].name \in CName \cup {NoName}
  BY JobFacts, DockerAssumption DEF Resolved, Container
<1>2. idIdx[id] \in Service
  BY DEF WatchInv, StoreInv, AllAddable, Addable, LiveIds
<1>3. PICK data : data = [idIdx[id].data EXCEPT !.addr = job.info.addr,
                                                !.home = Labels[job.cid].name]
  OBVIOUS
<1>4. data \in Payload /\ data.home = Labels[job.cid].name
  <2>1. idIdx[id].data \in [addr : Addr, home : CName \cup {NoName}]
    BY <1>2, DockerAssumption DEF Service
  <2> QED BY <1>1, <1>3, <2>1, DockerAssumption
<1>5. PICK svc : svc = [idIdx[id] EXCEPT !.cid = job.cid, !.name = name,
                                         !.data.addr = job.info.addr,
                                         !.data.home = Labels[job.cid].name]
  OBVIOUS
<1>6. svc = [idIdx[id] EXCEPT !.cid = job.cid, !.name = name, !.data = data]
  BY <1>2, <1>3, <1>5 DEF Service
<1>7. /\ svc \in Addable /\ svc.source = "docker" /\ svc.cid = job.cid
      /\ svc.name = name /\ svc.data.home = Labels[job.cid].name
  BY <1>1, <1>2, <1>4, <1>6 DEF Service, Addable
<1> QED BY <1>5, <1>7 DEF Taking

\* A lookup of the watcher: what it found and is about to write, or on to the
\* next lookup.
LEMMA LookupKeeps ==
    ASSUME WatchInv, pc \in {"name", "sub", "offer"},
           UNCHANGED <<storeVars, listVars, dockerVars, todo, req, loose, doubled, missed>>,
           arrived' \in SUBSET Id,
           \/ pc' \in Resolved /\ job' = job
           \/ /\ pc' = "reattach"
              /\ \E id \in Id, name \in CName \cup {NoName} :
                     /\ Live(id) /\ idIdx[id].source = "docker"
                     /\ pc \in {"name", "sub"}
                     /\ job' = Taking(id, name)
    PROVE  WatchInv'
<1> USE DEF dockerVars
<1>1. job'.cid = job.cid /\ JobHeld' /\ TargetHeld' /\ pc' \in Label
  <2>1. CASE pc' \in Resolved /\ job' = job
    BY <2>1 DEF WatchInv, JobHeld, TargetHeld, Label, Resolved
  <2>2. ASSUME pc' = "reattach", NEW id \in Id, NEW name \in CName \cup {NoName},
               Live(id), idIdx[id].source = "docker", pc \in {"name", "sub"},
               job' = Taking(id, name)
        PROVE  job'.cid = job.cid /\ JobHeld' /\ TargetHeld' /\ pc' \in Label
    <3>1. /\ job'.cid = job.cid /\ job'.back = job.back /\ job'.id = id
          /\ job'.svc \in Addable /\ job'.svc.source = "docker" /\ job'.svc.cid = job.cid
      BY <2>2, TakingTyped
    <3>2. /\ job.cid \in Cid /\ job.back \in {"sync", "watch"}
          /\ job.back = "watch" => todo = {}
      BY JobFacts DEF Resolved
    <3>3. JobHeld'
      BY <2>2, <3>1, <3>2 DEF JobHeld, Resolved
    <3>4. TargetHeld'
      BY <2>2, <3>1 DEF TargetHeld, storeVars, Live
    <3> QED BY <2>2, <3>1, <3>3, <3>4 DEF Label
  <2> QED BY <2>1, <2>2
<1>2. ASSUME NEW c \in Cid, Settled(c) PROVE Settled(c)'
  <2>1. c \notin todo' /\ NoStart(c)' /\ job'.cid # c
    BY <1>1, <1>2, SettledFacts DEF NoStart
  <2> QED BY <1>2, <2>1, StaysForgotten
<1>3. EndsHeard'
  BY <1>2, EndsStay DEF WatchInv
<1> QED BY <1>1, <1>3, ReadFrame DEF WatchInv, WatcherTyped

\* The lookup by name.
LEMMA ByNameKeeps == ASSUME WatchInv, ByName PROVE WatchInv'
<1> DEFINE found == containerNameIdx[Labels[job.cid].name]
<1> USE DEF ByName, Quiet
<1>1. job.cid \in Cid /\ Labels[job.cid].name \in CName
  BY JobFacts, DockerAssumption DEF Resolved, Container
<1>2. CASE found # NoId
  <2>1. found \in Id /\ Live(found) /\ idIdx[found].source = "docker"
    BY <1>1, <1>2 DEF WatchInv, StoreInv, TypeOK, IndexSound, ContainerNameSound
  <2>2. idIdx[found].name \in CName \cup {NoName}
    BY <2>1 DEF WatchInv, StoreInv, AllAddable, Addable, LiveIds, Service
  <2>3. job' = Taking(found, idIdx[found].name) /\ pc' = "reattach"
    BY <1>2
  <2> HIDE DEF found
  <2> QED BY <2>1, <2>2, <2>3, LookupKeeps
<1>3. CASE found = NoId
  BY <1>3, LookupKeeps DEF Resolved
<1> QED BY <1>2, <1>3

\* The lookup by subdomain.
LEMMA BySubdomainKeeps == ASSUME WatchInv, BySubdomain PROVE WatchInv'
<1> DEFINE found == services[job.info.sub]
<1> USE DEF BySubdomain, Quiet, historyVars
<1>1. job.cid \in Cid /\ Labels[job.cid].name \in CName /\ job.info.sub \in Sub
  BY JobFacts, DockerAssumption DEF Resolved, Container
<1>2. arrived' \in SUBSET Id
  BY DEF WatchInv, WatcherTyped
<1>3. CASE found # NoId /\ idIdx[found].source = "docker"
  <2>1. found \in Id /\ Live(found)
    BY <1>1, <1>3 DEF WatchInv, StoreInv, TypeOK, IndexSound, SubdomainSound
  <2>2. job' = Taking(found, Labels[job.cid].name) /\ pc' = "reattach"
    BY <1>3
  <2> HIDE DEF found
  <2> QED BY <1>1, <1>2, <1>3, <2>1, <2>2, LookupKeeps
<1>4. CASE ~(found # NoId /\ idIdx[found].source = "docker")
  BY <1>2, <1>4, LookupKeeps DEF Resolved
<1> QED BY <1>3, <1>4

\* The service that was found takes the container over, if it is still there.
LEMMA ReattachKeeps == ASSUME WatchInv, Reattach PROVE WatchInv'
<1> USE DEF Reattach, Return, Quiet
<1>1. /\ pc = "reattach" /\ pc' = job.back /\ job' = Nobody
      /\ UNCHANGED <<dockerVars, todo, req, arrived, listVars>>
  OBVIOUS
<1>2. PICK id \in Id, svc \in Addable :
          /\ id = job.id /\ svc = job.svc /\ svc.cid = job.cid /\ svc.source = "docker"
          /\ Live(id) => idIdx[id].source = "docker"
  BY JobFacts
<1>3. job.cid \in Cid /\ job.back \in {"sync", "watch"} /\ (job.back = "watch" => todo = {})
  BY JobFacts
<1>4. EntriesInv' /\ \A c \in Cid : ~ContainerListed(c) => ~ContainerListed(c)'
  BY <1>1, EntriesFrame DEF WatchInv, listVars, ContainerListed
<1>5. doubled' \in SUBSET (CName \cup {NoName}) /\ missed' \in Cid \cup {NoCid}
  <2>1. svc.data.home \in CName \cup {NoName}
    BY <1>2, DockerAssumption DEF Addable, Service
  <2> QED BY <1>2, <1>3, <2>1 DEF WatchInv, WatcherTyped, Associate
<1>6. /\ StoreInv' /\ IndexHasAll'
      /\ loose' \in SUBSET Cid /\ loose \subseteq loose'
      /\ \A i \in Id : Live(i)' => Live(i) /\ idIdx'[i].source = idIdx[i].source
      /\ \A c \in Cid : c # job.cid /\ containerIDIdx[c] = NoId => containerIDIdx'[c] = NoId
  <2>1. CASE Live(id)
    <3>1. svc \in Replacements(id) /\ UpdateService(id, svc) /\ Attach(svc.cid, id)
      BY <1>2, <2>1 DEF Replacements
    <3>2. /\ StoreInv' /\ IndexHasAll'
          /\ loose' \in SUBSET Cid /\ loose \subseteq loose'
          /\ \A c \in Cid : containerIDIdx[c] = NoId /\ c # svc.cid
                                => containerIDIdx'[c] = NoId
          /\ \A i \in Id : idIdx'[i] = IF i = id THEN svc ELSE idIdx[i]
      BY <2>1, <3>1, UpdateServiceKeeps DEF WatchInv, WatcherTyped
    <3> QED BY <1>2, <2>1, <3>2 DEF Live
  <2>2. CASE ~Live(id)
    <3>1. UNCHANGED storeVars /\ loose' = loose
      BY <1>2, <2>2 DEF UpdateService
    <3> QED BY <3>1, StoreFrame DEF WatchInv, WatcherTyped, storeVars, IndexHasAll, Live
  <2> QED BY <2>1, <2>2
<1> QED BY <1>1, <1>3, <1>4, <1>5, <1>6, WrittenFrame

\* The container is offered already, or is about to be.
LEMMA OfferKeeps == ASSUME WatchInv, Offer PROVE WatchInv'
<1> USE DEF Offer, Return, Quiet, historyVars, dockerVars
<1>1. arrived' \in SUBSET Id /\ missed' \in Cid \cup {NoCid}
  BY DEF WatchInv, WatcherTyped
<1>2. CASE ContainerListed(job.cid)
  <2>1. job.back \in {"sync", "watch"} /\ (job.back = "watch" => todo = {})
    BY JobFacts DEF Resolved
  <2> QED BY <1>1, <1>2, <2>1, GivenUp
<1>3. CASE ~ContainerListed(job.cid)
  BY <1>1, <1>3, LookupKeeps DEF Resolved
<1> QED BY <1>2, <1>3

\* The entry that the watcher offers a container with.
Offering == [addr |-> job.info.addr, source |-> "docker", cid |-> job.cid,
             name |-> job.info.title, info |-> CHOOSE info \in Info : TRUE]

\* The container is listed as one to be assigned, if it is not.
LEMMA AddOfferKeeps == ASSUME WatchInv, Add PROVE WatchInv'
<1> USE DEF Add, Return, Quiet, historyVars
<1>1. /\ pc = "add" /\ pc' = job.back /\ job' = Nobody
      /\ UNCHANGED <<dockerVars, todo, req, arrived, storeVars, ignoredVars, loose>>
  OBVIOUS
<1>2. /\ job.cid \in Cid /\ job.back \in {"sync", "watch"} /\ (job.back = "watch" => todo = {})
      /\ job.info.title \in CName /\ job.info.addr \in Addr
  BY JobFacts DEF Resolved
<1>3. PICK did \in Did : NewDid(did) /\ AddDiscovered(did, Offering)
  BY DEF Offering
<1>4. Offering \in ContainerEntries /\ Bare(Offering) /\ Offering.cid = job.cid
  BY <1>2, DockerAssumption, NullsAssumption DEF Offering, ContainerEntries, Entry, Bare
<1>5. Unused(did)
  BY <1>3 DEF NewDid, FreeDid
<1>6. /\ \A d \in discovered' : Bare(discoveredIdx'[d])
      /\ \A c \in Cid : ~ContainerListed(c) /\ c # job.cid => ~ContainerListed(c)'
  BY <1>3, <1>4, <1>5, AddLists DEF WatchInv, ContainerEntries, Unused
<1>7. EntriesInv'
  BY <1>1, <1>3, <1>4, <1>5, <1>6, EntriesKeep DEF WatchInv, ListsNext
<1>8. /\ StoreInv' /\ IndexHasAll'
      /\ \A id \in Id : Live(id)' => Live(id) /\ idIdx'[id].source = idIdx[id].source
      /\ containerIDIdx' = containerIDIdx
  BY <1>1, StoreFrame DEF WatchInv, storeVars, IndexHasAll, LiveIds, Live
<1>9. /\ doubled' \in SUBSET (CName \cup {NoName}) /\ missed' \in Cid \cup {NoCid}
      /\ loose' \in SUBSET Cid /\ loose \subseteq loose'
  BY DEF WatchInv, WatcherTyped
<1> QED BY <1>1, <1>2, <1>6, <1>7, <1>8, <1>9, WrittenFrame
-----------------------------------------------------------------------------
(* Requests *)

\* The part of the invariant that is left when a request has begun or ended.
LEMMA RequestFrame ==
    ASSUME WatchInv, UNCHANGED <<dockerVars, watcherVars, missed>>,
           loose' \in SUBSET Cid, loose \subseteq loose', arrived' \in SUBSET Id,
           doubled' \in SUBSET (CName \cup {NoName}),
           StoreInv', EntriesInv', IndexHasAll', RequestsHeld',
           \A id \in Id : Live(id)' => \/ Live(id) /\ idIdx'[id].source = idIdx[id].source
                                       \/ pc = "reattach" => job.id # id,
           \A c \in Cid \ loose' : Settled(c) => /\ containerIDIdx'[c] = NoId
                                                 /\ ~Holds(c)'
                                                 /\ ~ContainerListed(c) => ~ContainerListed(c)'
    PROVE  WatchInv'
<1> USE DEF dockerVars, watcherVars
<1>1. WatcherTyped' /\ JobHeld' /\ TargetHeld'
  BY TargetStays DEF WatchInv, WatcherTyped, JobHeld
<1>2. ASSUME NEW c \in Cid \ loose', Settled(c) PROVE Settled(c)'
  <2>1. Freed(c)'
    BY <1>2 DEF Settled, HalfDetached, Forgotten, Freed, NoStart
  <2> QED BY <1>2, <2>1 DEF Settled, HalfDetached, Forgotten
<1>3. EndsHeard'
  BY <1>2, EndsStay DEF WatchInv
<1> QED BY <1>1, <1>3 DEF WatchInv

\* What is settled is off the map, and on no request's mind.
LEMMA SettledIsFree ==
    ASSUME NEW cid \in Cid, Settled(cid)
    PROVE  /\ containerIDIdx[cid] = NoId /\ ~Holds(cid)
           /\ HalfDetached(cid) \/ ~ContainerListed(cid)
BY DEF Settled, HalfDetached, Forgotten, Freed

\* What is off the map is on no service.
LEMMA FreedIsOnNoService ==
    ASSUME WatchInv, NEW cid \in Cid \ loose, containerIDIdx[cid] = NoId
    PROVE  \A id \in LiveIds : idIdx[id].cid # cid
BY NullsAssumption DEF WatchInv, IndexHasAll, LiveIds

\* What is off the list is on no entry.
LEMMA UnlistedIsOnNoEntry ==
    ASSUME WatchInv, NEW cid \in Cid, ~ContainerListed(cid)
    PROVE  \A did \in discovered : discoveredIdx[did].cid # cid
BY ListsAssumption DEF WatchInv, EntriesInv, ListsInv, DiscoveredInv, DiscoveredTypeOK,
                       ContainerMapExact, ContainerListed

\* createService reads an entry.
LEMMA BeginAssignKeeps ==
    ASSUME WatchInv, NEW u \in User, NEW did \in Did, NEW sub \in Sub, BeginAssign(u, did, sub)
    PROVE  WatchInv'
<1> USE DEF BeginAssign, Begin
<1>1. UNCHANGED <<storeVars, listVars, dockerVars, watcherVars, doubled, arrived, missed>>
  OBVIOUS
<1>2. PICK r : r = [op |-> "assign", did |-> did, entry |-> discoveredIdx[did], sub |-> sub]
  OBVIOUS
<1>3. did \in discovered /\ discoveredIdx[did] \in Entry /\ Bare(discoveredIdx[did])
  BY DEF WatchInv, EntriesInv, ListsInv, DiscoveredInv, DiscoveredTypeOK, DiscoveredMatches,
         IsListed
<1>4. HeldBy(r)' /\ r.op = "assign" /\ r.entry = discoveredIdx[did]
  BY <1>2, <1>3 DEF HeldBy, Bare
<1>5. loose' \in SUBSET Cid /\ loose \subseteq loose'
  BY DEF WatchInv, WatcherTyped, JobHeld, HalfDetached
<1>6. StoreInv' /\ EntriesInv' /\ IndexHasAll'
  BY <1>1, <1>5, StoreFrame, EntriesFrame DEF WatchInv, storeVars, IndexHasAll, LiveIds, Live
<1>7. \A id \in Id : Live(id)' => Live(id) /\ idIdx'[id].source = idIdx[id].source
  BY <1>1 DEF storeVars, Live
<1>8. req' = [req EXCEPT ![u] = r]
  BY <1>2
<1>9. /\ RequestsHeld'
      /\ \A c \in Cid : ~Holds(c) => ~Holds(c)' \/ discoveredIdx[did].cid = c
  BY <1>4, <1>7, <1>8, RequestsStep DEF WatchInv
<1>10. ASSUME NEW c \in Cid \ loose', Settled(c) PROVE ~Holds(c)'
  <2>1. CASE HalfDetached(c)
    <3>1. discoveredIdx[did].cid # c
      BY <1>10, <2>1 DEF HalfDetached
    <3> QED BY <1>9, <1>10, <3>1, SettledIsFree
  <2>2. CASE ~ContainerListed(c)
    BY <1>3, <1>9, <1>10, <2>2, SettledIsFree, UnlistedIsOnNoEntry
  <2> QED BY <1>10, <2>1, <2>2, SettledIsFree
<1>11. \A c \in Cid \ loose' : Settled(c) =>
           /\ containerIDIdx'[c] = NoId
           /\ ~ContainerListed(c) => ~ContainerListed(c)'
  BY <1>1, SettledIsFree DEF storeVars, listVars, ContainerListed
<1>12. doubled' \in SUBSET (CName \cup {NoName}) /\ arrived' \in SUBSET Id
  BY <1>1 DEF WatchInv, WatcherTyped
<1> QED BY <1>1, <1>5, <1>6, <1>7, <1>9, <1>10, <1>11, <1>12, RequestFrame

\* The service that createService makes of the entry it read.
LEMMA AssignedTyped ==
    ASSUME NEW entry \in Entry, Bare(entry), NEW sub \in Sub
    PROVE  /\ Assigned(entry, sub) \in Addable /\ Assigned(entry, sub).cid = entry.cid
           /\ Assigned(entry, sub).source = entry.source
           /\ Assigned(entry, sub).name = entry.name
           /\ Assigned(entry, sub).data.home = HomeOf(entry)
           /\ HomeOf(entry) \in CName \cup {NoName}
<1>1. HomeOf(entry) \in CName \cup {NoName}
  BY DockerAssumption DEF HomeOf, Entry, Container
<1>2. PICK svc : svc = [sub |-> sub, source |-> entry.source,
                        cid |-> entry.cid, name |-> entry.name, order |-> 0,
                        data |-> [addr |-> entry.addr, home |-> HomeOf(entry)]]
  OBVIOUS
<1>3. [addr |-> entry.addr, home |-> HomeOf(entry)] \in Payload
  BY <1>1, DockerAssumption DEF Entry
<1>4. svc \in Service
  BY <1>2, <1>3, OrderAssumption DEF Service, Source, Entry
<1>5. svc \in Addable /\ svc.cid = entry.cid
  BY <1>2, <1>4 DEF Addable, Bare
<1> QED BY <1>1, <1>2, <1>5 DEF Assigned

\* createService stores the service.
LEMMA StoreAssignedKeeps == ASSUME WatchInv, NEW u \in User, StoreAssigned(u) PROVE WatchInv'
<1> USE DEF StoreAssigned, Give
<1>1. PICK entry \in Entry, sub \in Sub :
          entry = req[u].entry /\ sub = req[u].sub /\ Bare(entry) /\ req[u].did \in Did
  BY DEF WatchInv, RequestsHeld, HeldBy
<1>2. PICK svc \in Addable :
          /\ svc = Assigned(req[u].entry, req[u].sub) /\ svc.cid = entry.cid
          /\ svc.data.home \in CName \cup {NoName}
  BY <1>1, AssignedTyped
<1>3. PICK id \in Id : NewId(id) /\ AddService(id, svc) /\ Give(id, svc)
  BY <1>2
<1>4. /\ StoreInv' /\ IndexHasAll'
      /\ loose' \in SUBSET Cid /\ loose \subseteq loose'
      /\ \A c \in Cid : containerIDIdx[c] = NoId /\ c # svc.cid => containerIDIdx'[c] = NoId
      /\ \A i \in Id : idIdx'[i] = IF i = id THEN svc ELSE idIdx[i]
  BY <1>3, AddServiceKeeps DEF WatchInv, WatcherTyped
<1>5. UNCHANGED <<listVars, dockerVars, watcherVars, missed>>
  BY <1>3
<1>6. EntriesInv' /\ \A c \in Cid : ContainerListed(c)' = ContainerListed(c)
  BY <1>5, EntriesFrame DEF WatchInv, listVars, ContainerListed
<1>7. \A i \in Id : Live(i)' => \/ Live(i) /\ idIdx'[i].source = idIdx[i].source
                                \/ i = id
  BY <1>4 DEF Live
<1>8. /\ RequestsHeld'
      /\ \A c \in Cid : ~Holds(c) => ~Holds(c)'
  <2>1. PICK r : r = [op |-> "assigned", did |-> req[u].did]
    OBVIOUS
  <2>2. HeldBy(r)' /\ r.op = "assigned" /\ req' = [req EXCEPT ![u] = r]
    BY <1>1, <2>1 DEF HeldBy
  <2>3. \A i \in Id : Live(i)' =>
            \/ Live(i) /\ idIdx'[i].source = idIdx[i].source
            \/ \A v \in User : req[v].op = "edit" => req[v].id # i
    BY <1>3, <1>7 DEF NewId, FreeId
  <2> QED BY <2>2, <2>3, RequestsStep DEF WatchInv
<1>9. doubled' \in SUBSET (CName \cup {NoName}) /\ arrived' \in SUBSET Id
  BY <1>2, <1>3 DEF WatchInv, WatcherTyped, Associate
<1>10. Holds(entry.cid)
  BY <1>1 DEF Holds
<1>11. \A c \in Cid \ loose' : Settled(c) =>
           /\ containerIDIdx'[c] = NoId /\ ~Holds(c)'
           /\ ~ContainerListed(c) => ~ContainerListed(c)'
  BY <1>2, <1>4, <1>6, <1>8, <1>10, SettledIsFree
<1>12. \A i \in Id : Live(i)' => \/ Live(i) /\ idIdx'[i].source = idIdx[i].source
                                 \/ pc = "reattach" => job.id # i
  BY <1>3, <1>7 DEF NewId, FreeId
<1> QED BY <1>4, <1>5, <1>6, <1>8, <1>9, <1>11, <1>12, RequestFrame

\* createService takes the entry off the list.
LEMMA FinishAssignKeeps == ASSUME WatchInv, NEW u \in User, FinishAssign(u) PROVE WatchInv'
<1> USE DEF FinishAssign, Finish, historyVars
<1>1. req[u].did \in Did
  BY DEF WatchInv, RequestsHeld, HeldBy
<1>2. UNCHANGED <<storeVars, ignoredVars, dockerVars, watcherVars, historyVars>>
  OBVIOUS
<1>3. EntriesInv' /\ \A c \in Cid : ~ContainerListed(c) => ~ContainerListed(c)'
  <2>1. RemoveDiscovered(req[u].did)
    OBVIOUS
  <2>2. {req[u].did} \cap discovered \in SUBSET Did
    BY <1>1
  <2>3. /\ \A d \in discovered' : Bare(discoveredIdx'[d])
        /\ \A c \in Cid : ~ContainerListed(c) => ~ContainerListed(c)'
    BY <2>1, <2>2, UnlistLeaves DEF RemoveDiscovered, WatchInv
  <2> QED BY <1>1, <1>2, <2>1, <2>3, EntriesKeep DEF WatchInv, ListsNext
<1>4. StoreInv' /\ IndexHasAll'
  BY <1>2, StoreFrame DEF WatchInv, storeVars, IndexHasAll, LiveIds, Live
<1>5. \A i \in Id : Live(i)' => Live(i) /\ idIdx'[i].source = idIdx[i].source
  BY <1>2 DEF storeVars, Live
<1>6. RequestsHeld' /\ \A c \in Cid : ~Holds(c) => ~Holds(c)'
  <2>1. PICK r : r = Idle
    OBVIOUS
  <2>2. HeldBy(r)' /\ r.op = "none" /\ req' = [req EXCEPT ![u] = r]
    BY <2>1 DEF HeldBy, Idle
  <2> QED BY <1>5, <2>2, RequestsStep DEF WatchInv
<1>7. \A c \in Cid \ loose' : Settled(c) =>
           /\ containerIDIdx'[c] = NoId /\ ~Holds(c)'
           /\ ~ContainerListed(c) => ~ContainerListed(c)'
  BY <1>2, <1>3, <1>6, SettledIsFree DEF storeVars
<1> QED BY <1>2, <1>3, <1>4, <1>5, <1>6, <1>7, RequestFrame DEF WatchInv, WatcherTyped

\* updateService and deleteService read a service.
LEMMA BeginEditKeeps ==
    ASSUME WatchInv, NEW u \in User, NEW id \in Id, BeginEdit(u, id)
    PROVE  WatchInv'
<1>1. UNCHANGED <<storeVars, listVars, dockerVars, watcherVars, historyVars>>
  BY DEF BeginEdit, Begin
<1>2. PICK r : /\ r = [op |-> "edit", id |-> id, svc |-> idIdx[id]]
               /\ req' = [req EXCEPT ![u] = r]
  BY DEF BeginEdit, Begin
<1>3. id \in LiveIds /\ idIdx[id] \in Addable
  BY DEF BeginEdit, WatchInv, StoreInv, AllAddable, LiveIds
<1>4. HeldBy(r)' /\ r.op = "edit" /\ r.svc = idIdx[id]
  BY <1>1, <1>2, <1>3 DEF HeldBy, storeVars
<1>5. StoreInv' /\ EntriesInv' /\ IndexHasAll'
  BY <1>1, StoreFrame, EntriesFrame
     DEF WatchInv, storeVars, IndexHasAll, LiveIds, Live, historyVars
<1>6. \A i \in Id : Live(i)' => Live(i) /\ idIdx'[i].source = idIdx[i].source
  BY <1>1 DEF storeVars, Live
<1>7. RequestsHeld
  BY DEF WatchInv
<1>8. /\ RequestsHeld'
      /\ \A c \in Cid : ~Holds(c) => ~Holds(c)' \/ idIdx[id].cid = c
  <2>1. req' = [req EXCEPT ![u] = r]
    BY <1>2
  <2>2. /\ RequestsHeld'
        /\ \A c \in Cid : ~Holds(c) =>
               \/ ~Holds(c)'
               \/ r.op = "assign" /\ r.entry.cid = c
               \/ r.op \in {"edit", "delete"} /\ r.svc.cid = c
    BY ONLY <1>4, <1>6, <1>7, <2>1, RequestsStep, u \in User
  <2> QED BY ONLY <1>4, <2>2
<1>9. ASSUME NEW c \in Cid \ loose', Settled(c)
      PROVE  /\ containerIDIdx'[c] = NoId /\ ~Holds(c)'
             /\ ~ContainerListed(c) => ~ContainerListed(c)'
  <2>1. containerIDIdx[c] = NoId /\ ~Holds(c) /\ c \notin loose
    BY <1>1, <1>9, SettledIsFree DEF historyVars
  <2>2. idIdx[id].cid # c
    BY <1>3, <2>1, FreedIsOnNoService
  <2> QED BY <1>1, <1>8, <2>1, <2>2 DEF storeVars, listVars, ContainerListed
<1> QED BY <1>1, <1>5, <1>6, <1>8, <1>9, RequestFrame
        DEF WatchInv, WatcherTyped, historyVars

\* updateService writes back what it read.
LEMMA FinishEditKeeps == ASSUME WatchInv, NEW u \in User, FinishEdit(u) PROVE WatchInv'
<1> USE DEF FinishEdit, Finish, Give
<1>1. UNCHANGED <<listVars, dockerVars, watcherVars, missed>>
  BY DEF historyVars
<1>2. PICK id \in Id, svc \in Addable : id = req[u].id /\ svc = req[u].svc
  BY DEF WatchInv, RequestsHeld, HeldBy
<1>3. Live(id) => idIdx[id].source = svc.source
  BY <1>2 DEF WatchInv, RequestsHeld, HeldBy
<1>4. Holds(svc.cid)
  BY <1>2 DEF Holds
<1>5. EntriesInv' /\ \A c \in Cid : ~ContainerListed(c) => ~ContainerListed(c)'
  BY <1>1, EntriesFrame DEF WatchInv, listVars, ContainerListed
<1>6. PICK r : r = Idle
  OBVIOUS
<1>7. HeldBy(r)' /\ r.op = "none" /\ req' = [req EXCEPT ![u] = r]
  BY <1>6 DEF HeldBy, Idle
<1>8. /\ StoreInv' /\ IndexHasAll'
      /\ loose' \in SUBSET Cid /\ loose \subseteq loose'
      /\ \A c \in Cid : containerIDIdx[c] = NoId /\ c # svc.cid => containerIDIdx'[c] = NoId
      /\ \A i \in Id : Live(i)' => Live(i) /\ idIdx'[i].source = idIdx[i].source
  <2>1. CASE Live(id)
    <3>1. svc \in Replacements(id) /\ UpdateService(id, svc) /\ Attach(svc.cid, id)
      BY <1>2, <1>3, <2>1 DEF Replacements
    <3> QED BY <1>3, <2>1, <3>1, UpdateServiceKeeps DEF WatchInv, WatcherTyped, Live
  <2>2. CASE ~Live(id)
    <3>1. UNCHANGED storeVars /\ loose' = loose
      BY <1>2, <2>2 DEF UpdateService, historyVars
    <3> QED BY <3>1, StoreFrame DEF WatchInv, WatcherTyped, storeVars, IndexHasAll, Live
  <2> QED BY <2>1, <2>2
<1>9. RequestsHeld' /\ \A c \in Cid : ~Holds(c) => ~Holds(c)'
  BY <1>7, <1>8, RequestsStep DEF WatchInv
<1>10. doubled' \in SUBSET (CName \cup {NoName}) /\ arrived' \in SUBSET Id
  <2>1. svc.data.home \in CName \cup {NoName}
    BY <1>2, DockerAssumption DEF Addable, Service
  <2> QED BY <1>2, <2>1 DEF WatchInv, WatcherTyped, Associate, historyVars
<1>11. \A c \in Cid \ loose' : Settled(c) =>
           /\ containerIDIdx'[c] = NoId /\ ~Holds(c)'
           /\ ~ContainerListed(c) => ~ContainerListed(c)'
  BY <1>4, <1>5, <1>8, <1>9, SettledIsFree
<1> QED BY <1>1, <1>5, <1>8, <1>9, <1>10, <1>11, RequestFrame

\* deleteService takes the service out first.
LEMMA BeginDeleteKeeps ==
    ASSUME WatchInv, NEW u \in User, NEW id \in Id, BeginDelete(u, id)
    PROVE  WatchInv'
<1> USE DEF BeginDelete, Begin
<1>1. UNCHANGED <<listVars, dockerVars, watcherVars, historyVars>>
  OBVIOUS
<1>2. PICK r : r = [op |-> "delete", svc |-> idIdx[id]]
  OBVIOUS
<1>3. id \in LiveIds /\ idIdx[id] \in Addable
  BY DEF WatchInv, StoreInv, AllAddable, LiveIds
<1>4. HeldBy(r)' /\ r.op = "delete" /\ r.svc = idIdx[id]
  BY <1>2, <1>3 DEF HeldBy
<1>5. StoreInv' /\ IndexHasAll' /\ OnlyLoses
  BY <1>1, DeleteServiceKeeps DEF WatchInv, historyVars
<1>6. EntriesInv' /\ \A c \in Cid : ~ContainerListed(c) => ~ContainerListed(c)'
  BY <1>1, EntriesFrame DEF WatchInv, listVars, ContainerListed
<1>7. req' = [req EXCEPT ![u] = r]
  BY <1>2
<1>8. /\ RequestsHeld'
      /\ \A c \in Cid : ~Holds(c) => ~Holds(c)' \/ idIdx[id].cid = c
  <2>1. \A i \in Id : Live(i)' => Live(i) /\ idIdx'[i].source = idIdx[i].source
    BY <1>5 DEF OnlyLoses
  <2> QED BY ONLY WatchInv, u \in User, <1>4, <1>7, <2>1, RequestsStep DEF WatchInv
<1>9. ASSUME NEW c \in Cid \ loose', Settled(c)
      PROVE  /\ containerIDIdx'[c] = NoId /\ ~Holds(c)'
             /\ ~ContainerListed(c) => ~ContainerListed(c)'
  <2>1. containerIDIdx[c] = NoId /\ ~Holds(c) /\ c \in Cid \ loose
    BY <1>1, <1>9, SettledIsFree DEF historyVars
  <2>2. idIdx[id].cid # c
    BY <1>3, <2>1, FreedIsOnNoService
  <2> QED BY <1>5, <1>6, <1>8, <2>1, <2>2 DEF OnlyLoses
<1>10. /\ loose' \in SUBSET Cid /\ loose \subseteq loose' /\ arrived' \in SUBSET Id
       /\ doubled' \in SUBSET (CName \cup {NoName}) /\ missed' = missed
  BY <1>1 DEF WatchInv, WatcherTyped, historyVars
<1>11. \A i \in Id : Live(i)' => Live(i) /\ idIdx'[i].source = idIdx[i].source
  BY <1>5 DEF OnlyLoses
<1> QED BY <1>1, <1>5, <1>6, <1>8, <1>9, <1>10, <1>11, RequestFrame

\* deleteService offers the container again.
LEMMA FinishDeleteKeeps == ASSUME WatchInv, NEW u \in User, FinishDelete(u) PROVE WatchInv'
<1> USE DEF FinishDelete, Finish
<1>1. UNCHANGED <<storeVars, ignoredVars, dockerVars, watcherVars, loose, doubled, arrived, missed>>
  BY DEF historyVars
<1>2. PICK svc \in Addable : svc = req[u].svc
  BY DEF WatchInv, RequestsHeld, HeldBy
<1>3. Holds(svc.cid)
  BY <1>2 DEF Holds
<1>4. StoreInv' /\ IndexHasAll'
  BY <1>1, StoreFrame DEF WatchInv, storeVars, IndexHasAll, LiveIds, Live
<1>5. EntriesInv' /\ \A c \in Cid : ~ContainerListed(c) /\ c # svc.cid => ~ContainerListed(c)'
  <2>1. CASE svc.source # "docker" \/ svc.cid = NoCid
    BY <1>1, <1>2, <2>1, EntriesFrame
       DEF WatchInv, listVars, ignoredVars, discoveredVars, ContainerListed
  <2>2. CASE svc.source = "docker" /\ svc.cid # NoCid
    <3>1. PICK did \in Did :
              /\ NewDid(did)
              /\ AddDiscovered(did, [addr |-> NoAddr, source |-> "docker",
                                     cid |-> svc.cid, name |-> svc.name,
                                     info |-> CHOOSE info \in Info : TRUE])
      BY <1>2, <2>2
    <3>2. PICK entry : entry = [addr |-> NoAddr, source |-> "docker",
                                cid |-> svc.cid, name |-> svc.name,
                                info |-> CHOOSE info \in Info : TRUE]
      OBVIOUS
    <3>3. entry \in ContainerEntries /\ Bare(entry) /\ entry.cid = svc.cid
      BY <2>2, <3>2, DockerAssumption DEF ContainerEntries, Entry, Bare, Addable, Service
    <3>4. AddDiscovered(did, entry) /\ Unused(did)
      BY <3>1, <3>2 DEF NewDid, FreeDid
    <3>5. /\ \A d \in discovered' : Bare(discoveredIdx'[d])
          /\ \A c \in Cid : ~ContainerListed(c) /\ c # svc.cid => ~ContainerListed(c)'
      BY <3>3, <3>4, AddLists DEF WatchInv, ContainerEntries, Unused
    <3>6. EntriesInv'
      BY <1>1, <3>3, <3>4, <3>5, EntriesKeep DEF WatchInv, ListsNext
    <3> QED BY <3>5, <3>6
  <2> QED BY <2>1, <2>2
<1>6. PICK r : r = Idle
  OBVIOUS
<1>7. HeldBy(r)' /\ r.op = "none" /\ req' = [req EXCEPT ![u] = r]
  BY <1>6 DEF HeldBy, Idle
<1>8. \A i \in Id : Live(i)' => Live(i) /\ idIdx'[i].source = idIdx[i].source
  BY <1>1 DEF storeVars, Live
<1>9. RequestsHeld' /\ \A c \in Cid : ~Holds(c) => ~Holds(c)'
  BY <1>7, <1>8, RequestsStep DEF WatchInv
<1>10. \A c \in Cid \ loose' : Settled(c) =>
           /\ containerIDIdx'[c] = NoId /\ ~Holds(c)'
           /\ ~ContainerListed(c) => ~ContainerListed(c)'
  BY <1>1, <1>3, <1>5, <1>9, SettledIsFree DEF storeVars
<1> QED BY <1>1, <1>4, <1>5, <1>8, <1>9, <1>10, RequestFrame DEF WatchInv, WatcherTyped

\* What a user takes off a list, or back from the ignored ones, has no
\* container.
LEMMA DismissKeeps == ASSUME WatchInv, NEW did \in Did, Dismiss(did) PROVE WatchInv'
<1> USE DEF Dismiss
<1>1. UNCHANGED <<storeVars, dockerVars, watcherVars, req, loose, doubled, arrived, missed>>
  BY DEF historyVars
<1>2. DiscoveredInv /\ IgnoredInv /\ discovered \cap ignored = {} /\ discovered \subseteq Did
  BY DEF WatchInv, EntriesInv, ListsInv, DiscoveredInv, DiscoveredTypeOK
<1>3. EntriesInv' /\ \A c \in Cid : ~ContainerListed(c) => ~ContainerListed(c)'
  <2>1. CASE RemoveDiscovered(did) /\ UNCHANGED ignoredVars
    <3>1. {did} \cap discovered \in SUBSET Did
      OBVIOUS
    <3>2. /\ \A d \in discovered' : Bare(discoveredIdx'[d])
          /\ \A c \in Cid : ~ContainerListed(c) => ~ContainerListed(c)'
      BY <2>1, <3>1, UnlistLeaves DEF RemoveDiscovered, WatchInv
    <3> QED BY <2>1, <3>2, EntriesKeep DEF WatchInv, ListsNext
  <2>2. CASE IgnoreDiscovered(did)
    <3>1. /\ \A d \in discovered' : Bare(discoveredIdx'[d])
          /\ \A c \in Cid : ~ContainerListed(c) => ~ContainerListed(c)'
      BY <2>2, UnlistLeaves DEF IgnoreDiscovered, WatchInv
    <3> QED BY <2>2, <3>1, EntriesKeep DEF WatchInv, ListsNext
  <2>3. CASE \E info \in Info : unignoreService(did, info)
    <3>1. PICK info \in Info : unignoreService(did, info)
      BY <2>3
    <3>2. did \in ignored /\ ignoredIdx[did] \in Addr
      BY <1>2, <3>1, UnignoreKeeps
         DEF unignoreService, UnignoreService, IgnoredInv, IgnoredTypeOK
    <3>3. PICK entry : entry = [addr |-> ignoredIdx[did], source |-> "network",
                                cid |-> NoCid, name |-> NoName, info |-> info]
      OBVIOUS
    <3>4. entry \in Entry /\ Bare(entry) /\ entry.cid = NoCid /\ AddDiscovered(did, entry)
      BY <3>1, <3>2, <3>3 DEF Entry, Bare, unignoreService
    <3>5. /\ \A d \in discovered' : Bare(discoveredIdx'[d])
          /\ \A c \in Cid : ~ContainerListed(c) => ~ContainerListed(c)'
      BY <1>2, <3>2, <3>4, AddLists, NullsAssumption DEF WatchInv
    <3> QED BY <3>1, <3>5, EntriesKeep DEF WatchInv, ListsNext
  <2> QED BY <2>1, <2>2, <2>3
<1>4. StoreInv' /\ IndexHasAll'
  BY <1>1, StoreFrame DEF WatchInv, storeVars, IndexHasAll, LiveIds, Live
<1>5. RequestsHeld' /\ \A c \in Cid : Holds(c)' = Holds(c)
  BY <1>1, RequestsStay DEF WatchInv, storeVars, Live
<1>6. \A c \in Cid \ loose' : Settled(c) =>
           /\ containerIDIdx'[c] = NoId /\ ~Holds(c)'
           /\ ~ContainerListed(c) => ~ContainerListed(c)'
  BY <1>1, <1>3, <1>5, SettledIsFree DEF storeVars
<1>7. \A i \in Id : Live(i)' => Live(i) /\ idIdx'[i].source = idIdx[i].source
  BY <1>1 DEF storeVars, Live
<1> QED BY <1>1, <1>3, <1>4, <1>5, <1>6, <1>7, RequestFrame DEF WatchInv, WatcherTyped
-----------------------------------------------------------------------------
(* The theorems *)

\* No container, no service, and a watcher about to ask.
LEMMA WatchInitHolds == DockerInit => WatchInv
<1> SUFFICES ASSUME DockerInit PROVE WatchInv
  OBVIOUS
<1> USE DEF DockerInit
<1>1. LiveIds = {} /\ StoreInv
  BY InitType DEF Init, StoreInv, IndexSound, SubdomainSound, ContainerIDSound,
                  ContainerNameSound, AllAddable, LiveIds, Live
<1>2. EntriesInv
  BY ListsInitHolds DEF ListsInit, EntriesInv
<1>3. WatcherTyped /\ JobHeld /\ TargetHeld
  <2>1. events \in Seq(Event)
    OBVIOUS
  <2>2. daemon \in [Cid -> {"none", "up", "down", "gone"}]
    OBVIOUS
  <2>3. job.cid = NoCid /\ todo = {} /\ pc = "list"
    BY DEF Nobody
  <2>4. JobHeld /\ TargetHeld
    BY <2>3 DEF JobHeld, TargetHeld, Resolved
  <2> QED BY <2>1, <2>2, <2>3, <2>4 DEF WatcherTyped, Label
<1>4. RequestsHeld
  BY DEF RequestsHeld, HeldBy, Idle
<1>5. IndexHasAll /\ EndsHeard
  BY <1>1 DEF IndexHasAll, EndsHeard, Ended
<1> QED BY <1>1, <1>2, <1>3, <1>4, <1>5 DEF WatchInv

\* Every step, by the lemma of its action.
LEMMA WatchNextKeeps == WatchInv /\ [DockerNext]_vars => WatchInv'
<1> SUFFICES ASSUME WatchInv, [DockerNext]_vars PROVE WatchInv'
  OBVIOUS
<1>1. CASE Environment
  BY <1>1, RunKeeps, EndKeeps, BreakKeeps, RestartKeeps DEF Environment
<1>2. CASE Watch
  BY <1>2, ListKeeps, SyncKeeps, ConnectKeeps, TakeStartKeeps, InspectKeeps,
     InspectFailsKeeps, TakeEndKeeps, ForgetKeeps, ByNameKeeps, BySubdomainKeeps,
     ReattachKeeps, OfferKeeps, AddOfferKeeps DEF Watch
<1>3. CASE Requests
  BY <1>3, BeginAssignKeeps, BeginEditKeeps, BeginDeleteKeeps, StoreAssignedKeeps,
     FinishAssignKeeps, FinishEditKeeps, FinishDeleteKeeps, DismissKeeps DEF Requests
<1>4. CASE UNCHANGED vars
  <2>1. /\ UNCHANGED <<storeVars, listVars, dockerVars, watcherVars, req, historyVars>>
        /\ UNCHANGED <<daemon, stream, events, pc, todo, job, loose, doubled, arrived, missed>>
    BY <1>4 DEF vars, dockerVars, watcherVars, historyVars
  <2>2. \A c \in Cid : Settled(c) => Settled(c)'
    BY <2>1, StaysSettled, SettledFacts DEF NoStart
  <2>3. EndsHeard'
    BY <2>1, <2>2, EndsStay DEF WatchInv
  <2> QED BY <2>1, <2>3, DaemonFrame DEF WatchInv, WatcherTyped
<1> QED BY <1>1, <1>2, <1>3, <1>4 DEF DockerNext

\* What the theorems below are read off from.
LEMMA WatchInvariant == DockerSpec => []WatchInv
BY WatchInitHolds, WatchNextKeeps, PTL DEF DockerSpec

\* However the watcher's reads and writes fall between those of the users,
\* what it writes has the types of the store's fields, and it is never without
\* a container to place.
THEOREM DockerTyped == DockerSpec => []DockerTypeOK
<1>1. WatchInv => DockerTypeOK
  <2> SUFFICES ASSUME WatchInv PROVE DockerTypeOK
    OBVIOUS
  <2>1. TypeOK /\ ListsTypeOK
    BY DEF WatchInv, StoreInv, EntriesInv, ListsInv, DiscoveredInv, IgnoredInv,
           DiscoveredTypeOK, IgnoredTypeOK, ListsTypeOK
  <2>2. job.cid \in Cid \cup {NoCid}
    BY DEF WatchInv, WatcherTyped, JobHeld, Label, Resolved
  <2> QED BY <2>1, <2>2
          DEF WatchInv, WatcherTyped, Event, Label, Resolved, DockerTypeOK
<1> QED BY <1>1, WatchInvariant, PTL

\* The watcher's detachments and reattachments and the users' assignments,
\* edits and deletions leave no entry behind in the store's lookup maps, and
\* the lists as exact as they are when one caller uses them.
THEOREM WatcherKeepsMaps == DockerSpec => [](IndexSound /\ ListsExact)
<1>1. WatchInv => IndexSound /\ ListsExact
  BY DEF WatchInv, StoreInv, EntriesInv, ListsInv, DiscoveredInv, IgnoredInv,
         DiscoveredMatches, IgnoredMatches, ListsExact, SliceMatchesMap
<1> QED BY <1>1, WatchInvariant, PTL

\* Once the watcher has handled the end of a container, with both calls of
\* detachContainer, no service is attached to it and no list offers it, whatever
\* start events were still in line before it and whatever users did before,
\* between the two calls and after, with the exceptions of loose.
THEOREM EndedAreDetached == DockerSpec => []DeadAreDetached
<1>1. WatchInv => DeadAreDetached
  <2> SUFFICES ASSUME WatchInv, NEW cid \in Cid \ loose, Ended(cid), ~EndPending(cid)
               PROVE  /\ \A id \in LiveIds : idIdx[id].cid # cid
                      /\ \A did \in discovered : discoveredIdx[did].cid # cid
    BY DEF DeadAreDetached
  <2>1. Forgotten(cid)
    BY DEF WatchInv, EndsHeard, EndAwaited, EndPending, EndOnItsWay, End, Settled
  <2> QED BY <2>1, FreedIsOnNoService, UnlistedIsOnNoEntry DEF Forgotten, Freed
<1> QED BY <1>1, WatchInvariant, PTL

-----------------------------------------------------------------------------
(***************************************************************************)
(* Names.  A service is found again by the container name it stores, which *)
(* is the display name of the container it was assigned from.  For names   *)
(* that no lantern.name label interferes with, the two agree wherever a    *)
(* name is held, and containerNameIdx finds every service but those that   *)
(* share their name.                                                       *)
(***************************************************************************)
Agree(shown, name) == \A n \in CName : ShownAsNamed(n) => (shown = n <=> name = n)

ServiceNamed(svc) ==
    /\ Agree(svc.name, svc.data.home)
    /\ svc.cid # NoCid => Agree(svc.name, Labels[svc.cid].name)
    /\ svc.source # "docker" => svc.data.home = NoName

EntryNamed(entry) == Agree(entry.name, HomeOf(entry))

RequestNamed(r) ==
    /\ r.op = "assign" => EntryNamed(r.entry)
    /\ r.op \in {"edit", "delete"} => ServiceNamed(r.svc)

ServicesNamed == \A id \in LiveIds : ServiceNamed(idIdx[id])

EntriesNamed == \A did \in discovered : EntryNamed(discoveredIdx[did])

RequestsNamed == \A u \in User : RequestNamed(req[u])

JobNamed ==
    /\ pc \in Resolved => job.info.title = DisplayName(Labels[job.cid])
    /\ pc = "reattach" =>
           ServiceNamed(job.svc) /\ job.svc.data.home = Labels[job.cid].name

\* The name is free of labels, and one service at most has ever had it at a time.
Single(name) == name \in CName \ doubled /\ ShownAsNamed(name)

NameIndexHasAll ==
    \A id \in LiveIds : Single(idIdx[id].data.home)
                            => containerNameIdx[idIdx[id].data.home] = id

\* After the watcher's lookup, who has the name has it from a request.
OnlyArrived ==
    LET name == Labels[job.cid].name IN
    Unfound /\ Single(name) => AssignedFrom(name) \subseteq arrived

NamesInv ==
    /\ ServicesNamed /\ EntriesNamed /\ RequestsNamed /\ JobNamed
    /\ NameIndexHasAll /\ OnlyArrived

\* A name agrees with itself, and a display name with the name it is shown for.
LEMMA AgreeFacts ==
    /\ \A name : Agree(name, name)
    /\ \A cid \in Cid : Agree(DisplayName(Labels[cid]), Labels[cid].name)
BY DEF Agree, ShownAsNamed

\* What the proofs below use of the store.
LEMMA NamedService ==
    ASSUME StoreInv, ServicesNamed, NEW id \in LiveIds, Single(idIdx[id].data.home)
    PROVE  /\ id \in Id /\ idIdx[id].source = "docker"
           /\ idIdx[id].name = idIdx[id].data.home
<1>1. ServiceNamed(idIdx[id]) /\ idIdx[id].data.home # NoName
  BY NullsAssumption DEF ServicesNamed, Single
<1>2. idIdx[id] \in Service
  BY DEF StoreInv, AllAddable, Addable
<1> QED BY <1>1, <1>2 DEF ServiceNamed, Agree, Single, LiveIds

\* AddService.
LEMMA AddServiceNames ==
    ASSUME StoreInv, ServicesNamed, NameIndexHasAll,
           NEW id \in Id, NEW svc \in Addable, ServiceNamed(svc),
           AddService(id, svc), Associate(svc.data.home, id)
    PROVE  ServicesNamed' /\ NameIndexHasAll'
<1> USE DEF StoreInv
<1>0. svc # NoService
  BY NoServiceAssumption DEF Addable
<1>1. \A i \in Id : idIdx'[i] = IF i = id THEN svc ELSE idIdx[i]
  BY DEF AddService, Put, TypeOK
<1>2. LiveIds' = LiveIds \cup {id} /\ id \notin LiveIds
  BY <1>0, <1>1 DEF AddService, LiveIds, Live
<1>3. ServicesNamed'
  BY <1>1, <1>2 DEF ServicesNamed, LiveIds, ServiceNamed, Agree
<1>4. \A n \in CName : containerNameIdx'[n] =
          IF svc.source = "docker" /\ n = svc.name THEN id ELSE containerNameIdx[n]
  BY DEF AddService, IndexName, Put, TypeOK
<1>5. doubled \subseteq doubled'
  BY DEF Associate
<1>6. ASSUME NEW i \in LiveIds', NEW n \in CName, n = idIdx'[i].data.home,
             n \notin doubled', ShownAsNamed(n)
      PROVE  containerNameIdx'[n] = i
  <2>1. Single(n) /\ ShownAsNamed(n) /\ n = idIdx'[i].data.home
    BY <1>5, <1>6 DEF Single
  <2>2. CASE i = id
    <3>1. n = svc.data.home /\ svc.source = "docker" /\ svc.name = n
      BY <1>1, <2>1, <2>2, NullsAssumption DEF ServiceNamed, Agree
    <3> QED BY <1>4, <2>1, <2>2, <3>1
  <2>3. CASE i # id
    <3>1. i \in LiveIds /\ i \in Id /\ n = idIdx[i].data.home
      BY <1>1, <1>2, <2>1, <2>3 DEF LiveIds
    <3>2. containerNameIdx[n] = i
      BY <2>1, <3>1 DEF NameIndexHasAll
    <3>3. svc.data.home # n
      BY <1>6, <2>1, <2>3, <3>1 DEF Associate, AssignedFrom
    <3>4. svc.name # n
      BY <2>1, <3>3 DEF ServiceNamed, Agree
    <3> QED BY <1>4, <2>1, <3>2, <3>4
  <2> QED BY <2>2, <2>3
<1> QED BY <1>3, <1>6 DEF NameIndexHasAll, Single

\* UpdateService of a service that is there, by a request that brings a name
\* back or by the watcher, which has found the name free.
LEMMA UpdateServiceNames ==
    ASSUME StoreInv, ServicesNamed, NameIndexHasAll,
           NEW id \in Id, Live(id), NEW svc \in Addable, ServiceNamed(svc),
           UpdateService(id, svc), doubled \subseteq doubled',
           Single(svc.data.home)' => AssignedFrom(svc.data.home) \subseteq {id}
    PROVE  ServicesNamed' /\ NameIndexHasAll'
<1> USE DEF StoreInv
<1>0. svc # NoService
  BY NoServiceAssumption DEF Addable
<1>1. \A i \in Id : idIdx'[i] = IF i = id THEN svc ELSE idIdx[i]
  BY DEF UpdateService, Put, TypeOK
<1>2. LiveIds' = LiveIds /\ id \in LiveIds
  BY <1>0, <1>1 DEF LiveIds, Live
<1>3. ServicesNamed'
  BY <1>1, <1>2 DEF ServicesNamed, LiveIds, ServiceNamed, Agree
<1>4. \A n \in CName : containerNameIdx'[n] =
          IF svc.source = "docker" /\ n = svc.name THEN id
          ELSE IF n = idIdx[id].name THEN NoId ELSE containerNameIdx[n]
  BY DEF UpdateService, IndexName, UnindexName, Put, TypeOK
<1>6. ASSUME NEW i \in LiveIds', NEW n \in CName, n = idIdx'[i].data.home,
             n \notin doubled', ShownAsNamed(n)
      PROVE  containerNameIdx'[n] = i
  <2>1. Single(n) /\ ShownAsNamed(n) /\ n = idIdx'[i].data.home
    BY <1>6 DEF Single
  <2>2. CASE i = id
    <3>1. n = svc.data.home /\ svc.source = "docker" /\ svc.name = n
      BY <1>1, <2>1, <2>2, NullsAssumption DEF ServiceNamed, Agree
    <3> QED BY <1>4, <2>1, <2>2, <3>1
  <2>3. CASE i # id
    <3>1. i \in LiveIds /\ i \in Id /\ n = idIdx[i].data.home
      BY <1>1, <1>2, <2>1, <2>3 DEF LiveIds
    <3>2. containerNameIdx[n] = i
      BY <2>1, <3>1 DEF NameIndexHasAll
    <3>3. svc.data.home # n
      BY <1>6, <2>3, <3>1 DEF AssignedFrom, Single
    <3>4. svc.name # n
      BY <2>1, <3>3 DEF ServiceNamed, Agree
    <3>5. idIdx[id].data.home # n
      BY <1>2, <2>1, <2>3, <3>2 DEF NameIndexHasAll
    <3>6. idIdx[id].name # n
      BY <1>2, <2>1, <3>5 DEF ServicesNamed, ServiceNamed, Agree
    <3> QED BY <1>4, <2>1, <3>2, <3>4, <3>6
  <2> QED BY <2>2, <2>3
<1> QED BY <1>3, <1>6 DEF NameIndexHasAll, Single

\* DeleteService.
LEMMA DeleteServiceNames ==
    ASSUME StoreInv, ServicesNamed, NameIndexHasAll,
           NEW id \in Id, Live(id), DeleteService(id), doubled' = doubled
    PROVE  ServicesNamed' /\ NameIndexHasAll'
<1> USE DEF StoreInv
<1>1. \A i \in Id : idIdx'[i] = IF i = id THEN NoService ELSE idIdx[i]
  BY DEF DeleteService, Put, TypeOK
<1>2. LiveIds' = LiveIds \ {id} /\ id \in LiveIds
  BY <1>1 DEF LiveIds, Live
<1>3. ServicesNamed'
  BY <1>1, <1>2 DEF ServicesNamed, LiveIds, ServiceNamed, Agree
<1>4. \A n \in CName : containerNameIdx'[n] =
          IF n = idIdx[id].name THEN NoId ELSE containerNameIdx[n]
  BY DEF DeleteService, UnindexName, Put, TypeOK
<1>5. ASSUME NEW i \in LiveIds', NEW n \in CName, n = idIdx'[i].data.home,
             n \notin doubled', ShownAsNamed(n)
      PROVE  containerNameIdx'[n] = i
  <2>1. Single(n) /\ ShownAsNamed(n) /\ n = idIdx'[i].data.home
    BY <1>5 DEF Single
  <2>2. i \in LiveIds /\ i \in Id /\ i # id /\ n = idIdx[i].data.home
    BY <1>1, <1>2, <2>1 DEF LiveIds
  <2>3. containerNameIdx[n] = i
    BY <2>1, <2>2 DEF NameIndexHasAll
  <2>4. idIdx[id].data.home # n
    BY <1>2, <2>1, <2>2, <2>3 DEF NameIndexHasAll
  <2>5. idIdx[id].name # n
    BY <1>2, <2>1, <2>4 DEF ServicesNamed, ServiceNamed, Agree
  <2> QED BY <1>4, <2>1, <2>3, <2>5
<1> QED BY <1>3, <1>5 DEF NameIndexHasAll, Single

\* ClearContainerID keeps the name association.
LEMMA ClearNames ==
    ASSUME StoreInv, ServicesNamed, NameIndexHasAll,
           NEW cid \in Cid, ClearContainerID(cid), doubled' = doubled
    PROVE  ServicesNamed' /\ NameIndexHasAll'
<1> USE DEF StoreInv
<1>1. CASE containerIDIdx[cid] = NoId
  BY <1>1 DEF ClearContainerID, storeVars, ServicesNamed, NameIndexHasAll, LiveIds, Live,
              ServiceNamed, Agree, Single, ShownAsNamed
<1>2. CASE containerIDIdx[cid] # NoId
  <2>1. PICK id \in Id : id = containerIDIdx[cid]
    BY <1>2 DEF TypeOK
  <2>2. Live(id) /\ idIdx[id] \in Service
    BY <1>2, <2>1 DEF IndexSound, ContainerIDSound, AllAddable, Addable, LiveIds
  <2>3. PICK svc : svc = [idIdx[id] EXCEPT !.cid = NoCid]
    OBVIOUS
  <2>4. /\ svc.cid = NoCid /\ svc.source = idIdx[id].source /\ svc.name = idIdx[id].name
        /\ svc.data = idIdx[id].data /\ svc \in Service /\ svc # NoService
    BY <2>2, <2>3, NoServiceAssumption DEF Service
  <2>5. \A i \in Id : idIdx'[i] = IF i = id THEN svc ELSE idIdx[i]
    BY <1>2, <2>1, <2>3 DEF ClearContainerID, Put, TypeOK
  <2>6. LiveIds' = LiveIds /\ id \in LiveIds /\ containerNameIdx' = containerNameIdx
    BY <1>2, <2>2, <2>4, <2>5 DEF ClearContainerID, LiveIds, Live
  <2>7. \A i \in LiveIds : idIdx'[i].data.home = idIdx[i].data.home
    BY <2>4, <2>5 DEF LiveIds
  <2>8. ServicesNamed'
    BY <2>4, <2>5, <2>6 DEF ServicesNamed, LiveIds, ServiceNamed, Agree
  <2> QED BY <2>6, <2>7, <2>8 DEF NameIndexHasAll, Single, ShownAsNamed
<1> QED BY <1>1, <1>2

\* rebuildIndexes gives each name the one service that has it.
LEMMA RebuildNames ==
    ASSUME StoreInv, ServicesNamed, NameIndexHasAll, rebuildIndexes, doubled' = doubled
    PROVE  ServicesNamed' /\ NameIndexHasAll'
<1>1. LiveIds' = Saved /\ Saved \subseteq LiveIds /\ \A i \in Saved : idIdx'[i] = idIdx[i]
  BY DEF rebuildIndexes, LiveIds, Live, Saved
<1>2. ServicesNamed'
  BY <1>1 DEF ServicesNamed, ServiceNamed, Agree
<1>3. ASSUME NEW i \in LiveIds', NEW n \in CName, n = idIdx'[i].data.home,
             n \notin doubled', ShownAsNamed(n)
      PROVE  containerNameIdx'[n] = i
  <2> DEFINE holders == {id \in Saved : idIdx[id].source = "docker" /\ idIdx[id].name = n}
  <2>1. /\ Single(n) /\ ShownAsNamed(n)
        /\ i \in Saved /\ n = idIdx[i].data.home
    BY <1>1, <1>3 DEF Single
  <2>2. i \in holders
    BY <1>1, <2>1, NamedService
  <2>3. \A j \in holders : j = i
    <3> SUFFICES ASSUME NEW j \in holders PROVE j = i
      OBVIOUS
    <3>1. idIdx[j].data.home = n
      BY <1>1, <2>1 DEF ServicesNamed, ServiceNamed, Agree
    <3> QED BY <1>1, <2>1, <3>1 DEF NameIndexHasAll
  <2>4. containerNameIdx'[n] \in holders
    BY <2>1, <2>2 DEF rebuildIndexes, IsRebuiltNameIdx
  <2> QED BY <2>3, <2>4
<1> QED BY <1>2, <1>3 DEF NameIndexHasAll, Single

-----------------------------------------------------------------------------
(* The names in the lists and in requests *)

\* What leaves the lists, or comes from them, is named as before.
LEMMA UnlistNames ==
    ASSUME EntriesInv, EntriesNamed, NEW dids \in SUBSET Did, unlist(dids)
    PROVE  EntriesNamed'
<1>1. \A did \in discovered' : did \in discovered /\ discoveredIdx'[did] = discoveredIdx[did]
  BY DEF unlist, EntriesInv, ListsInv, DiscoveredInv, DiscoveredTypeOK
<1> QED BY <1>1 DEF EntriesNamed, EntryNamed, Agree, HomeOf

\* AddDiscovered.
LEMMA AddNames ==
    ASSUME EntriesInv, EntriesNamed, NEW did \in Did, NEW entry, EntryNamed(entry),
           AddDiscovered(did, entry)
    PROVE  EntriesNamed'
<1>1. \A d \in discovered' :
          \/ d \in discovered /\ discoveredIdx'[d] = discoveredIdx[d]
          \/ discoveredIdx'[d] = entry
  BY DEF AddDiscovered, indexDiscovered, discoveredVars, Put, EntriesInv, ListsInv,
         DiscoveredInv, DiscoveredTypeOK
<1> QED BY <1>1 DEF EntriesNamed, EntryNamed, Agree, HomeOf

\* A request that begins or ends.
LEMMA RequestNames ==
    ASSUME WatchInv, RequestsNamed, NEW u \in User, NEW r, RequestNamed(r),
           req' = [req EXCEPT ![u] = r]
    PROVE  RequestsNamed'
<1>1. \A v \in User : req'[v] = IF v = u THEN r ELSE req[v]
  BY DEF WatchInv, RequestsHeld
<1> QED BY <1>1 DEF RequestsNamed, RequestNamed, EntryNamed, ServiceNamed, Agree, HomeOf

-----------------------------------------------------------------------------
(* The steps *)

NamesFrame == UNCHANGED <<storeVars, listVars, req, doubled>>

\* The daemon's steps, and those of the watcher between two writes.
LEMMA FramedNames ==
    ASSUME NamesInv, NamesFrame, JobNamed', OnlyArrived'
    PROVE  NamesInv'
BY DEF NamesInv, NamesFrame, storeVars, listVars, ServicesNamed, EntriesNamed, RequestsNamed,
       NameIndexHasAll, LiveIds, Live, ServiceNamed, EntryNamed, RequestNamed, Agree, HomeOf,
       Single, ShownAsNamed

\* Who comes to have the name after the watcher's lookup has it from a request.
LEMMA ArrivedStays ==
    ASSUME OnlyArrived, UNCHANGED <<pc, job>>, doubled \subseteq doubled',
           arrived \subseteq arrived',
           \A id \in LiveIds' :
               \/ id \in LiveIds /\ idIdx'[id].data.home = idIdx[id].data.home
               \/ Unfound => id \in arrived'
    PROVE  OnlyArrived'
<1> SUFFICES ASSUME Unfound', Single(Labels[job.cid].name)',
                    NEW id \in LiveIds', idIdx'[id].data.home = Labels[job.cid].name
             PROVE  id \in arrived'
  BY DEF OnlyArrived, AssignedFrom
<1>1. Unfound /\ Single(Labels[job.cid].name)
  BY DEF Unfound, Single, ShownAsNamed
<1> QED BY <1>1 DEF OnlyArrived, AssignedFrom

\* The watcher has nothing in hand that has a name.
LEMMA NothingNamed ==
    ASSUME pc' \notin Resolved \cup {"reattach"} PROVE JobNamed' /\ OnlyArrived'
BY DEF JobNamed, OnlyArrived, Unfound, Resolved

\* What resolveContainer calls the container is its display name.
LEMMA ConsiderNames ==
    ASSUME NEW cid, NEW up, NEW back \in {"sync", "watch"}, Consider(cid, up, back)
    PROVE  JobNamed' /\ OnlyArrived'
BY DEF Consider, JobNamed, OnlyArrived, Unfound, Resolved, resolveContainer, DisplayName

\* Between two writes the watcher only reads.
LEMMA ReadNames ==
    ASSUME NamesInv,
           \/ ListContainers \/ Subscribe \/ Reconnect \/ TakeStart \/ Inspect \/ InspectFails
           \/ \E cid \in Cid : SyncNext(cid)
    PROVE  NamesInv'
<1>1. CASE ListContainers \/ Subscribe \/ Reconnect \/ TakeStart \/ InspectFails
  <2>1. NamesFrame /\ pc' \notin Resolved \cup {"reattach"}
    BY <1>1 DEF ListContainers, Subscribe, Reconnect, TakeStart, TakeEvent, TurnTo,
                InspectFails, Return, Quiet, NamesFrame, Resolved,
                historyVars, dockerVars, watcherVars
  <2> QED BY <2>1, FramedNames, NothingNamed
<1>2. CASE \E cid \in Cid : SyncNext(cid)
  BY <1>2, ConsiderNames, FramedNames DEF SyncNext, TurnTo, NamesFrame
<1>3. CASE Inspect
  BY <1>3, ConsiderNames, FramedNames DEF Inspect, Quiet, NamesFrame, historyVars
<1> QED BY <1>1, <1>2, <1>3

\* A container's end takes its ID from the service, and leaves the name.
LEMMA TakeEndNames == ASSUME WatchInv, NamesInv, TakeEnd PROVE NamesInv'
<1>1. UNCHANGED <<listVars, req, doubled>> /\ pc' = "forget" /\ events # <<>>
  BY DEF TakeEnd, TakeEvent, TurnTo
<1>2. Head(events) \in Event
  BY <1>1 DEF WatchInv, WatcherTyped
<1>3. PICK cid \in Cid : ClearContainerID(cid)
  BY <1>2 DEF TakeEnd, Event
<1>4. ServicesNamed' /\ NameIndexHasAll'
  BY <1>1, <1>3, ClearNames DEF WatchInv, NamesInv
<1>5. EntriesNamed' /\ RequestsNamed'
  BY <1>1 DEF listVars, NamesInv, EntriesNamed, RequestsNamed, RequestNamed, EntryNamed,
              ServiceNamed, Agree, HomeOf
<1> QED BY <1>1, <1>4, <1>5, NothingNamed DEF NamesInv, Resolved

\* The services' share of the names when only the lists change.
LEMMA ListedNames ==
    ASSUME NamesInv, UNCHANGED <<storeVars, req, doubled>>
    PROVE  ServicesNamed' /\ NameIndexHasAll' /\ RequestsNamed'
BY DEF storeVars, NamesInv, ServicesNamed, NameIndexHasAll, RequestsNamed, RequestNamed,
       EntryNamed, ServiceNamed, Agree, HomeOf, LiveIds, Live, Single, ShownAsNamed

\* The list forgets the container.
LEMMA ForgetNames == ASSUME WatchInv, NamesInv, Forget PROVE NamesInv'
<1>1. UNCHANGED <<storeVars, req, doubled>> /\ pc' = "watch"
  BY DEF Forget, Return, Quiet, historyVars
<1>2. EntriesNamed'
  <2>1. {did \in discovered : discoveredIdx[did].cid = job.cid} \in SUBSET Did
    BY DEF WatchInv, EntriesInv, ListsInv, DiscoveredInv, DiscoveredTypeOK
  <2> QED BY <2>1, UnlistNames
          DEF Forget, forget, RemoveDiscoveredByContainerID, WatchInv, NamesInv
<1> QED BY <1>1, <1>2, ListedNames, NothingNamed DEF NamesInv, Resolved

\* The copy of a service that has the container's name, or is to take it.
LEMMA TakingNamed ==
    ASSUME WatchInv, pc \in {"name", "sub"}, NEW id \in Id, Live(id),
           idIdx[id].source = "docker", NEW label, label = Labels[job.cid].name
    PROVE  /\ Taking(id, label).cid = job.cid
           /\ ServiceNamed(Taking(id, label).svc)
           /\ Taking(id, label).svc.data.home = Labels[job.cid].name
<1>1. label \in CName \cup {NoName}
  BY JobFacts, DockerAssumption DEF Resolved, Container
<1>2. PICK svc : svc = Taking(id, label).svc
  OBVIOUS
<1>3. /\ Taking(id, label).cid = job.cid
      /\ svc.source = "docker" /\ svc.cid = job.cid /\ svc.name = label
      /\ svc.data.home = label
  BY <1>1, <1>2, TakingTyped
<1> QED BY <1>2, <1>3 DEF ServiceNamed, Agree

\* The lookup by name finds every service that has it, and starts to count
\* those that come.
LEMMA ByNameNames == ASSUME WatchInv, NamesInv, ByName PROVE NamesInv'
<1> DEFINE label == Labels[job.cid].name
           found == containerNameIdx[label]
<1>1. NamesFrame /\ pc = "name"
  BY DEF ByName, Quiet, NamesFrame
<1>2. label \in CName
  BY <1>1, JobFacts, DockerAssumption DEF Resolved, Container
<1>3. CASE found # NoId
  <2>1. /\ found \in Id /\ Live(found) /\ idIdx[found].source = "docker"
        /\ idIdx[found].name = label
    BY <1>2, <1>3 DEF WatchInv, StoreInv, TypeOK, IndexSound, ContainerNameSound
  <2>2. pc' = "reattach" /\ job' = Taking(found, label)
    BY <1>3, <2>1 DEF ByName
  <2>3. PICK id \in Id : id = found
    BY <2>1
  <2>4. job'.cid = job.cid /\ ServiceNamed(job'.svc) /\ job'.svc.data.home = label
    BY <1>1, <2>1, <2>2, <2>3, TakingNamed
  <2>5. JobNamed'
    BY <2>2, <2>4 DEF JobNamed, Resolved, ServiceNamed, Agree
  <2>6. OnlyArrived'
    BY <2>2 DEF OnlyArrived, Unfound
  <2> QED BY <1>1, <2>5, <2>6, FramedNames
<1>4. CASE found = NoId
  <2>1. pc' = "sub" /\ job' = job /\ UNCHANGED <<storeVars, doubled>>
    BY <1>4 DEF ByName, Quiet
  <2>2. JobNamed'
    BY <1>1, <2>1 DEF NamesInv, JobNamed, Resolved
  <2>3. Single(label) => AssignedFrom(label) = {}
    BY <1>4, NullsAssumption DEF NamesInv, NameIndexHasAll, AssignedFrom, LiveIds
  <2>4. OnlyArrived'
    BY <2>1, <2>3 DEF OnlyArrived, Single, ShownAsNamed, AssignedFrom, LiveIds, Live, storeVars
  <2> QED BY <1>1, <2>2, <2>4, FramedNames
<1> QED BY <1>3, <1>4

\* The lookups by subdomain and by container.
LEMMA LookupNames ==
    ASSUME WatchInv, NamesInv, BySubdomain \/ Offer
    PROVE  NamesInv'
<1>1. NamesFrame /\ arrived' = arrived /\ pc \in {"sub", "offer"}
  BY DEF BySubdomain, Offer, Quiet, NamesFrame, historyVars
<1>2. CASE pc' \in {"offer", "add"} /\ job' = job
  <2>1. JobNamed'
    BY <1>1, <1>2 DEF NamesInv, JobNamed, Resolved
  <2>2. OnlyArrived'
    BY <1>1, <1>2
       DEF NamesInv, OnlyArrived, Unfound, Single, ShownAsNamed, AssignedFrom, LiveIds, Live,
           NamesFrame, storeVars
  <2> QED BY <1>1, <2>1, <2>2, FramedNames
<1>3. CASE pc' \in {"sync", "watch"}
  BY <1>1, <1>3, FramedNames, NothingNamed DEF Resolved
<1>4. CASE /\ BySubdomain /\ services[job.info.sub] # NoId
           /\ idIdx[services[job.info.sub]].source = "docker"
  <2>1. pc = "sub" /\ pc' = "reattach"
    BY <1>4 DEF BySubdomain
  <2>2. PICK id \in Id : id = services[job.info.sub] /\ Live(id)
    BY <1>4, <2>1, JobFacts
       DEF Resolved, WatchInv, StoreInv, TypeOK, IndexSound, SubdomainSound
  <2>3. job' = Taking(id, Labels[job.cid].name)
    BY <1>4, <2>2 DEF BySubdomain
  <2>4. /\ job'.cid = job.cid /\ ServiceNamed(job'.svc)
        /\ job'.svc.data.home = Labels[job.cid].name
    BY <1>4, <2>1, <2>2, <2>3, TakingNamed
  <2>5. JobNamed' /\ OnlyArrived'
    BY <2>1, <2>4 DEF JobNamed, Resolved, ServiceNamed, Agree, OnlyArrived, Unfound
  <2> QED BY <1>1, <2>5, FramedNames
<1>5. \/ pc' \in {"offer", "add"} /\ job' = job
      \/ pc' \in {"sync", "watch"}
      \/ /\ BySubdomain /\ services[job.info.sub] # NoId
         /\ idIdx[services[job.info.sub]].source = "docker"
  BY JobFacts DEF BySubdomain, Offer, Return, Resolved
<1> QED BY <1>2, <1>3, <1>4, <1>5

\* The service that was found takes the container's name; if another has got
\* the name since, it is doubled.
LEMMA ReattachNames == ASSUME WatchInv, NamesInv, Reattach PROVE NamesInv'
<1>1. UNCHANGED <<listVars, req>> /\ pc = "reattach" /\ pc' = job.back
  BY DEF Reattach, Return, Quiet
<1>2. PICK id \in Id, svc \in Addable :
          id = job.id /\ svc = job.svc /\ ServiceNamed(svc) /\ job.back \in {"sync", "watch"}
  BY <1>1, JobFacts DEF NamesInv, JobNamed
<1>3. ServicesNamed' /\ NameIndexHasAll'
  <2>1. CASE Live(id)
    <3>1. UpdateService(id, svc) /\ Associate(svc.data.home, id)
      BY <1>2, <2>1 DEF Reattach
    <3>2. /\ doubled \subseteq doubled'
          /\ Single(svc.data.home)' => AssignedFrom(svc.data.home) \subseteq {id}
      BY <3>1 DEF Associate, Single
    <3> QED BY <1>2, <2>1, <3>1, <3>2, UpdateServiceNames DEF WatchInv, NamesInv
  <2>2. CASE ~Live(id)
    <3>1. UNCHANGED <<storeVars, doubled>>
      BY <1>2, <2>2 DEF Reattach, UpdateService
    <3> QED BY <3>1 DEF storeVars, NamesInv, ServicesNamed, NameIndexHasAll, LiveIds, Live,
                        ServiceNamed, Agree, Single, ShownAsNamed
  <2> QED BY <2>1, <2>2
<1>4. EntriesNamed' /\ RequestsNamed'
  BY <1>1 DEF listVars, NamesInv, EntriesNamed, RequestsNamed, RequestNamed, EntryNamed,
              ServiceNamed, Agree, HomeOf
<1> QED BY <1>1, <1>2, <1>3, <1>4, NothingNamed DEF NamesInv, Resolved

\* The container is offered under its display name.
LEMMA AddOfferNames == ASSUME WatchInv, NamesInv, Add PROVE NamesInv'
<1>1. UNCHANGED <<storeVars, req, doubled>> /\ pc = "add" /\ pc' = job.back
  BY DEF Add, Return, Quiet, historyVars
<1>2. /\ job.cid \in Cid /\ job.back \in {"sync", "watch"}
      /\ job.info.title = DisplayName(Labels[job.cid])
  BY <1>1, JobFacts DEF Resolved, NamesInv, JobNamed
<1>3. EntriesNamed'
  <2>1. PICK did \in Did : AddDiscovered(did, Offering)
    BY DEF Add, Offering
  <2>2. EntryNamed(Offering)
    BY <1>2, NullsAssumption, AgreeFacts DEF Offering, EntryNamed, HomeOf
  <2> QED BY <2>1, <2>2, AddNames DEF WatchInv, NamesInv
<1> QED BY <1>1, <1>2, <1>3, ListedNames, NothingNamed DEF NamesInv, Resolved

\* Lantern exits and starts again.
LEMMA RestartNames == ASSUME WatchInv, NamesInv, Restart PROVE NamesInv'
<1>1. ServicesNamed' /\ NameIndexHasAll'
  BY RebuildNames DEF Restart, WatchInv, NamesInv
<1>2. EntriesNamed'
  BY DEF Restart, rebuildListIndexes, WatchInv, EntriesInv, ListsInv, DiscoveredInv,
         DiscoveredTypeOK, NamesInv, EntriesNamed, EntryNamed, Agree, HomeOf
<1>3. RequestsNamed'
  BY DEF Restart, RequestsNamed, RequestNamed, Idle
<1>4. pc' = "list"
  BY DEF Restart
<1> QED BY <1>1, <1>2, <1>3, <1>4, NothingNamed DEF NamesInv, Resolved

\* What happens to containers.
LEMMA DaemonNames ==
    ASSUME NamesInv, Environment, ~Restart
    PROVE  NamesInv'
<1>1. NamesFrame /\ UNCHANGED <<pc, job, arrived>>
  BY DEF Environment, Run, Exit, Remove, Signal, Happens, StreamBreaks, NamesFrame, watcherVars
<1>2. JobNamed'
  BY <1>1 DEF NamesInv, JobNamed, ServiceNamed, Agree
<1>3. OnlyArrived'
  BY <1>1, ArrivedStays DEF NamesInv, NamesFrame, storeVars, LiveIds, Live
<1> QED BY <1>1, <1>2, <1>3, FramedNames

\* What the watcher has in hand while a request is at work.
LEMMA JobStaysNamed == ASSUME NamesInv, UNCHANGED <<pc, job>> PROVE JobNamed'
BY DEF NamesInv, JobNamed, ServiceNamed, Agree

\* A request that has begun: its copy is named as what it copied.
LEMMA BeginNames ==
    ASSUME WatchInv, NamesInv, NEW u \in User,
           \/ \E did \in Did, sub \in Sub : BeginAssign(u, did, sub)
           \/ \E id \in Id : BeginEdit(u, id)
    PROVE  NamesInv'
<1>1. UNCHANGED <<storeVars, listVars, watcherVars, doubled, arrived>>
  BY DEF BeginAssign, BeginEdit, historyVars
<1>2. PICK r : RequestNamed(r) /\ req' = [req EXCEPT ![u] = r]
  <2>1. ASSUME NEW did \in Did, NEW sub \in Sub, BeginAssign(u, did, sub)
        PROVE  \E r : RequestNamed(r) /\ req' = [req EXCEPT ![u] = r]
    <3>1. PICK r : /\ r = [op |-> "assign", did |-> did, entry |-> discoveredIdx[did],
                           sub |-> sub]
                   /\ req' = [req EXCEPT ![u] = r]
      BY <2>1 DEF BeginAssign, Begin
    <3>2. did \in discovered
      BY <2>1 DEF BeginAssign, WatchInv, EntriesInv, ListsInv, DiscoveredInv,
                  DiscoveredMatches, IsListed
    <3>3. RequestNamed(r)
      BY <3>1, <3>2 DEF RequestNamed, NamesInv, EntriesNamed
    <3> QED BY <3>1, <3>3
  <2>2. ASSUME NEW id \in Id, BeginEdit(u, id)
        PROVE  \E r : RequestNamed(r) /\ req' = [req EXCEPT ![u] = r]
    <3>1. PICK r : /\ r = [op |-> "edit", id |-> id, svc |-> idIdx[id]]
                   /\ req' = [req EXCEPT ![u] = r]
      BY <2>2 DEF BeginEdit, Begin
    <3>2. RequestNamed(r)
      BY <2>2, <3>1 DEF BeginEdit, RequestNamed, NamesInv, ServicesNamed, LiveIds
    <3> QED BY <3>1, <3>2
  <2> QED BY <2>1, <2>2
<1>3. RequestsNamed'
  BY <1>2, RequestNames DEF NamesInv
<1>4. JobNamed' /\ OnlyArrived'
  BY <1>1, JobStaysNamed, ArrivedStays DEF NamesInv, watcherVars, storeVars, LiveIds, Live
<1> QED BY <1>1, <1>3, <1>4
        DEF storeVars, listVars, NamesInv, ServicesNamed, EntriesNamed,
            NameIndexHasAll, LiveIds, Live, ServiceNamed, EntryNamed, Agree, HomeOf, Single,
            ShownAsNamed

\* A request that has ended, or has only an entry left to remove, holds nothing.
LEMMA HoldsNothing ==
    ASSUME NEW r, r.op \in {"none", "assigned"} PROVE RequestNamed(r)
BY DEF RequestNamed

\* The request is over.
LEMMA IdleNames ==
    ASSUME WatchInv, RequestsNamed, NEW u \in User, req' = [req EXCEPT ![u] = Idle]
    PROVE  RequestsNamed'
<1>1. PICK r : r = Idle
  OBVIOUS
<1>2. r.op \in {"none", "assigned"}
  BY <1>1 DEF Idle
<1>3. RequestNamed(r)
  BY <1>2, HoldsNothing
<1> QED BY <1>1, <1>3, RequestNames

\* createService stores the name of the entry.
LEMMA StoreAssignedNames ==
    ASSUME WatchInv, NamesInv, NEW u \in User, StoreAssigned(u)
    PROVE  NamesInv'
<1>1. PICK entry \in Entry, sub \in Sub :
          /\ entry = req[u].entry /\ sub = req[u].sub
          /\ Bare(entry) /\ EntryNamed(entry)
  BY DEF StoreAssigned, WatchInv, RequestsHeld, HeldBy, NamesInv, RequestsNamed, RequestNamed
<1>2. PICK svc \in Addable :
          /\ svc = Assigned(req[u].entry, req[u].sub)
          /\ svc.cid = entry.cid /\ svc.source = entry.source /\ svc.name = entry.name
          /\ svc.data.home = HomeOf(entry)
  BY <1>1, AssignedTyped
<1>3. ServiceNamed(svc)
  BY <1>1, <1>2 DEF ServiceNamed, EntryNamed, HomeOf, Bare
<1>4. PICK id \in Id : NewId(id) /\ AddService(id, svc) /\ Give(id, svc)
  BY <1>2 DEF StoreAssigned
<1>5. ServicesNamed' /\ NameIndexHasAll'
  BY <1>3, <1>4, AddServiceNames DEF WatchInv, NamesInv, Give
<1>6. RequestsNamed'
  <2>1. PICK r : r = [op |-> "assigned", did |-> req[u].did]
    OBVIOUS
  <2>2. r.op \in {"none", "assigned"} /\ req' = [req EXCEPT ![u] = r]
    BY <2>1 DEF StoreAssigned
  <2>3. RequestNamed(r)
    BY <2>2, HoldsNothing
  <2> QED BY <2>2, <2>3, RequestNames DEF NamesInv
<1>7. UNCHANGED <<listVars, watcherVars>>
  BY DEF StoreAssigned
<1>8. EntriesNamed'
  BY <1>7 DEF listVars, NamesInv, EntriesNamed, EntryNamed, Agree, HomeOf
<1>9. OnlyArrived'
  <2>1. \A i \in Id : idIdx'[i] = IF i = id THEN svc ELSE idIdx[i]
    BY <1>4 DEF AddService, Put, WatchInv, StoreInv, TypeOK
  <2>2. /\ doubled \subseteq doubled' /\ arrived \subseteq arrived'
        /\ Unfound => id \in arrived'
    BY <1>4 DEF Give, Associate
  <2> QED BY <1>7, <2>1, <2>2, ArrivedStays DEF NamesInv, watcherVars, LiveIds, Live
<1> QED BY <1>5, <1>6, <1>7, <1>8, <1>9, JobStaysNamed DEF NamesInv, watcherVars

\* createService takes the entry off the list.
LEMMA FinishAssignNames ==
    ASSUME WatchInv, NamesInv, NEW u \in User, FinishAssign(u)
    PROVE  NamesInv'
<1>1. UNCHANGED <<storeVars, watcherVars, doubled, arrived>>
  BY DEF FinishAssign, historyVars
<1>2. EntriesNamed'
  <2>1. {req[u].did} \cap discovered \in SUBSET Did
    BY DEF WatchInv, EntriesInv, ListsInv, DiscoveredInv, DiscoveredTypeOK
  <2> QED BY <2>1, UnlistNames DEF FinishAssign, RemoveDiscovered, WatchInv, NamesInv
<1>3. RequestsNamed'
  BY IdleNames DEF FinishAssign, Finish, NamesInv
<1>4. ServicesNamed' /\ NameIndexHasAll'
  BY <1>1 DEF storeVars, NamesInv, ServicesNamed, NameIndexHasAll, LiveIds, Live,
              ServiceNamed, Agree, Single, ShownAsNamed
<1>5. OnlyArrived'
  BY <1>1, ArrivedStays DEF NamesInv, watcherVars, storeVars, LiveIds, Live
<1> QED BY <1>1, <1>2, <1>3, <1>4, <1>5, JobStaysNamed DEF NamesInv, watcherVars

\* updateService writes a name back; if another service has got it, it is doubled.
LEMMA FinishEditNames ==
    ASSUME WatchInv, NamesInv, NEW u \in User, FinishEdit(u)
    PROVE  NamesInv'
<1>1. PICK id \in Id, svc \in Addable : id = req[u].id /\ svc = req[u].svc
  BY DEF FinishEdit, Finish, WatchInv, RequestsHeld, HeldBy
<1>2. ServiceNamed(svc)
  BY <1>1 DEF FinishEdit, Finish, NamesInv, RequestsNamed, RequestNamed
<1>3. ServicesNamed' /\ NameIndexHasAll'
  <2>1. CASE Live(id)
    <3>1. UpdateService(id, svc) /\ Associate(svc.data.home, id)
      BY <1>1, <2>1 DEF FinishEdit, Give
    <3>2. /\ doubled \subseteq doubled'
          /\ Single(svc.data.home)' => AssignedFrom(svc.data.home) \subseteq {id}
      BY <3>1 DEF Associate, Single
    <3> QED BY <1>2, <2>1, <3>1, <3>2, UpdateServiceNames DEF WatchInv, NamesInv
  <2>2. CASE ~Live(id)
    <3>1. UNCHANGED <<storeVars, doubled>>
      BY <1>1, <2>2 DEF FinishEdit, UpdateService, historyVars
    <3> QED BY <3>1 DEF storeVars, NamesInv, ServicesNamed, NameIndexHasAll, LiveIds, Live,
                        ServiceNamed, Agree, Single, ShownAsNamed
  <2> QED BY <2>1, <2>2
<1>4. RequestsNamed'
  BY IdleNames DEF FinishEdit, Finish, NamesInv
<1>5. UNCHANGED <<listVars, watcherVars>>
  BY DEF FinishEdit
<1>6. EntriesNamed'
  BY <1>5 DEF listVars, NamesInv, EntriesNamed, EntryNamed, Agree, HomeOf
<1>7. OnlyArrived'
  <2>1. CASE Live(id)
    <3>1. \A i \in Id : idIdx'[i] = IF i = id THEN svc ELSE idIdx[i]
      BY <1>1, <2>1 DEF FinishEdit, UpdateService, Put, WatchInv, StoreInv, TypeOK
    <3>2. /\ doubled \subseteq doubled' /\ arrived \subseteq arrived'
          /\ Unfound => id \in arrived'
      BY <1>1, <2>1 DEF FinishEdit, Give, Associate
    <3> QED BY <1>5, <3>1, <3>2, ArrivedStays DEF NamesInv, watcherVars, LiveIds, Live
  <2>2. CASE ~Live(id)
    <3>1. UNCHANGED <<storeVars, doubled, arrived>>
      BY <1>1, <2>2 DEF FinishEdit, UpdateService, historyVars
    <3> QED BY <1>5, <3>1, ArrivedStays DEF NamesInv, watcherVars, storeVars, LiveIds, Live
  <2> QED BY <2>1, <2>2
<1> QED BY <1>3, <1>4, <1>5, <1>6, <1>7, JobStaysNamed DEF NamesInv, watcherVars

\* deleteService takes the service out and keeps its name for the entry.
LEMMA BeginDeleteNames ==
    ASSUME WatchInv, NamesInv, NEW u \in User, NEW id \in Id, BeginDelete(u, id)
    PROVE  NamesInv'
<1>1. /\ UNCHANGED <<listVars, watcherVars, doubled, arrived>>
      /\ Live(id) /\ DeleteService(id)
  BY DEF BeginDelete, historyVars
<1>2. PICK r : r = [op |-> "delete", svc |-> idIdx[id]] /\ req' = [req EXCEPT ![u] = r]
  BY DEF BeginDelete, Begin
<1>3. RequestNamed(r)
  BY <1>1, <1>2 DEF RequestNamed, NamesInv, ServicesNamed, LiveIds
<1>4. RequestsNamed'
  BY <1>2, <1>3, RequestNames DEF NamesInv
<1>5. ServicesNamed' /\ NameIndexHasAll'
  BY <1>1, DeleteServiceNames DEF WatchInv, NamesInv
<1>6. EntriesNamed'
  BY <1>1 DEF listVars, NamesInv, EntriesNamed, EntryNamed, Agree, HomeOf
<1>7. OnlyArrived'
  <2>1. \A i \in Id : idIdx'[i] = IF i = id THEN NoService ELSE idIdx[i]
    BY <1>1 DEF DeleteService, Put, WatchInv, StoreInv, TypeOK
  <2> QED BY <1>1, <2>1, ArrivedStays DEF NamesInv, watcherVars, LiveIds, Live
<1> QED BY <1>1, <1>4, <1>5, <1>6, <1>7, JobStaysNamed DEF NamesInv, watcherVars

\* deleteService offers the container under the name the service had.
LEMMA FinishDeleteNames ==
    ASSUME WatchInv, NamesInv, NEW u \in User, FinishDelete(u)
    PROVE  NamesInv'
<1>1. UNCHANGED <<storeVars, ignoredVars, watcherVars, doubled, arrived>>
  BY DEF FinishDelete, historyVars
<1>2. PICK svc \in Addable : svc = req[u].svc
  BY DEF FinishDelete, Finish, WatchInv, RequestsHeld, HeldBy
<1>3. ServiceNamed(svc)
  BY <1>2 DEF FinishDelete, Finish, NamesInv, RequestsNamed, RequestNamed
<1>4. EntriesNamed'
  <2>1. CASE svc.source # "docker" \/ svc.cid = NoCid
    BY <1>2, <2>1 DEF FinishDelete, discoveredVars, NamesInv, EntriesNamed, EntryNamed, Agree,
                      HomeOf
  <2>2. CASE svc.source = "docker" /\ svc.cid # NoCid
    <3>1. PICK entry : entry = [addr |-> NoAddr, source |-> "docker",
                                cid |-> svc.cid, name |-> svc.name,
                                info |-> CHOOSE info \in Info : TRUE]
      OBVIOUS
    <3>2. PICK did \in Did : AddDiscovered(did, entry)
      BY <1>2, <2>2, <3>1 DEF FinishDelete
    <3>3. EntryNamed(entry)
      BY <1>3, <2>2, <3>1 DEF ServiceNamed, EntryNamed, HomeOf
    <3> QED BY <3>2, <3>3, AddNames DEF WatchInv, NamesInv
  <2> QED BY <2>1, <2>2
<1>5. RequestsNamed'
  BY IdleNames DEF FinishDelete, Finish, NamesInv
<1>6. ServicesNamed' /\ NameIndexHasAll'
  BY <1>1 DEF storeVars, NamesInv, ServicesNamed, NameIndexHasAll, LiveIds, Live,
              ServiceNamed, Agree, Single, ShownAsNamed
<1>7. OnlyArrived'
  BY <1>1, ArrivedStays DEF NamesInv, watcherVars, storeVars, LiveIds, Live
<1> QED BY <1>1, <1>4, <1>5, <1>6, <1>7, JobStaysNamed DEF NamesInv, watcherVars

\* What comes back from the ignored list has no name.
LEMMA DismissNames ==
    ASSUME WatchInv, NamesInv, NEW u \in User, NEW did \in Did, Dismiss(did)
    PROVE  NamesInv'
<1>1. UNCHANGED <<storeVars, watcherVars, req, doubled, arrived>>
  BY DEF Dismiss, historyVars
<1>2. EntriesNamed'
  <2>1. CASE RemoveDiscovered(did)
    <3>1. {did} \cap discovered \in SUBSET Did
      OBVIOUS
    <3> QED BY <2>1, <3>1, UnlistNames DEF RemoveDiscovered, WatchInv, NamesInv
  <2>2. CASE IgnoreDiscovered(did)
    BY <2>2, UnlistNames DEF IgnoreDiscovered, WatchInv, NamesInv
  <2>3. ASSUME NEW info \in Info, unignoreService(did, info) PROVE EntriesNamed'
    <3>1. PICK entry : entry = [addr |-> ignoredIdx[did], source |-> "network",
                                cid |-> NoCid, name |-> NoName, info |-> info]
      OBVIOUS
    <3>2. EntryNamed(entry) /\ AddDiscovered(did, entry)
      BY <2>3, <3>1, AgreeFacts DEF EntryNamed, HomeOf, unignoreService
    <3> QED BY <3>2, AddNames DEF WatchInv, NamesInv
  <2> QED BY <2>1, <2>2, <2>3 DEF Dismiss
<1>3. OnlyArrived'
  BY <1>1, ArrivedStays DEF NamesInv, watcherVars, storeVars, LiveIds, Live
<1> QED BY <1>1, <1>2, <1>3, ListedNames, JobStaysNamed DEF NamesInv, watcherVars

\* Every step, by the lemma of its action.
LEMMA NamesNextKeep == WatchInv /\ NamesInv /\ [DockerNext]_vars => NamesInv'
<1> SUFFICES ASSUME WatchInv, NamesInv, [DockerNext]_vars PROVE NamesInv'
  OBVIOUS
<1>1. CASE Environment
  BY <1>1, DaemonNames, RestartNames
<1>2. CASE Watch
  BY <1>2, ReadNames, TakeEndNames, ForgetNames, ByNameNames, LookupNames, ReattachNames,
     AddOfferNames DEF Watch
<1>3. CASE Requests
  BY <1>3, BeginNames, BeginDeleteNames, StoreAssignedNames, FinishAssignNames,
     FinishEditNames, FinishDeleteNames, DismissNames DEF Requests
<1>4. CASE UNCHANGED vars
  <2>1. NamesFrame /\ UNCHANGED <<pc, job, arrived>>
    BY <1>4 DEF vars, historyVars, watcherVars, NamesFrame
  <2>2. OnlyArrived'
    BY <2>1, ArrivedStays DEF NamesInv, NamesFrame, storeVars, LiveIds, Live
  <2> QED BY <2>1, <2>2, FramedNames, JobStaysNamed
<1> QED BY <1>1, <1>2, <1>3, <1>4 DEF DockerNext

\* A container that comes back under its name returns to the service that was
\* assigned from it: the watcher offers it as new only if every service of its
\* name is one that a request gave the name after the watcher had looked for
\* one - whatever was edited, deleted, assigned or detached before its lookups,
\* between them, between the lookup and the write, and between the two calls of
\* addDockerDiscovered, and however often Lantern was restarted.
THEOREM ComesBackToItsService == DockerSpec => RestartFindsItsService
<1>1. DockerInit => NamesInv
  <2> SUFFICES ASSUME DockerInit PROVE NamesInv
    OBVIOUS
  <2>1. LiveIds = {} /\ discovered = {} /\ pc = "list"
    BY DEF DockerInit, Init, ListsInit, LiveIds, Live
  <2>2. RequestsNamed
    BY DEF DockerInit, RequestsNamed, RequestNamed, Idle
  <2> QED BY <2>1, <2>2 DEF NamesInv, ServicesNamed, EntriesNamed, JobNamed, NameIndexHasAll,
                            OnlyArrived, Unfound, Resolved
<1>2. DockerSpec => []NamesInv
  BY <1>1, NamesNextKeep, WatchInvariant, PTL DEF DockerSpec
<1>3. ASSUME WatchInv, NamesInv, DockerNext, NEW cid \in Cid, Offers(cid),
             Labels[cid].name \notin doubled, ShownAsNamed(Labels[cid].name)
      PROVE  AssignedFrom(Labels[cid].name) \subseteq arrived
  <2>1. Add \/ Restart
    BY <1>3 DEF DockerNext, Environment, Watch, Requests, Offers, Run, Exit, Remove, Signal,
                Happens, StreamBreaks, ListContainers, SyncNext, Subscribe, Reconnect,
                TakeStart, Inspect, InspectFails, TakeEnd, TakeEvent, Forget, ByName,
                BySubdomain, Reattach, Offer, BeginAssign, BeginEdit, BeginDelete,
                StoreAssigned, FinishAssign, FinishEdit, FinishDelete, Dismiss, watcherVars
  <2>2. ~Restart
    <3> SUFFICES ASSUME Restart PROVE FALSE
      OBVIOUS
    <3>1. {did \in discovered : discoveredIdx[did].cid = cid} = {}
      BY <1>3, ListsAssumption DEF Offers, ContainerListed, WatchInv, EntriesInv, ListsInv,
               DiscoveredInv, DiscoveredTypeOK, ContainerMapExact
    <3> QED BY <1>3, <3>1 DEF Restart, rebuildListIndexes, Offers
  <2>3. pc = "add" /\ ~ContainerListed(cid) /\ discoveredContainerIdx'[cid] # NoDid
    BY <1>3 DEF Offers
  <2>4. job.cid \in Cid /\ Labels[job.cid].name \in CName
    BY <1>3, <2>3, JobFacts, DockerAssumption DEF Resolved, Container
  <2>5. cid = job.cid
    <3>1. PICK did \in Did : AddDiscovered(did, Offering)
      BY <2>1, <2>2 DEF Add, Offering
    <3>2. Offering.cid = job.cid
      BY DEF Offering
    <3> QED BY <1>3, <2>3, <2>4, <3>1, <3>2
            DEF AddDiscovered, indexDiscovered, discoveredVars, Put, ContainerListed,
                WatchInv, EntriesInv, ListsInv, DiscoveredInv, DiscoveredTypeOK
  <2>6. Unfound /\ Single(Labels[job.cid].name)
    BY <1>3, <2>3, <2>4, <2>5 DEF Unfound, Single
  <2> QED BY <1>3, <2>5, <2>6 DEF NamesInv, OnlyArrived
<1>4. WatchInv /\ NamesInv /\ [DockerNext]_vars =>
          [\A cid \in Cid :
               LET name == Labels[cid].name IN
               Offers(cid) /\ name \notin doubled /\ ShownAsNamed(name)
                   => AssignedFrom(name) \subseteq arrived]_vars
  BY <1>3
<1> QED BY <1>2, <1>4, WatchInvariant, PTL DEF DockerSpec, RestartFindsItsService
=============================================================================
