------------------------- MODULE ServiceStoreProofs -------------------------
(* Theorems about ServiceStore, for every value of its constants. *)
EXTENDS ServiceStore, TLAPS

(***************************************************************************)
(* Put, the one primitive every operation is written with.                 *)
(***************************************************************************)
LEMMA PutType ==
    ASSUME NEW D, NEW R, NEW map \in [D -> R], NEW key, NEW value \in R
    PROVE  Put(map, key, value) \in [D -> R]
BY DEF Put

(***************************************************************************)
(* Type correctness.                                                       *)
(***************************************************************************)
\* ReorderServices leaves a Service.
LEMMA ReorderedType ==
    ASSUME NEW svc \in Service, NEW rank \in 0..MaxOrder
    PROVE  [svc EXCEPT !.order = rank] \in Service
BY DEF Service

\* ClearContainerID leaves a Service.
LEMMA DetachedType ==
    ASSUME NEW svc \in Service
    PROVE  [svc EXCEPT !.cid = NoCid] \in Service
BY DEF Service

\* indexService and unindexService keep the maps' types.
LEMMA IndexTypes ==
    ASSUME NEW id \in Id, NEW svc \in Service,
           NEW cidMap \in [Cid -> Id \cup {NoId}],
           NEW nameMap \in [CName -> Id \cup {NoId}]
    PROVE  /\ IndexCid(cidMap, id, svc) \in [Cid -> Id \cup {NoId}]
           /\ UnindexCid(cidMap, svc) \in [Cid -> Id \cup {NoId}]
           /\ IndexName(nameMap, id, svc) \in [CName -> Id \cup {NoId}]
           /\ UnindexName(nameMap, svc) \in [CName -> Id \cup {NoId}]
BY PutType DEF IndexCid, UnindexCid, IndexName, UnindexName

\* An empty store is well typed.
LEMMA InitType == Init => TypeOK
BY DEF Init, TypeOK

\* Every operation keeps the types; ClearContainerID needs to know that the
\* service it finds is there.
LEMMA NextType == TypeOK /\ ContainerIDSound /\ [Next]_storeVars => TypeOK'
<1> SUFFICES ASSUME TypeOK, ContainerIDSound, [Next]_storeVars PROVE TypeOK'
  OBVIOUS
<1> USE DEF TypeOK
<1>1. ASSUME NEW id \in Id, NEW svc \in Addable, AddService(id, svc)
      PROVE  TypeOK'
  <2>1. svc \in Service
    BY DEF Addable
  <2>2. services' \in [Sub -> Id \cup {NoId}]
    BY <1>1, PutType DEF AddService
  <2>3. idIdx' \in [Id -> Service \cup {NoService}]
    BY <1>1, <2>1, PutType DEF AddService
  <2> QED BY <1>1, <2>1, <2>2, <2>3, IndexTypes DEF AddService
<1>2. ASSUME NEW id \in Id, NEW svc \in Replacements(id), UpdateService(id, svc)
      PROVE  TypeOK'
  <2>1. svc \in Service
    BY DEF Replacements, Addable
  <2>2. CASE Live(id)
    <3>1. idIdx[id] \in Service
      BY <2>2 DEF Live
    <3>2. services' \in [Sub -> Id \cup {NoId}]
      BY <1>2, <2>2 DEF UpdateService, Put
    <3>3. idIdx' \in [Id -> Service \cup {NoService}]
      BY <1>2, <2>1, <2>2 DEF UpdateService, Put
    <3>4. containerIDIdx' \in [Cid -> Id \cup {NoId}]
      BY <1>2, <2>1, <2>2, <3>1, IndexTypes DEF UpdateService
    <3>5. containerNameIdx' \in [CName -> Id \cup {NoId}]
      BY <1>2, <2>1, <2>2, <3>1, IndexTypes DEF UpdateService
    <3> QED BY <3>2, <3>3, <3>4, <3>5
  <2>3. CASE ~Live(id)
    BY <1>2, <2>3 DEF UpdateService, storeVars
  <2> QED BY <2>2, <2>3
<1>3. ASSUME NEW id \in Id, DeleteService(id)
      PROVE  TypeOK'
  <2>1. CASE Live(id)
    <3>1. idIdx[id] \in Service
      BY <2>1 DEF Live
    <3>2. services' \in [Sub -> Id \cup {NoId}]
      BY <1>3, <2>1 DEF DeleteService, Put
    <3>3. idIdx' \in [Id -> Service \cup {NoService}]
      BY <1>3, <2>1 DEF DeleteService, Put
    <3> QED BY <1>3, <2>1, <3>1, <3>2, <3>3, IndexTypes DEF DeleteService
  <2>2. CASE ~Live(id)
    BY <1>3, <2>2 DEF DeleteService, storeVars
  <2> QED BY <2>1, <2>2
<1>4. ASSUME NEW cid \in Cid, ClearContainerID(cid)
      PROVE  TypeOK'
  <2>1. CASE containerIDIdx[cid] # NoId
    <3> DEFINE id == containerIDIdx[cid]
    <3>1. id \in Id /\ idIdx[id] \in Service
      BY <2>1 DEF ContainerIDSound, Live
    <3>2. idIdx' \in [Id -> Service \cup {NoService}]
      <4>1. [idIdx[id] EXCEPT !.cid = NoCid] \in Service
        BY <3>1, DetachedType
      <4> QED BY <1>4, <2>1, <4>1 DEF ClearContainerID, Put
    <3>3. containerIDIdx' \in [Cid -> Id \cup {NoId}]
      BY <1>4, <2>1 DEF ClearContainerID, Put
    <3> QED BY <1>4, <2>1, <3>2, <3>3 DEF ClearContainerID
  <2>2. CASE containerIDIdx[cid] = NoId
    BY <1>4, <2>2 DEF ClearContainerID, storeVars
  <2> QED BY <2>1, <2>2
<1>5. ASSUME NEW ranks \in Ranks, ReorderServices(ranks)
      PROVE  TypeOK'
  <2>1. ASSUME NEW id \in Id, id \in DOMAIN ranks
        PROVE  ranks[id] \in 0..MaxOrder
    BY <2>1 DEF Ranks
  <2>2. ASSUME NEW id \in Id
        PROVE  idIdx'[id] \in Service \cup {NoService}
    BY <1>5, <2>1, ReorderedType DEF ReorderServices, Live
  <2> QED BY <1>5, <2>2 DEF ReorderServices
<1>6. ASSUME rebuildIndexes
      PROVE  TypeOK'
  BY <1>6 DEF rebuildIndexes
<1>7. ASSUME UNCHANGED storeVars
      PROVE  TypeOK'
  BY <1>7 DEF storeVars
<1> QED BY <1>1, <1>2, <1>3, <1>4, <1>5, <1>6, <1>7 DEF Next
(***************************************************************************)
(* Soundness of the lookups, one map at a time.  Each step uses only that  *)
(* an operation takes the old object out under the old object's own keys.  *)
(***************************************************************************)
LEMMA NextSubdomain ==
    TypeOK /\ IndexSound /\ [Next]_storeVars => SubdomainSound'
<1> SUFFICES ASSUME TypeOK, IndexSound, [Next]_storeVars PROVE SubdomainSound'
  OBVIOUS
<1> USE NullsAssumption, NoServiceAssumption
    DEF TypeOK, IndexSound, SubdomainSound, Live, Put
<1>1. ASSUME NEW id \in Id, NEW svc \in Addable, AddService(id, svc)
      PROVE  SubdomainSound'
  BY <1>1 DEF AddService, Addable
<1>2. ASSUME NEW id \in Id, NEW svc \in Replacements(id), UpdateService(id, svc)
      PROVE  SubdomainSound'
  <2>1. svc # NoService /\ svc.sub \in Sub
    BY DEF Replacements, Addable, Service
  <2>2. CASE idIdx[id] # NoService
    <3>1. /\ services' = Put(Put(services, idIdx[id].sub, NoId), svc.sub, id)
          /\ idIdx' = Put(idIdx, id, svc)
      BY <1>2, <2>2 DEF UpdateService
    <3>2. ASSUME NEW sub \in Sub, sub # svc.sub, services'[sub] # NoId
          PROVE  services'[sub] = services[sub] /\ services[sub] # id
      BY <3>1, <3>2, <2>2
    <3> QED BY <2>1, <3>1, <3>2
  <2>3. CASE idIdx[id] = NoService
    BY <1>2, <2>3 DEF UpdateService, storeVars
  <2> QED BY <2>2, <2>3
<1>3. ASSUME NEW id \in Id, DeleteService(id)
      PROVE  SubdomainSound'
  BY <1>3 DEF DeleteService, storeVars
<1>4. ASSUME NEW cid \in Cid, ClearContainerID(cid)
      PROVE  SubdomainSound'
  <2>1. CASE containerIDIdx[cid] # NoId
    <3>1. /\ idIdx[containerIDIdx[cid]] \in Service
          /\ containerIDIdx[cid] \in Id
      BY <2>1 DEF ContainerIDSound
    <3> DEFINE detached == [idIdx[containerIDIdx[cid]] EXCEPT !.cid = NoCid]
    <3>2. detached \in Service
      BY <3>1, DetachedType
    <3>3. detached.sub = idIdx[containerIDIdx[cid]].sub
      BY <3>1 DEF Service
    <3>4. /\ services' = services
          /\ idIdx' = Put(idIdx, containerIDIdx[cid], detached)
      BY <1>4, <2>1 DEF ClearContainerID
    <3> HIDE DEF detached
    <3> QED BY <3>2, <3>3, <3>4
  <2>2. CASE containerIDIdx[cid] = NoId
    BY <1>4, <2>2 DEF ClearContainerID, storeVars
  <2> QED BY <2>1, <2>2
<1>5. ASSUME NEW ranks \in Ranks, ReorderServices(ranks)
      PROVE  SubdomainSound'
  <2>1. ASSUME NEW id \in Id, idIdx[id] # NoService
        PROVE  idIdx'[id] # NoService /\ idIdx'[id].sub = idIdx[id].sub
    <3>1. ASSUME id \in DOMAIN ranks
          PROVE  [idIdx[id] EXCEPT !.order = ranks[id]] \in Service
      BY <2>1, <3>1, ReorderedType DEF Ranks
    <3> QED BY <1>5, <2>1, <3>1 DEF ReorderServices, Service
  <2> QED BY <1>5, <2>1 DEF ReorderServices
<1>6. ASSUME rebuildIndexes
      PROVE  SubdomainSound'
  BY <1>6 DEF rebuildIndexes, Saved, LiveIds
<1>7. ASSUME UNCHANGED storeVars
      PROVE  SubdomainSound'
  BY <1>7 DEF storeVars
<1> QED BY <1>1, <1>2, <1>3, <1>4, <1>5, <1>6, <1>7 DEF Next

\* The container ID map, which ClearContainerID changes with the service.
LEMMA NextContainerID ==
    TypeOK /\ IndexSound /\ [Next]_storeVars => ContainerIDSound'
<1> SUFFICES ASSUME TypeOK, IndexSound, [Next]_storeVars PROVE ContainerIDSound'
  OBVIOUS
<1> USE NullsAssumption, NoServiceAssumption
    DEF TypeOK, IndexSound, ContainerIDSound, Live, Put
<1>1. ASSUME NEW id \in Id, NEW svc \in Addable, AddService(id, svc)
      PROVE  ContainerIDSound'
  BY <1>1 DEF AddService, Addable, IndexCid
<1>2. ASSUME NEW id \in Id, NEW svc \in Replacements(id), UpdateService(id, svc)
      PROVE  ContainerIDSound'
  <2>1. svc # NoService
    BY DEF Replacements, Addable
  <2>2. CASE idIdx[id] # NoService
    <3>1. /\ containerIDIdx' =
                 Put(Put(containerIDIdx, idIdx[id].cid, NoId), svc.cid, id)
          /\ idIdx' = Put(idIdx, id, svc)
      BY <1>2, <2>2 DEF UpdateService, IndexCid, UnindexCid
    <3>2. ASSUME NEW cid \in Cid, cid # svc.cid, containerIDIdx'[cid] # NoId
          PROVE  /\ containerIDIdx'[cid] = containerIDIdx[cid]
                 /\ containerIDIdx[cid] # id
      BY <3>1, <3>2, <2>2
    <3> QED BY <2>1, <3>1, <3>2
  <2>3. CASE idIdx[id] = NoService
    BY <1>2, <2>3 DEF UpdateService, storeVars
  <2> QED BY <2>2, <2>3
<1>3. ASSUME NEW id \in Id, DeleteService(id)
      PROVE  ContainerIDSound'
  BY <1>3 DEF DeleteService, storeVars, UnindexCid
<1>4. ASSUME NEW cid \in Cid, ClearContainerID(cid)
      PROVE  ContainerIDSound'
  <2>1. CASE containerIDIdx[cid] # NoId
    <3>1. /\ containerIDIdx' = Put(containerIDIdx, cid, NoId)
          /\ \A id \in Id : id # containerIDIdx[cid] => idIdx'[id] = idIdx[id]
      BY <1>4, <2>1 DEF ClearContainerID
    <3>2. ASSUME NEW c \in Cid, containerIDIdx'[c] # NoId
          PROVE  /\ containerIDIdx'[c] = containerIDIdx[c]
                 /\ containerIDIdx[c] # containerIDIdx[cid]
      BY <2>1, <3>1, <3>2
    <3> QED BY <3>1, <3>2
  <2>2. CASE containerIDIdx[cid] = NoId
    BY <1>4, <2>2 DEF ClearContainerID, storeVars
  <2> QED BY <2>1, <2>2
<1>5. ASSUME NEW ranks \in Ranks, ReorderServices(ranks)
      PROVE  ContainerIDSound'
  <2>1. ASSUME NEW id \in Id, idIdx[id] # NoService
        PROVE  idIdx'[id] # NoService /\ idIdx'[id].cid = idIdx[id].cid
    <3>1. ASSUME id \in DOMAIN ranks
          PROVE  [idIdx[id] EXCEPT !.order = ranks[id]] \in Service
      BY <2>1, <3>1, ReorderedType DEF Ranks
    <3> QED BY <1>5, <2>1, <3>1 DEF ReorderServices, Service
  <2> QED BY <1>5, <2>1 DEF ReorderServices
<1>6. ASSUME rebuildIndexes
      PROVE  ContainerIDSound'
  BY <1>6 DEF rebuildIndexes, Saved, LiveIds, IsRebuiltCidIdx
<1>7. ASSUME UNCHANGED storeVars
      PROVE  ContainerIDSound'
  BY <1>7 DEF storeVars
<1> QED BY <1>1, <1>2, <1>3, <1>4, <1>5, <1>6, <1>7 DEF Next

\* The container name map, whose entries of other services may be deleted too.
LEMMA NextContainerName ==
    TypeOK /\ IndexSound /\ [Next]_storeVars => ContainerNameSound'
<1> SUFFICES ASSUME TypeOK, IndexSound, [Next]_storeVars
             PROVE  ContainerNameSound'
  OBVIOUS
<1> USE NullsAssumption, NoServiceAssumption
    DEF TypeOK, IndexSound, ContainerNameSound, Live, Put
<1>1. ASSUME NEW id \in Id, NEW svc \in Addable, AddService(id, svc)
      PROVE  ContainerNameSound'
  BY <1>1 DEF AddService, Addable, IndexName
<1>2. ASSUME NEW id \in Id, NEW svc \in Replacements(id), UpdateService(id, svc)
      PROVE  ContainerNameSound'
  <2>1. svc # NoService
    BY DEF Replacements, Addable
  <2>2. CASE idIdx[id] # NoService
    <3>1. /\ containerNameIdx' =
                 IndexName(Put(containerNameIdx, idIdx[id].name, NoId), id, svc)
          /\ idIdx' = Put(idIdx, id, svc)
      BY <1>2, <2>2 DEF UpdateService, UnindexName
    <3>2. ASSUME NEW name \in CName, containerNameIdx'[name] # NoId,
                 ~(svc.source = "docker" /\ name = svc.name)
          PROVE  /\ containerNameIdx'[name] = containerNameIdx[name]
                 /\ containerNameIdx[name] # id
      BY <3>1, <3>2, <2>2 DEF IndexName
    <3> QED BY <2>1, <3>1, <3>2 DEF IndexName
  <2>3. CASE idIdx[id] = NoService
    BY <1>2, <2>3 DEF UpdateService, storeVars
  <2> QED BY <2>2, <2>3
<1>3. ASSUME NEW id \in Id, DeleteService(id)
      PROVE  ContainerNameSound'
  BY <1>3 DEF DeleteService, storeVars, UnindexName
<1>4. ASSUME NEW cid \in Cid, ClearContainerID(cid)
      PROVE  ContainerNameSound'
  <2>1. CASE containerIDIdx[cid] # NoId
    <3>1. /\ idIdx[containerIDIdx[cid]] \in Service
          /\ containerIDIdx[cid] \in Id
      BY <2>1 DEF ContainerIDSound
    <3> DEFINE detached == [idIdx[containerIDIdx[cid]] EXCEPT !.cid = NoCid]
    <3>2. detached \in Service
      BY <3>1, DetachedType
    <3>3. /\ detached.name = idIdx[containerIDIdx[cid]].name
          /\ detached.source = idIdx[containerIDIdx[cid]].source
      BY <3>1 DEF Service
    <3>4. /\ containerNameIdx' = containerNameIdx
          /\ idIdx' = Put(idIdx, containerIDIdx[cid], detached)
      BY <1>4, <2>1 DEF ClearContainerID
    <3> HIDE DEF detached
    <3> QED BY <3>2, <3>3, <3>4
  <2>2. CASE containerIDIdx[cid] = NoId
    BY <1>4, <2>2 DEF ClearContainerID, storeVars
  <2> QED BY <2>1, <2>2
<1>5. ASSUME NEW ranks \in Ranks, ReorderServices(ranks)
      PROVE  ContainerNameSound'
  <2>1. ASSUME NEW id \in Id, idIdx[id] # NoService
        PROVE  /\ idIdx'[id] # NoService
               /\ idIdx'[id].name = idIdx[id].name
               /\ idIdx'[id].source = idIdx[id].source
    <3>1. ASSUME id \in DOMAIN ranks
          PROVE  [idIdx[id] EXCEPT !.order = ranks[id]] \in Service
      BY <2>1, <3>1, ReorderedType DEF Ranks
    <3> QED BY <1>5, <2>1, <3>1 DEF ReorderServices, Service
  <2> QED BY <1>5, <2>1 DEF ReorderServices
<1>6. ASSUME rebuildIndexes
      PROVE  ContainerNameSound'
  BY <1>6 DEF rebuildIndexes, Saved, LiveIds, IsRebuiltNameIdx
<1>7. ASSUME UNCHANGED storeVars
      PROVE  ContainerNameSound'
  BY <1>7 DEF storeVars
<1> QED BY <1>1, <1>2, <1>3, <1>4, <1>5, <1>6, <1>7 DEF Next

-----------------------------------------------------------------------------
(* For any callers: the four maps keep their types, and no lookup returns a *)
(* deleted service or one that has left the key it was looked up by.        *)
THEOREM StoreSound == Spec => [](TypeOK /\ IndexSound)
<1>1. Init => TypeOK /\ IndexSound
  BY InitType DEF Init, IndexSound, SubdomainSound, ContainerIDSound,
                  ContainerNameSound
<1>2. TypeOK /\ IndexSound /\ [Next]_storeVars => (TypeOK /\ IndexSound)'
  BY NextType, NextSubdomain, NextContainerID, NextContainerName DEF IndexSound
<1> QED BY <1>1, <1>2, PTL DEF Spec

-----------------------------------------------------------------------------
(* Careful callers.  IndexComplete is inductive together with the soundness *)
(* of the maps and the fact that only docker services have container names: *)
(* unindexService deletes a name's entry whatever the service's source.     *)
NamesAreDocker ==
    \A id \in LiveIds : idIdx[id].source # "docker" => idIdx[id].name = NoName

CarefulInv == TypeOK /\ IndexSound /\ IndexComplete /\ NamesAreDocker

\* Careful callers are callers.
LEMMA CarefulIsNext == CarefulNext => Next
BY DEF CarefulNext, Next

\* The keys of a service are in the maps' domains, or empty.
LEMMA ServiceFields ==
    ASSUME NEW svc \in Service
    PROVE  /\ svc.sub \in Sub
           /\ svc.cid \in Cid \cup {NoCid}
           /\ svc.name \in CName \cup {NoName}
BY DEF Service

\* A service left alone by a step that touches none of its keys stays findable.
LEMMA StaysFindable ==
    ASSUME CarefulInv, NEW id \in LiveIds, idIdx'[id] = idIdx[id],
           services'[idIdx[id].sub] = services[idIdx[id].sub],
           idIdx[id].cid # NoCid =>
               containerIDIdx'[idIdx[id].cid] = containerIDIdx[idIdx[id].cid],
           idIdx[id].source = "docker" /\ idIdx[id].name # NoName =>
               containerNameIdx'[idIdx[id].name] = containerNameIdx[idIdx[id].name]
    PROVE  Findable(id)'
BY DEF CarefulInv, IndexComplete, Findable, LiveIds, Live

\* Every step of a careful caller keeps every service findable.
LEMMA CarefulComplete ==
    CarefulInv /\ [CarefulNext]_storeVars => IndexComplete' /\ NamesAreDocker'
<1> SUFFICES ASSUME CarefulInv, [CarefulNext]_storeVars
             PROVE  IndexComplete' /\ NamesAreDocker'
  OBVIOUS
<1> USE NullsAssumption, NoServiceAssumption
<1>a. ASSUME NEW id \in LiveIds
      PROVE  /\ id \in Id /\ idIdx[id] \in Service
             /\ services[idIdx[id].sub] = id
             /\ idIdx[id].cid # NoCid => containerIDIdx[idIdx[id].cid] = id
             /\ idIdx[id].source = "docker" /\ idIdx[id].name # NoName =>
                    containerNameIdx[idIdx[id].name] = id
             /\ idIdx[id].source # "docker" => idIdx[id].name = NoName
  BY DEF CarefulInv, TypeOK, IndexComplete, Findable, NamesAreDocker, LiveIds,
         Live
<1>1. ASSUME NEW id \in Id, NEW svc \in Addable, NewKeysFree(id, svc),
             AddService(id, svc)
      PROVE  IndexComplete' /\ NamesAreDocker'
  <2>1. /\ svc \in Service
        /\ svc.source # "docker" => svc.name = NoName
    BY DEF Addable
  <2>2. /\ idIdx' = Put(idIdx, id, svc)
        /\ services' = Put(services, svc.sub, id)
        /\ containerIDIdx' = Put(containerIDIdx, svc.cid, id)
        /\ containerNameIdx' = IF svc.source = "docker"
                               THEN Put(containerNameIdx, svc.name, id)
                               ELSE containerNameIdx
    BY <1>1 DEF AddService, IndexCid, IndexName
  <2>3. idIdx'[id] = svc /\ Findable(id)'
    BY <2>1, <2>2, ServiceFields
       DEF Findable, Put, CarefulInv, TypeOK
  <2>4. ASSUME NEW other \in LiveIds', other # id
        PROVE  /\ other \in LiveIds /\ idIdx'[other] = idIdx[other]
               /\ Findable(other)'
    <3>1. other \in LiveIds /\ idIdx'[other] = idIdx[other]
      BY <2>2, <2>4 DEF LiveIds, Live, Put, CarefulInv, TypeOK
    <3>2. /\ idIdx[other].sub # svc.sub
          /\ idIdx[other].cid # NoCid => idIdx[other].cid # svc.cid
          /\ idIdx[other].name # NoName => idIdx[other].name # svc.name
      BY <1>1, <2>4, <3>1 DEF NewKeysFree
    <3>3. /\ services'[idIdx[other].sub] = services[idIdx[other].sub]
          /\ idIdx[other].cid # NoCid =>
                 containerIDIdx'[idIdx[other].cid]
                     = containerIDIdx[idIdx[other].cid]
          /\ idIdx[other].source = "docker" /\ idIdx[other].name # NoName =>
                 containerNameIdx'[idIdx[other].name]
                     = containerNameIdx[idIdx[other].name]
      BY <1>a, <2>2, <3>1, <3>2, ServiceFields DEF Put, CarefulInv, TypeOK
    <3> QED BY <3>1, <3>3, StaysFindable
  <2> QED BY <1>a, <2>1, <2>3, <2>4 DEF IndexComplete, NamesAreDocker
<1>b. ASSUME NEW id \in LiveIds, NEW other \in LiveIds, other # id
      PROVE  /\ idIdx[other].sub # idIdx[id].sub
             /\ idIdx[other].cid # NoCid => idIdx[other].cid # idIdx[id].cid
             /\ idIdx[other].source = "docker" /\ idIdx[other].name # NoName =>
                    idIdx[other].name # idIdx[id].name
  BY <1>a, <1>b
<1>2. ASSUME NEW id \in Id, NEW svc \in Replacements(id), NewKeysFree(id, svc),
             UpdateService(id, svc)
      PROVE  IndexComplete' /\ NamesAreDocker'
  <2>1. /\ svc \in Service
        /\ svc.source # "docker" => svc.name = NoName
    BY DEF Replacements, Addable
  <2>2. CASE Live(id)
    <3> DEFINE old == idIdx[id]
    <3>1. id \in LiveIds
      BY <2>2 DEF LiveIds
    <3>2. /\ idIdx' = Put(idIdx, id, svc)
          /\ services' = Put(Put(services, old.sub, NoId), svc.sub, id)
          /\ containerIDIdx' = Put(Put(containerIDIdx, old.cid, NoId), svc.cid, id)
          /\ containerNameIdx' =
                 IF svc.source = "docker"
                 THEN Put(Put(containerNameIdx, old.name, NoId), svc.name, id)
                 ELSE Put(containerNameIdx, old.name, NoId)
      BY <1>2, <2>2 DEF UpdateService, IndexCid, IndexName, UnindexCid,
                        UnindexName
    <3>3. idIdx'[id] = svc /\ Findable(id)'
      BY <2>1, <3>2, ServiceFields DEF Findable, Put, CarefulInv, TypeOK
    <3>4. ASSUME NEW other \in LiveIds', other # id
          PROVE  /\ other \in LiveIds /\ idIdx'[other] = idIdx[other]
                 /\ Findable(other)'
      <4>1. other \in LiveIds /\ idIdx'[other] = idIdx[other]
        BY <3>2, <3>4 DEF LiveIds, Live, Put, CarefulInv, TypeOK
      <4>2. /\ idIdx[other].sub # svc.sub
            /\ idIdx[other].cid # NoCid => idIdx[other].cid # svc.cid
            /\ idIdx[other].name # NoName => idIdx[other].name # svc.name
        BY <1>2, <3>4, <4>1 DEF NewKeysFree
      <4>3. /\ idIdx[other].sub # old.sub
            /\ idIdx[other].cid # NoCid => idIdx[other].cid # old.cid
            /\ idIdx[other].source = "docker" /\ idIdx[other].name # NoName =>
                   idIdx[other].name # old.name
        BY <1>b, <3>1, <3>4, <4>1
      <4>4. /\ services'[idIdx[other].sub] = services[idIdx[other].sub]
            /\ idIdx[other].cid # NoCid =>
                   containerIDIdx'[idIdx[other].cid]
                       = containerIDIdx[idIdx[other].cid]
            /\ idIdx[other].source = "docker" /\ idIdx[other].name # NoName =>
                   containerNameIdx'[idIdx[other].name]
                       = containerNameIdx[idIdx[other].name]
        BY <1>a, <3>2, <4>1, <4>2, <4>3, ServiceFields
           DEF Put, CarefulInv, TypeOK
      <4> QED BY <4>1, <4>4, StaysFindable
    <3> QED BY <1>a, <2>1, <3>3, <3>4 DEF IndexComplete, NamesAreDocker
  <2>3. CASE ~Live(id)
    BY <1>2, <2>3 DEF UpdateService, storeVars, CarefulInv, IndexComplete,
                      NamesAreDocker, Findable, LiveIds, Live
  <2> QED BY <2>2, <2>3
<1>3. ASSUME NEW id \in Id, DeleteService(id)
      PROVE  IndexComplete' /\ NamesAreDocker'
  <2>1. CASE Live(id)
    <3> DEFINE old == idIdx[id]
    <3>1. id \in LiveIds
      BY <2>1 DEF LiveIds
    <3>2. /\ idIdx' = Put(idIdx, id, NoService)
          /\ services' = Put(services, old.sub, NoId)
          /\ containerIDIdx' = Put(containerIDIdx, old.cid, NoId)
          /\ containerNameIdx' = Put(containerNameIdx, old.name, NoId)
      BY <1>3, <2>1 DEF DeleteService, UnindexCid, UnindexName
    <3>3. ASSUME NEW other \in LiveIds'
          PROVE  /\ other \in LiveIds /\ idIdx'[other] = idIdx[other]
                 /\ Findable(other)'
      <4>1. other \in LiveIds /\ other # id /\ idIdx'[other] = idIdx[other]
        BY <3>2, <3>3 DEF LiveIds, Live, Put, CarefulInv, TypeOK
      <4>2. /\ services'[idIdx[other].sub] = services[idIdx[other].sub]
            /\ idIdx[other].cid # NoCid =>
                   containerIDIdx'[idIdx[other].cid]
                       = containerIDIdx[idIdx[other].cid]
            /\ idIdx[other].source = "docker" /\ idIdx[other].name # NoName =>
                   containerNameIdx'[idIdx[other].name]
                       = containerNameIdx[idIdx[other].name]
        BY <1>a, <1>b, <3>1, <3>2, <4>1, ServiceFields
           DEF Put, CarefulInv, TypeOK
      <4> QED BY <4>1, <4>2, StaysFindable
    <3> QED BY <1>a, <3>3 DEF IndexComplete, NamesAreDocker
  <2>2. CASE ~Live(id)
    BY <1>3, <2>2 DEF DeleteService, storeVars, CarefulInv, IndexComplete,
                      NamesAreDocker, Findable, LiveIds, Live
  <2> QED BY <2>1, <2>2
<1>4. ASSUME NEW cid \in Cid, ClearContainerID(cid)
      PROVE  IndexComplete' /\ NamesAreDocker'
  <2>1. CASE containerIDIdx[cid] # NoId
    <3>0. PICK id \in Id : id = containerIDIdx[cid]
      BY <2>1 DEF CarefulInv, TypeOK
    <3> DEFINE detached == [idIdx[id] EXCEPT !.cid = NoCid]
    <3>1. id \in LiveIds /\ idIdx[id].cid = cid
      BY <2>1, <3>0 DEF CarefulInv, IndexSound, ContainerIDSound, LiveIds
    <3>2. /\ idIdx' = Put(idIdx, id, detached)
          /\ containerIDIdx' = Put(containerIDIdx, cid, NoId)
          /\ services' = services /\ containerNameIdx' = containerNameIdx
      BY <1>4, <2>1, <3>0 DEF ClearContainerID
    <3>3. /\ detached \in Service /\ detached.sub = idIdx[id].sub
          /\ detached.cid = NoCid /\ detached.name = idIdx[id].name
          /\ detached.source = idIdx[id].source
      BY <1>a, <3>1 DEF Service
    <3>4. idIdx'[id] = detached
      BY <3>1, <3>2 DEF Put, CarefulInv, TypeOK, LiveIds
    <3> HIDE DEF detached
    <3>5. Findable(id)'
      BY <1>a, <3>1, <3>2, <3>3, <3>4 DEF Findable
    <3>6. ASSUME NEW other \in LiveIds', other # id
          PROVE  /\ other \in LiveIds /\ idIdx'[other] = idIdx[other]
                 /\ Findable(other)'
      <4>1. other \in LiveIds /\ idIdx'[other] = idIdx[other]
        BY <3>2, <3>6 DEF LiveIds, Live, Put, CarefulInv, TypeOK
      <4>2. idIdx[other].cid # NoCid =>
                containerIDIdx'[idIdx[other].cid]
                    = containerIDIdx[idIdx[other].cid]
        BY <1>b, <3>1, <3>2, <3>6, <4>1, <1>a, ServiceFields
           DEF Put, CarefulInv, TypeOK
      <4> QED BY <3>2, <4>1, <4>2, StaysFindable
    <3> QED BY <1>a, <3>1, <3>3, <3>4, <3>5, <3>6
            DEF IndexComplete, NamesAreDocker
  <2>2. CASE containerIDIdx[cid] = NoId
    BY <1>4, <2>2 DEF ClearContainerID, storeVars, CarefulInv, IndexComplete,
                      NamesAreDocker, Findable, LiveIds, Live
  <2> QED BY <2>1, <2>2
<1>5. ASSUME NEW ranks \in Ranks, ReorderServices(ranks)
      PROVE  IndexComplete' /\ NamesAreDocker'
  <2>1. ASSUME NEW id \in LiveIds'
        PROVE  /\ id \in LiveIds
               /\ idIdx'[id].sub = idIdx[id].sub
               /\ idIdx'[id].cid = idIdx[id].cid
               /\ idIdx'[id].name = idIdx[id].name
               /\ idIdx'[id].source = idIdx[id].source
    <3>1. id \in Id /\ idIdx'[id] # NoService
      BY <2>1 DEF LiveIds, Live
    <3>2. id \in LiveIds
      BY <1>5, <3>1 DEF ReorderServices, LiveIds, Live
    <3> QED BY <1>a, <1>5, <3>1, <3>2 DEF ReorderServices, Service
  <2> QED BY <1>a, <1>5, <2>1
          DEF ReorderServices, IndexComplete, NamesAreDocker, Findable
<1>6. ASSUME rebuildIndexes
      PROVE  IndexComplete' /\ NamesAreDocker'
  <2>1. Saved = LiveIds
    BY <1>a DEF Saved
  <2>2. services' = services /\ \A id \in LiveIds : idIdx'[id] = idIdx[id]
    BY <1>6, <2>1 DEF rebuildIndexes, LiveIds
  <2>3. LiveIds' = LiveIds
    BY <1>6, <2>1, <2>2 DEF rebuildIndexes, LiveIds, Live
  <2>4. ASSUME NEW id \in LiveIds
        PROVE  Findable(id)'
    <3>1. idIdx[id].cid # NoCid => containerIDIdx'[idIdx[id].cid] = id
      <4>1. SUFFICES ASSUME idIdx[id].cid # NoCid
                     PROVE  containerIDIdx'[idIdx[id].cid] = id
        OBVIOUS
      <4> DEFINE holders == {o \in LiveIds : idIdx[o].cid = idIdx[id].cid}
      <4>2. holders = {id}
        BY <1>b, <4>1
      <4>3. idIdx[id].cid \in Cid
        BY <1>a, <4>1, ServiceFields
      <4>4. containerIDIdx'[idIdx[id].cid] \in holders
        BY <1>6, <2>1, <4>2, <4>3 DEF rebuildIndexes, IsRebuiltCidIdx
      <4> QED BY <4>2, <4>4
    <3>2. idIdx[id].source = "docker" /\ idIdx[id].name # NoName =>
              containerNameIdx'[idIdx[id].name] = id
      <4>1. SUFFICES ASSUME idIdx[id].source = "docker", idIdx[id].name # NoName
                     PROVE  containerNameIdx'[idIdx[id].name] = id
        OBVIOUS
      <4> DEFINE holders == {o \in LiveIds : /\ idIdx[o].source = "docker"
                                             /\ idIdx[o].name = idIdx[id].name}
      <4>2. holders = {id}
        BY <1>b, <4>1
      <4>3. idIdx[id].name \in CName
        BY <1>a, <4>1, ServiceFields
      <4>4. containerNameIdx'[idIdx[id].name] \in holders
        BY <1>6, <2>1, <4>2, <4>3 DEF rebuildIndexes, IsRebuiltNameIdx
      <4> QED BY <4>2, <4>4
    <3> QED BY <1>a, <2>2, <3>1, <3>2 DEF Findable
  <2> QED BY <1>a, <2>2, <2>3, <2>4 DEF IndexComplete, NamesAreDocker
<1>7. ASSUME UNCHANGED storeVars
      PROVE  IndexComplete' /\ NamesAreDocker'
  BY <1>7 DEF storeVars, CarefulInv, IndexComplete, NamesAreDocker, Findable,
              LiveIds, Live
<1> QED BY <1>1, <1>2, <1>3, <1>4, <1>5, <1>6, <1>7 DEF CarefulNext

\* The inductive invariant of careful callers.
LEMMA CarefulInvariant == CarefulSpec => []CarefulInv
<1>1. Init => CarefulInv
  <2>1. Init => TypeOK /\ IndexSound
    BY InitType DEF Init, IndexSound, SubdomainSound, ContainerIDSound,
                    ContainerNameSound
  <2>2. Init => IndexComplete /\ NamesAreDocker
    BY DEF Init, IndexComplete, NamesAreDocker, LiveIds, Live
  <2> QED BY <2>1, <2>2 DEF CarefulInv
<1>2. CarefulInv /\ [CarefulNext]_storeVars => CarefulInv'
  BY CarefulIsNext, CarefulComplete, NextType, NextSubdomain, NextContainerID,
     NextContainerName DEF CarefulInv, IndexSound
<1> QED BY <1>1, <1>2, PTL DEF CarefulSpec

\* When callers keep the keys of different services apart, no service ever
\* drops out of d.Services or out of a lookup map (AddService, UpdateService,
\* ClearContainerID).
THEOREM CarefulStoreComplete == CarefulSpec => []IndexComplete
<1>1. CarefulInv => IndexComplete
  BY DEF CarefulInv
<1> QED BY <1>1, CarefulInvariant, PTL

-----------------------------------------------------------------------------
(* For careful callers the store is the registry of ServiceRegistry: every  *)
(* operation is a registry operation, and a restart changes nothing.        *)
\* Sound and complete lookups are exact.
LEMMA ExactLookups == CarefulInv => Registry!LookupsExact
<1> SUFFICES ASSUME CarefulInv PROVE Registry!LookupsExact
  OBVIOUS
<1> USE NullsAssumption
    DEF CarefulInv, TypeOK, IndexSound, IndexComplete, Findable, LiveIds, Live,
        Registry!Registered
<1>1. ASSUME NEW id \in Id, NEW sub \in Sub
      PROVE  services[sub] = id <=>
                 id \in Registry!Registered /\ idIdx[id].sub = sub
  BY DEF SubdomainSound
<1>2. ASSUME NEW id \in Id, NEW cid \in Cid
      PROVE  containerIDIdx[cid] = id <=>
                 id \in Registry!Registered /\ idIdx[id].cid = cid
  BY DEF ContainerIDSound
<1>3. ASSUME NEW id \in Id, NEW name \in CName
      PROVE  containerNameIdx[name] = id <=>
                 /\ id \in Registry!Registered
                 /\ idIdx[id].source = "docker"
                 /\ idIdx[id].name = name
  BY DEF ContainerNameSound
<1> QED BY <1>1, <1>2, <1>3 DEF Registry!LookupsExact

\* Exact lookups are determined by the services.
LEMMA LookupsDetermined ==
    ASSUME Registry!LookupsExact, Registry!LookupsExact', idIdx' = idIdx
    PROVE  UNCHANGED Registry!regVars
<1> USE NullsAssumption DEF Registry!LookupsExact, Registry!Registered
<1>1. \A sub \in Sub : services'[sub] = services[sub]
  OBVIOUS
<1>2. \A cid \in Cid : containerIDIdx'[cid] = containerIDIdx[cid]
  OBVIOUS
<1>3. \A name \in CName : containerNameIdx'[name] = containerNameIdx[name]
  OBVIOUS
<1> QED BY <1>1, <1>2, <1>3 DEF Registry!regVars

\* Every operation is the registry operation of its kind.
LEMMA RegistryStep ==
    CarefulInv /\ CarefulInv' /\ [CarefulNext]_storeVars
        => [Registry!Next]_(Registry!regVars)
<1> SUFFICES ASSUME CarefulInv, CarefulInv', [CarefulNext]_storeVars
             PROVE  [Registry!Next]_(Registry!regVars)
  OBVIOUS
<1>e. Registry!LookupsExact /\ Registry!LookupsExact'
  BY ExactLookups, PTL
<1>x. CASE idIdx' = idIdx
  BY <1>e, <1>x, LookupsDetermined
<1>y. SUFFICES ASSUME idIdx' # idIdx
               PROVE  Registry!Next
  BY <1>x
<1> USE DEF CarefulInv, TypeOK
<1>w. ASSUME NEW id \in Id, NEW svc \in Service, NewKeysFree(id, svc),
             idIdx' = Put(idIdx, id, svc)
      PROVE  Registry!Next
  <2>1. Registry!Distinct(id, svc)
    BY <1>w DEF NewKeysFree, LiveIds, Live, Registry!Distinct,
                Registry!Registered
  <2>2. idIdx' = [idIdx EXCEPT ![id] = svc]
    BY <1>w DEF Put
  <2>3. Registry!Write(id, svc)
    BY <2>1, <2>2 DEF Registry!Write
  <2> QED BY <1>e, <2>3 DEF Registry!Next
<1>1. ASSUME NEW id \in Id, NEW svc \in Addable, NewKeysFree(id, svc),
             AddService(id, svc)
      PROVE  Registry!Next
  BY <1>1, <1>w DEF AddService, Addable
<1>2. ASSUME NEW id \in Id, NEW svc \in Replacements(id), NewKeysFree(id, svc),
             UpdateService(id, svc)
      PROVE  Registry!Next
  <2>1. idIdx' = Put(idIdx, id, svc)
    BY <1>2, <1>y DEF UpdateService, storeVars
  <2> QED BY <1>2, <1>w, <2>1 DEF Replacements, Addable
<1>3. ASSUME NEW id \in Id, DeleteService(id)
      PROVE  Registry!Next
  <2>1. idIdx' = [idIdx EXCEPT ![id] = NoService]
    BY <1>3, <1>y DEF DeleteService, storeVars, Put
  <2> QED BY <1>e, <2>1 DEF Registry!Next, Registry!Remove
<1>4. ASSUME NEW cid \in Cid, ClearContainerID(cid)
      PROVE  Registry!Next
  <2>1. containerIDIdx[cid] # NoId
    BY <1>4, <1>y DEF ClearContainerID, storeVars
  <2>2. PICK id \in Id : id = containerIDIdx[cid]
    BY <2>1
  <2>4. idIdx' = [idIdx EXCEPT ![id] = [idIdx[id] EXCEPT !.cid = NoCid]]
    BY <1>4, <2>1, <2>2 DEF ClearContainerID, Put
  <2>5. idIdx' = [idIdx EXCEPT ![id].cid = NoCid]
    BY <2>4
  <2> QED BY <1>e, <2>1, <2>2, <2>5 DEF Registry!Next, Registry!Detach
<1>5. ASSUME NEW ranks \in Ranks, ReorderServices(ranks)
      PROVE  Registry!Next
  <2>1. idIdx' \in [Id -> Service \cup {NoService}]
    BY <1>5, NextType DEF Next, IndexSound
  <2>2. ASSUME NEW id \in Id
        PROVE  \/ idIdx'[id] = idIdx[id]
               \/ /\ id \in Registry!Registered
                  /\ \E svc \in Service :
                         idIdx'[id] = [idIdx[id] EXCEPT !.order = svc.order]
    <3>1. CASE id \in DOMAIN ranks /\ Live(id)
      <4> DEFINE moved == [idIdx[id] EXCEPT !.order = ranks[id]]
      <4>1. moved \in Service /\ moved.order = ranks[id]
        <5>1. idIdx[id] \in Service /\ ranks[id] \in 0..MaxOrder
          BY <3>1 DEF Live, Ranks
        <5> QED BY <5>1, ReorderedType DEF Service
      <4>2. idIdx'[id] = moved
        BY <1>5, <3>1 DEF ReorderServices
      <4> QED BY <3>1, <4>1, <4>2 DEF Live, Registry!Registered
    <3>2. CASE ~(id \in DOMAIN ranks /\ Live(id))
      BY <1>5, <3>2 DEF ReorderServices
    <3> QED BY <3>1, <3>2
  <2> QED BY <1>e, <2>1, <2>2 DEF Registry!Next, Registry!Reorder
<1>6. ASSUME rebuildIndexes
      PROVE  FALSE
  <2>1. Saved = LiveIds
    BY DEF Saved, IndexComplete, Findable, LiveIds
  <2>2. \A id \in Id : idIdx'[id] = idIdx[id]
    BY <1>6, <2>1 DEF rebuildIndexes, LiveIds, Live
  <2>3. idIdx' = idIdx
    BY <1>6, <2>2 DEF rebuildIndexes
  <2> QED BY <1>y, <2>3
<1> QED BY <1>1, <1>2, <1>3, <1>4, <1>5, <1>6, <1>y DEF CarefulNext, storeVars

\* A careful caller's store is a set of services with distinct keys in which
\* a restart cannot be noticed.
THEOREM StoreImplementsRegistry == CarefulSpec => ImplementsRegistry
<1>1. Init => Registry!Init
  BY NullsAssumption
     DEF Init, Registry!Init, Registry!LookupsExact, Registry!Registered
<1>2. CarefulSpec => []CarefulInv
  BY CarefulInvariant
<1>3. CarefulInv /\ CarefulInv' /\ [CarefulNext]_storeVars
        => [Registry!Next]_(Registry!regVars)
  BY RegistryStep
<1> QED BY <1>1, <1>2, <1>3, PTL
        DEF CarefulSpec, ImplementsRegistry, Registry!Spec
=============================================================================
