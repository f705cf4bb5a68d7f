---------------------------- MODULE ServiceStore ----------------------------
(***************************************************************************)
(* The services part of internal/store/store.go: the map d.Services, which *)
(* is what Save writes, and the three lookup maps kept beside it.          *)
(*                                                                         *)
(* In Go all four maps hold pointers to Service objects.  At most one      *)
(* object per service ID is ever indexed (IDs are 64 random bits, and      *)
(* UpdateService takes the old object of an ID out of every map under its  *)
(* own keys), so a pointer is modelled by the ID it points at and the      *)
(* object itself is idIdx[id].  IndexSound, proved in ServiceStoreProofs,  *)
(* is what makes this representation a legitimate one: no map points at an *)
(* ID that idIdx does not hold.                                            *)
(*                                                                         *)
(* Every operation below is one critical section of Store.mu.              *)
(***************************************************************************)
EXTENDS Integers

CONSTANTS
    Id,             \* service IDs
    Sub,            \* keys of d.Services: subdomains and "_direct_" keys
    Cid,            \* container IDs
    CName,          \* container names
    Payload,        \* the fields of a Service the indexes do not look at
    MaxOrder,       \* bound on Service.Order
    NoId,           \* "no such entry" in a map from keys to services
    NoCid,          \* ContainerID == ""
    NoName,         \* ContainerName == ""
    NoService       \* idIdx[id] == nil

ASSUME NullsAssumption ==
    /\ NoId \notin Id
    /\ NoCid \notin Cid
    /\ NoName \notin CName

ASSUME OrderAssumption == MaxOrder \in Nat

Source == {"docker", "network", "manual"}

\* A Service object; the remaining fields travel in data.
Service ==
    [sub    : Sub,
     source : Source,
     cid    : Cid \cup {NoCid},
     name   : CName \cup {NoName},
     order  : 0..MaxOrder,
     data   : Payload]

ASSUME NoServiceAssumption == NoService \notin Service

VARIABLES
    services,           \* s.d.Services: subdomain -> service
    idIdx,              \* service ID -> the object
    containerIDIdx,     \* container ID -> service
    containerNameIdx    \* container name -> service

storeVars == <<services, idIdx, containerIDIdx, containerNameIdx>>

-----------------------------------------------------------------------------
(* Map primitives.  Assigning to or deleting the key "" (NoCid, NoName) has *)
(* no effect: it is outside the domain, as it never enters the Go maps.     *)

Put(map, key, value) ==
    [k \in DOMAIN map |-> IF k = key THEN value ELSE map[k]]

Live(id) == idIdx[id] # NoService

LiveIds == {id \in Id : Live(id)}

\* indexService and unindexService, one map at a time.
IndexCid(map, id, svc) == Put(map, svc.cid, id)

IndexName(map, id, svc) ==
    IF svc.source = "docker" THEN Put(map, svc.name, id) ELSE map

UnindexCidMutant(map, svc) == map

UnindexCid(map, svc) == Put(map, svc.cid, NoId)

UnindexNameMutant(map, svc) == map

\* Deletes the entry whoever it points at: two services may share a name.
UnindexName(map, svc) == Put(map, svc.name, NoId)

-----------------------------------------------------------------------------
(* Operations *)

\* GetServiceBySubdomain
SubdomainTaken(sub) == services[sub] # NoId

\* An ID from util.NewID: never one in use.
AddService(id, svc) ==
    /\ ~Live(id)
    /\ services' = Put(services, svc.sub, id)
    /\ idIdx' = Put(idIdx, id, svc)
    /\ containerIDIdx' = IndexCid(containerIDIdx, id, svc)
    /\ containerNameIdx' = IndexName(containerNameIdx, id, svc)

\* An ID that is gone makes this a no-op.
UpdateService(id, svc) ==
    IF Live(id)
    THEN LET old == idIdx[id] IN
         /\ services' = Put(Put(services, old.sub, NoId), svc.sub, id)
         /\ idIdx' = Put(idIdx, id, svc)
         /\ containerIDIdx' = IndexCid(UnindexCid(containerIDIdx, old), id, svc)
         /\ containerNameIdx' =
                IndexName(UnindexName(containerNameIdx, old), id, svc)
    ELSE UNCHANGED storeVars

DeleteService(id) ==
    IF Live(id)
    THEN LET old == idIdx[id] IN
         /\ services' = Put(services, old.sub, NoId)
         /\ idIdx' = Put(idIdx, id, NoService)
         /\ containerIDIdx' = UnindexCid(containerIDIdx, old)
         /\ containerNameIdx' = UnindexName(containerNameIdx, old)
    ELSE UNCHANGED storeVars

\* The name association is kept on purpose, so that a restarted container can
\* be reattached by name.
ClearContainerIDMutant(cid) ==
    IF containerIDIdx[cid] # NoId
    THEN LET id == containerIDIdx[cid] IN
         /\ idIdx' = Put(idIdx, id, [idIdx[id] EXCEPT !.cid = NoCid])
         /\ containerIDIdx' = Put(containerIDIdx, cid, NoId)
         /\ containerNameIdx' = UnindexName(containerNameIdx, idIdx[id])
         /\ UNCHANGED services
    ELSE UNCHANGED storeVars

ClearContainerID(cid) ==
    IF containerIDIdx[cid] # NoId
    THEN LET id == containerIDIdx[cid] IN
         /\ idIdx' = Put(idIdx, id, [idIdx[id] EXCEPT !.cid = NoCid])
         /\ containerIDIdx' = Put(containerIDIdx, cid, NoId)
         /\ UNCHANGED <<services, containerNameIdx>>
    ELSE UNCHANGED storeVars

\* Positions counted from one.
ReorderServicesMutant(ranks) ==
    /\ idIdx' = [id \in Id |->
                    IF id \in DOMAIN ranks /\ Live(id)
                    THEN [idIdx[id] EXCEPT !.order = ranks[id] + 1]
                    ELSE idIdx[id]]
    /\ UNCHANGED <<services, containerIDIdx, containerNameIdx>>

\* ranks[id] is the last position of id in the request's list; services that
\* are not in the list keep their order, and unknown IDs are skipped.
ReorderServices(ranks) ==
    /\ idIdx' = [id \in Id |->
                    IF id \in DOMAIN ranks /\ Live(id)
                    THEN [idIdx[id] EXCEPT !.order = ranks[id]]
                    ELSE idIdx[id]]
    /\ UNCHANGED <<services, containerIDIdx, containerNameIdx>>

-----------------------------------------------------------------------------
(* load and rebuildIndexes, after a restart that finds the last state saved *)

Saved == {id \in LiveIds : services[idIdx[id].sub] = id}

\* The iteration order over d.Services is Go's, so the last of several
\* services with one container ID or name to be indexed is any of them.
IsRebuiltCidIdx(map) ==
    \A cid \in Cid :
        LET holders == {id \in Saved : idIdx[id].cid = cid} IN
        IF holders = {} THEN map[cid] = NoId ELSE map[cid] \in holders

IsRebuiltNameIdx(map) ==
    \A name \in CName :
        LET holders == {id \in Saved : /\ idIdx[id].source = "docker"
                                       /\ idIdx[id].name = name} IN
        IF holders = {} THEN map[name] = NoId ELSE map[name] \in holders

rebuildIndexes ==
    /\ idIdx' = [id \in Id |-> IF id \in Saved THEN idIdx[id] ELSE NoService]
    /\ containerIDIdx' \in [Cid -> Id \cup {NoId}]
    /\ IsRebuiltCidIdx(containerIDIdx')
    /\ containerNameIdx' \in [CName -> Id \cup {NoId}]
    /\ IsRebuiltNameIdx(containerNameIdx')
    /\ UNCHANGED services

-----------------------------------------------------------------------------
(* Specification for callers that respect nothing but the argument types *)

\* New with no config.json
Init ==
    /\ services = [sub \in Sub |-> NoId]
    /\ idIdx = [id \in Id |-> NoService]
    /\ containerIDIdx = [cid \in Cid |-> NoId]
    /\ containerNameIdx = [name \in CName |-> NoId]

\* Only docker services ever carry container fields.
Addable == {svc \in Service :
                svc.source # "docker" => svc.cid = NoCid /\ svc.name = NoName}

\* UpdateService callers copy the service they replace: its source is fixed.
Replacements(id) == {svc \in Addable : Live(id) => svc.source = idIdx[id].source}

Ranks == UNION {[ids -> 0..MaxOrder] : ids \in SUBSET Id}

Next ==
    \/ \E id \in Id, svc \in Addable : AddService(id, svc)
    \/ \E id \in Id : \E svc \in Replacements(id) : UpdateService(id, svc)
    \/ \E id \in Id : DeleteService(id)
    \/ \E cid \in Cid : ClearContainerID(cid)
    \/ \E ranks \in Ranks : ReorderServices(ranks)
    \/ rebuildIndexes

Spec == Init /\ [][Next]_storeVars

-----------------------------------------------------------------------------
(* Specification for callers that never write a service whose subdomain,   *)
(* container ID or container name belongs to another service               *)

NewKeysFree(id, svc) ==
    \A other \in LiveIds \ {id} :
        /\ idIdx[other].sub # svc.sub
        /\ svc.cid # NoCid => idIdx[other].cid # svc.cid
        /\ svc.name # NoName => idIdx[other].name # svc.name

CarefulNext ==
    \/ \E id \in Id, svc \in Addable :
           NewKeysFree(id, svc) /\ AddService(id, svc)
    \/ \E id \in Id : \E svc \in Replacements(id) :
           NewKeysFree(id, svc) /\ UpdateService(id, svc)
    \/ \E id \in Id : DeleteService(id)
    \/ \E cid \in Cid : ClearContainerID(cid)
    \/ \E ranks \in Ranks : ReorderServices(ranks)
    \/ rebuildIndexes

CarefulSpec == Init /\ [][CarefulNext]_storeVars

-----------------------------------------------------------------------------
(* Properties *)

\* The types of the four maps.
TypeOK ==
    /\ services \in [Sub -> Id \cup {NoId}]
    /\ idIdx \in [Id -> Service \cup {NoService}]
    /\ containerIDIdx \in [Cid -> Id \cup {NoId}]
    /\ containerNameIdx \in [CName -> Id \cup {NoId}]

SubdomainSound ==
    \A sub \in Sub : services[sub] # NoId =>
        /\ Live(services[sub])
        /\ idIdx[services[sub]].sub = sub

ContainerIDSound ==
    \A cid \in Cid : containerIDIdx[cid] # NoId =>
        /\ Live(containerIDIdx[cid])
        /\ idIdx[containerIDIdx[cid]].cid = cid

ContainerNameSound ==
    \A name \in CName : containerNameIdx[name] # NoId =>
        /\ Live(containerNameIdx[name])
        /\ idIdx[containerNameIdx[name]].name = name
        /\ idIdx[containerNameIdx[name]].source = "docker"

\* No lookup returns a deleted service or one that has left the key it was
\* looked up by, whatever the callers write: the hand-kept maps of
\* indexService/unindexService never go stale, even when services collide on
\* a subdomain, a container ID or a container name.
IndexSound == SubdomainSound /\ ContainerIDSound /\ ContainerNameSound

\* The service is found under each of its keys.
Findable(id) ==
    LET svc == idIdx[id] IN
    /\ services[svc.sub] = id
    /\ svc.cid # NoCid => containerIDIdx[svc.cid] = id
    /\ svc.source = "docker" /\ svc.name # NoName =>
           containerNameIdx[svc.name] = id

\* With callers that keep keys apart, every service is found under each of its
\* keys: it is in d.Services (and so in the next Save) under its subdomain, and
\* a container's stop or restart finds it by container ID or name, after any
\* history of renames, detachments and deletions.  With IndexSound this says
\* the hand-kept maps are what rebuildIndexes would compute from d.Services.
IndexComplete == \A id \in LiveIds : Findable(id)

\* For careful callers the store is a registry of services whose lookups are
\* exact and in which restarts are invisible: saving, exiting and rebuilding
\* the maps loses no service and revives none.
Registry == INSTANCE ServiceRegistry
    WITH registry <- idIdx, bySub <- services,
         byCid <- containerIDIdx, byName <- containerNameIdx

ImplementsRegistry == Registry!Spec
=============================================================================
