-------------------------- MODULE ServiceRegistry ---------------------------
(***************************************************************************)
(* What the service half of the store promises the rest of the program: a  *)
(* set of services in which a subdomain, a container ID or a docker        *)
(* container name leads to exactly the service that carries it, at every   *)
(* moment, and which only the operations below change: not a restart.      *)
(* ServiceStore implements it for careful callers.                         *)
(***************************************************************************)
CONSTANTS Id, Sub, Cid, CName, Service, NoId, NoCid, NoName, NoService

VARIABLES
    registry,                   \* service ID -> the service, or NoService
    bySub, byCid, byName        \* what the three lookups answer

regVars == <<registry, bySub, byCid, byName>>

Registered == {id \in Id : registry[id] # NoService}

\* The lookups answer from the services as they are, and nothing else.
LookupsExact ==
    /\ bySub \in [Sub -> Id \cup {NoId}]
    /\ byCid \in [Cid -> Id \cup {NoId}]
    /\ byName \in [CName -> Id \cup {NoId}]
    /\ \A id \in Id :
        /\ \A sub \in Sub :
               bySub[sub] = id <=> id \in Registered /\ registry[id].sub = sub
        /\ \A cid \in Cid :
               byCid[cid] = id <=> id \in Registered /\ registry[id].cid = cid
        /\ \A name \in CName :
               byName[name] = id <=> /\ id \in Registered
                                     /\ registry[id].source = "docker"
                                     /\ registry[id].name = name

Distinct(id, svc) ==
    \A other \in Registered \ {id} :
        /\ registry[other].sub # svc.sub
        /\ svc.cid # NoCid => registry[other].cid # svc.cid
        /\ svc.name # NoName => registry[other].name # svc.name

\* Add or replace.
Write(id, svc) ==
    /\ Distinct(id, svc)
    /\ registry' = [registry EXCEPT ![id] = svc]

Remove(id) == registry' = [registry EXCEPT ![id] = NoService]

\* A container is gone; its service stays.
Detach(cid) ==
    /\ byCid[cid] # NoId
    /\ registry' = [registry EXCEPT ![byCid[cid]].cid = NoCid]

\* Some services move, and nothing else about them changes.
Reorder ==
    /\ registry' \in [Id -> Service \cup {NoService}]
    /\ \A id \in Id :
        \/ registry'[id] = registry[id]
        \/ /\ id \in Registered
           /\ \E svc \in Service :
                registry'[id] = [registry[id] EXCEPT !.order = svc.order]

Init ==
    /\ registry = [id \in Id |-> NoService]
    /\ LookupsExact

Next ==
    /\ \/ \E id \in Id, svc \in Service : Write(id, svc)
       \/ \E id \in Id : Remove(id)
       \/ \E cid \in Cid : Detach(cid)
       \/ Reorder
    /\ LookupsExact'

Spec == Init /\ [][Next]_regVars
=============================================================================
