---------------------------- MODULE DockerWatch -----------------------------
(***************************************************************************)
(* DockerWatch of internal/discovery/docker.go over the store it shares    *)
(* with the request handlers: the listing at start-up, the event stream,   *)
(* which breaks and loses what was on its way, the two seconds each start  *)
(* event waits in line with the events behind it, and users who assign,    *)
(* edit and delete between two calls of the watcher and the other way      *)
(* round.                                                                  *)
(*                                                                         *)
(* Store.mu is released between any two calls of the store, so every call  *)
(* of upsertContainerWithLabels, addDockerDiscovered and detachContainer   *)
(* is a step of its own, and pc names the call that is next.  detectScheme,*)
(* which may take seconds, is between Consider and ByName.                 *)
(***************************************************************************)
EXTENDS DiscoveredLists, Sequences

CONSTANTS
    User,           \* concurrent requests
    NoAddr,         \* IP "" and port 0, and "no lantern.url"
    NoSub,          \* no lantern.subdomain
    Self,           \* "lantern", the name of Lantern's own container
    Labels,         \* container ID -> what Docker reports of the container
    MaxOps,         \* bound on what happens to containers
    MaxFaults,      \* bound on broken streams, failed calls and restarts
    MaxRequests,    \* bound on user requests
    MaxAll          \* bound on all three together

\* A port alone stands for ServerIP:port.
Port == Addr \cap Nat

Container ==
    [name      : CName,
     enable    : BOOLEAN,                   \* lantern.enable # "false"
     title     : CName \cup {NoName},       \* lantern.name
     url       : Addr,                      \* lantern.url
     sub       : Sub \cup {NoSub},          \* lantern.subdomain
     ownSub    : Sub,                       \* the container's name, sanitised
     hosts     : SUBSET Sub,                \* of the Traefik rules
     port      : SUBSET Port,               \* lantern.port, at most one
     loadPorts : SUBSET Port,               \* of the Traefik services
     published : SUBSET Port]

ASSUME DockerAssumption ==
    /\ Labels \in [Cid -> Container]
    /\ NoAddr \in Addr \ Nat
    /\ Self \in CName
    /\ Payload = [addr : Addr, home : CName \cup {NoName}]
    /\ Info # {}

VARIABLES
    daemon,     \* container ID -> "none", "up", "down" or "gone"
    stream,     \* is the watcher subscribed
    events,     \* sent by the daemon and not yet read, in order
    pc,         \* where DockerWatch is
    todo,       \* listed containers that syncContainers has not come to
    job,        \* the container being upserted, with what it resolved to
    req,        \* user -> the request being served
    budget,     \* what may still happen
    loose,      \* history: containers whose end was not heard, whose ID a request
                \* held when it was or read before it was done with, or that two
                \* services got
    doubled,    \* history: container names that two services had at once
    arrived,    \* history: services that requests gave a container name since
                \* the watcher last looked one up
    missed      \* history: the container, if any, that was last given up with
                \* neither a service nor an entry

dockerVars == <<daemon, stream, events>>
watcherVars == <<pc, todo, job>>
historyVars == <<loose, doubled, arrived, missed>>
vars == <<storeVars, listVars, dockerVars, watcherVars, req, budget, historyVars>>

Idle == [op |-> "none"]

Nobody == [cid |-> NoCid]

Spend(what) ==
    /\ budget[what] > 0 /\ budget["all"] > 0
    /\ budget' = [budget EXCEPT ![what] = @ - 1, !["all"] = @ - 1]

-----------------------------------------------------------------------------
(* resolveContainer: the outcomes that Go's map iteration order allows *)

preferred == <<80, 8080, 3000, 5000, 9443, 9000, 8096, 8123, 443, 8443, 8000>>

bestPortMutant(published) == {i \in DOMAIN preferred : preferred[i] \in published}

\* The first in order of preference, else any: portsFromNetwork has put the
\* ports of a started container in random order.
bestPort(published) ==
    LET ranked == {i \in DOMAIN preferred : preferred[i] \in published} IN
    IF ranked = {} THEN published
    ELSE {preferred[CHOOSE i \in ranked : \A j \in ranked : i <= j]}

\* Whichever label Go's map yields first
traefikSubdomain(c) == c.hosts

traefikPort(c) == c.loadPorts

Subdomains(c) ==
    CASE c.sub # NoSub                      -> {c.sub}
      [] c.sub = NoSub /\ c.url = NoAddr
           /\ traefikSubdomain(c) # {}      -> traefikSubdomain(c)
      [] OTHER                              -> {c.ownSub}

Addresses(c, up) ==
    CASE c.url # NoAddr                              -> {c.url}
      [] c.url = NoAddr /\ c.port # {}               -> c.port
      [] c.url = NoAddr /\ c.port = {}
           /\ traefikPort(c) # {}                    -> traefikPort(c)
      [] OTHER -> IF up THEN bestPort(c.published) ELSE {}

\* No outcome: no usable port.  A stopped container publishes none.
resolveContainer(cid, up) ==
    LET c == Labels[cid] IN
    [title : {IF c.title # NoName THEN c.title ELSE c.name},
     sub   : Subdomains(c),
     addr  : Addresses(c, up)]

-----------------------------------------------------------------------------
(* The Docker daemon *)

Ended(cid) == daemon[cid] \in {"down", "gone"}

Held(name) == \E cid \in Cid : Labels[cid].name = name /\ daemon[cid] \in {"up", "down"}

Emit(kind, cid) ==
    events' = IF stream THEN Append(events, [kind |-> kind, cid |-> cid]) ELSE events

Happens(cid, state) ==
    /\ Spend("ops")
    /\ daemon' = [daemon EXCEPT ![cid] = state]
    /\ UNCHANGED <<storeVars, listVars, stream, watcherVars, req, doubled, arrived, missed>>

\* docker run, docker start.  Names are unique among existing containers.
Run(cid) ==
    /\ \/ daemon[cid] = "none" /\ ~Held(Labels[cid].name)
       \/ daemon[cid] = "down"
    /\ Happens(cid, "up")
    /\ Emit("start", cid)
    /\ UNCHANGED loose

\* die, and stop if it was asked for
Exit(cid) ==
    /\ daemon[cid] = "up"
    /\ Happens(cid, "down")
    /\ Emit("end", cid)
    /\ loose' = IF stream THEN loose ELSE loose \cup {cid}

\* docker rm, and docker rm -f
Remove(cid) ==
    /\ daemon[cid] \in {"up", "down"}
    /\ Happens(cid, "gone")
    /\ Emit("end", cid)
    /\ loose' = IF ~stream /\ daemon[cid] = "up" THEN loose \cup {cid} ELSE loose

\* docker kill with a signal that the process handles and survives
Signal(cid) ==
    /\ daemon[cid] = "up"
    /\ Happens(cid, "up")
    /\ Emit("end", cid)
    /\ UNCHANGED loose

EndOnItsWay(cid) == \E i \in DOMAIN events : events[i] = [kind |-> "end", cid |-> cid]

\* Events on their way are lost, and with a restart the one being handled.
LoseEvents(handled) ==
    /\ events' = <<>>
    /\ loose' = loose \cup handled \cup {cid \in Cid : Ended(cid) /\ EndOnItsWay(cid)}

StreamBreaks ==
    /\ stream
    /\ Spend("faults")
    /\ stream' = FALSE
    /\ LoseEvents({})
    /\ UNCHANGED <<storeVars, listVars, daemon, watcherVars, req, doubled, arrived, missed>>

-----------------------------------------------------------------------------
(* DockerWatch *)

\* Without a client or an answer to its Ping, DockerWatch returns for good.  A
\* failing ContainerList is as good as an empty one.
ListContainers ==
    /\ pc = "list"
    /\ \/ pc' = "off" /\ UNCHANGED todo /\ Spend("faults")
       \/ pc' = "sync" /\ todo' = {} /\ Spend("faults")
       \/ pc' = "sync" /\ todo' = {cid \in Cid : daemon[cid] = "up"} /\ UNCHANGED budget
    /\ UNCHANGED <<storeVars, listVars, dockerVars, job, req, historyVars>>

\* The early returns of upsertContainerWithLabels
Skipped(cid, up) ==
    \/ Labels[cid].name = Self
    \/ ~Labels[cid].enable
    \/ containerIDIdx[cid] # NoId
    \/ resolveContainer(cid, up) = {}

Consider(cid, up, back) ==
    \/ /\ Skipped(cid, up)
       /\ pc' = back
       /\ job' = Nobody
    \/ /\ ~Skipped(cid, up)
       /\ pc' = "name"
       /\ \E info \in resolveContainer(cid, up) :
              job' = [cid |-> cid, info |-> info, back |-> back]

\* The watcher turns to the next container.
TurnTo == missed' = NoCid /\ UNCHANGED <<doubled, arrived>>

SyncNext(cid) ==
    /\ pc = "sync"
    /\ cid \in todo
    /\ todo' = todo \ {cid}
    /\ Consider(cid, TRUE, "sync")
    /\ TurnTo
    /\ UNCHANGED <<storeVars, listVars, dockerVars, req, budget, loose>>

\* dockerEvents; what happened since the list was taken is not replayed.
Subscribe ==
    /\ pc = "sync" /\ todo = {}
    /\ pc' = "watch"
    /\ stream' = TRUE
    /\ UNCHANGED <<storeVars, listVars, daemon, events, todo, job, req, budget,
                   historyVars>>

\* Ten seconds after an error, and without a new list
Reconnect ==
    /\ pc = "watch" /\ ~stream
    /\ stream' = TRUE
    /\ UNCHANGED <<storeVars, listVars, daemon, events, watcherVars, req, budget,
                   historyVars>>

TakeEvent(kind) ==
    /\ pc = "watch"
    /\ events # <<>>
    /\ Head(events).kind = kind
    /\ events' = Tail(events)
    /\ job' = [cid |-> Head(events).cid]
    /\ TurnTo
    /\ UNCHANGED <<daemon, stream, todo, req, budget>>

TakeStart ==
    /\ TakeEvent("start")
    /\ pc' = "delay"
    /\ UNCHANGED <<storeVars, listVars, loose>>

\* The container is done with.
Return(label) == pc' = label /\ job' = Nobody

Quiet == UNCHANGED <<dockerVars, todo, req>>

\* ContainerInspect, two seconds later
Inspect ==
    /\ pc = "delay"
    /\ daemon[job.cid] # "gone"
    /\ Consider(job.cid, daemon[job.cid] = "up", "watch")
    /\ Quiet /\ UNCHANGED <<storeVars, listVars, budget, historyVars>>

\* It fails for a removed container, and any other error drops the start too:
\* nothing retries it.
InspectFails ==
    /\ pc = "delay"
    /\ \/ daemon[job.cid] = "gone" /\ UNCHANGED budget
       \/ daemon[job.cid] # "gone" /\ Spend("faults")
    /\ Return("watch")
    /\ missed' = job.cid
    /\ Quiet /\ UNCHANGED <<storeVars, listVars, loose, doubled, arrived>>

\* A request that has read the container ID and may write it
Holds(cid) ==
    \E u \in User :
        \/ req[u].op = "assign" /\ req[u].entry.cid = cid
        \/ req[u].op \in {"edit", "delete"} /\ req[u].svc.cid = cid

forgetMutant(cid) == UNCHANGED discoveredVars

\* The second call of detachContainer
forget(cid) == RemoveDiscoveredByContainerID(cid)

\* handleDockerEvent on die, stop, destroy or kill: detachContainer clears the
\* container ID of the service, ...
TakeEnd ==
    /\ TakeEvent("end")
    /\ pc' = "forget"
    /\ ClearContainerID(Head(events).cid)
    /\ loose' = IF Holds(Head(events).cid) THEN loose \cup {Head(events).cid} ELSE loose
    /\ UNCHANGED listVars

HalfDetached(cid) == pc = "forget" /\ job.cid = cid

\* ... and then takes the container off the discovered list.
Forget ==
    /\ pc = "forget"
    /\ Return("watch")
    /\ forget(job.cid)
    /\ Quiet /\ UNCHANGED <<storeVars, ignoredVars, budget, historyVars>>

\* IDs are 64 random bits: what a request or the watcher still holds is not
\* given again.
FreeId(id) ==
    /\ ~Live(id)
    /\ \A u \in User : req[u].op = "edit" => req[u].id # id
    /\ pc = "reattach" => job.id # id

FreeDid(did) ==
    /\ Unused(did)
    /\ \A u \in User : req[u].op \in {"assign", "assigned"} => req[u].did # did

NewId(id) == FreeId(id) /\ id = CHOOSE free \in Id : FreeId(free)

NewDid(did) == FreeDid(did) /\ did = CHOOSE free \in Did : FreeDid(free)

AssignedFrom(name) == {id \in LiveIds : idIdx[id].data.home = name}

\* A service takes a container that another service has.
Attach(cid, id) ==
    loose' = IF cid # NoCid /\ containerIDIdx[cid] \notin {NoId, id}
             THEN loose \cup {cid} ELSE loose

\* A service gets a container name that another service has.
Associate(name, id) ==
    doubled' = IF AssignedFrom(name) \ {id} # {} THEN doubled \cup {name} ELSE doubled

\* The copy of the service found that is to be written: preserveScheme keeps
\* the scheme, the rest of the target is the container's.
Taking(id, name) ==
    [cid  |-> job.cid,
     back |-> job.back,
     id   |-> id,
     svc  |-> [idIdx[id] EXCEPT !.cid = job.cid, !.name = name,
                                !.data.addr = job.info.addr,
                                !.data.home = Labels[job.cid].name]]

\* GetServiceByContainerName
ByName ==
    LET found == containerNameIdx[Labels[job.cid].name] IN
    /\ pc = "name"
    /\ \/ /\ found # NoId
          /\ pc' = "reattach"
          /\ job' = Taking(found, idIdx[found].name)
       \/ /\ found = NoId
          /\ pc' = "sub"
          /\ UNCHANGED job
    /\ arrived' = {}
    /\ Quiet /\ UNCHANGED <<storeVars, listVars, budget, loose, doubled, missed>>

\* GetServiceBySubdomain; a service without the name is given it.
BySubdomain ==
    LET found == services[job.info.sub] IN
    /\ pc = "sub"
    /\ \/ /\ found # NoId /\ idIdx[found].source = "docker"
          /\ pc' = "reattach"
          /\ job' = Taking(found, Labels[job.cid].name)
       \/ /\ found # NoId => idIdx[found].source # "docker"
          /\ pc' = "offer"
          /\ UNCHANGED job
    /\ Quiet /\ UNCHANGED <<storeVars, listVars, budget, historyVars>>

\* UpdateService writes the copy back, whatever has become of the service; if it
\* is gone, that does nothing, and nothing else is tried.
Reattach ==
    /\ pc = "reattach"
    /\ Return(job.back)
    /\ UpdateService(job.id, job.svc)
    /\ IF Live(job.id)
       THEN /\ Attach(job.cid, job.id)
            /\ Associate(job.svc.data.home, job.id)
            /\ UNCHANGED missed
       ELSE /\ missed' = job.cid
            /\ UNCHANGED <<loose, doubled>>
    /\ Quiet /\ UNCHANGED <<listVars, budget, arrived>>

\* addDockerDiscovered: GetDiscoveredByContainerID, ...
Offer ==
    /\ pc = "offer"
    /\ IF ContainerListed(job.cid) THEN Return(job.back)
                                   ELSE pc' = "add" /\ UNCHANGED job
    /\ Quiet /\ UNCHANGED <<storeVars, listVars, budget, historyVars>>

\* ... and AddDiscovered, which looks again.
Add ==
    /\ pc = "add"
    /\ Return(job.back)
    /\ \E did \in Did :
           /\ NewDid(did)
           /\ AddDiscovered(did, [addr |-> job.info.addr, source |-> "docker",
                                  cid |-> job.cid, name |-> job.info.title,
                                  info |-> CHOOSE info \in Info : TRUE])
    /\ Quiet /\ UNCHANGED <<storeVars, ignoredVars, budget, historyVars>>

\* Lantern exits at any point and starts again; everything was saved.
Restart ==
    /\ Spend("faults")
    /\ pc' = "list"
    /\ todo' = {}
    /\ stream' = FALSE
    /\ LoseEvents({cid \in Cid : HalfDetached(cid)})
    /\ req' = [u \in User |-> Idle]
    /\ rebuildIndexes
    /\ rebuildListIndexes
    /\ job' = Nobody
    /\ arrived' = {} /\ missed' = NoCid
    /\ UNCHANGED <<daemon, doubled>>

-----------------------------------------------------------------------------
(* Requests *)

Begin(u, request) ==
    /\ req[u].op = "none"
    /\ Spend("requests")
    /\ req' = [req EXCEPT ![u] = request]

Finish(u, op) ==
    /\ req[u].op = op
    /\ req' = [req EXCEPT ![u] = Idle]

\* The watcher has looked for the name of its container and found no service.
Unfound == pc \in {"sub", "offer", "add"}

\* A request gives a service a container and a container name.
Give(id, svc) ==
    /\ Attach(svc.cid, id)
    /\ Associate(svc.data.home, id)
    /\ arrived' = IF Unfound THEN arrived \cup {id} ELSE arrived
    /\ UNCHANGED missed

\* createService reads the entry, calls Cloudflare, then stores the service.
BeginAssign(u, did, sub) ==
    /\ IsListed(did)
    /\ ~SubdomainTaken(sub)
    /\ Begin(u, [op |-> "assign", did |-> did, entry |-> discoveredIdx[did], sub |-> sub])
    /\ loose' = IF HalfDetached(discoveredIdx[did].cid)
                THEN loose \cup {job.cid} ELSE loose
    /\ UNCHANGED <<storeVars, listVars, dockerVars, watcherVars, doubled, arrived, missed>>

HomeOf(entry) == IF entry.cid = NoCid THEN NoName ELSE Labels[entry.cid].name

Assigned(entry, sub) ==
    [sub |-> sub, source |-> entry.source, cid |-> entry.cid, name |-> entry.name,
     order |-> 0, data |-> [addr |-> entry.addr, home |-> HomeOf(entry)]]

StoreAssigned(u) ==
    LET svc == Assigned(req[u].entry, req[u].sub) IN
    /\ req[u].op = "assign"
    /\ req' = [req EXCEPT ![u] = [op |-> "assigned", did |-> req[u].did]]
    /\ \E id \in Id : NewId(id) /\ AddService(id, svc) /\ Give(id, svc)
    /\ UNCHANGED <<listVars, dockerVars, watcherVars, budget>>

FinishAssign(u) ==
    /\ Finish(u, "assigned")
    /\ RemoveDiscovered(req[u].did)
    /\ UNCHANGED <<storeVars, ignoredVars, dockerVars, watcherVars, budget, historyVars>>

\* updateService writes back the container fields it read before its calls.
BeginEdit(u, id) ==
    /\ Live(id)
    /\ Begin(u, [op |-> "edit", id |-> id, svc |-> idIdx[id]])
    /\ UNCHANGED <<storeVars, listVars, dockerVars, watcherVars, historyVars>>

FinishEdit(u) ==
    /\ Finish(u, "edit")
    /\ UpdateService(req[u].id, req[u].svc)
    /\ IF Live(req[u].id) THEN Give(req[u].id, req[u].svc) ELSE UNCHANGED historyVars
    /\ UNCHANGED <<listVars, dockerVars, watcherVars, budget>>

\* deleteService offers the container again when its calls are done.
BeginDelete(u, id) ==
    /\ Live(id)
    /\ Begin(u, [op |-> "delete", svc |-> idIdx[id]])
    /\ DeleteService(id)
    /\ UNCHANGED <<listVars, dockerVars, watcherVars, historyVars>>

FinishDelete(u) ==
    LET svc == req[u].svc IN
    /\ Finish(u, "delete")
    /\ IF svc.source # "docker" \/ svc.cid = NoCid
       THEN UNCHANGED discoveredVars
       ELSE \E did \in Did :
                /\ NewDid(did)
                /\ AddDiscovered(did, [addr |-> NoAddr, source |-> "docker",
                                       cid |-> svc.cid, name |-> svc.name,
                                       info |-> CHOOSE info \in Info : TRUE])
    /\ UNCHANGED <<storeVars, ignoredVars, dockerVars, watcherVars, budget, historyVars>>

\* deleteDiscovered, ignoreDiscovered, unignoreService
Dismiss(did) ==
    /\ Spend("requests")
    /\ \/ IsListed(did) /\ RemoveDiscovered(did) /\ UNCHANGED ignoredVars
       \/ IgnoreDiscovered(did)
       \/ \E info \in Info : unignoreService(did, info)
    /\ UNCHANGED <<storeVars, dockerVars, watcherVars, req, historyVars>>

-----------------------------------------------------------------------------

DockerInit ==
    /\ Init
    /\ ListsInit
    /\ daemon = [cid \in Cid |-> "none"]
    /\ stream = FALSE /\ events = <<>>
    /\ pc = "list" /\ todo = {} /\ job = Nobody
    /\ req = [u \in User |-> Idle]
    /\ budget = [ops |-> MaxOps, faults |-> MaxFaults, requests |-> MaxRequests,
                  all |-> MaxAll]
    /\ loose = {} /\ doubled = {} /\ arrived = {} /\ missed = NoCid

Environment ==
    \/ \E cid \in Cid : Run(cid) \/ Exit(cid) \/ Remove(cid) \/ Signal(cid)
    \/ StreamBreaks
    \/ Restart

Watch ==
    \/ ListContainers
    \/ \E cid \in Cid : SyncNext(cid)
    \/ Subscribe \/ Reconnect
    \/ TakeStart \/ Inspect \/ InspectFails
    \/ TakeEnd \/ Forget
    \/ ByName \/ BySubdomain \/ Reattach \/ Offer \/ Add

Requests ==
    \E u \in User :
        \/ \E did \in Did, sub \in Sub : BeginAssign(u, did, sub)
        \/ \E id \in Id : BeginEdit(u, id) \/ BeginDelete(u, id)
        \/ StoreAssigned(u) \/ FinishAssign(u) \/ FinishEdit(u) \/ FinishDelete(u)
        \/ \E did \in Did : Dismiss(did)

DockerNext == Environment \/ Watch \/ Requests

\* The watcher's goroutine keeps running; containers and users owe nothing.
DockerSpec == DockerInit /\ [][DockerNext]_vars /\ WF_vars(Watch)

-----------------------------------------------------------------------------
(* Properties *)

\* The types of the watcher's variables and of those it shares.
DockerTypeOK ==
    /\ TypeOK /\ ListsTypeOK
    /\ daemon \in [Cid -> {"none", "up", "down", "gone"}]
    /\ events \in Seq([kind : {"start", "end"}, cid : Cid])
    /\ pc \in {"off", "list", "sync", "watch", "delay", "forget", "name", "sub", "reattach",
              "offer", "add"}
    /\ job.cid \in Cid \cup {NoCid}
    /\ todo \cup loose \subseteq Cid
    /\ doubled \subseteq CName \cup {NoName}
    /\ arrived \subseteq Id /\ missed \in Cid \cup {NoCid}

EndPending(cid) == EndOnItsWay(cid) \/ HalfDetached(cid)

\* A container that has stopped is attached to no service and offered in no
\* list, once its end has been handled - unless the stream was down when it
\* ended, Lantern went down while it was handled, a request had read the
\* container ID before and may write it after, or two services were given the
\* container, of which the map finds one.
DeadAreDetached ==
    \A cid \in Cid \ loose :
        Ended(cid) /\ ~EndPending(cid) =>
            /\ \A id \in LiveIds : idIdx[id].cid # cid
            /\ \A did \in discovered : discoveredIdx[did].cid # cid

\* The watcher offers the container as a new one.
Offers(cid) ==
    /\ pc = "add" /\ pc' # "add"
    /\ ~ContainerListed(cid) /\ discoveredContainerIdx'[cid] # NoDid

\* The name that the entry and the service of a container are given.
DisplayName(c) == IF c.title # NoName THEN c.title ELSE c.name

\* No container of this name shows another, and none shows this one in its place.
ShownAsNamed(name) ==
    \A cid \in Cid : Labels[cid].name = name <=> DisplayName(Labels[cid]) = name

\* A container that starts again, or is created again under its name, returns
\* to the service it was assigned to: it is offered as a new one only if every
\* service of its name got the name after the watcher had looked for one, as
\* long as no two services had the name at once and no lantern.name label comes
\* in between.
RestartFindsItsService ==
    [][\A cid \in Cid :
           LET name == Labels[cid].name IN
           Offers(cid) /\ name \notin doubled /\ ShownAsNamed(name)
               => AssignedFrom(name) \subseteq arrived]_vars

Placeable(cid) ==
    /\ Labels[cid].name # Self /\ Labels[cid].enable
    /\ resolveContainer(cid, TRUE) # {}

\* Some outcome of the upsert is there: the container has its service or its
\* entry, or another entry has its address.
Placed(cid) ==
    \/ \E id \in LiveIds : idIdx[id].cid = cid
    \/ \E did \in discovered :
           \/ discoveredIdx[did].cid = cid
           \/ \E info \in resolveContainer(cid, TRUE) : discoveredIdx[did].addr = info.addr

\* Listed and not yet looked at, or started with no event behind it.
Awaited(cid) ==
    \/ cid \in todo
    \/ pc = "delay" /\ job.cid = cid
    \/ \E i \in DOMAIN events : events[i] = [kind |-> "start", cid |-> cid]

\* A container that the watcher was told of is placed, if it stays up and the
\* stream and Lantern do, unless the watcher gives it up: after an inspection
\* that failed, or when the service it was to return to was deleted between the
\* lookup and the write.
StartIsPlaced ==
    \A cid \in Cid :
        Awaited(cid) /\ Placeable(cid)
            ~> \/ Placed(cid) \/ missed = cid
               \/ daemon[cid] # "up" \/ (~stream /\ pc \in {"list", "watch", "off"})
=============================================================================
