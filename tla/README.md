# Lantern in TLA+

Lantern (the Go program in this repository) is the front door of a home lab: it
discovers services on the network and in Docker, gives each a subdomain, keeps
Cloudflare's DNS records and tunnel in step with them, proxies requests to them,
updates DNS when the public address changes, renews a wildcard certificate and
keeps its state in one file, `config.json`. This directory holds TLA+
specifications of these parts, the TLC configurations that check them, and TLAPS
proofs.

- [The system](#the-system): components, state, operations, what is hard
- [The modules](#the-modules): what models what, and how it corresponds
- [The runs](#the-runs): what each checks, its bounds and why they are enough
- [Fairness](#fairness)
- [The proofs](#the-proofs)
- [What the checks found](#what-the-checks-found)
- [Assumptions and omissions](#assumptions-and-omissions)
- [Plan](#plan)

To check everything: `tlc -config X.cfg M` for each row of the table of runs, and
`tlapm` on each of the eight modules whose name ends in `Proofs`.
`PROJECT.json` maps every definition to the lines it models, lists the hazards
of the code with the properties that cover them, and names for every property a
change to the code's model that breaks it.

## The system

All paths are under `src/`. "mu" is always the component's own mutex.

| component | state | operations | what is hard | what makes it correct |
|---|---|---|---|---|
| **Service store** `internal/store/store.go` | `d.Services` (subdomain → service) and three lookup maps: ID, container ID, container name | AddService, UpdateService, DeleteService, ClearContainerID, ReorderServices, rebuildIndexes | four maps kept in step by hand; deletion of an index entry by key, whoever it points at; a detachment that keeps the name entry | no lookup returns a service that is gone or has left the key; no service is lost from a map; a restart changes nothing |
| **Persistence** `store.go` Save, New | `config.json`, `config.json.tmp`, `saveMu` | Save by every handler and background task, New at start | snapshot taken before `saveMu`; crash between any two file operations; failing writes | the file is never half-written, is one moment of memory, and keeps what was saved |
| **Service handlers** `internal/web/handle_services.go` | none of their own: a service read at the start of a request and written back at its end | createService, updateService, deleteService, the icon handlers, reorder | seconds of Cloudflare calls between read and write, with no lock held; each call can fail with or without effect; other requests in between | every record and rule belongs to a service and every service has its own; no service drops out |
| **Cloudflare client** `internal/cf` | `tunnelID`, `tunnelMu`; the zone and the tunnel's rule list at Cloudflare | records, tunnel routes, tunnels, EnsureARecord | the rule list is read and put back whole; find-then-delete | no lost update of the rules; no record of another service is deleted |
| **Tunnel manager** `internal/tunnel/manager.go`, `internal/web/handle_tunnel.go` | `cmd`, `running`, `cancel` under mu; a watcher goroutine per start; `s.d.Tunnel` | Create, Delete, Status, StartIfConfigured, Stop, watchAndRestart | two goroutines waiting for one process; late watchers; relaunch against Stop; failing steps | at most one cloudflared, for the stored tunnel; every request ends |
| **Discovered and ignored lists** `store.go`, `internal/web/handle_discovery.go` | `d.Discovered`, `d.Ignored` and their maps | Add/Remove/Upsert/Clear, Ignore, Unignore | entries assigned, ignored and rediscovered at once | an assigned or ignored address is not offered again |
| **Docker watch** `internal/discovery/docker.go` | none; events of the daemon | syncContainers, handleDockerEvent, detach, upsert | lost events, events handled 2 s late, renamed containers | a restarted container finds its service again |
| **Network scanner** `internal/discovery/discovery.go` | `scanning` flag, last scan times, the network entries | ScheduledScan, ScanNow, runScan, runLightScan | scans against ignoring and assigning; light against full scan | what is ignored stays ignored |
| **DDNS** `internal/ddns/ddns.go` | public IP and domain list in the store | the poll loop, addDDNS, removeDDNS | IP recorded before the records are updated; a domain removed during a poll | records follow the IP, and only those of listed domains |
| **Certificates** `internal/certs/certs.go` | the served certificate, three files | EnsureCert, RenewLoop, saveCert | crash between files; the self-signed fallback | a matching pair is served; a fallback is replaced |
| **Reverse proxy** `internal/proxy/proxy.go` | proxy per subdomain in a `sync.Map` | ServeHTTP | renames and retargets under a cached proxy | a request goes to the current target |
| **Health checks** `internal/web/health.go` | result map, semaphore | one sweep per interval | a loop that acquires and waits | the map lists current services |
| **TTL cache** `internal/web/ttlcache.go` | map with expiry | Get, Set | eviction at the limit | never over its limit, never stale |
| **Bookmarks and settings** `store.go`, `handle_bookmarks.go` | two maps and an order | CRUD | order against categories | nothing is lost |
| **Start and shutdown** `main.go` | the root context | New, StartIfConfigured, cancel, Shutdown, Stop, Save | what is still running at the last Save | nothing saved is undone, and it ends |
| **Pages, static files, system readings** | none worth a model | | | |

How they interact: handlers and background tasks call the store, each operation
one critical section of `Store.mu`, and then `Save`. The handlers call the
Cloudflare client with no lock held; the client's rule-list changes and
`SetTunnelID` share `tunnelMu`. Docker events and handlers meet in the lookup
maps and the discovered list. The tunnel manager writes the store, the client's
`tunnelID` and the operating system's processes. `main.go` starts everything,
and at a signal cancels the root context, shuts the servers down, stops
cloudflared and saves once more.

## The modules

| module | models | lines of code it stands for |
|---|---|---|
| `ServiceStore` | the four maps of services and every operation on them | `store.go` 100-206, 365-449 |
| `ServiceRegistry` | what these maps promise: abstract specification | (derived) |
| `DiscoveredLists` (extends `ServiceStore`) | the discovered and the ignored list with their four maps | `store.go` 167-232, 454-628, `handle_discovery.go` 102-121 |
| `Persistence` | Save, New, crashes, failing writes | `store.go` 117-165, 234-257 |
| `ServiceHandlers` (extends `ServiceStore`) | the request handlers over the maps, the zone and the tunnel's rules | `handle_services.go` 64-612, `cf.go`, `cf/tunnel.go` |
| `TunnelManager` | the manager, its watchers, cloudflared, shutdown and restart | `manager.go`, `handle_tunnel.go`, `cf.go` 144-206, `main.go` |
| `DockerWatch` (extends `DiscoveredLists`) | the Docker watcher, the daemon and the users next to it | `docker.go`, the store writes of `handle_services.go`, `handle_discovery.go` |
| `NetworkScan` (extends `DiscoveredLists`) | full and light scans over the shared lists | `discovery.go` |
| `ScanPipeline` | the inside of one scan: hosts, sweep, multicast, channel | `network.go`, `mdns.go`, `ssdp.go`, `wsdiscovery.go`, `arp_linux.go` |
| `ScanResults` | what one scan promises its reader: abstract specification | `discovery.go`'s loop over the channel |
| `DynamicDNS` | the poll, the two handlers, the zone, restarts | `ddns.go`, `handle_settings.go` |
| `Certificates` | the served certificate, its files, the ACME account, a clock | `certs.go` |
| `ServiceStoreProofs`, `ServiceHandlersProofs`, `DiscoveredListsProofs`, `PersistenceProofs`, `TunnelManagerProofs`, `DockerWatchProofs`, `ScannerProofs`, `BackgroundProofs` (of `DynamicDNS` and `Certificates`) | theorems | |
| `MC...` | model-checking instances: values of `Sub`, `Payload`, labels and networks, symmetry sets, a history variable | |

How they compose: `ServiceStore` and `DiscoveredLists` are one object, `Store`,
and the modules that extend them (`ServiceHandlers`, `DockerWatch`,
`NetworkScan`) use its operations as the code does, each one critical section.
`NetworkScan` takes from a scan what `ScanResults` promises, and `ScanPipeline`
is checked to implement `ScanResults`.

**ServiceStore.** In Go the maps hold pointers; at most one object per ID is
indexed, so a pointer is the ID and the object is `idIdx[id]`. The key `""` is
outside the maps' domains. `Put` is assignment and deletion; `IndexCid`,
`IndexName`, `UnindexCid`, `UnindexName` are `indexService` and
`unindexService`, one map each. Each operation is one critical section.
`rebuildIndexes` is a restart: it sees only what is reachable through
`d.Services`, and among services with the same container ID or name any may win,
as Go's map order does. `Spec` has callers that collide at will, `CarefulSpec`
has callers that never give a service a key of another. `ServiceRegistry` states
the promise for the latter: a set of services, lookups that are exact at every
moment, and nothing a restart could change.

**DiscoveredLists.** The slices are sets of entry IDs, an entry's object is
`discoveredIdx[id]`, an ignored entry is the address it hides. `unlist` is
`unindexDiscovered` with `filterSlice`, `indexDiscovered` the opposite; every
operation of `store.go` on the lists is one of them with its guard (`AddRefused`,
`SameAddress`). `UnignoreService` takes an address out of the map of ignored
addresses even if another entry hides the same one, as the code does. The
handler `unignoreService` is its two store calls in one step.

**Persistence.** A store's content is the sequence of changes made to it, so a
snapshot is a sequence and "older" is "prefix". `Mutate` is any store operation;
then `Marshal` (under the read lock), `LockSave`, `CreateTmp` (truncation),
`WriteTmp`, `Rename`, with `WriteFails` at every file operation. `Crash` clears
memory and keeps files; `New` refuses a half-written file.

**ServiceHandlers.** A goroutine's `pc` is `idle`, then `calls` while it works
through the list of Cloudflare calls its plan needs (`planDNS`, `Calls`), then
the store write (`FinishCreate`, `FinishUpdate`, `RemoveService`, `FinishIcon`),
then what follows it (`Forget`, `FinishDelete`). A Cloudflare call is one step,
except the rule-list changes, which are `ReadIngress` and `WriteIngress` under
`tunnelMu`, because the lock is what keeps two of them apart. The tunnel's rules
are a bag: how often each hostname's rule is there, their order and the catch-all
left out. `CallFails` and
`WriteIngressFails` fail a call before or after its effect; `Failed` is what
`reconcileDNS` then stores: the old IDs, some of them, or none, plan by plan.
`ToggleTunnel` is the tunnel manager's `SetTunnelID`.

**TunnelManager.** `ctxs` holds each `context.WithCancel` together with the
watcher started for it, `cmds` the processes. Sections under mu are single
steps; between them everything interleaves. `Collect` and `TakeResult` are the
two blocking parts of `exec.Cmd.Wait`, which is outside this repository: the
exit status can be collected once, and the goroutine of `exec.CommandContext`
sends its result once. `StopSteps` are taken by `Delete` and by main.
`Restart` is a crash anywhere, or the end of a shutdown, followed by a start:
Lantern is the container's entry point, so cloudflared ends with it.

**DockerWatch.** The daemon has its containers' states and a queue of events,
which a broken stream empties. The watcher is at `list` (syncContainers asks for
the containers), `sync` (it works through the answer, `SyncNext`), `watch`
(`TakeStart`, `TakeEnd`), `delay` (the 2 s sleep of a start event, then
`Inspect`) or `place` (between `Consider`, which resolves labels, and `Place`,
which looks the container up by ID, name and subdomain and attaches, lists or
refuses it). `resolveContainer` gives every outcome that Go's map order allows
for Traefik labels and published ports. A request reads at `Begin...` and writes
at `Finish...`, so that the watcher's writes fall between. New
IDs are ones that nothing uses. History variables: `loose` collects the
containers whose end the watcher could not make use of (nobody heard it, it was
heard while a request held the container's ID, or two services have the
container), `doubled` the container names that two services had at
once.

**NetworkScan.** `full` and `light` are the scans in progress with the copies of
assigned and ignored addresses they took at their start. `FullResult` and
`LightResult` are one round of the loop over the channel. `Meanwhile` is one
step of a user or the Docker watcher, or a restart. History variables: `fresh`
is what the last full scan and later light ones reported, `excused` the
addresses that the copies cannot know about.

**ScanPipeline.** `ChooseHosts` is the choice of subnets and the ARP pre-sweep,
`Sweep` the port scan, which fills the closed channel `jobs`; each multicast
path listens, then works through what it heard. A prober takes an address,
claims it in `probedPorts` or leaves it, probes, and sends to the bounded
channel. `Close` waits for all; `Receive` and `RangeEnds` are the caller's loop.
An address is a function from bit positions to bits, as masks, network and broadcast
address are made of its leading bits and host bits.

**DynamicDNS.** `mem` and `saved` are the store's domains and address in memory
and on disk. A poll is `BeginPoll` (which reads the domains), `LearnIP` (which stores a
new address), `Find` and `Write` per domain, `EndPoll` (Save); a request has two
steps. `hit` records which domains were hit by something the code does not
repeat.

**Certificates.** `pc` follows EnsureCert or RenewLoop through `account`
(loadOrCreateUser), `register`, `obtain` (Obtain, or RenewWithOptions when
`renewing`), `cert` and `key` (the two writes), `serve`. A unit of time is
fifteen days. Whether lego can renew from a Resource that went through
`resource.json` is decided by lego and not by this repository: `legoRenews` is
either.

## The runs

| run | configuration | asks | distinct states |
|---|---|---|---|
| `store` | `store.cfg` | with careful callers, is every lookup sound and every service found under each key, and do the maps implement the registry? | 16 000 |
| `persist` | `persist.cfg` | is the file whole and a past state, does a save stay saved as long as no two overlap, does every Save return? | 67 000 |
| `handlers_concurrent` | `handlers_concurrent.cfg` | with two requests at a time about different services, do zone and tunnel hold exactly what the services ask for, and is no service and no change of the tunnel's rules lost? | 1.9 million |
| `handlers_failures` | `handlers_failures.cfg` | with failing calls, does one failure cost at most one record, and never another service's? | 2.2 million |
| `handlers_collide` | `handlers_collide.cfg` | may a rename take a subdomain in use? | violation |
| `tunnel` | `tunnel.cfg` | with failures, exits, shutdown, crash and restart: one cloudflared at most, for the stored tunnel; client and store agree; leaked tunnels bounded | 2.6 million |
| `tunnel_delete` | `tunnel_delete.cfg` | does a deletion that reached Stop end? | violation |
| `docker` | `docker.cfg` | are ended containers detached, does a container that comes back find its service, is every start placed, do the maps of services and lists stay right? | 257 000 |
| `scan` | `scan.cfg` | does a full scan drop what is gone, is what a user settled not offered again, does every scan end, with all actors at work? | 689 000 |
| `pipeline` | `pipeline.cfg` | is every service that any path comes up with delivered once, is the channel closed after the last send, does the reader end? | 360 000 |
| `ddns` | `ddns.cfg` | does a domain have one record or none as the list says, and does a stable address reach every record? | 609 000 |
| `certs` | `certs.cfg` | is what is served valid, does a restart load it again, does the account stay usable? | 102 000 |

Bounds, and why they are enough.

- Store: three IDs, three subdomains, two container IDs. A stale entry needs the
  service that left it, the service that took its key and, for a restart, one
  that competes with it. `MaxOrder = 1` distinguishes two positions. Soundness
  with colliding callers is proved (`StoreSound`) and checked where services
  collide in earnest, in `docker`. What the bound cuts off, the proofs cover.
- Persistence: two goroutines with two changes each, two crashes. The overlap
  needs two snapshots and two saves; a second crash tests the state left by a
  first one. The safety part is proved for any number.
- Handlers, concurrent: two services, two requests at a time, three hostnames,
  so that each service can be renamed while the other holds its own, two
  targets, one discovered container, five records (every mode change and then
  some: a rename uses one). No failure here: `ZoneMatchesStore` is about
  undisturbed histories. A run of five record creations is longer than any
  handler, so every pair of plans follows every other.
- Handlers, failing: three failures, so that later requests act on work half
  done by two earlier ones, and one change of the tunnel. One request at a time.
- `FreeHostsOnly` and `OneWriter` in these runs keep out what is known to go
  wrong (below); `handlers_collide` lifts the first. Which of the two a property
  needs is settled by the proofs and by counterexamples (see The proofs).
- Tunnel: two tunnels, two starts and three launches between restarts, one exit
  of cloudflared, two failures, one restart, one request at a time. Create,
  Delete, Create again, with the watcher of the first start still around, fits
  in. `MaxTunnels = 3` and `MaxExits = 2` were also run (16 million states, no
  error); the configuration kept is the smaller.
- Docker: three containers, two of them of one name (a recreated container) and
  one that has a display name and whose Traefik rules give one of two subdomains; three things happen to
  containers, one stream break or restart, two users with a request each, which
  may overlap. Recreating a container takes run, remove, run; a break or a
  request falls anywhere between. Richer labels were also run (492 000 states, no
  error).
- Scan: two full and two light scans, two addresses, four entry IDs, three steps
  of others. Each scan's copies can be outdated by one step, a second makes an
  entry come back, a third is a restart.
- Pipeline: two hosts per network, interfaces with and without a wide mask, five
  calls (no subnet, a wide one, a routed one, a /32, a light scan), two workers,
  a channel of one place, one address that three paths find and that is also
  swept. With capacity one every send but the first can block.
- DDNS: two domains, two addresses and two changes (the address may come back),
  two requests, two failures or restarts.
- Certificates: 135 days, one renewal and the approach to a second, three
  failures or crashes at any step.

Deadlock is not checked where `CHECK_DEADLOCK FALSE` stands: these models stop
when the bounds on records, tunnels, requests, scans or time are used up, which
is the model's end and not the program's; that work once begun ends is then
stated as a liveness property (`DeleteEnds`, `StartIsPlaced`, `ScanEnds`,
`ImplementsScanResults`, `AddressIsPublished`). In `persist.cfg` it is checked: the
program may only stop when every request is served.

## Fairness

- `Persistence`: weak fairness of each step of a running goroutine (the Go
  scheduler), strong fairness of `LockSave` (a Go mutex goes to a waiter that
  has starved for 1 ms, so nobody waits for ever while others come and go), weak
  fairness of `New` (Docker restarts the container). None for `Mutate` and
  `Crash`: nobody owes requests or crashes.
- `TunnelManager`: weak fairness of every goroutine's own steps, of the killing
  of a process whose context is cancelled, and of main's last Save. None for
  requests, for cloudflared exiting, for shutdown and restart. The violation of
  `DeleteEnds` therefore is a true hang: every goroutine that can move does.
- `DockerWatch`: weak fairness of the watcher, one goroutine whose calls to
  Docker go to a local socket and whose sleeps end. None for containers, breaks
  and users.
- `NetworkScan`: weak fairness of `BeginFull` (the goroutine that ScanNow starts)
  and of `FinishFull` (the channel is closed in the end: that is what
  `ScanPipeline` is checked for). None for ticks, results and users.
- `ScanPipeline`: weak fairness of `PipelineStep` as a whole: dials, probes and
  listening have timeouts, and the caller reads to the end. None for `Cancel`.
- `DynamicDNS`: weak fairness of `Poll` (a ticker) and of `FinishRequest` (the HTTP
  clients have timeouts, 10 s and 30 s). None for requests, changes of the
  address, saves of others and restarts.
- `ServiceStore`, `ServiceHandlers`, `DiscoveredLists` and `Certificates` state
  safety only. In `Certificates` time passes only when RenewLoop has looked, which
  is the ticker's doing and no fairness.

## The proofs

Each theorem holds for every value of the constants that satisfies the named
assumptions of the module it is about; TLC evaluates those on every run.

**ServiceStoreProofs.**
`StoreSound`: `Spec => [](TypeOK /\ IndexSound)`. The conjunction is inductive:
soundness of the container-ID map is needed for the types (ClearContainerID
dereferences what the map returns). One lemma per map, one step per operation.
`CarefulStoreComplete`: `CarefulSpec => []IndexComplete`. Its inductive
invariant `CarefulInv` adds to soundness and completeness that only docker
services carry container names (`NamesAreDocker`): without it the removal of a
name entry could belong to a service of another source, which the key check of
the callers does not see. `StoreImplementsRegistry`:
`CarefulSpec => ImplementsRegistry`. From `CarefulInv` the four maps satisfy the
registry's `LookupsExact` (`ExactLookups`), so each operation is the registry's
operation of the same name and `rebuildIndexes` is a stutter
(`LookupsDetermined`: exact lookups are determined by the services).

**PersistenceProofs.** `PersistenceTyped`, `SaveIsAtomic` and `SaveIsConsistent`:
`Spec => []TypeOK`, `[]AlwaysStartable` and `[]DiskIsAPastState`. The inductive
invariant `SaveInv` says that whoever is past `LockSave` holds `saveMu`
(`Exclusive`), that the temporary file holds the whole snapshot of the goroutine
about to rename it (`TmpWhole`), that every snapshot in flight is a past state
of memory (`RawIsAPastState`), and that a dead process has no goroutine
(`DeadIsIdle`). Without `Exclusive` the file renamed could be another
goroutine's half-written one. `SavedStays`: `MCSpec => []SavedStaysUnlessOverlapped`,
over the module with the history variable `overlapped`. As long as no two Saves
have overlapped there is at most one goroutine to reason about, and `AloneInv`
says that it carries everything that was saved before and its own change
(`CarriesSaved`, `CarriesOwn`), first in memory and then in its snapshot.

**DiscoveredListsProofs.** `ListsStayExact`:
`ListsSpec => [](ListsTypeOK /\ ListsExact)`, for callers that respect what the
two kinds of entries are. `ListsExact` is inductive with the types; the proof
splits it into the discovered list (`DiscoveredInv`) and the ignored one
(`IgnoredInv`) and has one lemma for each way an operation changes them
(`IndexKeeps`, `UnlistKeeps`, `UpsertKeeps`, `IgnoreKeeps`, `UnignoreKeeps`,
`RebuildKeeps`). That the container map loses nothing when an entry is removed
rests on its being exact before; that two entries of one address are of two
sources rests on `AddRefused`.

**ScannerProofs.** Two specifications. For `NetworkScan`: `ScanTyped`,
`ScansKeepListsExact`, `ScansRefresh` and `SettledStaysSettled`, the run's four
invariants. What a scan does to the lists and to the services are operations of
`DiscoveredLists` and `ServiceStore`, so their lemmas are used again. The
invariant adds what the copies of a scan in progress know: what is ignored or
assigned now is in the copy or was settled since, and is then excused
(`CopiesHeld`); so whatever is offered and settled is excused (`OffersHeld`). For `ScanPipeline`:
`NothingIsLost`, for any network, number of goroutines and capacity. An address
that some path came up with is at one place at a time: still to be taken, with
one prober, in the channel, or received; `probedPorts` holds those that were
claimed, and the channel is closed only when every path and prober is done.
`PipelineTyped` adds the types: only addresses are swept (`SweepTyped`), and what waits
to be probed or is claimed is known to some path (`ClaimsKnown`). It holds for any
number of bits because an address is a function of its bits; with addresses as numbers
it would need laws of powers of two for every width, thus induction.
`DeliversOnce` is the safety part of the refinement of `ScanResults`.

That the end comes is its liveness part, `ImplementsScanResults`, which TLC checks;
the reasons it comes are safety properties and proved. `ScanIsNeverStuck`: until the
reader's loop has ended somebody can go on (`SomeoneCanGoOn` puts the guards of the
steps together: a prober that has a result to send finds room when the channel is
empty, and an empty channel that is open has a path or prober at work or can be
closed). `ScanRunsOut`: what a scan has left to do is nine families of sets (`ToDo`:
stages, paths that listen, lists, open ports, addresses to probe and to send, services
to deliver, probers at work, the closing and the end); no step adds to one, and each
step but the cancellation takes from one. On a network with finitely many ports and
announcements a scan therefore takes finitely many steps and can stop only at its end.
The last conclusion, from there to `<>finished`, needs `ENABLED` and fairness and is
not part of the proof. On the instance of `pipeline.cfg`, TLC finds `SomeoneCanGoOn`
true in exactly the states where `PipelineStep` is enabled.

**ServiceHandlersProofs.** A step begins a request, makes a call, writes to the
store, or is the tunnel manager's (`StepDoes`), so most of what the invariants say is
shown once for each of those four kinds. Two hypotheses on the users are constants of
the module, and each theorem has only those it needs: `FreeHostsOnly` (a request asks
for no subdomain that a service has or another request still holds, be it only to
give it up) and `OneWriter` (one request at a time about a service or an entry).

- `CallerInv`, whatever the users do: the types; that a service has one source,
  container ID and container name in all its versions, those that requests hold
  included (`OriginsKept`); and that
  whoever has read the tunnel's rules holds `tunnelMu` and read what is there now
  (`LockHeld`, `IngressIsCurrent`). From it: `HandlersTyped`, `NoLostIngress`,
  `HandlersAreCallers` (`HandlersSpec => Spec`: each step of a handler is an
  operation of the store or none) and with that `LookupsStaySound`.
- `RecordsInv`, whatever the users do: no DNS record is known to two services,
  counting what requests hold or are about to delete (`RecordsApart`), and a record
  that `FindRecord` found is of the request's own hostname (`FoundIsOfHost`).
- `FreeSubs`, from `FreeHostsOnly`: no two services have a subdomain in common in any
  of their versions (`SubsApart`). Only a request that begins makes a version with
  other keys (`VersionsComeFrom`). With `RecordsInv`: `NoRecordTaken`, a record
  goes only when a request about its service deletes it, whichever calls failed
  before, and although two requests about one service write back what they read.
- `TakingTurns`, from `OneWriter`: one request per service and entry, a service being
  deleted is gone from the maps, no two services have a container in common
  (`ContainersApart`), and one on offer is no service's but the one it is being
  assigned to. `ContainersApart` holds as well when there are no containers
  (`NoContainers`). With `FreeSubs`: `HandlersAreCareful`
  (`HandlersSpec => CarefulSpec`) and by the theorems about the store
  `HandlersKeepServices`: `IndexComplete` and the refinement of the registry. Without
  `FreeHostsOnly` the run `handlers_collide` loses a service; without the other
  hypothesis two requests assign one entry, and TLC finds the container map
  incomplete.
- `ZoneInv`, under both hypotheses, each of which TLC finds necessary: as long as the tunnel stays and no call has
  failed (`Undisturbed`), the zone and the rules are what the services *have*, each on
  its own (`HasRecords`, `HasRoutes`). `ZoneMatchesStore` itself speaks only of
  moments at which nobody works, and says nothing of the steps between two of them;
  `ZoneInv` says what a service has in the middle of a request: what the calls
  still to be made leave undone (`JobRecords`, `JobRoutes`), or what the store says
  of it when no request reconciles it. It also needs that whoever read a service
  before its calls still has it as it is (`ReadIsCurrent`), and that the plans
  requests follow are those a settled service leads to (`OnTrack`). A step changes
  only what its own service has (`Keeps`, `ZoneFollows`); as the hostnames and
  records of two services are never the same, each creation is accepted, each
  deletion finds its record and no rule is put twice. From it: `ZoneIsTheStore`.
- `LeakInv`, from `OneWriter`, for as long as the tunnel stays but whichever
  calls fail (`Charged`). Here the zone need not be what anyone asked for, so the
  invariant says only who still *knows* a record's ID (`Accounts`): the request that
  is yet to delete it or has just been given it (`JobKnows`), or else its service,
  when no request reconciles that. What nobody knows is `Lost`, and there are at most
  as many of those as calls have failed. A later request may act on what an earlier
  one left half done; that it loses no more needs that every stored service is as
  `reconcileDNS` leaves one, calls that failed included (`Consistent`), and that
  requests follow the plans such a service leads to (`OnPlan`). A step of one request
  then loses one record at most, and only if its call fails (`CallReturnsCharged`,
  `CallFailsCharged`). With no request at work `Lost` is `Orphans`. Two requests that
  collide on a subdomain lose none either. With two requests about one service TLC
  finds a record lost without a failure. TLC found no
  violation of it with the constants of `handlers_failures` before it was proved. From
  it: `LeaksArePaidFor`.

**DockerWatchProofs.** `DockerTyped`, `WatcherKeepsMaps` (`IndexSound` and
`ListsExact`, with the lemmas of the two modules on the store), `EndedAreDetached`
and `ComesBackToItsService`. `EndedAreDetached` needs two facts beyond the types: an ended container
that is still attached, offered, or about to be (by a watcher between lookup and
write, or by a request) has an end still to be heard, or is `loose`
(`EndsHeard`); and a service whose container is not `loose` is the one
`containerIDIdx` finds for it (`IndexHasAll`), or else the end would detach
another. The attempt to prove the second showed that two requests that assign
one entry make two services with one container (below): the model now has two
users, and `loose` has the case. `ComesBackToItsService` is about what the watcher
looks up, the name that a service stores, and what the service was assigned from,
which the code does not keep. `NamesInv` says that the two agree in services,
entries, requests that hold either, and the watcher's own next entry, for every
name that no `lantern.name` label interferes with, and that `containerNameIdx` then
finds the service, if it was the only one of its name all along
(`NameIndexHasAll`). Deleting or renaming a service forgets its old name in that
map whosever entry it is, which is why one meeting of two services of a name is
enough to exempt it (`doubled`), and why the proof needs no more than that. The
attempt found both exemptions: a label that changes the name, and an edit that
brings an old one back (below).

**BackgroundProofs.** Two specifications. For `DynamicDNS`: `DdnsTyped` and `ZoneIsTheList`. Between a poll's `Find` and
`Write`, and between the two steps of a request, a domain's records differ from
what the list says; the invariant says by how much (`OnListHeld`, `OffListHeld`,
`PendingHeld`, `FoundHeld`, `RequestHeld`): the record found is the one to be
replaced unless the domain is among those that `hit` marks. For `Certificates`:
`CertificatesTyped`, `ServesValid`, `RestartKeeps` and
`AccountStays`. The invariant relates the files to what is served at each step
between two writes, and the clock to the last failure: from `Window` ticks before
the expiry on, each tick either replaced the certificate or failed. That a
renewal falls due before the last tick needs a `Window` of at least two units,
which the module assumes: 30 days in the code, which looks every 12 hours.

**TunnelManagerProofs.** `TunnelTyped` holds for any number of requests at a
time; its invariant `Types` adds that who waits for a process has one, and that
`ProcessState` is set only of a process that has ended. So do three theorems about
stopping, which no run checks (TLC found them true with two requests, one context and
two launches). `NoLateLaunch`, an action property: a process is launched for a context that
nobody has cancelled, and not after the signal; `StopStops`: when a deletion turns to
Cloudflare, or main to its last save, the process its Stop found is dead and none of
that process's context is kept; `ShutdownStopsAll`: from the signal on none is kept at
all. A relaunch between Stop's unlock and its cancel does happen; the process it
starts is then one that the context is about to kill. Their invariant `StopInv` says
what each Stop in progress has cancelled and killed (`StopHolds`), and `Grown` what
every step, of whomever, leaves so: the dead stay dead and the cancelled cancelled.
The other three, `ClientAgrees`, `LeaksArePaid` and `NoStray`, have the hypothesis
`OneRequest`.
It cannot be dropped: with two requests TLC finds each of the three properties
violated within a few steps, without any failure (two creations pass the 409
check). `ClientInv` says what store and client hold at each step of a request,
`LeakInv` pays for each tunnel that the store does not know with a failure, a
restart, or the creation in progress. `StrayInv`, until main is asked to stop: a
context that nobody has cancelled is the manager's or is held by the deletion
about to cancel it (`ContextsHeld`), hence there is one at most; it is for the
stored tunnel, the only process of it that may be alive is the newest, and its
watcher waits for that one (`OneProcess`). This is where a late watcher could
hurt: it reads `m.cmd`, not the process it was started with.

Only model-checked:

- all liveness properties (`SaveReturns`, `DeleteEnds`, `StartIsPlaced`, `ScanEnds`,
  `AddressIsPublished`, the end in `ImplementsScanResults`): liveness under
  fairness, and `ENABLED`, are beyond the prover. Of the last, the absence of a
  deadlock and the shrinking of what is left are theorems (`ScanIsNeverStuck`,
  `ScanRunsOut`).

## What the checks found

Two runs show the code doing other than its own text says; `PROJECT.json` quotes
both sides.

1. `handlers_collide`: `updateService` lets a rename take a subdomain in use; the
   service that had it drops out of `d.Services` and of the next Save, although
   creation refuses the same (`handle_services.go:459`).
2. `tunnel_delete`: `Stop` and the watcher both call `Wait` on one `exec.Cmd`,
   which serves one of them; a deletion may hang (`manager.go:213`).

Others came up while modelling. The models contain them, and the properties name
them as exceptions, so that everything else is still checked:

- Of two overlapping Saves the older snapshot may be written last, and a change
  whose Save returned nil is not on disk until the next one (`store.go:236`;
  exempted in `SavedStaysUnlessOverlapped`).
- An update that overlaps a deletion leaves the record it creates behind
  (`handle_services.go:500`), and setting an icon writes back a service read
  before a fetch of up to ten seconds, undoing a rename made meanwhile
  (`handle_services.go:606`; the runs keep both out by `OneWriter`). What
  remains true all the same is proved: lookups are sound, no other service's record
  goes, and without containers no service drops out of a lookup map.
- One failing call in a rename leaves the old hostname stored as the route
  (`handle_services.go:379`).
- A container is reattached to any docker service on its subdomain, also to one
  that belongs to another running container (`docker.go:195`).
- A container with a `lantern.name` label is assigned under its display name,
  which the lookup by container name does not find when it stops and starts again:
  the service stays detached and the container is offered as a new one, unless the
  service has the container's own subdomain (`docker.go:281`; the comment at
  `store.go:391` says that the association survives; exempted in `ShownAsNamed`).
- An edit that overlaps a reattachment writes the old container name back, and two
  services may then have one name. The map finds one of them, and forgets the name
  with it (`handle_services.go:533`, `store.go:205`; exempted in `doubled`).
- Two requests that assign one discovered entry make two services with one
  container. `containerIDIdx` finds one of them, so that the container's end
  detaches only that one (`handle_services.go:84`; exempted in `loose`).
- An address that is twice on the ignored list is out of the index when one of
  the entries is un-ignored, while the list goes on hiding it from scans that copy
  the list; a restart puts it back (`store.go:231`).
- As soon as one host answers the ARP requests, hosts that cannot answer, on
  routed subnets or Lantern's own, are not swept (`network.go:546`; the README of
  the repository, line 237, describes ARP as a pre-sweep that narrows a subnet).
  `NothingLost` speaks of what a path came up with.
- A light scan does not look at the ignored list, and lists what a user has
  ignored (`discovery.go`, `runLightScan`; README line 293; `excused`).
- A DDNS update that fails is not tried again until the address changes
  (`ddns.go:66`; `hit`).
- The self-signed fallback counts as valid for sixty days before RenewLoop looks
  for another certificate, while its log line and the README (line 358) speak of
  retries in the background (`certs.go:101`; `ServedIsValid` asks only that what is
  served has not expired).
- `renew` hands lego a Resource read from `resource.json`. The Resource type of
  lego v4 leaves certificate and key out of its JSON; if lego needs them, RenewLoop
  fails at every tick once the file exists, and only a restart in the last thirty
  days, which obtains anew, replaces the certificate (`certs.go:190`; both answers
  of lego are in the model, `legoRenews`).

## Assumptions and omissions

- Cloudflare is external: in `ServiceHandlers` the zone refuses a second record
  for a hostname and refuses to delete a record or tunnel it does not have; in
  `DynamicDNS` it takes several A records of one name with different addresses. A
  call fails before or after its effect. `SERVER_IP` and the Cloudflare account
  are configured.
- Service and entry IDs (64 random bits) are unique.
- The kernel keeps file operations in order through a crash of the process; Save
  calls no fsync, so a power failure is not covered.
- An operation under `Store.mu` or `Manager.mu` is one step. Reads a handler does
  before its first call belong to its first step.
- `TunnelManager` treats a request's POST and token calls as two steps, and lets
  Cloudflare take any number of tunnels of the same name. The 10 s restart delay
  is any delay. Requests arrive before shutdown begins; the wait of the servers'
  Shutdown for them is bounded by 15 s and may be given up, so `Stop` may start
  at any time after. The module allows several requests at once; its runs have
  one, because two creations, or a deletion overlapping a creation, end in a
  process for a tunnel that is not stored (listed under hazards).
- `DockerWatch`: every `kill` event is an end, as in the code. Names and labels of
  a container do not change while it exists (`docker rename` is left out), Docker
  answers when Lantern starts (the code has no second try), and favicons and
  `EnsureARecord` are left out.
- `NetworkScan`: a user's step is one step, the assignment of an entry included;
  the calls inside it are `ServiceHandlers`' subject. Subnets, fingerprints, titles
  and the scan log are left out.
- `Certificates`: one goroutine at a time reads and writes the files, as EnsureCert
  returns before RenewLoop begins. Generating keys and parsing do not fail.
- `ServiceHandlers` and `TunnelManager` are composed through `ToggleTunnel` only,
  and `Persistence` is separate from both: handlers end with Save, whose subject
  is the file and not what is in it.

Not modelled, and why:

- **Reverse proxy**: one lookup in the store and a cache of proxies compared with
  the target at every request; no step depends on another request's.
- **Health checks**: one sweep at a time fills a map that is replaced whole.
- **TTL cache**: one map under one lock that saves repeated fetches.
- **Bookmarks and settings**: one operation per handler, one lock, no other actor.
- **Icons, templates, request parsing, encoding, logging, compression, system
  readings, packet formats**: no state that other parts depend on, or pure I/O.

## Plan

Written, in this order: `ServiceStore` with `ServiceRegistry` and proofs,
`Persistence` with proofs, `ServiceHandlers`, `TunnelManager`, `DiscoveredLists` with
proofs, `DockerWatch`, `NetworkScan`, `ScanPipeline` with `ScanResults`,
`DynamicDNS`, `Certificates`, and the proofs of the last six, of
`TunnelManager` and of `ServiceHandlers`.

Every safety property of the passing runs is now a theorem. What remains:

1. Two requests to `TunnelManager` at once, for which `ClientKnowsTunnel`,
   `TunnelLeaksBounded` and `NoStrayProcess` all fail: what is true of them without
   `OneRequest`, beyond the types and what Stop and shutdown stop.
2. Liveness, which is out of the prover's reach.
