---------------------------- MODULE ScanPipeline ----------------------------
(***************************************************************************)
(* One call of scanNetwork (internal/discovery/network.go): the TCP sweep  *)
(* of a full scan and the three multicast paths run at once, share the set *)
(* of addresses already probed, and write results to one bounded channel   *)
(* that is closed when all of them are done.  The caller reads it, and a   *)
(* light scan may be cancelled at any point.                               *)
(*                                                                         *)
(* An IP address has Width bits (32 in the code); where the code says /24, *)
(* the model says CapBits.                                                 *)
(***************************************************************************)
EXTENDS Integers, Sequences, FiniteSets

CONSTANTS
    Width, CapBits,
    Calls,          \* calls to explore: [withTCP, cidrs], a CIDR being [ip, bits]
    Ifaces,         \* the host's interfaces, in order
    Open,           \* [ip, port] that accept a TCP connection
    Answers,        \* those of them that answer HTTP, not with 400 or 404
    ArpReplies,     \* hosts that answer an ARP request
    Announced,      \* path -> multicast answers on the network: [id, at]
    HttpWorker,     \* goroutines probing what the sweep found (80)
    Capacity        \* of the channel (64)

Path == {"mdns", "ssdp", "wsd"}

Prober == Path \cup HttpWorker

\* From the most significant bit
Bit == 1..Width

IP == [Bit -> {0, 1}]

ASSUME ScanAssumption ==
    /\ Capacity \in Nat \ {0}
    /\ Answers \subseteq Open
    /\ HttpWorker \cap Path = {} /\ HttpWorker # {}

\* What a multicast answer is, besides the address it announces
ASSUME AnnouncedAssumption == \A path \in Path : [id |-> "none"] \notin Announced[path]

VARIABLES
    call,           \* the arguments
    cancelled,      \* ctx.Err() # nil
    tcp,            \* stage of the sweep
    ips,            \* hosts to sweep
    jobs,           \* the closed channel of open ports
    at,             \* where each prober is
    item,           \* the address it is at
    found,          \* path -> what it has heard and not yet probed
    probed,         \* probedPorts
    ch, closed,     \* the channel
    received,       \* what the reader got, counted
    finished,       \* its loop has ended
    known           \* history: addresses that some path came up with

contextVars == <<call, cancelled>>
sweepVars == <<tcp, ips, jobs>>
proberVars == <<at, item>>
sharedVars == <<found, probed, known>>
channelVars == <<ch, closed>>
readerVars == <<received, finished>>
pipelineVars == <<contextVars, sweepVars, proberVars, sharedVars, channelVars, readerVars>>

NoItem == [id |-> "none"]

-----------------------------------------------------------------------------
(* Hosts *)

\* Addr.Masked on both sides and the mask test of an IPNet: the same leading bits
SameNet(a, b, bits) == \A i \in 1..bits : a[i] = b[i]

WithHostBits(net, value) == [i \in Bit |-> IF i <= net.bits THEN net.ip[i] ELSE value]

Network(net) == WithHostBits(net, 0)

broadcastAddr(net) == WithHostBits(net, 1)

\* The addresses of the net between those two; none at all in a /31 or /32.
generateIPs(net) ==
    {ip \in IP : SameNet(ip, net.ip, net.bits)} \ {Network(net), broadcastAddr(net)}

\* The first interface that is up, is no loopback and none of Docker's.
getLocalSubnet ==
    LET fit == {i \in DOMAIN Ifaces : /\ Ifaces[i].up
                                      /\ ~Ifaces[i].loopback /\ ~Ifaces[i].docker
                                      /\ Ifaces[i].bits > 0} IN
    IF fit = {} THEN {}
    ELSE LET first == Ifaces[CHOOSE i \in fit : \A j \in fit : i <= j] IN
         {[ip |-> first.ip, bits |-> IF first.bits < CapBits THEN CapBits
                                                             ELSE first.bits]}

Nets == IF call.cidrs = {} THEN getLocalSubnet ELSE call.cidrs

Hosts == UNION {generateIPs(net) : net \in Nets}

\* findIfaceForIP: on an interface's subnet, or in the same /24
OnLink(host) ==
    \E i \in DOMAIN Ifaces :
        /\ Ifaces[i].up /\ ~Ifaces[i].loopback
        /\ \/ SameNet(host, Ifaces[i].ip, Ifaces[i].bits)
           \/ SameNet(host, Ifaces[i].ip, CapBits)

\* Nobody: no raw socket, no interface, or no reply within a second.
arpSweep(hosts) == SUBSET {h \in hosts : OnLink(h) /\ h \in ArpReplies}

-----------------------------------------------------------------------------
(* Path 1: the sweep *)

ChooseHosts ==
    /\ tcp = "hosts"
    /\ IF Nets = {}
       THEN tcp' = "done" /\ UNCHANGED ips
       ELSE /\ tcp' = "sweep"
            /\ \E live \in arpSweep(Hosts) : ips' = IF live # {} THEN live ELSE Hosts
    /\ UNCHANGED <<contextVars, proberVars, sharedVars, channelVars, readerVars, jobs>>

\* Each host and port is dialled once, by up to 1024 goroutines at a time;
\* dials that have not begun when the context ends are skipped.
tcpSweep(hosts) ==
    LET open == {[id |-> "open", at |-> a] : a \in {a \in Open : a.ip \in hosts}} IN
    IF cancelled THEN SUBSET open ELSE {open}

Sweep ==
    /\ tcp = "sweep"
    /\ \E open \in tcpSweep(ips) :
           IF open = {} \/ cancelled
           THEN tcp' = "done" /\ UNCHANGED <<jobs, at, known>>
           ELSE /\ tcp' = "probe"
                /\ jobs' = open
                /\ known' = known \cup {a.at : a \in open}
                /\ at' = [p \in Prober |-> IF p \in HttpWorker THEN "idle" ELSE at[p]]
    /\ UNCHANGED <<contextVars, channelVars, readerVars, ips, item, found, probed>>

\* wg.Wait
SweepDone ==
    /\ tcp = "probe"
    /\ \A w \in HttpWorker : at[w] = "done"
    /\ tcp' = "done"
    /\ UNCHANGED <<contextVars, proberVars, sharedVars, channelVars, readerVars, ips, jobs>>

-----------------------------------------------------------------------------
(* Paths 2 to 4: what is heard in four seconds.  Datagrams get lost, the   *)
(* socket may not open, a name may not resolve: any part of what is there. *)

Distinct(answers) == \A a, b \in answers : a.at = b.at => a = b

\* One entry per address
discoverMDNS == {heard \in SUBSET Announced["mdns"] : Distinct(heard)}

\* One entry per location: several may have the same address.
discoverSSDP == SUBSET Announced["ssdp"]

discoverWSDiscovery == {heard \in SUBSET Announced["wsd"] : Distinct(heard)}

Listen(path, outcomes) ==
    /\ at[path] = "listen"
    /\ at' = [at EXCEPT ![path] = "idle"]
    /\ \E heard \in outcomes :
           /\ found' = [found EXCEPT ![path] = heard]
           /\ known' = known \cup {a.at : a \in heard}
    /\ UNCHANGED <<contextVars, sweepVars, channelVars, readerVars, item, probed>>

-----------------------------------------------------------------------------
(* Probing *)

Feed(p) == IF p \in Path THEN found[p] ELSE jobs

TakeFrom(p, i) ==
    IF p \in Path
    THEN found' = [found EXCEPT ![p] = @ \ {i}] /\ UNCHANGED jobs
    ELSE jobs' = jobs \ {i} /\ UNCHANGED found

Move(p, place) == at' = [at EXCEPT ![p] = place]

claimMutant(address) == UNCHANGED probed

\* LoadOrStore
claim(address) == probed' = probed \cup {address}

\* probeOnce: another prober may have claimed the address.
Take(p) ==
    /\ at[p] = "idle" /\ ~cancelled
    /\ \E i \in Feed(p) :
           /\ TakeFrom(p, i)
           /\ \/ i.at \in probed /\ UNCHANGED <<at, item, probed>>
              \/ /\ i.at \notin probed
                 /\ claim(i.at)
                 /\ Move(p, "probe")
                 /\ item' = [item EXCEPT ![p] = i]
    /\ UNCHANGED <<contextVars, channelVars, readerVars, tcp, ips, known>>

\* The loop ends with its list, or at the next item after a cancellation.
Leave(p) ==
    /\ at[p] = "idle"
    /\ Feed(p) = {} \/ cancelled
    /\ Move(p, "done")
    /\ UNCHANGED <<contextVars, sweepVars, sharedVars, channelVars, readerVars, item>>

\* probeHTTP: http or https, then the other; a cancelled one may fail.
Probe(p) ==
    /\ at[p] = "probe"
    /\ \/ item[p].at \in Answers /\ Move(p, "send") /\ UNCHANGED item
       \/ /\ item[p].at \notin Answers \/ cancelled
          /\ Move(p, "idle")
          /\ item' = [item EXCEPT ![p] = NoItem]
    /\ UNCHANGED <<contextVars, sweepVars, sharedVars, channelVars, readerVars>>

SendMutant(p) ==
    /\ at[p] = "send"
    /\ Len(ch) < Capacity
    /\ ch' = Append(ch, item[p].at)
    /\ Move(p, "idle")
    /\ UNCHANGED <<contextVars, sweepVars, sharedVars, readerVars, item, closed>>

\* ch <- r blocks while the buffer is full.
Send(p) ==
    /\ at[p] = "send"
    /\ Len(ch) < Capacity
    /\ ch' = Append(ch, item[p].at)
    /\ Move(p, "idle")
    /\ item' = [item EXCEPT ![p] = NoItem]
    /\ UNCHANGED <<contextVars, sweepVars, sharedVars, readerVars, closed>>

waitMutant == \A path \in Path : at[path] = "done"

\* outerWg.Wait
wait == tcp = "done" /\ \A path \in Path : at[path] = "done"

Close ==
    /\ ~closed
    /\ wait
    /\ closed' = TRUE
    /\ UNCHANGED <<contextVars, sweepVars, proberVars, sharedVars, readerVars, ch>>

-----------------------------------------------------------------------------
(* The caller *)

Receive ==
    /\ ch # <<>>
    /\ received' = [received EXCEPT ![Head(ch)] = @ + 1]
    /\ ch' = Tail(ch)
    /\ UNCHANGED <<contextVars, sweepVars, proberVars, sharedVars, closed, finished>>

RangeEnds ==
    /\ closed /\ ch = <<>> /\ ~finished
    /\ finished' = TRUE
    /\ UNCHANGED <<contextVars, sweepVars, proberVars, sharedVars, channelVars, received>>

\* Shutdown; a full scan runs with a context of its own.
Cancel ==
    /\ ~call.withTCP /\ ~cancelled
    /\ cancelled' = TRUE
    /\ UNCHANGED <<sweepVars, proberVars, sharedVars, channelVars, readerVars, call>>

PipelineInit ==
    /\ call \in Calls
    /\ cancelled = FALSE
    /\ tcp = IF call.withTCP THEN "hosts" ELSE "done"
    /\ ips = {} /\ jobs = {} /\ probed = {} /\ known = {}
    /\ at = [p \in Prober |-> IF p \in Path THEN "listen" ELSE "done"]
    /\ item = [p \in Prober |-> NoItem]
    /\ found = [path \in Path |-> {}]
    /\ ch = <<>> /\ closed = FALSE
    /\ received = [a \in Answers |-> 0] /\ finished = FALSE

PipelineStep ==
    \/ ChooseHosts \/ Sweep \/ SweepDone
    \/ Listen("mdns", discoverMDNS)
    \/ Listen("ssdp", discoverSSDP)
    \/ Listen("wsd", discoverWSDiscovery)
    \/ \E p \in Prober : Take(p) \/ Leave(p) \/ Probe(p) \/ Send(p)
    \/ Close
    \/ Receive \/ RangeEnds

PipelineNext == PipelineStep \/ Cancel

\* Dials, probes and listening have timeouts; the caller reads to the end.
PipelineSpec ==
    PipelineInit /\ [][PipelineNext]_pipelineVars /\ WF_pipelineVars(PipelineStep)

-----------------------------------------------------------------------------
(* Properties *)

\* The types of the pipeline's variables.
PipelineTypeOK ==
    /\ ips \subseteq IP
    /\ \A p \in Prober : at[p] \in {"listen", "idle", "probe", "send", "done"}
    /\ \A p \in Prober : item[p] # NoItem <=> at[p] \in {"probe", "send"}
    /\ probed \subseteq known
    /\ ch \in Seq(Answers)
    /\ DOMAIN received = Answers

\* The channel is closed after the last send (a send on a closed channel is a
\* panic that ends Lantern), and by then no address that any path came up with
\* and that answers is missing - however the claims of probedPorts fell and
\* however often the buffer was full - unless the scan was cancelled.
NothingLost ==
    /\ closed => \A p \in Prober : at[p] = "done"
    /\ finished /\ ~cancelled => \A a \in known \cap Answers : received[a] = 1

\* Each service reaches the reader at most once and the reader's loop ends,
\* cancelled or not: the wait groups, the bounded channel and the closed jobs
\* channel cannot deadlock.
Results == INSTANCE ScanResults WITH Service <- Answers

ImplementsScanResults == Results!Spec
=============================================================================
