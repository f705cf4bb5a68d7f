--------------------------- MODULE MCScanPipeline ---------------------------
(* Model-checking instance of ScanPipeline: addresses of four bits, /2 in   *)
(* place of /24, so that a network has two hosts.                           *)
EXTENDS ScanPipeline

\* The address whose bits are those of a number
Addr(n) == [i \in Bit |-> (n \div 2^(Width - i)) % 2]

Iface(n, bits) == [ip |-> Addr(n), bits |-> bits, up |-> TRUE, loopback |-> FALSE,
                    docker |-> FALSE]

\* A loopback, Docker's bridge, and the LAN whose mask is wider than /24.
MCIfaces == <<[Iface(15, 2) EXCEPT !.loopback = TRUE],
              [Iface(12, 1) EXCEPT !.docker = TRUE],
              Iface(1, 1)>>

\* No configured subnet, the LAN, the LAN and a routed network, a /32; and
\* the light scan.
MCCalls ==
    {[withTCP |-> TRUE, cidrs |-> cidrs] :
        cidrs \in {{}, {[ip |-> Addr(0), bits |-> 1]},
                   {[ip |-> Addr(0), bits |-> 2], [ip |-> Addr(8), bits |-> 2]},
                   {[ip |-> Addr(2), bits |-> 4]}}}
    \cup {[withTCP |-> FALSE, cidrs |-> {}]}

\* Lantern's own host, a neighbour with two ports, a host on the routed net.
MCAnswers == {[ip |-> Addr(1), port |-> 80], [ip |-> Addr(2), port |-> 80],
              [ip |-> Addr(9), port |-> 80]}

\* Who answers an ARP request.
MCArpReplies == {Addr(2)}

MCOpen == MCAnswers \cup {[ip |-> Addr(2), port |-> 443]}

MCAnnounced ==
    [path \in Path |->
        CASE path = "mdns" -> {[id |-> "a", at |-> [ip |-> Addr(2), port |-> 80]]}
          [] path = "ssdp" -> {[id |-> loc, at |-> [ip |-> Addr(2), port |-> 80]] :
                                 loc \in {"b", "c"}}
          [] path = "wsd"  -> {[id |-> "d", at |-> [ip |-> Addr(6), port |-> 80]]}]
=============================================================================
