---------------------------- MODULE ScanResults -----------------------------
(* What scanNetwork of internal/discovery/network.go promises to the loop   *)
(* that reads its channel: services in any order, each at most once, then   *)
(* the end, whatever the network does.                                      *)
EXTENDS Naturals

CONSTANT Service    \* IP:port pairs that answer HTTP

VARIABLES
    received,       \* service -> how often the reader has got it
    finished        \* the reader's range loop has ended

resultVars == <<received, finished>>

Init == received = [s \in Service |-> 0] /\ finished = FALSE

Deliver(s) ==
    /\ ~finished /\ received[s] = 0
    /\ received' = [received EXCEPT ![s] = 1]
    /\ UNCHANGED finished

Finish ==
    /\ ~finished
    /\ finished' = TRUE
    /\ UNCHANGED received

Next == (\E s \in Service : Deliver(s)) \/ Finish

Spec == Init /\ [][Next]_resultVars /\ WF_resultVars(Finish)
=============================================================================
