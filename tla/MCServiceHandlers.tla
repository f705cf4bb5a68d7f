------------------------- MODULE MCServiceHandlers -------------------------
(* Model-checking instance of ServiceHandlers. *)
EXTENDS ServiceHandlers, TLC

\* The keys of d.Services and the fields the store does not look into.
AllKeys == Host \cup {DirectKey(id) : id \in Id}

AllData == Data

\* One container, discovered before the first request.
OneContainer == {[cid |-> c, name |-> n] : c \in Cid, n \in CName}

\* A service ID and its direct key are permuted together.
Interchangeable ==
    Permutations(Id) \cup Permutations(Host) \cup Permutations(Target)
        \cup Permutations(Proc)
=============================================================================
