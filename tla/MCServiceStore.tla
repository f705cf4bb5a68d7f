--------------------------- MODULE MCServiceStore ---------------------------
(* Model-checking instance of ServiceStore. *)
EXTENDS ServiceStore, TLC

\* IDs, container IDs and names are opaque to the store.
Interchangeable ==
    Permutations(Id) \cup Permutations(Sub) \cup Permutations(Cid)
        \cup Permutations(CName)
=============================================================================
