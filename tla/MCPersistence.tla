--------------------------- MODULE MCPersistence ----------------------------
(* Model-checking instance of Persistence, with a history variable: whether *)
(* two Saves have ever overlapped.                                          *)
EXTENDS Persistence

VARIABLE overlapped

SavingTogether ==
    \E p, q \in Proc : p # q /\ pc[p] # "idle" /\ pc[q] # "idle"

MCInit == Init /\ overlapped = FALSE

MCNext == Next /\ overlapped' = (overlapped \/ SavingTogether')

MCSpec == MCInit /\ [][MCNext]_<<vars, overlapped>> /\ Fairness

\* SavedStaysSaved holds of the program as long as no two of its Saves have
\* overlapped, through failing writes and crashes at any point (Save).
SavedStaysUnlessOverlapped == ~overlapped => SavedStaysSaved
=============================================================================
