--------------------------- MODULE MCCommandStore ---------------------------
(***************************************************************************)
(* Instances of CommandStore, and of SerialStore, for TLC.                 *)
(***************************************************************************)
EXTENDS SerialStore, TLC

\* No run with a liveness property uses it.
Symmetry ==
    Permutations(Ids) \cup Permutations(Contents) \cup Permutations(Clients)
=============================================================================
