---------------------------- MODULE MCDashboard ----------------------------
(***************************************************************************)
(* Instances of Dashboard for TLC.                                         *)
(***************************************************************************)
EXTENDS Dashboard, TLC

CONSTANTS d1, d2, i1, v1, v2

\* The local agent has nothing at first; one device has a set and the other none.
MCLocalSets == [i \in Ids |-> NoSet]
MCDeviceSets == (d1 :> [i \in Ids |-> IF i = i1 THEN v1 ELSE NoSet])
                @@ (d2 :> [i \in Ids |-> NoSet])

\* Requests and runs are interchangeable.
Symmetry == Permutations(Calls) \cup Permutations(Runs)
=============================================================================
