---------------------------- MODULE MCGrpcProxy ----------------------------
(***************************************************************************)
(* Instances of GrpcProxy for TLC.                                         *)
(***************************************************************************)
EXTENDS GrpcProxy, TLC

\* Streams, requests and devices are interchangeable while Beating and Logging
\* are all of Streams or none.  Only runs without temporal properties use it.
Symmetry ==
    Permutations(Devices) \cup Permutations(Streams) \cup Permutations(Requests)
=============================================================================
