----------------------------- MODULE MCFrontEnd -----------------------------
(***************************************************************************)
(* Instance of FrontEnd.  As no step of one part reads or changes a        *)
(* variable of another, what holds of each in every state it can reach     *)
(* holds of all together (theorems PartsOfFront and FrontIsSafe), and TLC  *)
(* explores one part at a time: part tells which, and the others stay in   *)
(* their first state.                                                      *)
(***************************************************************************)
EXTENDS FrontEnd, TLC

VARIABLE part

PartInit ==
    /\ part \in {"theme", "frame", "console", "editor"}
    /\ FrontInit
    /\ part # "theme" => theme = "dark" /\ stored = NoTheme
    /\ part # "frame" => storedUrl = NoServer /\ wide

PartNext ==
    /\ UNCHANGED part
    /\ \/ part = "theme" /\ ThemeStep
       \/ part = "frame" /\ FrameStep
       \/ part = "console" /\ ConsoleStep
       \/ part = "editor" /\ EditorStep

PartSpec == PartInit /\ [][PartNext]_<<part, frontVars>>

\* Only Default is told from the other servers.
Symmetry ==
    Permutations(Runs) \cup Permutations(CloudRuns) \cup Permutations(Sessions)
=============================================================================
