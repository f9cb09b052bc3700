----------------------------- MODULE DurableMap -----------------------------
(***************************************************************************)
(* What an agent promises of its command sets, as long as it saves them    *)
(* one write at a time: a map in memory, a copy of it that survives a      *)
(* crash, and nothing in between.                                          *)
(*                                                                         *)
(* A write changes the map at once and is then answered "saved" or         *)
(* "failed".  "saved" says that it is in the copy.  "failed" says nothing: *)
(* the write stays in the map, and the next one that is saved takes it     *)
(* along, unless a crash comes first.                                      *)
(***************************************************************************)
CONSTANTS Ids, Contents, NoSet, NoWrite

VARIABLES
    up,       \* the process runs
    map,      \* the command sets in memory
    disk,     \* the copy that survives
    pending,  \* the write that awaits its answer: its id and content, or NoWrite
    safe      \* the ids whose last write was answered "saved"

vars == <<up, map, disk, pending, safe>>

Empty == [i \in Ids |-> NoSet]

TypeOK ==
    /\ up \in BOOLEAN
    /\ map \in [Ids -> Contents \cup {NoSet}]
    /\ disk \in [Ids -> Contents \cup {NoSet}]
    /\ pending \in [id : Ids, to : Contents \cup {NoSet}] \cup {NoWrite}
    /\ safe \in SUBSET Ids

Init ==
    /\ up = TRUE
    /\ map = Empty
    /\ disk = Empty
    /\ pending = NoWrite
    /\ safe = {}

\* v is NoSet for a delete.
Write(i, v) ==
    /\ up
    /\ pending = NoWrite
    /\ map' = [map EXCEPT ![i] = v]
    /\ pending' = [id |-> i, to |-> v]
    /\ safe' = safe \ {i}
    /\ UNCHANGED <<up, disk>>

\* The copy is replaced as a whole, and only for a write.
Persist ==
    /\ up
    /\ pending # NoWrite
    /\ disk' = map
    /\ UNCHANGED <<up, map, pending, safe>>

Saved ==
    /\ pending # NoWrite
    /\ disk = map
    /\ map[pending.id] = pending.to
    /\ pending' = NoWrite
    /\ safe' = safe \cup {pending.id}
    /\ UNCHANGED <<up, map, disk>>

Failed ==
    /\ pending # NoWrite
    /\ pending' = NoWrite
    /\ UNCHANGED <<up, map, disk, safe>>

Crash ==
    /\ up
    /\ up' = FALSE
    /\ map' = Empty
    /\ pending' = NoWrite
    /\ UNCHANGED <<disk, safe>>

Recover ==
    /\ ~up
    /\ up' = TRUE
    /\ map' = disk
    /\ UNCHANGED <<disk, pending, safe>>

Next ==
    \/ \E i \in Ids, v \in Contents \cup {NoSet} : Write(i, v)
    \/ Persist
    \/ Saved
    \/ Failed
    \/ Crash
    \/ Recover

Spec == Init /\ [][Next]_vars

-----------------------------------------------------------------------------
\* What makes it worth having.  A saved write is in the map and in the copy ...
SafeIsSaved == up => \A i \in safe : map[i] = disk[i]

\* ... and nothing but another write to its id takes it out of the copy.
SafeIsKept == \A i \in safe \cap safe' : disk'[i] = disk[i]
=============================================================================
