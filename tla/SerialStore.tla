---------------------------- MODULE SerialStore -----------------------------
(***************************************************************************)
(* CommandStore with a history variable that tells the behaviours in which *)
(* saves run one at a time.  In those it implements DurableMap.            *)
(***************************************************************************)
EXTENDS CommandStore

CONSTANT NoWrite   \* no write awaits its answer

ASSUME NoWriteAssumption == NoWrite \notin [id : Ids, to : Contents \cup {NoSet}]

VARIABLE serial   \* no two writes have overlapped so far, and no file was unreadable

\* From the change of the map to the answer.
Writing == {c \in Clients : pc[c] \in {"snapshot", "create", "temp", "rename", "ack"}}
OneWriter == \A c, d \in Writing : c = d

LoadReadsFile == ~up /\ up' => commandSets' = file

SerialInit == Init /\ serial = TRUE
SerialNext == Next /\ serial' = (serial /\ OneWriter' /\ LoadReadsFile)
SerialSpec == SerialInit /\ [][SerialNext]_<<vars, serial>>

\* Overlapping saves are all that can take an acknowledged write out of the file: as
\* long as they ran one at a time, whichever clients made them, whatever failed, was
\* checked before another's write and written after it, or was killed on the way, an
\* acknowledged write is in the file and comes back (storage.go 56-112, server.go 39-118).
SerialSavesAreDurable == serial => AckedIsDurable

-----------------------------------------------------------------------------
(* The abstract map that the store implements while saves run one at a time. *)

\* The write that c makes awaits its answer from the change of the map on; what the
\* handlers of update and delete have only checked is not a write yet.
PendingWrite ==
    IF Writing = {} THEN NoWrite
    ELSE LET c == CHOOSE c \in Writing : TRUE IN [id |-> cid[c], to |-> body[c]]

Durable == INSTANCE DurableMap
    WITH map <- commandSets, disk <- file, pending <- PendingWrite,
         safe <- {i \in Ids : last[i].acked}

\* As long as saves run one at a time, each step of a Save, of a handler or of a restart is
\* one of the abstract map or none: the file changes as a whole, to what the map is, and only
\* for a write; the map changes by writes alone, so that a failed save takes nothing back;
\* and "saved successfully" means that the write is in the file (storage.go 56-112).
StoreIsDurableMap ==
    Durable!Init /\ [][serial' => Durable!Next \/ UNCHANGED Durable!vars]_<<vars, serial>>
=============================================================================
