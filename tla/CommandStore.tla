---------------------------- MODULE CommandStore ----------------------------
(***************************************************************************)
(* The command sets that an agent keeps: internal/storage, the handlers    *)
(* that call it (internal/server and the command handlers of the agent),   *)
(* and the executor that runs a set (internal/executor).                   *)
(*                                                                         *)
(* A member c of Clients is one goroutine that serves requests one after   *)
(* the other: the receive loop of a cloud connection is one, each          *)
(* concurrent local gRPC call is another.  The stand-alone agent           *)
(* (cmd/agent) has one; the unified agent (real_grpc_server.go) has        *)
(* several.  Requests that only read (GetAllCommandSets) and requests that *)
(* find no command set change nothing and are left out.                    *)
(*                                                                         *)
(* The process may be killed between any two steps, and restarted; the     *)
(* directory survives.  A temp file left behind is never read again, as    *)
(* os.CreateTemp makes a new name every time.                              *)
(***************************************************************************)
EXTENDS Naturals, Sequences

CONSTANTS
    Ids,            \* command set ids
    Contents,       \* names, scripts and description of a set
    Clients,        \* goroutines that serve requests
    NoSet,          \* the id is not in the map
    NoId, NoClient, Torn,
    Steps,          \* number of scripts of a set
    LoadMayFail     \* the file may be unreadable at a start

ASSUME StoreAssumption ==
    /\ NoSet \notin Contents
    /\ NoId \notin Ids
    /\ NoClient \notin Clients
    /\ Steps \in Nat \ {0}
    /\ LoadMayFail \in BOOLEAN

Maps == [Ids -> Contents \cup {NoSet}]

ASSUME TornAssumption == Torn \notin Maps

VARIABLES
    up,           \* the process runs
    commandSets,  \* Storage.commandSets
    file,         \* content of commands.json (no file: the empty map)
    pc,           \* what the goroutine is at
    op,           \* "none", "store", "update", "delete", "execute"
    cid, body,    \* the request's command set id and content
    snapshot,     \* Save's copy of the map
    temp,         \* content of Save's temp file; Torn: not all written
    got,          \* the command set an execution works on
    results,      \* its StepResults: whose script it was, and success
    \* history
    last,         \* last[i]: the last write to i, and whether it was acked
    past          \* every value that commandSets has had

saveVars == <<snapshot, temp>>
runVars  == <<got, results>>

vars == <<up, commandSets, file, pc, op, cid, body, snapshot, temp, got,
          results, last, past>>

Empty == [i \in Ids |-> NoSet]

Write == [by : Clients \cup {NoClient}, to : Contents \cup {NoSet}, acked : BOOLEAN]
StepResult == [of : Contents, success : BOOLEAN]

TypeOK ==
    /\ up \in BOOLEAN
    /\ commandSets \in Maps
    /\ file \in Maps
    /\ pc \in [Clients -> {"idle", "write", "snapshot", "create", "temp",
                           "rename", "ack", "run"}]
    /\ op \in [Clients -> {"none", "store", "update", "delete", "execute"}]
    /\ cid \in [Clients -> Ids \cup {NoId}]
    /\ body \in [Clients -> Contents \cup {NoSet}]
    /\ snapshot \in [Clients -> Maps]
    /\ temp \in [Clients -> Maps \cup {Torn}]
    /\ got \in [Clients -> Contents \cup {NoSet}]
    /\ results \in [Clients -> Seq(StepResult)]
    /\ last \in [Ids -> Write]
    /\ past \in SUBSET Maps

Init ==
    /\ up = TRUE
    /\ commandSets = Empty
    /\ file = Empty
    /\ pc = [c \in Clients |-> "idle"]
    /\ op = [c \in Clients |-> "none"]
    /\ cid = [c \in Clients |-> NoId]
    /\ body = [c \in Clients |-> NoSet]
    /\ snapshot = [c \in Clients |-> Empty]
    /\ temp = [c \in Clients |-> Torn]
    /\ got = [c \in Clients |-> NoSet]
    /\ results = [c \in Clients |-> <<>>]
    /\ last = [i \in Ids |-> [by |-> NoClient, to |-> NoSet, acked |-> FALSE]]
    /\ past = {Empty}

-----------------------------------------------------------------------------
(* The map. *)

\* The goroutine c takes a request.
Accept(c, o, i, v, next) ==
    /\ up
    /\ pc[c] = "idle"
    /\ op' = [op EXCEPT ![c] = o]
    /\ cid' = [cid EXCEPT ![c] = i]
    /\ body' = [body EXCEPT ![c] = v]
    /\ pc' = [pc EXCEPT ![c] = next]

\* commandSets[i] = v, or delete(commandSets, i), under the lock.
Put(c, i, v) ==
    /\ commandSets' = [commandSets EXCEPT ![i] = v]
    /\ past' = past \cup {commandSets'}
    /\ last' = [last EXCEPT ![i] = [by |-> c, to |-> v, acked |-> FALSE]]

\* Back to the receive loop, or the end of the local call.
Return(c) ==
    /\ pc' = [pc EXCEPT ![c] = "idle"]
    /\ op' = [op EXCEPT ![c] = "none"]
    /\ cid' = [cid EXCEPT ![c] = NoId]
    /\ body' = [body EXCEPT ![c] = NoSet]

StoreCommandSet(c, i, v) ==
    /\ Accept(c, "store", i, v, "snapshot")
    /\ Put(c, i, v)
    /\ UNCHANGED <<up, file, saveVars, runVars>>

\* The handlers of update and delete look the set up and let go of the lock ...
UpdateCommandSet(c, i, v) ==
    /\ Accept(c, "update", i, v, "write")
    /\ commandSets[i] # NoSet
    /\ UNCHANGED <<up, commandSets, file, saveVars, runVars, last, past>>

DeleteCommandSet(c, i) ==
    /\ Accept(c, "delete", i, NoSet, "write")
    /\ commandSets[i] # NoSet
    /\ UNCHANGED <<up, commandSets, file, saveVars, runVars, last, past>>

\* ... and write afterwards, whatever has become of it.
WriteChecked(c) ==
    /\ pc[c] = "write"
    /\ Put(c, cid[c], body[c])
    /\ pc' = [pc EXCEPT ![c] = "snapshot"]
    /\ UNCHANGED <<up, file, op, cid, body, saveVars, runVars>>

-----------------------------------------------------------------------------
(* Save. *)

Snapshot(c) ==
    /\ pc[c] = "snapshot"
    /\ snapshot' = [snapshot EXCEPT ![c] = commandSets]
    /\ pc' = [pc EXCEPT ![c] = "create"]
    /\ UNCHANGED <<up, commandSets, file, op, cid, body, temp, runVars, last, past>>

\* Mutant of CreateTemp: one name for all temp files.
CreateSharedTemp(c) ==
    /\ pc[c] = "create"
    /\ temp' = [d \in Clients |-> Torn]
    /\ pc' = [pc EXCEPT ![c] = "temp"]
    /\ UNCHANGED <<up, commandSets, file, op, cid, body, snapshot, runVars, last, past>>

CreateTemp(c) ==
    /\ pc[c] = "create"
    /\ temp' = [temp EXCEPT ![c] = Torn]
    /\ pc' = [pc EXCEPT ![c] = "temp"]
    /\ UNCHANGED <<up, commandSets, file, op, cid, body, snapshot, runVars, last, past>>

\* Write, Sync, Chmod and Close.
WriteTemp(c) ==
    /\ pc[c] = "temp"
    /\ temp' = [temp EXCEPT ![c] = snapshot[c]]
    /\ pc' = [pc EXCEPT ![c] = "rename"]
    /\ UNCHANGED <<up, commandSets, file, op, cid, body, snapshot, runVars, last, past>>

\* The temp file is gone, renamed; its name is not used again.
Rename(c) ==
    /\ pc[c] = "rename"
    /\ file' = temp[c]
    /\ temp' = [temp EXCEPT ![c] = Torn]
    /\ pc' = [pc EXCEPT ![c] = "ack"]
    /\ UNCHANGED <<up, commandSets, op, cid, body, snapshot, runVars, last, past>>

\* Mutant of SaveFails: the error of Save is dropped.
SaveErrorDropped(c) ==
    /\ pc[c] \in {"create", "temp", "rename"}
    /\ temp' = [temp EXCEPT ![c] = Torn]
    /\ pc' = [pc EXCEPT ![c] = "ack"]
    /\ UNCHANGED <<up, commandSets, file, op, cid, body, snapshot, runVars, last, past>>

\* Mutant of SaveFails: takes the set out of the map.
SaveFailsForgets(c) ==
    /\ pc[c] \in {"create", "temp", "rename"}
    /\ temp' = [temp EXCEPT ![c] = Torn]
    /\ commandSets' = [commandSets EXCEPT ![cid[c]] = NoSet]
    /\ Return(c)
    /\ UNCHANGED <<up, file, snapshot, runVars, last, past>>

\* Any file operation fails: the handler answers "failed to save command set".
\* The map keeps the write.
SaveFails(c) ==
    /\ pc[c] \in {"create", "temp", "rename"}
    /\ temp' = [temp EXCEPT ![c] = Torn]
    /\ Return(c)
    /\ UNCHANGED <<up, commandSets, file, snapshot, runVars, last, past>>

\* The handler answers "command set saved successfully".
Acknowledge(c) ==
    /\ pc[c] = "ack"
    /\ last' = IF last[cid[c]].by = c
               THEN [last EXCEPT ![cid[c]].acked = TRUE]
               ELSE last
    /\ Return(c)
    /\ UNCHANGED <<up, commandSets, file, saveVars, runVars, past>>

-----------------------------------------------------------------------------
(* Executor.ExecuteCommandSet. *)

ExecuteCommandSet(c, i) ==
    /\ Accept(c, "execute", i, NoSet, "run")
    /\ commandSets[i] # NoSet
    /\ got' = [got EXCEPT ![c] = commandSets[i]]
    /\ results' = [results EXCEPT ![c] = <<>>]
    /\ UNCHANGED <<up, commandSets, file, saveVars, last, past>>

\* Mutant of ExecuteStep: looks the set up again for each step.
ExecuteStepLooksUp(c) ==
    /\ pc[c] = "run"
    /\ commandSets[cid[c]] # NoSet
    /\ Len(results[c]) < Steps
    /\ \E ok \in BOOLEAN :
        /\ results' = [results EXCEPT
               ![c] = Append(@, [of |-> commandSets[cid[c]], success |-> ok])]
        /\ IF ok /\ Len(results[c]) + 1 < Steps THEN UNCHANGED <<pc, op, cid, body>>
           ELSE Return(c)
    /\ UNCHANGED <<up, commandSets, file, saveVars, got, last, past>>

\* One script, with 30 s to end; the first one to fail ends the execution.
ExecuteStep(c) ==
    /\ pc[c] = "run"
    /\ Len(results[c]) < Steps
    /\ \E ok \in BOOLEAN :
        /\ results' = [results EXCEPT ![c] = Append(@, [of |-> got[c], success |-> ok])]
        /\ IF ok /\ Len(results[c]) + 1 < Steps THEN UNCHANGED <<pc, op, cid, body>>
           ELSE Return(c)
    /\ UNCHANGED <<up, commandSets, file, saveVars, got, last, past>>

-----------------------------------------------------------------------------
(* The process. *)

Crash ==
    /\ up
    /\ up' = FALSE
    /\ commandSets' = Empty
    /\ pc' = [c \in Clients |-> "idle"]
    /\ op' = [c \in Clients |-> "none"]
    /\ cid' = [c \in Clients |-> NoId]
    /\ body' = [c \in Clients |-> NoSet]
    /\ temp' = [c \in Clients |-> Torn]
    /\ UNCHANGED <<file, snapshot, runVars, last, past>>

\* Load.  main only warns of an error, and goes on with the empty map.
Load ==
    /\ ~up
    /\ up' = TRUE
    /\ \/ commandSets' = file
       \/ LoadMayFail /\ commandSets' = Empty
    /\ past' = past \cup {commandSets'}
    /\ UNCHANGED <<file, pc, op, cid, body, saveVars, runVars, last>>

Request(c, i) ==
    \/ \E v \in Contents : StoreCommandSet(c, i, v) \/ UpdateCommandSet(c, i, v)
    \/ DeleteCommandSet(c, i)
    \/ ExecuteCommandSet(c, i)

Serve(c) ==
    \/ \E i \in Ids : Request(c, i)
    \/ WriteChecked(c)
    \/ Snapshot(c)
    \/ CreateTemp(c)
    \/ WriteTemp(c)
    \/ Rename(c)
    \/ SaveFails(c)
    \/ Acknowledge(c)
    \/ ExecuteStep(c)

Next == (\E c \in Clients : Serve(c)) \/ Crash \/ Load

Spec == Init /\ [][Next]_vars

-----------------------------------------------------------------------------
(* Safety. *)

\* "Save saves command sets to file using atomic rename": the file always
\* holds the whole map as it was at some moment, whatever crashes, fails or
\* runs at the same time; so Load never finds a torn file.
FileIsSnapshot == file \in past

\* A write that was acknowledged, and is the last one to its id, is in the file
\* and will be there after a crash.  Saves that fail in between take nothing
\* away.  (It holds for one client, and a file that can be read.)
AckedIsDurable ==
    \A i \in Ids : last[i].acked =>
        /\ file[i] = last[i].to
        /\ up => commandSets[i] = last[i].to

\* An execution runs the scripts of one version of its command set, though the
\* set is updated or deleted meanwhile, and goes no further than a failed one.
ExecutesOneVersion ==
    \A c \in Clients : \A k \in 1..Len(results[c]) :
        /\ results[c][k].of = got[c]
        /\ k < Len(results[c]) => results[c][k].success
=============================================================================
