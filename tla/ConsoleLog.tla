----------------------------- MODULE ConsoleLog -----------------------------
(***************************************************************************)
(* The log of the console (frontend/src/hooks/useLogger.ts, Console.tsx)   *)
(* and the handler of App.tsx that writes executions into it, in local     *)
(* mode over the hook that module Execution models, in cloud mode over     *)
(* useCloudApi.executeOnDevice, which knows no such state: any number of   *)
(* executions may run at once there.                                       *)
(*                                                                         *)
(* Of an execution the log has a start, its steps, and an end.  Other      *)
(* messages are left out.                                                  *)
(***************************************************************************)
EXTENDS Execution, Naturals, Sequences

CONSTANTS CloudRuns,   \* requests to execute on a device that may be in flight at once
          MaxLog       \* bound on the length of the log when an execution starts

ASSUME CloudRunsAssumption == CloudRuns \cap Runs = {} /\ NoRun \notin CloudRuns

VARIABLES cloudMode,
          entries,
          stepsOf,    \* whose step results execution.stepResults holds
          seen,       \* those of the execution that the handler's closure has seen
          inCloud     \* the requests of CloudRuns in flight

consoleVars == <<execVars, cloudMode, entries, stepsOf, seen, inCloud>>

AnyRun == Runs \cup CloudRuns

\* An entry: its level, the execution that logs it, and whose step it tells.
Entry == [level : {"start", "step", "complete", "error"}, by : AnyRun \cup {NoRun},
          of : AnyRun \cup {NoRun}]
Logged(level, q) == [level |-> level, by |-> q, of |-> NoRun]
Step(q, of) == [level |-> "step", by |-> q, of |-> of]

ConsoleTypeOK ==
    /\ ExecTypeOK
    /\ cloudMode \in BOOLEAN
    /\ entries \in Seq(Entry)
    /\ stepsOf \in Runs \cup {NoRun}
    /\ seen \in [Runs -> Runs \cup {NoRun}]
    /\ inCloud \subseteq CloudRuns

ConsoleInit ==
    /\ ExecInit
    /\ cloudMode = FALSE /\ entries = <<>> /\ inCloud = {}
    /\ stepsOf = NoRun /\ seen = [q \in Runs |-> NoRun]

Room == Len(entries) < MaxLog

\* A click in local mode: the start is logged, the request sent.  The closure keeps the
\* execution that was shown before the click.
ExecuteLocally(q, i) ==
    /\ ~cloudMode /\ Room
    /\ ExecuteCommandSet(q, i)
    /\ entries' = Append(entries, Logged("start", q))
    /\ seen' = [seen EXCEPT ![q] = stepsOf]
    /\ stepsOf' = NoRun
    /\ UNCHANGED <<cloudMode, inCloud>>

\* Another set is clicked while one runs: the hook returns at once, which is logged as
\* a failure, and the execution that runs is not touched.
ExecuteRefused ==
    /\ ~cloudMode /\ Room /\ IsRunning
    /\ entries' = entries \o <<Logged("start", NoRun), Logged("error", NoRun)>>
    /\ UNCHANGED <<execVars, cloudMode, stepsOf, seen, inCloud>>

\* Its answer, also after the execution was stopped, cleared or the mode switched.  The
\* results go to the execution that is shown, if any; what is logged is those of the
\* closure.  An exception (~sent) has no results.
LocalAnswered(q) ==
    /\ ExecutionAnswered(q)
    /\ \E success, sent \in BOOLEAN :
        /\ success => sent
        /\ execution' # NoExecution => execution'.status = IF success THEN "completed" ELSE "failed"
        /\ stepsOf' = IF execution' # NoExecution /\ sent THEN q ELSE stepsOf
        /\ entries' = entries
              \o (IF seen[q] = NoRun THEN <<>> ELSE <<Step(q, seen[q])>>)
              \o <<Logged(IF success THEN "complete" ELSE "error", q)>>
    /\ UNCHANGED <<cloudMode, seen, inCloud>>

ExecuteOnDevice(q) ==
    /\ cloudMode /\ Room /\ q \notin inCloud
    /\ inCloud' = inCloud \cup {q}
    /\ entries' = Append(entries, Logged("start", q))
    /\ UNCHANGED <<execVars, cloudMode, stepsOf, seen>>

\* Mutant of DeviceAnswered: goes on after it has logged a failed call.
DeviceAnsweredTwice(q) ==
    /\ q \in inCloud
    /\ inCloud' = inCloud \ {q}
    /\ \/ entries' = entries \o <<Logged("error", q), Logged("error", q)>>
       \/ \E level \in {"complete", "error"}, steps \in {<<>>, <<Step(q, q)>>} :
             entries' = Append(entries \o steps, Logged(level, q))
    /\ UNCHANGED <<execVars, cloudMode, stepsOf, seen>>

\* The call fails, or the answer is logged step by step, if it has steps.
DeviceAnswered(q) ==
    /\ q \in inCloud
    /\ inCloud' = inCloud \ {q}
    /\ \/ entries' = Append(entries, Logged("error", q))
       \/ \E level \in {"complete", "error"}, steps \in {<<>>, <<Step(q, q)>>} :
             entries' = Append(entries \o steps, Logged(level, q))
    /\ UNCHANGED <<execVars, cloudMode, stepsOf, seen>>

\* The buttons of the console, and the timer.
StopShown == StopExecution /\ UNCHANGED <<cloudMode, entries, stepsOf, seen, inCloud>>
ClearShown ==
    /\ execution.status \in Ended
    /\ ClearExecution
    /\ stepsOf' = NoRun
    /\ UNCHANGED <<cloudMode, entries, seen, inCloud>>
ShownExpires ==
    /\ TimerFires
    /\ stepsOf' = NoRun
    /\ UNCHANGED <<cloudMode, entries, seen, inCloud>>
ClearLog ==
    /\ entries' = <<>>
    /\ UNCHANGED <<execVars, cloudMode, stepsOf, seen, inCloud>>

\* onToggleMode clears both.
ToggleConsole ==
    /\ cloudMode' = ~cloudMode
    /\ ClearExecution
    /\ entries' = <<>> /\ stepsOf' = NoRun
    /\ UNCHANGED <<seen, inCloud>>

ConsoleNext ==
    \/ \E q \in Runs : LocalAnswered(q) \/ \E i \in Ids : ExecuteLocally(q, i)
    \/ \E q \in CloudRuns : ExecuteOnDevice(q) \/ DeviceAnswered(q)
    \/ ExecuteRefused \/ StopShown \/ ClearShown \/ ShownExpires \/ ClearLog \/ ToggleConsole

ConsoleSpec == ConsoleInit /\ [][ConsoleNext]_consoleVars

-----------------------------------------------------------------------------
(* Safety. *)

IsEnd(e) == e.level \in {"complete", "error"}

\* The entry at k is the next one of its execution after that at j, or the last.
Follows(log, j, k) ==
    /\ j < k /\ log[j].by = log[k].by
    /\ \A m \in (j + 1)..(k - 1) : log[m].by # log[k].by
IsLast(log, k) == \A m \in (k + 1)..Len(log) : log[m].by # log[k].by

\* A start follows an end, and only a start does; the last entry of an execution is an
\* end just when it is not awaited.
Told(log, awaited) ==
    \A k \in 1..Len(log) : log[k].by # NoRun =>
        /\ \A j \in 1..Len(log) : Follows(log, j, k) => (log[k].level = "start" <=> IsEnd(log[j]))
        /\ IsLast(log, k) => (IsEnd(log[k]) <=> log[k].by \notin awaited)

\* The log tells every execution once: between two starts of one request there is
\* exactly one end, and the last start has none just as long as its answer is awaited,
\* whatever was stopped, cleared, started beside it or switched meanwhile.  Only an
\* execution that was under way when the log was cleared has an end without a start.
ExecutionsAreTold == Told(entries, inFlight \cup inCloud)

\* "Log the result of each step" (App.tsx 224): a local execution that ended well has
\* its own step results in the log, before its end.
StepsAreLogged ==
    \A k \in DOMAIN entries : entries[k].level = "complete" /\ entries[k].by \in Runs =>
        \E j \in 1..(k - 1) : entries[j] = Step(entries[k].by, entries[k].by)

=============================================================================
