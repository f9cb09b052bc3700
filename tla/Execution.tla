----------------------------- MODULE Execution -----------------------------
(***************************************************************************)
(* The hook useCommandSetExecution of the front end                        *)
(* (frontend/src/hooks/useCommandSetExecution.ts): the one execution that  *)
(* the page shows, the requests to the local agent that run command sets,  *)
(* and the timer that removes a finished execution after five seconds.     *)
(*                                                                         *)
(* A request cannot be cancelled.  Stopping or clearing changes only what  *)
(* is shown, and the answer still comes: it is applied to whatever         *)
(* execution is shown by then.                                             *)
(***************************************************************************)
CONSTANTS Runs,     \* requests to execute that may be in flight at once
          Ids,      \* ids of command sets
          NoRun, NoId

ASSUME NoRunAssumption == NoRun \notin Runs

VARIABLES execution,  \* what the page shows: the request it began with, the set, the status
          inFlight,   \* the requests that have no answer yet
          armed,      \* the timer of the effect on execution?.status is running
          loose       \* history: a request in flight was stopped or cleared

execVars == <<execution, inFlight, armed, loose>>

NoExecution == [run |-> NoRun, of |-> NoId, status |-> "none"]
Ended == {"completed", "failed", "stopped"}
Shown == [run : Runs, of : Ids, status : Ended \cup {"running"}]

ExecTypeOK ==
    /\ execution \in Shown \cup {NoExecution}
    /\ inFlight \subseteq Runs
    /\ armed \in BOOLEAN /\ loose \in BOOLEAN

ExecInit ==
    /\ execution = NoExecution /\ inFlight = {}
    /\ armed = FALSE /\ loose = FALSE

IsRunning == execution.status = "running"

\* Mutant of SetExecution: the effect has no cleanup, and a timer once set fires.
SetExecutionKeepsTimer(e) ==
    /\ execution' = e
    /\ armed' = (armed \/ e.status \in Ended)

\* setExecution and the effect on the status: when it changes, the old timer is
\* cleared, and a new one is set if something is shown that does not run.
SetExecution(e) ==
    /\ execution' = e
    /\ armed' = IF e.status = execution.status THEN armed ELSE e.status \in Ended

\* Mutant of ExecuteCommandSet: without its first line.
ExecuteAgain(q, i) ==
    /\ q \notin inFlight
    /\ inFlight' = inFlight \cup {q}
    /\ SetExecution([run |-> q, of |-> i, status |-> "running"])
    /\ UNCHANGED loose

\* executeCommandSet up to its await.  While one runs it returns at once.
ExecuteCommandSet(q, i) ==
    /\ ~IsRunning /\ q \notin inFlight
    /\ inFlight' = inFlight \cup {q}
    /\ SetExecution([run |-> q, of |-> i, status |-> "running"])
    /\ UNCHANGED loose

\* Mutant of ExecutionAnswered: applied without the test for null.
AnswerRevives(q) ==
    /\ q \in inFlight
    /\ inFlight' = inFlight \ {q}
    /\ loose' = (loose /\ inFlight' # {})
    /\ \E status \in {"completed", "failed"} :
          SetExecution([execution EXCEPT !.status = status])

\* The answer, or the error, of a request.  It is applied to the previous state,
\* and dropped when that is null.
ExecutionAnswered(q) ==
    /\ q \in inFlight
    /\ inFlight' = inFlight \ {q}
    /\ loose' = (loose /\ inFlight' # {})
    /\ \/ execution = NoExecution /\ UNCHANGED <<execution, armed>>
       \/ /\ execution # NoExecution
          /\ \E status \in {"completed", "failed"} :
                SetExecution([execution EXCEPT !.status = status])

StopExecution ==
    /\ IsRunning
    /\ SetExecution([execution EXCEPT !.status = "stopped"])
    /\ loose' = (inFlight # {})
    /\ UNCHANGED inFlight

ClearExecution ==
    /\ SetExecution(NoExecution)
    /\ loose' = (inFlight # {})
    /\ UNCHANGED inFlight

TimerFires ==
    /\ armed
    /\ SetExecution(NoExecution)
    /\ UNCHANGED <<inFlight, loose>>

ExecNext ==
    \/ \E q \in Runs, i \in Ids : ExecuteCommandSet(q, i)
    \/ \E q \in Runs : ExecutionAnswered(q)
    \/ StopExecution \/ ClearExecution \/ TimerFires

ExecSpec == ExecInit /\ [][ExecNext]_execVars

-----------------------------------------------------------------------------
\* As long as no request in flight was stopped or cleared, at most one is in
\* flight, and the page shows it as running until its answer is there: neither
\* the timer of the execution before it nor a second click takes it away.
RunningIsShown ==
    ~loose => \A q \in inFlight : execution.run = q /\ IsRunning

\* The timer runs exactly while something is shown that has ended.
TimerIsForEnded == armed <=> execution.status \in Ended
=============================================================================
