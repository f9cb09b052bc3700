-------------------------- MODULE ExecutionProofs --------------------------
(***************************************************************************)
(* Proofs about Execution, for any number of requests and command sets.    *)
(***************************************************************************)
EXTENDS Execution, TLAPS

\* RunningIsShown alone is not inductive: that the timer spares an execution that
\* runs is TimerIsForEnded, and that the types tell null from a request.
ExecInv == ExecTypeOK /\ TimerIsForEnded /\ RunningIsShown

\* Nothing is shown, in flight or armed when the page opens.
LEMMA ExecInvInit == ExecInit => ExecInv
  <1> SUFFICES ASSUME ExecInit
               PROVE  ExecInv
    OBVIOUS
  <1>1. execution = NoExecution /\ inFlight = {} /\ armed = FALSE /\ loose = FALSE
    BY DEF ExecInit
  <1>2. execution.status \notin Ended
    BY <1>1 DEF NoExecution, Ended
  <1>3. TimerIsForEnded
    BY <1>1, <1>2, Zenon DEF TimerIsForEnded
  <1>4. ExecTypeOK
    BY <1>1, Zenon DEF ExecTypeOK
  <1> QED
    BY <1>1, <1>3, <1>4 DEF ExecInv, RunningIsShown

\* Whatever is shown next, the timer is set or cleared to fit it.
LEMMA SetExecutionFacts ==
    ASSUME NEW e \in Shown \cup {NoExecution}, ExecInv, SetExecution(e)
    PROVE  /\ execution' = e
           /\ armed' \in BOOLEAN
           /\ TimerIsForEnded'
  <1>1. execution' = e
    BY DEF SetExecution
  <1>2. CASE e.status = execution.status
    <2>1. armed' = armed
      BY <1>2, Zenon DEF SetExecution
    <2>2. armed \in BOOLEAN /\ (armed <=> e.status \in Ended)
      BY <1>2, Zenon DEF ExecInv, ExecTypeOK, TimerIsForEnded
    <2> QED
      BY <1>1, <2>1, <2>2, Zenon DEF TimerIsForEnded
  <1>3. CASE e.status # execution.status
    <2>1. armed' = (e.status \in Ended)
      BY <1>3, Zenon DEF SetExecution
    <2>2. armed' \in BOOLEAN
      BY <2>1
    <2>3. TimerIsForEnded'
      BY <1>1, <2>1, Zenon DEF TimerIsForEnded
    <2> QED
      BY <1>1, <2>2, <2>3
  <1> QED
    BY <1>1, <1>2, <1>3

\* What the fields of the shown execution are.
LEMMA ShownFacts ==
    /\ NoExecution.status = "none" /\ NoExecution \notin Shown
    /\ \A e \in Shown : e.status \in Ended \cup {"running"}
    /\ \A e \in Shown, status \in Ended :
        [e EXCEPT !.status = status] \in Shown /\ [e EXCEPT !.status = status].status = status
    /\ \A q \in Runs, i \in Ids : [run |-> q, of |-> i, status |-> "running"] \in Shown
    /\ "running" \notin Ended /\ "completed" \in Ended /\ "failed" \in Ended /\ "stopped" \in Ended
    /\ "none" \notin Ended
  BY NoRunAssumption DEF NoExecution, Shown, Ended

\* Every step of the hook preserves the invariant.
LEMMA ExecInvStep == ExecInv /\ [ExecNext]_execVars => ExecInv'
  <1> SUFFICES ASSUME ExecInv, [ExecNext]_execVars
               PROVE  ExecInv'
    OBVIOUS
  <1> USE DEF ExecInv
  <1>1. ASSUME NEW q \in Runs, NEW i \in Ids, ExecuteCommandSet(q, i)
        PROVE  ExecInv'
    <2> DEFINE e == [run |-> q, of |-> i, status |-> "running"]
    <2>1. e \in Shown /\ e.run = q /\ e.status = "running"
      BY ShownFacts
    <2>2. SetExecution(e) /\ ~IsRunning /\ inFlight' = inFlight \cup {q} /\ loose' = loose
      BY <1>1 DEF ExecuteCommandSet
    <2> HIDE DEF e
    <2>3. execution' = e /\ armed' \in BOOLEAN /\ TimerIsForEnded'
      BY <2>1, <2>2, SetExecutionFacts
    <2>4. ExecTypeOK'
      BY <2>1, <2>2, <2>3 DEF ExecTypeOK
    <2>5. ~loose => inFlight = {}
      BY <2>2 DEF RunningIsShown
    <2>6. RunningIsShown'
      BY <2>1, <2>2, <2>3, <2>5 DEF RunningIsShown, IsRunning
    <2> QED
      BY <2>3, <2>4, <2>6
  <1>2. ASSUME NEW q \in Runs, ExecutionAnswered(q)
        PROVE  ExecInv'
    <2>1. /\ q \in inFlight /\ inFlight' = inFlight \ {q}
          /\ loose' = (loose /\ inFlight' # {})
      BY <1>2 DEF ExecutionAnswered
    <2>2. RunningIsShown'
      BY <2>1 DEF RunningIsShown
    <2>3. execution' \in Shown \cup {NoExecution} /\ armed' \in BOOLEAN /\ TimerIsForEnded'
      <3>1. CASE UNCHANGED <<execution, armed>>
        BY <3>1 DEF ExecTypeOK, TimerIsForEnded
      <3>2. CASE execution # NoExecution /\ \E status \in {"completed", "failed"} :
                    SetExecution([execution EXCEPT !.status = status])
        <4>1. PICK status \in {"completed", "failed"} :
                SetExecution([execution EXCEPT !.status = status])
          BY <3>2
        <4>2. [execution EXCEPT !.status = status] \in Shown
          BY <3>2, ShownFacts DEF ExecTypeOK
        <4> QED
          BY <4>1, <4>2, SetExecutionFacts
      <3> QED
        BY <1>2, <3>1, <3>2 DEF ExecutionAnswered
    <2> QED
      BY <2>1, <2>2, <2>3 DEF ExecTypeOK
  <1>3. CASE StopExecution
    <2> DEFINE e == [execution EXCEPT !.status = "stopped"]
    <2>1. e \in Shown
      BY <1>3, ShownFacts DEF StopExecution, IsRunning, ExecTypeOK
    <2>2. execution' = e /\ armed' \in BOOLEAN /\ TimerIsForEnded'
      BY <1>3, <2>1, SetExecutionFacts DEF StopExecution
    <2> QED
      BY <1>3, <2>1, <2>2 DEF StopExecution, ExecTypeOK, RunningIsShown
  <1>4. CASE ClearExecution
    <2>1. execution' = NoExecution /\ armed' \in BOOLEAN /\ TimerIsForEnded'
      BY <1>4, SetExecutionFacts DEF ClearExecution
    <2> QED
      BY <1>4, <2>1 DEF ClearExecution, ExecTypeOK, RunningIsShown
  <1>5. CASE TimerFires
    <2>1. execution' = NoExecution /\ armed' \in BOOLEAN /\ TimerIsForEnded'
      BY <1>5, SetExecutionFacts DEF TimerFires
    <2>2. ~IsRunning
      BY <1>5, ShownFacts DEF TimerFires, TimerIsForEnded, IsRunning
    <2> QED
      BY <1>5, <2>1, <2>2 DEF TimerFires, ExecTypeOK, RunningIsShown
  <1>6. CASE UNCHANGED execVars
    BY <1>6 DEF execVars, ExecTypeOK, TimerIsForEnded, RunningIsShown, IsRunning
  <1> QED
    BY <1>1, <1>2, <1>3, <1>4, <1>5, <1>6 DEF ExecNext

\* While no request in flight was stopped or cleared, the page shows the one that
\* is in flight, running, and there is no other (useCommandSetExecution).
THEOREM RunningStaysShown == ExecSpec => []RunningIsShown
  <1>1. ExecInv => RunningIsShown
    BY DEF ExecInv
  <1> QED
    BY <1>1, ExecInvInit, ExecInvStep, PTL DEF ExecSpec
=============================================================================
