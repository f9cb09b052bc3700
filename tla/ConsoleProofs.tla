--------------------------- MODULE ConsoleProofs ----------------------------
(***************************************************************************)
(* Proofs about ConsoleLog, for any number of requests in flight, local or *)
(* to devices, and a log of any length.                                    *)
(***************************************************************************)
EXTENDS ConsoleLog, ExecutionProofs

-----------------------------------------------------------------------------
(* The log. *)

\* What is logged becomes the last entry.
LEMMA Appended ==
    ASSUME NEW log \in Seq(Entry), NEW e \in Entry
    PROVE  /\ Append(log, e) \in Seq(Entry) /\ Len(log) \in Nat
           /\ Len(Append(log, e)) = Len(log) + 1
           /\ Append(log, e)[Len(log) + 1] = e
           /\ \A k \in 1..Len(log) : Append(log, e)[k] = log[k] /\ log[k] \in Entry
           /\ log \o <<e>> = Append(log, e)
  OBVIOUS

\* Two entries are logged one after the other.
LEMMA AppendedTwo ==
    ASSUME NEW log \in Seq(Entry), NEW d \in Entry, NEW e \in Entry
    PROVE  /\ log \o <<d, e>> = Append(Append(log, d), e)
           /\ (log \o <<d>>) \o <<e>> = Append(Append(log, d), e)
           /\ (log \o <<>>) \o <<e>> = Append(log, e)
  OBVIOUS

\* The log goes on telling what it tells when a start is logged of what is not awaited,
\* or a step or an end of what is.
LEMMA TellNext ==
    ASSUME NEW log \in Seq(Entry), NEW awaited, Told(log, awaited),
           NEW e \in Entry, e.by # NoRun, e.level = "start" <=> e.by \notin awaited
    PROVE  Told(Append(log, e), IF IsEnd(e) THEN awaited \ {e.by} ELSE awaited \cup {e.by})
  <1> DEFINE n == Len(log)
             new == Append(log, e)
             next == IF IsEnd(e) THEN awaited \ {e.by} ELSE awaited \cup {e.by}
  <1>1. /\ n \in Nat /\ Len(new) = n + 1 /\ new[n + 1] = e
        /\ \A k \in 1..n : new[k] = log[k] /\ log[k] \in Entry
    BY Appended
  <1> HIDE DEF new, n
  <1>2. IsEnd(e) <=> e.by \notin next
    OBVIOUS
  <1>3. \A q : q # e.by => (q \in next <=> q \in awaited)
    OBVIOUS
  <1> HIDE DEF next
  <1> SUFFICES ASSUME NEW k \in 1..(n + 1), new[k].by # NoRun
               PROVE  /\ \A j \in 1..(n + 1) :
                            Follows(new, j, k) => (new[k].level = "start" <=> IsEnd(new[j]))
                      /\ IsLast(new, k) => (IsEnd(new[k]) <=> new[k].by \notin next)
    BY <1>1 DEF Told, new, next
  <1>4. CASE k = n + 1
    <2>1. ASSUME NEW j \in 1..(n + 1), Follows(new, j, k)
          PROVE  e.level = "start" <=> IsEnd(new[j])
      <3>1. j \in 1..n /\ new[j] = log[j] /\ log[j].by = e.by
        BY <1>1, <1>4, <2>1 DEF Follows
      <3>2. IsLast(log, j)
        BY <1>1, <1>4, <2>1, <3>1 DEF Follows, IsLast, n
      <3>3. IsEnd(log[j]) <=> e.by \notin awaited
        BY <3>1, <3>2 DEF Told, n
      <3> QED
        BY <3>1, <3>3
    <2> QED
      BY <1>1, <1>2, <1>4, <2>1
  <1>5. CASE k \in 1..n
    <2>1. new[k] = log[k] /\ log[k].by # NoRun
      BY <1>1, <1>5
    <2>2. ASSUME NEW j \in 1..(n + 1), Follows(new, j, k)
          PROVE  log[k].level = "start" <=> IsEnd(new[j])
      <3>1. j \in 1..n /\ new[j] = log[j]
        BY <1>1, <1>5, <2>2 DEF Follows
      <3>2. Follows(log, j, k)
        BY <1>1, <1>5, <2>2, <3>1 DEF Follows
      <3> QED
        BY <1>5, <2>1, <3>1, <3>2 DEF Told, n
    <2>3. ASSUME IsLast(new, k)
          PROVE  IsEnd(log[k]) <=> log[k].by \notin next
      <3>1. log[k].by # e.by
        BY <1>1, <1>5, <2>1, <2>3 DEF IsLast
      <3>2. IsLast(log, k)
        BY <1>1, <1>5, <2>1, <2>3 DEF IsLast, n
      <3>3. IsEnd(log[k]) <=> log[k].by \notin awaited
        BY <1>5, <2>1, <3>2 DEF Told, n
      <3> QED
        BY <1>3, <3>1, <3>3
    <2> QED
      BY <2>1, <2>2, <2>3
  <1> QED
    BY <1>1, <1>4, <1>5

\* What is logged of no execution changes nothing.
LEMMA TellOther ==
    ASSUME NEW log \in Seq(Entry), NEW awaited, Told(log, awaited), NEW e \in Entry, e.by = NoRun
    PROVE  Told(Append(log, e), awaited)
  <1> DEFINE n == Len(log)
             new == Append(log, e)
  <1>1. /\ n \in Nat /\ Len(new) = n + 1 /\ new[n + 1] = e
        /\ \A k \in 1..n : new[k] = log[k]
    BY Appended
  <1> HIDE DEF new, n
  <1> SUFFICES ASSUME NEW k \in 1..(n + 1), new[k].by # NoRun
               PROVE  /\ \A j \in 1..(n + 1) :
                            Follows(new, j, k) => (new[k].level = "start" <=> IsEnd(new[j]))
                      /\ IsLast(new, k) => (IsEnd(new[k]) <=> new[k].by \notin awaited)
    BY <1>1 DEF Told, new
  <1>2. k \in 1..n /\ new[k] = log[k] /\ log[k].by # NoRun
    BY <1>1
  <1>3. ASSUME NEW j \in 1..(n + 1), Follows(new, j, k)
        PROVE  log[k].level = "start" <=> IsEnd(new[j])
    <2>1. j \in 1..n /\ new[j] = log[j]
      BY <1>1, <1>2, <1>3 DEF Follows
    <2>2. Follows(log, j, k)
      BY <1>1, <1>2, <1>3, <2>1 DEF Follows
    <2> QED
      BY <1>2, <2>1, <2>2 DEF Told, n
  <1>4. ASSUME IsLast(new, k)
        PROVE  IsEnd(log[k]) <=> log[k].by \notin awaited
    <2>1. IsLast(log, k)
      BY <1>1, <1>2, <1>4 DEF IsLast, n
    <2> QED
      BY <1>2, <2>1 DEF Told, n
  <1> QED
    BY <1>2, <1>3, <1>4

\* An empty log tells all.
LEMMA TellNothing == LET none == <<>> IN none \in Seq(Entry) /\ \A awaited : Told(none, awaited)
  BY DEF Told

-----------------------------------------------------------------------------
(* The invariant: what is logged fits what is awaited by the hook and of the devices. *)

Awaited == inFlight \cup inCloud
ConsoleInv == ConsoleTypeOK /\ ExecInv /\ ExecutionsAreTold

LEMMA ConsoleInitInv == ConsoleInit => ConsoleInv
  BY ExecInvInit, TellNothing DEF ConsoleInit, ConsoleInv, ConsoleTypeOK, ExecInv, ExecutionsAreTold

\* What the console does to the execution is a step of the hook.
LEMMA ConsoleHook == ConsoleTypeOK /\ [ConsoleNext]_consoleVars => [ExecNext]_execVars
  BY DEF ConsoleNext, consoleVars, ExecuteLocally, ExecuteRefused, LocalAnswered, ExecuteOnDevice,
     DeviceAnswered, StopShown, ClearShown, ShownExpires, ClearLog, ToggleConsole, ExecNext

\* The rest of the types.
LogTypes ==
    /\ cloudMode \in BOOLEAN
    /\ entries \in Seq(Entry)
    /\ stepsOf \in Runs \cup {NoRun}
    /\ seen \in [Runs -> Runs \cup {NoRun}]
    /\ inCloud \subseteq CloudRuns

\* What is logged are entries.
LEMMA EntryFacts ==
    ASSUME NEW q \in AnyRun \cup {NoRun}, NEW level \in {"start", "step", "complete", "error"},
           NEW of \in AnyRun \cup {NoRun}
    PROVE  /\ Logged(level, q) \in Entry /\ Step(q, of) \in Entry
           /\ Logged(level, q).level = level /\ Logged(level, q).by = q
           /\ Step(q, of).level = "step" /\ Step(q, of).by = q
           /\ IsEnd(Logged(level, q)) <=> level \in {"complete", "error"}
           /\ ~IsEnd(Step(q, of))
  BY DEF Logged, Step, Entry, IsEnd

\* A start is logged of a request that becomes awaited.
LEMMA StartTold ==
    ASSUME NEW log \in Seq(Entry), NEW awaited, Told(log, awaited), NEW q \in AnyRun, q \notin awaited
    PROVE  /\ Append(log, Logged("start", q)) \in Seq(Entry)
           /\ Told(Append(log, Logged("start", q)), awaited \cup {q})
  <1>1. /\ Logged("start", q) \in Entry /\ Logged("start", q).by = q
        /\ Logged("start", q).level = "start" /\ ~IsEnd(Logged("start", q)) /\ q # NoRun
    BY EntryFacts, NoRunAssumption, CloudRunsAssumption DEF AnyRun
  <1> DEFINE e == Logged("start", q)
  <1> HIDE DEF e
  <1>2. Told(Append(log, e), IF IsEnd(e) THEN awaited \ {e.by} ELSE awaited \cup {e.by})
    BY <1>1, TellNext DEF e
  <1> QED
    BY <1>1, <1>2, Appended DEF e

\* An end is logged of a request that is no longer awaited.
LEMMA EndTold ==
    ASSUME NEW log \in Seq(Entry), NEW awaited, Told(log, awaited), NEW q \in AnyRun, q \in awaited,
           NEW level \in {"complete", "error"}
    PROVE  /\ Append(log, Logged(level, q)) \in Seq(Entry)
           /\ Told(Append(log, Logged(level, q)), awaited \ {q})
  <1>1. /\ Logged(level, q) \in Entry /\ Logged(level, q).by = q
        /\ Logged(level, q).level # "start" /\ IsEnd(Logged(level, q)) /\ q # NoRun
    BY EntryFacts, NoRunAssumption, CloudRunsAssumption DEF AnyRun
  <1> DEFINE e == Logged(level, q)
  <1> HIDE DEF e
  <1>2. Told(Append(log, e), IF IsEnd(e) THEN awaited \ {e.by} ELSE awaited \cup {e.by})
    BY <1>1, TellNext DEF e
  <1> QED
    BY <1>1, <1>2, Appended DEF e

\* A step is logged of a request that is awaited.
LEMMA StepTold ==
    ASSUME NEW log \in Seq(Entry), NEW awaited, Told(log, awaited), NEW q \in AnyRun, q \in awaited,
           NEW of \in AnyRun
    PROVE  /\ Append(log, Step(q, of)) \in Seq(Entry)
           /\ Told(Append(log, Step(q, of)), awaited)
  <1>1. /\ Step(q, of) \in Entry /\ Step(q, of).by = q
        /\ Step(q, of).level # "start" /\ ~IsEnd(Step(q, of)) /\ q # NoRun
    BY EntryFacts, NoRunAssumption, CloudRunsAssumption DEF AnyRun
  <1> DEFINE e == Step(q, of)
  <1> HIDE DEF e
  <1>2. Told(Append(log, e), IF IsEnd(e) THEN awaited \ {e.by} ELSE awaited \cup {e.by})
    BY <1>1, TellNext DEF e
  <1>3. awaited \cup {q} = awaited
    OBVIOUS
  <1> QED
    BY <1>1, <1>2, <1>3, Appended DEF e

-----------------------------------------------------------------------------
(* The steps. *)

\* A click in local mode, and one on a device.
LEMMA StartStep ==
    ASSUME ConsoleInv, NEW q \in AnyRun, q \notin Awaited, Awaited' = Awaited \cup {q},
           entries' = Append(entries, Logged("start", q))
    PROVE  entries' \in Seq(Entry) /\ ExecutionsAreTold'
  BY StartTold DEF ConsoleInv, ConsoleTypeOK, ExecutionsAreTold, Awaited

\* An answer, with the steps it logs or without.
LEMMA EndStep ==
    ASSUME ConsoleInv, NEW q \in AnyRun, q \in Awaited, Awaited' = Awaited \ {q},
           NEW level \in {"complete", "error"}, NEW of \in AnyRun,
           \/ entries' = Append(entries, Logged(level, q))
           \/ entries' = Append(Append(entries, Step(q, of)), Logged(level, q))
    PROVE  entries' \in Seq(Entry) /\ ExecutionsAreTold'
  <1>1. entries \in Seq(Entry) /\ Told(entries, Awaited)
    BY DEF ConsoleInv, ConsoleTypeOK, ExecutionsAreTold, Awaited
  <1>2. CASE entries' = Append(entries, Logged(level, q))
    BY <1>1, <1>2, EndTold DEF ExecutionsAreTold, Awaited
  <1>3. CASE entries' = Append(Append(entries, Step(q, of)), Logged(level, q))
    <2> DEFINE log == Append(entries, Step(q, of))
    <2>1. log \in Seq(Entry) /\ Told(log, Awaited)
      BY <1>1, StepTold
    <2>2. entries' = Append(log, Logged(level, q))
      BY <1>3
    <2> HIDE DEF log
    <2>3. entries' \in Seq(Entry) /\ Told(entries', Awaited \ {q})
      BY <2>1, <2>2, EndTold
    <2> QED
      BY <2>3 DEF ExecutionsAreTold, Awaited
  <1> QED
    BY <1>2, <1>3

\* Every step of the console keeps the types of the log, and what it tells.
LEMMA LogStep ==
    ASSUME ConsoleInv, [ConsoleNext]_consoleVars PROVE LogTypes' /\ ExecutionsAreTold'
  <1>1. LogTypes /\ inFlight \subseteq Runs /\ entries \in Seq(Entry) /\ Told(entries, Awaited)
    BY DEF ConsoleInv, ConsoleTypeOK, ExecTypeOK, LogTypes, ExecutionsAreTold, Awaited
  <1>2. \A q \in Runs : q \in Awaited <=> q \in inFlight
    BY <1>1, CloudRunsAssumption DEF LogTypes, Awaited
  <1>3. \A q \in CloudRuns : q \in Awaited <=> q \in inCloud
    BY <1>1, CloudRunsAssumption DEF LogTypes, Awaited
  <1>4. Runs \subseteq AnyRun /\ CloudRuns \subseteq AnyRun
    BY DEF AnyRun
  <1>5. ASSUME NEW q \in Runs, NEW i \in Ids, ExecuteLocally(q, i)
        PROVE  LogTypes' /\ ExecutionsAreTold'
    <2>1. /\ q \notin inFlight /\ inFlight' = inFlight \cup {q} /\ inCloud' = inCloud
          /\ entries' = Append(entries, Logged("start", q))
          /\ cloudMode' = cloudMode /\ stepsOf' = NoRun /\ seen' = [seen EXCEPT ![q] = stepsOf]
      BY <1>5 DEF ExecuteLocally, ExecuteCommandSet
    <2>2. q \notin Awaited /\ Awaited' = Awaited \cup {q}
      BY <1>2, <2>1 DEF Awaited
    <2>3. entries' \in Seq(Entry) /\ ExecutionsAreTold'
      BY <1>4, <2>1, <2>2, StartStep
    <2> QED
      BY <1>1, <2>1, <2>3 DEF LogTypes
  <1>6. ASSUME NEW q \in Runs, LocalAnswered(q)
        PROVE  LogTypes' /\ ExecutionsAreTold'
    <2>1. PICK success \in BOOLEAN, sent \in BOOLEAN :
            /\ stepsOf' = IF execution' # NoExecution /\ sent THEN q ELSE stepsOf
            /\ entries' = entries
                  \o (IF seen[q] = NoRun THEN <<>> ELSE <<Step(q, seen[q])>>)
                  \o <<Logged(IF success THEN "complete" ELSE "error", q)>>
      BY <1>6 DEF LocalAnswered
    <2>2. /\ q \in inFlight /\ inFlight' = inFlight \ {q} /\ UNCHANGED <<cloudMode, seen, inCloud>>
      BY <1>6 DEF LocalAnswered, ExecutionAnswered
    <2>3. q \in Awaited /\ Awaited' = Awaited \ {q}
      BY <1>1, <1>2, <1>3, <2>2, CloudRunsAssumption DEF Awaited, LogTypes
    <2> DEFINE level == IF success THEN "complete" ELSE "error"
    <2>4. level \in {"complete", "error"} /\ Logged(level, q) \in Entry
      BY <1>4, EntryFacts
    <2>5. CASE seen[q] = NoRun
      <3>1. entries' = (entries \o <<>>) \o <<Logged(level, q)>>
        BY <2>1, <2>5
      <3> HIDE DEF level
      <3>2. entries' = Append(entries, Logged(level, q))
        BY <1>1, <2>4, <3>1, AppendedTwo
      <3>3. entries' \in Seq(Entry) /\ ExecutionsAreTold'
        BY <1>4, <2>3, <2>4, <3>2, EndStep
      <3> QED
        BY <1>1, <2>1, <2>2, <3>3 DEF LogTypes
    <2>6. CASE seen[q] # NoRun
      <3>1. entries' = (entries \o <<Step(q, seen[q])>>) \o <<Logged(level, q)>>
        BY <2>1, <2>6
      <3>2. seen[q] \in AnyRun /\ Step(q, seen[q]) \in Entry
        BY <1>1, <1>4, <2>6, EntryFacts DEF LogTypes
      <3> HIDE DEF level
      <3>3. entries' = Append(Append(entries, Step(q, seen[q])), Logged(level, q))
        BY <1>1, <2>4, <3>1, <3>2, AppendedTwo
      <3>4. entries' \in Seq(Entry) /\ ExecutionsAreTold'
        BY <1>4, <2>3, <2>4, <3>2, <3>3, EndStep
      <3> QED
        BY <1>1, <2>1, <2>2, <3>4 DEF LogTypes
    <2> QED
      BY <2>5, <2>6
  <1>7. ASSUME NEW q \in CloudRuns, ExecuteOnDevice(q)
        PROVE  LogTypes' /\ ExecutionsAreTold'
    <2>1. /\ q \notin inCloud /\ inCloud' = inCloud \cup {q} /\ inFlight' = inFlight
          /\ entries' = Append(entries, Logged("start", q)) /\ UNCHANGED <<cloudMode, stepsOf, seen>>
      BY <1>7 DEF ExecuteOnDevice, execVars
    <2>2. q \notin Awaited /\ Awaited' = Awaited \cup {q}
      BY <1>3, <2>1 DEF Awaited
    <2>3. entries' \in Seq(Entry) /\ ExecutionsAreTold'
      BY <1>4, <2>1, <2>2, StartStep
    <2> QED
      BY <1>1, <2>1, <2>3 DEF LogTypes
  <1>8. ASSUME NEW q \in CloudRuns, DeviceAnswered(q)
        PROVE  LogTypes' /\ ExecutionsAreTold'
    <2>1. /\ q \in inCloud /\ inCloud' = inCloud \ {q} /\ inFlight' = inFlight
          /\ UNCHANGED <<cloudMode, stepsOf, seen>>
      BY <1>8 DEF DeviceAnswered, execVars
    <2>2. q \in Awaited /\ Awaited' = Awaited \ {q}
      BY <1>1, <1>2, <1>3, <2>1, CloudRunsAssumption DEF Awaited
    <2>3. CASE entries' = Append(entries, Logged("error", q))
      BY <1>1, <1>4, <2>1, <2>2, <2>3, EndStep DEF LogTypes
    <2>4. ASSUME NEW level \in {"complete", "error"}, NEW steps \in {<<>>, <<Step(q, q)>>},
                 entries' = Append(entries \o steps, Logged(level, q))
          PROVE  LogTypes' /\ ExecutionsAreTold'
      <3>1. Step(q, q) \in Entry
        BY <1>4, EntryFacts
      <3>2. entries \o steps \in {entries, Append(entries, Step(q, q))}
        <4> DEFINE e == Step(q, q)
        <4> HIDE DEF e
        <4>1. entries \o <<>> = entries /\ entries \o <<e>> = Append(entries, e)
          BY <1>1, <3>1 DEF e
        <4> QED
          BY <4>1 DEF e
      <3>3. entries' \in Seq(Entry) /\ ExecutionsAreTold'
        BY <1>4, <2>2, <2>4, <3>2, EndStep
      <3> QED
        BY <1>1, <2>1, <3>3 DEF LogTypes
    <2> QED
      BY <1>8, <2>3, <2>4 DEF DeviceAnswered
  <1>9. CASE ExecuteRefused
    <2>1. /\ entries' = entries \o <<Logged("start", NoRun), Logged("error", NoRun)>>
          /\ UNCHANGED <<inFlight, inCloud, cloudMode, stepsOf, seen>>
      BY <1>9 DEF ExecuteRefused, execVars
    <2> DEFINE d == Logged("start", NoRun)
               e == Logged("error", NoRun)
    <2>2. d \in Entry /\ d.by = NoRun /\ e \in Entry /\ e.by = NoRun
      BY EntryFacts
    <2>3. entries' = entries \o <<d, e>>
      BY <2>1
    <2> HIDE DEF d, e
    <2>4. entries' = Append(Append(entries, d), e)
      BY <1>1, <2>2, <2>3, AppendedTwo
    <2>5. Append(entries, d) \in Seq(Entry) /\ Told(Append(entries, d), Awaited)
      BY <1>1, <2>2, Appended, TellOther
    <2>6. entries' \in Seq(Entry) /\ Told(entries', Awaited)
      BY <2>2, <2>4, <2>5, Appended, TellOther
    <2> QED
      BY <1>1, <2>1, <2>6 DEF LogTypes, ExecutionsAreTold, Awaited
  <1>10. CASE StopShown \/ ClearShown \/ ShownExpires
    <2>1. /\ stepsOf' \in {stepsOf, NoRun}
          /\ UNCHANGED <<inFlight, cloudMode, entries, seen, inCloud>>
      BY <1>10 DEF StopShown, ClearShown, ShownExpires, StopExecution, ClearExecution, TimerFires
    <2> QED
      BY <1>1, <2>1 DEF LogTypes, ExecutionsAreTold, Awaited
  <1>11. CASE ClearLog \/ ToggleConsole
    <2>1. /\ entries' = <<>> /\ stepsOf' \in {stepsOf, NoRun} /\ UNCHANGED <<seen, inCloud>>
          /\ cloudMode' \in {cloudMode, ~cloudMode}
      BY <1>11 DEF ClearLog, ToggleConsole
    <2>2. entries' \in Seq(Entry) /\ ExecutionsAreTold'
      BY <2>1, TellNothing DEF ExecutionsAreTold
    <2>3. cloudMode' \in BOOLEAN
      BY <1>1, <2>1 DEF LogTypes
    <2> QED
      BY <1>1, <2>1, <2>2, <2>3 DEF LogTypes
  <1>12. CASE UNCHANGED consoleVars
    BY <1>1, <1>12 DEF consoleVars, execVars, LogTypes, ExecutionsAreTold, Awaited
  <1> QED
    BY <1>5, <1>6, <1>7, <1>8, <1>9, <1>10, <1>11, <1>12 DEF ConsoleNext

\* Every step of the console keeps the invariant.
LEMMA ConsoleStepInv == ConsoleInv /\ [ConsoleNext]_consoleVars => ConsoleInv'
  <1> SUFFICES ASSUME ConsoleInv, [ConsoleNext]_consoleVars PROVE ConsoleInv'
    OBVIOUS
  <1>1. ExecInv'
    BY ConsoleHook, ExecInvStep DEF ConsoleInv
  <1>2. LogTypes' /\ ExecutionsAreTold'
    BY LogStep
  <1> QED
    BY <1>1, <1>2 DEF ConsoleInv, ConsoleTypeOK, ExecInv, LogTypes

-----------------------------------------------------------------------------
(* Theorems. *)

\* The console has the execution that the hook has: its steps are the hook's, or leave it
\* alone (App.tsx 215-252, useCommandSetExecution.ts).
THEOREM ConsoleExecutes == ConsoleSpec => ExecSpec
  <1>1. ConsoleInit => ConsoleInv /\ ExecInit
    BY ConsoleInitInv DEF ConsoleInit
  <1>2. ConsoleInv => ConsoleTypeOK
    BY DEF ConsoleInv
  <1> QED
    BY <1>1, <1>2, ConsoleStepInv, ConsoleHook, PTL DEF ConsoleSpec, ExecSpec

\* The log, and what the closures of its handler have seen, keep their types.
THEOREM ConsoleTypeCorrect == ConsoleSpec => []ConsoleTypeOK
  <1>1. ConsoleInv => ConsoleTypeOK
    BY DEF ConsoleInv
  <1> QED
    BY <1>1, ConsoleInitInv, ConsoleStepInv, PTL DEF ConsoleSpec

\* The log tells every execution once, start to end, whatever is stopped, cleared, refused,
\* run beside it or switched meanwhile (App.tsx 215-301): with any number of requests.
THEOREM ExecutionsToldOnce == ConsoleSpec => []ExecutionsAreTold
  <1>1. ConsoleInv => ExecutionsAreTold
    BY DEF ConsoleInv
  <1> QED
    BY <1>1, ConsoleInitInv, ConsoleStepInv, PTL DEF ConsoleSpec
=============================================================================
