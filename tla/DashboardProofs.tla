-------------------------- MODULE DashboardProofs --------------------------
(***************************************************************************)
(* Proofs about Dashboard, for any devices, ids, contents and requests.    *)
(***************************************************************************)
EXTENDS Dashboard, ExecutionProofs

-----------------------------------------------------------------------------
(* Types. *)

CallsOK == calls \in [Calls -> Call] /\ \A c \in Calls : CallOK(calls[c])

\* The rest of TypeOK that a step of the list can change.
PageOK ==
    /\ mode \in {"local", "cloud"}
    /\ selected \in Devices \cup {NoDevice}
    /\ devices \subseteq Devices
    /\ commandSets \subseteq Entry
    /\ loading \in BOOLEAN /\ reload \in BOOLEAN /\ mixed \in BOOLEAN
    /\ monitor \in [held : Intervals \cup {NoInterval}, live : SUBSET Intervals]
    /\ local \in [Ids -> Contents \cup {NoSet}]
    /\ solo \in Calls \cup {NoCall}

\* TypeOK is its three parts.
LEMMA TypeParts == TypeOK <=> ExecTypeOK /\ PageOK /\ CallsOK
  BY DEF TypeOK, PageOK, CallsOK

\* What the records of requests hold.
LEMMA CallFacts ==
    ASSUME NEW kind \in {"free", "load", "devices", "deviceSets"} \cup Writes,
           NEW d \in Devices \cup {NoDevice}, NEW item \in Entry \cup {NoEntry}
    PROVE  /\ NewCall(kind, d, item) \in Call
           /\ NewCall(kind, d, item).kind = kind
           /\ NewCall(kind, d, item).dev = d
           /\ NewCall(kind, d, item).item = item
           /\ NewCall(kind, d, item).phase = "sent"
  BY DEF NewCall, Call

\* One request changes.
LEMMA CallsChange ==
    ASSUME CallsOK, NEW c \in Calls, NEW r \in Call, CallOK(r), calls' = [calls EXCEPT ![c] = r]
    PROVE  CallsOK'
  BY DEF CallsOK, CallOK

\* A request is issued, or over.
LEMMA IssueType ==
    ASSUME CallsOK, NEW c \in Calls, NEW kind \in {"load", "devices", "deviceSets"} \cup Writes,
           NEW d \in Devices \cup {NoDevice}, NEW item \in Entry \cup {NoEntry},
           kind \in Writes => item \in Entry, kind = "deviceSets" => d \in Devices,
           Issue(c, NewCall(kind, d, item))
    PROVE  CallsOK'
  <1>1. calls' = [calls EXCEPT ![c] = NewCall(kind, d, item)]
    BY DEF Issue
  <1>2. NewCall(kind, d, item) \in Call /\ CallOK(NewCall(kind, d, item))
    BY CallFacts DEF CallOK
  <1> QED
    BY <1>1, <1>2, CallsChange

\* A request is over.
LEMMA CloseType == ASSUME CallsOK, NEW c \in Calls, Close(c) PROVE CallsOK'
  <1>1. Free \in Call /\ Free.kind = "free" /\ "free" \notin Writes
    BY CallFacts DEF Free, Writes
  <1> QED
    BY <1>1, CallsChange DEF Close, CallOK

\* What the agent or a device lists are entries.
LEMMA ListingType ==
    ASSUME PageOK, NEW from \in Devices \cup {"local"}
    PROVE  Listing(from) \subseteq Entry /\ Store(from) \in [Ids -> Contents \cup {NoSet}]
  <1>1. Store(from) \in [Ids -> Contents \cup {NoSet}]
    BY SetsAssumption DEF Store, PageOK
  <1> QED
    BY <1>1 DEF Listing, Entry

\* Creations, updates and deletions make entries of entries.
LEMMA ChangedType ==
    ASSUME NEW list \in SUBSET Entry, NEW kind \in Writes, NEW item \in Entry
    PROVE  Changed(list, kind, item) \subseteq Entry
  <1>1. \A x \in Entry : [item EXCEPT !.how = x.how] \in Entry
    BY DEF Entry
  <1> QED
    BY <1>1 DEF Changed, Writes

\* The monitor has, and holds, intervals.
LEMMA MonitorType ==
    ASSUME NEW m \in [held : Intervals \cup {NoInterval}, live : SUBSET Intervals],
           m.live \subseteq {m.held}
    PROVE  /\ MonitorCloud(m) = NoMonitor
           /\ MonitorLocal(m) \in [held : Intervals, live : SUBSET Intervals]
           /\ MonitorLocal(m).live = {MonitorLocal(m).held}
  <1> DEFINE t == CHOOSE i \in Intervals : i \notin {}
  <1>1. t \in Intervals
    BY IntervalsAssumption
  <1>2. \A n \in [held : Intervals \cup {NoInterval}, live : SUBSET Intervals] :
            n.live \subseteq {n.held} =>
                /\ StopMonitoring(n) = NoMonitor
                /\ StartMonitoring(n) = [held |-> t, live |-> {t}]
    <2> SUFFICES ASSUME NEW n \in [held : Intervals \cup {NoInterval}, live : SUBSET Intervals],
                        n.live \subseteq {n.held}
                 PROVE  /\ StopMonitoring(n) = NoMonitor
                        /\ StartMonitoring(n) = [held |-> t, live |-> {t}]
      OBVIOUS
    <2>1. n.live \ {n.held} = {}
      OBVIOUS
    <2> QED
      BY <2>1 DEF StopMonitoring, StartMonitoring, NoMonitor
  <1>3. /\ NoMonitor \in [held : Intervals \cup {NoInterval}, live : SUBSET Intervals]
        /\ NoMonitor.live \subseteq {NoMonitor.held}
    BY DEF NoMonitor
  <1> DEFINE n == [held |-> t, live |-> {t}]
  <1>4. /\ n \in [held : Intervals \cup {NoInterval}, live : SUBSET Intervals]
        /\ n.held = t /\ n.live = {t}
    BY <1>1
  <1>5. StartMonitoring(m) = n /\ StopMonitoring(n) = NoMonitor /\ StartMonitoring(NoMonitor) = n
        /\ StopMonitoring(m) = NoMonitor /\ StopMonitoring(NoMonitor) = NoMonitor
    BY <1>2, <1>3, <1>4
  <1> HIDE DEF t, n
  <1> QED
    BY <1>1, <1>4, <1>5 DEF MonitorCloud, MonitorLocal

\* The bookkeeping of requests that overlap.
LEMMA TrackType ==
    ASSUME PageOK, NEW c \in Calls, NEW b, Track(c, b) \/ Untrack(c, b)
    PROVE  mixed' \in BOOLEAN /\ solo' \in Calls \cup {NoCall}
  <1>1. mixed' \in BOOLEAN
    BY Zenon DEF Track, Untrack, PageOK
  <1>2. solo' \in Calls \cup {NoCall}
    BY DEF Track, Untrack, PageOK
  <1> QED
    BY <1>1, <1>2

\* What one step of the page keeps: the types, the monitor; and what it does to the
\* execution is a step of the hook.
StepOK == PageOK' /\ CallsOK' /\ OneMonitor' /\ [ExecNext]_execVars

LEMMA PageStep == ASSUME TypeOK, OneMonitor, Next PROVE StepOK
  <1> USE TypeParts
  <1> USE DEF StepOK
  <1>1. ASSUME NEW c \in Calls, RefreshList(c)
        PROVE  StepOK
    <2>1. CallsOK'
      <3>1. CASE mode = "local"
        <4>1. Issue(c, NewCall("load", NoDevice, NoEntry))
          BY <1>1, <3>1 DEF RefreshList, LoadFromServer, LocalCall
        <4> QED
          BY <4>1, IssueType DEF Writes
      <3>2. CASE mode # "local"
        <4>1. Issue(c, NewCall("devices", selected, NoEntry))
          BY <1>1, <3>2 DEF RefreshList, CloudCall
        <4> QED
          BY <4>1, IssueType DEF Writes, PageOK
      <3> QED
        BY <3>1, <3>2
    <2>2. mixed' \in BOOLEAN /\ solo' \in Calls \cup {NoCall}
      <3>1. CASE Track(c, OnlyLoads) \/ Track(c, FALSE)
        BY <3>1, TrackType
      <3>2. CASE UNCHANGED <<mixed, solo>>
        BY <3>2 DEF PageOK
      <3> QED
        BY <1>1, <3>1, <3>2 DEF RefreshList
    <2>3. loading' \in BOOLEAN
      BY <1>1 DEF RefreshList, LoadFromServer, PageOK
    <2> QED
      BY <1>1, <2>1, <2>2, <2>3 DEF RefreshList, PageOK, OneMonitor
  <1>2. ASSUME NEW c \in Calls, ReloadFires(c)
        PROVE  StepOK
    <2>1. Issue(c, NewCall("load", NoDevice, NoEntry))
      BY <1>2 DEF ReloadFires, LoadFromServer, LocalCall
    <2>2. CallsOK'
      BY <2>1, IssueType DEF Writes
    <2>3. mixed' \in BOOLEAN /\ solo' \in Calls \cup {NoCall}
      BY <1>2, TrackType DEF ReloadFires
    <2> QED
      BY <1>2, <2>2, <2>3 DEF ReloadFires, LoadFromServer, PageOK, OneMonitor
  <1>3. ASSUME NEW c \in Calls, ToggleToCloud(c)
        PROVE  StepOK
    <2>1. Issue(c, NewCall("devices", NoDevice, NoEntry))
      BY <1>3 DEF ToggleToCloud, CloudCall
    <2>2. CallsOK'
      BY <2>1, IssueType DEF Writes
    <2>3. monitor' = NoMonitor
      BY <1>3, MonitorType DEF ToggleToCloud, PageOK, OneMonitor
    <2>4. mixed' \in BOOLEAN /\ solo' = NoCall
      BY <1>3, Zenon DEF ToggleToCloud, ClearPage
    <2>5. ExecNext
      BY <1>3 DEF ToggleToCloud, ClearPage, ExecNext
    <2> QED
      BY <1>3, <2>2, <2>3, <2>4, <2>5
         DEF ToggleToCloud, ClearPage, PageOK, OneMonitor, NoMonitor
  <1>4. ASSUME NEW c \in Calls, ToggleToLocal(c)
        PROVE  StepOK
    <2>1. Issue(c, NewCall("load", NoDevice, NoEntry))
      BY <1>4 DEF ToggleToLocal, LoadFromServer, LocalCall
    <2>2. CallsOK'
      BY <2>1, IssueType DEF Writes
    <2>3. /\ monitor' \in [held : Intervals, live : SUBSET Intervals]
          /\ monitor'.live = {monitor'.held}
      BY <1>4, MonitorType DEF ToggleToLocal, PageOK, OneMonitor
    <2>4. mixed' \in BOOLEAN /\ solo' = NoCall
      BY <1>4, Zenon DEF ToggleToLocal, ClearPage
    <2>5. ExecNext
      BY <1>4 DEF ToggleToLocal, ClearPage, ExecNext
    <2> QED
      BY <1>4, <2>2, <2>3, <2>4, <2>5
         DEF ToggleToLocal, LoadFromServer, ClearPage, PageOK, OneMonitor
  <1>5. ASSUME NEW c \in Calls, NEW d \in Devices, SelectDevice(c, d)
        PROVE  StepOK
    <2>1. Issue(c, NewCall("deviceSets", d, NoEntry))
      BY <1>5 DEF SelectDevice, CloudCall
    <2>2. CallsOK'
      BY <2>1, IssueType DEF Writes
    <2>3. mixed' \in BOOLEAN /\ solo' \in Calls \cup {NoCall}
      BY <1>5, TrackType DEF SelectDevice
    <2> QED
      BY <1>5, <2>2, <2>3 DEF SelectDevice, PageOK, OneMonitor
  <1>6. ASSUME NEW c \in Calls, NEW kind \in Writes, NEW item \in Entry, Write(c, kind, item)
        PROVE  StepOK
    <2>1. Issue(c, NewCall(kind, NoDevice, item))
      BY <1>6 DEF Write, LocalCall
    <2>2. CallsOK'
      BY <2>1, IssueType DEF Writes
    <2>3. mixed' \in BOOLEAN /\ solo' = NoCall
      BY <1>6, Zenon DEF Write
    <2> QED
      BY <1>6, <2>2, <2>3 DEF Write, PageOK, OneMonitor
  <1>7. ASSUME NEW c \in Calls, NEW b \in Contents, CreateCommandSet(c, b)
        PROVE  StepOK
    <2>1. PICK i \in Ids :
            Write(c, "create", [id |-> i, body |-> b, from |-> "local", how |-> "created"])
      BY <1>7 DEF CreateCommandSet
    <2>2. [id |-> i, body |-> b, from |-> "local", how |-> "created"] \in Entry
      BY DEF Entry
    <2> QED
      BY <1>6, <2>1, <2>2 DEF Writes
  <1>8. ASSUME NEW c \in Calls, NEW x \in commandSets, NEW b \in Contents, UpdateCommandSet(c, x, b)
        PROVE  StepOK
    <2>1. [x EXCEPT !.body = b] \in Entry
      BY DEF PageOK, Entry
    <2> QED
      BY <1>6, <1>8, <2>1 DEF UpdateCommandSet, Writes
  <1>9. ASSUME NEW c \in Calls, NEW x \in commandSets, DeleteCommandSet(c, x)
        PROVE  StepOK
    <2>1. x \in Entry
      BY DEF PageOK
    <2> QED
      BY <1>6, <1>9, <2>1 DEF DeleteCommandSet, Writes
  <1>10. ASSUME NEW c \in Calls, AgentAnswers(c)
         PROVE  StepOK
    <2>1. CASE calls[c].kind = "load" /\ UNCHANGED <<local, mixed>> /\ calls' =
                  [calls EXCEPT ![c].phase = "done", ![c].result = Listing("local")]
      <3>1. Listing("local") \subseteq Entry
        BY ListingType
      <3>2. CallsOK'
        <4> DEFINE r == [calls[c] EXCEPT !.phase = "done", !.result = Listing("local")]
        <4>1. r \in Call /\ r.kind = calls[c].kind
          BY <3>1 DEF CallsOK, Call
        <4>2. calls' = [calls EXCEPT ![c] = r]
          BY <2>1 DEF CallsOK
        <4> HIDE DEF r
        <4> QED
          BY <2>1, <4>1, <4>2, CallsChange DEF CallOK, Writes
      <3> QED
        BY <1>10, <2>1, <3>2 DEF AgentAnswers, PageOK, OneMonitor
    <2>2. ASSUME NEW p \in {"done", "failed"}, calls' = [calls EXCEPT ![c].phase = p]
          PROVE  CallsOK'
      BY <2>2 DEF CallsOK, Call, CallOK
    <2>3. CASE /\ calls[c].kind \in Writes
               /\ local' = Applied(calls[c].item, calls[c].kind)
               /\ \/ calls' = [calls EXCEPT ![c].phase = "done"] /\ UNCHANGED mixed
                  \/ calls' = [calls EXCEPT ![c].phase = "failed"] /\ mixed' = TRUE
      <3>1. calls[c].item \in Entry
        BY <2>3 DEF CallsOK, CallOK
      <3>2. local' \in [Ids -> Contents \cup {NoSet}]
        BY <2>3, <3>1 DEF Applied, PageOK, Entry
      <3>3. CallsOK' /\ mixed' \in BOOLEAN
        BY <2>2, <2>3 DEF PageOK
      <3> QED
        BY <1>10, <3>2, <3>3 DEF AgentAnswers, PageOK, OneMonitor
    <2>4. CASE calls' = [calls EXCEPT ![c].phase = "failed"] /\ UNCHANGED <<local, mixed>>
      BY <1>10, <2>2, <2>4 DEF AgentAnswers, PageOK, OneMonitor
    <2> QED
      BY <1>10, <2>1, <2>3, <2>4 DEF AgentAnswers
  <1>11. ASSUME NEW c \in Calls, LoadAnswered(c)
         PROVE  StepOK
    <2>1. CallsOK'
      BY <1>11, CloseType DEF LoadAnswered
    <2>2. mixed' \in BOOLEAN /\ solo' \in Calls \cup {NoCall}
      BY <1>11, TrackType DEF LoadAnswered
    <2>3. commandSets' \subseteq Entry
      BY <1>11 DEF LoadAnswered, PageOK, CallsOK, Call
    <2> QED
      BY <1>11, <2>1, <2>2, <2>3 DEF LoadAnswered, PageOK, OneMonitor
  <1>12. ASSUME NEW c \in Calls, WriteAnswered(c)
         PROVE  StepOK
    <2>1. CallsOK'
      BY <1>12, CloseType DEF WriteAnswered
    <2>2. mixed' \in BOOLEAN /\ solo' \in Calls \cup {NoCall}
      BY <1>12, TrackType DEF WriteAnswered
    <2>3. commandSets' \subseteq Entry
      <3>1. calls[c].kind \in Writes /\ calls[c].item \in Entry
        BY <1>12 DEF WriteAnswered, CallsOK, CallOK
      <3>2. Changed(commandSets, calls[c].kind, calls[c].item) \subseteq Entry
        BY <3>1, ChangedType DEF PageOK
      <3> QED
        BY <1>12, <3>2 DEF WriteAnswered, PageOK
    <2> QED
      BY <1>12, <2>1, <2>2, <2>3 DEF WriteAnswered, PageOK, OneMonitor
  <1>13. ASSUME NEW c \in Calls, DevicesAnswered(c)
         PROVE  StepOK
    <2>1. CASE Close(c) /\ Untrack(c, FALSE)
      <3>1. CallsOK' /\ mixed' \in BOOLEAN /\ solo' \in Calls \cup {NoCall}
        BY <2>1, CloseType, TrackType
      <3> QED
        BY <1>13, <3>1 DEF DevicesAnswered, PageOK, OneMonitor
    <2>2. CASE /\ calls[c].dev # NoDevice
               /\ calls' = [calls EXCEPT ![c] = CloudCall("deviceSets", @.dev)]
               /\ UNCHANGED <<mixed, solo>>
      <3>1. calls[c].dev \in Devices
        BY <2>2 DEF CallsOK, Call
      <3>2. /\ CloudCall("deviceSets", calls[c].dev) \in Call
            /\ CallOK(CloudCall("deviceSets", calls[c].dev))
        BY <3>1, CallFacts DEF CloudCall, CallOK, Writes
      <3>3. CallsOK'
        BY <2>2, <3>2, CallsChange
      <3> QED
        BY <1>13, <2>2, <3>3 DEF DevicesAnswered, PageOK, OneMonitor
    <2> QED
      BY <1>13, <2>1, <2>2 DEF DevicesAnswered
  <1>14. ASSUME NEW c \in Calls, DeviceSetsAnswered(c)
         PROVE  StepOK
    <2>1. CallsOK'
      BY <1>14, CloseType DEF DeviceSetsAnswered
    <2>2. mixed' \in BOOLEAN /\ solo' \in Calls \cup {NoCall}
      BY <1>14, TrackType DEF DeviceSetsAnswered
    <2>3. commandSets' \subseteq Entry
      <3>1. calls[c].dev \in Devices
        BY <1>14 DEF DeviceSetsAnswered, CallsOK, CallOK
      <3> QED
        BY <1>14, <3>1, ListingType DEF DeviceSetsAnswered
    <2> QED
      BY <1>14, <2>1, <2>2, <2>3 DEF DeviceSetsAnswered, PageOK, OneMonitor
  <1>15. ASSUME UNCHANGED listVars
         PROVE  PageOK' /\ CallsOK' /\ OneMonitor'
    BY <1>15 DEF listVars, PageOK, CallsOK, OneMonitor
  <1>16. ASSUME NEW q \in Runs, NEW x \in commandSets, Execute(q, x)
         PROVE  StepOK
    <2>1. x.id \in Ids
      BY DEF PageOK, Entry
    <2>2. ExecNext
      BY <1>16, <2>1 DEF Execute, ExecNext
    <2> QED
      BY <1>15, <1>16, <2>2 DEF Execute
  <1>17. CASE ExecutionStep
    BY <1>15, <1>17 DEF ExecutionStep, ExecNext
  <1>18. ASSUME NEW c \in Calls, RefreshDevices(c)
         PROVE  StepOK
    <2>1. Issue(c, NewCall("devices", NoDevice, NoEntry))
      BY <1>18 DEF RefreshDevices, CloudCall
    <2>2. CallsOK'
      BY <2>1, IssueType DEF Writes
    <2> QED
      BY <1>18, <2>2 DEF RefreshDevices, PageOK, OneMonitor
  <1> QED
    BY <1>1, <1>2, <1>3, <1>4, <1>5, <1>7, <1>8, <1>9, <1>10, <1>11, <1>12, <1>13, <1>14,
       <1>16, <1>17, <1>18 DEF Next

\* The page opens with one request, for the sets of the local agent.
LEMMA PageInit == Init => TypeOK /\ OneMonitor /\ ExecInv
  <1> SUFFICES ASSUME Init PROVE TypeOK /\ OneMonitor /\ ExecInv
    OBVIOUS
  <1>1. ExecInv
    BY ExecInvInit DEF Init
  <1>2. monitor \in [held : Intervals, live : SUBSET Intervals] /\ monitor.live = {monitor.held}
    <2>1. monitor = [held |-> CHOOSE i \in Intervals : i \notin {},
                     live |-> {CHOOSE i \in Intervals : i \notin {}}]
      BY DEF Init, StartMonitoring, NoMonitor
    <2>2. (CHOOSE i \in Intervals : i \notin {}) \in Intervals
      BY IntervalsAssumption
    <2> QED
      BY <2>1, <2>2
  <1>3. CallsOK /\ solo \in Calls
    <2>1. PICK c \in Calls : /\ calls = [[x \in Calls |-> Free] EXCEPT ![c] = LocalCall("load", NoEntry)]
                             /\ solo = c
      BY DEF Init
    <2>2. LocalCall("load", NoEntry) \in Call /\ LocalCall("load", NoEntry).kind = "load"
      BY CallFacts DEF LocalCall
    <2>3. Free \in Call /\ Free.kind = "free"
      BY CallFacts DEF Free
    <2>4. CallOK(Free) /\ CallOK(LocalCall("load", NoEntry))
      BY <2>2, <2>3 DEF CallOK, Writes
    <2>5. \A x \in Calls : calls[x] \in {Free, LocalCall("load", NoEntry)}
      BY <2>1
    <2>6. calls \in [Calls -> Call]
      BY <2>1, <2>2, <2>3
    <2> QED
      BY <2>1, <2>4, <2>5, <2>6 DEF CallsOK
  <1>4. PageOK
    BY <1>2, <1>3, SetsAssumption DEF Init, PageOK
  <1> QED
    BY <1>1, <1>2, <1>3, <1>4, TypeParts DEF ExecInv, OneMonitor, Init

-----------------------------------------------------------------------------
(* Theorems. *)

\* Types, the monitor and the execution hold together.
PageInv == TypeOK /\ OneMonitor /\ ExecInv

\* Every step of the page keeps them.
LEMMA PageInvStep == PageInv /\ [Next]_vars => PageInv' /\ [ExecNext]_execVars
  <1> SUFFICES ASSUME PageInv, [Next]_vars
               PROVE  PageInv' /\ [ExecNext]_execVars
    OBVIOUS
  <1>1. CASE Next
    <2>1. PageOK' /\ CallsOK' /\ OneMonitor' /\ [ExecNext]_execVars
      BY <1>1, PageStep DEF PageInv, StepOK
    <2>2. ExecInv'
      BY <2>1, ExecInvStep DEF PageInv
    <2>3. TypeOK'
      BY <2>1, <2>2 DEF ExecInv, TypeOK, PageOK, CallsOK
    <2> QED
      BY <2>1, <2>2, <2>3 DEF PageInv
  <1>2. CASE UNCHANGED vars
    <2>1. UNCHANGED execVars /\ UNCHANGED listVars
      BY <1>2 DEF vars
    <2>2. ExecInv'
      BY <2>1, ExecInvStep DEF PageInv
    <2>3. TypeOK' /\ OneMonitor'
      BY <2>1, <2>2 DEF PageInv, ExecInv, listVars, TypeOK, OneMonitor, CallOK
    <2> QED
      BY <2>1, <2>2, <2>3 DEF PageInv
  <1> QED
    BY <1>1, <1>2

\* The list, the requests, the stores and the execution always have their types:
\* an answer that finds nothing shown revives nothing.
THEOREM PageTypeCorrect == Spec => []TypeOK
  <1>1. Init => PageInv
    BY PageInit DEF PageInv
  <1>2. PageInv => TypeOK
    BY DEF PageInv
  <1> QED
    BY <1>1, <1>2, PageInvStep, PTL DEF Spec

\* However often the mode is toggled, no interval of the connection monitor is
\* left running that stopMonitoring could not clear.
THEOREM MonitorIsHeld == Spec => []OneMonitor
  <1>1. Init => PageInv
    BY PageInit DEF PageInv
  <1>2. PageInv => OneMonitor
    BY DEF PageInv
  <1> QED
    BY <1>1, <1>2, PageInvStep, PTL DEF Spec

\* The page implements the hook: its steps are the hook's, or leave it alone.
THEOREM PageExecutes == Spec => ExecSpec
  <1>1. Init => PageInv /\ ExecInit
    BY PageInit DEF PageInv, Init
  <1> QED
    BY <1>1, PageInvStep, PTL DEF Spec, ExecSpec

\* On the page, too, what runs unstopped is shown until its answer is there.
THEOREM PageShowsRunning == Spec => []RunningIsShown
  BY PageExecutes, RunningStaysShown, PTL
-----------------------------------------------------------------------------
(* ShownSetsAreReal.  Alone it is not inductive: it says nothing of a request *)
(* that is on its way.  The invariant says what may be on its way while       *)
(* nothing is mixed, and what a request that is alone will bring.             *)

\* A request that has been alone since it was issued asks for the list of the target:
\* nothing has changed the mode, the selected device or the agent's sets since.
SoloInv ==
    solo \in Calls =>
        /\ ListCalls = {solo} /\ ~reload
        /\ \/ /\ calls[solo].kind = "load" /\ mode = "local"
              /\ calls[solo].phase = "done" => calls[solo].result = Listing("local")
           \/ /\ calls[solo].kind \in {"devices", "deviceSets"} /\ mode = "cloud"
              /\ selected \in Devices /\ calls[solo].dev = selected

\* What may be in flight while nothing is mixed: loads of the local agent ...
LoadsOnly ==
    /\ mode = "local" /\ Real(commandSets, "local")
    /\ \A c \in ListCalls :
        /\ calls[c].kind = "load"
        /\ calls[c].phase = "done" => calls[c].result = Listing("local")

\* ... one change, not made, refused, or made and to be repeated in the list ...
ChangeFits(kind, item, phase) ==
    /\ phase # "done" => Real(commandSets, "local")
    /\ phase = "sent" => /\ item.from = "local"
                         /\ kind = "create" => \A x \in commandSets : x.id # item.id
    /\ phase = "done" => Real(Changed(commandSets, kind, item), "local")
OneChange ==
    /\ mode = "local" /\ ~reload
    /\ \E c \in Calls :
        /\ ListCalls = {c} /\ calls[c].kind \in Writes
        /\ ChangeFits(calls[c].kind, calls[c].item, calls[c].phase)

\* ... or, in cloud mode, nothing, or the one request that replaces the list.
CloudFetch ==
    /\ mode = "cloud" /\ ~reload
    /\ \/ ListCalls = {} /\ Real(commandSets, selected)
       \/ solo \in Calls /\ (calls[solo].kind = "devices" => Real(commandSets, selected))

UnmixedInv == ~mixed => LoadsOnly \/ OneChange \/ CloudFetch
ListInv == SoloInv /\ UnmixedInv

IsListCall(r) == r.kind # "free" /\ (r.kind = "devices" => r.dev # NoDevice)

\* One request changes, and with it what is awaited.
LEMMA ListCallsChange ==
    ASSUME CallsOK, NEW c \in Calls, NEW r, calls' = [calls EXCEPT ![c] = r]
    PROVE  /\ calls'[c] = r /\ \A x \in Calls : x # c => calls'[x] = calls[x]
           /\ IsListCall(r) => ListCalls' = ListCalls \cup {c}
           /\ ~IsListCall(r) => ListCalls' = ListCalls \ {c}
  BY DEF CallsOK, ListCalls, IsListCall

\* A request of the list is issued, or one that is not of the list.
LEMMA IssueList ==
    ASSUME CallsOK, NEW c \in Calls, NEW kind \in {"load", "devices", "deviceSets"} \cup Writes,
           NEW d \in Devices \cup {NoDevice}, NEW item \in Entry \cup {NoEntry},
           Issue(c, NewCall(kind, d, item))
    PROVE  /\ c \notin ListCalls
           /\ calls'[c] = NewCall(kind, d, item)
           /\ calls'[c].kind = kind /\ calls'[c].dev = d /\ calls'[c].item = item
           /\ calls'[c].phase = "sent"
           /\ \A x \in Calls : x # c => calls'[x] = calls[x]
           /\ \A x \in ListCalls : calls'[x] = calls[x]
           /\ kind = "devices" /\ d = NoDevice => ListCalls' = ListCalls
           /\ ~(kind = "devices" /\ d = NoDevice) => ListCalls' = ListCalls \cup {c}
  <1>1. calls' = [calls EXCEPT ![c] = NewCall(kind, d, item)] /\ calls[c].kind = "free"
    BY DEF Issue
  <1>2. /\ NewCall(kind, d, item).kind = kind /\ NewCall(kind, d, item).dev = d
        /\ NewCall(kind, d, item).item = item /\ NewCall(kind, d, item).phase = "sent"
    BY CallFacts
  <1>3. c \notin ListCalls
    BY <1>1 DEF ListCalls
  <1> DEFINE r == NewCall(kind, d, item)
  <1>4. IsListCall(r) <=> ~(kind = "devices" /\ d = NoDevice)
    BY <1>2 DEF IsListCall, Writes
  <1> HIDE DEF r
  <1>5. /\ calls'[c] = r /\ \A x \in Calls : x # c => calls'[x] = calls[x]
        /\ IsListCall(r) => ListCalls' = ListCalls \cup {c}
        /\ ~IsListCall(r) => ListCalls' = ListCalls \ {c}
    BY <1>1, ListCallsChange DEF r
  <1>6. \A x \in ListCalls : x \in Calls /\ x # c
    BY <1>3 DEF ListCalls
  <1> QED
    BY <1>2, <1>3, <1>4, <1>5, <1>6 DEF r

\* A request is over.
LEMMA CloseList ==
    ASSUME CallsOK, NEW c \in Calls, Close(c)
    PROVE  ListCalls' = ListCalls \ {c} /\ \A x \in Calls : x # c => calls'[x] = calls[x]
  <1>1. Free.kind = "free"
    BY CallFacts DEF Free
  <1> QED
    BY <1>1, ListCallsChange DEF Close, IsListCall

\* Which requests are of the list.
LEMMA ListCallFacts ==
    /\ ListCalls \subseteq Calls
    /\ \A c \in Calls : calls[c].kind \in {"load", "deviceSets"} \cup Writes => c \in ListCalls
    /\ \A c \in Calls : calls[c].kind = "devices" => (c \in ListCalls <=> calls[c].dev # NoDevice)
    /\ "load" \notin Writes /\ "devices" \notin Writes /\ "deviceSets" \notin Writes
  BY DEF ListCalls, Writes

\* What was just fetched is real, and so is nothing at all.
LEMMA FetchedIsReal == \A from : Real(Listing(from), from) /\ Real({}, from)
  BY DEF Real, Listing

\* A step that touches nothing of this.
LEMMA ListFrame ==
    ASSUME ListInv, ListCalls' = ListCalls, \A x \in ListCalls : calls'[x] = calls[x],
           UNCHANGED <<mode, selected, commandSets, reload, local, mixed, solo>>
    PROVE  ListInv'
  <1>1. \A from : Listing(from)' = Listing(from) /\ (Real(commandSets, from) => Real(commandSets, from)')
    BY DEF Listing, Store, Real
  <1>2. SoloInv'
    BY <1>1 DEF ListInv, SoloInv
  <1>3. LoadsOnly => LoadsOnly'
    BY <1>1 DEF LoadsOnly
  <1>4. OneChange => OneChange'
    <2> SUFFICES ASSUME NEW c \in Calls, mode = "local", ~reload,
                        ListCalls = {c}, calls[c].kind \in Writes,
                        ChangeFits(calls[c].kind, calls[c].item, calls[c].phase)
                 PROVE  OneChange'
      BY DEF OneChange
    <2>1. calls'[c] = calls[c]
      OBVIOUS
    <2>2. ChangeFits(calls[c].kind, calls[c].item, calls[c].phase)'
      BY <2>1 DEF ChangeFits, Real, Store
    <2> QED
      BY <2>1, <2>2 DEF OneChange
  <1>5. CloudFetch => CloudFetch'
    BY <1>1 DEF CloudFetch, ListInv, SoloInv
  <1> QED
    BY <1>2, <1>3, <1>4, <1>5 DEF ListInv, UnmixedInv

\* ... not even the requests.
LEMMA ListUnchanged == ASSUME ListInv, UNCHANGED listVars PROVE ListInv'
  <1>1. ListCalls' = ListCalls /\ \A x \in ListCalls : calls'[x] = calls[x]
    BY DEF listVars, ListCalls
  <1> QED
    BY <1>1, ListFrame DEF listVars

\* After a request that was issued while others were awaited nothing is known.
LEMMA IssueMixed ==
    ASSUME solo' = NoCall, mixed' PROVE ListInv'
  BY NoCallAssumption DEF ListInv, SoloInv, UnmixedInv

\* A load of the local agent is issued: alone, or next to other loads, it keeps the invariant.
LEMMA LoadList ==
    ASSUME TypeOK, ListInv, NEW c \in Calls, LoadFromServer(c), Track(c, OnlyLoads),
           mode = "local" \/ reload, reload' => reload,
           UNCHANGED <<mode, selected, commandSets, local>>
    PROVE  ListInv'
  <1>1. CallsOK
    BY TypeParts
  <1>2. Issue(c, NewCall("load", NoDevice, NoEntry))
    BY DEF LoadFromServer, LocalCall
  <1>3. /\ ListCalls' = ListCalls \cup {c} /\ c \notin ListCalls
        /\ calls'[c].kind = "load" /\ calls'[c].phase = "sent"
        /\ \A x \in ListCalls : calls'[x] = calls[x]
    BY <1>1, <1>2, IssueList
  <1>4. SoloInv'
    <2>1. CASE Quiet
      BY <1>3, <2>1 DEF SoloInv, Track, Quiet
    <2>2. CASE ~Quiet
      BY <2>2, NoCallAssumption DEF SoloInv, Track
    <2> QED
      BY <2>1, <2>2
  <1>5. UnmixedInv'
    <2> SUFFICES ASSUME ~mixed' PROVE LoadsOnly'
      BY DEF UnmixedInv
    <2>1. ~mixed /\ (Quiet \/ OnlyLoads)
      BY DEF Track
    <2>2. mode = "local" /\ ~OneChange
      <3>1. ~OneChange
        BY <2>1, ListCallFacts DEF Quiet, OnlyLoads, OneChange
      <3> QED
        BY <2>1, <3>1 DEF Quiet, OnlyLoads
    <2>3. LoadsOnly
      BY <2>1, <2>2 DEF ListInv, UnmixedInv, CloudFetch
    <2> QED
      BY <1>3, <2>3 DEF LoadsOnly, Listing, Real, Store
  <1> QED
    BY <1>4, <1>5 DEF ListInv

\* A request for the list of the selected device is issued.
LEMMA FetchList ==
    ASSUME TypeOK, ListInv, NEW c \in Calls, NEW kind \in {"devices", "deviceSets"},
           mode = "cloud", selected' \in Devices,
           Issue(c, CloudCall(kind, selected')), Track(c, FALSE),
           kind = "devices" => selected' = selected,
           UNCHANGED <<mode, commandSets, reload, local>>
    PROVE  ListInv'
  <1>1. CallsOK /\ selected' # NoDevice
    BY TypeParts, DevicesAssumption
  <1>2. PICK d \in Devices : d = selected'
    OBVIOUS
  <1>3. /\ ListCalls' = ListCalls \cup {c}
        /\ calls'[c].kind = kind /\ calls'[c].dev = selected'
    <2>1. Issue(c, NewCall(kind, d, NoEntry)) /\ d # NoDevice
      BY <1>1, <1>2 DEF CloudCall
    <2>2. ListCalls' = ListCalls \cup {c} /\ calls'[c].kind = kind /\ calls'[c].dev = d
      BY <1>1, <2>1, IssueList
    <2> QED
      BY <1>2, <2>2
  <1>4. CASE ~Quiet
    BY <1>4, IssueMixed DEF Track
  <1>5. CASE Quiet
    <2>1. ListCalls = {} /\ ~reload /\ solo' = c /\ mixed' = mixed
      BY <1>5 DEF Quiet, Track, TypeOK
    <2>2. SoloInv'
      BY <1>3, <2>1 DEF SoloInv
    <2>3. ~mixed => CloudFetch'
      <3> SUFFICES ASSUME ~mixed, kind = "devices" PROVE Real(commandSets, selected)'
        BY <1>3, <2>1 DEF CloudFetch
      <3>1. CloudFetch
        BY DEF ListInv, UnmixedInv, LoadsOnly, OneChange
      <3>2. solo \notin Calls
        BY <2>1 DEF ListInv, SoloInv
      <3>3. Real(commandSets, selected)
        BY <3>1, <3>2 DEF CloudFetch
      <3> QED
        BY <3>3 DEF Real, Store
    <2> QED
      BY <2>1, <2>2, <2>3 DEF ListInv, UnmixedInv
  <1> QED
    BY <1>4, <1>5

\* A refresh of the devices is issued.
LEMMA DevicesList ==
    ASSUME TypeOK, ListInv, NEW c \in Calls, Issue(c, CloudCall("devices", NoDevice)),
           UNCHANGED <<mode, selected, commandSets, reload, local, mixed, solo>>
    PROVE  ListInv'
  <1>1. CallsOK
    BY TypeParts
  <1>2. Issue(c, NewCall("devices", NoDevice, NoEntry))
    BY DEF CloudCall
  <1>3. ListCalls' = ListCalls /\ \A x \in ListCalls : calls'[x] = calls[x]
    BY <1>1, <1>2, IssueList
  <1> QED
    BY <1>3, ListFrame

\* A toggle of the mode empties the list.
LEMMA ToggleList ==
    ASSUME TypeOK, NEW c \in Calls, ToggleToCloud(c) \/ ToggleToLocal(c)
    PROVE  ListInv'
  <1>1. CallsOK
    BY TypeParts
  <1>2. commandSets' = {} /\ solo' = NoCall /\ (mixed' <=> ~Quiet) /\ UNCHANGED local
    BY DEF ToggleToCloud, ToggleToLocal, ClearPage
  <1>3. SoloInv'
    BY <1>2, NoCallAssumption DEF SoloInv
  <1>4. ASSUME Quiet, ToggleToCloud(c) PROVE CloudFetch'
    <2>1. Issue(c, NewCall("devices", NoDevice, NoEntry)) /\ mode' = "cloud" /\ reload' = reload
      BY <1>4 DEF ToggleToCloud, CloudCall
    <2>2. ListCalls' = {}
      BY <1>1, <1>4, <2>1, IssueList DEF Quiet
    <2> QED
      BY <1>2, <1>4, <2>1, <2>2 DEF CloudFetch, Quiet, Real
  <1>5. ASSUME Quiet, ToggleToLocal(c) PROVE LoadsOnly'
    <2>1. Issue(c, NewCall("load", NoDevice, NoEntry)) /\ mode' = "local"
      BY <1>5 DEF ToggleToLocal, LoadFromServer, LocalCall
    <2>2. ListCalls' = ListCalls \cup {c} /\ calls'[c].kind = "load" /\ calls'[c].phase = "sent"
      BY <1>1, <2>1, IssueList
    <2>3. ListCalls = {}
      BY <1>5 DEF Quiet
    <2> QED
      BY <1>2, <2>1, <2>2, <2>3 DEF LoadsOnly, Real
  <1> QED
    BY <1>2, <1>3, <1>4, <1>5 DEF ListInv, UnmixedInv

\* A change is issued: alone in local mode, or nothing is known.
LEMMA WriteList ==
    ASSUME TypeOK, ListInv, NEW c \in Calls, NEW kind \in Writes, NEW item \in Entry,
           Write(c, kind, item), item.from \in {"local"} \cup {x.from : x \in commandSets},
           kind = "create" => \A x \in commandSets : x.id # item.id
    PROVE  ListInv'
  <1>1. CallsOK
    BY TypeParts
  <1>2. Issue(c, NewCall(kind, NoDevice, item)) /\ solo' = NoCall
        /\ (mixed' <=> (mixed \/ ~Quiet \/ mode = "cloud"))
        /\ UNCHANGED <<mode, commandSets, reload, local>>
    BY DEF Write, LocalCall
  <1>3. /\ ListCalls' = ListCalls \cup {c} /\ calls'[c].kind = kind
        /\ calls'[c].item = item /\ calls'[c].phase = "sent"
    <2>1. kind # "devices"
      BY ListCallFacts
    <2>2. /\ kind \in {"load", "devices", "deviceSets"} \cup Writes
          /\ NoDevice \in Devices \cup {NoDevice} /\ item \in Entry \cup {NoEntry}
      OBVIOUS
    <2>3. Issue(c, NewCall(kind, NoDevice, item))
      BY <1>2
    <2> QED
      BY ONLY <1>1, <2>1, <2>2, <2>3, IssueList
  <1>4. SoloInv'
    BY <1>2, NoCallAssumption DEF SoloInv
  <1>5. ~mixed' => OneChange'
    <2> SUFFICES ASSUME ~mixed, Quiet, mode # "cloud" PROVE OneChange'
      BY <1>2
    <2>1. LoadsOnly
      BY DEF ListInv, UnmixedInv, CloudFetch, OneChange, Quiet
    <2>2. item.from = "local"
      BY <2>1 DEF LoadsOnly, Real
    <2>3. Real(commandSets, "local")'
      BY <1>2, <2>1 DEF LoadsOnly, Real, Store
    <2>4. ChangeFits(kind, item, "sent")'
      BY <1>2, <2>2, <2>3 DEF ChangeFits
    <2>5. ChangeFits(calls[c].kind, calls[c].item, calls[c].phase)'
      BY <1>3, <2>4
    <2> QED
      BY <1>2, <1>3, <2>1, <2>5 DEF OneChange, LoadsOnly, Quiet
  <1> QED
    BY <1>4, <1>5 DEF ListInv, UnmixedInv

\* The local agent answers: what it does to the request.
LEMMA AnswerCalls ==
    ASSUME CallsOK, NEW c \in Calls, NEW p \in {"done", "failed"}, NEW result,
           calls[c].kind \in {"load"} \cup Writes,
           calls' = [calls EXCEPT ![c].phase = p, ![c].result = result]
           \/ calls' = [calls EXCEPT ![c].phase = p]
    PROVE  /\ c \in ListCalls /\ ListCalls' = ListCalls
           /\ calls'[c].kind = calls[c].kind /\ calls'[c].dev = calls[c].dev
           /\ calls'[c].item = calls[c].item /\ calls'[c].phase = p
           /\ calls' = [calls EXCEPT ![c].phase = p, ![c].result = result] =>
                calls'[c].result = result
           /\ \A x \in Calls : x # c => calls'[x] = calls[x]
           /\ DOMAIN calls' = Calls
  <1>1. c \in ListCalls
    BY ListCallFacts
  <1>2. /\ calls'[c].kind = calls[c].kind /\ calls'[c].dev = calls[c].dev
        /\ calls'[c].item = calls[c].item /\ calls'[c].phase = p
        /\ calls' = [calls EXCEPT ![c].phase = p, ![c].result = result] =>
                calls'[c].result = result
        /\ \A x \in Calls : x # c => calls'[x] = calls[x]
        /\ DOMAIN calls' = Calls
    BY DEF CallsOK, Call
  <1>3. ListCalls' = ListCalls
    BY <1>2 DEF ListCalls
  <1> QED
    BY <1>1, <1>2, <1>3

\* It does not change its sets: it lists them, or fails.
LEMMA AgentListsList ==
    ASSUME TypeOK, ListInv, NEW c \in Calls, AgentAnswers(c), UNCHANGED <<local, mixed>>,
           \/ calls' = [calls EXCEPT ![c].phase = "failed"]
           \/ /\ calls[c].kind = "load"
              /\ calls' = [calls EXCEPT ![c].phase = "done", ![c].result = Listing("local")]
    PROVE  ListInv'
  <1>1. CallsOK /\ calls[c].kind \in {"load"} \cup Writes /\ calls[c].phase = "sent"
        /\ UNCHANGED <<mode, selected, commandSets, reload, local, mixed, solo>>
    BY TypeParts DEF AgentAnswers
  <1>2. /\ c \in ListCalls /\ ListCalls' = ListCalls
        /\ calls'[c].kind = calls[c].kind /\ calls'[c].dev = calls[c].dev
        /\ calls'[c].item = calls[c].item
        /\ calls'[c].phase = "done" => calls[c].kind = "load" /\ calls'[c].result = Listing("local")
        /\ calls'[c].phase \in {"done", "failed"}
        /\ \A x \in Calls : x # c => calls'[x] = calls[x]
    BY <1>1, AnswerCalls
  <1>3. Listing("local")' = Listing("local")
        /\ (Real(commandSets, "local") => Real(commandSets, "local")')
    BY <1>1 DEF Listing, Store, Real
  <1>4. SoloInv'
    <2> SUFFICES ASSUME solo \in Calls PROVE SoloInv'
      BY <1>1 DEF SoloInv
    <2>1. c = solo
      BY <1>2 DEF ListInv, SoloInv
    <2>2. calls[c].kind = "load" /\ mode = "local" /\ ListCalls = {c} /\ ~reload
      BY <1>1, <2>1, ListCallFacts DEF ListInv, SoloInv
    <2> QED
      BY <1>1, <1>2, <1>3, <2>1, <2>2 DEF SoloInv
  <1>5. LoadsOnly => LoadsOnly'
    <2> SUFFICES ASSUME LoadsOnly, NEW x \in ListCalls
                 PROVE  /\ calls'[x].kind = "load"
                        /\ calls'[x].phase = "done" => calls'[x].result = Listing("local")
      BY <1>1, <1>2, <1>3 DEF LoadsOnly
    <2>1. x \in Calls
      BY ListCallFacts
    <2> QED
      BY <1>2, <2>1 DEF LoadsOnly
  <1>6. OneChange => OneChange'
    <2> SUFFICES ASSUME OneChange PROVE OneChange'
      OBVIOUS
    <2>1. /\ ListCalls = {c} /\ calls[c].kind \in Writes /\ Real(commandSets, "local")
          /\ mode = "local" /\ ~reload
      BY <1>1, <1>2 DEF OneChange, ChangeFits
    <2>2. calls'[c].phase = "failed"
      BY <1>2, <2>1, ListCallFacts
    <2>3. ChangeFits(calls[c].kind, calls[c].item, calls[c].phase)'
      BY <1>3, <2>1, <2>2 DEF ChangeFits
    <2> QED
      BY <1>1, <1>2, <2>1, <2>3 DEF OneChange
  <1>7. ~CloudFetch
    BY <1>1, <1>2, ListCallFacts DEF CloudFetch, ListInv, SoloInv
  <1> QED
    BY <1>1, <1>4, <1>5, <1>6, <1>7 DEF ListInv, UnmixedInv

\* What a change that the agent has made makes of a list that was real before.
LEMMA ChangedIsReal ==
    ASSUME PageOK, NEW kind \in Writes, NEW item \in Entry, item.from = "local",
           Real(commandSets, "local"),
           kind = "create" => \A x \in commandSets : x.id # item.id,
           local' = Applied(item, kind), UNCHANGED commandSets
    PROVE  Real(Changed(commandSets, kind, item), "local")'
  <1>1. /\ item.id \in Ids /\ commandSets \subseteq Entry
        /\ \A i \in Ids : local'[i] = IF i # item.id THEN local[i]
                                    ELSE IF kind = "delete" THEN NoSet ELSE item.body
    BY DEF Applied, PageOK, Entry
  <1>2. \A x \in commandSets : x.id \in Ids /\ x.from = "local" /\ local[x.id] = x.body
    BY <1>1 DEF Real, Store, Entry
  <1>3. \A x, y \in commandSets : x.id = y.id => x = y
    BY DEF Real
  <1> DEFINE list == Changed(commandSets, kind, item)
  <1>0. list' = list
    OBVIOUS
  <1>4. CASE kind = "create"
    <2>1. list = commandSets \cup {item}
      BY <1>4 DEF Changed
    <2>2. local'[item.id] = item.body
      BY <1>1, <1>4
    <2>3. \A x \in commandSets : x.id # item.id
      BY <1>4
    <2> HIDE DEF list
    <2>4. Real(list, "local")'
      BY <1>0, <1>1, <1>2, <1>3, <2>1, <2>2, <2>3 DEF Real, Store
    <2> QED
      BY <2>4 DEF list
  <1>5. CASE kind = "update"
    <2> DEFINE new(x) == IF x.id = item.id THEN [item EXCEPT !.how = x.how] ELSE x
    <2>1. list = {new(x) : x \in commandSets}
      BY <1>5 DEF Changed
    <2>2. local'[item.id] = item.body
      BY <1>1, <1>5
    <2>3. \A x \in commandSets : /\ new(x).id = x.id /\ new(x).from = "local"
                                 /\ local'[new(x).id] = new(x).body
      BY <1>1, <1>2, <2>2 DEF Entry
    <2> HIDE DEF list, new
    <2>4. Real(list, "local")'
      BY <1>0, <1>3, <2>1, <2>3 DEF Real, Store
    <2> QED
      BY <2>4 DEF list
  <1>6. CASE kind = "delete"
    <2>1. list = {x \in commandSets : x.id # item.id}
      BY <1>6 DEF Changed
    <2> HIDE DEF list
    <2>2. Real(list, "local")'
      BY <1>0, <1>1, <1>2, <1>3, <2>1 DEF Real, Store
    <2> QED
      BY <2>2 DEF list
  <1> QED
    BY <1>4, <1>5, <1>6 DEF Writes

\* It makes a change, and says so, or not.
LEMMA AgentWritesList ==
    ASSUME TypeOK, ListInv, NEW c \in Calls, AgentAnswers(c), calls[c].kind \in Writes,
           local' = Applied(calls[c].item, calls[c].kind),
           \/ calls' = [calls EXCEPT ![c].phase = "done"] /\ UNCHANGED mixed
           \/ calls' = [calls EXCEPT ![c].phase = "failed"] /\ mixed' = TRUE
    PROVE  ListInv'
  <1>1. CallsOK /\ PageOK /\ calls[c].phase = "sent"
        /\ UNCHANGED <<mode, selected, commandSets, reload, solo>>
    BY TypeParts DEF AgentAnswers
  <1>2. /\ c \in ListCalls /\ ListCalls' = ListCalls
        /\ calls'[c].kind = calls[c].kind /\ calls'[c].item = calls[c].item
        /\ ~mixed' => calls'[c].phase = "done" /\ ~mixed
    <2>1. CASE calls' = [calls EXCEPT ![c].phase = "done"] /\ UNCHANGED mixed
      BY <1>1, <2>1, AnswerCalls
    <2>2. CASE calls' = [calls EXCEPT ![c].phase = "failed"] /\ mixed' = TRUE
      BY <1>1, <2>2, AnswerCalls
    <2> QED
      BY <2>1, <2>2
  <1>3. solo \notin Calls
    BY <1>2, ListCallFacts DEF ListInv, SoloInv
  <1>4. SoloInv'
    BY <1>1, <1>3 DEF SoloInv
  <1>5. ~mixed' => OneChange'
    <2> SUFFICES ASSUME ~mixed' PROVE OneChange'
      OBVIOUS
    <2>1. OneChange
      BY <1>2, <1>3, ListCallFacts DEF ListInv, UnmixedInv, LoadsOnly, CloudFetch
    <2>2. /\ ListCalls = {c} /\ mode = "local" /\ ~reload
          /\ ChangeFits(calls[c].kind, calls[c].item, "sent")
      BY <1>1, <1>2, <2>1 DEF OneChange
    <2>3. calls[c].item \in Entry
      BY <1>1 DEF CallsOK, CallOK
    <2>4. Real(Changed(commandSets, calls[c].kind, calls[c].item), "local")'
      BY <1>1, <1>2, <2>2, <2>3, ChangedIsReal DEF ChangeFits
    <2>5. ChangeFits(calls[c].kind, calls[c].item, calls[c].phase)'
      BY <1>2, <2>4 DEF ChangeFits
    <2> QED
      BY <1>1, <1>2, <2>2, <2>5 DEF OneChange
  <1> QED
    BY <1>4, <1>5 DEF ListInv, UnmixedInv

\* A load is over: the list is what it fetched, or what it was.
LEMMA LoadAnsweredList ==
    ASSUME TypeOK, ListInv, NEW c \in Calls, LoadAnswered(c)
    PROVE  ListInv'
  <1>1. CallsOK /\ calls[c].kind = "load" /\ Close(c) /\ UNCHANGED <<mode, reload, local>>
        /\ (calls[c].phase = "done" => commandSets' = calls[c].result)
        /\ (calls[c].phase # "done" => commandSets' = commandSets)
        /\ solo' = (IF solo = c THEN NoCall ELSE solo)
    BY TypeParts DEF LoadAnswered, Untrack
  <1>2. c \in ListCalls /\ ListCalls' = ListCalls \ {c}
        /\ \A x \in ListCalls' : x \in ListCalls /\ calls'[x] = calls[x]
    BY <1>1, CloseList, ListCallFacts
  <1>3. SoloInv'
    <2>1. solo \in Calls => solo = c
      BY <1>2 DEF ListInv, SoloInv
    <2> QED
      BY <1>1, <2>1, NoCallAssumption DEF SoloInv
  <1>4. CASE solo = c /\ calls[c].phase = "done"
    <2>1. mode = "local" /\ ListCalls = {c} /\ calls[c].result = Listing("local")
      BY <1>1, <1>4 DEF ListInv, SoloInv
    <2>2. Real(commandSets, "local")'
      BY <1>1, <1>4, <2>1, FetchedIsReal DEF Real, Store
    <2> QED
      BY <1>1, <1>2, <1>3, <2>1, <2>2 DEF ListInv, UnmixedInv, LoadsOnly
  <1>5. CASE ~mixed
    <2>1. ~OneChange
      BY <1>1, <1>2, ListCallFacts DEF OneChange
    <2>2. ~CloudFetch
      BY <1>1, <1>2 DEF CloudFetch, ListInv, SoloInv
    <2>3. LoadsOnly
      BY <1>5, <2>1, <2>2 DEF ListInv, UnmixedInv
    <2>4. Real(commandSets, "local")'
      BY <1>1, <1>2, <2>3, FetchedIsReal DEF LoadsOnly, Real, Store
    <2>5. Listing("local")' = Listing("local")
      BY <1>1 DEF Listing, Store
    <2> QED
      BY <1>1, <1>2, <1>3, <2>3, <2>4, <2>5 DEF ListInv, UnmixedInv, LoadsOnly
  <1>6. mixed' => mixed /\ ~(solo = c /\ calls[c].phase = "done")
    BY Zenon DEF LoadAnswered, Untrack
  <1>7. CASE mixed /\ ~(solo = c /\ calls[c].phase = "done")
    BY <1>3, <1>7 DEF ListInv, UnmixedInv, LoadAnswered, Untrack, TypeOK
  <1> QED
    BY <1>4, <1>5, <1>7 DEF TypeOK

\* A change is over: the page repeats it in its list, or leaves the list alone.
LEMMA WriteAnsweredList ==
    ASSUME TypeOK, ListInv, NEW c \in Calls, WriteAnswered(c)
    PROVE  ListInv'
  <1>1. CallsOK /\ calls[c].kind \in Writes /\ calls[c].phase # "sent" /\ Close(c)
        /\ UNCHANGED <<mode, reload, local>>
        /\ (calls[c].phase = "done" =>
                commandSets' = Changed(commandSets, calls[c].kind, calls[c].item))
        /\ (calls[c].phase # "done" => commandSets' = commandSets)
        /\ solo' = (IF solo = c THEN NoCall ELSE solo)
    BY TypeParts DEF WriteAnswered, Untrack
  <1>2. c \in ListCalls /\ ListCalls' = ListCalls \ {c}
    BY <1>1, CloseList, ListCallFacts
  <1>3. solo \notin Calls
    BY <1>1, <1>2, ListCallFacts DEF ListInv, SoloInv
  <1>4. SoloInv' /\ (mixed' <=> mixed)
    BY <1>1, <1>3 DEF SoloInv, WriteAnswered, Untrack, TypeOK
  <1>5. ~mixed => LoadsOnly'
    <2> SUFFICES ASSUME ~mixed PROVE LoadsOnly'
      OBVIOUS
    <2>1. OneChange
      BY <1>1, <1>2, <1>3, ListCallFacts DEF ListInv, UnmixedInv, LoadsOnly, CloudFetch
    <2>2. /\ mode = "local" /\ ListCalls = {c}
          /\ ChangeFits(calls[c].kind, calls[c].item, calls[c].phase)
      BY <1>2, <2>1 DEF OneChange
    <2>3. Real(commandSets, "local")'
      BY <1>1, <2>2 DEF ChangeFits, Real, Store
    <2> QED
      BY <1>1, <1>2, <2>2, <2>3 DEF LoadsOnly
  <1> QED
    BY <1>4, <1>5 DEF ListInv, UnmixedInv

\* The devices are listed: a refresh of the sidebar changes nothing here; a refresh
\* of the list goes on with the device that was selected, or is over.
LEMMA DevicesAnsweredList ==
    ASSUME TypeOK, ListInv, NEW c \in Calls, DevicesAnswered(c)
    PROVE  ListInv'
  <1>1. CallsOK /\ calls[c].kind = "devices"
        /\ UNCHANGED <<mode, selected, commandSets, reload, local>>
    BY TypeParts DEF DevicesAnswered
  <1>2. CASE Close(c) /\ Untrack(c, FALSE)
    <2>1. ListCalls' = ListCalls \ {c} /\ \A x \in Calls : x # c => calls'[x] = calls[x]
      BY <1>1, <1>2, CloseList
    <2>2. mixed' = mixed /\ solo' = (IF solo = c THEN NoCall ELSE solo)
      BY <1>2 DEF Untrack, TypeOK
    <2>3. CASE c \notin ListCalls
      <3>1. solo # c
        BY <2>3 DEF ListInv, SoloInv
      <3> QED
        BY <1>1, <2>1, <2>2, <2>3, <3>1, ListCallFacts, ListFrame
    <2>4. CASE c \in ListCalls
      <3>1. solo \in Calls => solo = c
        BY <2>4 DEF ListInv, SoloInv
      <3>2. SoloInv'
        BY <2>2, <3>1, NoCallAssumption DEF SoloInv
      <3>3. ~mixed => CloudFetch'
        <4> SUFFICES ASSUME ~mixed PROVE CloudFetch'
          OBVIOUS
        <4>1. CloudFetch
          BY <1>1, <2>4, ListCallFacts DEF ListInv, UnmixedInv, LoadsOnly, OneChange
        <4>2. ListCalls = {c} /\ Real(commandSets, selected) /\ mode = "cloud" /\ ~reload
          BY <1>1, <2>4, <3>1, <4>1 DEF CloudFetch, ListInv, SoloInv
        <4> QED
          BY <1>1, <2>1, <4>2 DEF CloudFetch, Real, Store
      <3> QED
        BY <2>2, <3>2, <3>3 DEF ListInv, UnmixedInv
    <2> QED
      BY <2>3, <2>4
  <1>3. CASE /\ calls[c].dev # NoDevice
             /\ calls' = [calls EXCEPT ![c] = CloudCall("deviceSets", @.dev)]
             /\ UNCHANGED <<mixed, solo>>
    <2>1. calls[c].dev \in Devices
      BY <1>1, <1>3 DEF CallsOK, Call
    <2> DEFINE r == CloudCall("deviceSets", calls[c].dev)
    <2>2. r.kind = "deviceSets" /\ r.dev = calls[c].dev
      BY <2>1, CallFacts DEF CloudCall
    <2>3. calls' = [calls EXCEPT ![c] = r]
      BY <1>3
    <2> HIDE DEF r
    <2>4. calls'[c] = r /\ \A x \in Calls : x # c => calls'[x] = calls[x]
      BY <1>1, <2>3, ListCallsChange
    <2>5. c \in ListCalls /\ ListCalls' = ListCalls
      <3>1. IsListCall(r) /\ c \in ListCalls
        BY <1>1, <1>3, <2>2, ListCallFacts DEF IsListCall
      <3>2. IsListCall(r) => ListCalls' = ListCalls \cup {c}
        BY <1>1, <2>3, ListCallsChange
      <3> QED
        BY <3>1, <3>2
    <2>6. solo \in Calls => solo = c
      BY <2>5 DEF ListInv, SoloInv
    <2>7. SoloInv'
      BY <1>1, <1>3, <2>2, <2>4, <2>5, <2>6 DEF ListInv, SoloInv
    <2>8. ~mixed => CloudFetch'
      <3> SUFFICES ASSUME ~mixed PROVE CloudFetch'
        OBVIOUS
      <3>1. CloudFetch
        BY <1>1, <2>5, ListCallFacts DEF ListInv, UnmixedInv, LoadsOnly, OneChange
      <3>2. solo = c /\ mode = "cloud" /\ ~reload
        BY <2>5, <2>6, <3>1 DEF CloudFetch
      <3> QED
        BY <1>1, <1>3, <2>2, <2>4, <3>2 DEF CloudFetch
    <2> QED
      BY <1>3, <2>7, <2>8 DEF ListInv, UnmixedInv
  <1> QED
    BY <1>2, <1>3 DEF DevicesAnswered

\* The sets of a device are listed: the list is theirs, or empty.
LEMMA DeviceSetsAnsweredList ==
    ASSUME TypeOK, ListInv, NEW c \in Calls, DeviceSetsAnswered(c)
    PROVE  ListInv'
  <1>1. CallsOK /\ calls[c].kind = "deviceSets" /\ Close(c)
        /\ commandSets' \in {Listing(calls[c].dev), {}}
        /\ UNCHANGED <<mode, selected, reload, local>>
        /\ solo' = (IF solo = c THEN NoCall ELSE solo)
    BY TypeParts DEF DeviceSetsAnswered, Untrack
  <1>2. c \in ListCalls /\ ListCalls' = ListCalls \ {c}
    BY <1>1, CloseList, ListCallFacts
  <1>3. solo \in Calls => solo = c
    BY <1>2 DEF ListInv, SoloInv
  <1>4. SoloInv'
    BY <1>1, <1>3, NoCallAssumption DEF SoloInv
  <1>5. CASE solo = c
    <2>1. mode = "cloud" /\ ListCalls = {c} /\ ~reload /\ calls[c].dev = selected
      BY <1>1, <1>5 DEF ListInv, SoloInv
    <2>2. Real(commandSets, selected)'
      BY <1>1, <2>1, FetchedIsReal DEF Real, Store
    <2> QED
      BY <1>1, <1>2, <1>4, <2>1, <2>2 DEF ListInv, UnmixedInv, CloudFetch
  <1>6. CASE solo # c
    <2>1. mixed
      BY <1>1, <1>2, <1>3, <1>6, ListCallFacts
         DEF ListInv, UnmixedInv, LoadsOnly, OneChange, CloudFetch
    <2>2. mixed'
      BY <1>6, <2>1 DEF DeviceSetsAnswered, Untrack
    <2> QED
      BY <1>4, <2>2 DEF ListInv, UnmixedInv
  <1> QED
    BY <1>5, <1>6

\* Every step of the page keeps the list's invariant.
LEMMA ListStep == ASSUME TypeOK, ListInv, Next PROVE ListInv'
  <1>1. ASSUME NEW c \in Calls, RefreshList(c) PROVE ListInv'
    <2>1. CASE mode = "local"
      BY <1>1, <2>1, LoadList DEF RefreshList
    <2>2. CASE mode = "cloud" /\ selected # NoDevice
      <3>1. Issue(c, CloudCall("devices", selected)) /\ Track(c, FALSE)
            /\ UNCHANGED <<mode, selected, commandSets, reload, local>>
        BY <1>1, <2>2 DEF RefreshList
      <3>2. selected' \in Devices /\ selected' = selected
        BY <2>2, <3>1 DEF TypeOK
      <3> QED
        BY <2>2, <3>1, <3>2, FetchList
    <2>3. CASE mode = "cloud" /\ selected = NoDevice
      BY <1>1, <2>3, DevicesList DEF RefreshList
    <2> QED
      BY <2>1, <2>2, <2>3 DEF TypeOK
  <1>2. ASSUME NEW c \in Calls, RefreshDevices(c) PROVE ListInv'
    BY <1>2, DevicesList DEF RefreshDevices
  <1>3. ASSUME NEW c \in Calls, ReloadFires(c) PROVE ListInv'
    BY <1>3, LoadList DEF ReloadFires
  <1>4. ASSUME NEW c \in Calls, ToggleToCloud(c) \/ ToggleToLocal(c) PROVE ListInv'
    BY <1>4, ToggleList
  <1>5. ASSUME NEW c \in Calls, NEW d \in Devices, SelectDevice(c, d) PROVE ListInv'
    <2>1. /\ mode = "cloud" /\ selected' \in Devices
          /\ Issue(c, CloudCall("deviceSets", selected')) /\ Track(c, FALSE)
          /\ UNCHANGED <<mode, commandSets, reload, local>>
      BY <1>5 DEF SelectDevice
    <2> QED
      BY <2>1, FetchList
  <1>6. ASSUME NEW c \in Calls, NEW b \in Contents, CreateCommandSet(c, b) PROVE ListInv'
    <2>1. PICK i \in Ids \ InUse :
            Write(c, "create", [id |-> i, body |-> b, from |-> "local", how |-> "created"])
      BY <1>6 DEF CreateCommandSet
    <2> DEFINE item == [id |-> i, body |-> b, from |-> "local", how |-> "created"]
    <2>2. item \in Entry /\ item.from = "local" /\ item.id = i
      BY DEF Entry
    <2>3. \A x \in commandSets : x.id # i
      BY <2>1 DEF InUse
    <2> HIDE DEF item
    <2> QED
      BY <2>1, <2>2, <2>3, WriteList DEF Writes, item
  <1>7. ASSUME NEW c \in Calls, NEW x \in commandSets, NEW b \in Contents, UpdateCommandSet(c, x, b)
        PROVE  ListInv'
    <2> DEFINE item == [x EXCEPT !.body = b]
    <2>1. item \in Entry /\ item.from = x.from
      BY DEF TypeOK, Entry
    <2>2. Write(c, "update", item)
      BY <1>7 DEF UpdateCommandSet
    <2> HIDE DEF item
    <2> QED
      BY <2>1, <2>2, WriteList DEF Writes
  <1>8. ASSUME NEW c \in Calls, NEW x \in commandSets, DeleteCommandSet(c, x) PROVE ListInv'
    <2>1. x \in Entry /\ Write(c, "delete", x)
      BY <1>8 DEF DeleteCommandSet, TypeOK
    <2> QED
      BY <2>1, WriteList DEF Writes
  <1>9. ASSUME NEW c \in Calls, AgentAnswers(c) PROVE ListInv'
    <2>1. CASE /\ UNCHANGED <<local, mixed>>
               /\ \/ calls' = [calls EXCEPT ![c].phase = "failed"]
                  \/ /\ calls[c].kind = "load"
                     /\ calls' = [calls EXCEPT ![c].phase = "done", ![c].result = Listing("local")]
      BY <1>9, <2>1, AgentListsList
    <2>2. CASE /\ calls[c].kind \in Writes /\ local' = Applied(calls[c].item, calls[c].kind)
               /\ \/ calls' = [calls EXCEPT ![c].phase = "done"] /\ UNCHANGED mixed
                  \/ calls' = [calls EXCEPT ![c].phase = "failed"] /\ mixed' = TRUE
      BY <1>9, <2>2, AgentWritesList
    <2> QED
      BY <1>9, <2>1, <2>2 DEF AgentAnswers
  <1>10. ASSUME NEW c \in Calls, LoadAnswered(c) PROVE ListInv'
    BY <1>10, LoadAnsweredList
  <1>11. ASSUME NEW c \in Calls, WriteAnswered(c) PROVE ListInv'
    BY <1>11, WriteAnsweredList
  <1>12. ASSUME NEW c \in Calls, DevicesAnswered(c) PROVE ListInv'
    BY <1>12, DevicesAnsweredList
  <1>13. ASSUME NEW c \in Calls, DeviceSetsAnswered(c) PROVE ListInv'
    BY <1>13, DeviceSetsAnsweredList
  <1>14. ASSUME UNCHANGED listVars PROVE ListInv'
    BY <1>14, ListUnchanged
  <1>15. ASSUME NEW q \in Runs, NEW x \in commandSets, Execute(q, x) PROVE ListInv'
    BY <1>14, <1>15 DEF Execute
  <1>16. CASE ExecutionStep
    BY <1>14, <1>16 DEF ExecutionStep
  <1> QED
    BY <1>1, <1>2, <1>3, <1>4, <1>5, <1>6, <1>7, <1>8, <1>9, <1>10, <1>11, <1>12, <1>13,
       <1>15, <1>16 DEF Next

\* The page opens with one request, alone.
LEMMA ListInit == ASSUME Init, TypeOK PROVE ListInv
  <1>1. PICK c \in Calls : /\ calls = [[x \in Calls |-> Free] EXCEPT ![c] = LocalCall("load", NoEntry)]
                           /\ solo = c
    BY DEF Init
  <1>2. /\ LocalCall("load", NoEntry).kind = "load" /\ LocalCall("load", NoEntry).phase = "sent"
        /\ Free.kind = "free"
    BY CallFacts DEF LocalCall, Free
  <1>3. calls[c].kind = "load" /\ calls[c].phase = "sent" /\ \A x \in Calls : x # c => calls[x].kind = "free"
    BY <1>1, <1>2
  <1>4. ListCalls = {c}
    BY <1>3 DEF ListCalls
  <1>5. mode = "local" /\ ~reload /\ commandSets = {}
    BY DEF Init
  <1>6. SoloInv
    BY <1>1, <1>3, <1>4, <1>5 DEF SoloInv
  <1>7. LoadsOnly
    BY <1>3, <1>4, <1>5 DEF LoadsOnly, Real
  <1> QED
    BY <1>6, <1>7 DEF ListInv, UnmixedInv

\* When no answer is awaited and nothing was mixed, what the page lists is at the target
\* with that content, once: after any loads, changes, switches and selections, and
\* whatever of them failed.
THEOREM ShownListIsReal == Spec => []ShownSetsAreReal
  <1>1. Init => PageInv /\ ListInv
    BY PageInit, ListInit DEF PageInv
  <1>2. PageInv /\ ListInv /\ [Next]_vars => ListInv'
    BY ListStep, ListUnchanged DEF PageInv, vars
  <1>3. PageInv /\ ListInv => ShownSetsAreReal
    <2> SUFFICES ASSUME ListInv, Quiet, ~mixed PROVE Real(commandSets, Target)
      BY DEF ShownSetsAreReal
    <2>1. CASE LoadsOnly
      BY <2>1 DEF LoadsOnly, Target
    <2>2. ~OneChange
      BY DEF OneChange, Quiet
    <2>3. CASE CloudFetch
      BY <2>3 DEF CloudFetch, ListInv, SoloInv, Quiet, Target
    <2> QED
      BY <2>1, <2>2, <2>3 DEF ListInv, UnmixedInv
  <1> QED
    BY <1>1, <1>2, <1>3, PageInvStep, PTL DEF Spec
=============================================================================
