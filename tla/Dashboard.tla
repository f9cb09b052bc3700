----------------------------- MODULE Dashboard -----------------------------
(***************************************************************************)
(* The page of the front end (frontend/src/App.tsx with the hooks          *)
(* useCommandSets, useCloudApi and useLocalConnection): the list of        *)
(* command sets it shows, the device it has selected, and the requests     *)
(* whose answers change them.  What it executes is module Execution.       *)
(*                                                                         *)
(* The list comes from the local agent (mode "local") or from the selected *)
(* device (mode "cloud"); changes always go to the local agent, through    *)
(* the client of useCommandSets.  A click and all state it sets is one     *)
(* step, up to the first await; every answer is a step of its own, and     *)
(* answers come in any order.  The list is the set of its entries: their   *)
(* order is left out, and an entry says whether an answer listed it or a   *)
(* creation added it, so that one id can have two entries.  The local      *)
(* agent is modelled by what its answers may be; no one else changes its   *)
(* sets or those of the devices.                                           *)
(***************************************************************************)
EXTENDS Execution, Integers, FiniteSets

CONSTANTS Devices, Contents,
          DeviceSets,   \* DeviceSets[d] is what d has: for an id its content or NoSet
          Calls,        \* requests for lists and changes that may be in flight at once
          LocalSets,    \* what the local agent has when the page opens
          MaxInFlight,  \* bound: requests of all kinds in flight at once
          Intervals,    \* interval timers of the connection monitor
          NoDevice, NoSet, NoCall, NoInterval

ASSUME NoCallAssumption == NoCall \notin Calls
ASSUME IntervalsAssumption == Intervals # {} /\ NoInterval \notin Intervals
ASSUME DevicesAssumption == Devices \cap {NoDevice, "local"} = {} /\ NoDevice # "local"
ASSUME SetsAssumption ==
    /\ LocalSets \in [Ids -> Contents \cup {NoSet}]
    /\ DeviceSets \in [Devices -> [Ids -> Contents \cup {NoSet}]]
    /\ NoSet \notin Contents

VARIABLES mode, selected, devices, commandSets, loading,
          calls,      \* the requests in flight
          reload,     \* the 100 ms timer of loadFromServer is running
          monitor,    \* the interval that checkIntervalRef holds, and those that run
          local,      \* the command sets of the local agent
          mixed,      \* history: see ShownSetsAreReal
          solo        \* history: a request that has been alone since it was issued

listVars == <<mode, selected, devices, commandSets, loading, calls, reload, monitor,
              local, mixed, solo>>
vars == <<execVars, listVars>>

-----------------------------------------------------------------------------
(* Entries of the list, with where they come from, and requests. *)

Entry == [id : Ids, body : Contents, from : Devices \cup {"local"}, how : {"listed", "created"}]
NoEntry == [id |-> NoId, body |-> NoSet, from |-> NoDevice, how |-> "listed"]

Store(from) == IF from = "local" THEN local ELSE DeviceSets[from]

\* The answer of the local agent or of a device to a request for its sets.
Listing(from) ==
    {[id |-> i, body |-> Store(from)[i], from |-> from, how |-> "listed"] :
        i \in {j \in Ids : Store(from)[j] # NoSet}}

Writes == {"create", "update", "delete"}

Call == [kind : {"free", "load", "devices", "deviceSets"} \cup Writes,
         dev : Devices \cup {NoDevice}, item : Entry \cup {NoEntry},
         phase : {"sent", "done", "failed"}, result : SUBSET Entry]

CallOK(r) ==
    /\ r.kind \in Writes => r.item \in Entry
    /\ r.kind = "deviceSets" => r.dev \in Devices

NewCall(kind, d, item) ==
    [kind |-> kind, dev |-> d, item |-> item, phase |-> "sent", result |-> {}]
LocalCall(kind, item) == NewCall(kind, NoDevice, item)
CloudCall(kind, d) == NewCall(kind, d, NoEntry)
Free == NewCall("free", NoDevice, NoEntry)

\* The requests whose answers change the list, at once or by what follows them.
ListCalls == {c \in Calls : /\ calls[c].kind # "free"
                            /\ calls[c].kind = "devices" => calls[c].dev # NoDevice}
Quiet == ListCalls = {} /\ ~reload
OnlyLoads == mode = "local" /\ \A c \in ListCalls : calls[c].kind = "load"

TypeOK ==
    /\ ExecTypeOK
    /\ mode \in {"local", "cloud"}
    /\ selected \in Devices \cup {NoDevice}
    /\ devices \subseteq Devices
    /\ commandSets \subseteq Entry
    /\ loading \in BOOLEAN /\ reload \in BOOLEAN /\ mixed \in BOOLEAN
    /\ calls \in [Calls -> Call] /\ \A c \in Calls : CallOK(calls[c])
    /\ monitor \in [held : Intervals \cup {NoInterval}, live : SUBSET Intervals]
    /\ local \in [Ids -> Contents \cup {NoSet}]
    /\ solo \in Calls \cup {NoCall}

-----------------------------------------------------------------------------
(* The connection monitor: startMonitoring and stopMonitoring.  What a check  *)
(* finds is only displayed, and left out.                                     *)

StartMonitoring(m) ==
    LET others == m.live \ {m.held}
        t == CHOOSE i \in Intervals : i \notin others
    IN [held |-> t, live |-> others \cup {t}]

\* Mutant of StopMonitoring: forgets the interval and does not clear it.
StopForgets(m) == [held |-> NoInterval, live |-> m.live]

StopMonitoring(m) == [held |-> NoInterval, live |-> m.live \ {m.held}]

NoMonitor == [held |-> NoInterval, live |-> {}]

\* A change of the mode: the updater of setMode, the cleanup of the old effect,
\* the effect of the new mode.
MonitorCloud(m) == StopMonitoring(StopMonitoring(StopMonitoring(m)))
MonitorLocal(m) == StartMonitoring(StopMonitoring(StartMonitoring(m)))

-----------------------------------------------------------------------------
(* Requests. *)

Room == Cardinality(inFlight) + Cardinality({c \in Calls : calls[c].kind # "free"}) < MaxInFlight

Issue(c, call) == Room /\ calls[c].kind = "free" /\ calls' = [calls EXCEPT ![c] = call]
Close(c) == calls' = [calls EXCEPT ![c] = Free]

\* History, when c is issued; harmless: it does not matter what else is in flight.
Track(c, harmless) ==
    /\ mixed' = (mixed \/ ~(Quiet \/ harmless))
    /\ solo' = IF Quiet THEN c ELSE NoCall

\* History, when c is over; heals: the list now is what it fetched.
Untrack(c, heals) ==
    /\ mixed' = (mixed /\ ~(heals /\ solo = c))
    /\ solo' = IF solo = c THEN NoCall ELSE solo

\* The page opens in local mode, and loads.
Init ==
    /\ ExecInit
    /\ mode = "local" /\ selected = NoDevice /\ devices = {}
    /\ commandSets = {} /\ loading = TRUE
    /\ \E c \in Calls :
        /\ calls = [[x \in Calls |-> Free] EXCEPT ![c] = LocalCall("load", NoEntry)]
        /\ solo = c
    /\ reload = FALSE /\ mixed = FALSE
    /\ monitor = StartMonitoring(NoMonitor)
    /\ local = LocalSets

-----------------------------------------------------------------------------
(* Clicks and timers. *)

\* loadFromServer, up to its await.
LoadFromServer(c) ==
    /\ Issue(c, LocalCall("load", NoEntry))
    /\ loading' = TRUE

\* handleListAllCommandSets.  Its button is disabled while loading or running.
RefreshList(c) ==
    /\ ~loading /\ ~IsRunning
    /\ \/ /\ mode = "local"
          /\ LoadFromServer(c)
          /\ Track(c, OnlyLoads)
       \/ /\ mode = "cloud"
          /\ Issue(c, CloudCall("devices", selected))
          /\ IF selected = NoDevice THEN UNCHANGED <<mixed, solo>> ELSE Track(c, FALSE)
          /\ UNCHANGED loading
    /\ UNCHANGED <<mode, selected, devices, commandSets, reload, monitor, local, execVars>>

\* refreshDevices alone: the button of the sidebar, or 100 ms after a new cloud
\* address was saved, whatever the mode is by then.
RefreshDevices(c) ==
    /\ Issue(c, CloudCall("devices", NoDevice))
    /\ UNCHANGED <<mode, selected, devices, commandSets, loading, reload, monitor, local,
                   mixed, solo, execVars>>

\* Everything that onToggleMode clears.
ClearPage ==
    /\ commandSets' = {} /\ selected' = NoDevice
    /\ ClearExecution
    /\ mixed' = ~Quiet /\ solo' = NoCall

ToggleToCloud(c) ==
    /\ mode = "local" /\ mode' = "cloud"
    /\ ClearPage
    /\ monitor' = MonitorCloud(monitor)
    /\ Issue(c, CloudCall("devices", NoDevice))
    /\ UNCHANGED <<devices, loading, reload, local>>

\* The list is loaded twice: by the effect of useCommandSets, and 100 ms later.
\* Bound: no second toggle to local within those 100 ms.
ToggleToLocal(c) ==
    /\ mode = "cloud" /\ mode' = "local"
    /\ ~reload /\ reload' = TRUE
    /\ ClearPage
    /\ monitor' = MonitorLocal(monitor)
    /\ LoadFromServer(c)
    /\ UNCHANGED <<devices, local>>

\* The 100 ms are over, whatever the mode is now.
ReloadFires(c) ==
    /\ reload /\ reload' = FALSE
    /\ LoadFromServer(c)
    /\ Track(c, OnlyLoads)
    /\ UNCHANGED <<mode, selected, devices, commandSets, monitor, local, execVars>>

\* handleSelectDevice with another device than the selected one.
SelectDevice(c, d) ==
    /\ mode = "cloud" /\ d \in devices /\ d # selected
    /\ selected' = d
    /\ Issue(c, CloudCall("deviceSets", d))
    /\ Track(c, FALSE)
    /\ UNCHANGED <<mode, devices, commandSets, loading, reload, monitor, local, execVars>>

\* A change that goes to the local agent, whatever the mode is.
Write(c, kind, item) ==
    /\ Issue(c, LocalCall(kind, item))
    /\ loading' = TRUE
    /\ mixed' = (mixed \/ ~Quiet \/ mode = "cloud")
    /\ solo' = NoCall
    /\ UNCHANGED <<mode, selected, devices, commandSets, reload, monitor, local, execVars>>

InUse ==
    {i \in Ids : local[i] # NoSet}
    \cup {i \in Ids : \E d \in Devices : DeviceSets[d][i] # NoSet}
    \cup {x.id : x \in commandSets}
    \cup {calls[c].item.id : c \in Calls}
    \cup UNION {{x.id : x \in calls[c].result} : c \in Calls}

\* createCommandSet, from the editor or to duplicate one, with a new random id.
CreateCommandSet(c, b) ==
    \E i \in Ids \ InUse :
        Write(c, "create", [id |-> i, body |-> b, from |-> "local", how |-> "created"])

\* The panel shows the list, or asks for a device.
ListShown == mode = "local" \/ selected # NoDevice

\* The list disables all buttons of a set that runs.
IsExecuting(x) == IsRunning /\ execution.of = x.id

Clickable(x) == x \in commandSets /\ ListShown /\ ~IsExecuting(x)

\* updateCommandSet, when the set to edit is still in the list.  The editor may
\* have been opened earlier, in another state of the page.
UpdateCommandSet(c, x, b) ==
    /\ x \in commandSets
    /\ Write(c, "update", [x EXCEPT !.body = b])

DeleteCommandSet(c, x) == Clickable(x) /\ Write(c, "delete", x)

\* handleExecuteCommandSet2 in local mode; in cloud mode it only logs.
Execute(q, x) ==
    /\ mode = "local" /\ Clickable(x) /\ Room
    /\ ExecuteCommandSet(q, x.id)
    /\ UNCHANGED listVars

-----------------------------------------------------------------------------
(* The local agent handles a request: done, or failed, which may also mean    *)
(* that it was done and could not be saved, or that the answer was lost.      *)

Applied(item, kind) ==
    [local EXCEPT ![item.id] = IF kind = "delete" THEN NoSet ELSE item.body]

AgentAnswers(c) ==
    LET kind == calls[c].kind
        item == calls[c].item
        Phase(p) == calls' = [calls EXCEPT ![c].phase = p]
    IN
    /\ kind \in {"load"} \cup Writes
    /\ calls[c].phase = "sent"
    /\ \/ /\ kind = "load"
          /\ calls' = [calls EXCEPT ![c].phase = "done", ![c].result = Listing("local")]
          /\ UNCHANGED <<local, mixed>>
       \/ /\ kind \in Writes
          /\ kind = "create" \/ local[item.id] # NoSet
          /\ local' = Applied(item, kind)
          /\ \/ Phase("done") /\ UNCHANGED mixed
             \/ Phase("failed") /\ mixed' = TRUE
       \/ Phase("failed") /\ UNCHANGED <<local, mixed>>
    /\ UNCHANGED <<mode, selected, devices, commandSets, loading, reload, monitor, solo, execVars>>

-----------------------------------------------------------------------------
(* Answers at the page. *)

\* setCommandSets of createCommandSet, updateCommandSet and deleteCommandSet.
Changed(list, kind, item) ==
    CASE kind = "create" -> list \cup {item}
      [] kind = "update" ->
            {IF x.id = item.id THEN [item EXCEPT !.how = x.how] ELSE x : x \in list}
      [] kind = "delete" -> {x \in list : x.id # item.id}

\* The rest of loadFromServer.
LoadAnswered(c) ==
    /\ calls[c].kind = "load" /\ calls[c].phase # "sent"
    /\ Close(c)
    /\ loading' = FALSE
    /\ commandSets' = IF calls[c].phase = "done" THEN calls[c].result ELSE commandSets
    /\ Untrack(c, calls[c].phase = "done")
    /\ UNCHANGED <<mode, selected, devices, reload, monitor, local, execVars>>

\* The rest of createCommandSet, updateCommandSet and deleteCommandSet.
WriteAnswered(c) ==
    /\ calls[c].kind \in Writes /\ calls[c].phase # "sent"
    /\ Close(c)
    /\ loading' = FALSE
    /\ commandSets' = IF calls[c].phase = "done"
                      THEN Changed(commandSets, calls[c].kind, calls[c].item)
                      ELSE commandSets
    /\ Untrack(c, FALSE)
    /\ UNCHANGED <<mode, selected, devices, reload, monitor, local, execVars>>

\* refreshDevices, and what handleListAllCommandSets does with the device that
\* was selected when it was called.
DevicesAnswered(c) ==
    /\ calls[c].kind = "devices"
    /\ \/ /\ devices' \in SUBSET Devices
          /\ IF calls[c].dev = NoDevice
             THEN Close(c) /\ Untrack(c, FALSE)
             ELSE /\ calls' = [calls EXCEPT ![c] = CloudCall("deviceSets", @.dev)]
                  /\ UNCHANGED <<mixed, solo>>
       \/ devices' = {} /\ Close(c) /\ Untrack(c, FALSE)
    /\ UNCHANGED <<mode, selected, commandSets, loading, reload, monitor, local, execVars>>

\* Mutant of DeviceSetsAnswered: a failed load leaves the list as it was.
DeviceSetsKeepList(c) ==
    /\ calls[c].kind = "deviceSets"
    /\ Close(c)
    /\ commandSets' \in {Listing(calls[c].dev), commandSets}
    /\ Untrack(c, TRUE)
    /\ UNCHANGED <<mode, selected, devices, loading, reload, monitor, local, execVars>>

\* The rest of loadCommandSetsForDevice: the sets of the device, or none.
DeviceSetsAnswered(c) ==
    /\ calls[c].kind = "deviceSets"
    /\ Close(c)
    /\ commandSets' \in {Listing(calls[c].dev), {}}
    /\ Untrack(c, TRUE)
    /\ UNCHANGED <<mode, selected, devices, loading, reload, monitor, local, execVars>>

\* What happens to the execution that is not part of a larger step.
ExecutionStep ==
    /\ \/ \E q \in Runs : ExecutionAnswered(q)
       \/ StopExecution
       \/ execution.status \in Ended /\ ClearExecution
       \/ TimerFires
    /\ UNCHANGED listVars

Next ==
    \/ \E c \in Calls :
        \/ RefreshList(c) \/ RefreshDevices(c) \/ ReloadFires(c)
        \/ ToggleToCloud(c) \/ ToggleToLocal(c)
        \/ \E d \in Devices : SelectDevice(c, d)
        \/ \E b \in Contents : CreateCommandSet(c, b)
        \/ \E x \in commandSets, b \in Contents : UpdateCommandSet(c, x, b)
        \/ \E x \in commandSets : DeleteCommandSet(c, x)
        \/ AgentAnswers(c)
        \/ LoadAnswered(c) \/ WriteAnswered(c)
        \/ DevicesAnswered(c) \/ DeviceSetsAnswered(c)
    \/ \E q \in Runs, x \in commandSets : Execute(q, x)
    \/ ExecutionStep

Spec == Init /\ [][Next]_vars

-----------------------------------------------------------------------------
(* Properties. *)

\* What is in the list is, with that content, at the target, and no id is twice there.
Real(list, from) ==
    /\ \A x \in list : x.from = from /\ Store(from)[x.id] = x.body
    /\ \A x, y \in list : x.id = y.id => x = y

Target == IF mode = "local" THEN "local" ELSE selected

\* When no answer is awaited, the list that the page shows is real.  It holds
\* although loads, changes and switches fail, as long as the user lets each
\* answer come before the next click; or again after a reload that was left alone.
\* mixed says that this was not so: requests overlapped (two loads of the same
\* agent may), a change failed after it was made, or was made in cloud mode.
ShownSetsAreReal == (Quiet /\ ~mixed) => Real(commandSets, Target)

\* One interval checks the connection in local mode and none in cloud mode, and
\* it is the one that stopMonitoring can clear.
OneMonitor ==
    monitor.live = IF mode = "local" THEN {monitor.held} ELSE {}

\* In cloud mode, a list that came from a device came from the selected one
\* (App.tsx 89: "fetch the command sets of the selected device").
ListIsOfSelected ==
    (mode = "cloud" /\ Quiet) =>
        \A x \in commandSets : x.from \in Devices => x.from = selected
=============================================================================
