# Verification of pc-remote-ctrl

TLA+ models of the remote-control system in `src/`, model-checked with TLC and,
where it says so, proved with TLAPS for every value of the constants.

## The system

A browser front end runs *command sets* (named lists of shell scripts) on a PC,
either directly or over the cloud.

```
browser ── grpc-web ──> cloud-middleware ── ConnectAgent stream ──> agent ─┐
   └────── grpc-web ──> unified agent (local server) ──────────────────────┴─> store, executor
```

| component | source | state | operations |
|---|---|---|---|
| GrpcProxy | `cloud-middleware/internal/proxy/proxy.go` | `agentStreams`, `pendingRequests`, `deviceRequests` under one mutex; per stream `sendQ`, `closed`, a `sendLoop` goroutine; per call `respChan`, `errChan` | RegisterAgentStream, UnregisterAgentStream, SendCommandToAgent, HandleCommandResponse, Cleanup |
| ConnectAgent, gateway | `cloud-middleware/internal/grpcserver/services.go` | a `deviceID` per stream | one handler goroutine per stream, five gateway methods, ListDevices, StreamLogs |
| Device manager | `cloud-middleware/internal/device/device.go` | status and lastSeen per device under its own mutex | Register, UpdateStatus, Heartbeat, CheckOfflineDevices |
| Cloud server process | `cloud-middleware/cmd/server/main.go` | none | one-minute ticker, shutdown goroutine |
| Agent, unified agent | `backend/cmd/agent/main.go`, `backend/real_grpc_server.go` | the control stream | connect, 30 s heartbeat, one command at a time; the unified agent serves local gRPC calls too |
| Storage, Controller service | `backend/internal/storage`, `backend/internal/server` | the map of command sets, `commands.json` | Store, Update, Delete, Get, GetAll, Save, Load |
| Executor | `backend/internal/executor` | none | scripts in order, 30 s each, until one fails |
| Page | `frontend/src/App.tsx`, `hooks/useCommandSets.ts`, `components/CommandPanel.tsx`, `CommandSetList.tsx` | mode, selected device, devices, list of command sets, requests in flight, timers | load, create, update, delete, refresh, select a device, toggle the mode |
| Execution hook | `frontend/src/hooks/useCommandSetExecution.ts` | the execution shown, its requests, a 5 s timer | execute, stop, clear |
| Connections | `hooks/useCloudApi.ts`, `hooks/useLocalConnection.ts`, `components/CloudConfigModal.tsx`, `Sidebar.tsx` | address of the cloud and its copy in localStorage, requests in flight, status of both servers, the dialog | refresh, check, configure, toggle the mode, reload |
| Layout | `hooks/useMediaQuery.ts`, `App.tsx`, `components/Sidebar.tsx`, `Topbar.tsx` | width, what the hook knows of it, the strip | resize, expand and close the strip, toggle |
| Console | `hooks/useLogger.ts`, `components/Console.tsx`, `App.tsx` | the log, executions in local and cloud mode | execute, answer, stop, clear |
| Editor | `components/EditorModal.tsx`, `CommandSetEditor.tsx`, `ScriptEditor.tsx`, `App.tsx` | the form, saves in flight | open, edit, save, cancel |
| Theme | `App.tsx` | state, class of the document, localStorage | toggle, transition, render, reload |
| Messages | `frontend/src/proto`, `*.pb.go` | none | create, read and write of each message, services and clients |

How they interact: the handler of a stream calls the proxy and the device
manager; the proxy calls the device manager while it holds its own lock; gateway
calls block in the proxy on two channels and a deadline; the sendLoop and the
handler share the stream; the agent's receive loop and, in the unified agent,
local calls share one store; each save is its own sequence of file operations.

What is hard in it, and therefore what the properties are about (the full list,
line by line, is under `hazards` in `PROJECT.json`):

* An agent reconnects while the old stream is still half-open. Old handler, old
  sendLoop and new handler then all act on the same device id.
* A call looks up its stream, registers itself and enqueues in three separate
  steps; replacement, unregistering, shutdown, a late answer and the deadline
  can fall between any two of them.
* The status of a device is written by handlers, sendLoops, log streams and the
  ticker.
* Saves take a snapshot under the lock and write it without; the process may
  die at any point; a file operation may fail.
* In the front end, requests cannot be cancelled, and their answers are applied
  to whatever the page is by then: another device, another mode, another
  execution, another server, another editor. Timers of earlier states fire into
  later ones, closures see the state from before the `await`, and state, document
  and localStorage are written at different times.
* A request to a device is encoded twice, and so is its answer; defaults are not
  written, and what a script prints need not be a string.

What makes each component correct: the proxy never panics, routes only to streams
that are served, forgets no request in one table, and keeps its promise to
callers; handlers send from one goroutine and end with the device offline; the
health check is eventually right; the file is always one state of the map and has
every acknowledged write; an execution runs one version of its set; the page's
list is that of its target, its execution runs until it is answered, and its timers
can be cleared; what it says of servers, executions and work under way is so; nothing
the user typed, chose or ran gets lost on the way; and what is sent is what arrives.

## Modules

| module | what it is |
|---|---|
| `RemoteCall` | abstract: what a gateway call promises its caller |
| `GrpcProxy` | proxy, ConnectAgent, gateway calls, device status, agents and network |
| `GrpcProxyProofs` | types, invariant of the streams, invariant of the request tables |
| `GrpcProxyRefinement` | invariant of the commands; safety theorems; `GrpcProxy` implements `RemoteCall`; what unroutes a live stream |
| `DurableMap` | abstract: what the store promises as long as saves run one at a time |
| `CommandStore` | storage, controller service, executor, crash and restart |
| `SerialStore` | `CommandStore` with the history that tells serial saves, and its refinement to `DurableMap` |
| `CommandStoreProofs` | invariants, theorems and refinement of both |
| `Execution` | the execution hook: request, answer, stop, clear, timer |
| `ExecutionProofs` | its invariant and theorem |
| `Dashboard` | the page: list, device, mode, changes, monitor; extends `Execution` and composes it with the clicks of the page |
| `DashboardProofs` | types, monitor, that the page implements the execution hook, and that its list is real |
| `Connections` | what the page knows of its two servers, and the configuration dialog |
| `Layout` | what the page has room for; extends `Connections`, whose buttons it shows or hides |
| `ConsoleLog` | the log of executions; extends `Execution`, whose local executions it logs |
| `ConsoleProofs` | that it implements the execution hook, and what the log tells |
| `Editor` | the editor of a command set and its saves |
| `Theme` | the theme over view transitions |
| `FrontEnd` | composes `Theme`, `Layout`, `ConsoleLog` and `Editor` |
| `FrontEndProofs` | theorems of `Layout` with `Connections`, of `Theme` and `Editor`, and of the composition |
| `Wire` | messages and codecs |
| `Relay` | the way of a call over the codecs of `Wire` |
| `RelayProofs` | that the codec is inverse to itself, past older builds too, and that calls say what they mean |
| `MCGrpcProxy`, `MCCommandStore`, `MCDashboard`, `MCFrontEnd`, `MCRelay` | instances for TLC: symmetry sets, the sets that devices have, the part of the page to explore |

### RemoteCall

A call is `idle`, `open`, and then `ok`, `refused` or `failed`. `ran[r][d]` counts
how often device `d` ran command `r`. A command runs at most once, only on the
device its call names, not when the call was refused, and has run when the call
was `ok`. After `failed` it may have run, and may *still* run: the code has no
way to call a command back, and the specification says so instead of hiding it.

### DurableMap

A map, a copy that survives a crash, the write that awaits its answer, and the ids whose last
write was answered "saved". A write changes the map at once; the copy is only ever replaced as
a whole, by what the map is; "saved" means that map and copy agree; "failed" promises nothing, and
the next write that is saved takes the failed one along; a start reads the copy. What the code
has of the steps between (lookup, snapshot, temp file, rename) is not to be seen.

### GrpcProxy

One `s \in Streams` is a ConnectAgent stream with everything that exists once
per stream: agent (`link`, `adev`, `up`, `down`), handler (`hpc`, `hdev`,
`hreq`), AgentStream (`sendQ`, `closed`) and sendLoop (`lpc`, `lmsg`). One
`r \in Requests` is a gateway call with its PendingRequest (`cpc`, `target`,
`via`, `outcome`, `respChan`, `errChan`).

* A critical section of the proxy's mutex is one action. The device manager is
  only called inside such sections or by itself, and its methods are single
  critical sections, so its effects belong to the caller's action.
* A channel operation or a stream operation is one action. A `select` is the
  disjunction of its ready cases: the loop of a closed stream may still take
  from its queue (`SendLoopTake`), and a call with an answer may still time out.
* Channels of capacity one with a non-blocking send are sets: a second value is
  dropped, as in the code.
* A call that waits for room in the queue listens to its deadline only (proxy.go
  137-143). One that is cancelled there has the error in `errChan` and does not look:
  `CancelReachesCall` says where the error is, not that the call wakes up.
  `CloseCancelsCalls` says that whatever closes a stream tells the calls registered
  for it, in the same critical section; a call that looked its stream up before and
  registers after is told by nobody.
* `closed` and `panicked` model `close`: closing twice sets `panicked`.
* Time is abstracted. A deadline (60 s or the client's) may pass, and a client
  may leave, whenever the call waits; the health check may find any set of
  devices (`CheckOfflineDevices(D)`).
* On a broken stream, Recv may still return what had arrived, Send may succeed
  into the void or fail, and the agent may still run what it had received.
* Message payloads, ids and texts are abstracted: the request id is the call.
* `StreamLogs` is the heartbeat that the agent's one log line amounts to. Its
  handler is independent of the control stream, so it may run much later.
* Responses in the model name the request they answer. An agent sends one
  connect, first, as both agents in the repository do.

### CommandStore

One `c \in Clients` is a goroutine that serves requests one after the other: the
receive loop of a cloud connection, or one local gRPC call. `commandSets` is
the map, `file` the file on disk. A write is `Put` (under the lock), then the
steps of Save: `Snapshot`, `CreateTemp`, `WriteTemp`, `Rename`, each of which
another client or a crash may follow; `SaveFails` is the failure of any file
operation. Update and delete check under one lock and write under another
(`WriteChecked`). `Crash` forgets everything but the file. `last` and `past`
are history variables: they record acknowledgements and earlier values of the map
and no action reads them to decide anything.

Requests that change nothing (GetAll, or an id that is not found) are left out.
A temp file left by a crash is never read again, since `os.CreateTemp` always
makes a new name, so the model forgets it; the repository never removes it.

### Execution and Dashboard

A click, with all the state it sets up to the first `await`, is one action; the
rest of the handler is one action per answer, and answers come in any order.
Effects that a state change triggers belong to the action that changes it:
`SetExecution` clears and sets the timer of the effect on the status,
`MonitorCloud` and `MonitorLocal` are the effects of a change of mode, in their
order.

`calls` are the requests that change the list: `load` and the changes go to the
local agent (`phase` says whether it has answered), `devices` and
`deviceSets` to the cloud. `local` is what the local agent has; `DeviceSets` what
the devices have. An entry of the list carries where it came from, so that
properties can say whose it is. `AgentAnswers` is external: it may do what
`CommandStore` may do, in one step, or fail, and a failed change may have been made.

`loose`, `mixed` and `solo` are history variables: `loose` says that a stopped or
cleared execution has not been answered yet; `mixed` that requests
for the list overlapped, that a failed change was made, or that a change was made
in cloud mode; `solo` is the request that was alone since it was sent, and whose
answer ends the mixing. They say exactly how far `RunningIsShown` and
`ShownSetsAreReal` go; everything outside is still a behaviour of the model.

Left out: the order of the list, development mode (which calls updaters and effects
twice), and other users of the same agent. What a connection check displays is in
`Connections`; execution in cloud mode, which changes no state but the log, in
`ConsoleLog`.

### Connections and Layout

`asked[s]` counts the refreshes in flight to each server, `checks` those to the local
agent: answers come in any order and are good or bad. `Render` is the effect of the
dialog on its `currentConfig`, which is a new object in every render of the page.
`ToggleToLocal` sends two checks, one for the click and one for the effect on the mode.
`refreshTimers` counts the 100 ms timers of saved addresses, since nothing keeps a second from
starting (`MaxRefreshes` bounds them too); a save whose `localStorage.setItem` throws changes
nothing. `wide` is the width that the stylesheet follows at once, `isDesktopXL` what the media
query has reported; the two ways to toggle the mode differ in what they do to the strip.
`mixed` says that refreshes overlapped: from then on, for all the code does, the
answer of the older may be the last (`DevicesAreOfServer` excludes it); `widened` that
the page became wide over an expanded strip.

Sidebar.tsx 280 speaks of Escape as a way back to local mode; `App.tsx` always passes
`onClose`, so that Escape only closes, and the model has no such action.

### ConsoleLog

Of the log only what is about executions is modelled: start, steps, end. `seen[q]` is
what the handler's closure holds of `execution.stepResults`, `stepsOf` what the state
holds. Executions in cloud mode know no state of the hook, so several run at once, and
their answers may have no step to log. All steps of an answer are one entry.

### Editor

A session is one opening of the editor. `saves` counts the requests in flight by the
session they were sent from; an answer closes whatever is open (`Close`). A failed answer
does not mean that nothing was saved: the agent may have the set in its map when only the
file could not be written, or the response may be lost. `hidden` counts such answers, up
to `MaxHidden`, and another press of Save then makes a second set.

`written`, `hidden`, `crowded`, `hurried` and `typedLate` are history: the last three are
sessions that began over a save of another, that pressed Save twice, and that were changed
between Save and the answer. What was typed then is discarded by an answer "saved":
`EditsAreKept` says that this, and a crowded session, are the only ways to lose an edit.

### Theme

A view transition is in `opened` until its callback runs and in `toggled` until it
ends. Each click finds out anew whether it opens one, so a click without (`ToggleThemeAtOnce`)
may come in the middle of another. `RenderTheme` is any render of the page: it sets the class
from the state, also in the middle of a transition. `localStorage.setItem` may throw, which
is caught (`Store`): the old theme stays stored. `overlapped` and `unkept` are history;
`unkept` says that the last theme was not stored, or that a transition under way will put
its own back over the one that was.

### Wire and Relay

A message type is a record of its fields, as in the constructor of the generated class; a
message has a value for each field, and the unknown ones. On the wire it is the data sent with
each field number: `Write` and `Decode` are what protobuf-ts generates for every class
(`WriteFlat` and `DecodeFlat` for the messages that others hold, which in these schemas hold none
themselves; with these two levels the codec needs no recursion, and can be proved about).
Wire types, lengths and the order of data with different numbers are abstracted; the default of a
field, which is not written, is not. The order would only tell which of two members of a choice
stays, and no build writes two.

Only what a call needs is there: the messages of the front end's clients, and of `AgentMessage`
and `CloudMessage` the members that carry an answer or a command. What else the streams carry
ends where it arrives, and `GrpcProxy` has it.

`Relay` sends one message: `meant` is what the caller has, `handled` what the service
gets, `answer` and `got` likewise; `gap` is a field that the build in the middle does
not know, in a message or in those it holds. Which messages there are is the constant operator
`Sample`, of which only their types are assumed (`SampleAssumption`). The service clients of the
front end are the index tables they are in the code. The Go side differs in one thing: it refuses
to marshal a string that is not UTF-8 (`Marshals`). When and to whom messages travel is
`GrpcProxy`.

## Runs

All sizes are in the `.cfg` files. `tlc -workers 2 -config X.cfg M` runs one.

| run | question | instance |
|---|---|---|
| `calls` | double close, dead routes, leaked or uncancellable requests; status after the last handler saw its stream end | 1 device, 2 streams, 2 calls, queue of 1 |
| `returns` | every call returns | 1 device, 1 stream with heartbeats, 2 calls, queue of 1 |
| `stops` | refinement of RemoteCall; no sendLoop is forgotten, closed ones end; what unroutes a live stream; closing a stream tells its calls; gone devices become offline; the inductive invariant | 1 device, 2 streams, 1 call, a log line |
| `concurrent` | the file is always one state of the map; an execution runs one version; only overlapping saves lose acknowledged writes, and without them each step is one of `DurableMap` | 2 clients, 1 id, 2 contents, 2 steps, unreadable file |
| `page` | the list is real, a running execution stays shown, one monitor | 2 devices, 2 ids, 2 contents, 2 requests of any kind in flight |
| `parts` | theme, connections and layout, console, editor | 3 transitions; 2 servers, 2 refreshes each, 3 checks; 2 local and 2 cloud executions, 3 log entries at a start; 2 sessions, 2 scripts, 2 saves, 1 failed answer per session that hides a saved set |
| `wire` | requests and answers arrive as meant, also through a gateway that lacks one of their fields | every method, every field empty, default and filled in |
| `replaced` | violated: the end of an old stream removes the new one | 1 device, 2 streams |
| `single_writer` | violated: two goroutines send on one stream | 1 device, 1 stream, 1 call |
| `overtaken` | violated: two saves rename in the wrong order | 2 clients, 2 ids |
| `late_list` | violated: the list of a device no longer selected | 2 devices, 2 requests |
| `steps` | violated: a local execution does not log its own steps | as `parts` |

Why these bounds: the races of the proxy are between two streams of *one*
device, and between calls and one such race; two streams give old and new, and two
calls give one that is cancelled and one that comes too late, and fill a
queue of one. The queue capacity (1024 in the code) only matters as "full". A
second device is only needed for "the wrong device", which the theorems
(`KeepsPromise`, `EndedIsOffline`) have for any number. In
the store, two ids are needed to lose *another* id's write (`overtaken`), two contents to
tell versions apart, two clients for two saves. `BeatCap` bounds the heartbeats
in flight, which are idempotent. Every stream connects once, every call is made once, and a
restart adds nothing to the state.

On the page the races are between two answers, or an answer and a later click:
`MaxInFlight` is 2, counting executions. Two intervals are enough to lose the
handle of one; a device with a set and one without, and two contents, tell the lists
apart. The local agent starts empty, and the run creates what it has. The page
does not toggle to local twice within the 100 ms of its reload timer (`reload`).

The parts of the page that `parts` checks share no variable: no step of one reads or
changes what belongs to another, so that what holds of each holds of all together (theorems
`PartsOfFront`, `FrontIsSafe`). `MCFrontEnd` explores one at a time (`part`) instead of their
product. Two sessions are an editor and the one that opens over its save; three
transitions are one with its callback run, one without, and one more; two refreshes per
server overlap on one server and across two, and two timers run after saved addresses. One hidden
save is enough for the second set that no other press explains.

`serial` (in `SerialStore`) is history: no two writes overlapped, and no file was
unreadable, so far.

Symmetry is used where no run checks liveness; `EditsAreKept` in `parts` and
`StoreIsDurableMap` in `concurrent` are properties of single steps that no permutation tells apart.

A run checks for deadlock unless its `.cfg` says otherwise: `wire`, where a call ends, and
`parts`, where all sessions of the editor may be over. When all streams
and calls are used up the other models still have steps (the offline check of the
device manager, a restart of the agent), as the processes do.

### What the violated runs show

* `replaced` — `UnregisterAgentStream` is keyed by device id. A handler or
  sendLoop of an older stream that fails after the agent reconnected closes and
  removes the live stream, and marks the device offline. The agent notices
  nothing: its stream stays open, and it has no reason to reconnect.
  `UnroutedByClosed` (run `stops`, theorem `OnlyLateEndsUnroute`) shows that
  nothing else can do it but `Cleanup`.
* `single_writer` — the handler sends the ack after it has started the sendLoop.
* `overtaken` — Save's snapshots and renames are not ordered. A write
  that was answered "saved successfully" can be missing from the file, and
  is lost at a restart. `SerialSavesAreDurable` (run `concurrent`, theorem `SerialIsDurable`) shows that
  nothing else can do it.
* `late_list` — two devices are selected one after the other, the second answers
  first, and then the list of the first replaces it: the page shows, edits and runs
  sets under the name of a device that may not have them.
* `steps` — the handler of a local execution logs `execution.stepResults`, and that
  `execution` is the one its closure captured before the `await`: none, or an earlier one.

Further behaviour that the models have and no run singles out:
a call that looked its stream up before a replacement is cancelled by nobody and waits for its
deadline (`CallsReturn` holds: it does return then); the answer of a
stopped execution ends the next one, if that has started; changes in cloud mode go
to the local agent; a reload timer set before a toggle to cloud fills the list
with local sets; a closed sendLoop
may send commands of cancelled calls (the promise allows them to run after
`failed`); a log line can put a disconnected device back online, which is why
`calls` has no log lines and `stops` checks that the status corrects itself; an
update that overlaps a delete makes the set anew; and an unreadable file at a
start is replaced by the next save (`LoadMayFail`). Of the page: the answer of a
save closes the editor that is open by then, whichever it is; Save pressed twice creates two
sets, and so does Save after a failure that hid a saved one; what is typed between Save and its
answer is discarded; an older device list, or its failure, may stay after refreshes overlapped; the text in the
configuration dialog is reset by any render of the page; a page that becomes wide over an
expanded strip keeps its workspace hidden; overlapping transitions may leave the wrong class
until the next render, and a click without a transition, in the middle of one, leaves a theme stored that
the end of the transition takes back from the page. And an execution whose output is not valid UTF-8 has run and is never
answered (`AnswerArrives` says that nothing else is lost).

## Fairness

`FairSpec` assumes weak fairness of each handler, each sendLoop and each
started call (goroutines are scheduled, a blocked Send ends because the agent
reads on or the stream breaks, every call has a deadline), and of the health check
for a device that no handler speaks for any more (the ticker never stops and the
five minutes pass once nothing refreshes lastSeen). Agents and the network owe
nothing: no fairness on connecting, answering, breaking or shutting down.
All other modules assume no fairness: their properties are safety properties.

## Proofs

Assumed: only the named ASSUMEs (sentinels are outside their sets, capacities and
bounds are numbers, messages are of their types). Everything is for arbitrary sets of devices, streams,
requests, ids, contents and clients, finite or not.

`GrpcProxy`. None of the safety properties is inductive as it stands. `IInv` adds
* `Controlled`: fields a program counter relies on are set;
* `RegistersOnce`: a stream carries one connect, first, of its own device, and
  its handler registers it before any sendLoop exists. Without it a second
  registration of the same stream would reopen the argument that a
  registered stream is never closed;
* `CommandInv`: every command is in one place (queue, sendLoop, or network) and
  unrun while it is there, answers are of commands that were run, and outcomes
  say no more than that.

The proof is in four layers, each inductive relative to the ones before: types
(`TypeStep`), streams (`StreamStep`), tables (`TableStep`), commands
(`CommandStep`). From `IInv` follow `NeverPanics`, `RoutesAreServed`,
`TablesStayTogether`, `CancelledCallsKnow`, and, with one step lemma per kind of
action, `KeepsPromise`: `Spec => Promise!Spec`. `InductiveInvariant` is `IInv` itself.
`ClosingTellsCalls` (`CloseCancelsCalls`) is a step property from the same invariant:
a stream is closed only where it is the registered one, whose device the tables name.

On top of `IInv`, `LoopInv` says that a handler past its connect has started its sendLoop and
that every sendLoop started is the registered stream's or closed (`LoopsAreAccountedFor`). So
when `RecvError` or `SendLoopFailed` of a broken stream unregisters a device whose stream is
alive, the broken one is another, and closed: `OnlyLateEndsUnroute`. It follows that
`LiveStreamStaysRouted`, which the code violates, holds in every behaviour in which no closed
stream can still fail while its device has another (`StaysRoutedWithoutLateEnds`): a fix has
only to make the end of a closed stream leave the map alone.

`EndedIsOffline` is `DisconnectedIsOffline` for `Logging = {}`, from a part of its own
(`StatusInv`): a device that is online has a handler that knows its id and has not ended,
and a heartbeat comes behind its connect and from its own device. With log lines the
property is false: that is what `GoneBecomesOffline` is for.

`CommandStore`. `SnapshotInv` (everything on its way to the file was the map
once) gives `StoreTypeCorrect` and `SavesAreAtomic` for any number of clients;
`RunInv` gives `ExecutionsAreOfOneVersion`.

`SerialStore`. `AckedIsDurable` is not inductive: `DurableInv` adds what each step of a save
knows (the snapshot, then the temp file, then the file *is* the map). It is kept by a step
that leaves one writer at most and a start that reads the file (`DurableStep`), which is what
`serial` says; so `SerialIsDurable`, for any number of clients, and `AloneIsDurable` for one client
and a readable file, where `serial` cannot become false. `overtaken` shows that overlapping
saves must be excluded. `PendingInv` (the writer is the author of the last write to its id) is what the
refinement needs in addition: `MapStep` has one case per action, reads, snapshots and temp
files map to stuttering, `Rename` to `Persist`. `ImplementsMap` is `StoreIsDurableMap`, `SerialIsMap` is
`SerialSpec /\ []serial => Durable!Spec`, and `MapIsDurable` says why the abstract map is a promise.

`Execution`. `RunningIsShown` needs `TimerIsForEnded`: a timer that runs only while
something is shown that has ended cannot take away what runs (`RunningStaysShown`).

`Dashboard`. One step lemma, `PageStep`, has a case per action: types of the page,
types of its requests (`CallFacts`, `IssueType`, `CloseType`), the monitor, and that
the step is one of the execution hook or leaves it alone. `PageInv` combines them to
`PageTypeCorrect` and `MonitorIsHeld`; `PageExecutes` is `Spec => ExecSpec`, so that
`PageShowsRunning` follows from `RunningStaysShown`.

`ShownSetsAreReal` speaks only of moments when no answer is awaited, and says nothing of how the
page gets there. `ListInv` does, while nothing is mixed, by what may be in flight: only loads of
the local agent, over a list that is real already (`LoadsOnly`); one change, which the agent has
made or has not (`OneChange`, `ChangeFits`); or, in cloud mode, the one request that replaces the
list (`CloudFetch`), together `UnmixedInv`. `SoloInv` says that a request that was alone since it was
sent asks for what the page now shows, so that its answer may end the mixing. `ListStep` proves it
action by action, and `ShownListIsReal` is the theorem.

`ConsoleLog`. `ConsoleExecutes` maps each step to one of the execution hook. `ExecutionsAreTold`
relates each entry of the log to the next of its request, and the last to what is awaited; it is
inductive with the types and the invariant of the hook (`ConsoleInv`). `TellNext` is the lemma behind
every step: which entry may be appended, and what is awaited then (`ExecutionsToldOnce`).

`Connections` and `Layout`. `DevicesAreOfServer` is not inductive: `LayoutInv` adds that,
until refreshes overlap, at most one is in flight (`OneInFlight`), and that it is to the server
in use unless the timer of a save is pending (`InFlightIsCurrent`). `DevicesAreCurrent`,
`SpinnersAreTrue` and `WorkspaceIsReachable` are theorems of `LayoutSpec`, for any number
of servers, requests and checks.

`Editor`. `EditorInv` follows a session: open means not over (`OpenIsNotOver`), a save is of a
session that was opened, and while saves of a session are in flight, every other session opens
crowded (`OthersCrowd`). What is in flight and what was saved is one save, and those that failed
answers hid, unless Save was pressed again (`OneSave`): `OneSetEach`. While a session has a save in
flight and was not changed since, the last request is what it holds (`SentIsHeld`), so that an
answer closes only what it saved (`ClosesSaved`): `NoEditIsLost`. `OnlyCompleteIsSent` needs the types of
the form (`FormInv`), and `AllFilledIn` of the filter: of a list with no blank script it keeps all.

`Theme`. The queue of transitions decides: as long as none overlap there is one at most, and
`ThemeClickApplies` follows; `ThemeSurvivesReload` needs no such restriction: unless it is
`unkept`, the last entry of `toggled`, or the state when it is empty, is what is stored.

`FrontEnd`. `PartsOfFront` maps a step of the composition to a step of one part and stuttering of
the others; `FrontTypeCorrect` and `FrontIsSafe` (all safety properties of the parts at once,
`EditsAreKept` as a property of steps) then follow from the theorems of the parts.

`Wire`. `ReadsWhatWasWritten`: for every type with distinct field numbers (`Type`) and every message
of it (`IsMessage`), `Decode` undoes `Write`. `Written` says what a build puts on the wire: no default, at most
one member of a choice. What is `Written` for a type is so for the type without a field
(`OlderWritten`), and such items are written on as they were read (`WritesWhatWasRead`); the two give
`OlderBuildPassesOn`. Lemmas about fields (`ReadsField`, `WritesField`) carry both, over those
about the messages within (`ReadsFlat`, `WritesFlat`). No induction is needed: the two levels are
two lemmas, and a list of messages is read element by element. `ControllerTypes` and `DeviceTypes`
show that the messages of the three schemas are of such types.

`Relay`. `RelayInv` says what the wire holds at each stage: the request as meant; a command whose
payload is the request (`CommandInv`); a response whose payload is the answer (`ResponseInv`); the
answer. `OnDeviceCarries` is the step of the gateway: what it takes out of a request and puts into a
command is what the caller put in, also if it does not know a field, and no request at all becomes
an empty one. `GatewayRows` and `UnaryRows` are the tables: each method reaches the service of the
schema, through the gateway, the method number and the agent's router. `RequestsArrive`
and `AnswersArrive` follow, for any messages, where the run has one value beside the default.

Only model-checked: liveness (`CallsReturn`, `SendLoopStops`, `GoneBecomesOffline`), which is
out of the prover's reach under fairness. Every other invariant and action
property of the passing runs is a theorem (`DisconnectedIsOffline` for `Logging = {}`, as in its run).

## Not modelled

* The exit of the cloud server (main returns as soon as the listener is closed, possibly before
  `Cleanup`): what an exit takes away is all state, and every order of `Cleanup` with the other
  steps is modelled, as is a server on which it never runs.
* The acks of `StreamLogs`: the one client sends a single line with End and reads none.
* `lastSeen` as time: the check may find any device at any moment, which allows more than
  the clock does.
* The race on `Status` in `ListDevices`, and the two concurrent senders of the agent's control
  stream: what happens then is up to the Go runtime and to gRPC.
* The agent's exit after a Recv error: nothing reconnects it, and a new process is a new stream.
* An end-to-end composition of `GrpcProxy` with `CommandStore` ("ok" of a StoreOnDevice call
  means durable): their state spaces multiply. `RemoteCall` ("ok" means the agent has run the
  command) and `SerialIsMap` (while it saves one at a time, what it answered is in the file) meet at the
  agent's `AgentExecute`, whose one command at a time is the one client.
* `CommandGrid`, `CommandList`, `LogDisplay` and `Toolbar`, which nothing imports; rendering,
  scrolling, styles; CORS and HTTP plumbing; wire types and varints.
