----------------------------- MODULE GrpcProxy -----------------------------
(***************************************************************************)
(* The control plane of cloud-middleware: GrpcProxy (internal/proxy), the  *)
(* ConnectAgent handler and the gateway calls that use it                  *)
(* (internal/grpcserver), and the device status they keep                  *)
(* (internal/device).                                                      *)
(*                                                                         *)
(* A member s of Streams is one ConnectAgent stream over its whole life,   *)
(* with everything that exists once per stream: the agent process that     *)
(* opened it, the server handler that reads it (a goroutine), the          *)
(* AgentStream object and the sendLoop goroutine made by                   *)
(* RegisterAgentStream.  Agents send one connect message per stream.  A    *)
(* member r of Requests is one gateway call, its request id and its        *)
(* PendingRequest object: generateRequestID makes ids that do not repeat.  *)
(* An agent that reconnects does so with a new stream for the same device. *)
(*                                                                         *)
(* Definitions whose comment starts with "Mutant of" are bugs that the code *)
(* does not have; each shows that a property can be violated.              *)
(*                                                                         *)
(* Locking.  A critical section of p.mu (and, inside it, of the device     *)
(* manager's mutex) is one action; a send or receive on a channel or a     *)
(* stream is one action.  Everything else interleaves.                     *)
(***************************************************************************)
EXTENDS Naturals, Sequences, FiniteSets

CONSTANTS
    Devices,    \* device ids
    Streams,    \* control streams that agents may open
    Requests,   \* gateway calls
    NoDevice, NoStream, NoRequest,
    SendQCap,   \* capacity of AgentStream.sendQ (1024 in the code)
    Beating,    \* the streams whose agent lives to its 30 s heartbeat tick
    BeatCap,    \* bound: an agent beats only while fewer messages are in flight
    Logging     \* the streams whose agent runs with LOGS_ENABLE=true

ASSUME SentinelAssumption ==
    /\ NoDevice \notin Devices
    /\ NoStream \notin Streams
    /\ NoRequest \notin Requests

ASSUME CapAssumption == SendQCap \in Nat \ {0} /\ BeatCap \in Nat

VARIABLES
    \* device.Manager
    status,           \* device -> "unknown", "online" or "offline"
    \* proxy.GrpcProxy
    agentStreams,     \* device -> registered stream, or NoStream
    pendingRequests,  \* ids with an entry in pendingRequests
    deviceRequests,   \* device -> ids of its requests ({}: no entry)
    \* AgentStream and its sendLoop
    sendQ,            \* stream -> queued commands
    closed,           \* streams whose closed channel is closed
    panicked,         \* a closed channel was closed again
    lpc,              \* sendLoop: "off", "select", "sending", "done"
    lmsg,             \* command the sendLoop is sending, or NoRequest
    \* the ConnectAgent handler
    hpc,              \* "recv", "register", "ack", "deliver", "done", "failed"
    hdev,             \* its deviceID variable
    hreq,             \* request whose PendingRequest it looked up
    \* SendCommandToAgent
    cpc,              \* "idle", "register", "enqueue", "wait", "cleanup", "done"
    target,           \* device the call is for
    via,              \* the AgentStream the call looked up
    outcome,          \* "none", "ok", "refused", "failed"
    respChan,         \* requests whose respChan holds a response
    errChan,          \* requests whose errChan holds an error
    \* the network and the agents
    link,             \* stream -> "none", "open", "broken"
    adev,             \* device id of the agent that opened the stream
    up,               \* stream -> messages from the agent to the cloud
    down,             \* stream -> commands from the cloud to the agent
    ran,              \* ran[r][d]: times the agent of d ran command r
    logged,           \* streams whose agent's one log line has been handled
    \* main
    shutdown          \* Cleanup has run

managerVars == <<status>>
tableVars   == <<agentStreams, pendingRequests, deviceRequests>>
loopVars    == <<lpc, lmsg>>
handlerVars == <<hpc, hdev, hreq>>
callVars    == <<cpc, target, via, outcome>>
netVars     == <<link, adev, up, down, ran, logged>>

vars == <<status, agentStreams, pendingRequests, deviceRequests, sendQ, closed,
          panicked, lpc, lmsg, hpc, hdev, hreq, cpc, target, via, outcome,
          respChan, errChan, link, adev, up, down, ran, logged,
          shutdown>>

Message ==
    [typ : {"connect", "heartbeat"}, dev : Devices]
        \cup [typ : {"response"}, req : Requests]

Connect(d)   == [typ |-> "connect", dev |-> d]
Heartbeat(d) == [typ |-> "heartbeat", dev |-> d]
Response(r)  == [typ |-> "response", req |-> r]

NeverRan == [d \in Devices |-> 0]

TypeOK ==
    /\ status \in [Devices -> {"unknown", "online", "offline"}]
    /\ agentStreams \in [Devices -> Streams \cup {NoStream}]
    /\ pendingRequests \in SUBSET Requests
    /\ deviceRequests \in [Devices -> SUBSET Requests]
    /\ sendQ \in [Streams -> Seq(Requests)]
    /\ closed \in SUBSET Streams
    /\ panicked \in BOOLEAN
    /\ lpc \in [Streams -> {"off", "select", "sending", "done"}]
    /\ lmsg \in [Streams -> Requests \cup {NoRequest}]
    /\ hpc \in [Streams -> {"recv", "register", "ack", "deliver", "done", "failed"}]
    /\ hdev \in [Streams -> Devices \cup {NoDevice}]
    /\ hreq \in [Streams -> Requests \cup {NoRequest}]
    /\ cpc \in [Requests -> {"idle", "register", "enqueue", "wait", "cleanup", "done"}]
    /\ target \in [Requests -> Devices \cup {NoDevice}]
    /\ via \in [Requests -> Streams \cup {NoStream}]
    /\ outcome \in [Requests -> {"none", "ok", "refused", "failed"}]
    /\ respChan \in SUBSET Requests
    /\ errChan \in SUBSET Requests
    /\ link \in [Streams -> {"none", "open", "broken"}]
    /\ adev \in [Streams -> Devices \cup {NoDevice}]
    /\ up \in [Streams -> Seq(Message)]
    /\ down \in [Streams -> Seq(Requests)]
    /\ ran \in [Requests -> [Devices -> Nat]]
    /\ logged \in SUBSET Streams
    /\ shutdown \in BOOLEAN

Init ==
    /\ status = [d \in Devices |-> "unknown"]
    /\ agentStreams = [d \in Devices |-> NoStream]
    /\ pendingRequests = {}
    /\ deviceRequests = [d \in Devices |-> {}]
    /\ sendQ = [s \in Streams |-> <<>>]
    /\ closed = {}
    /\ panicked = FALSE
    /\ lpc = [s \in Streams |-> "off"]
    /\ lmsg = [s \in Streams |-> NoRequest]
    /\ hpc = [s \in Streams |-> "recv"]
    /\ hdev = [s \in Streams |-> NoDevice]
    /\ hreq = [s \in Streams |-> NoRequest]
    /\ cpc = [r \in Requests |-> "idle"]
    /\ target = [r \in Requests |-> NoDevice]
    /\ via = [r \in Requests |-> NoStream]
    /\ outcome = [r \in Requests |-> "none"]
    /\ respChan = {}
    /\ errChan = {}
    /\ link = [s \in Streams |-> "none"]
    /\ adev = [s \in Streams |-> NoDevice]
    /\ up = [s \in Streams |-> <<>>]
    /\ down = [s \in Streams |-> <<>>]
    /\ ran = [r \in Requests |-> NeverRan]
    /\ logged = {}
    /\ shutdown = FALSE

-----------------------------------------------------------------------------
(* Critical sections of p.mu that several operations share. *)

\* The device manager ignores a device it does not know.
UpdateStatus(d, st) ==
    status' = IF status[d] = "unknown" THEN status
              ELSE [status EXCEPT ![d] = st]

\* close(as.closed) for every stream of S; closing twice panics.
CloseStreams(S) ==
    /\ closed' = closed \cup S
    /\ panicked' = (panicked \/ S \cap closed # {})

\* The stream registered for d, as a set of at most one element.
Registered(d) == {agentStreams[d]} \ {NoStream}

\* cancelAllForDeviceLocked: the error goes in without blocking, so a full
\* errChan keeps its old error.
CancelAllForDevice(d) ==
    /\ errChan' = errChan \cup (deviceRequests[d] \cap pendingRequests)
    /\ pendingRequests' = pendingRequests \ deviceRequests[d]
    /\ deviceRequests' = [deviceRequests EXCEPT ![d] = {}]

\* Mutant of UnregisterAgentStream: forgets delete(p.agentStreams, deviceID).
UnregisterKeepsEntry(d) ==
    /\ CloseStreams(Registered(d))
    /\ UNCHANGED agentStreams
    /\ CancelAllForDevice(d)
    /\ UpdateStatus(d, "offline")

\* Keyed by device: whichever stream is registered for d is closed and
\* removed, the caller's own or not.
UnregisterAgentStream(d) ==
    /\ CloseStreams(Registered(d))
    /\ agentStreams' = [agentStreams EXCEPT ![d] = NoStream]
    /\ CancelAllForDevice(d)
    /\ UpdateStatus(d, "offline")

-----------------------------------------------------------------------------
(* Agents and the network (the two ends of a gRPC stream). *)

\* An agent process opens its stream and sends its connect message.  Nothing
\* keeps two streams of one device apart: the earlier one may be half-open.
AgentConnect(s, d) ==
    /\ link[s] = "none"
    /\ link' = [link EXCEPT ![s] = "open"]
    /\ adev' = [adev EXCEPT ![s] = d]
    /\ up' = [up EXCEPT ![s] = <<Connect(d)>>]
    /\ UNCHANGED <<managerVars, tableVars, sendQ, closed, panicked, loopVars,
                   handlerVars, callVars, respChan, errChan, down, ran, logged, shutdown>>

AgentHeartbeat(s) ==
    /\ s \in Beating
    /\ link[s] = "open"
    /\ Len(up[s]) < BeatCap
    /\ up' = [up EXCEPT ![s] = Append(@, Heartbeat(adev[s]))]
    /\ UNCHANGED <<managerVars, tableVars, sendQ, closed, panicked, loopVars,
                   handlerVars, callVars, respChan, errChan, link, adev, down,
                   ran, logged, shutdown>>

\* The agent's receive loop takes one command, runs it and sends the response.
\* No response leaves when the handler returns an error or the Send fails.
\* Commands that arrived before the stream broke may still be run after it.
AgentExecute(s) ==
    /\ down[s] # <<>>
    /\ down' = [down EXCEPT ![s] = Tail(@)]
    /\ ran' = [ran EXCEPT ![Head(down[s])][adev[s]] = @ + 1]
    /\ \/ /\ link[s] = "open"
          /\ up' = [up EXCEPT ![s] = Append(@, Response(Head(down[s])))]
       \/ UNCHANGED up
    /\ UNCHANGED <<managerVars, tableVars, sendQ, closed, panicked, loopVars,
                   handlerVars, callVars, respChan, errChan, link, adev, logged, shutdown>>

\* The agent exits or the connection is lost.
BreakLink(s) ==
    /\ link[s] = "open"
    /\ link' = [link EXCEPT ![s] = "broken"]
    /\ UNCHANGED <<managerVars, tableVars, sendQ, closed, panicked, loopVars,
                   handlerVars, callVars, respChan, errChan, adev, up, down,
                   ran, logged, shutdown>>

-----------------------------------------------------------------------------
(* ConnectAgent. *)

\* stream.Recv returns a message.  On a broken stream it may also return what
\* had arrived before the error.
Receive(s, typ) ==
    /\ hpc[s] = "recv"
    /\ up[s] # <<>>
    /\ Head(up[s]).typ = typ
    /\ up' = [up EXCEPT ![s] = Tail(@)]

\* deviceID = ...; devMgr.Register.
HandleConnect(s) ==
    /\ Receive(s, "connect")
    /\ LET d == Head(up[s]).dev IN
        /\ hdev' = [hdev EXCEPT ![s] = d]
        /\ status' = [status EXCEPT ![d] = "online"]
    /\ hpc' = [hpc EXCEPT ![s] = "register"]
    /\ UNCHANGED <<tableVars, sendQ, closed, panicked, loopVars, hreq, callVars,
                   respChan, errChan, link, adev, down, ran, logged, shutdown>>

\* Mutant of RegisterAgentStream: overwrites the entry without close(old.closed).
RegisterLeavesOld(s) ==
    LET d == hdev[s] IN
    /\ hpc[s] = "register"
    /\ IF agentStreams[d] = NoStream
       THEN UNCHANGED <<errChan, pendingRequests, deviceRequests>>
       ELSE CancelAllForDevice(d)
    /\ agentStreams' = [agentStreams EXCEPT ![d] = s]
    /\ UpdateStatus(d, "online")
    /\ lpc' = [lpc EXCEPT ![s] = "select"]
    /\ hpc' = [hpc EXCEPT ![s] = "ack"]
    /\ UNCHANGED <<sendQ, closed, panicked, lmsg, hdev, hreq, callVars, respChan,
                   netVars, shutdown>>

\* Mutant of RegisterAgentStream: closes the old stream without cancelling its calls.
RegisterWithoutCancel(s) ==
    LET d == hdev[s] IN
    /\ hpc[s] = "register"
    /\ CloseStreams(Registered(d))
    /\ agentStreams' = [agentStreams EXCEPT ![d] = s]
    /\ UpdateStatus(d, "online")
    /\ lpc' = [lpc EXCEPT ![s] = "select"]
    /\ hpc' = [hpc EXCEPT ![s] = "ack"]
    /\ UNCHANGED <<errChan, pendingRequests, deviceRequests, sendQ, lmsg, hdev, hreq, callVars,
                   respChan, netVars, shutdown>>

\* Replaces the device's stream, cancels its requests and starts the sendLoop.
RegisterAgentStream(s) ==
    LET d == hdev[s] IN
    /\ hpc[s] = "register"
    /\ CloseStreams(Registered(d))
    /\ IF agentStreams[d] = NoStream
       THEN UNCHANGED <<errChan, pendingRequests, deviceRequests>>
       ELSE CancelAllForDevice(d)
    /\ agentStreams' = [agentStreams EXCEPT ![d] = s]
    /\ UpdateStatus(d, "online")
    /\ lpc' = [lpc EXCEPT ![s] = "select"]
    /\ hpc' = [hpc EXCEPT ![s] = "ack"]
    /\ UNCHANGED <<sendQ, lmsg, hdev, hreq, callVars, respChan, netVars, shutdown>>

\* stream.Send(ack) from the handler's goroutine.  On an error the handler
\* returns without unregistering.  The agent only logs an ack.
SendAck(s) ==
    /\ hpc[s] = "ack"
    /\ \/ hpc' = [hpc EXCEPT ![s] = "recv"]
       \/ /\ link[s] = "broken"
          /\ hpc' = [hpc EXCEPT ![s] = "failed"]
    /\ UNCHANGED <<managerVars, tableVars, sendQ, closed, panicked, loopVars,
                   hdev, hreq, callVars, respChan, errChan, netVars, shutdown>>

HandleHeartbeat(s) ==
    /\ Receive(s, "heartbeat")
    /\ UpdateStatus(Head(up[s]).dev, "online")
    /\ UNCHANGED <<tableVars, sendQ, closed, panicked, loopVars, handlerVars,
                   callVars, respChan, errChan, link, adev, down, ran, logged, shutdown>>

\* HandleCommandResponse, first half: the lookup under RLock.
HandleResponse(s) ==
    /\ Receive(s, "response")
    /\ LET r == Head(up[s]).req IN
        IF r \in pendingRequests
        THEN /\ hreq' = [hreq EXCEPT ![s] = r]
             /\ hpc' = [hpc EXCEPT ![s] = "deliver"]
        ELSE UNCHANGED <<hreq, hpc>>
    /\ UNCHANGED <<managerVars, tableVars, sendQ, closed, panicked, loopVars,
                   hdev, callVars, respChan, errChan, link, adev, down, ran,
                   logged, shutdown>>

\* Second half: the non-blocking send to the PendingRequest it found, which may
\* be cancelled or abandoned by now.
DeliverResponse(s) ==
    /\ hpc[s] = "deliver"
    /\ respChan' = respChan \cup {hreq[s]}
    /\ hreq' = [hreq EXCEPT ![s] = NoRequest]
    /\ hpc' = [hpc EXCEPT ![s] = "recv"]
    /\ UNCHANGED <<managerVars, tableVars, sendQ, closed, panicked, loopVars,
                   hdev, callVars, errChan, netVars, shutdown>>

\* Mutant of RecvError: returns without unregistering.
RecvErrorReturns(s) ==
    /\ hpc[s] = "recv"
    /\ link[s] = "broken"
    /\ hpc' = [hpc EXCEPT ![s] = "done"]
    /\ UNCHANGED <<managerVars, tableVars, sendQ, closed, panicked, loopVars,
                   hdev, hreq, callVars, respChan, errChan, netVars, shutdown>>

\* Mutant of RecvError: gives up on a stream that is silent, not only on one
\* that has broken.
RecvErrorOrIdle(s) ==
    /\ hpc[s] = "recv"
    /\ up[s] = <<>>
    /\ hpc' = [hpc EXCEPT ![s] = "done"]
    /\ IF hdev[s] # NoDevice
       THEN UnregisterAgentStream(hdev[s])
       ELSE UNCHANGED <<managerVars, tableVars, closed, panicked, errChan>>
    /\ UNCHANGED <<sendQ, loopVars, hdev, hreq, callVars, respChan, netVars,
                   shutdown>>

\* stream.Recv fails: unregister by device id, if a connect was handled.
RecvError(s) ==
    /\ hpc[s] = "recv"
    /\ link[s] = "broken"
    /\ hpc' = [hpc EXCEPT ![s] = "done"]
    /\ IF hdev[s] # NoDevice
       THEN UnregisterAgentStream(hdev[s])
       ELSE UNCHANGED <<managerVars, tableVars, closed, panicked, errChan>>
    /\ UNCHANGED <<sendQ, loopVars, hdev, hreq, callVars, respChan, netVars,
                   shutdown>>

-----------------------------------------------------------------------------
(* StreamLogs, for the one log line that an agent sends after its connect: the *)
(* heartbeat it counts as.  It runs in its own handler, at any later time.     *)

StreamLogs(s) ==
    /\ s \in Logging \ logged
    /\ link[s] # "none"
    /\ logged' = logged \cup {s}
    /\ UpdateStatus(adev[s], "online")
    /\ UNCHANGED <<tableVars, sendQ, closed, panicked, loopVars, handlerVars,
                   callVars, respChan, errChan, link, adev, up, down, ran,
                   shutdown>>

-----------------------------------------------------------------------------
(* sendLoop.  Its select takes either ready case. *)

\* Mutant of SendLoopClosed: a loop that only ranges over sendQ.
SendLoopIgnoresClosed(s) == FALSE

SendLoopClosed(s) ==
    /\ lpc[s] = "select"
    /\ s \in closed
    /\ lpc' = [lpc EXCEPT ![s] = "done"]
    /\ UNCHANGED <<managerVars, tableVars, sendQ, closed, panicked, lmsg,
                   handlerVars, callVars, respChan, errChan, netVars, shutdown>>

SendLoopTake(s) ==
    /\ lpc[s] = "select"
    /\ sendQ[s] # <<>>
    /\ lmsg' = [lmsg EXCEPT ![s] = Head(sendQ[s])]
    /\ sendQ' = [sendQ EXCEPT ![s] = Tail(@)]
    /\ lpc' = [lpc EXCEPT ![s] = "sending"]
    /\ UNCHANGED <<managerVars, tableVars, closed, panicked, handlerVars,
                   callVars, respChan, errChan, netVars, shutdown>>

\* Send succeeds; on a stream that has broken what was sent is lost.
SendLoopSent(s) ==
    /\ lpc[s] = "sending"
    /\ lpc' = [lpc EXCEPT ![s] = "select"]
    /\ lmsg' = [lmsg EXCEPT ![s] = NoRequest]
    /\ down' = IF link[s] = "open" THEN [down EXCEPT ![s] = Append(@, lmsg[s])]
               ELSE down
    /\ UNCHANGED <<managerVars, tableVars, sendQ, closed, panicked, handlerVars,
                   callVars, respChan, errChan, link, adev, up, ran, logged, shutdown>>

\* Mutant of SendLoopFailed: stops without unregistering.
SendLoopDies(s) ==
    /\ lpc[s] = "sending"
    /\ link[s] = "broken"
    /\ lpc' = [lpc EXCEPT ![s] = "done"]
    /\ lmsg' = [lmsg EXCEPT ![s] = NoRequest]
    /\ UNCHANGED <<managerVars, tableVars, sendQ, closed, panicked, handlerVars,
                   callVars, respChan, errChan, netVars, shutdown>>

\* Send fails: unregister by device id and stop.
SendLoopFailed(s) ==
    /\ lpc[s] = "sending"
    /\ link[s] = "broken"
    /\ lpc' = [lpc EXCEPT ![s] = "done"]
    /\ lmsg' = [lmsg EXCEPT ![s] = NoRequest]
    /\ UnregisterAgentStream(hdev[s])
    /\ UNCHANGED <<sendQ, handlerVars, callVars, respChan, netVars, shutdown>>

-----------------------------------------------------------------------------
(* SendCommandToAgent, called by each of the five gateway methods. *)

\* "agent not connected": nothing was registered, nothing to clean up.
CallRefused(r, d) ==
    /\ cpc[r] = "idle"
    /\ agentStreams[d] = NoStream
    /\ target' = [target EXCEPT ![r] = d]
    /\ outcome' = [outcome EXCEPT ![r] = "refused"]
    /\ cpc' = [cpc EXCEPT ![r] = "done"]
    /\ UNCHANGED <<managerVars, tableVars, sendQ, closed, panicked, loopVars,
                   handlerVars, via, respChan, errChan, netVars, shutdown>>

\* Mutant of CallLookup: keeps the device id instead of its stream.
CallLookupKeepsId(r, d) ==
    /\ cpc[r] = "idle"
    /\ agentStreams[d] # NoStream
    /\ target' = [target EXCEPT ![r] = d]
    /\ via' = [via EXCEPT ![r] = d]
    /\ cpc' = [cpc EXCEPT ![r] = "register"]
    /\ UNCHANGED <<managerVars, tableVars, sendQ, closed, panicked, loopVars,
                   handlerVars, outcome, respChan, errChan, netVars, shutdown>>

\* Remembers the stream and lets go of the lock.
CallLookup(r, d) ==
    /\ cpc[r] = "idle"
    /\ agentStreams[d] # NoStream
    /\ target' = [target EXCEPT ![r] = d]
    /\ via' = [via EXCEPT ![r] = agentStreams[d]]
    /\ cpc' = [cpc EXCEPT ![r] = "register"]
    /\ UNCHANGED <<managerVars, tableVars, sendQ, closed, panicked, loopVars,
                   handlerVars, outcome, respChan, errChan, netVars, shutdown>>

RegisterPending(r) ==
    /\ cpc[r] = "register"
    /\ pendingRequests' = pendingRequests \cup {r}
    /\ deviceRequests' = [deviceRequests EXCEPT ![target[r]] = @ \cup {r}]
    /\ cpc' = [cpc EXCEPT ![r] = "enqueue"]
    /\ UNCHANGED <<managerVars, agentStreams, sendQ, closed, panicked, loopVars,
                   handlerVars, target, via, outcome, respChan, errChan,
                   netVars, shutdown>>

Enqueue(r) ==
    /\ cpc[r] = "enqueue"
    /\ Len(sendQ[via[r]]) < SendQCap
    /\ sendQ' = [sendQ EXCEPT ![via[r]] = Append(@, r)]
    /\ cpc' = [cpc EXCEPT ![r] = "wait"]
    /\ UNCHANGED <<managerVars, tableVars, closed, panicked, loopVars,
                   handlerVars, target, via, outcome, respChan, errChan,
                   netVars, shutdown>>

\* Mutant of EnqueueTimeout: a plain send to sendQ, without ctx.Done.
EnqueueIgnoresContext(r) == FALSE

\* ctx.Done: the deadline (60 s unless the client set one) or a client that
\* went away.
EnqueueTimeout(r) ==
    /\ cpc[r] = "enqueue"
    /\ outcome' = [outcome EXCEPT ![r] = "refused"]
    /\ cpc' = [cpc EXCEPT ![r] = "cleanup"]
    /\ UNCHANGED <<managerVars, tableVars, sendQ, closed, panicked, loopVars,
                   handlerVars, target, via, respChan, errChan, netVars, shutdown>>

AwaitResponse(r) ==
    /\ cpc[r] = "wait"
    /\ r \in respChan
    /\ respChan' = respChan \ {r}
    /\ outcome' = [outcome EXCEPT ![r] = "ok"]
    /\ cpc' = [cpc EXCEPT ![r] = "cleanup"]
    /\ UNCHANGED <<managerVars, tableVars, sendQ, closed, panicked, loopVars,
                   handlerVars, target, via, errChan, netVars, shutdown>>

AwaitError(r) ==
    /\ cpc[r] = "wait"
    /\ r \in errChan
    /\ errChan' = errChan \ {r}
    /\ outcome' = [outcome EXCEPT ![r] = "failed"]
    /\ cpc' = [cpc EXCEPT ![r] = "cleanup"]
    /\ UNCHANGED <<managerVars, tableVars, sendQ, closed, panicked, loopVars,
                   handlerVars, target, via, respChan, netVars, shutdown>>

\* Mutant of AwaitTimeout: reports that the command did not go out.
AwaitTimeoutRefuses(r) ==
    /\ cpc[r] = "wait"
    /\ outcome' = [outcome EXCEPT ![r] = "refused"]
    /\ cpc' = [cpc EXCEPT ![r] = "cleanup"]
    /\ UNCHANGED <<managerVars, tableVars, sendQ, closed, panicked, loopVars,
                   handlerVars, target, via, respChan, errChan, netVars, shutdown>>

AwaitTimeout(r) ==
    /\ cpc[r] = "wait"
    /\ outcome' = [outcome EXCEPT ![r] = "failed"]
    /\ cpc' = [cpc EXCEPT ![r] = "cleanup"]
    /\ UNCHANGED <<managerVars, tableVars, sendQ, closed, panicked, loopVars,
                   handlerVars, target, via, respChan, errChan, netVars, shutdown>>

\* Mutant of CleanupRequest: leaves the id in deviceRequests.
CleanupRequestHalf(r) ==
    /\ cpc[r] = "cleanup"
    /\ pendingRequests' = pendingRequests \ {r}
    /\ cpc' = [cpc EXCEPT ![r] = "done"]
    /\ UNCHANGED <<managerVars, agentStreams, deviceRequests, sendQ, closed,
                   panicked, loopVars, handlerVars, target, via, outcome,
                   respChan, errChan, netVars, shutdown>>

CleanupRequest(r) ==
    /\ cpc[r] = "cleanup"
    /\ pendingRequests' = pendingRequests \ {r}
    /\ deviceRequests' = [deviceRequests EXCEPT ![target[r]] = @ \ {r}]
    /\ cpc' = [cpc EXCEPT ![r] = "done"]
    /\ UNCHANGED <<managerVars, agentStreams, sendQ, closed, panicked, loopVars,
                   handlerVars, target, via, outcome, respChan, errChan,
                   netVars, shutdown>>

-----------------------------------------------------------------------------
(* main: the health-check ticker and the shutdown goroutine. *)

\* Mutant of CheckOfflineDevices: trusts a registered stream to be alive.
CheckUnroutedDevices(D) ==
    /\ status' = [d \in Devices |->
                    IF d \in D /\ agentStreams[d] = NoStream /\ status[d] # "unknown"
                    THEN "offline" ELSE status[d]]
    /\ UNCHANGED <<tableVars, sendQ, closed, panicked, loopVars, handlerVars,
                   callVars, respChan, errChan, netVars, shutdown>>

\* The devices not heard of for 5 minutes, whichever they are.
CheckOfflineDevices(D) ==
    /\ status' = [d \in Devices |->
                    IF d \in D /\ status[d] # "unknown" THEN "offline" ELSE status[d]]
    /\ UNCHANGED <<tableVars, sendQ, closed, panicked, loopVars, handlerVars,
                   callVars, respChan, errChan, netVars, shutdown>>

\* Mutant of Cleanup: drops the pending requests without an error.
CleanupDropsCalls ==
    /\ ~shutdown
    /\ shutdown' = TRUE
    /\ CloseStreams(UNION {Registered(d) : d \in Devices})
    /\ agentStreams' = [d \in Devices |-> NoStream]
    /\ pendingRequests' = {}
    /\ deviceRequests' = [d \in Devices |-> {}]
    /\ UNCHANGED <<managerVars, sendQ, loopVars, handlerVars, callVars, respChan,
                   errChan, netVars>>

Cleanup ==
    /\ ~shutdown
    /\ shutdown' = TRUE
    /\ CloseStreams(UNION {Registered(d) : d \in Devices})
    /\ agentStreams' = [d \in Devices |-> NoStream]
    /\ errChan' = errChan \cup pendingRequests
    /\ pendingRequests' = {}
    /\ deviceRequests' = [d \in Devices |-> {}]
    /\ UNCHANGED <<managerVars, sendQ, loopVars, handlerVars, callVars, respChan,
                   netVars>>

-----------------------------------------------------------------------------
Agent(s) ==
    \/ \E d \in Devices : AgentConnect(s, d)
    \/ AgentHeartbeat(s)
    \/ AgentExecute(s)
    \/ BreakLink(s)

Handler(s) ==
    \/ HandleConnect(s)
    \/ RegisterAgentStream(s)
    \/ SendAck(s)
    \/ HandleHeartbeat(s)
    \/ HandleResponse(s)
    \/ DeliverResponse(s)
    \/ RecvError(s)

SendLoop(s) ==
    \/ SendLoopClosed(s)
    \/ SendLoopTake(s)
    \/ SendLoopSent(s)
    \/ SendLoopFailed(s)

Call(r) ==
    \/ \E d \in Devices : CallRefused(r, d) \/ CallLookup(r, d)
    \/ RegisterPending(r)
    \/ Enqueue(r)
    \/ EnqueueTimeout(r)
    \/ AwaitResponse(r)
    \/ AwaitError(r)
    \/ AwaitTimeout(r)
    \/ CleanupRequest(r)

Next ==
    \/ \E s \in Streams : Agent(s) \/ Handler(s) \/ StreamLogs(s) \/ SendLoop(s)
    \/ \E r \in Requests : Call(r)
    \/ \E D \in SUBSET Devices : CheckOfflineDevices(D)
    \/ Cleanup

Spec == Init /\ [][Next]_vars

-----------------------------------------------------------------------------
(* Fairness.  The server's goroutines are scheduled; a Send ends, because the *)
(* agent reads on (a command step is limited to 30 s) or the stream breaks; a *)
(* call has a deadline; the ticker finds a device that no handler speaks for. *)
(* Agents owe nothing: they may never answer, and need not exist.             *)

\* No handler is left that could refresh d's lastSeen.
Silent(d) ==
    \A s \in Streams : adev[s] = d => hpc[s] \in {"done", "failed"}

HealthCheckFinds(d) ==
    /\ Silent(d)
    /\ status[d] = "online"
    /\ CheckOfflineDevices({d})

Fairness ==
    /\ \A s \in Streams : WF_vars(Handler(s)) /\ WF_vars(SendLoop(s))
    /\ \A r \in Requests : WF_vars(cpc[r] # "idle" /\ Call(r))
    /\ \A d \in Devices : WF_vars(HealthCheckFinds(d))

FairSpec == Spec /\ Fairness

-----------------------------------------------------------------------------
(* Safety. *)

\* The process never dies of closing a closed channel: three places close
\* as.closed (replacement, unregistering, Cleanup), and each finds the stream
\* through agentStreams.
NoPanic == ~panicked

\* A device's registered stream is one that its own handler registered, is not
\* closed, and has a running sendLoop: a command enqueued on it is picked up.
RoutedIsServed ==
    \A d \in Devices : agentStreams[d] # NoStream =>
        LET s == agentStreams[d] IN
        /\ hdev[s] = d
        /\ s \notin closed
        /\ lpc[s] \in {"select", "sending"}
        /\ hpc[s] \notin {"register", "done"}

\* pendingRequests and deviceRequests agree: exactly the requests of calls that
\* have registered, each under the device it is for.  An entry that one table
\* keeps and the other drops is a leak or a call that cannot be cancelled.
TablesAgree ==
    /\ \A r \in pendingRequests :
        /\ cpc[r] \in {"enqueue", "wait", "cleanup"}
        /\ r \in deviceRequests[target[r]]
    /\ \A d \in Devices : \A r \in deviceRequests[d] :
        r \in pendingRequests /\ target[r] = d

\* A call that something else took out of pendingRequests has an error in its
\* errChan, until it takes it: the await select (proxy.go 148-157) is ready then.
\* A call that still waits for room in sendQ (137-143) does not listen to errChan:
\* if the queue stays full it learns nothing before its deadline.
CancelReachesCall ==
    \A r \in Requests :
        cpc[r] \in {"enqueue", "wait"} /\ r \notin pendingRequests => r \in errChan

\* The step that closes the stream of a registered call leaves the call with an
\* error, whether it has enqueued its command by then or not.
ToldOfClosing(r) ==
    cpc[r] \in {"enqueue", "wait"} /\ via[r] \notin closed /\ via[r] \in closed'
        => r \in errChan'

\* No registered call keeps waiting, untold, on a stream that is replaced (proxy.go
\* 53-58), unregistered (78-82) or cleaned up (199-213): the stream it looked up is closed
\* in the critical section that cancels it.  Only a call that registers after its
\* stream was closed (114 and 122) is told by nobody.
CloseCancelsCalls == [][\A r \in Requests : ToldOfClosing(r)]_vars

\* No sendLoop goroutine is left behind: one that was started is the device's
\* own, or has been told to stop, whichever of replacement, Recv error, failed
\* Send and Cleanup took its stream out of agentStreams.
NoLoopLeaks ==
    \A s \in Streams :
        lpc[s] # "off" => s \in closed \/ agentStreams[hdev[s]] = s

\* t has been replaced or unregistered, and its handler or its sendLoop is
\* about to find that it has broken.
ClosedAndFailing(t) ==
    /\ t \in closed
    /\ link[t] = "broken"
    /\ hpc[t] = "recv" \/ lpc[t] = "sending"

\* The step that takes the route of d away from a stream that is alive is a
\* Cleanup, or the end of another stream of d that was closed before.
UnroutesForClosed(d) ==
    LET s == agentStreams[d] IN
    s # NoStream /\ link[s] = "open" /\ agentStreams'[d] = NoStream =>
        \/ ~shutdown /\ shutdown'
        \/ \E t \in Streams \ {s} : hdev[t] = d /\ ClosedAndFailing(t)

\* A live stream is never unrouted by its own handler or sendLoop, nor on
\* behalf of another device, nor of a stream that never was the device's own.
UnroutedByClosed == [][\A d \in Devices : UnroutesForClosed(d)]_vars

\* A device all of whose agents have gone, and whose handlers have all seen it
\* on Recv, is neither listed online nor routed to.
DisconnectedIsOffline ==
    \A d \in Devices :
        (\A s \in Streams : adev[s] = d => hpc[s] = "done")
            => status[d] # "online" /\ agentStreams[d] = NoStream

\* The calls keep the promise of RemoteCall, whatever is replaced, cancelled,
\* lost or shut down: run at most once, only on the device named, never when
\* the caller was refused; "ok" only once the agent has run the command.
CallState(r) ==
    CASE cpc[r] = "idle" -> "idle"
      [] cpc[r] \in {"cleanup", "done"} -> outcome[r]
      [] OTHER -> "open"

Promise == INSTANCE RemoteCall WITH call <- [r \in Requests |-> CallState(r)]

PromiseKept == Promise!Spec

-----------------------------------------------------------------------------
(* The inductive invariant behind NoPanic, RoutedIsServed, TablesAgree and    *)
(* CancelReachesCall: what a program counter says about the data it goes with. *)

Controlled ==
    /\ \A s \in Streams :
        /\ link[s] # "none" => adev[s] \in Devices
        /\ lpc[s] # "off" => hdev[s] \in Devices
        /\ hpc[s] \in {"register", "ack"} => hdev[s] \in Devices
        /\ hpc[s] = "deliver" => hreq[s] \in Requests
        /\ lpc[s] = "sending" => lmsg[s] \in Requests
    /\ \A r \in Requests :
        /\ cpc[r] # "idle" => target[r] \in Devices
        /\ cpc[r] \in {"register", "enqueue", "wait"} => via[r] \in Streams

\* A stream carries one connect, its first message; its handler registers it
\* once, for the device it comes from, and only then does it have a sendLoop.
RegistersOnce ==
    \A s \in Streams :
        /\ link[s] = "none" =>
            up[s] = <<>> /\ hpc[s] = "recv" /\ hdev[s] = NoDevice
        /\ hdev[s] = NoDevice => lpc[s] = "off"
        /\ hpc[s] = "register" => lpc[s] = "off"
        /\ lpc[s] = "off" => s \notin closed
        /\ hdev[s] \in {NoDevice, adev[s]}
        /\ \A i \in 1..Len(up[s]) : up[s][i].typ = "connect" =>
            i = 1 /\ hdev[s] = NoDevice /\ up[s][i].dev = adev[s]

\* What the agent of the right device makes of r by running it once.
RanOnce(r) == [NeverRan EXCEPT ![target[r]] = 1]

\* r is on its way to the agent of s, and nobody has run it.
InTransit(s, r) ==
    /\ via[r] = s
    /\ cpc[r] \in {"wait", "cleanup", "done"}
    /\ outcome[r] \in {"none", "failed"}
    /\ ran[r] = NeverRan

\* The agent has run r, once.
Answered(r) ==
    /\ cpc[r] \in {"wait", "cleanup", "done"}
    /\ ran[r] = RanOnce(r)

\* What is on the stream s: every command in one place only, and answers to
\* commands that have been run.
PlaceInv(s) ==
    /\ \A i \in 1..Len(sendQ[s]) : InTransit(s, sendQ[s][i])
    /\ \A i \in 1..Len(down[s]) : InTransit(s, down[s][i])
    /\ \A i, j \in 1..Len(sendQ[s]) : sendQ[s][i] = sendQ[s][j] => i = j
    /\ \A i, j \in 1..Len(down[s]) : down[s][i] = down[s][j] => i = j
    /\ \A i \in 1..Len(sendQ[s]), j \in 1..Len(down[s]) : sendQ[s][i] # down[s][j]
    /\ lpc[s] = "sending" =>
        /\ InTransit(s, lmsg[s])
        /\ \A i \in 1..Len(sendQ[s]) : sendQ[s][i] # lmsg[s]
        /\ \A i \in 1..Len(down[s]) : down[s][i] # lmsg[s]
    /\ \A i \in 1..Len(up[s]) : up[s][i].typ = "response" => Answered(up[s][i].req)
    /\ hpc[s] = "deliver" => Answered(hreq[s])

\* What the outcome of r says about its runs.
OutcomeInv(r) ==
    /\ cpc[r] \in {"idle", "register", "enqueue"} => ran[r] = NeverRan
    /\ cpc[r] \in {"cleanup", "done"} <=> outcome[r] # "none"
    /\ via[r] \in Streams => cpc[r] # "idle" /\ hdev[via[r]] = target[r]
    /\ r \in respChan => Answered(r)
    /\ outcome[r] = "ok" => Answered(r)
    /\ outcome[r] = "refused" => ran[r] = NeverRan

CommandInv ==
    /\ \A s \in Streams : PlaceInv(s)
    /\ \A r \in Requests : OutcomeInv(r)

IInv ==
    /\ TypeOK
    /\ Controlled
    /\ RegistersOnce
    /\ RoutedIsServed
    /\ NoPanic
    /\ TablesAgree
    /\ CancelReachesCall
    /\ CommandInv

-----------------------------------------------------------------------------
(* Liveness, under FairSpec. *)

\* Every call returns, though its stream may be replaced, its queue full and
\* its sendLoop gone.
CallsReturn == \A r \in Requests : cpc[r] # "idle" ~> cpc[r] = "done"

\* No sendLoop goroutine outlives its stream's closing for good.
SendLoopStops == \A s \in Streams : s \in closed ~> lpc[s] = "done"

\* A device whose agents have all gone does not stay online, even when the
\* handler left without unregistering it.
GoneBecomesOffline ==
    \A d \in Devices :
        LET Gone == \A s \in Streams : adev[s] = d => link[s] = "broken"
        IN Gone ~> (status[d] # "online" \/ ~Gone)

-----------------------------------------------------------------------------
(* What comments of the code say, and the code does not do. *)

\* "Single-writer goroutine" (RegisterAgentStream): one goroutine at a time
\* sends on a stream.
SingleWriter ==
    \A s \in Streams : ~(hpc[s] = "ack" /\ lpc[s] = "sending")

\* "Register/replace the device's stream": a stream that is alive gives its
\* place only to the stream that replaces it.  The end of an older stream of
\* the device does not leave the device without one.
LiveStreamStaysRouted ==
    [][\A d \in Devices :
        agentStreams[d] # NoStream /\ ~shutdown' =>
            (link[agentStreams[d]] = "open" => agentStreams'[d] # NoStream)]_vars

\* What would be needed for that: while a device has a stream, no stream of it
\* that was closed before has a handler or a sendLoop that can still fail.
NoneFailsLate ==
    \A t \in Streams : ClosedAndFailing(t) => agentStreams[hdev[t]] = NoStream
=============================================================================
