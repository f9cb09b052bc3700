-------------------------- MODULE GrpcProxyProofs --------------------------
(* Proofs about GrpcProxy: type correctness, the invariant of the streams     *)
(* (StreamInv) and the invariant of the request tables (TableInv).            *)
EXTENDS GrpcProxy, TLAPS

\* What kind of message carries what.
LEMMA MessageFacts ==
    /\ \A d \in Devices : Connect(d) \in Message /\ Heartbeat(d) \in Message
    /\ \A r \in Requests : Response(r) \in Message
    /\ \A m \in Message :
        /\ m.typ \in {"connect", "heartbeat"} => m.dev \in Devices
        /\ m.typ = "response" => m.req \in Requests
  BY DEF Message, Connect, Heartbeat, Response

\* Recv takes the first message, of the kind that the handler switches on.
LEMMA ReceiveFacts ==
    ASSUME up \in [Streams -> Seq(Message)], NEW s \in Streams, NEW typ, Receive(s, typ)
    PROVE  /\ Head(up[s]) \in Message
           /\ Head(up[s]).typ = typ
           /\ hpc[s] = "recv"
           /\ up' \in [Streams -> Seq(Message)]
           /\ up' = [up EXCEPT ![s] = Tail(@)]
<1>1. up[s] \in Seq(Message) /\ up[s] # <<>>
  BY DEF Receive
<1>2. Head(up[s]) \in Message /\ Tail(up[s]) \in Seq(Message)
  BY <1>1
<1> QED
  BY <1>2 DEF Receive

TableTypes ==
    /\ status \in [Devices -> {"unknown", "online", "offline"}]
    /\ agentStreams \in [Devices -> Streams \cup {NoStream}]
    /\ pendingRequests \in SUBSET Requests
    /\ deviceRequests \in [Devices -> SUBSET Requests]
    /\ closed \in SUBSET Streams
    /\ panicked \in BOOLEAN
    /\ errChan \in SUBSET Requests

\* Unregistering a device keeps the tables well-typed.
LEMMA UnregisterType ==
    ASSUME TableTypes, NEW d \in Devices, UnregisterAgentStream(d)
    PROVE  TableTypes'
  BY DEF TableTypes, UnregisterAgentStream, CloseStreams, Registered, CancelAllForDevice, UpdateStatus

TypeInv == TypeOK /\ Controlled

\* Types, and what the program counters say of the fields next to them,
\* hold at the start.
LEMMA TypeInit == Init => TypeInv
<1> SUFFICES ASSUME Init PROVE TypeInv
  OBVIOUS
<1>1. <<>> \in Seq(Requests) /\ <<>> \in Seq(Message)
  OBVIOUS
<1>2. NeverRan \in [Devices -> Nat]
  BY DEF NeverRan
<1>3. TypeOK
  BY <1>1, <1>2 DEF Init, TypeOK
<1>4. Controlled
  BY DEF Init, Controlled
<1> QED
  BY <1>3, <1>4 DEF TypeInv

\* ... and each step keeps them.
LEMMA TypeStep == TypeInv /\ [Next]_vars => TypeInv'
<1> USE DEF managerVars, tableVars, loopVars, handlerVars, callVars, netVars
<1> SUFFICES ASSUME TypeOK, Controlled, [Next]_vars PROVE TypeOK' /\ Controlled'
  BY DEF TypeInv
<1>1. ASSUME NEW s \in Streams, NEW d \in Devices, AgentConnect(s, d)
      PROVE  TypeOK' /\ Controlled'
  <2>1. <<Connect(d)>> \in Seq(Message)
    BY MessageFacts
  <2>2. TypeOK'
    BY <1>1, <2>1 DEF TypeOK, AgentConnect
  <2>3. Controlled'
    BY <1>1 DEF TypeOK, Controlled, AgentConnect
  <2> QED
    BY <2>2, <2>3
<1>2. ASSUME NEW s \in Streams, AgentHeartbeat(s)
      PROVE  TypeOK' /\ Controlled'
  <2>1. Append(up[s], Heartbeat(adev[s])) \in Seq(Message)
    BY <1>2, MessageFacts DEF TypeOK, Controlled, AgentHeartbeat
  <2>2. TypeOK'
    BY <1>2, <2>1 DEF TypeOK, AgentHeartbeat
  <2>3. Controlled'
    BY <1>2 DEF Controlled, AgentHeartbeat
  <2> QED
    BY <2>2, <2>3
<1>3. ASSUME NEW s \in Streams, AgentExecute(s)
      PROVE  TypeOK' /\ Controlled'
  <2>1. Head(down[s]) \in Requests /\ Tail(down[s]) \in Seq(Requests)
    BY <1>3 DEF TypeOK, AgentExecute
  <2>2. Append(up[s], Response(Head(down[s]))) \in Seq(Message)
    BY <2>1, MessageFacts DEF TypeOK
  <2>3. up' \in [Streams -> Seq(Message)]
    <3>1. up \in [Streams -> Seq(Message)]
      BY DEF TypeOK
    <3>2. up' = [up EXCEPT ![s] = Append(@, Response(Head(down[s])))] \/ up' = up
      BY <1>3 DEF AgentExecute
    <3> QED
      BY <2>2, <3>1, <3>2
  <2>4. ran' \in [Requests -> [Devices -> Nat]]
    <3> DEFINE h == Head(down[s])
    <3>1. ran[h] \in [Devices -> Nat] /\ ran \in [Requests -> [Devices -> Nat]]
      BY <2>1 DEF TypeOK
    <3>2. [ran[h] EXCEPT ![adev[s]] = @ + 1] \in [Devices -> Nat]
      <4>1. CASE adev[s] \in Devices
        BY <3>1, <4>1
      <4>2. CASE adev[s] \notin Devices
        BY <3>1, <4>2
      <4> QED
        BY <4>1, <4>2
    <3>3. ran' = [ran EXCEPT ![h] = [ran[h] EXCEPT ![adev[s]] = @ + 1]]
      BY <1>3 DEF AgentExecute
    <3> QED
      BY <3>1, <3>2, <3>3
  <2>5. TypeOK'
    BY <1>3, <2>1, <2>3, <2>4 DEF TypeOK, AgentExecute
  <2>6. Controlled'
    BY <1>3 DEF Controlled, AgentExecute
  <2> QED
    BY <2>5, <2>6
<1>4. ASSUME NEW s \in Streams, BreakLink(s)
      PROVE  TypeOK' /\ Controlled'
  BY <1>4 DEF TypeOK, Controlled, BreakLink
<1>5. ASSUME NEW s \in Streams, HandleConnect(s)
      PROVE  TypeOK' /\ Controlled'
  <2>1. /\ Head(up[s]) \in Message /\ Head(up[s]).typ = "connect" /\ hpc[s] = "recv"
        /\ up' \in [Streams -> Seq(Message)]
    BY <1>5, ReceiveFacts DEF TypeOK, HandleConnect
  <2>2. Head(up[s]).dev \in Devices
    BY <2>1, MessageFacts
  <2>3. TypeOK'
    BY <1>5, <2>1, <2>2 DEF TypeOK, HandleConnect
  <2>4. Controlled'
    BY <1>5, <2>2 DEF TypeOK, Controlled, HandleConnect
  <2> QED
    BY <2>3, <2>4
<1>6. ASSUME NEW s \in Streams, RegisterAgentStream(s)
      PROVE  TypeOK' /\ Controlled'
  <2>1. hdev[s] \in Devices
    BY <1>6 DEF Controlled, RegisterAgentStream
  <2>2. TableTypes'
    <3>1. errChan' \in SUBSET Requests /\ pendingRequests' \in SUBSET Requests
          /\ deviceRequests' \in [Devices -> SUBSET Requests]
      <4>1. errChan \in SUBSET Requests /\ pendingRequests \in SUBSET Requests
            /\ deviceRequests \in [Devices -> SUBSET Requests]
        BY DEF TypeOK
      <4>2. CancelAllForDevice(hdev[s]) \/ UNCHANGED <<errChan, pendingRequests, deviceRequests>>
        BY <1>6 DEF RegisterAgentStream
      <4> QED
        BY <2>1, <4>1, <4>2 DEF CancelAllForDevice
    <3>2. /\ agentStreams' \in [Devices -> Streams \cup {NoStream}]
          /\ closed' \in SUBSET Streams
          /\ panicked' \in BOOLEAN
      BY <1>6, <2>1 DEF TypeOK, RegisterAgentStream, CloseStreams, Registered
    <3>3. status' \in [Devices -> {"unknown", "online", "offline"}]
      BY <1>6, <2>1 DEF TypeOK, RegisterAgentStream, UpdateStatus
    <3> QED
      BY <3>1, <3>2, <3>3 DEF TableTypes
  <2>3. TypeOK'
    BY <1>6, <2>2 DEF TypeOK, TableTypes, RegisterAgentStream
  <2>4. Controlled'
    BY <1>6, <2>1 DEF TypeOK, Controlled, RegisterAgentStream
  <2> QED
    BY <2>3, <2>4
<1>7. ASSUME NEW s \in Streams, SendAck(s)
      PROVE  TypeOK' /\ Controlled'
  <2>1. hpc' \in [Streams -> {"recv", "register", "ack", "deliver", "done", "failed"}]
    BY <1>7 DEF TypeOK, SendAck
  <2>2. TypeOK'
    BY <1>7, <2>1 DEF TypeOK, SendAck
  <2>3. Controlled'
    <3>1. /\ \/ hpc' = [hpc EXCEPT ![s] = "recv"]
             \/ hpc' = [hpc EXCEPT ![s] = "failed"]
          /\ UNCHANGED <<lpc, lmsg, hdev, hreq, cpc, target, via, link, adev>>
      BY <1>7 DEF SendAck
    <3> QED
      BY <3>1 DEF TypeOK, Controlled
  <2> QED
    BY <2>2, <2>3
<1>8. ASSUME NEW s \in Streams, HandleHeartbeat(s)
      PROVE  TypeOK' /\ Controlled'
  <2>1. up' \in [Streams -> Seq(Message)]
    BY <1>8, ReceiveFacts DEF TypeOK, HandleHeartbeat
  <2>2. TypeOK'
    BY <1>8, <2>1 DEF TypeOK, HandleHeartbeat, UpdateStatus
  <2>3. Controlled'
    BY <1>8 DEF Controlled, HandleHeartbeat
  <2> QED
    BY <2>2, <2>3
<1>9. ASSUME NEW s \in Streams, HandleResponse(s)
      PROVE  TypeOK' /\ Controlled'
  <2>1. /\ Head(up[s]) \in Message /\ Head(up[s]).typ = "response"
        /\ up' \in [Streams -> Seq(Message)]
    BY <1>9, ReceiveFacts DEF TypeOK, HandleResponse
  <2>2. Head(up[s]).req \in Requests
    BY <2>1, MessageFacts
  <2>3. TypeOK'
    <3>1. /\ hreq \in [Streams -> Requests \cup {NoRequest}]
          /\ hpc \in [Streams -> {"recv", "register", "ack", "deliver", "done", "failed"}]
      BY DEF TypeOK
    <3>2. \/ /\ hreq' = [hreq EXCEPT ![s] = Head(up[s]).req]
             /\ hpc' = [hpc EXCEPT ![s] = "deliver"]
          \/ UNCHANGED <<hreq, hpc>>
      BY <1>9, Zenon DEF HandleResponse
    <3>3. /\ hreq' \in [Streams -> Requests \cup {NoRequest}]
          /\ hpc' \in [Streams -> {"recv", "register", "ack", "deliver", "done", "failed"}]
      BY <2>2, <3>1, <3>2
    <3>4. UNCHANGED <<managerVars, tableVars, sendQ, closed, panicked, loopVars, hdev, callVars,
                      respChan, errChan, link, adev, down, ran, logged, shutdown>>
      BY <1>9 DEF HandleResponse
    <3> QED
      BY <2>1, <3>3, <3>4 DEF TypeOK
  <2>4. Controlled'
    <3>1. /\ \/ /\ hreq' = [hreq EXCEPT ![s] = Head(up[s]).req]
                /\ hpc' = [hpc EXCEPT ![s] = "deliver"]
             \/ UNCHANGED <<hreq, hpc>>
          /\ UNCHANGED <<lpc, lmsg, hdev, cpc, target, via, link, adev>>
      BY <1>9 DEF HandleResponse
    <3> QED
      BY <2>2, <3>1 DEF TypeOK, Controlled
  <2> QED
    BY <2>3, <2>4
<1>10. ASSUME NEW s \in Streams, DeliverResponse(s)
       PROVE  TypeOK' /\ Controlled'
  <2>1. hreq[s] \in Requests
    BY <1>10 DEF Controlled, DeliverResponse
  <2>2. TypeOK'
    BY <1>10, <2>1 DEF TypeOK, DeliverResponse
  <2>3. Controlled'
    BY <1>10 DEF TypeOK, Controlled, DeliverResponse
  <2> QED
    BY <2>2, <2>3
<1>11. ASSUME NEW s \in Streams, RecvError(s)
       PROVE  TypeOK' /\ Controlled'
  <2>1. TableTypes'
    BY <1>11, UnregisterType DEF TypeOK, TableTypes, RecvError
  <2>2. TypeOK'
    BY <1>11, <2>1 DEF TypeOK, TableTypes, RecvError
  <2>3. Controlled'
    <3>1. /\ hpc' = [hpc EXCEPT ![s] = "done"]
          /\ UNCHANGED <<lpc, lmsg, hdev, hreq, cpc, target, via, link, adev>>
      BY <1>11 DEF RecvError
    <3> QED
      BY <3>1 DEF TypeOK, Controlled
  <2> QED
    BY <2>2, <2>3
<1>12. ASSUME NEW s \in Streams, StreamLogs(s)
       PROVE  TypeOK' /\ Controlled'
  BY <1>12 DEF TypeOK, Controlled, StreamLogs, UpdateStatus
<1>13. ASSUME NEW s \in Streams, SendLoopClosed(s)
       PROVE  TypeOK' /\ Controlled'
  BY <1>13 DEF TypeOK, Controlled, SendLoopClosed
<1>14. ASSUME NEW s \in Streams, SendLoopTake(s)
       PROVE  TypeOK' /\ Controlled'
  <2>1. Head(sendQ[s]) \in Requests /\ Tail(sendQ[s]) \in Seq(Requests)
    BY <1>14 DEF TypeOK, SendLoopTake
  <2>2. TypeOK'
    BY <1>14, <2>1 DEF TypeOK, SendLoopTake
  <2>3. Controlled'
    BY <1>14, <2>1 DEF TypeOK, Controlled, SendLoopTake
  <2> QED
    BY <2>2, <2>3
<1>15. ASSUME NEW s \in Streams, SendLoopSent(s)
       PROVE  TypeOK' /\ Controlled'
  <2>1. Append(down[s], lmsg[s]) \in Seq(Requests)
    BY <1>15 DEF TypeOK, Controlled, SendLoopSent
  <2>2. TypeOK'
    BY <1>15, <2>1 DEF TypeOK, SendLoopSent
  <2>3. Controlled'
    BY <1>15 DEF TypeOK, Controlled, SendLoopSent
  <2> QED
    BY <2>2, <2>3
<1>16. ASSUME NEW s \in Streams, SendLoopFailed(s)
       PROVE  TypeOK' /\ Controlled'
  <2>1. TableTypes'
    BY <1>16, UnregisterType DEF TypeOK, Controlled, TableTypes, SendLoopFailed
  <2>2. TypeOK'
    BY <1>16, <2>1 DEF TypeOK, TableTypes, SendLoopFailed
  <2>3. Controlled'
    BY <1>16 DEF TypeOK, Controlled, SendLoopFailed
  <2> QED
    BY <2>2, <2>3
<1>17. ASSUME NEW r \in Requests, NEW d \in Devices, CallRefused(r, d)
       PROVE  TypeOK' /\ Controlled'
  BY <1>17 DEF TypeOK, Controlled, CallRefused
<1>18. ASSUME NEW r \in Requests, NEW d \in Devices, CallLookup(r, d)
       PROVE  TypeOK' /\ Controlled'
  BY <1>18 DEF TypeOK, Controlled, CallLookup
<1>19. ASSUME NEW r \in Requests, RegisterPending(r)
       PROVE  TypeOK' /\ Controlled'
  BY <1>19 DEF TypeOK, Controlled, RegisterPending
<1>20. ASSUME NEW r \in Requests, Enqueue(r)
       PROVE  TypeOK' /\ Controlled'
  <2>1. via[r] \in Streams /\ Append(sendQ[via[r]], r) \in Seq(Requests)
    BY <1>20 DEF TypeOK, Controlled, Enqueue
  <2>2. TypeOK'
    BY <1>20, <2>1 DEF TypeOK, Enqueue
  <2>3. Controlled'
    BY <1>20 DEF TypeOK, Controlled, Enqueue
  <2> QED
    BY <2>2, <2>3
<1>21. ASSUME NEW r \in Requests, EnqueueTimeout(r)
       PROVE  TypeOK' /\ Controlled'
  BY <1>21 DEF TypeOK, Controlled, EnqueueTimeout
<1>22. ASSUME NEW r \in Requests, AwaitResponse(r)
       PROVE  TypeOK' /\ Controlled'
  BY <1>22 DEF TypeOK, Controlled, AwaitResponse
<1>23. ASSUME NEW r \in Requests, AwaitError(r)
       PROVE  TypeOK' /\ Controlled'
  BY <1>23 DEF TypeOK, Controlled, AwaitError
<1>24. ASSUME NEW r \in Requests, AwaitTimeout(r)
       PROVE  TypeOK' /\ Controlled'
  BY <1>24 DEF TypeOK, Controlled, AwaitTimeout
<1>25. ASSUME NEW r \in Requests, CleanupRequest(r)
       PROVE  TypeOK' /\ Controlled'
  BY <1>25 DEF TypeOK, Controlled, CleanupRequest
<1>26. ASSUME NEW D \in SUBSET Devices, CheckOfflineDevices(D)
       PROVE  TypeOK' /\ Controlled'
  BY <1>26 DEF TypeOK, Controlled, CheckOfflineDevices
<1>27. ASSUME Cleanup
       PROVE  TypeOK' /\ Controlled'
  BY <1>27 DEF TypeOK, Controlled, Cleanup, CloseStreams, Registered
<1>28. CASE UNCHANGED vars
  BY <1>28 DEF TypeOK, Controlled, vars
<1> QED
  BY <1>1, <1>2, <1>3, <1>4, <1>5, <1>6, <1>7, <1>8, <1>9, <1>10, <1>11, <1>12, <1>13, <1>14, <1>15,
     <1>16, <1>17, <1>18, <1>19, <1>20, <1>21, <1>22, <1>23, <1>24, <1>25, <1>26, <1>27, <1>28
  DEF Next, Agent, Handler, SendLoop, Call

\* The state keeps its types: in particular the handler never registers a
\* stream without a device, nor does a call ever enqueue on no stream.
THEOREM TypeCorrect == Spec => []TypeOK
<1>1. TypeInv => TypeOK
  BY DEF TypeInv
<1> QED
  BY TypeInit, TypeStep, <1>1, PTL DEF Spec

-----------------------------------------------------------------------------
streamVars == <<agentStreams, closed, panicked, lpc, hpc, hdev, link, adev, up>>

StreamInv == RegistersOnce /\ RoutedIsServed /\ NoPanic

\* The kinds of message are distinct.
LEMMA MessageTypes ==
    /\ \A d : Connect(d).typ = "connect" /\ Connect(d).dev = d
    /\ \A d : Heartbeat(d).typ = "heartbeat"
    /\ \A r : Response(r).typ = "response"
  BY DEF Connect, Heartbeat, Response

\* A message that is no connect may join up[s] without harm.
LEMMA AppendKeepsOnce ==
    ASSUME TypeOK, RegistersOnce, NEW s \in Streams, NEW m \in Message,
           m.typ # "connect", link[s] # "none",
           up' = [up EXCEPT ![s] = Append(@, m)],
           UNCHANGED <<link, hpc, hdev, lpc, closed, adev>>
    PROVE  RegistersOnce'
<1>1. up[s] \in Seq(Message) /\ up \in [Streams -> Seq(Message)]
  BY DEF TypeOK
<1>2. up'[s] = Append(up[s], m)
  BY <1>1
<1>3. ASSUME NEW i \in 1..Len(up'[s]), up'[s][i].typ = "connect"
      PROVE  i \in 1..Len(up[s]) /\ up'[s][i] = up[s][i]
  BY <1>1, <1>2, <1>3
<1>4. \A t \in Streams : t # s => up'[t] = up[t]
  BY <1>1
<1> QED
  BY <1>3, <1>4 DEF RegistersOnce

\* A received connect is the only one, and is of the device that sent it.
LEMMA ReceiveKeepsOnce ==
    ASSUME TypeOK, RegistersOnce, NEW s \in Streams, up[s] # <<>>
    PROVE  /\ link[s] # "none"
           /\ \A i \in 1..Len(Tail(up[s])) : Tail(up[s])[i].typ # "connect"
           /\ Head(up[s]).typ = "connect" => Head(up[s]).dev = adev[s] /\ hdev[s] = NoDevice
<1>1. up[s] \in Seq(Message)
  BY DEF TypeOK
<1>2. Head(up[s]) = up[s][1] /\ 1 \in 1..Len(up[s])
  BY <1>1
<1>3. ASSUME NEW i \in 1..Len(Tail(up[s]))
      PROVE  Tail(up[s])[i].typ # "connect"
  <2>1. Tail(up[s])[i] = up[s][i+1] /\ i + 1 \in 1..Len(up[s]) /\ i + 1 # 1
    BY <1>1
  <2> QED
    BY <2>1 DEF RegistersOnce
<1> QED
  BY <1>2, <1>3 DEF RegistersOnce

\* What RoutedIsServed says of one device.
LEMMA RoutedFacts ==
    ASSUME StreamInv, NEW d \in Devices, NEW s \in Streams, agentStreams[d] = s
    PROVE  hdev[s] = d /\ s \notin closed /\ lpc[s] \in {"select", "sending"} /\ hpc[s] \notin {"register", "done"}
  BY SentinelAssumption DEF StreamInv, RoutedIsServed

\* Registered(d) holds the registered stream, if there is one.
LEMMA RegisteredFacts ==
    ASSUME TypeOK, NEW d \in Devices
    PROVE  Registered(d) \subseteq Streams /\ \A s \in Streams : s \in Registered(d) <=> agentStreams[d] = s
  BY SentinelAssumption DEF Registered, TypeOK

\* Unregistering a device closes an open stream only, and closes it once.
LEMMA UnregisterStreams ==
    ASSUME TypeOK, StreamInv, NEW d \in Devices, UnregisterAgentStream(d)
    PROVE  /\ panicked' = FALSE
           /\ agentStreams' = [agentStreams EXCEPT ![d] = NoStream]
           /\ \A s \in Streams : s \in closed' <=> s \in closed \/ s = agentStreams[d]
<1>1. /\ closed' = closed \cup Registered(d)
      /\ panicked' = (panicked \/ Registered(d) \cap closed # {})
      /\ agentStreams' = [agentStreams EXCEPT ![d] = NoStream]
  BY DEF UnregisterAgentStream, CloseStreams
<1>2. Registered(d) \cap closed = {}
  BY DEF StreamInv, RoutedIsServed, Registered
<1>3. panicked' = FALSE
  BY <1>1, <1>2 DEF StreamInv, NoPanic
<1> QED
  BY <1>1, <1>3, SentinelAssumption DEF Registered, TypeOK

\* The invariant of the streams holds at the start.
LEMMA StreamInit == Init => StreamInv
  BY DEF Init, StreamInv, RegistersOnce, RoutedIsServed, NoPanic

\* ... and each step keeps it.
LEMMA StreamStep == TypeInv /\ StreamInv /\ [Next]_vars => StreamInv'
<1> USE DEF managerVars, tableVars, loopVars, handlerVars, callVars, netVars
<1> SUFFICES ASSUME TypeOK, Controlled, StreamInv, [Next]_vars PROVE StreamInv'
  BY DEF TypeInv
<1> DEFINE Quiet == UNCHANGED streamVars
<1>0. ASSUME Quiet PROVE StreamInv'
  BY <1>0 DEF streamVars, StreamInv, RegistersOnce, RoutedIsServed, NoPanic
<1>1. ASSUME NEW s \in Streams, NEW d \in Devices, AgentConnect(s, d)
      PROVE  StreamInv'
  <2>1. /\ link[s] = "none"
        /\ link' = [link EXCEPT ![s] = "open"]
        /\ adev' = [adev EXCEPT ![s] = d]
        /\ up' = [up EXCEPT ![s] = <<Connect(d)>>]
        /\ UNCHANGED <<agentStreams, closed, panicked, lpc, hpc, hdev>>
    BY <1>1 DEF AgentConnect
  <2>2. up'[s] = <<Connect(d)>> /\ adev'[s] = d /\ link'[s] = "open"
    BY <2>1 DEF TypeOK
  <2>3. \A t \in Streams : t # s => up'[t] = up[t] /\ adev'[t] = adev[t] /\ link'[t] = link[t]
    BY <2>1 DEF TypeOK
  <2>4. RegistersOnce'
    BY <2>1, <2>2, <2>3, MessageTypes DEF RegistersOnce, StreamInv
  <2> QED
    BY <2>1, <2>4 DEF StreamInv, RoutedIsServed, NoPanic
<1>2. ASSUME NEW s \in Streams, AgentHeartbeat(s)
      PROVE  StreamInv'
  <2>1. RegistersOnce'
    BY <1>2, AppendKeepsOnce, MessageTypes, MessageFacts DEF AgentHeartbeat, StreamInv, Controlled
  <2> QED
    BY <1>2, <2>1 DEF AgentHeartbeat, StreamInv, RoutedIsServed, NoPanic
<1>3. ASSUME NEW s \in Streams, AgentExecute(s)
      PROVE  StreamInv'
  <2>1. CASE UNCHANGED up
    BY <1>3, <1>0, <2>1 DEF AgentExecute, streamVars
  <2>2. CASE link[s] = "open" /\ up' = [up EXCEPT ![s] = Append(@, Response(Head(down[s])))]
    <3>1. Head(down[s]) \in Requests
      BY <1>3 DEF AgentExecute, TypeOK
    <3>2. UNCHANGED <<agentStreams, closed, panicked, lpc, hpc, hdev, link, adev>>
      BY <1>3 DEF AgentExecute
    <3>3. RegistersOnce'
      BY <2>2, <3>1, <3>2, AppendKeepsOnce, MessageTypes, MessageFacts DEF StreamInv
    <3> QED
      BY <3>2, <3>3 DEF StreamInv, RoutedIsServed, NoPanic
  <2> QED
    BY <1>3, <2>1, <2>2 DEF AgentExecute
<1>4. ASSUME NEW s \in Streams, BreakLink(s)
      PROVE  StreamInv'
  BY <1>4 DEF BreakLink, TypeOK, StreamInv, RegistersOnce, RoutedIsServed, NoPanic
<1>5. ASSUME NEW s \in Streams, HandleConnect(s)
      PROVE  StreamInv'
  <2> DEFINE d == Head(up[s]).dev
  <2>1. /\ up[s] # <<>> /\ Head(up[s]).typ = "connect" /\ hpc[s] = "recv"
        /\ up' = [up EXCEPT ![s] = Tail(@)]
        /\ hdev' = [hdev EXCEPT ![s] = d]
        /\ hpc' = [hpc EXCEPT ![s] = "register"]
        /\ UNCHANGED <<agentStreams, closed, panicked, lpc, link, adev>>
    BY <1>5 DEF HandleConnect, Receive
  <2>2. /\ link[s] # "none" /\ d = adev[s] /\ hdev[s] = NoDevice
        /\ \A i \in 1..Len(Tail(up[s])) : Tail(up[s])[i].typ # "connect"
    BY <2>1, ReceiveKeepsOnce DEF StreamInv
  <2>3. up'[s] = Tail(up[s]) /\ hdev'[s] = d /\ hpc'[s] = "register"
    BY <2>1 DEF TypeOK
  <2>4. \A t \in Streams : t # s => up'[t] = up[t] /\ hdev'[t] = hdev[t] /\ hpc'[t] = hpc[t]
    BY <2>1 DEF TypeOK
  <2>5. lpc[s] = "off"
    BY <2>2 DEF StreamInv, RegistersOnce
  <2>6. RegistersOnce'
    <3>1. d # NoDevice
      BY <2>2, SentinelAssumption DEF Controlled
    <3>2. up'[s] = Tail(up[s]) /\ \A i \in 1..Len(up'[s]) : up'[s][i].typ # "connect"
      BY <2>2, <2>3
    <3>3. /\ link'[s] # "none" /\ hdev'[s] # NoDevice /\ hdev'[s] = adev'[s] /\ lpc'[s] = "off"
          /\ closed' = closed /\ s \notin closed
      BY <2>1, <2>2, <2>3, <2>5, <3>1 DEF RegistersOnce, StreamInv
    <3> QED
      BY <2>1, <2>4, <3>2, <3>3 DEF RegistersOnce, StreamInv
  <2>7. \A e \in Devices : agentStreams[e] # s
    BY <2>5, RoutedFacts
  <2> QED
    BY <2>1, <2>4, <2>6, <2>7 DEF StreamInv, RoutedIsServed, NoPanic, TypeOK
<1>6. ASSUME NEW s \in Streams, RegisterAgentStream(s)
      PROVE  StreamInv'
  <2> DEFINE d == hdev[s]
  <2>1. /\ hpc[s] = "register"
        /\ closed' = closed \cup Registered(d)
        /\ panicked' = (panicked \/ Registered(d) \cap closed # {})
        /\ agentStreams' = [agentStreams EXCEPT ![d] = s]
        /\ lpc' = [lpc EXCEPT ![s] = "select"]
        /\ hpc' = [hpc EXCEPT ![s] = "ack"]
        /\ UNCHANGED <<hdev, link, adev, up>>
    BY <1>6 DEF RegisterAgentStream, CloseStreams
  <2>2. d \in Devices /\ lpc[s] = "off" /\ s \notin closed
    BY <2>1 DEF Controlled, StreamInv, RegistersOnce
  <2>3. Registered(d) \cap closed = {} /\ s \notin Registered(d)
    BY <2>2, RoutedFacts, RegisteredFacts
  <2>4. NoPanic'
    BY <2>1, <2>3 DEF StreamInv, NoPanic
  <2>5. s \notin closed'
    BY <2>1, <2>2, <2>3
  <2>6. RegistersOnce'
    <3>1. \A t \in Registered(d) : lpc[t] # "off" /\ lpc'[t] # "off"
      <4>1. \A t \in Registered(d) : t \in Streams /\ lpc[t] # "off"
        BY <2>2, RoutedFacts, RegisteredFacts
      <4>2. lpc'[s] = "select" /\ \A t \in Streams : t # s => lpc'[t] = lpc[t]
        BY <2>1 DEF TypeOK
      <4> QED
        BY <4>1, <4>2
    <3>2. lpc'[s] = "select" /\ hpc'[s] = "ack" /\ hdev[s] # NoDevice /\ link[s] # "none"
      BY <2>1, <2>2, SentinelAssumption DEF StreamInv, RegistersOnce, TypeOK
    <3>3. \A t \in Streams : t # s => lpc'[t] = lpc[t] /\ hpc'[t] = hpc[t]
      BY <2>1 DEF TypeOK
    <3> QED
      BY <2>1, <3>1, <3>2, <3>3 DEF RegistersOnce, StreamInv
  <2>7. RoutedIsServed'
    <3> SUFFICES ASSUME NEW e \in Devices, agentStreams'[e] # NoStream
                 PROVE  LET t == agentStreams'[e] IN
                        hdev[t] = e /\ t \notin closed' /\ lpc'[t] \in {"select", "sending"}
                            /\ hpc'[t] \notin {"register", "done"}
      BY <2>1 DEF RoutedIsServed
    <3>1. CASE e = d
      BY <2>1, <2>2, <2>5, <3>1 DEF TypeOK
    <3>2. CASE e # d
      <4>1. agentStreams'[e] = agentStreams[e] /\ agentStreams[e] \in Streams
        BY <2>1, <3>2 DEF TypeOK
      <4> DEFINE t == agentStreams[e]
      <4>2. hdev[t] = e /\ t \notin closed /\ lpc[t] \in {"select", "sending"} /\ hpc[t] \notin {"register", "done"}
        BY <4>1 DEF StreamInv, RoutedIsServed
      <4>3. t # s /\ t \notin Registered(d)
        BY <2>2, <3>2, <4>2 DEF StreamInv, RoutedIsServed, Registered
      <4> QED
        BY <2>1, <4>1, <4>2, <4>3 DEF TypeOK
    <3> QED
      BY <3>1, <3>2
  <2> QED
    BY <2>4, <2>6, <2>7 DEF StreamInv
<1>7. ASSUME NEW s \in Streams, SendAck(s)
      PROVE  StreamInv'
  <2>1. /\ hpc[s] = "ack"
        /\ hpc' = [hpc EXCEPT ![s] = "recv"] \/ hpc' = [hpc EXCEPT ![s] = "failed"]
        /\ UNCHANGED <<agentStreams, closed, panicked, lpc, hdev, link, adev, up>>
    BY <1>7 DEF SendAck
  <2> QED
    BY <2>1, SentinelAssumption DEF TypeOK, Controlled, StreamInv, RegistersOnce, RoutedIsServed, NoPanic
<1>8. ASSUME NEW s \in Streams, NEW typ \in {"heartbeat", "response"}, Receive(s, typ),
             hpc'[s] \in {"recv", "deliver"},
             hpc' = [hpc EXCEPT ![s] = hpc'[s]],
             UNCHANGED <<agentStreams, closed, panicked, lpc, hdev, link, adev>>
      PROVE  StreamInv'
  <2>1. up[s] # <<>> /\ up' = [up EXCEPT ![s] = Tail(@)] /\ hpc[s] = "recv"
    BY <1>8 DEF Receive
  <2>2. link[s] # "none" /\ \A i \in 1..Len(Tail(up[s])) : Tail(up[s])[i].typ # "connect"
    BY <2>1, ReceiveKeepsOnce DEF StreamInv
  <2>3. up'[s] = Tail(up[s]) /\ \A t \in Streams : t # s => up'[t] = up[t] /\ hpc'[t] = hpc[t]
    BY <1>8, <2>1 DEF TypeOK
  <2>4. RegistersOnce'
    BY <1>8, <2>1, <2>2, <2>3 DEF StreamInv, RegistersOnce
  <2> QED
    BY <1>8, <2>1, <2>3, <2>4 DEF StreamInv, RoutedIsServed, NoPanic, TypeOK
<1>9. ASSUME NEW s \in Streams, HandleHeartbeat(s)
      PROVE  StreamInv'
  <2>1. hpc' = hpc /\ hpc[s] = "recv"
    BY <1>9 DEF HandleHeartbeat, Receive
  <2>2. hpc' = [hpc EXCEPT ![s] = hpc'[s]]
    BY <2>1 DEF TypeOK
  <2> QED
    BY <1>8, <1>9, <2>1, <2>2 DEF HandleHeartbeat
<1>10. ASSUME NEW s \in Streams, HandleResponse(s)
       PROVE  StreamInv'
  <2>1. hpc[s] = "recv" /\ (hpc' = hpc \/ hpc' = [hpc EXCEPT ![s] = "deliver"])
    BY <1>10 DEF HandleResponse, Receive
  <2>2. hpc' = [hpc EXCEPT ![s] = hpc'[s]] /\ hpc'[s] \in {"recv", "deliver"}
    BY <2>1 DEF TypeOK
  <2> QED
    BY <1>8, <1>10, <2>2 DEF HandleResponse
<1>11. ASSUME NEW s \in Streams, DeliverResponse(s)
       PROVE  StreamInv'
  <2>1. /\ hpc[s] = "deliver"
        /\ hpc' = [hpc EXCEPT ![s] = "recv"]
        /\ UNCHANGED <<agentStreams, closed, panicked, lpc, hdev, link, adev, up>>
    BY <1>11 DEF DeliverResponse
  <2> QED
    BY <2>1 DEF TypeOK, StreamInv, RegistersOnce, RoutedIsServed, NoPanic
<1>12. ASSUME NEW s \in Streams, RecvError(s)
       PROVE  StreamInv'
  <2>1. /\ hpc[s] = "recv" /\ link[s] = "broken"
        /\ hpc' = [hpc EXCEPT ![s] = "done"]
        /\ UNCHANGED <<lpc, hdev, link, adev, up>>
    BY <1>12 DEF RecvError
  <2>2. CASE hdev[s] = NoDevice
    <3>1. UNCHANGED <<agentStreams, closed, panicked>>
      BY <1>12, <2>2 DEF RecvError
    <3>2. \A e \in Devices : agentStreams[e] # s
      BY <2>2, SentinelAssumption, RoutedFacts
    <3> QED
      BY <2>1, <3>1, <3>2 DEF TypeOK, StreamInv, RegistersOnce, RoutedIsServed, NoPanic
  <2>3. CASE hdev[s] # NoDevice
    <3> DEFINE d == hdev[s]
    <3>1. d \in Devices /\ UnregisterAgentStream(d)
      BY <1>12, <2>3 DEF RecvError, TypeOK
    <3>2. /\ panicked' = FALSE
          /\ agentStreams' = [agentStreams EXCEPT ![d] = NoStream]
          /\ \A t \in Streams : t \in closed' <=> t \in closed \/ t = agentStreams[d]
      BY <3>1, UnregisterStreams
    <3>3. RegistersOnce'
      <4>1. \A t \in Streams : t \in closed' => t \in closed \/ lpc[t] # "off"
        BY <3>1, <3>2, RoutedFacts
      <4>2. \A t \in Streams : hpc'[t] # "register" \/ hpc[t] = "register"
        BY <2>1 DEF TypeOK
      <4>3. hdev[s] # NoDevice /\ link[s] # "none"
        BY <2>1, <2>3
      <4>4. \A t \in Streams : link[t] = "none" => hpc'[t] = hpc[t]
        BY <2>1 DEF TypeOK
      <4> QED
        BY <2>1, <4>1, <4>2, <4>4 DEF StreamInv, RegistersOnce
    <3>4. RoutedIsServed'
      BY <2>1, <3>1, <3>2 DEF TypeOK, StreamInv, RoutedIsServed
    <3> QED
      BY <3>2, <3>3, <3>4 DEF StreamInv, NoPanic
  <2> QED
    BY <2>2, <2>3
<1>13. ASSUME NEW s \in Streams, SendLoopClosed(s)
       PROVE  StreamInv'
  <2>1. /\ s \in closed /\ lpc[s] = "select" /\ lpc' = [lpc EXCEPT ![s] = "done"]
        /\ UNCHANGED <<agentStreams, closed, panicked, hpc, hdev, link, adev, up>>
    BY <1>13 DEF SendLoopClosed
  <2> QED
    BY <2>1 DEF TypeOK, StreamInv, RegistersOnce, RoutedIsServed, NoPanic
<1>14. ASSUME NEW s \in Streams, NEW x \in {"select", "sending"}, lpc[s] \in {"select", "sending"},
              lpc' = [lpc EXCEPT ![s] = x],
              UNCHANGED <<agentStreams, closed, panicked, hpc, hdev, link, adev, up>>
       PROVE  StreamInv'
  BY <1>14 DEF TypeOK, StreamInv, RegistersOnce, RoutedIsServed, NoPanic
<1>15. ASSUME NEW s \in Streams, SendLoopTake(s) \/ SendLoopSent(s)
       PROVE  StreamInv'
  BY <1>14, <1>15 DEF SendLoopTake, SendLoopSent
<1>16. ASSUME NEW s \in Streams, SendLoopFailed(s)
       PROVE  StreamInv'
  <2> DEFINE d == hdev[s]
  <2>1. /\ lpc[s] = "sending" /\ lpc' = [lpc EXCEPT ![s] = "done"]
        /\ UnregisterAgentStream(d)
        /\ UNCHANGED <<hpc, hdev, link, adev, up>>
    BY <1>16 DEF SendLoopFailed
  <2>2. d \in Devices
    BY <2>1 DEF Controlled
  <2>3. /\ panicked' = FALSE
        /\ agentStreams' = [agentStreams EXCEPT ![d] = NoStream]
        /\ \A t \in Streams : t \in closed' <=> t \in closed \/ t = agentStreams[d]
    BY <2>1, <2>2, UnregisterStreams
  <2>4. RegistersOnce'
    <3>1. \A t \in Streams : t \in closed' => t \in closed \/ lpc[t] # "off"
      BY <2>2, <2>3, RoutedFacts
    <3>2. \A t \in Streams : (lpc'[t] = "off") = (lpc[t] = "off")
      BY <2>1 DEF TypeOK
    <3> QED
      BY <2>1, <3>1, <3>2 DEF StreamInv, RegistersOnce
  <2>5. RoutedIsServed'
    BY <2>1, <2>2, <2>3 DEF TypeOK, StreamInv, RoutedIsServed
  <2> QED
    BY <2>3, <2>4, <2>5 DEF StreamInv, NoPanic
<1>17. ASSUME NEW r \in Requests, Call(r)
       PROVE  StreamInv'
  BY <1>0, <1>17 DEF streamVars, Call, CallRefused, CallLookup, RegisterPending, Enqueue, EnqueueTimeout,
     AwaitResponse, AwaitError, AwaitTimeout, CleanupRequest
<1>18. ASSUME NEW s \in Streams, StreamLogs(s)
       PROVE  StreamInv'
  BY <1>0, <1>18 DEF streamVars, StreamLogs
<1>19. ASSUME NEW D \in SUBSET Devices, CheckOfflineDevices(D)
       PROVE  StreamInv'
  BY <1>0, <1>19 DEF streamVars, CheckOfflineDevices
<1>20. ASSUME Cleanup
       PROVE  StreamInv'
  <2> DEFINE R == UNION {Registered(d) : d \in Devices}
  <2>1. /\ closed' = closed \cup R
        /\ panicked' = (panicked \/ R \cap closed # {})
        /\ agentStreams' = [d \in Devices |-> NoStream]
        /\ UNCHANGED <<lpc, hpc, hdev, link, adev, up>>
    BY <1>20 DEF Cleanup, CloseStreams
  <2>2. \A t \in R : t \notin closed /\ lpc[t] # "off"
    BY RoutedFacts, RegisteredFacts
  <2>3. R \cap closed = {} /\ \A t \in Streams : t \in closed' => t \in closed \/ lpc[t] # "off"
    BY <2>1, <2>2
  <2>4. RegistersOnce'
    <3> HIDE DEF R
    <3> QED
      BY <2>1, <2>3 DEF StreamInv, RegistersOnce
  <2>5. RoutedIsServed'
    BY <2>1 DEF RoutedIsServed
  <2>6. NoPanic'
    BY <2>1, <2>3 DEF StreamInv, NoPanic
  <2> QED
    BY <2>4, <2>5, <2>6 DEF StreamInv
<1>21. CASE UNCHANGED vars
  BY <1>0, <1>21 DEF vars, streamVars
<1> QED
  BY <1>1, <1>2, <1>3, <1>4, <1>5, <1>6, <1>7, <1>9, <1>10, <1>11, <1>12, <1>13, <1>15, <1>16,
     <1>17, <1>18, <1>19, <1>20, <1>21
  DEF Next, Agent, Handler, SendLoop

-----------------------------------------------------------------------------
requestVars == <<pendingRequests, deviceRequests, cpc, target, errChan>>

TableInv == TablesAgree /\ CancelReachesCall

\* Cancelling a device takes its requests out of both tables and leaves an
\* error to each.
LEMMA UnregisterTables ==
    ASSUME TypeOK, TableInv, NEW d \in Devices, CancelAllForDevice(d), UNCHANGED <<cpc, target>>
    PROVE  TableInv'
<1>1. /\ errChan' = errChan \cup (deviceRequests[d] \cap pendingRequests)
      /\ pendingRequests' = pendingRequests \ deviceRequests[d]
      /\ deviceRequests' = [deviceRequests EXCEPT ![d] = {}]
  BY DEF CancelAllForDevice
<1>2. deviceRequests'[d] = {} /\ \A e \in Devices : e # d => deviceRequests'[e] = deviceRequests[e]
  BY <1>1 DEF TypeOK
<1>3. ASSUME NEW r \in pendingRequests'
      PROVE  /\ cpc'[r] \in {"enqueue", "wait", "cleanup"}
             /\ r \in deviceRequests'[target'[r]]
  <2>1. r \in pendingRequests /\ r \in deviceRequests[target[r]] /\ r \notin deviceRequests[d]
    BY <1>1, <1>3 DEF TableInv, TablesAgree
  <2>2. deviceRequests'[target[r]] = deviceRequests[target[r]]
    BY <2>1, <1>1 DEF TypeOK
  <2> QED
    BY <2>1, <2>2 DEF TableInv, TablesAgree
<1>4. ASSUME NEW e \in Devices, NEW r \in deviceRequests'[e]
      PROVE  r \in pendingRequests' /\ target'[r] = e
  BY <1>1, <1>2, <1>4 DEF TableInv, TablesAgree, TypeOK
<1>5. CancelReachesCall'
  BY <1>1 DEF TableInv, CancelReachesCall
<1> QED
  BY <1>3, <1>4, <1>5 DEF TableInv, TablesAgree

\* The invariant of the request tables holds at the start.
LEMMA TableInit == Init => TableInv
  BY DEF Init, TableInv, TablesAgree, CancelReachesCall

\* ... and each step keeps it.
LEMMA TableStep == TypeInv /\ TableInv /\ [Next]_vars => TableInv'
<1> USE DEF managerVars, tableVars, loopVars, handlerVars, callVars, netVars
<1> SUFFICES ASSUME TypeOK, Controlled, TableInv, [Next]_vars PROVE TableInv'
  BY DEF TypeInv
<1>0. ASSUME UNCHANGED requestVars PROVE TableInv'
  BY <1>0 DEF requestVars, TableInv, TablesAgree, CancelReachesCall
<1>1. ASSUME NEW s \in Streams, Agent(s) \/ StreamLogs(s)
      PROVE  TableInv'
  BY <1>0, <1>1 DEF requestVars, Agent, AgentConnect, AgentHeartbeat, AgentExecute, BreakLink, StreamLogs
<1>2. ASSUME NEW s \in Streams, RegisterAgentStream(s)
      PROVE  TableInv'
  <2>1. hdev[s] \in Devices
    BY <1>2 DEF RegisterAgentStream, Controlled
  <2>2. UNCHANGED <<cpc, target>>
    BY <1>2 DEF RegisterAgentStream
  <2>3. CancelAllForDevice(hdev[s]) \/ UNCHANGED <<errChan, pendingRequests, deviceRequests>>
    BY <1>2 DEF RegisterAgentStream
  <2> QED
    BY <1>0, <2>1, <2>2, <2>3, UnregisterTables DEF requestVars
<1>3. ASSUME NEW s \in Streams, RecvError(s)
      PROVE  TableInv'
  <2>1. UNCHANGED <<cpc, target>>
    BY <1>3 DEF RecvError
  <2>2. \/ hdev[s] \in Devices /\ CancelAllForDevice(hdev[s])
        \/ UNCHANGED <<errChan, pendingRequests, deviceRequests>>
    BY <1>3 DEF RecvError, UnregisterAgentStream, TypeOK
  <2> QED
    BY <1>0, <2>1, <2>2, UnregisterTables DEF requestVars
<1>4. ASSUME NEW s \in Streams, SendLoopFailed(s)
      PROVE  TableInv'
  <2>1. UNCHANGED <<cpc, target>> /\ hdev[s] \in Devices /\ CancelAllForDevice(hdev[s])
    BY <1>4 DEF SendLoopFailed, UnregisterAgentStream, Controlled
  <2> QED
    BY <2>1, UnregisterTables
<1>5. ASSUME NEW s \in Streams,
             \/ HandleConnect(s) \/ SendAck(s) \/ HandleHeartbeat(s) \/ HandleResponse(s)
             \/ DeliverResponse(s) \/ SendLoopClosed(s) \/ SendLoopTake(s) \/ SendLoopSent(s)
      PROVE  TableInv'
  BY <1>0, <1>5 DEF requestVars, HandleConnect, SendAck, HandleHeartbeat, HandleResponse, DeliverResponse,
     SendLoopClosed, SendLoopTake, SendLoopSent
<1>6. ASSUME NEW r \in Requests, NEW d \in Devices, CallRefused(r, d) \/ CallLookup(r, d)
      PROVE  TableInv'
  <2>1. /\ cpc[r] = "idle"
        /\ target' = [target EXCEPT ![r] = d]
        /\ cpc' = [cpc EXCEPT ![r] = "done"] \/ cpc' = [cpc EXCEPT ![r] = "register"]
        /\ UNCHANGED <<pendingRequests, deviceRequests, errChan>>
    BY <1>6 DEF CallRefused, CallLookup
  <2>2. r \notin pendingRequests /\ \A e \in Devices : r \notin deviceRequests[e]
    BY <2>1 DEF TableInv, TablesAgree
  <2>3. \A q \in Requests : q # r => cpc'[q] = cpc[q] /\ target'[q] = target[q]
    BY <2>1 DEF TypeOK
  <2>4. cpc'[r] \notin {"enqueue", "wait"}
    BY <2>1 DEF TypeOK
  <2>5. TablesAgree'
    BY <2>1, <2>2, <2>3 DEF TypeOK, TableInv, TablesAgree
  <2>6. CancelReachesCall'
    BY <2>1, <2>3, <2>4 DEF TableInv, CancelReachesCall
  <2> QED
    BY <2>5, <2>6 DEF TableInv
<1>7. ASSUME NEW r \in Requests, RegisterPending(r)
      PROVE  TableInv'
  <2>1. /\ cpc[r] = "register" /\ cpc' = [cpc EXCEPT ![r] = "enqueue"]
        /\ pendingRequests' = pendingRequests \cup {r}
        /\ deviceRequests' = [deviceRequests EXCEPT ![target[r]] = @ \cup {r}]
        /\ UNCHANGED <<target, errChan>>
    BY <1>7 DEF RegisterPending
  <2>2. target[r] \in Devices
    BY <2>1 DEF Controlled
  <2>3. cpc'[r] = "enqueue" /\ \A q \in Requests : q # r => cpc'[q] = cpc[q]
    BY <2>1 DEF TypeOK
  <2>4. /\ deviceRequests'[target[r]] = deviceRequests[target[r]] \cup {r}
        /\ \A e \in Devices : e # target[r] => deviceRequests'[e] = deviceRequests[e]
    BY <2>1, <2>2 DEF TypeOK
  <2>5. ASSUME NEW q \in pendingRequests'
        PROVE  cpc'[q] \in {"enqueue", "wait", "cleanup"} /\ q \in deviceRequests'[target'[q]]
    <3>1. CASE q = r
      BY <2>1, <2>3, <2>4, <3>1
    <3>2. CASE q # r
      <4>1. q \in Requests /\ q \in deviceRequests[target[q]] /\ cpc[q] \in {"enqueue", "wait", "cleanup"}
        BY <2>1, <2>5, <3>2 DEF TypeOK, TableInv, TablesAgree
      <4>2. target[q] \in Devices
        BY <4>1 DEF Controlled
      <4> QED
        BY <2>1, <2>3, <2>4, <3>2, <4>1, <4>2
    <3> QED
      BY <3>1, <3>2
  <2>6. ASSUME NEW e \in Devices, NEW q \in deviceRequests'[e]
        PROVE  q \in pendingRequests' /\ target'[q] = e
    BY <2>1, <2>4, <2>6 DEF TableInv, TablesAgree
  <2>7. CancelReachesCall'
    BY <2>1, <2>3 DEF TableInv, CancelReachesCall
  <2> QED
    BY <2>5, <2>6, <2>7 DEF TableInv, TablesAgree
<1>8. ASSUME NEW r \in Requests, Enqueue(r)
      PROVE  TableInv'
  BY <1>8 DEF Enqueue, TypeOK, TableInv, TablesAgree, CancelReachesCall
<1>9. ASSUME NEW r \in Requests,
             cpc[r] \in {"enqueue", "wait"}, cpc' = [cpc EXCEPT ![r] = "cleanup"],
             \A q \in Requests : q # r => (q \in errChan' <=> q \in errChan),
             UNCHANGED <<pendingRequests, deviceRequests, target>>
      PROVE  TableInv'
  <2>1. cpc'[r] = "cleanup" /\ \A q \in Requests : q # r => cpc'[q] = cpc[q]
    BY <1>9 DEF TypeOK
  <2>2. TablesAgree'
    BY <1>9, <2>1 DEF TypeOK, TableInv, TablesAgree
  <2>3. CancelReachesCall'
    BY <1>9, <2>1 DEF TableInv, CancelReachesCall
  <2> QED
    BY <2>2, <2>3 DEF TableInv
<1>10. ASSUME NEW r \in Requests, EnqueueTimeout(r) \/ AwaitResponse(r) \/ AwaitError(r) \/ AwaitTimeout(r)
       PROVE  TableInv'
  BY <1>9, <1>10 DEF EnqueueTimeout, AwaitResponse, AwaitError, AwaitTimeout
<1>11. ASSUME NEW r \in Requests, CleanupRequest(r)
       PROVE  TableInv'
  <2>1. /\ cpc[r] = "cleanup" /\ cpc' = [cpc EXCEPT ![r] = "done"]
        /\ pendingRequests' = pendingRequests \ {r}
        /\ deviceRequests' = [deviceRequests EXCEPT ![target[r]] = @ \ {r}]
        /\ UNCHANGED <<target, errChan>>
    BY <1>11 DEF CleanupRequest
  <2>2. cpc'[r] = "done" /\ \A q \in Requests : q # r => cpc'[q] = cpc[q]
    BY <2>1 DEF TypeOK
  <2>3. \A e \in Devices : /\ deviceRequests'[e] \subseteq deviceRequests[e]
                           /\ \A q \in deviceRequests[e] : q # r => q \in deviceRequests'[e]
    BY <2>1 DEF TypeOK
  <2>4. \A e \in Devices : r \notin deviceRequests'[e]
    BY <2>1 DEF TypeOK, TableInv, TablesAgree
  <2>5. ASSUME NEW q \in pendingRequests'
        PROVE  cpc'[q] \in {"enqueue", "wait", "cleanup"} /\ q \in deviceRequests'[target'[q]]
    <3>1. q # r /\ q \in Requests /\ q \in deviceRequests[target[q]] /\ cpc[q] \in {"enqueue", "wait", "cleanup"}
      BY <2>1, <2>5 DEF TypeOK, TableInv, TablesAgree
    <3>2. target[q] \in Devices
      BY <3>1 DEF Controlled
    <3> QED
      BY <2>1, <2>2, <2>3, <3>1, <3>2
  <2>6. ASSUME NEW e \in Devices, NEW q \in deviceRequests'[e]
        PROVE  q \in pendingRequests' /\ target'[q] = e
    BY <2>1, <2>3, <2>4, <2>6 DEF TableInv, TablesAgree
  <2>7. CancelReachesCall'
    BY <2>1, <2>2 DEF TableInv, CancelReachesCall
  <2> QED
    BY <2>5, <2>6, <2>7 DEF TableInv, TablesAgree
<1>12. ASSUME NEW D \in SUBSET Devices, CheckOfflineDevices(D)
       PROVE  TableInv'
  BY <1>0, <1>12 DEF requestVars, CheckOfflineDevices
<1>13. ASSUME Cleanup
       PROVE  TableInv'
  BY <1>13 DEF Cleanup, TableInv, TablesAgree, CancelReachesCall
<1>14. CASE UNCHANGED vars
  BY <1>0, <1>14 DEF vars, requestVars
<1> QED
  BY <1>1, <1>2, <1>3, <1>4, <1>5, <1>6, <1>7, <1>8, <1>10, <1>11, <1>12, <1>13, <1>14
  DEF Next, Handler, SendLoop, Call

-----------------------------------------------------------------------------
(* The status of devices, when no agent sends log lines. *)

\* A heartbeat comes from the agent of the stream, and behind its connect.
BeatsFollowConnect ==
    \A s \in Streams :
        /\ \A i \in 1..Len(up[s]) : up[s][i].typ = "heartbeat" => up[s][i].dev = adev[s]
        /\ link[s] # "none" /\ hdev[s] = NoDevice => up[s] # <<>> /\ up[s][1].typ = "connect"

\* A device that is online has a handler that will set it offline.
SpokenFor ==
    \A d \in Devices : status[d] = "online" =>
        \E s \in Streams : hdev[s] = d /\ hpc[s] # "done"

StatusInv == BeatsFollowConnect /\ SpokenFor

statusVars == <<status, up, adev, hdev, link, hpc>>

\* Both parts hold at the start.
LEMMA StatusInit == Init => StatusInv
  BY DEF Init, StatusInv, BeatsFollowConnect, SpokenFor

\* What is left in up[s] after a message was received; the first connect names the device.
LEMMA TailKeepsBeats ==
    ASSUME TypeOK, RegistersOnce, BeatsFollowConnect, NEW s \in Streams, up[s] # <<>>,
           up' = [up EXCEPT ![s] = Tail(@)],
           \A t \in Streams : hdev'[t] = NoDevice => hdev[t] = NoDevice,
           Head(up[s]).typ = "connect" => hdev'[s] # NoDevice,
           UNCHANGED <<adev, link>>
    PROVE  BeatsFollowConnect'
<1>1. up[s] \in Seq(Message) /\ up \in [Streams -> Seq(Message)]
  BY DEF TypeOK
<1>2. up'[s] = Tail(up[s]) /\ Head(up[s]) = up[s][1] /\ \A t \in Streams : t # s => up'[t] = up[t]
  BY <1>1
<1>4. \A i \in 1..Len(up'[s]) : i + 1 \in 1..Len(up[s]) /\ up'[s][i] = up[s][i + 1]
  BY <1>1, <1>2
<1>5. link[s] # "none"
  BY ReceiveKeepsOnce
<1>6. hdev'[s] # NoDevice
  BY <1>2, <1>5 DEF BeatsFollowConnect
<1> QED
  BY <1>2, <1>4, <1>6 DEF BeatsFollowConnect

\* Each step keeps both parts.
LEMMA StatusStep ==
    ASSUME Logging = {}, TypeInv, StreamInv, StatusInv, [Next]_vars
    PROVE  StatusInv'
<1> USE DEF managerVars, tableVars, loopVars, handlerVars, callVars, netVars
<1>t. TypeOK /\ Controlled /\ RegistersOnce
  BY DEF TypeInv, StreamInv
<1>0. ASSUME UNCHANGED statusVars PROVE StatusInv'
  BY <1>0 DEF statusVars, StatusInv, BeatsFollowConnect, SpokenFor
<1>1. ASSUME UNCHANGED <<hdev, hpc>> \/ (hdev' = hdev /\ \E s \in Streams, x \in {"register", "ack", "recv", "deliver", "failed"} :
                hpc' = [hpc EXCEPT ![s] = x]),
             \A d \in Devices : status'[d] = "online" => status[d] = "online"
      PROVE  SpokenFor'
  BY <1>1, <1>t DEF TypeOK, StatusInv, SpokenFor
<1>2. ASSUME UNCHANGED <<up, adev, hdev, link>> PROVE BeatsFollowConnect'
  BY <1>2 DEF StatusInv, BeatsFollowConnect
<1>3. ASSUME NEW s \in Streams, NEW d \in Devices, AgentConnect(s, d)
      PROVE  StatusInv'
  <2>1. up'[s] = <<Connect(d)>> /\ \A t \in Streams : t # s => up'[t] = up[t] /\ adev'[t] = adev[t] /\ link'[t] = link[t]
    BY <1>3, <1>t DEF AgentConnect, TypeOK
  <2>2. BeatsFollowConnect'
    BY <1>3, <2>1, MessageTypes DEF AgentConnect, StatusInv, BeatsFollowConnect
  <2> QED
    BY <1>1, <1>3, <2>2 DEF AgentConnect, StatusInv
<1>4. ASSUME NEW s \in Streams, NEW m \in Message, link[s] # "none", m.typ = "heartbeat" => m.dev = adev[s],
             UNCHANGED <<status, adev, hdev, link, hpc>>, up' = [up EXCEPT ![s] = Append(@, m)]
      PROVE  StatusInv'
  <2>1. up[s] \in Seq(Message) /\ up'[s] = Append(up[s], m) /\ \A t \in Streams : t # s => up'[t] = up[t]
    BY <1>4, <1>t DEF TypeOK
  <2>2. \A i \in 1..Len(up'[s]) : up'[s][i] = m \/ (i \in 1..Len(up[s]) /\ up'[s][i] = up[s][i])
    BY <2>1
  <2>3. up[s] # <<>> => up'[s] # <<>> /\ up'[s][1] = up[s][1]
    BY <2>1
  <2>4. BeatsFollowConnect'
    BY <1>4, <2>1, <2>2, <2>3 DEF StatusInv, BeatsFollowConnect
  <2> QED
    BY <1>1, <1>4, <2>4 DEF StatusInv
<1>5. ASSUME NEW s \in Streams, AgentHeartbeat(s)
      PROVE  StatusInv'
  <2>1. Heartbeat(adev[s]) \in Message /\ Heartbeat(adev[s]).dev = adev[s]
    BY <1>5, <1>t, MessageFacts DEF AgentHeartbeat, Controlled, Heartbeat
  <2> QED
    BY <1>4, <1>5, <2>1 DEF AgentHeartbeat
<1>6. ASSUME NEW s \in Streams, AgentExecute(s)
      PROVE  StatusInv'
  <2>1. Head(down[s]) \in Requests
    BY <1>6, <1>t DEF AgentExecute, TypeOK
  <2>2. Response(Head(down[s])) \in Message /\ Response(Head(down[s])).typ = "response"
    BY <2>1, MessageFacts, MessageTypes
  <2>3. CASE link[s] = "open" /\ up' = [up EXCEPT ![s] = Append(@, Response(Head(down[s])))]
    BY <1>4, <1>6, <2>2, <2>3 DEF AgentExecute
  <2>4. CASE UNCHANGED up
    BY <1>0, <1>6, <2>4 DEF AgentExecute, statusVars
  <2> QED
    BY <1>6, <2>3, <2>4 DEF AgentExecute
<1>7. ASSUME NEW s \in Streams, BreakLink(s)
      PROVE  StatusInv'
  <2>1. BeatsFollowConnect'
    BY <1>7, <1>t DEF BreakLink, TypeOK, StatusInv, BeatsFollowConnect
  <2> QED
    BY <1>1, <1>7, <2>1 DEF BreakLink, StatusInv
<1>8. ASSUME NEW s \in Streams, HandleConnect(s)
      PROVE  StatusInv'
  <2> DEFINE d == Head(up[s]).dev
  <2>1. /\ Head(up[s]) \in Message /\ Head(up[s]).typ = "connect" /\ hpc[s] = "recv" /\ up[s] # <<>>
        /\ up' = [up EXCEPT ![s] = Tail(@)]
    BY <1>8, <1>t, ReceiveFacts DEF TypeOK, HandleConnect, Receive
  <2>2. d \in Devices /\ d = adev[s] /\ hdev[s] = NoDevice
    BY <1>t, <2>1, MessageFacts, ReceiveKeepsOnce
  <2>3. /\ hdev' = [hdev EXCEPT ![s] = d] /\ status' = [status EXCEPT ![d] = "online"]
        /\ hpc' = [hpc EXCEPT ![s] = "register"] /\ UNCHANGED <<adev, link>>
    BY <1>8 DEF HandleConnect
  <2>4. hdev'[s] = d /\ hpc'[s] = "register" /\ \A t \in Streams : t # s => hdev'[t] = hdev[t] /\ hpc'[t] = hpc[t]
    BY <1>t, <2>3 DEF TypeOK
  <2>5. BeatsFollowConnect'
    <3>1. d # NoDevice
      BY <2>2, SentinelAssumption
    <3>2. \A t \in Streams : hdev'[t] = NoDevice => hdev[t] = NoDevice
      BY <2>4, <3>1
    <3> HIDE DEF d
    <3> QED
      BY <1>t, <2>1, <2>3, <2>4, <3>1, <3>2, TailKeepsBeats DEF StatusInv
  <2>6. ASSUME NEW e \in Devices, status'[e] = "online"
        PROVE  \E t \in Streams : hdev'[t] = e /\ hpc'[t] # "done"
    <3>1. CASE e = d
      BY <2>4, <3>1
    <3>2. CASE e # d
      <4>1. status[e] = "online"
        BY <2>2, <2>3, <2>6, <3>2, <1>t DEF TypeOK
      <4>2. PICK t \in Streams : hdev[t] = e /\ hpc[t] # "done"
        BY <4>1 DEF StatusInv, SpokenFor
      <4>3. t # s
        BY <2>2, <4>2, SentinelAssumption
      <4> QED
        BY <2>4, <4>2, <4>3
    <3> QED
      BY <3>1, <3>2
  <2> QED
    BY <2>5, <2>6 DEF StatusInv, SpokenFor
<1>9. ASSUME NEW s \in Streams, RegisterAgentStream(s)
      PROVE  StatusInv'
  <2> DEFINE d == hdev[s]
  <2>1. /\ hpc[s] = "register" /\ d \in Devices /\ UpdateStatus(d, "online")
        /\ hpc' = [hpc EXCEPT ![s] = "ack"] /\ UNCHANGED <<hdev, up, adev, link>>
    BY <1>9, <1>t DEF RegisterAgentStream, Controlled
  <2>2. hpc'[s] = "ack" /\ \A t \in Streams : t # s => hpc'[t] = hpc[t]
    BY <1>t, <2>1 DEF TypeOK
  <2>3. \A e \in Devices : e # d => status'[e] = status[e]
    BY <1>t, <2>1 DEF TypeOK, UpdateStatus
  <2>4. SpokenFor'
    BY <2>1, <2>2, <2>3 DEF StatusInv, SpokenFor
  <2> QED
    BY <1>2, <2>1, <2>4 DEF StatusInv
<1>10. ASSUME NEW s \in Streams, SendAck(s)
       PROVE  StatusInv'
  <2>1. SpokenFor'
    BY <1>1, <1>10 DEF SendAck
  <2> QED
    BY <1>2, <1>10, <2>1 DEF SendAck, StatusInv
<1>11. ASSUME NEW s \in Streams, HandleHeartbeat(s)
       PROVE  StatusInv'
  <2> DEFINE d == Head(up[s]).dev
  <2>1. /\ Head(up[s]) \in Message /\ Head(up[s]).typ = "heartbeat" /\ hpc[s] = "recv" /\ up[s] # <<>>
        /\ up' = [up EXCEPT ![s] = Tail(@)] /\ UpdateStatus(d, "online")
        /\ UNCHANGED <<hdev, hpc, adev, link>>
    BY <1>11, <1>t, ReceiveFacts DEF TypeOK, HandleHeartbeat, Receive
  <2>2. link[s] # "none" /\ Head(up[s]) = up[s][1] /\ 1 \in 1..Len(up[s])
    BY <1>t, <2>1, ReceiveKeepsOnce DEF TypeOK
  <2>3. hdev[s] = d
    BY <1>t, <2>1, <2>2 DEF StatusInv, BeatsFollowConnect, RegistersOnce
  <2>4. d \in Devices
    BY <2>1, MessageFacts
  <2>5. \A e \in Devices : e # d => status'[e] = status[e]
    BY <1>t, <2>1, <2>4 DEF TypeOK, UpdateStatus
  <2>6. SpokenFor'
    BY <2>1, <2>3, <2>5 DEF StatusInv, SpokenFor
  <2>7. BeatsFollowConnect'
    BY <1>t, <2>1, TailKeepsBeats DEF StatusInv
  <2> QED
    BY <2>6, <2>7 DEF StatusInv
<1>12. ASSUME NEW s \in Streams, HandleResponse(s)
       PROVE  StatusInv'
  <2>1. /\ Head(up[s]).typ = "response" /\ up[s] # <<>> /\ up' = [up EXCEPT ![s] = Tail(@)]
        /\ UNCHANGED <<status, hdev, adev, link>>
        /\ hpc' = hpc \/ hpc' = [hpc EXCEPT ![s] = "deliver"]
    BY <1>12 DEF HandleResponse, Receive
  <2>2. SpokenFor'
    BY <1>1, <2>1
  <2>3. BeatsFollowConnect'
    BY <1>t, <2>1, TailKeepsBeats DEF StatusInv
  <2> QED
    BY <2>2, <2>3 DEF StatusInv
<1>13. ASSUME NEW s \in Streams, DeliverResponse(s)
       PROVE  StatusInv'
  <2>1. SpokenFor'
    BY <1>1, <1>13 DEF DeliverResponse
  <2> QED
    BY <1>2, <1>13, <2>1 DEF DeliverResponse, StatusInv
<1>14. ASSUME NEW s \in Streams, RecvError(s)
       PROVE  StatusInv'
  <2>1. /\ hpc' = [hpc EXCEPT ![s] = "done"] /\ UNCHANGED <<hdev, up, adev, link>>
        /\ \/ hdev[s] # NoDevice /\ UpdateStatus(hdev[s], "offline")
           \/ hdev[s] = NoDevice /\ UNCHANGED status
    BY <1>14 DEF RecvError, UnregisterAgentStream
  <2>2. \A t \in Streams : t # s => hpc'[t] = hpc[t]
    BY <1>t, <2>1 DEF TypeOK
  <2>3. ASSUME NEW d \in Devices, status'[d] = "online"
        PROVE  status[d] = "online" /\ hdev[s] # d
    BY <1>t, <2>1, <2>3, SentinelAssumption DEF TypeOK, UpdateStatus
  <2>4. SpokenFor'
    BY <2>1, <2>2, <2>3 DEF StatusInv, SpokenFor
  <2> QED
    BY <1>2, <2>1, <2>4 DEF StatusInv
<1>15. ASSUME NEW s \in Streams, SendLoop(s)
       PROVE  StatusInv'
  <2>1. CASE SendLoopFailed(s)
    <3>1. \A d \in Devices : status'[d] = "online" => status[d] = "online"
      BY <1>t, <2>1 DEF SendLoopFailed, UnregisterAgentStream, UpdateStatus, TypeOK
    <3> QED
      BY <1>1, <1>2, <2>1, <3>1 DEF SendLoopFailed, StatusInv
  <2>2. CASE SendLoopClosed(s) \/ SendLoopTake(s) \/ SendLoopSent(s)
    BY <1>0, <2>2 DEF statusVars, SendLoopClosed, SendLoopTake, SendLoopSent
  <2> QED
    BY <1>15, <2>1, <2>2 DEF SendLoop
<1>16. ASSUME NEW r \in Requests, Call(r)
       PROVE  StatusInv'
  BY <1>0, <1>16 DEF statusVars, Call, CallRefused, CallLookup, RegisterPending, Enqueue, EnqueueTimeout,
     AwaitResponse, AwaitError, AwaitTimeout, CleanupRequest
<1>17. ASSUME NEW D \in SUBSET Devices, CheckOfflineDevices(D)
       PROVE  StatusInv'
  <2>1. \A d \in Devices : status'[d] = "online" => status[d] = "online"
    BY <1>17 DEF CheckOfflineDevices
  <2> QED
    BY <1>1, <1>2, <1>17, <2>1 DEF CheckOfflineDevices, StatusInv
<1>18. CASE Cleanup
  BY <1>0, <1>18 DEF statusVars, Cleanup
<1>19. CASE UNCHANGED vars
  BY <1>0, <1>19 DEF vars, statusVars
<1>20. ASSUME NEW s \in Streams PROVE ~StreamLogs(s)
  BY DEF StreamLogs
<1> QED
  BY <1>3, <1>5, <1>6, <1>7, <1>8, <1>9, <1>10, <1>11, <1>12, <1>13, <1>14, <1>15, <1>16, <1>17, <1>18, <1>19, <1>20
  DEF Next, Agent, Handler

\* While no agent sends log lines, a device is offline, and routed to no stream, once the
\* handlers of all its streams have seen the end on Recv (services.go 55-62), however
\* heartbeats, reconnects and failed sends came between; a late log line is what can
\* put it online again (services.go 242).
THEOREM EndedIsOffline == Logging = {} => (Spec => []DisconnectedIsOffline)
<1> SUFFICES ASSUME Logging = {} PROVE Spec => []DisconnectedIsOffline
  OBVIOUS
<1>1. TypeInv /\ StreamInv /\ StatusInv /\ [Next]_vars => (TypeInv /\ StreamInv /\ StatusInv)'
  BY TypeStep, StreamStep, StatusStep
<1>2. Init => TypeInv /\ StreamInv /\ StatusInv
  BY TypeInit, StreamInit, StatusInit
<1>3. TypeInv /\ StreamInv /\ StatusInv => DisconnectedIsOffline
  <2> SUFFICES ASSUME TypeOK, RegistersOnce, RoutedIsServed, SpokenFor, NEW d \in Devices,
                      \A s \in Streams : adev[s] = d => hpc[s] = "done"
               PROVE  status[d] # "online" /\ agentStreams[d] = NoStream
    BY DEF TypeInv, StreamInv, StatusInv, DisconnectedIsOffline
  <2>1. \A s \in Streams : hdev[s] = d => adev[s] = d
    BY SentinelAssumption DEF RegistersOnce
  <2> QED
    BY <2>1 DEF TypeOK, SpokenFor, RoutedIsServed
<1> QED
  BY <1>1, <1>2, <1>3, PTL DEF Spec
=============================================================================
