------------------------ MODULE GrpcProxyRefinement ------------------------
(* Proofs about GrpcProxy: the invariant of the commands (CommandInv), which *)
(* completes the inductive invariant IInv; the safety properties it holds;   *)
(* that GrpcProxy implements RemoteCall; and what it takes to leave a        *)
(* sendLoop behind or a live stream without its route.                       *)
EXTENDS GrpcProxyProofs

\* One run is not none.
LEMMA OnceIsNotNever ==
    ASSUME NEW r \in Requests, target[r] \in Devices
    PROVE  RanOnce(r) # NeverRan
<1>1. RanOnce(r)[target[r]] = 1 /\ NeverRan[target[r]] = 0
  BY DEF RanOnce, NeverRan
<1> QED
  BY <1>1

\* A command on its way has not been run.
LEMMA TransitIsNotAnswered ==
    ASSUME Controlled, NEW s, NEW r \in Requests, InTransit(s, r)
    PROVE  ~Answered(r)
<1>1. target[r] \in Devices
  BY DEF InTransit, Controlled
<1> QED
  BY <1>1, OnceIsNotNever DEF InTransit, Answered

\* Where a step leaves the stream t alone, and takes nothing away from the
\* commands on it, the invariant of t stays.
LEMMA PlaceStays ==
    ASSUME TypeOK, Controlled, NEW t \in Streams, PlaceInv(t),
           sendQ'[t] = sendQ[t], down'[t] = down[t], up'[t] = up[t],
           lpc'[t] = "sending" => lpc[t] = "sending" /\ lmsg'[t] = lmsg[t],
           hpc'[t] = "deliver" => hpc[t] = "deliver" /\ hreq'[t] = hreq[t],
           \A q \in Requests : InTransit(t, q) => InTransit(t, q)',
           \A q \in Requests : Answered(q) => Answered(q)'
    PROVE  PlaceInv(t)'
<1>1. /\ sendQ[t] \in Seq(Requests) /\ down[t] \in Seq(Requests) /\ up[t] \in Seq(Message)
      /\ lpc[t] = "sending" => lmsg[t] \in Requests
      /\ hpc[t] = "deliver" => hreq[t] \in Requests
  BY DEF TypeOK, Controlled
<1>2. \A i \in 1..Len(sendQ[t]) : sendQ[t][i] \in Requests
  BY <1>1
<1>3. \A i \in 1..Len(down[t]) : down[t][i] \in Requests
  BY <1>1
<1>4. \A i \in 1..Len(up[t]) : up[t][i].typ = "response" => up[t][i].req \in Requests
  BY <1>1, MessageFacts
<1>5. /\ \A i \in 1..Len(sendQ[t]) : InTransit(t, sendQ[t][i])'
      /\ \A i \in 1..Len(down[t]) : InTransit(t, down[t][i])'
  BY <1>2, <1>3 DEF PlaceInv
<1>6. \A i \in 1..Len(up[t]) : up[t][i].typ = "response" => Answered(up[t][i].req)'
  BY <1>4 DEF PlaceInv
<1>7. lpc'[t] = "sending" => InTransit(t, lmsg[t])'
  BY <1>1 DEF PlaceInv
<1>8. hpc'[t] = "deliver" => Answered(hreq[t])'
  BY <1>1 DEF PlaceInv
<1> QED
  BY <1>1, <1>5, <1>6, <1>7, <1>8 DEF PlaceInv

\* Where a step leaves the call q alone, so is what its outcome says.
LEMMA OutcomeStays ==
    ASSUME NEW q \in Requests, OutcomeInv(q),
           cpc'[q] = cpc[q], ran'[q] = ran[q], outcome'[q] = outcome[q], via'[q] = via[q],
           target'[q] = target[q],
           via[q] \in Streams => hdev'[via[q]] = hdev[via[q]],
           q \in respChan' => q \in respChan
    PROVE  OutcomeInv(q)'
  BY DEF OutcomeInv, Answered, RanOnce

callState == <<cpc, target, via, outcome, ran>>

\* A step that changes no call changes no command.
LEMMA CallsStay ==
    ASSUME UNCHANGED callState
    PROVE  /\ \A s \in Streams, q \in Requests : InTransit(s, q) => InTransit(s, q)'
           /\ \A q \in Requests : Answered(q) => Answered(q)'
  BY DEF callState, InTransit, Answered, RanOnce

\* The invariant of the commands holds at the start.
LEMMA CommandInit == Init => CommandInv
<1> SUFFICES ASSUME Init PROVE CommandInv
  OBVIOUS
<1>1. ASSUME NEW s \in Streams PROVE PlaceInv(s)
  <2>1. sendQ[s] = <<>> /\ down[s] = <<>> /\ up[s] = <<>> /\ lpc[s] = "off" /\ hpc[s] = "recv"
    BY DEF Init
  <2> QED
    BY <2>1 DEF PlaceInv
<1>2. ASSUME NEW r \in Requests PROVE OutcomeInv(r)
  BY SentinelAssumption DEF Init, OutcomeInv
<1> QED
  BY <1>1, <1>2 DEF CommandInv

\* Steps that touch neither the calls nor what is on the streams.
LEMMA CommandQuiet ==
    ASSUME TypeOK, Controlled, CommandInv, UNCHANGED callState,
           UNCHANGED <<sendQ, down, up, respChan>>,
           \A t \in Streams :
               /\ lpc'[t] = "sending" => lpc[t] = "sending" /\ lmsg'[t] = lmsg[t]
               /\ hpc'[t] = "deliver" => hpc[t] = "deliver" /\ hreq'[t] = hreq[t]
               /\ hdev'[t] = hdev[t]
    PROVE  CommandInv'
<1>1. ASSUME NEW t \in Streams PROVE PlaceInv(t)'
  BY CallsStay, PlaceStays DEF CommandInv
<1>2. ASSUME NEW q \in Requests PROVE OutcomeInv(q)'
  BY OutcomeStays DEF CommandInv, callState
<1> QED
  BY <1>1, <1>2 DEF CommandInv

\* The command that an agent takes has not been run before, and is for it.
LEMMA ExecuteRuns ==
    ASSUME TypeOK, Controlled, RegistersOnce, CommandInv,
           NEW s \in Streams, NEW r \in Requests, r = Head(down[s]), AgentExecute(s)
    PROVE  InTransit(s, r) /\ ran' = [ran EXCEPT ![r] = RanOnce(r)]
<1>1. down[s] \in Seq(Requests) /\ down[s] # <<>> /\ PlaceInv(s)
  BY DEF AgentExecute, TypeOK, CommandInv
<1>2. r = down[s][1] /\ 1 \in 1..Len(down[s])
  BY <1>1
<1>3. InTransit(s, r)
  BY <1>1, <1>2 DEF PlaceInv
<1>4. hdev[s] = target[r] /\ target[r] \in Devices
  BY <1>3 DEF InTransit, CommandInv, OutcomeInv, Controlled
<1>5. adev[s] = target[r]
  BY <1>4, SentinelAssumption DEF RegistersOnce
<1>6. ran[r] = NeverRan /\ NeverRan \in [Devices -> Nat] /\ NeverRan[target[r]] = 0
  BY <1>3, <1>4 DEF InTransit, NeverRan
<1>7. ran' = [ran EXCEPT ![r] = [ran[r] EXCEPT ![target[r]] = ran[r][target[r]] + 1]]
  BY <1>5 DEF AgentExecute
<1>8. [ran[r] EXCEPT ![target[r]] = ran[r][target[r]] + 1] = RanOnce(r)
  <2>1. ran[r][target[r]] + 1 = 1
    BY <1>6
  <2> QED
    BY <1>6, <2>1 DEF RanOnce
<1> QED
  BY <1>3, <1>7, <1>8

\* A message that is no answer joins up[s], or the first one leaves it.
LEMMA UpAppend ==
    ASSUME TypeOK, Controlled, NEW s \in Streams, PlaceInv(s), NEW m \in Message, m.typ # "response",
           UNCHANGED callState,
           up' = [up EXCEPT ![s] = Append(@, m)],
           UNCHANGED <<sendQ, down, lpc, lmsg, hpc, hreq>>
    PROVE  PlaceInv(s)'
<1>1. up[s] \in Seq(Message) /\ up'[s] = Append(up[s], m)
  BY DEF TypeOK
<1>2. ASSUME NEW i \in 1..Len(up'[s]), up'[s][i].typ = "response"
      PROVE  Answered(up'[s][i].req)
  <2>1. i \in 1..Len(up[s]) /\ up'[s][i] = up[s][i]
    BY <1>1, <1>2
  <2> QED
    BY <1>2, <2>1 DEF PlaceInv
<1> QED
  BY <1>2, SMTT(20) DEF PlaceInv, InTransit, Answered, RanOnce, callState

\* The first message leaves up[s]; the handler may keep it if it is an answer.
LEMMA UpTail ==
    ASSUME TypeOK, Controlled, NEW s \in Streams, PlaceInv(s), up[s] # <<>>,
           UNCHANGED callState,
           up' = [up EXCEPT ![s] = Tail(@)],
           UNCHANGED <<sendQ, down, lpc, lmsg>>,
           hpc'[s] = "deliver" => Answered(hreq'[s])
    PROVE  PlaceInv(s)'
<1>1. up[s] \in Seq(Message) /\ up'[s] = Tail(up[s])
  BY DEF TypeOK
<1>2. ASSUME NEW i \in 1..Len(up'[s]), up'[s][i].typ = "response"
      PROVE  Answered(up'[s][i].req)
  <2>1. i \in 1..Len(Tail(up[s])) /\ up'[s][i] = Tail(up[s])[i]
    BY <1>1
  <2>2. i + 1 \in 1..Len(up[s]) /\ Tail(up[s])[i] = up[s][i + 1]
    BY <1>1, <2>1
  <2> QED
    BY <1>2, <2>1, <2>2 DEF PlaceInv
<1>3. /\ \A q : InTransit(s, q) => InTransit(s, q)'
      /\ \A q : Answered(q) => Answered(q)'
  BY DEF InTransit, Answered, RanOnce, callState
<1>4. /\ \A i \in 1..Len(up'[s]) : up'[s][i].typ = "response" => Answered(up[s][i].req)'
      /\ hpc'[s] = "deliver" => Answered(hreq[s])'
  BY <1>2, <1>3
<1> QED
  BY <1>3, <1>4 DEF PlaceInv

\* Each step keeps the invariant of the commands: one place each, run once.
LEMMA CommandStep == TypeInv /\ StreamInv /\ CommandInv /\ [Next]_vars => CommandInv'
<1> USE DEF managerVars, tableVars, loopVars, handlerVars, callVars, netVars
<1> SUFFICES ASSUME TypeOK, Controlled, StreamInv, CommandInv, [Next]_vars PROVE CommandInv'
  BY DEF TypeInv
\* Steps of the stream s that leave the calls alone.
<1>0. ASSUME NEW s \in Streams, UNCHANGED <<callState, respChan>>,
             \A t \in Streams \ {s} :
                /\ sendQ'[t] = sendQ[t] /\ down'[t] = down[t] /\ up'[t] = up[t]
                /\ lpc'[t] = lpc[t] /\ lmsg'[t] = lmsg[t] /\ hpc'[t] = hpc[t] /\ hreq'[t] = hreq[t],
             \A q \in Requests : via[q] \in Streams => hdev'[via[q]] = hdev[via[q]],
             PlaceInv(s)'
      PROVE  CommandInv'
  <2>1. ASSUME NEW t \in Streams \ {s} PROVE PlaceInv(t)'
    BY <1>0, CallsStay, PlaceStays DEF CommandInv
  <2>2. ASSUME NEW q \in Requests PROVE OutcomeInv(q)'
    BY <1>0, OutcomeStays DEF CommandInv, callState
  <2> QED
    BY <1>0, <2>1, <2>2 DEF CommandInv
<1>1. ASSUME NEW s \in Streams, NEW d \in Devices, AgentConnect(s, d)
      PROVE  CommandInv'
  <2>1. /\ up[s] = <<>> /\ up' = [up EXCEPT ![s] = <<Connect(d)>>]
        /\ UNCHANGED <<callState, respChan, sendQ, down, lpc, lmsg, hpc, hreq, hdev>>
    BY <1>1 DEF AgentConnect, StreamInv, RegistersOnce, callState
  <2>2. up' = [up EXCEPT ![s] = Append(@, Connect(d))]
    BY <2>1 DEF TypeOK
  <2>3. PlaceInv(s)'
    BY <2>1, <2>2, UpAppend, MessageFacts, MessageTypes DEF CommandInv
  <2> QED
    BY <1>0, <2>1, <2>3 DEF TypeOK
<1>2. ASSUME NEW s \in Streams, AgentHeartbeat(s)
      PROVE  CommandInv'
  <2>1. /\ adev[s] \in Devices /\ up' = [up EXCEPT ![s] = Append(@, Heartbeat(adev[s]))]
        /\ UNCHANGED <<callState, respChan, sendQ, down, lpc, lmsg, hpc, hreq, hdev>>
    BY <1>2 DEF AgentHeartbeat, Controlled, callState
  <2>2. PlaceInv(s)'
    BY <2>1, UpAppend, MessageFacts, MessageTypes DEF CommandInv
  <2> QED
    BY <1>0, <2>1, <2>2 DEF TypeOK
<1>4. ASSUME NEW s \in Streams,
             \/ BreakLink(s) \/ RegisterAgentStream(s) \/ SendAck(s) \/ StreamLogs(s)
             \/ SendLoopClosed(s) \/ SendLoopFailed(s) \/ RecvError(s)
      PROVE  CommandInv'
  <2>1. UNCHANGED <<callState, sendQ, down, up, respChan, hreq, hdev>>
    BY <1>4 DEF BreakLink, RegisterAgentStream, SendAck, StreamLogs, SendLoopClosed, SendLoopFailed,
       RecvError, callState
  <2>2. \A t \in Streams : lpc'[t] = "sending" => lpc[t] = "sending" /\ lmsg'[t] = lmsg[t]
    BY <1>4 DEF BreakLink, RegisterAgentStream, SendAck, StreamLogs, SendLoopClosed, SendLoopFailed,
       RecvError, TypeOK
  <2>3. \A t \in Streams : hpc'[t] = "deliver" => hpc[t] = "deliver"
    BY <1>4 DEF BreakLink, RegisterAgentStream, SendAck, StreamLogs, SendLoopClosed, SendLoopFailed,
       RecvError, TypeOK
  <2> QED
    BY <2>1, <2>2, <2>3, CommandQuiet
<1>5. ASSUME NEW s \in Streams, HandleConnect(s)
      PROVE  CommandInv'
  <2>1. /\ up[s] # <<>> /\ Head(up[s]).typ = "connect"
        /\ up' = [up EXCEPT ![s] = Tail(@)]
        /\ hpc' = [hpc EXCEPT ![s] = "register"]
        /\ hdev' = [hdev EXCEPT ![s] = Head(up[s]).dev]
        /\ UNCHANGED <<callState, respChan, sendQ, down, lpc, lmsg, hreq>>
    BY <1>5 DEF HandleConnect, Receive, callState
  <2>2. hdev[s] = NoDevice
    BY <2>1, ReceiveKeepsOnce DEF StreamInv
  <2>3. ASSUME NEW q \in Requests, via[q] \in Streams
        PROVE  hdev'[via[q]] = hdev[via[q]]
    <3>1. hdev[via[q]] = target[q] /\ target[q] \in Devices
      BY <2>3 DEF CommandInv, OutcomeInv, Controlled
    <3>2. via[q] # s
      BY <2>2, <3>1, SentinelAssumption
    <3> QED
      BY <2>1, <2>3, <3>2 DEF TypeOK
  <2>4. PlaceInv(s)'
    BY <2>1, UpTail DEF CommandInv, TypeOK
  <2> QED
    BY <1>0, <2>1, <2>3, <2>4 DEF TypeOK
<1>6. ASSUME NEW s \in Streams, HandleHeartbeat(s)
      PROVE  CommandInv'
  <2>1. /\ up[s] # <<>> /\ up' = [up EXCEPT ![s] = Tail(@)] /\ hpc[s] = "recv"
        /\ UNCHANGED <<callState, respChan, sendQ, down, lpc, lmsg, hpc, hreq, hdev>>
    BY <1>6 DEF HandleHeartbeat, Receive, callState
  <2>2. PlaceInv(s)'
    BY <2>1, UpTail DEF CommandInv, TypeOK
  <2> QED
    BY <1>0, <2>1, <2>2 DEF TypeOK
<1>7. ASSUME NEW s \in Streams, HandleResponse(s)
      PROVE  CommandInv'
  <2> DEFINE r == Head(up[s]).req
  <2>1. /\ up[s] # <<>> /\ up' = [up EXCEPT ![s] = Tail(@)]
        /\ hpc[s] = "recv" /\ Head(up[s]).typ = "response"
        /\ \/ hreq' = [hreq EXCEPT ![s] = r] /\ hpc' = [hpc EXCEPT ![s] = "deliver"]
           \/ UNCHANGED <<hreq, hpc>>
        /\ UNCHANGED <<callState, respChan, sendQ, down, lpc, lmsg, hdev>>
    BY <1>7 DEF HandleResponse, Receive, callState
  <2>2. Answered(r)
    <3>1. up[s] \in Seq(Message)
      BY DEF TypeOK
    <3>2. Head(up[s]) = up[s][1] /\ 1 \in 1..Len(up[s])
      BY <2>1, <3>1
    <3> QED
      BY <2>1, <3>2 DEF CommandInv, PlaceInv
  <2>3. PlaceInv(s)'
    <3>1. hpc'[s] = "deliver" => hreq'[s] = r
      BY <2>1 DEF TypeOK
    <3> HIDE DEF r
    <3> QED
      BY <2>1, <2>2, <3>1, UpTail DEF CommandInv
  <2> QED
    BY <1>0, <2>1, <2>3 DEF TypeOK
<1>8. ASSUME NEW s \in Streams, DeliverResponse(s)
      PROVE  CommandInv'
  <2>1. /\ hpc[s] = "deliver" /\ hpc' = [hpc EXCEPT ![s] = "recv"]
        /\ hreq' = [hreq EXCEPT ![s] = NoRequest]
        /\ respChan' = respChan \cup {hreq[s]}
        /\ UNCHANGED <<callState, sendQ, down, up, lpc, lmsg, hdev>>
    BY <1>8 DEF DeliverResponse, callState
  <2>2. hreq[s] \in Requests /\ Answered(hreq[s])
    BY <2>1 DEF Controlled, CommandInv, PlaceInv
  <2>3. ASSUME NEW t \in Streams PROVE PlaceInv(t)'
    <3>1. hpc'[t] = "deliver" => hpc[t] = "deliver" /\ hreq'[t] = hreq[t]
      BY <2>1 DEF TypeOK
    <3> QED
      BY <2>1, <3>1, CallsStay, PlaceStays DEF CommandInv
  <2>4. ASSUME NEW q \in Requests PROVE OutcomeInv(q)'
    BY <2>1, <2>2 DEF CommandInv, OutcomeInv, Answered, RanOnce, callState
  <2> QED
    BY <2>3, <2>4 DEF CommandInv
<1>9. ASSUME NEW s \in Streams, SendLoopTake(s)
      PROVE  CommandInv'
  <2>1. /\ sendQ[s] # <<>> /\ sendQ' = [sendQ EXCEPT ![s] = Tail(@)]
        /\ lmsg' = [lmsg EXCEPT ![s] = Head(sendQ[s])]
        /\ lpc' = [lpc EXCEPT ![s] = "sending"]
        /\ UNCHANGED <<callState, respChan, down, up, hpc, hreq, hdev>>
    BY <1>9 DEF SendLoopTake, callState
  <2>2. /\ sendQ[s] \in Seq(Requests)
        /\ sendQ'[s] = Tail(sendQ[s]) /\ lmsg'[s] = Head(sendQ[s])
    BY <2>1 DEF TypeOK
  <2>3. /\ Head(sendQ[s]) = sendQ[s][1] /\ 1 \in 1..Len(sendQ[s])
        /\ \A i \in 1..Len(Tail(sendQ[s])) :
            /\ i \in Nat /\ i + 1 \in 1..Len(sendQ[s]) /\ i + 1 # 1
            /\ Tail(sendQ[s])[i] = sendQ[s][i + 1]
    BY <2>1, <2>2
  <2>4. PlaceInv(s)
    BY DEF CommandInv
  <2>5. /\ \A i \in 1..Len(sendQ'[s]) : InTransit(s, sendQ'[s][i])
        /\ InTransit(s, lmsg'[s])
        /\ \A i, j \in 1..Len(sendQ'[s]) : sendQ'[s][i] = sendQ'[s][j] => i = j
        /\ \A i \in 1..Len(sendQ'[s]), j \in 1..Len(down[s]) : sendQ'[s][i] # down[s][j]
        /\ \A i \in 1..Len(sendQ'[s]) : sendQ'[s][i] # lmsg'[s]
        /\ \A i \in 1..Len(down[s]) : down[s][i] # lmsg'[s]
    BY <2>2, <2>3, <2>4 DEF PlaceInv
  <2>6. PlaceInv(s)'
    <3>1. /\ \A q : InTransit(s, q) => InTransit(s, q)'
          /\ \A q : Answered(q) => Answered(q)'
      BY <2>1 DEF InTransit, Answered, RanOnce, callState
    <3>2. /\ \A i \in 1..Len(sendQ'[s]) : InTransit(s, sendQ[s][i])'
          /\ InTransit(s, lmsg[s])'
      BY <2>5, <3>1
    <3>3. \A i \in 1..Len(down'[s]) : InTransit(s, down[s][i])'
      BY <2>1, <2>4, <3>1 DEF PlaceInv
    <3>4. \A i \in 1..Len(up'[s]) : up'[s][i].typ = "response" => Answered(up[s][i].req)'
      BY <2>1, <2>4, <3>1 DEF PlaceInv
    <3>5. hpc'[s] = "deliver" => Answered(hreq[s])'
      BY <2>1, <2>4, <3>1 DEF PlaceInv
    <3>6. \A i, j \in 1..Len(down'[s]) : down'[s][i] = down'[s][j] => i = j
      BY <2>1, <2>4 DEF PlaceInv
    <3>7. /\ \A i \in 1..Len(sendQ'[s]), j \in 1..Len(down'[s]) : sendQ'[s][i] # down'[s][j]
          /\ \A i \in 1..Len(down'[s]) : down'[s][i] # lmsg'[s]
      <4>1. down' = down
        BY <2>1
      <4> QED
        BY <2>5, <4>1
    <3> QED
      BY <2>5, <3>2, <3>3, <3>4, <3>5, <3>6, <3>7 DEF PlaceInv
  <2> QED
    BY <1>0, <2>1, <2>6 DEF TypeOK
<1>10. ASSUME NEW s \in Streams, SendLoopSent(s)
       PROVE  CommandInv'
  <2>1. /\ lpc[s] = "sending" /\ lpc' = [lpc EXCEPT ![s] = "select"]
        /\ lmsg' = [lmsg EXCEPT ![s] = NoRequest]
        /\ down' = [down EXCEPT ![s] = Append(@, lmsg[s])] \/ down' = down
        /\ UNCHANGED <<callState, respChan, sendQ, up, hpc, hreq, hdev>>
    BY <1>10 DEF SendLoopSent, callState
  <2>2. PlaceInv(s) /\ down[s] \in Seq(Requests) /\ lpc'[s] = "select"
    BY <2>1 DEF CommandInv, TypeOK
  <2>3. CASE down' = down
    BY <2>1, <2>2, <2>3, CommandQuiet DEF TypeOK
  <2>4. CASE down' = [down EXCEPT ![s] = Append(@, lmsg[s])]
    <3>1. down'[s] = Append(down[s], lmsg[s])
      BY <2>4 DEF TypeOK
    <3>2. \A i \in 1..Len(down'[s]) :
            \/ i \in 1..Len(down[s]) /\ down'[s][i] = down[s][i]
            \/ i = Len(down[s]) + 1 /\ i \notin 1..Len(down[s]) /\ down'[s][i] = lmsg[s]
      BY <2>2, <3>1
    <3>3. /\ \A i \in 1..Len(down'[s]) : InTransit(s, down'[s][i])
          /\ \A i, j \in 1..Len(down'[s]) : down'[s][i] = down'[s][j] => i = j
          /\ \A i \in 1..Len(sendQ[s]), j \in 1..Len(down'[s]) : sendQ[s][i] # down'[s][j]
      BY <2>1, <2>2, <3>2 DEF PlaceInv
    <3>4. PlaceInv(s)'
      BY <2>1, <2>2, <3>3 DEF PlaceInv, InTransit, Answered, RanOnce, callState
    <3> QED
      BY <1>0, <2>1, <2>4, <3>4 DEF TypeOK
  <2> QED
    BY <2>1, <2>3, <2>4
<1>11. ASSUME NEW s \in Streams, AgentExecute(s)
       PROVE  CommandInv'
  <2>0. PICK r \in Requests : r = Head(down[s])
    BY <1>11 DEF AgentExecute, TypeOK
  <2>1. /\ down[s] # <<>> /\ down' = [down EXCEPT ![s] = Tail(@)]
        /\ ran' = [ran EXCEPT ![r][adev[s]] = @ + 1]
        /\ up' = [up EXCEPT ![s] = Append(@, Response(r))] \/ up' = up
        /\ UNCHANGED <<cpc, target, via, outcome, respChan, sendQ, lpc, lmsg, hpc, hreq, hdev>>
    BY <1>11, <2>0 DEF AgentExecute
  <2>2. /\ PlaceInv(s) /\ down[s] \in Seq(Requests) /\ down'[s] = Tail(down[s])
        /\ up[s] \in Seq(Message)
    BY <2>1 DEF CommandInv, TypeOK
  <2>3. /\ r = down[s][1] /\ 1 \in 1..Len(down[s])
        /\ \A i \in 1..Len(Tail(down[s])) :
            /\ i \in Nat /\ i + 1 \in 1..Len(down[s]) /\ i + 1 # 1
            /\ Tail(down[s])[i] = down[s][i + 1]
    BY <2>0, <2>1, <2>2
  <2>4. InTransit(s, r) /\ ran' = [ran EXCEPT ![r] = RanOnce(r)]
    BY <1>11, <2>0, ExecuteRuns DEF StreamInv
  <2>6. /\ ran'[r] = RanOnce(r)
        /\ \A q \in Requests : q # r => ran'[q] = ran[q]
    BY <2>4 DEF TypeOK
  <2>7. Answered(r)' /\ ~Answered(r)
    <3>1. ~Answered(r)
      BY <2>3, <2>4, TransitIsNotAnswered
    <3>2. Answered(r)'
      BY <2>1, <2>4, <2>6 DEF InTransit, Answered, RanOnce
    <3> QED
      BY <3>1, <3>2
  <2>8. \A q \in Requests : Answered(q) => Answered(q)'
    BY <2>1, <2>6, <2>7 DEF Answered, RanOnce
  <2>9. \A t \in Streams, q \in Requests : q # r /\ InTransit(t, q) => InTransit(t, q)'
    BY <2>1, <2>6 DEF InTransit
  <2>10. ASSUME NEW t \in Streams \ {s} PROVE PlaceInv(t)'
    <3>1. \A q \in Requests : InTransit(t, q) => InTransit(t, q)'
      BY <2>4, <2>9 DEF InTransit
    <3>2. sendQ'[t] = sendQ[t] /\ down'[t] = down[t] /\ up'[t] = up[t]
      BY <2>1 DEF TypeOK
    <3> QED
      BY <2>1, <2>8, <3>1, <3>2, PlaceStays DEF CommandInv
  <2>11. PlaceInv(s)'
    <3>1. /\ \A i \in 1..Len(sendQ[s]) : sendQ[s][i] \in Requests /\ sendQ[s][i] # r
          /\ \A i \in 1..Len(Tail(down[s])) : Tail(down[s])[i] \in Requests /\ Tail(down[s])[i] # r
          /\ lpc[s] = "sending" => lmsg[s] \in Requests /\ lmsg[s] # r
      <4>1. \A i \in 1..Len(sendQ[s]) : sendQ[s][i] \in Requests
        BY DEF TypeOK
      <4>2. \A i \in 1..Len(down[s]) : down[s][i] \in Requests
        BY <2>2
      <4> QED
        BY <2>2, <2>3, <4>1, <4>2, SMTT(20) DEF PlaceInv, Controlled
    <3>2. /\ \A i \in 1..Len(sendQ[s]) : InTransit(s, sendQ[s][i])'
          /\ \A i \in 1..Len(down'[s]) : InTransit(s, down[s][i])'
          /\ lpc[s] = "sending" => InTransit(s, lmsg[s])'
      <4>1. \A i \in 1..Len(Tail(down[s])) : InTransit(s, Tail(down[s])[i])
        BY <2>2, <2>3 DEF PlaceInv
      <4> QED
        BY <2>1, <2>2, <2>9, <3>1, <4>1 DEF PlaceInv
    <3>3. /\ \A i, j \in 1..Len(down'[s]) : down'[s][i] = down'[s][j] => i = j
          /\ \A i \in 1..Len(sendQ[s]), j \in 1..Len(down'[s]) : sendQ[s][i] # down'[s][j]
          /\ lpc[s] = "sending" => \A i \in 1..Len(down'[s]) : down'[s][i] # lmsg[s]
      BY <2>2, <2>3 DEF PlaceInv
    <3>4. \A i \in 1..Len(up'[s]) : up'[s][i].typ = "response" => Answered(up[s][i].req)'
      <4>1. ASSUME NEW i \in 1..Len(up[s]), up[s][i].typ = "response"
            PROVE  up[s][i].req \in Requests /\ Answered(up[s][i].req)
        BY <2>2, <4>1, MessageFacts DEF PlaceInv
      <4>2. ASSUME NEW i \in 1..Len(up'[s])
            PROVE  (i \in 1..Len(up[s]) /\ up'[s][i] = up[s][i]) \/ up'[s][i] = Response(r)
        <5>1. up'[s] = Append(up[s], Response(r)) \/ up'[s] = up[s]
          BY <2>1 DEF TypeOK
        <5> HIDE DEF TypeOK
        <5> QED
          BY <2>2, <4>2, <5>1
      <4>3. Response(r).req = r
        BY DEF Response
      <4>4. ASSUME NEW i \in 1..Len(up'[s]), up'[s][i].typ = "response"
            PROVE  Answered(up[s][i].req)'
        <5>1. CASE i \in 1..Len(up[s]) /\ up'[s][i] = up[s][i]
          <6>1. up[s][i].req \in Requests /\ Answered(up[s][i].req)
            BY <4>1, <4>4, <5>1
          <6>2. up'[s][i].req = up[s][i].req
            BY <5>1
          <6> QED
            BY <2>8, <6>1, <6>2
        <5>2. CASE up'[s][i] = Response(r)
          <6>1. up'[s][i].req = r
            BY <4>3, <5>2
          <6> QED
            BY <2>7, <6>1
        <5> QED
          BY <4>2, <4>4, <5>1, <5>2
      <4> QED
        BY <4>4
    <3>5. hpc[s] = "deliver" => Answered(hreq[s])'
      BY <2>1, <2>2, <2>8 DEF PlaceInv, Controlled
    <3> QED
      BY <2>1, <2>2, <3>2, <3>3, <3>4, <3>5 DEF PlaceInv
  <2>12. ASSUME NEW q \in Requests PROVE OutcomeInv(q)'
    <3>1. CASE q = r
      BY <2>1, <2>3, <2>4, <2>7, <3>1 DEF CommandInv, OutcomeInv, InTransit
    <3>2. CASE q # r
      BY <2>1, <2>6, <3>2, OutcomeStays DEF CommandInv
    <3> QED
      BY <3>1, <3>2
  <2> QED
    BY <2>10, <2>11, <2>12 DEF CommandInv
\* Steps of the call r that leave the streams alone.
<1>12. ASSUME NEW r \in Requests,
              UNCHANGED <<sendQ, down, up, lpc, lmsg, hpc, hreq, hdev, ran>>,
              respChan' \subseteq respChan,
              \A q \in Requests \ {r} :
                 /\ cpc'[q] = cpc[q] /\ target'[q] = target[q]
                 /\ via'[q] = via[q] /\ outcome'[q] = outcome[q],
              \A t \in Streams : InTransit(t, r) => InTransit(t, r)',
              Answered(r) => Answered(r)',
              OutcomeInv(r)'
       PROVE  CommandInv'
  <2>1. ASSUME NEW t \in Streams PROVE PlaceInv(t)'
    <3>1. \A q \in Requests : InTransit(t, q) => InTransit(t, q)'
      BY <1>12 DEF InTransit
    <3>2. \A q \in Requests : Answered(q) => Answered(q)'
      BY <1>12 DEF Answered, RanOnce
    <3> QED
      BY <1>12, <3>1, <3>2, PlaceStays DEF CommandInv
  <2>2. ASSUME NEW q \in Requests \ {r} PROVE OutcomeInv(q)'
    BY <1>12, OutcomeStays DEF CommandInv
  <2> QED
    BY <1>12, <2>1, <2>2 DEF CommandInv
<1>13. ASSUME NEW r \in Requests, NEW d \in Devices, CallRefused(r, d)
       PROVE  CommandInv'
  <2>1. /\ cpc[r] = "idle" /\ cpc' = [cpc EXCEPT ![r] = "done"]
        /\ target' = [target EXCEPT ![r] = d]
        /\ outcome' = [outcome EXCEPT ![r] = "refused"]
        /\ UNCHANGED <<sendQ, down, up, lpc, lmsg, hpc, hreq, hdev, ran, respChan, via>>
    BY <1>13 DEF CallRefused
  <2>2. OutcomeInv(r)'
    <3>1. ran[r] = NeverRan /\ r \notin respChan /\ via[r] \notin Streams
      BY <2>1 DEF CommandInv, OutcomeInv, Answered
    <3>2. cpc'[r] = "done" /\ outcome'[r] = "refused"
      BY <2>1 DEF TypeOK
    <3> QED
      BY <2>1, <3>1, <3>2 DEF OutcomeInv
  <2>3. ~Answered(r) /\ \A t \in Streams : ~InTransit(t, r)
    BY <2>1 DEF Answered, InTransit
  <2> QED
    BY <1>12, <2>1, <2>2, <2>3 DEF TypeOK
<1>14. ASSUME NEW r \in Requests, NEW d \in Devices, CallLookup(r, d)
       PROVE  CommandInv'
  <2>1. /\ cpc[r] = "idle" /\ cpc' = [cpc EXCEPT ![r] = "register"]
        /\ target' = [target EXCEPT ![r] = d]
        /\ agentStreams[d] # NoStream /\ via' = [via EXCEPT ![r] = agentStreams[d]]
        /\ UNCHANGED <<sendQ, down, up, lpc, lmsg, hpc, hreq, hdev, ran, respChan, outcome>>
    BY <1>14 DEF CallLookup
  <2>2. hdev[agentStreams[d]] = d
    BY <2>1 DEF StreamInv, RoutedIsServed
  <2>3. OutcomeInv(r)'
    <3>1. ran[r] = NeverRan /\ r \notin respChan /\ outcome[r] = "none"
      BY <2>1 DEF CommandInv, OutcomeInv, Answered
    <3>2. cpc'[r] = "register" /\ via'[r] = agentStreams[d] /\ target'[r] = d
      BY <2>1 DEF TypeOK
    <3> QED
      BY <2>1, <2>2, <3>1, <3>2 DEF OutcomeInv
  <2>4. ~Answered(r) /\ \A t \in Streams : ~InTransit(t, r)
    BY <2>1 DEF Answered, InTransit
  <2> QED
    BY <1>12, <2>1, <2>3, <2>4 DEF TypeOK
<1>15. ASSUME NEW r \in Requests, RegisterPending(r) \/ EnqueueTimeout(r)
       PROVE  CommandInv'
  <2>1. /\ \/ cpc[r] = "register" /\ cpc' = [cpc EXCEPT ![r] = "enqueue"] /\ outcome' = outcome
           \/ /\ cpc[r] = "enqueue" /\ cpc' = [cpc EXCEPT ![r] = "cleanup"]
              /\ outcome' = [outcome EXCEPT ![r] = "refused"]
        /\ UNCHANGED <<sendQ, down, up, lpc, lmsg, hpc, hreq, hdev, ran, respChan, target, via>>
    BY <1>15 DEF RegisterPending, EnqueueTimeout
  <2>2. OutcomeInv(r)'
    <3>1. /\ ran[r] = NeverRan /\ r \notin respChan /\ outcome[r] = "none"
          /\ via[r] \in Streams => hdev[via[r]] = target[r]
      BY <2>1 DEF CommandInv, OutcomeInv, Answered
    <3>2. \/ cpc'[r] = "enqueue" /\ outcome'[r] = "none"
          \/ cpc'[r] = "cleanup" /\ outcome'[r] = "refused"
      BY <2>1, <3>1 DEF TypeOK
    <3> QED
      BY <2>1, <3>1, <3>2 DEF OutcomeInv
  <2>3. ~Answered(r) /\ \A t \in Streams : ~InTransit(t, r)
    BY <2>1 DEF Answered, InTransit
  <2> QED
    BY <1>12, <2>1, <2>2, <2>3 DEF TypeOK
<1>16. ASSUME NEW r \in Requests, AwaitResponse(r)
       PROVE  CommandInv'
  <2>1. /\ cpc[r] = "wait" /\ cpc' = [cpc EXCEPT ![r] = "cleanup"]
        /\ r \in respChan /\ respChan' = respChan \ {r}
        /\ outcome' = [outcome EXCEPT ![r] = "ok"]
        /\ UNCHANGED <<sendQ, down, up, lpc, lmsg, hpc, hreq, hdev, ran, target, via>>
    BY <1>16 DEF AwaitResponse
  <2>2. Answered(r) /\ \A t \in Streams : ~InTransit(t, r)
    BY <2>1, TransitIsNotAnswered DEF CommandInv, OutcomeInv
  <2>3. Answered(r)'
    BY <2>1, <2>2 DEF TypeOK, Answered, RanOnce
  <2>4. OutcomeInv(r)'
    <3>1. cpc'[r] = "cleanup" /\ outcome'[r] = "ok" /\ r \notin respChan'
      BY <2>1 DEF TypeOK
    <3>2. via[r] \in Streams => hdev[via[r]] = target[r]
      BY DEF CommandInv, OutcomeInv
    <3> QED
      BY <2>1, <2>3, <3>1, <3>2 DEF OutcomeInv
  <2> QED
    BY <1>12, <2>1, <2>2, <2>3, <2>4 DEF TypeOK
<1>17. ASSUME NEW r \in Requests, AwaitError(r) \/ AwaitTimeout(r)
       PROVE  CommandInv'
  <2>1. /\ cpc[r] = "wait" /\ cpc' = [cpc EXCEPT ![r] = "cleanup"]
        /\ outcome' = [outcome EXCEPT ![r] = "failed"]
        /\ UNCHANGED <<sendQ, down, up, lpc, lmsg, hpc, hreq, hdev, ran, respChan, target, via>>
    BY <1>17 DEF AwaitError, AwaitTimeout
  <2>2. /\ Answered(r) => Answered(r)'
        /\ \A t \in Streams : InTransit(t, r) => InTransit(t, r)'
    BY <2>1 DEF TypeOK, Answered, InTransit, RanOnce
  <2>3. OutcomeInv(r)'
    <3>1. cpc'[r] = "cleanup" /\ outcome'[r] = "failed"
      BY <2>1 DEF TypeOK
    <3>2. /\ via[r] \in Streams => hdev[via[r]] = target[r]
          /\ r \in respChan => Answered(r)
      BY DEF CommandInv, OutcomeInv
    <3> QED
      BY <2>1, <2>2, <3>1, <3>2 DEF OutcomeInv
  <2> QED
    BY <1>12, <2>1, <2>2, <2>3 DEF TypeOK
<1>18. ASSUME NEW r \in Requests, CleanupRequest(r)
       PROVE  CommandInv'
  <2>1. /\ cpc[r] = "cleanup" /\ cpc' = [cpc EXCEPT ![r] = "done"]
        /\ UNCHANGED <<sendQ, down, up, lpc, lmsg, hpc, hreq, hdev, ran, respChan, target, via, outcome>>
    BY <1>18 DEF CleanupRequest
  <2>2. /\ Answered(r) => Answered(r)'
        /\ \A t \in Streams : InTransit(t, r) => InTransit(t, r)'
    BY <2>1 DEF TypeOK, Answered, InTransit, RanOnce
  <2>3. OutcomeInv(r)'
    BY <2>1, <2>2 DEF TypeOK, CommandInv, OutcomeInv
  <2> QED
    BY <1>12, <2>1, <2>2, <2>3 DEF TypeOK
<1>19. ASSUME NEW r \in Requests, Enqueue(r)
       PROVE  CommandInv'
  <2>0. PICK s \in Streams : s = via[r]
    BY <1>19 DEF Enqueue, Controlled
  <2>1. /\ cpc[r] = "enqueue" /\ cpc' = [cpc EXCEPT ![r] = "wait"]
        /\ sendQ' = [sendQ EXCEPT ![s] = Append(@, r)]
        /\ UNCHANGED <<down, up, lpc, lmsg, hpc, hreq, hdev, ran, respChan, target, via, outcome>>
    BY <1>19, <2>0 DEF Enqueue
  <2>3. /\ ~Answered(r) /\ \A t \in Streams : ~InTransit(t, r)
    BY <2>1 DEF Answered, InTransit
  <2>4. InTransit(s, r)'
    BY <2>0, <2>1 DEF InTransit, TypeOK, CommandInv, OutcomeInv
  <2>5. /\ \A t \in Streams, q \in Requests : InTransit(t, q) => InTransit(t, q)'
        /\ \A q \in Requests : Answered(q) => Answered(q)'
    BY <2>1, <2>3 DEF TypeOK, Answered, InTransit, RanOnce
  <2>6. ASSUME NEW t \in Streams, t # s PROVE PlaceInv(t)'
    <3>1. sendQ'[t] = sendQ[t]
      BY <2>1, <2>6 DEF TypeOK
    <3> QED
      BY <2>1, <2>5, <3>1, PlaceStays DEF CommandInv
  <2>7. PlaceInv(s)'
    <3>1. /\ sendQ[s] \in Seq(Requests) /\ sendQ'[s] = Append(sendQ[s], r)
          /\ down[s] \in Seq(Requests) /\ up[s] \in Seq(Message) /\ PlaceInv(s)
      BY <2>1 DEF TypeOK, CommandInv
    <3>2. /\ \A i \in 1..Len(sendQ[s]) : sendQ[s][i] \in Requests
          /\ \A i \in 1..Len(down[s]) : down[s][i] \in Requests
          /\ \A i \in 1..Len(up[s]) : up[s][i].typ = "response" => up[s][i].req \in Requests
          /\ lpc[s] = "sending" => lmsg[s] \in Requests
          /\ hpc[s] = "deliver" => hreq[s] \in Requests
      BY <3>1, MessageFacts DEF Controlled
    <3>3. \A i \in 1..Len(sendQ'[s]) :
            \/ i \in 1..Len(sendQ[s]) /\ sendQ'[s][i] = sendQ[s][i]
            \/ i = Len(sendQ[s]) + 1 /\ i \notin 1..Len(sendQ[s]) /\ sendQ'[s][i] = r
      BY <3>1
    <3>4. /\ \A i \in 1..Len(sendQ[s]) : sendQ[s][i] # r
          /\ \A i \in 1..Len(down[s]) : down[s][i] # r
          /\ lpc[s] = "sending" => lmsg[s] # r
      BY <2>3, <3>1 DEF PlaceInv
    <3>5. /\ \A i, j \in 1..Len(sendQ'[s]) : sendQ'[s][i] = sendQ'[s][j] => i = j
          /\ \A i \in 1..Len(sendQ'[s]), j \in 1..Len(down[s]) : sendQ'[s][i] # down[s][j]
          /\ lpc[s] = "sending" => \A i \in 1..Len(sendQ'[s]) : sendQ'[s][i] # lmsg[s]
      BY <3>1, <3>3, <3>4 DEF PlaceInv
    <3>6. /\ \A i \in 1..Len(sendQ[s]) : InTransit(s, sendQ[s][i])
          /\ \A i \in 1..Len(down[s]) : InTransit(s, down[s][i])
          /\ lpc[s] = "sending" => InTransit(s, lmsg[s])
          /\ \A i \in 1..Len(up[s]) : up[s][i].typ = "response" => Answered(up[s][i].req)
          /\ hpc[s] = "deliver" => Answered(hreq[s])
      BY <3>1 DEF PlaceInv
    <3>7. ASSUME NEW i \in 1..Len(sendQ'[s]) PROVE InTransit(s, sendQ[s][i])'
      BY <2>4, <2>5, <3>2, <3>3, <3>6
    <3>8. /\ \A i \in 1..Len(down[s]) : InTransit(s, down[s][i])'
          /\ lpc[s] = "sending" => InTransit(s, lmsg[s])'
      BY <2>1, <2>5, <3>2, <3>6
    <3>9. /\ \A i \in 1..Len(up[s]) : up[s][i].typ = "response" => Answered(up[s][i].req)'
          /\ hpc[s] = "deliver" => Answered(hreq[s])'
      BY <2>1, <2>5, <3>2, <3>6
    <3>10. /\ \A i, j \in 1..Len(down[s]) : down[s][i] = down[s][j] => i = j
           /\ lpc[s] = "sending" => \A i \in 1..Len(down[s]) : down[s][i] # lmsg[s]
      BY <3>1 DEF PlaceInv
    <3> QED
      BY <2>1, <3>5, <3>7, <3>8, <3>9, <3>10 DEF PlaceInv
  <2>8. ASSUME NEW q \in Requests PROVE OutcomeInv(q)'
    <3>1. CASE q = r
      <4>1. cpc'[r] = "wait" /\ outcome[r] = "none"
        BY <2>1 DEF TypeOK, CommandInv, OutcomeInv
      <4> QED
        BY <2>1, <2>5, <3>1, <4>1 DEF CommandInv, OutcomeInv
    <3>2. CASE q # r
      <4>1. cpc'[q] = cpc[q]
        BY <2>1, <3>2 DEF TypeOK
      <4> QED
        BY <2>1, <4>1, OutcomeStays DEF CommandInv
    <3> QED
      BY <3>1, <3>2
  <2> QED
    BY <2>6, <2>7, <2>8 DEF CommandInv
<1>20. ASSUME (\E D \in SUBSET Devices : CheckOfflineDevices(D)) \/ Cleanup \/ UNCHANGED vars
       PROVE  CommandInv'
  <2>1. UNCHANGED <<callState, sendQ, down, up, respChan, lpc, lmsg, hpc, hreq, hdev>>
    BY <1>20 DEF CheckOfflineDevices, Cleanup, vars, callState
  <2> QED
    BY <2>1, CommandQuiet
<1> QED
  BY <1>1, <1>2, <1>4, <1>5, <1>6, <1>7, <1>8, <1>9, <1>10, <1>11, <1>13, <1>14, <1>15, <1>16,
     <1>17, <1>18, <1>19, <1>20
  DEF Next, Agent, Handler, SendLoop, Call

-----------------------------------------------------------------------------
(* The inductive invariant, and the safety properties it holds. *)

\* The conjunction of the four parts is inductive: what each program counter of handlers,
\* sendLoops and calls relies on when it goes on after a lock was let go (proxy.go, services.go).
THEOREM InductiveInvariant == Spec => []IInv
<1>1. IInv <=> TypeInv /\ StreamInv /\ TableInv /\ CommandInv
  BY DEF IInv, TypeInv, StreamInv, TableInv
<1>2. Init => IInv
  BY <1>1, TypeInit, StreamInit, TableInit, CommandInit
<1>3. IInv /\ [Next]_vars => IInv'
  <2>1. IInv /\ [Next]_vars => TypeInv' /\ StreamInv' /\ TableInv' /\ CommandInv'
    BY <1>1, TypeStep, StreamStep, TableStep, CommandStep
  <2>2. TypeInv' /\ StreamInv' /\ TableInv' /\ CommandInv' => IInv'
    BY DEF IInv, TypeInv, StreamInv, TableInv
  <2> QED
    BY <2>1, <2>2
<1> QED
  BY <1>2, <1>3, PTL DEF Spec

\* No interleaving of replacement, Recv errors, failed sends and Cleanup makes
\* the server close the closed channel of an AgentStream twice and panic.
THEOREM NeverPanics == Spec => []NoPanic
<1>1. IInv => NoPanic
  BY DEF IInv
<1> QED
  BY <1>1, InductiveInvariant, PTL

\* Whatever stream agentStreams names for a device was registered by that
\* device's handler, is open, and has a sendLoop to empty its queue.
THEOREM RoutesAreServed == Spec => []RoutedIsServed
<1>1. IInv => RoutedIsServed
  BY DEF IInv
<1> QED
  BY <1>1, InductiveInvariant, PTL

\* pendingRequests and deviceRequests never drift apart, though five places
\* of the code change them.
THEOREM TablesStayTogether == Spec => []TablesAgree
<1>1. IInv => TablesAgree
  BY DEF IInv
<1> QED
  BY <1>1, InductiveInvariant, PTL

\* A call that a replacement, an unregistering or Cleanup took out of pendingRequests
\* has its error in errChan, whichever select of SendCommandToAgent it is in.
THEOREM CancelledCallsKnow == Spec => []CancelReachesCall
<1>1. IInv => CancelReachesCall
  BY DEF IInv
<1> QED
  BY <1>1, InductiveInvariant, PTL

-----------------------------------------------------------------------------
(* Closing a stream tells its calls. *)

\* The stream of a call is one of the device that the call is for.
LEMMA CallOfDevice ==
    ASSUME IInv, NEW r \in Requests, NEW d \in Devices,
           cpc[r] \in {"enqueue", "wait"}, agentStreams[d] = via[r]
    PROVE  r \in deviceRequests[d] \cap pendingRequests \/ r \in errChan
<1>1. via[r] \in Streams
  BY DEF IInv, Controlled
<1>2. hdev[via[r]] = d
  BY <1>1, SentinelAssumption DEF IInv, RoutedIsServed
<1>3. target[r] = d
  BY <1>1, <1>2 DEF IInv, CommandInv, OutcomeInv
<1> QED
  BY <1>3 DEF IInv, TablesAgree, CancelReachesCall

\* Unregistering a device tells the calls on the stream that it closes.
LEMMA UnregisterTells ==
    ASSUME IInv, NEW d \in Devices, UnregisterAgentStream(d), NEW r \in Requests
    PROVE  ToldOfClosing(r)
<1>1. /\ \A s \in Streams : s \in closed' <=> s \in closed \/ s = agentStreams[d]
      /\ errChan' = errChan \cup (deviceRequests[d] \cap pendingRequests)
  BY UnregisterStreams DEF IInv, StreamInv, UnregisterAgentStream, CancelAllForDevice
<1>2. cpc[r] \in {"enqueue", "wait"} => via[r] \in Streams
  BY DEF IInv, Controlled
<1> QED
  BY <1>1, <1>2, CallOfDevice DEF ToldOfClosing

\* Three steps close a stream, and each of them tells.
LEMMA ClosingStep == IInv /\ [Next]_vars => \A r \in Requests : ToldOfClosing(r)
<1> USE DEF managerVars, tableVars, loopVars, handlerVars, callVars, netVars
<1> SUFFICES ASSUME IInv, [Next]_vars, NEW r \in Requests PROVE ToldOfClosing(r)
  OBVIOUS
<1>0. TypeOK /\ Controlled /\ (cpc[r] \in {"enqueue", "wait"} => via[r] \in Streams)
  BY DEF IInv, Controlled
<1>1. ASSUME closed' = closed PROVE ToldOfClosing(r)
  BY <1>1 DEF ToldOfClosing
<1>2. ASSUME NEW s \in Streams, RegisterAgentStream(s)
      PROVE  ToldOfClosing(r)
  <2>1. /\ hdev[s] \in Devices
        /\ closed' = closed \cup Registered(hdev[s])
        /\ agentStreams[hdev[s]] # NoStream =>
              errChan' = errChan \cup (deviceRequests[hdev[s]] \cap pendingRequests)
        /\ agentStreams[hdev[s]] = NoStream => errChan' = errChan
    BY <1>0, <1>2 DEF RegisterAgentStream, CloseStreams, CancelAllForDevice, Controlled
  <2>2. \A t \in Streams : t \in closed' <=> t \in closed \/ agentStreams[hdev[s]] = t
    BY <1>0, <2>1, RegisteredFacts
  <2> QED
    BY <1>0, <2>1, <2>2, CallOfDevice, SentinelAssumption DEF ToldOfClosing
<1>3. ASSUME NEW t \in Streams, RecvError(t)
      PROVE  ToldOfClosing(r)
  <2>1. CASE hdev[t] = NoDevice
    BY <1>1, <1>3, <2>1 DEF RecvError
  <2>2. CASE hdev[t] # NoDevice
    BY <1>0, <1>3, <2>2, UnregisterTells DEF RecvError, TypeOK
  <2> QED
    BY <2>1, <2>2
<1>4. ASSUME NEW t \in Streams, SendLoopFailed(t)
      PROVE  ToldOfClosing(r)
  BY <1>0, <1>4, UnregisterTells DEF SendLoopFailed, Controlled
<1>5. ASSUME Cleanup
      PROVE  ToldOfClosing(r)
  <2>1. /\ closed' = closed \cup UNION {Registered(d) : d \in Devices}
        /\ errChan' = errChan \cup pendingRequests
    BY <1>5 DEF Cleanup, CloseStreams
  <2>2. \A t \in Streams : t \in closed' => t \in closed \/ \E d \in Devices : agentStreams[d] = t
    BY <1>0, <2>1, RegisteredFacts
  <2> QED
    BY <1>0, <2>1, <2>2, CallOfDevice DEF ToldOfClosing
<1>6. ASSUME NEW s \in Streams, Agent(s) \/ StreamLogs(s)
      PROVE  ToldOfClosing(r)
  BY <1>1, <1>6 DEF Agent, AgentConnect, AgentHeartbeat, AgentExecute, BreakLink, StreamLogs
<1>7. ASSUME NEW s \in Streams, HandleConnect(s) \/ SendAck(s) \/ HandleHeartbeat(s) \/ HandleResponse(s) \/ DeliverResponse(s)
      PROVE  ToldOfClosing(r)
  BY <1>1, <1>7 DEF HandleConnect, SendAck, HandleHeartbeat, HandleResponse, DeliverResponse
<1>8. ASSUME NEW s \in Streams, SendLoopClosed(s) \/ SendLoopTake(s) \/ SendLoopSent(s)
      PROVE  ToldOfClosing(r)
  BY <1>1, <1>8 DEF SendLoopClosed, SendLoopTake, SendLoopSent
<1>9. ASSUME NEW q \in Requests, Call(q)
      PROVE  ToldOfClosing(r)
  BY <1>1, <1>9 DEF Call, CallRefused, CallLookup, RegisterPending, Enqueue, EnqueueTimeout,
     AwaitResponse, AwaitError, AwaitTimeout, CleanupRequest
<1>10. ASSUME NEW D \in SUBSET Devices, CheckOfflineDevices(D)
       PROVE  ToldOfClosing(r)
  BY <1>1, <1>10 DEF CheckOfflineDevices
<1>11. CASE UNCHANGED vars
  BY <1>1, <1>11 DEF vars
<1> QED
  BY <1>2, <1>3, <1>4, <1>5, <1>6, <1>7, <1>8, <1>9, <1>10, <1>11
  DEF Next, Agent, Handler, SendLoop

\* RegisterAgentStream, UnregisterAgentStream and Cleanup (proxy.go) never close a stream
\* under a registered call without an error for it, for any devices, streams and calls.
THEOREM ClosingTellsCalls == Spec => CloseCancelsCalls
<1>1. IInv /\ [Next]_vars => [\A r \in Requests : ToldOfClosing(r)]_vars
  BY ClosingStep
<1> QED
  BY <1>1, InductiveInvariant, PTL DEF Spec, CloseCancelsCalls

-----------------------------------------------------------------------------
(* The refinement of RemoteCall. *)

\* What RemoteCall sees of a step that leaves the calls alone: nothing.
LEMMA StutterQuiet ==
    ASSUME UNCHANGED callState
    PROVE  UNCHANGED Promise!vars
  BY DEF callState, Promise!vars, CallState

\* What RemoteCall sees of a step of the call r: its state.
LEMMA CallMoves ==
    ASSUME NEW r \in Requests,
           \A q \in Requests \ {r} : cpc'[q] = cpc[q] /\ outcome'[q] = outcome[q]
    PROVE  [q \in Requests |-> CallState(q)]'
             = [[q \in Requests |-> CallState(q)] EXCEPT ![r] = CallState(r)']
  BY DEF CallState

\* The initial state is one of RemoteCall.
LEMMA PromiseInit == Init => Promise!Init
  BY DEF Init, Promise!Init, CallState, NeverRan, Promise!NeverRan

\* Each step of the calls is the step of RemoteCall of its kind; running a
\* command is Run; nothing else shows.
LEMMA PromiseStep == IInv /\ [Next]_vars => [Promise!Next]_(Promise!vars)
<1> USE DEF managerVars, tableVars, loopVars, handlerVars, callVars, netVars
<1> SUFFICES ASSUME IInv, [Next]_vars PROVE [Promise!Next]_(Promise!vars)
  OBVIOUS
<1> USE DEF IInv
<1>1. ASSUME UNCHANGED callState
      PROVE  [Promise!Next]_(Promise!vars)
  BY <1>1, StutterQuiet
<1>2. ASSUME NEW s \in Streams,
             \/ \E d \in Devices : AgentConnect(s, d)
             \/ AgentHeartbeat(s) \/ BreakLink(s) \/ StreamLogs(s)
             \/ Handler(s) \/ SendLoop(s)
      PROVE  UNCHANGED callState
  BY <1>2 DEF AgentConnect, AgentHeartbeat, BreakLink, StreamLogs, Handler,
     HandleConnect, RegisterAgentStream, SendAck, HandleHeartbeat, HandleResponse,
     DeliverResponse, RecvError, SendLoop, SendLoopClosed, SendLoopTake,
     SendLoopSent, SendLoopFailed, callState
<1>3. ASSUME \/ \E D \in SUBSET Devices : CheckOfflineDevices(D)
             \/ Cleanup
             \/ UNCHANGED vars
      PROVE  UNCHANGED callState
  BY <1>3 DEF CheckOfflineDevices, Cleanup, vars, callState
<1>4. ASSUME NEW s \in Streams, AgentExecute(s)
      PROVE  Promise!Next
  <2>1. PICK r \in Requests : r = Head(down[s])
    BY <1>4 DEF AgentExecute, TypeOK
  <2>2. InTransit(s, r) /\ ran' = [ran EXCEPT ![r] = RanOnce(r)]
    BY <1>4, <2>1, ExecuteRuns
  <2>3. UNCHANGED <<cpc, outcome, target>>
    BY <1>4 DEF AgentExecute
  <2>4. CallState(r) \in {"open", "failed"}
    BY <2>2 DEF CommandInv, OutcomeInv, InTransit, CallState
  <2>5. UNCHANGED [q \in Requests |-> CallState(q)]
    BY <2>3 DEF CallState
  <2>6. Promise!Run(r)
    BY <2>2, <2>3, <2>4, <2>5
    DEF Promise!Run, Promise!NeverRan, NeverRan, RanOnce, InTransit
  <2> QED
    BY <2>6 DEF Promise!Next
<1>5. ASSUME NEW r \in Requests, NEW d \in Devices, CallRefused(r, d)
      PROVE  Promise!Next
  <2>1. /\ cpc[r] = "idle" /\ cpc' = [cpc EXCEPT ![r] = "done"]
        /\ target' = [target EXCEPT ![r] = d]
        /\ outcome' = [outcome EXCEPT ![r] = "refused"] /\ ran' = ran
    BY <1>5 DEF CallRefused
  <2>2. CallState(r) = "idle" /\ CallState(r)' = "refused"
    BY <2>1 DEF CallState, TypeOK
  <2>3. Promise!InvokeRefused(r, d)
    BY <2>1, <2>2, CallMoves DEF Promise!InvokeRefused, TypeOK
  <2> QED
    BY <2>3 DEF Promise!Next
<1>6. ASSUME NEW r \in Requests, NEW d \in Devices, CallLookup(r, d)
      PROVE  Promise!Next
  <2>1. /\ cpc[r] = "idle" /\ cpc' = [cpc EXCEPT ![r] = "register"]
        /\ target' = [target EXCEPT ![r] = d]
        /\ UNCHANGED <<outcome, ran>>
    BY <1>6 DEF CallLookup
  <2>2. CallState(r) = "idle" /\ CallState(r)' = "open"
    BY <2>1 DEF CallState, TypeOK
  <2>3. Promise!Invoke(r, d)
    BY <2>1, <2>2, CallMoves DEF Promise!Invoke, TypeOK
  <2> QED
    BY <2>3 DEF Promise!Next
<1>7. ASSUME NEW r \in Requests,
             RegisterPending(r) \/ Enqueue(r) \/ CleanupRequest(r)
      PROVE  UNCHANGED Promise!vars
  <2>1. /\ \/ cpc[r] = "register" /\ cpc' = [cpc EXCEPT ![r] = "enqueue"]
           \/ cpc[r] = "enqueue" /\ cpc' = [cpc EXCEPT ![r] = "wait"]
           \/ cpc[r] = "cleanup" /\ cpc' = [cpc EXCEPT ![r] = "done"]
        /\ UNCHANGED <<target, outcome, ran>>
    BY <1>7 DEF RegisterPending, Enqueue, CleanupRequest
  <2>2. CallState(r)' = CallState(r)
    BY <2>1 DEF CallState, TypeOK
  <2>3. ASSUME NEW q \in Requests PROVE CallState(q)' = CallState(q)
    <3>1. CASE q = r
      BY <2>2, <3>1
    <3>2. CASE q # r
      BY <2>1, <3>2 DEF CallState, TypeOK
    <3> QED
      BY <3>1, <3>2
  <2> QED
    BY <2>1, <2>3 DEF Promise!vars
<1>8. ASSUME NEW r \in Requests, EnqueueTimeout(r)
      PROVE  Promise!Next
  <2>1. /\ cpc[r] = "enqueue" /\ cpc' = [cpc EXCEPT ![r] = "cleanup"]
        /\ outcome' = [outcome EXCEPT ![r] = "refused"] /\ UNCHANGED <<target, ran>>
    BY <1>8 DEF EnqueueTimeout
  <2>2. CallState(r) = "open" /\ CallState(r)' = "refused"
    BY <2>1 DEF CallState, TypeOK
  <2>3. ran[r] = NeverRan
    BY <2>1 DEF CommandInv, OutcomeInv
  <2>4. Promise!ReturnRefused(r)
    BY <2>1, <2>2, <2>3, CallMoves
    DEF Promise!ReturnRefused, Promise!NeverRan, NeverRan, TypeOK
  <2> QED
    BY <2>4 DEF Promise!Next
<1>9. ASSUME NEW r \in Requests, AwaitResponse(r)
      PROVE  Promise!Next
  <2>1. /\ cpc[r] = "wait" /\ cpc' = [cpc EXCEPT ![r] = "cleanup"]
        /\ outcome' = [outcome EXCEPT ![r] = "ok"] /\ UNCHANGED <<target, ran>>
        /\ r \in respChan
    BY <1>9 DEF AwaitResponse
  <2>2. CallState(r) = "open" /\ CallState(r)' = "ok"
    BY <2>1 DEF CallState, TypeOK
  <2>3. ran[r] = RanOnce(r)
    BY <2>1 DEF CommandInv, OutcomeInv, Answered
  <2>4. Promise!ReturnOk(r)
    BY <2>1, <2>2, <2>3, CallMoves
    DEF Promise!ReturnOk, Promise!NeverRan, NeverRan, RanOnce, TypeOK
  <2> QED
    BY <2>4 DEF Promise!Next
<1>10. ASSUME NEW r \in Requests, AwaitError(r) \/ AwaitTimeout(r)
       PROVE  Promise!Next
  <2>1. /\ cpc[r] = "wait" /\ cpc' = [cpc EXCEPT ![r] = "cleanup"]
        /\ outcome' = [outcome EXCEPT ![r] = "failed"] /\ UNCHANGED <<target, ran>>
    BY <1>10 DEF AwaitError, AwaitTimeout
  <2>2. CallState(r) = "open" /\ CallState(r)' = "failed"
    BY <2>1 DEF CallState, TypeOK
  <2>3. Promise!ReturnFailed(r)
    BY <2>1, <2>2, CallMoves DEF Promise!ReturnFailed, TypeOK
  <2> QED
    BY <2>3 DEF Promise!Next
<1> QED
  BY <1>1, <1>2, <1>3, <1>4, <1>5, <1>6, <1>7, <1>8, <1>9, <1>10 DEF Next, Agent, Call

\* A gateway call keeps what RemoteCall promises, for any number of devices,
\* streams and calls: its command runs at most once, only on the device that it
\* names, never when the caller was refused, and always when it got "ok".
THEOREM KeepsPromise == Spec => PromiseKept
<1>1. Spec => Promise!Init /\ [][Promise!Next]_(Promise!vars)
  BY PromiseInit, PromiseStep, InductiveInvariant, PTL DEF Spec
<1> QED
  BY <1>1 DEF PromiseKept, Promise!Spec

-----------------------------------------------------------------------------
(* Who is registered, who is closed: no sendLoop is forgotten, and what it     *)
(* takes to lose a live stream.                                                *)

\* A handler that has gone past its connect has started the sendLoop.
LoopInv ==
    /\ NoLoopLeaks
    /\ \A s \in Streams : hdev[s] # NoDevice /\ hpc[s] # "register" => lpc[s] # "off"

loopState == <<agentStreams, closed, lpc, hpc, hdev>>

\* A step that opens no stream and removes no route keeps it.
LEMMA LoopStays ==
    ASSUME LoopInv, UNCHANGED <<agentStreams, closed, hdev>>,
           \A t \in Streams : (lpc'[t] = "off") = (lpc[t] = "off"),
           \A t \in Streams : hpc[t] = "register" => hpc'[t] = "register"
    PROVE  LoopInv'
  BY DEF LoopInv, NoLoopLeaks

\* Unregistering a device closes the stream that it removes.
LEMMA UnregisterKeepsLoops ==
    ASSUME IInv, LoopInv, NEW d \in Devices, UnregisterAgentStream(d), hdev' = hdev,
           \A t \in Streams : (lpc'[t] = "off") = (lpc[t] = "off"),
           \A t \in Streams : hpc[t] = "register" => hpc'[t] = "register"
    PROVE  LoopInv'
<1>1. /\ agentStreams' = [agentStreams EXCEPT ![d] = NoStream]
      /\ \A s \in Streams : s \in closed' <=> s \in closed \/ s = agentStreams[d]
  BY UnregisterStreams DEF IInv, StreamInv
<1>2. \A e \in Devices \ {d} : agentStreams'[e] = agentStreams[e]
  BY <1>1 DEF IInv, TypeOK
<1>3. \A t \in Streams : lpc[t] # "off" => hdev[t] \in Devices
  BY DEF IInv, Controlled
<1>4. NoLoopLeaks'
  BY <1>1, <1>2, <1>3 DEF LoopInv, NoLoopLeaks
<1> QED
  BY <1>4 DEF LoopInv

\* At the start there is no sendLoop ...
LEMMA LoopInit == Init => LoopInv
  BY DEF Init, LoopInv, NoLoopLeaks

\* ... and each step that takes a stream out of agentStreams closes it.
LEMMA LoopStep == IInv /\ LoopInv /\ [Next]_vars => LoopInv'
<1> USE DEF managerVars, tableVars, loopVars, handlerVars, callVars, netVars
<1> SUFFICES ASSUME IInv, LoopInv, [Next]_vars PROVE LoopInv'
  OBVIOUS
<1>0. TypeOK /\ Controlled /\ RegistersOnce /\ TypeInv /\ StreamInv
  BY DEF IInv, TypeInv, StreamInv
<1>1. ASSUME UNCHANGED loopState PROVE LoopInv'
  BY <1>1 DEF loopState, LoopInv, NoLoopLeaks
<1>2. ASSUME NEW s \in Streams, Agent(s) \/ StreamLogs(s)
      PROVE  LoopInv'
  BY <1>1, <1>2 DEF loopState, Agent, AgentConnect, AgentHeartbeat, AgentExecute, BreakLink, StreamLogs
<1>3. ASSUME NEW s \in Streams, HandleConnect(s)
      PROVE  LoopInv'
  <2>1. /\ up[s] # <<>> /\ Head(up[s]).typ = "connect"
        /\ hpc' = [hpc EXCEPT ![s] = "register"]
        /\ hdev' = [hdev EXCEPT ![s] = Head(up[s]).dev]
        /\ UNCHANGED <<agentStreams, closed, lpc>>
    BY <1>3 DEF HandleConnect, Receive
  <2>2. up[s] \in Seq(Message) /\ up[s][1] = Head(up[s]) /\ 1 \in 1..Len(up[s])
    BY <1>0, <2>1 DEF TypeOK
  <2>3. hdev[s] = NoDevice
    BY <1>0, <2>1, <2>2 DEF RegistersOnce
  <2>4. lpc[s] = "off"
    BY <1>0, <2>3 DEF RegistersOnce
  <2>5. hpc'[s] = "register" /\ \A t \in Streams \ {s} : hpc'[t] = hpc[t] /\ hdev'[t] = hdev[t]
    BY <1>0, <2>1 DEF TypeOK
  <2> QED
    BY <2>1, <2>4, <2>5 DEF LoopInv, NoLoopLeaks
<1>4. ASSUME NEW s \in Streams, RegisterAgentStream(s)
      PROVE  LoopInv'
  <2> DEFINE d == hdev[s]
  <2>1. /\ hpc[s] = "register" /\ d \in Devices
        /\ closed' = closed \cup Registered(d)
        /\ agentStreams' = [agentStreams EXCEPT ![d] = s]
        /\ lpc' = [lpc EXCEPT ![s] = "select"]
        /\ hpc' = [hpc EXCEPT ![s] = "ack"]
        /\ hdev' = hdev
    BY <1>0, <1>4 DEF RegisterAgentStream, CloseStreams, Controlled
  <2>2. /\ agentStreams'[d] = s
        /\ \A e \in Devices \ {d} : agentStreams'[e] = agentStreams[e]
        /\ lpc'[s] = "select"
        /\ \A t \in Streams \ {s} : lpc'[t] = lpc[t] /\ hpc'[t] = hpc[t]
    BY <1>0, <2>1 DEF TypeOK
  <2>3. \A t \in Streams : t \in closed' <=> t \in closed \/ agentStreams[d] = t
    BY <1>0, <2>1, RegisteredFacts
  <2>4. \A t \in Streams : lpc[t] # "off" => hdev[t] \in Devices
    BY <1>0 DEF Controlled
  <2>5. NoLoopLeaks'
    BY <2>1, <2>2, <2>3, <2>4 DEF LoopInv, NoLoopLeaks
  <2> QED
    BY <2>1, <2>2, <2>5 DEF LoopInv
<1>5. ASSUME NEW s \in Streams, SendAck(s) \/ HandleHeartbeat(s) \/ HandleResponse(s) \/ DeliverResponse(s)
      PROVE  LoopInv'
  <2>1. /\ UNCHANGED <<agentStreams, closed, hdev, lpc>>
        /\ hpc[s] # "register"
        /\ hpc' = hpc \/ \E x \in {"recv", "failed", "deliver"} : hpc' = [hpc EXCEPT ![s] = x]
    BY <1>5 DEF SendAck, HandleHeartbeat, HandleResponse, DeliverResponse, Receive
  <2>2. \A t \in Streams : hpc[t] = "register" => hpc'[t] = "register"
    BY <1>0, <2>1 DEF TypeOK
  <2> QED
    BY <2>1, <2>2, LoopStays
<1>6. ASSUME NEW s \in Streams, RecvError(s)
      PROVE  LoopInv'
  <2>1. hpc[s] = "recv" /\ hpc' = [hpc EXCEPT ![s] = "done"] /\ UNCHANGED <<lpc, hdev>>
    BY <1>6 DEF RecvError
  <2>2. \A t \in Streams : hpc[t] = "register" => hpc'[t] = "register"
    BY <1>0, <2>1 DEF TypeOK
  <2>3. CASE hdev[s] = NoDevice
    <3>1. UNCHANGED <<agentStreams, closed>>
      BY <1>6, <2>3 DEF RecvError
    <3> QED
      BY <2>1, <2>2, <3>1, LoopStays
  <2>4. CASE hdev[s] # NoDevice
    <3>1. hdev[s] \in Devices /\ UnregisterAgentStream(hdev[s])
      BY <1>0, <1>6, <2>4 DEF RecvError, TypeOK
    <3> QED
      BY <2>1, <2>2, <3>1, UnregisterKeepsLoops
  <2> QED
    BY <2>3, <2>4
<1>7. ASSUME NEW s \in Streams, SendLoopClosed(s) \/ SendLoopTake(s) \/ SendLoopSent(s)
      PROVE  LoopInv'
  <2>1. /\ UNCHANGED <<agentStreams, closed, hdev, hpc>>
        /\ lpc[s] # "off"
        /\ \E x \in {"done", "sending", "select"} : lpc' = [lpc EXCEPT ![s] = x]
    BY <1>7 DEF SendLoopClosed, SendLoopTake, SendLoopSent
  <2>2. \A t \in Streams : (lpc'[t] = "off") = (lpc[t] = "off")
    BY <1>0, <2>1 DEF TypeOK
  <2> QED
    BY <2>1, <2>2, LoopStays
<1>8. ASSUME NEW s \in Streams, SendLoopFailed(s)
      PROVE  LoopInv'
  <2>1. /\ lpc[s] = "sending" /\ lpc' = [lpc EXCEPT ![s] = "done"]
        /\ UnregisterAgentStream(hdev[s]) /\ UNCHANGED <<hpc, hdev>>
    BY <1>8 DEF SendLoopFailed
  <2>2. \A t \in Streams : (lpc'[t] = "off") = (lpc[t] = "off")
    BY <1>0, <2>1 DEF TypeOK
  <2>3. hdev[s] \in Devices
    BY <1>0, <2>1 DEF Controlled
  <2> QED
    BY <2>1, <2>2, <2>3, UnregisterKeepsLoops
<1>9. ASSUME NEW r \in Requests, Call(r)
      PROVE  LoopInv'
  BY <1>1, <1>9 DEF loopState, Call, CallRefused, CallLookup, RegisterPending, Enqueue, EnqueueTimeout,
     AwaitResponse, AwaitError, AwaitTimeout, CleanupRequest
<1>10. ASSUME NEW D \in SUBSET Devices, CheckOfflineDevices(D)
       PROVE  LoopInv'
  BY <1>1, <1>10 DEF loopState, CheckOfflineDevices
<1>11. ASSUME Cleanup
       PROVE  LoopInv'
  <2>1. /\ closed' = closed \cup UNION {Registered(d) : d \in Devices}
        /\ UNCHANGED <<lpc, hpc, hdev>>
    BY <1>11 DEF Cleanup, CloseStreams
  <2>2. \A t \in Streams : lpc[t] # "off" => hdev[t] \in Devices
    BY <1>0 DEF Controlled
  <2>3. \A t \in Streams, d \in Devices : agentStreams[d] = t => t \in closed'
    BY <1>0, <2>1, RegisteredFacts
  <2> QED
    BY <2>1, <2>2, <2>3 DEF LoopInv, NoLoopLeaks
<1>12. CASE UNCHANGED vars
  BY <1>1, <1>12 DEF vars, loopState
<1> QED
  BY <1>2, <1>3, <1>4, <1>5, <1>6, <1>7, <1>8, <1>9, <1>10, <1>11, <1>12
  DEF Next, Agent, Handler, SendLoop

\* No sendLoop goroutine of proxy.go is leaked: it serves the device's stream, or the stream
\* was closed by whoever took its place or removed it, and the loop's select sees that.
THEOREM LoopsAreAccountedFor == Spec => []NoLoopLeaks
<1>1. IInv /\ LoopInv /\ [Next]_vars => LoopInv'
  BY LoopStep
<1>2. LoopInv => NoLoopLeaks
  BY DEF LoopInv
<1> QED
  BY <1>1, <1>2, LoopInit, InductiveInvariant, PTL DEF Spec

\* Unregistering d is the end of a stream of d, which is not the one that is
\* alive: it has been closed.
LEMMA OnlyClosedUnroutes ==
    ASSUME IInv, LoopInv, NEW d \in Devices, NEW s \in Streams,
           agentStreams[d] = s, link[s] = "open",
           NEW t \in Streams, hdev[t] = d, link[t] = "broken",
           hpc[t] = "recv" \/ lpc[t] = "sending"
    PROVE  t \in Streams \ {s} /\ hdev[t] = d /\ ClosedAndFailing(t)
<1>1. d # NoDevice
  BY SentinelAssumption
<1>2. lpc[t] # "off"
  BY <1>1 DEF LoopInv
<1>3. t \in closed
  BY <1>2 DEF LoopInv, NoLoopLeaks
<1> QED
  BY <1>3 DEF ClosedAndFailing

\* Three steps remove a route; only two of them go on after Cleanup.
LEMMA UnroutingStep == IInv /\ LoopInv /\ [Next]_vars => \A d \in Devices : UnroutesForClosed(d)
<1> USE DEF managerVars, tableVars, loopVars, handlerVars, callVars, netVars
<1> SUFFICES ASSUME IInv, LoopInv, [Next]_vars, NEW d \in Devices,
                    agentStreams[d] # NoStream, link[agentStreams[d]] = "open",
                    agentStreams'[d] = NoStream
             PROVE  \/ ~shutdown /\ shutdown'
                    \/ \E t \in Streams \ {agentStreams[d]} : hdev[t] = d /\ ClosedAndFailing(t)
  BY DEF UnroutesForClosed
<1>0. TypeOK /\ Controlled /\ agentStreams[d] \in Streams
  BY DEF IInv, TypeOK
<1>1. agentStreams' # agentStreams
  OBVIOUS
<1>2. ASSUME NEW s \in Streams, RegisterAgentStream(s)
      PROVE  FALSE
  <2>1. agentStreams' = [agentStreams EXCEPT ![hdev[s]] = s]
    BY <1>2 DEF RegisterAgentStream
  <2>2. agentStreams'[d] \in {s, agentStreams[d]}
    BY <1>0, <2>1 DEF TypeOK
  <2> QED
    BY <2>2, SentinelAssumption
<1>3. ASSUME NEW t \in Streams, hdev[t] # d, UnregisterAgentStream(hdev[t])
      PROVE  FALSE
  <2>1. agentStreams' = [agentStreams EXCEPT ![hdev[t]] = NoStream]
    BY <1>3 DEF UnregisterAgentStream
  <2> QED
    BY <1>0, <1>3, <2>1 DEF TypeOK
<1>4. ASSUME NEW t \in Streams, RecvError(t)
      PROVE  \E u \in Streams \ {agentStreams[d]} : hdev[u] = d /\ ClosedAndFailing(u)
  <2>1. hpc[t] = "recv" /\ link[t] = "broken" /\ UnregisterAgentStream(hdev[t])
    BY <1>1, <1>4 DEF RecvError
  <2>2. hdev[t] = d
    BY <1>3, <2>1
  <2> QED
    BY <1>0, <2>1, <2>2, OnlyClosedUnroutes
<1>5. ASSUME NEW t \in Streams, SendLoopFailed(t)
      PROVE  \E u \in Streams \ {agentStreams[d]} : hdev[u] = d /\ ClosedAndFailing(u)
  <2>1. lpc[t] = "sending" /\ link[t] = "broken" /\ UnregisterAgentStream(hdev[t])
    BY <1>5 DEF SendLoopFailed
  <2>2. hdev[t] = d
    BY <1>3, <2>1
  <2> QED
    BY <1>0, <2>1, <2>2, OnlyClosedUnroutes
<1>6. ASSUME Cleanup
      PROVE  ~shutdown /\ shutdown'
  BY <1>6 DEF Cleanup
<1>7. ASSUME NEW s \in Streams, Agent(s) \/ StreamLogs(s)
      PROVE  FALSE
  BY <1>1, <1>7 DEF Agent, AgentConnect, AgentHeartbeat, AgentExecute, BreakLink, StreamLogs
<1>8. ASSUME NEW s \in Streams, HandleConnect(s) \/ SendAck(s) \/ HandleHeartbeat(s) \/ HandleResponse(s) \/ DeliverResponse(s)
      PROVE  FALSE
  BY <1>1, <1>8 DEF HandleConnect, SendAck, HandleHeartbeat, HandleResponse, DeliverResponse
<1>9. ASSUME NEW s \in Streams, SendLoopClosed(s) \/ SendLoopTake(s) \/ SendLoopSent(s)
      PROVE  FALSE
  BY <1>1, <1>9 DEF SendLoopClosed, SendLoopTake, SendLoopSent
<1>10. ASSUME NEW r \in Requests, Call(r)
       PROVE  FALSE
  BY <1>1, <1>10 DEF Call, CallRefused, CallLookup, RegisterPending, Enqueue, EnqueueTimeout,
     AwaitResponse, AwaitError, AwaitTimeout, CleanupRequest
<1>11. ASSUME NEW D \in SUBSET Devices, CheckOfflineDevices(D)
       PROVE  FALSE
  BY <1>1, <1>11 DEF CheckOfflineDevices
<1>12. CASE UNCHANGED vars
  BY <1>1, <1>12 DEF vars
<1> QED
  BY <1>2, <1>4, <1>5, <1>6, <1>7, <1>8, <1>9, <1>10, <1>11, <1>12
  DEF Next, Agent, Handler, SendLoop

\* UnregisterAgentStream (proxy.go), called by a handler or a sendLoop, takes the route of a
\* live stream away in one way only: the caller's own stream was closed before and fails late.
THEOREM OnlyLateEndsUnroute == Spec => UnroutedByClosed
<1>1. IInv /\ LoopInv /\ [Next]_vars => LoopInv'
  BY LoopStep
<1>2. IInv /\ LoopInv /\ [Next]_vars => [\A d \in Devices : UnroutesForClosed(d)]_vars
  BY UnroutingStep
<1> QED
  BY <1>1, <1>2, LoopInit, InductiveInvariant, PTL DEF Spec, UnroutedByClosed

\* Where no closed stream can fail while its device has another, LiveStreamStaysRouted holds: the
\* counterexample of the proxy (UnregisterAgentStream knows the device only) is the only one.
THEOREM StaysRoutedWithoutLateEnds == Spec /\ []NoneFailsLate => LiveStreamStaysRouted
<1> DEFINE Stays == \A d \in Devices :
        agentStreams[d] # NoStream /\ ~shutdown' =>
            (link[agentStreams[d]] = "open" => agentStreams'[d] # NoStream)
<1>1. NoneFailsLate /\ (\A d \in Devices : UnroutesForClosed(d)) => Stays
  BY DEF NoneFailsLate, UnroutesForClosed
<1>2. NoneFailsLate /\ [\A d \in Devices : UnroutesForClosed(d)]_vars => [Stays]_vars
  BY <1>1
<1>3. []NoneFailsLate /\ UnroutedByClosed => [][Stays]_vars
  BY <1>2, PTL DEF UnroutedByClosed
<1>4. LiveStreamStaysRouted <=> [][Stays]_vars
  BY DEF LiveStreamStaysRouted
<1> QED
  BY <1>3, <1>4, OnlyLateEndsUnroute, PTL
=============================================================================
