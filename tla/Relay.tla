------------------------------- MODULE Relay --------------------------------
(***************************************************************************)
(* The way of one call from writer to reader, over the codecs of module    *)
(* Wire.  The front end calls the local agent (ControllerService), the     *)
(* cloud (DeviceRegistryService) or, over the cloud's GatewayService, a    *)
(* device: the gateway packs the request as the payload of a CloudMessage, *)
(* the agent unpacks and handles it, and the answer comes back as the      *)
(* payload of an AgentMessage.  When, whether and to whom messages travel  *)
(* is module GrpcProxy, the streams of the agents with it; here they only  *)
(* change their form.                                                      *)
(***************************************************************************)
EXTENDS Wire

CONSTANT Sample(_)    \* messages of a type that a caller or a service may make

VARIABLES op,       \* the method of a client that is called
          gap,      \* a field that the build in the middle is too old to know, or 0
          meant,    \* what the caller wants to say
          phase, path, wire,
          handled,  \* what was asked of the service in the end
          answer,   \* what it answered
          got       \* what the reader made of what arrived

vars == <<op, gap, meant, phase, path, wire, handled, answer, got>>

-----------------------------------------------------------------------------
(* Services and their clients: a method of the client is a row of the service. *)

Row(name, in, out) == [name |-> name, in |-> in, out |-> out]

ControllerService ==
    <<Row("ExecuteCommandSet", ExecuteCommandSetRequest, ExecuteCommandSetResponse),
      Row("StoreCommandSet", StoreCommandSetRequest, StoreCommandSetResponse),
      Row("UpdateCommandSet", UpdateCommandSetRequest, UpdateCommandSetResponse),
      Row("DeleteCommandSet", DeleteCommandSetRequest, DeleteCommandSetResponse),
      Row("GetAllCommandSets", GetAllCommandSetsRequest, GetAllCommandSetsResponse)>>
ControllerServiceClient ==
    [executeCommandSet |-> ControllerService[1], storeCommandSet |-> ControllerService[2],
     updateCommandSet |-> ControllerService[3], deleteCommandSet |-> ControllerService[4],
     getAllCommandSets |-> ControllerService[5]]

\* Without its streams, which the front end never opens.
DeviceRegistryService == <<Row("ListDevices", ListDevicesRequest, ListDevicesResponse)>>
DeviceRegistryServiceClient == [listDevices |-> DeviceRegistryService[1]]

GatewayService ==
    <<Row("ExecuteOnDevice", ExecuteOnDeviceRequest, ExecuteCommandSetResponse),
      Row("ListDeviceCommandSets", ListDeviceCommandSetsRequest, GetAllCommandSetsResponse),
      Row("StoreOnDevice", StoreOnDeviceRequest, StoreCommandSetResponse),
      Row("UpdateOnDevice", UpdateOnDeviceRequest, UpdateCommandSetResponse),
      Row("DeleteOnDevice", DeleteOnDeviceRequest, DeleteCommandSetResponse)>>
GatewayServiceClient ==
    [executeOnDevice |-> GatewayService[1], listDeviceCommandSets |-> GatewayService[2],
     storeOnDevice |-> GatewayService[3], updateOnDevice |-> GatewayService[4],
     deleteOnDevice |-> GatewayService[5]]

Client ==
    [m \in UNION {DOMAIN ControllerServiceClient, DOMAIN DeviceRegistryServiceClient,
                  DOMAIN GatewayServiceClient} |->
        CASE m \in DOMAIN ControllerServiceClient -> ControllerServiceClient[m]
          [] m \in DOMAIN DeviceRegistryServiceClient -> DeviceRegistryServiceClient[m]
          [] m \in DOMAIN GatewayServiceClient -> GatewayServiceClient[m]]

Tunnelled == DOMAIN GatewayServiceClient
Unary == DOMAIN Client \ Tunnelled

\* The services in Go, by the name in the path.
Served ==
    [ExecuteCommandSet |-> Row("ExecuteCommandSet", ExecuteCommandSetRequest, ExecuteCommandSetResponse),
     StoreCommandSet |-> Row("StoreCommandSet", StoreCommandSetRequest, StoreCommandSetResponse),
     UpdateCommandSet |-> Row("UpdateCommandSet", UpdateCommandSetRequest, UpdateCommandSetResponse),
     DeleteCommandSet |-> Row("DeleteCommandSet", DeleteCommandSetRequest, DeleteCommandSetResponse),
     GetAllCommandSets |-> Row("GetAllCommandSets", GetAllCommandSetsRequest, GetAllCommandSetsResponse),
     ListDevices |-> Row("ListDevices", ListDevicesRequest, ListDevicesResponse)]

\* enum ControllerMethod; EXECUTE is 0 and therefore not written.
ControllerMethod == [EXECUTE |-> Zero, STORE |-> "1", UPDATE |-> "2", DELETE |-> "3", LIST |-> "4"]

\* Mutant of GatewayMethod: update is forwarded as store.
GatewayMethodSwapped(name) ==
    CASE name = "ExecuteOnDevice" -> [method |-> ControllerMethod.EXECUTE, as |-> "ExecuteCommandSet"]
      [] name = "ListDeviceCommandSets" -> [method |-> ControllerMethod.LIST, as |-> "GetAllCommandSets"]
      [] name = "DeleteOnDevice" -> [method |-> ControllerMethod.DELETE, as |-> "DeleteCommandSet"]
      [] OTHER -> [method |-> ControllerMethod.STORE, as |-> "StoreCommandSet"]

\* The methods of GatewayServer: which controller method each sends, and whose
\* messages it takes request and answer for.
GatewayMethod(name) ==
    CASE name = "ExecuteOnDevice" -> [method |-> ControllerMethod.EXECUTE, as |-> "ExecuteCommandSet"]
      [] name = "ListDeviceCommandSets" -> [method |-> ControllerMethod.LIST, as |-> "GetAllCommandSets"]
      [] name = "StoreOnDevice" -> [method |-> ControllerMethod.STORE, as |-> "StoreCommandSet"]
      [] name = "UpdateOnDevice" -> [method |-> ControllerMethod.UPDATE, as |-> "UpdateCommandSet"]
      [] name = "DeleteOnDevice" -> [method |-> ControllerMethod.DELETE, as |-> "DeleteCommandSet"]

\* newCommandRouter: the handler of a method, by the service it serves.
Handler(method) ==
    CASE method = ControllerMethod.EXECUTE -> "ExecuteCommandSet"
      [] method = ControllerMethod.LIST -> "GetAllCommandSets"
      [] method = ControllerMethod.STORE -> "StoreCommandSet"
      [] method = ControllerMethod.UPDATE -> "UpdateCommandSet"
      [] method = ControllerMethod.DELETE -> "DeleteCommandSet"

-----------------------------------------------------------------------------
(* Messages that may be meant, and builds that are too old for a field. *)

ASSUME SampleAssumption ==
    \A m \in DOMAIN Client : \A T \in {Client[m].in, Client[m].out} : \A a \in Sample(T) :
        IsMessage(T, a) /\ Marshals(T, a)

\* A script may print anything.
Unprintable ==
    LET step == [Create(StepResult) EXCEPT !.fields["output"] = <<Scalar(Garbled)>>]
    IN [Create(ExecuteCommandSetResponse) EXCEPT !.fields["stepResults"] = <<step>>]

Answers(name) ==
    Sample(Served[name].out) \cup IF name = "ExecuteCommandSet" THEN {Unprintable} ELSE {}

\* T without field no, in itself and in the messages it holds.
Lacks(T, no) == [n \in {k \in DOMAIN T : T[k].no # no} |-> T[n]]
Older(T, no) == [n \in DOMAIN Lacks(T, no) |-> [T[n] EXCEPT !.of = Lacks(@, no)]]

\* A message with all its fields, and an envelope for it.
Made(fields) == [fields |-> fields, unknown |-> NoItems]
Envelope(T, kind, m) == [Create(T) EXCEPT !.fields[kind] = <<m>>]

-----------------------------------------------------------------------------

Nothing == Create(<<>>)

\* The type of the requests of GatewayService, of which T is what they hold.
OnDevice(T) == [deviceId |-> Text(1), request |-> Message(2, T)]

Init ==
    /\ op \in DOMAIN Client
    /\ gap \in {0} \cup FieldNos
    /\ meant \in Sample(Client[op].in)
    /\ phase = "meant" /\ path = "" /\ wire = NoItems
    /\ handled = [name |-> "", request |-> Nothing]
    /\ answer = Nothing /\ got = Nothing

\* stackIntercept: the client writes the request and names the method.
Send ==
    /\ phase = "meant"
    /\ wire' = Write(Client[op].in, meant)
    /\ path' = Client[op].name
    /\ phase' = "sent"
    /\ UNCHANGED <<op, gap, meant, handled, answer, got>>

\* A service takes a request and answers; what cannot be marshalled is not sent.
Handle(name, items, next) ==
    \E a \in Answers(name) :
        /\ handled' = [name |-> name, request |-> Decode(Served[name].in, items)]
        /\ answer' = a
        /\ phase' = IF Marshals(Served[name].out, a) THEN next ELSE "lost"

\* The handlers of ControllerService and DeviceRegistryService.
Serve ==
    /\ phase = "sent" /\ path \in DOMAIN Served
    /\ Handle(path, wire, "answered")
    /\ wire' = IF phase' = "lost" THEN NoItems ELSE Write(Served[path].out, answer')
    /\ UNCHANGED <<op, gap, meant, path, got>>

\* GatewayServer: the request becomes the payload of a command.
Forward ==
    /\ phase = "sent" /\ path \notin DOMAIN Served
    /\ LET T == Older(Served[GatewayMethod(path).as].in, gap)
           read == Decode(OnDevice(T), wire)
           payload == IF read.fields["request"] = <<>> THEN NoItems
                      ELSE Write(T, read.fields["request"][1])
           command == Made([requestId |-> <<Scalar(CHOOSE t \in Texts : TRUE)>>,
                           payload |-> <<Body(payload)>>,
                           method |-> <<Scalar(GatewayMethod(path).method)>>])
       IN wire' = Write(CloudMessage, Envelope(CloudMessage, "command", command))
    /\ phase' = "command"
    /\ UNCHANGED <<op, gap, meant, path, handled, answer, got>>

\* The agent: commandRouter.handle and sendResponse.  An answer that cannot be
\* marshalled is logged, and never sent.
AgentHandles ==
    /\ phase = "command"
    /\ LET command == Decode(CloudMessage, wire).fields["command"][1]
           name == Handler(command.fields["method"][1].text)
           response == Made([requestId |-> command.fields["requestId"],
                            payload |-> <<Body(Write(Served[name].out, answer'))>>])
       IN /\ Handle(name, command.fields["payload"][1].body, "response")
          /\ wire' = IF phase' = "lost" THEN NoItems
                     ELSE Write(AgentMessage, Envelope(AgentMessage, "response", response))
    /\ UNCHANGED <<op, gap, meant, path, got>>

\* GatewayServer: the payload becomes the answer.
Return ==
    /\ phase = "response"
    /\ LET payload == Decode(AgentMessage, wire).fields["response"][1].fields["payload"][1].body
           T == Older(Served[GatewayMethod(path).as].out, gap)
       IN wire' = Write(T, Decode(T, payload))
    /\ phase' = "answered"
    /\ UNCHANGED <<op, gap, meant, path, handled, answer, got>>

\* The client reads the answer.
Receive ==
    /\ phase = "answered"
    /\ got' = Decode(Client[op].out, wire)
    /\ phase' = "done"
    /\ UNCHANGED <<op, gap, meant, path, wire, handled, answer>>

Next == Send \/ Serve \/ Forward \/ AgentHandles \/ Return \/ Receive

Spec == Init /\ [][Next]_vars

-----------------------------------------------------------------------------
(* Properties. *)

\* gateway.proto: what each method of the gateway is forwarded to.
ForwardedTo ==
    [ExecuteOnDevice |-> "ExecuteCommandSet", ListDeviceCommandSets |-> "GetAllCommandSets",
     StoreOnDevice |-> "StoreCommandSet", UpdateOnDevice |-> "UpdateCommandSet",
     DeleteOnDevice |-> "DeleteCommandSet"]

Wanted ==
    IF op \in Tunnelled
    THEN [name |-> ForwardedTo[Client[op].name],
          request |-> IF meant.fields["request"] = <<>>
                      THEN Create(Served[ForwardedTo[Client[op].name]].in)
                      ELSE meant.fields["request"][1]]
    ELSE [name |-> Client[op].name, request |-> meant]

\* The service that handles a call is the one the caller named, and it finds in the
\* request exactly what the caller put there, although it came as the payload of
\* another message, without its default values, through a gateway that may be too
\* old for one of its fields (services.go 132-216, agent main.go 28-46).
RequestArrives == phase \in {"response", "lost", "answered", "done"} => handled = Wanted

\* The caller gets exactly the answer of the service.  It gets none just when a script
\* printed something that is not valid UTF-8 (executor.go 73 puts it into a string
\* field): the agent has run the command set and drops the answer (agent main.go 247-251).
AnswerArrives ==
    /\ phase = "done" => got = answer
    /\ phase = "lost" => answer = Unprintable
=============================================================================
