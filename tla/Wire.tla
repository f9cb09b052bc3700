-------------------------------- MODULE Wire --------------------------------
(***************************************************************************)
(* The messages of a call and what their codecs do: the protobuf classes   *)
(* of the front end (frontend/src/proto), which the Go services share the  *)
(* schema of.  A call through gateway and agent travels as the payload of  *)
(* another message (module Relay).                                         *)
(*                                                                         *)
(* A message type is a record from the names of its fields to the fields,  *)
(* and a message a record of the value of each, a sequence: one value for  *)
(* a scalar, any number for a repeated field, none or one for a message or *)
(* a member of a choice (oneof).  On the wire a message is, for each field *)
(* number, the sequence of the data sent with it, which is text (strings,  *)
(* numbers, enums; Zero is the default value of each) or bytes, the body   *)
(* of another message.  Left out are wire types, varints and lengths, and  *)
(* the order of data with different numbers, which matters only to the     *)
(* reader of two members of one choice, which no build writes: either may  *)
(* then be the last.                                                       *)
(*                                                                         *)
(* A message that is held by another holds none itself, as in the schemas, *)
(* so that the codec has two levels and needs no recursion.                *)
(*                                                                         *)
(* A build may be older than its peers: it does not know field gap.        *)
(***************************************************************************)
EXTENDS Integers, SequencesExt

CONSTANTS Texts,     \* values of strings and numbers beside Zero
          Garbled    \* what a script printed, when it is not valid UTF-8

Zero == ""
ASSUME TextsAssumption == Zero \notin Texts /\ Garbled \notin Texts \cup {Zero}

\* The field numbers of the schemas.
FieldNos == 1..6

\* Fields.
Field(no, how, of) == [no |-> no, how |-> how, of |-> of]
Text(no) == Field(no, "text", <<>>)
Number(no) == Field(no, "number", <<>>)
Bytes(no) == Field(no, "bytes", <<>>)
TextList(no) == Field(no, "texts", <<>>)
Message(no, of) == Field(no, "message", of)
Messages(no, of) == Field(no, "messages", of)
Choice(no, of) == Field(no, "choice", of)

IsScalar(f) == f.how \in {"text", "number", "bytes"}

-----------------------------------------------------------------------------
(* remote_control.proto *)

ExecuteCommandSetRequest == [commandSetId |-> Text(1)]
StepResult == [stepIndex |-> Number(1), stepScript |-> Text(2), output |-> Text(3),
               error |-> Text(4), exitCode |-> Number(5), success |-> Number(6)]
ExecuteCommandSetResponse ==
    [stepResults |-> Messages(1, StepResult), success |-> Number(2), error |-> Text(3)]
StoreCommandSetRequest ==
    [commandSetId |-> Text(1), commandSetName |-> Text(2), commandScripts |-> TextList(3),
     description |-> Text(4)]
StoreCommandSetResponse == [success |-> Number(1), message |-> Text(2)]
GetAllCommandSetsRequest == <<>>
CommandSetInfo ==
    [commandSetId |-> Text(1), commandSetName |-> Text(2), commandScripts |-> TextList(3),
     description |-> Text(4)]
GetAllCommandSetsResponse == [commandSets |-> Messages(1, CommandSetInfo)]
UpdateCommandSetRequest ==
    [commandSetId |-> Text(1), commandSetName |-> Text(2), commandScripts |-> TextList(3),
     description |-> Text(4)]
UpdateCommandSetResponse == [success |-> Number(1), message |-> Text(2)]
DeleteCommandSetRequest == [commandSetId |-> Text(1)]
DeleteCommandSetResponse == [success |-> Number(1), message |-> Text(2)]

(* cloud/device.proto *)

ListDevicesRequest == <<>>
DeviceInfo == [deviceId |-> Text(1), name |-> Text(2), address |-> Text(3), status |-> Text(4)]
ListDevicesResponse == [devices |-> Messages(1, DeviceInfo)]
CommandRequest == [requestId |-> Text(1), payload |-> Bytes(2), method |-> Number(3)]
CommandResponse == [requestId |-> Text(1), payload |-> Bytes(2)]
\* A call is one member of the choice; the others are left without their fields.
AgentMessage == [connect |-> Choice(1, <<>>), heartbeat |-> Choice(2, <<>>),
                 response |-> Choice(3, CommandResponse)]
CloudMessage == [connectAck |-> Choice(1, <<>>), command |-> Choice(2, CommandRequest),
                 ping |-> Choice(3, <<>>)]

(* cloud/gateway.proto *)

ExecuteOnDeviceRequest ==
    [deviceId |-> Text(1), request |-> Message(2, ExecuteCommandSetRequest)]
ListDeviceCommandSetsRequest ==
    [deviceId |-> Text(1), request |-> Message(2, GetAllCommandSetsRequest)]
StoreOnDeviceRequest ==
    [deviceId |-> Text(1), request |-> Message(2, StoreCommandSetRequest)]
UpdateOnDeviceRequest ==
    [deviceId |-> Text(1), request |-> Message(2, UpdateCommandSetRequest)]
DeleteOnDeviceRequest ==
    [deviceId |-> Text(1), request |-> Message(2, DeleteCommandSetRequest)]

-----------------------------------------------------------------------------
(* The codec. *)

NoItems == [no \in FieldNos |-> <<>>]

Scalar(text) == [text |-> text, body |-> NoItems]
Body(items) == [text |-> Zero, body |-> items]
Empty == Scalar(Zero)

Nos(T) == {T[n].no : n \in DOMAIN T}
NameOf(T, no) == CHOOSE n \in DOMAIN T : T[n].no = no

\* create: scalars have their default, everything else is empty.
Create(T) ==
    [fields |-> [n \in DOMAIN T |-> IF IsScalar(T[n]) THEN <<Empty>> ELSE <<>>],
     unknown |-> NoItems]

\* A default is not written.
WriteValue(f, value) == IF IsScalar(f) /\ value = <<Empty>> THEN <<>> ELSE value

\* internalBinaryWrite of a message that holds none: its fields, and what an older
\* build did not know when it read them.
WriteFlat(T, m) ==
    [no \in FieldNos |->
        IF no \in Nos(T) THEN WriteValue(T[NameOf(T, no)], m.fields[NameOf(T, no)])
        ELSE m.unknown[no]]

WriteField(f, value) ==
    CASE f.how = "messages" -> [i \in DOMAIN value |-> Body(WriteFlat(f.of, value[i]))]
      [] f.how \in {"message", "choice"} ->
            IF value = <<>> THEN <<>> ELSE <<Body(WriteFlat(f.of, value[1]))>>
      [] OTHER -> WriteValue(f, value)

\* Mutant of Write: writes no unknown fields.
WriteKnown(T, m) ==
    [no \in FieldNos |->
        IF no \in Nos(T) THEN WriteField(T[NameOf(T, no)], m.fields[NameOf(T, no)]) ELSE <<>>]

\* internalBinaryWrite of any message.
Write(T, m) ==
    [no \in FieldNos |->
        IF no \in Nos(T) THEN WriteField(T[NameOf(T, no)], m.fields[NameOf(T, no)])
        ELSE m.unknown[no]]

\* The last value of a scalar stays, a repeated field has all.
ReadValue(f, data) ==
    IF ~IsScalar(f) THEN data ELSE IF data = <<>> THEN <<Empty>> ELSE <<Last(data)>>

\* What is not the number of a field is kept.
Unknown(T, items) == [no \in FieldNos |-> IF no \in Nos(T) THEN <<>> ELSE items[no]]

\* internalBinaryRead of a message that holds none.
DecodeFlat(T, items) ==
    [fields |-> [n \in DOMAIN T |-> ReadValue(T[n], items[T[n].no])],
     unknown |-> Unknown(T, items)]

\* A message that was sent in parts is read into the one that is there.
Merged(T, data) ==
    DecodeFlat(T, [no \in FieldNos |-> FlattenSeq([i \in DOMAIN data |-> data[i].body[no]])])

\* Of a choice the member that came last stays.
Chosen(T, items) == CHOOSE n \in DOMAIN T : T[n].how = "choice" /\ items[T[n].no] # <<>>

\* Mutant of ReadField: of a repeated message only the last is kept.
ReadFieldLast(T, n, items) ==
    LET f == T[n]
        data == items[f.no]
    IN CASE f.how = "messages" -> IF data = <<>> THEN <<>> ELSE <<DecodeFlat(f.of, Last(data).body)>>
         [] f.how \in {"message", "choice"} ->
                IF data = <<>> \/ (f.how = "choice" /\ n # Chosen(T, items)) THEN <<>>
                ELSE <<Merged(f.of, data)>>
         [] OTHER -> ReadValue(f, data)

\* What the rounds of the loop of internalBinaryRead make of field n.
ReadField(T, n, items) ==
    LET f == T[n]
        data == items[f.no]
    IN CASE f.how = "messages" -> [i \in DOMAIN data |-> DecodeFlat(f.of, data[i].body)]
         [] f.how \in {"message", "choice"} ->
                IF data = <<>> \/ (f.how = "choice" /\ n # Chosen(T, items)) THEN <<>>
                ELSE <<Merged(f.of, data)>>
         [] OTHER -> ReadValue(f, data)

\* internalBinaryRead of any message.
Decode(T, items) ==
    [fields |-> [n \in DOMAIN T |-> ReadField(T, n, items)], unknown |-> Unknown(T, items)]

IsUtf8(f, value) == f.how \in {"text", "texts"} => \A i \in DOMAIN value : value[i].text # Garbled

\* proto.Marshal of the Go services fails on a string that is not valid UTF-8.
Marshals(T, m) ==
    \A n \in DOMAIN T :
        /\ IsUtf8(T[n], m.fields[n])
        /\ T[n].how \in {"message", "messages", "choice"} =>
              \A i \in DOMAIN m.fields[n], k \in DOMAIN T[n].of :
                 IsUtf8(T[n].of[k], m.fields[n][i].fields[k])

-----------------------------------------------------------------------------
(* What a build makes: every field of the type, nothing unknown. *)

IsValue(f, value) == IsScalar(f) => Len(value) = 1 /\ value = <<value[1]>>

IsFlat(T, m) ==
    /\ m = [fields |-> [n \in DOMAIN T |-> m.fields[n]], unknown |-> NoItems]
    /\ \A n \in DOMAIN T : IsValue(T[n], m.fields[n])

\* And one member of a choice at most.
IsMessage(T, m) ==
    /\ m = [fields |-> [n \in DOMAIN T |-> m.fields[n]], unknown |-> NoItems]
    /\ \A n \in DOMAIN T :
          LET f == T[n]
              value == m.fields[n]
          IN CASE f.how = "messages" -> /\ value = [i \in DOMAIN value |-> value[i]]
                                        /\ \A i \in DOMAIN value : IsFlat(f.of, value[i])
               [] f.how \in {"message", "choice"} ->
                     value # <<>> => Len(value) = 1 /\ value = <<value[1]>> /\ IsFlat(f.of, value[1])
               [] OTHER -> IsValue(f, value)
    /\ \A n, k \in DOMAIN T :
          T[n].how = "choice" /\ T[k].how = "choice" /\ m.fields[n] # <<>> /\ m.fields[k] # <<>> => n = k
=============================================================================
