---------------------------- MODULE RelayProofs -----------------------------
(***************************************************************************)
(* Proofs about Wire and Relay: what is written is read as it was meant,   *)
(* by the same build and through an older one, whatever the messages say.  *)
(***************************************************************************)
EXTENDS Relay, TLAPS

-----------------------------------------------------------------------------
(* What a message type is, and what a build writes for a message of it. *)

Numbered(T) ==
    /\ \A n \in DOMAIN T : T[n].no \in FieldNos
    /\ \A n, k \in DOMAIN T : T[n].no = T[k].no => n = k

IsHeld(f) == f.how \in {"message", "messages", "choice"}

FlatType(T) == Numbered(T) /\ \A n \in DOMAIN T : ~IsHeld(T[n])

Type(T) ==
    /\ Numbered(T)
    /\ \A n \in DOMAIN T : T[n] = Field(T[n].no, T[n].how, T[n].of)
    /\ \A n \in DOMAIN T : IsHeld(T[n]) => FlatType(T[n].of)

One(s) == Len(s) = 1 /\ s = <<s[1]>>

\* No default is on the wire.
WrittenValue(f, data) == IsScalar(f) => data = <<>> \/ (One(data) /\ data # <<Empty>>)

WrittenFlat(T, items) ==
    /\ items = [no \in FieldNos |-> items[no]]
    /\ \A n \in DOMAIN T : WrittenValue(T[n], items[T[n].no])

WrittenBody(T, d) == d = Body(d.body) /\ WrittenFlat(T, d.body)

WrittenField(f, data) ==
    CASE f.how = "messages" -> /\ data = [i \in DOMAIN data |-> data[i]]
                               /\ \A i \in DOMAIN data : WrittenBody(f.of, data[i])
      [] f.how \in {"message", "choice"} -> data # <<>> => One(data) /\ WrittenBody(f.of, data[1])
      [] OTHER -> WrittenValue(f, data)

OneChoice(T, items) ==
    \A n, k \in DOMAIN T :
        /\ T[n].how = "choice" /\ T[k].how = "choice"
        /\ items[T[n].no] # <<>> /\ items[T[k].no] # <<>>
        => n = k

Written(T, items) ==
    /\ items = [no \in FieldNos |-> items[no]]
    /\ \A n \in DOMAIN T : WrittenField(T[n], items[T[n].no])
    /\ OneChoice(T, items)

-----------------------------------------------------------------------------
(* Facts about numbers and sequences. *)

LEMMA NameOfField ==
    ASSUME NEW T, Numbered(T), NEW n \in DOMAIN T
    PROVE  NameOf(T, T[n].no) = n /\ T[n].no \in Nos(T) /\ T[n].no \in FieldNos
  BY DEF Numbered, NameOf, Nos

LEMMA FieldOfNo ==
    ASSUME NEW T, NEW no \in Nos(T)
    PROVE  NameOf(T, no) \in DOMAIN T /\ T[NameOf(T, no)].no = no
  BY DEF NameOf, Nos

\* FlattenSeq is a recursive function: of one sequence it is that sequence.
LEMMA FlattenOne == ASSUME NEW s, NEW q, q = <<s>> PROVE FlattenSeq(q) = s
  <1> DEFINE F == [i \in 1..1 |-> s]
             Rhs(f) == [i \in 1..Len(q) |-> IF i = 1 THEN q[i] ELSE f[i-1] \o q[i]]
  <1>1. Len(q) = 1 /\ q[1] = s
    OBVIOUS
  <1>2. F = Rhs(F)
    BY <1>1
  <1>3. (CHOOSE f : f = Rhs(f)) = Rhs(CHOOSE f : f = Rhs(f))
    BY <1>2
  <1>4. (CHOOSE f : f = Rhs(f))[1] = s
    BY <1>1, <1>3
  <1>5. FlattenSeq(q) = (CHOOSE f : f = Rhs(f))[1]
    BY <1>1 DEF FlattenSeq
  <1> QED
    BY <1>4, <1>5

LEMMA MergedOne ==
    ASSUME NEW T, NEW d, NEW data, data = <<d>>, d.body = [no \in FieldNos |-> d.body[no]]
    PROVE  Merged(T, data) = DecodeFlat(T, d.body)
  <1>1. ASSUME NEW no \in FieldNos
        PROVE  FlattenSeq([i \in DOMAIN data |-> data[i].body[no]]) = d.body[no]
    <2>1. [i \in DOMAIN data |-> data[i].body[no]] = <<d.body[no]>>
      OBVIOUS
    <2> QED
      BY <2>1, FlattenOne
  <1>2. [no \in FieldNos |-> FlattenSeq([i \in DOMAIN data |-> data[i].body[no]])]
            = [no \in FieldNos |-> d.body[no]]
    BY <1>1
  <1> QED
    BY <1>2 DEF Merged

-----------------------------------------------------------------------------
(* The codec of messages that hold none. *)

LEMMA ReadsValue ==
    ASSUME NEW f, NEW v, IsValue(f, v) PROVE ReadValue(f, WriteValue(f, v)) = v
  BY DEF IsValue, ReadValue, WriteValue, Last

LEMMA WritesValue ==
    ASSUME NEW f, NEW data, WrittenValue(f, data) PROVE WriteValue(f, ReadValue(f, data)) = data
  BY DEF WrittenValue, One, ReadValue, WriteValue, Last

LEMMA ValueIsWritten ==
    ASSUME NEW f, NEW v, IsValue(f, v) PROVE WrittenValue(f, WriteValue(f, v))
  BY DEF IsValue, WrittenValue, One, WriteValue

LEMMA FlatItems ==
    ASSUME NEW T, Numbered(T), NEW m, NEW n \in DOMAIN T
    PROVE  WriteFlat(T, m)[T[n].no] = WriteValue(T[n], m.fields[n])
  BY NameOfField DEF WriteFlat

\* What is written is read as it was meant.
LEMMA ReadsFlat ==
    ASSUME NEW T, FlatType(T), NEW m, IsFlat(T, m)
    PROVE  DecodeFlat(T, WriteFlat(T, m)) = m
  <1> DEFINE items == WriteFlat(T, m)
  <1>1. ASSUME NEW n \in DOMAIN T PROVE ReadValue(T[n], items[T[n].no]) = m.fields[n]
    BY FlatItems, ReadsValue DEF FlatType, IsFlat
  <1>2. [n \in DOMAIN T |-> ReadValue(T[n], items[T[n].no])] = [n \in DOMAIN T |-> m.fields[n]]
    BY <1>1
  <1>3. Unknown(T, items) = NoItems
    BY DEF Unknown, NoItems, WriteFlat, IsFlat
  <1>4. m = [fields |-> [n \in DOMAIN T |-> m.fields[n]], unknown |-> NoItems]
    BY DEF IsFlat
  <1> QED
    BY <1>2, <1>3, <1>4 DEF DecodeFlat

LEMMA FlatIsWritten ==
    ASSUME NEW T, FlatType(T), NEW m, IsFlat(T, m)
    PROVE  WrittenFlat(T, WriteFlat(T, m))
  <1>1. WriteFlat(T, m) = [no \in FieldNos |-> WriteFlat(T, m)[no]]
    BY DEF WriteFlat
  <1>2. ASSUME NEW n \in DOMAIN T PROVE WrittenValue(T[n], WriteFlat(T, m)[T[n].no])
    BY FlatItems, ValueIsWritten DEF FlatType, IsFlat
  <1> QED
    BY <1>1, <1>2 DEF WrittenFlat

\* What is read, by a build that knows the fields of T, is written as it came.
LEMMA WritesFlat ==
    ASSUME NEW T, FlatType(T), NEW items, WrittenFlat(T, items)
    PROVE  WriteFlat(T, DecodeFlat(T, items)) = items
  <1> DEFINE m == DecodeFlat(T, items)
  <1>1. ASSUME NEW no \in FieldNos, no \in Nos(T) PROVE WriteFlat(T, m)[no] = items[no]
    <2>1. PICK n \in DOMAIN T : no = T[n].no
      BY <1>1 DEF Nos
    <2>2. WriteFlat(T, m)[no] = WriteValue(T[n], ReadValue(T[n], items[no]))
      BY <2>1, FlatItems DEF DecodeFlat, FlatType
    <2> QED
      BY <2>1, <2>2, WritesValue DEF WrittenFlat
  <1>2. ASSUME NEW no \in FieldNos, no \notin Nos(T) PROVE WriteFlat(T, m)[no] = items[no]
    BY <1>2 DEF WriteFlat, DecodeFlat, Unknown
  <1>3. WriteFlat(T, m) = [no \in FieldNos |-> WriteFlat(T, m)[no]]
    BY DEF WriteFlat
  <1> QED
    BY <1>1, <1>2, <1>3 DEF WrittenFlat

-----------------------------------------------------------------------------
(* The codec of any message. *)

LEMMA Items ==
    ASSUME NEW T, Numbered(T), NEW m, NEW n \in DOMAIN T
    PROVE  Write(T, m)[T[n].no] = WriteField(T[n], m.fields[n])
  BY NameOfField DEF Write

\* A field of a message, by itself.
MessageField(f, value) ==
    CASE f.how = "messages" -> /\ value = [i \in DOMAIN value |-> value[i]]
                               /\ \A i \in DOMAIN value : IsFlat(f.of, value[i])
      [] f.how \in {"message", "choice"} -> value # <<>> => One(value) /\ IsFlat(f.of, value[1])
      [] OTHER -> IsValue(f, value)

LEMMA MessageFields ==
    ASSUME NEW T, NEW m, IsMessage(T, m), NEW n \in DOMAIN T
    PROVE  MessageField(T[n], m.fields[n])
  BY DEF IsMessage, MessageField, One

\* A message is empty on the wire just when it is not there.
LEMMA ChoiceItems ==
    ASSUME NEW f, NEW value, f.how = "choice"
    PROVE  WriteField(f, value) = <<>> <=> value = <<>>
  <1>1. ASSUME NEW d PROVE <<d>> # <<>>
    OBVIOUS
  <1> QED
    BY <1>1 DEF WriteField

LEMMA ChoicesAreWritten ==
    ASSUME NEW T, Numbered(T), NEW m, IsMessage(T, m)
    PROVE  OneChoice(T, Write(T, m))
  <1>1. ASSUME NEW n \in DOMAIN T, T[n].how = "choice", Write(T, m)[T[n].no] # <<>>
        PROVE  m.fields[n] # <<>>
    BY <1>1, Items, ChoiceItems
  <1> QED
    BY <1>1 DEF OneChoice, IsMessage

\* The one member of a choice that is there is the chosen one.
LEMMA ChosenOne ==
    ASSUME NEW T, NEW items, OneChoice(T, items),
           NEW n \in DOMAIN T, T[n].how = "choice", items[T[n].no] # <<>>
    PROVE  Chosen(T, items) = n
  BY DEF Chosen, OneChoice

LEMMA BodyOf == ASSUME NEW items PROVE Body(items).body = items /\ Body(items) = Body(Body(items).body)
  BY DEF Body

LEMMA WriteFlatItems == ASSUME NEW T, NEW m PROVE WriteFlat(T, m) = [no \in FieldNos |-> WriteFlat(T, m)[no]]
  BY DEF WriteFlat

LEMMA ReadsField ==
    ASSUME NEW T, NEW items, OneChoice(T, items), NEW n \in DOMAIN T, NEW value,
           IsHeld(T[n]) => FlatType(T[n].of),
           MessageField(T[n], value), items[T[n].no] = WriteField(T[n], value)
    PROVE  ReadField(T, n, items) = value
  <1> DEFINE f == T[n]
             data == items[f.no]
  <1>1. CASE f.how = "messages"
    <2>1. data = [i \in DOMAIN value |-> Body(WriteFlat(f.of, value[i]))]
      BY <1>1 DEF WriteField
    <2>2. \A i \in DOMAIN value : DecodeFlat(f.of, data[i].body) = value[i]
      BY <1>1, <2>1, ReadsFlat, BodyOf DEF MessageField, IsHeld
    <2>3. ReadField(T, n, items) = [i \in DOMAIN value |-> DecodeFlat(f.of, data[i].body)]
      BY <1>1, <2>1 DEF ReadField
    <2> QED
      BY <1>1, <2>2, <2>3 DEF MessageField
  <1>2. CASE f.how \in {"message", "choice"} /\ value = <<>>
    <2>1. data = <<>>
      BY <1>2 DEF WriteField
    <2> QED
      BY <1>2, <2>1 DEF ReadField
  <1>3. CASE f.how \in {"message", "choice"} /\ value # <<>>
    <2> DEFINE d == Body(WriteFlat(f.of, value[1]))
    <2>1. data = <<d>> /\ data # <<>>
      BY <1>3 DEF WriteField
    <2>2. One(value) /\ IsFlat(f.of, value[1])
      BY <1>3 DEF MessageField
    <2>3. Merged(f.of, data) = DecodeFlat(f.of, WriteFlat(f.of, value[1]))
      BY <2>1, MergedOne, BodyOf, WriteFlatItems
    <2>4. DecodeFlat(f.of, WriteFlat(f.of, value[1])) = value[1]
      BY <1>3, <2>2, ReadsFlat DEF IsHeld
    <2>5. f.how = "choice" => n = Chosen(T, items)
      BY <2>1, ChosenOne
    <2> QED
      BY <1>3, <2>1, <2>2, <2>3, <2>4, <2>5 DEF ReadField, One
  <1>4. CASE ~IsHeld(f)
    BY <1>4, ReadsValue DEF IsHeld, WriteField, ReadField, MessageField
  <1> QED
    BY <1>1, <1>2, <1>3, <1>4 DEF IsHeld

LEMMA FieldIsWritten ==
    ASSUME NEW f, NEW value, IsHeld(f) => FlatType(f.of), MessageField(f, value)
    PROVE  WrittenField(f, WriteField(f, value))
  <1> DEFINE data == WriteField(f, value)
  <1>1. CASE f.how = "messages"
    <2>1. data = [i \in DOMAIN value |-> Body(WriteFlat(f.of, value[i]))]
      BY <1>1 DEF WriteField
    <2>2. \A i \in DOMAIN value : WrittenBody(f.of, data[i])
      BY <1>1, <2>1, FlatIsWritten, BodyOf DEF MessageField, WrittenBody, IsHeld
    <2> QED
      BY <1>1, <2>1, <2>2 DEF WrittenField
  <1>2. CASE f.how \in {"message", "choice"} /\ value = <<>>
    BY <1>2 DEF WriteField, WrittenField
  <1>3. CASE f.how \in {"message", "choice"} /\ value # <<>>
    <2> DEFINE d == Body(WriteFlat(f.of, value[1]))
    <2>1. data = <<d>>
      BY <1>3 DEF WriteField
    <2>2. WrittenBody(f.of, d)
      BY <1>3, FlatIsWritten, BodyOf DEF MessageField, WrittenBody, IsHeld
    <2>3. One(data) /\ data[1] = d
      BY <2>1 DEF One
    <2> QED
      BY <1>3, <2>2, <2>3 DEF WrittenField
  <1>4. CASE ~IsHeld(f)
    BY <1>4, ValueIsWritten DEF IsHeld, WriteField, MessageField, WrittenField
  <1> QED
    BY <1>1, <1>2, <1>3, <1>4 DEF IsHeld

\* What is read of a field is written as it came.
LEMMA WritesField ==
    ASSUME NEW T, NEW items, OneChoice(T, items), NEW n \in DOMAIN T,
           IsHeld(T[n]) => FlatType(T[n].of), WrittenField(T[n], items[T[n].no])
    PROVE  WriteField(T[n], ReadField(T, n, items)) = items[T[n].no]
  <1> DEFINE f == T[n]
             data == items[f.no]
             value == ReadField(T, n, items)
  <1>1. CASE f.how = "messages"
    <2>1. value = [i \in DOMAIN data |-> DecodeFlat(f.of, data[i].body)]
      BY <1>1 DEF ReadField
    <2>2. \A i \in DOMAIN data : Body(WriteFlat(f.of, value[i])) = data[i]
      BY <1>1, <2>1, WritesFlat DEF WrittenField, WrittenBody, IsHeld
    <2>3. WriteField(f, value) = [i \in DOMAIN data |-> Body(WriteFlat(f.of, value[i]))]
      BY <1>1, <2>1 DEF WriteField
    <2> QED
      BY <1>1, <2>2, <2>3 DEF WrittenField
  <1>2. CASE f.how \in {"message", "choice"} /\ data = <<>>
    <2>1. value = <<>>
      BY <1>2 DEF ReadField
    <2> QED
      BY <1>2, <2>1 DEF WriteField
  <1>3. CASE f.how \in {"message", "choice"} /\ data # <<>>
    <2>1. One(data) /\ WrittenBody(f.of, data[1])
      BY <1>3 DEF WrittenField
    <2>2. Merged(f.of, data) = DecodeFlat(f.of, data[1].body)
      BY <2>1, MergedOne DEF One, WrittenBody, WrittenFlat
    <2>3. f.how = "choice" => n = Chosen(T, items)
      BY <1>3, ChosenOne
    <2>4. value = <<DecodeFlat(f.of, data[1].body)>>
      BY <1>3, <2>2, <2>3 DEF ReadField
    <2>5. WriteField(f, value) = <<Body(WriteFlat(f.of, DecodeFlat(f.of, data[1].body)))>>
      BY <1>3, <2>4 DEF WriteField
    <2>6. WriteFlat(f.of, DecodeFlat(f.of, data[1].body)) = data[1].body
      BY <1>3, <2>1, WritesFlat DEF WrittenBody, IsHeld
    <2> QED
      BY <2>1, <2>5, <2>6 DEF One, WrittenBody
  <1>4. CASE ~IsHeld(f)
    BY <1>4, WritesValue DEF IsHeld, WriteField, ReadField, WrittenField
  <1> QED
    BY <1>1, <1>2, <1>3, <1>4 DEF IsHeld

-----------------------------------------------------------------------------
(* The codec as a whole. *)

\* A build reads what another of its age wrote as it was meant.
THEOREM ReadsWhatWasWritten ==
    ASSUME NEW T, Type(T), NEW m, IsMessage(T, m)
    PROVE  Decode(T, Write(T, m)) = m
  <1> DEFINE items == Write(T, m)
  <1>1. OneChoice(T, items)
    BY ChoicesAreWritten DEF Type
  <1>2. ASSUME NEW n \in DOMAIN T PROVE ReadField(T, n, items) = m.fields[n]
    BY <1>1, Items, MessageFields, ReadsField DEF Type
  <1>3. [n \in DOMAIN T |-> ReadField(T, n, items)] = [n \in DOMAIN T |-> m.fields[n]]
    BY <1>2
  <1>4. Unknown(T, items) = NoItems
    BY DEF Unknown, NoItems, Write, IsMessage
  <1>5. m = [fields |-> [n \in DOMAIN T |-> m.fields[n]], unknown |-> NoItems]
    BY DEF IsMessage
  <1> QED
    BY <1>3, <1>4, <1>5 DEF Decode

LEMMA MessageIsWritten ==
    ASSUME NEW T, Type(T), NEW m, IsMessage(T, m)
    PROVE  Written(T, Write(T, m))
  <1>1. OneChoice(T, Write(T, m))
    BY ChoicesAreWritten DEF Type
  <1>2. ASSUME NEW n \in DOMAIN T PROVE WrittenField(T[n], Write(T, m)[T[n].no])
    BY Items, MessageFields, FieldIsWritten DEF Type
  <1>3. Write(T, m) = [no \in FieldNos |-> Write(T, m)[no]]
    BY DEF Write
  <1> QED
    BY <1>1, <1>2, <1>3 DEF Written

LEMMA WritesWhatWasRead ==
    ASSUME NEW T, Type(T), NEW items, Written(T, items)
    PROVE  Write(T, Decode(T, items)) = items
  <1> DEFINE m == Decode(T, items)
  <1>1. ASSUME NEW no \in FieldNos, no \in Nos(T) PROVE Write(T, m)[no] = items[no]
    <2>1. PICK n \in DOMAIN T : no = T[n].no
      BY <1>1 DEF Nos
    <2>2. Write(T, m)[no] = WriteField(T[n], ReadField(T, n, items))
      BY <2>1, Items DEF Decode, Type
    <2> QED
      BY <2>1, <2>2, WritesField DEF Written, Type
  <1>2. ASSUME NEW no \in FieldNos, no \notin Nos(T) PROVE Write(T, m)[no] = items[no]
    BY <1>2 DEF Write, Decode, Unknown
  <1>3. Write(T, m) = [no \in FieldNos |-> Write(T, m)[no]]
    BY DEF Write
  <1> QED
    BY <1>1, <1>2, <1>3 DEF Written

-----------------------------------------------------------------------------
(* An older build: its types lack a field, and it writes on what it does not know. *)

LEMMA LacksFields ==
    ASSUME NEW T, NEW no
    PROVE  /\ \A n : n \in DOMAIN Lacks(T, no) <=> n \in DOMAIN T /\ T[n].no # no
           /\ \A n \in DOMAIN Lacks(T, no) : Lacks(T, no)[n] = T[n]
  BY DEF Lacks

LEMMA OlderFlat ==
    ASSUME NEW T, NEW no
    PROVE  /\ FlatType(T) => FlatType(Lacks(T, no))
           /\ \A items : WrittenFlat(T, items) => WrittenFlat(Lacks(T, no), items)
  BY LacksFields DEF FlatType, Numbered, WrittenFlat

LEMMA OlderFields ==
    ASSUME NEW T, Type(T), NEW no
    PROVE  /\ \A n : n \in DOMAIN Older(T, no) <=> n \in DOMAIN T /\ T[n].no # no
           /\ \A n \in DOMAIN Older(T, no) :
                 Older(T, no)[n] = Field(T[n].no, T[n].how, Lacks(T[n].of, no))
  BY LacksFields DEF Older, Type, Field

LEMMA OlderType ==
    ASSUME NEW T, Type(T), NEW no
    PROVE  Type(Older(T, no)) /\ (FlatType(T) => FlatType(Older(T, no)))
  <1> DEFINE O == Older(T, no)
  <1>1. \A n \in DOMAIN O : /\ n \in DOMAIN T /\ O[n].no = T[n].no /\ O[n].how = T[n].how
                            /\ O[n].of = Lacks(T[n].of, no) /\ O[n] = Field(O[n].no, O[n].how, O[n].of)
    BY OlderFields DEF Field
  <1>2. Numbered(O)
    BY <1>1 DEF Type, Numbered
  <1>3. \A n \in DOMAIN O : IsHeld(O[n]) => FlatType(O[n].of)
    BY <1>1, OlderFlat DEF Type, IsHeld
  <1> QED
    BY <1>1, <1>2, <1>3 DEF Type, FlatType, IsHeld

LEMMA OlderWrittenField ==
    ASSUME NEW f, NEW no, NEW data, WrittenField(f, data)
    PROVE  WrittenField(Field(f.no, f.how, Lacks(f.of, no)), data)
  <1> DEFINE g == Field(f.no, f.how, Lacks(f.of, no))
  <1>1. g.how = f.how /\ g.of = Lacks(f.of, no) /\ (IsScalar(g) <=> IsScalar(f))
    BY DEF Field, IsScalar
  <1>2. \A d : WrittenBody(f.of, d) => WrittenBody(g.of, d)
    BY <1>1, OlderFlat DEF WrittenBody
  <1>3. WrittenValue(f, data) => WrittenValue(g, data)
    BY <1>1 DEF WrittenValue
  <1> SUFFICES WrittenField(g, data)
    OBVIOUS
  <1> HIDE DEF g
  <1>4. CASE f.how = "messages"
    BY <1>1, <1>2, <1>4 DEF WrittenField
  <1>5. CASE f.how \in {"message", "choice"}
    BY <1>1, <1>2, <1>5 DEF WrittenField
  <1>6. CASE ~IsHeld(f)
    BY <1>1, <1>3, <1>6 DEF WrittenField, IsHeld
  <1> QED
    BY <1>4, <1>5, <1>6 DEF IsHeld

LEMMA OlderWritten ==
    ASSUME NEW T, Type(T), NEW no, NEW items, Written(T, items)
    PROVE  Written(Older(T, no), items)
  <1> DEFINE O == Older(T, no)
  <1>1. \A n \in DOMAIN O : /\ n \in DOMAIN T /\ O[n].no = T[n].no /\ O[n].how = T[n].how
                            /\ O[n] = Field(T[n].no, T[n].how, Lacks(T[n].of, no))
    BY OlderFields DEF Field
  <1>2. \A n \in DOMAIN O : WrittenField(O[n], items[O[n].no])
    BY <1>1, OlderWrittenField DEF Written
  <1>3. OneChoice(O, items)
    BY <1>1 DEF Written, OneChoice
  <1> QED
    BY <1>2, <1>3 DEF Written

\* What an older build reads and passes on is what it was sent, the fields it does not
\* know included, at the top and in the messages within (the unknown-field handlers of
\* internalBinaryRead and internalBinaryWrite).
THEOREM OlderBuildPassesOn ==
    ASSUME NEW T, Type(T), NEW no, NEW m, IsMessage(T, m)
    PROVE  Write(Older(T, no), Decode(Older(T, no), Write(T, m))) = Write(T, m)
  BY MessageIsWritten, OlderWritten, OlderType, WritesWhatWasRead

-----------------------------------------------------------------------------
(* Messages that hold none are a special case. *)

LEMMA FlatCodec ==
    ASSUME NEW T, FlatType(T)
    PROVE  /\ \A m : Write(T, m) = WriteFlat(T, m)
           /\ \A items : Decode(T, items) = DecodeFlat(T, items)
           /\ \A m : IsFlat(T, m) => IsMessage(T, m)
  <1>1. \A n \in DOMAIN T : \A v : WriteField(T[n], v) = WriteValue(T[n], v)
    BY DEF WriteField, FlatType, IsHeld
  <1>2. \A n \in DOMAIN T : \A items : ReadField(T, n, items) = ReadValue(T[n], items[T[n].no])
    BY DEF ReadField, FlatType, IsHeld
  <1>3. \A no \in Nos(T) : NameOf(T, no) \in DOMAIN T
    BY FieldOfNo
  <1>4. ASSUME NEW m PROVE Write(T, m) = WriteFlat(T, m)
    BY <1>1, <1>3 DEF Write, WriteFlat
  <1>5. ASSUME NEW items PROVE Decode(T, items) = DecodeFlat(T, items)
    BY <1>2 DEF Decode, DecodeFlat
  <1>6. ASSUME NEW m, IsFlat(T, m) PROVE IsMessage(T, m)
    BY <1>6 DEF IsMessage, IsFlat, FlatType, IsHeld
  <1> QED
    BY <1>4, <1>5, <1>6

\* A request without anything filled in is not written at all.
LEMMA CreateIsEmpty ==
    ASSUME NEW T, FlatType(T)
    PROVE  IsFlat(T, Create(T)) /\ WriteFlat(T, Create(T)) = NoItems
  <1>1. ASSUME NEW n \in DOMAIN T PROVE IsValue(T[n], Create(T).fields[n])
    BY DEF Create, IsValue
  <1>2. IsFlat(T, Create(T))
    BY <1>1 DEF IsFlat, Create
  <1>3. ASSUME NEW no \in Nos(T)
        PROVE  WriteValue(T[NameOf(T, no)], Create(T).fields[NameOf(T, no)]) = <<>>
    BY <1>3, FieldOfNo DEF WriteValue, Create
  <1>4. WriteFlat(T, Create(T)) = NoItems
    BY <1>3 DEF WriteFlat, NoItems, Create
  <1> QED
    BY <1>2, <1>4

-----------------------------------------------------------------------------
(* The messages of the services are of such types. *)

Fields == [no : FieldNos, how : {"text", "number", "bytes", "texts"}, of : {<<>>}]

LEMMA Heads ==
    ASSUME NEW no \in FieldNos
    PROVE  /\ Text(no) \in Fields /\ Number(no) \in Fields
           /\ Bytes(no) \in Fields /\ TextList(no) \in Fields
           /\ Text(no).no = no /\ Number(no).no = no /\ Bytes(no).no = no /\ TextList(no).no = no
  BY DEF Fields, Text, Number, Bytes, TextList, Field

LEMMA FlatTypes ==
    ASSUME NEW T, Numbered(T), \A n \in DOMAIN T : T[n] \in Fields
    PROVE  FlatType(T) /\ Type(T)
  BY DEF FlatType, Type, Fields, IsHeld, Field

LEMMA ControllerTypes ==
    /\ FlatType(ExecuteCommandSetRequest) /\ Type(ExecuteCommandSetRequest)
    /\ FlatType(StoreCommandSetRequest) /\ Type(StoreCommandSetRequest)
    /\ FlatType(UpdateCommandSetRequest) /\ Type(UpdateCommandSetRequest)
    /\ FlatType(DeleteCommandSetRequest) /\ Type(DeleteCommandSetRequest)
    /\ FlatType(GetAllCommandSetsRequest) /\ Type(GetAllCommandSetsRequest)
    /\ FlatType(StoreCommandSetResponse) /\ Type(StoreCommandSetResponse)
    /\ FlatType(UpdateCommandSetResponse) /\ Type(UpdateCommandSetResponse)
    /\ FlatType(DeleteCommandSetResponse) /\ Type(DeleteCommandSetResponse)
    /\ FlatType(StepResult) /\ Type(StepResult)
    /\ FlatType(CommandSetInfo) /\ Type(CommandSetInfo)
    /\ Type(ExecuteCommandSetResponse)
    /\ Type(GetAllCommandSetsResponse)
  <1>1. FlatType(ExecuteCommandSetRequest) /\ Type(ExecuteCommandSetRequest)
    BY Heads, FlatTypes DEF Numbered, FieldNos, ExecuteCommandSetRequest
  <1>2. FlatType(StoreCommandSetRequest) /\ Type(StoreCommandSetRequest)
    BY Heads, FlatTypes DEF Numbered, FieldNos, StoreCommandSetRequest
  <1>3. FlatType(UpdateCommandSetRequest) /\ Type(UpdateCommandSetRequest)
    BY Heads, FlatTypes DEF Numbered, FieldNos, UpdateCommandSetRequest
  <1>4. FlatType(DeleteCommandSetRequest) /\ Type(DeleteCommandSetRequest)
    BY Heads, FlatTypes DEF Numbered, FieldNos, DeleteCommandSetRequest
  <1>5. FlatType(GetAllCommandSetsRequest) /\ Type(GetAllCommandSetsRequest)
    BY Heads, FlatTypes DEF Numbered, FieldNos, GetAllCommandSetsRequest
  <1>6. FlatType(StoreCommandSetResponse) /\ Type(StoreCommandSetResponse)
    BY Heads, FlatTypes DEF Numbered, FieldNos, StoreCommandSetResponse
  <1>7. FlatType(UpdateCommandSetResponse) /\ Type(UpdateCommandSetResponse)
    BY Heads, FlatTypes DEF Numbered, FieldNos, UpdateCommandSetResponse
  <1>8. FlatType(DeleteCommandSetResponse) /\ Type(DeleteCommandSetResponse)
    BY Heads, FlatTypes DEF Numbered, FieldNos, DeleteCommandSetResponse
  <1>9. FlatType(StepResult) /\ Type(StepResult)
    BY Heads, FlatTypes DEF Numbered, FieldNos, StepResult
  <1>10. FlatType(CommandSetInfo) /\ Type(CommandSetInfo)
    BY Heads, FlatTypes DEF Numbered, FieldNos, CommandSetInfo
  <1>11. Type(ExecuteCommandSetResponse)
    BY <1>9 DEF ExecuteCommandSetResponse, Messages, Text, Number, Field, Type, Numbered, IsHeld, FieldNos
  <1>12. Type(GetAllCommandSetsResponse)
    BY <1>10 DEF GetAllCommandSetsResponse, Messages, Text, Number, Field, Type, Numbered, IsHeld, FieldNos
  <1> QED
    BY <1>1, <1>2, <1>3, <1>4, <1>5, <1>6, <1>7, <1>8, <1>9, <1>10, <1>11, <1>12

LEMMA DeviceTypes ==
    /\ FlatType(CommandRequest) /\ Type(CommandRequest)
    /\ FlatType(CommandResponse) /\ Type(CommandResponse)
    /\ FlatType(ListDevicesRequest) /\ Type(ListDevicesRequest)
    /\ FlatType(DeviceInfo) /\ Type(DeviceInfo)
    /\ Type(ListDevicesResponse)
    /\ Type(AgentMessage)
    /\ Type(CloudMessage)
  <1>1. FlatType(CommandRequest) /\ Type(CommandRequest)
    BY Heads, FlatTypes DEF Numbered, FieldNos, CommandRequest
  <1>2. FlatType(CommandResponse) /\ Type(CommandResponse)
    BY Heads, FlatTypes DEF Numbered, FieldNos, CommandResponse
  <1>3. FlatType(ListDevicesRequest) /\ Type(ListDevicesRequest)
    BY Heads, FlatTypes DEF Numbered, FieldNos, ListDevicesRequest
  <1>4. FlatType(DeviceInfo) /\ Type(DeviceInfo)
    BY Heads, FlatTypes DEF Numbered, FieldNos, DeviceInfo
  <1>5. Type(ListDevicesResponse)
    BY <1>4 DEF ListDevicesResponse, Messages, Text, Number, Field, Type, Numbered, IsHeld, FieldNos
  <1>6. FlatType(<<>>)
    BY DEF FlatType, Numbered
  <1>7. Type(AgentMessage)
    BY <1>2, <1>6 DEF AgentMessage, Choice, Text, Number, Field, Type, Numbered, IsHeld, FieldNos
  <1>8. Type(CloudMessage)
    BY <1>1, <1>6 DEF CloudMessage, Choice, Text, Number, Field, Type, Numbered, IsHeld, FieldNos
  <1> QED
    BY <1>1, <1>2, <1>3, <1>4, <1>5, <1>7, <1>8

LEMMA OnDeviceType ==
    ASSUME NEW T, FlatType(T) PROVE Type(OnDevice(T))
  BY DEF OnDevice, Message, Text, Field, Type, Numbered, IsHeld, FieldNos

-----------------------------------------------------------------------------
(* The services and their clients. *)

LEMMA Methods ==
    /\ Tunnelled = {"executeOnDevice", "listDeviceCommandSets", "storeOnDevice",
                    "updateOnDevice", "deleteOnDevice"}
    /\ Unary = {"executeCommandSet", "storeCommandSet", "updateCommandSet", "deleteCommandSet",
                "getAllCommandSets", "listDevices"}
    /\ DOMAIN Client = Tunnelled \cup Unary
  <1>1. DOMAIN Client = DOMAIN ControllerServiceClient \cup DOMAIN DeviceRegistryServiceClient
                            \cup DOMAIN GatewayServiceClient
    BY DEF Client
  <1>2. DOMAIN ControllerServiceClient = {"executeCommandSet", "storeCommandSet",
            "updateCommandSet", "deleteCommandSet", "getAllCommandSets"}
    BY DEF ControllerServiceClient
  <1>3. DOMAIN DeviceRegistryServiceClient = {"listDevices"}
    BY DEF DeviceRegistryServiceClient
  <1>4. DOMAIN GatewayServiceClient = {"executeOnDevice", "listDeviceCommandSets",
            "storeOnDevice", "updateOnDevice", "deleteOnDevice"}
    BY DEF GatewayServiceClient
  <1> QED
    BY <1>1, <1>2, <1>3, <1>4 DEF Tunnelled, Unary

LEMMA ClientRows ==
    /\ \A m \in DOMAIN ControllerServiceClient : Client[m] = ControllerServiceClient[m]
    /\ \A m \in DOMAIN DeviceRegistryServiceClient : Client[m] = DeviceRegistryServiceClient[m]
    /\ \A m \in DOMAIN GatewayServiceClient : Client[m] = GatewayServiceClient[m]
  <1>1. \A m \in DOMAIN ControllerServiceClient :
            m \notin DOMAIN DeviceRegistryServiceClient /\ m \notin DOMAIN GatewayServiceClient
    BY DEF ControllerServiceClient, DeviceRegistryServiceClient, GatewayServiceClient
  <1>2. \A m \in DOMAIN DeviceRegistryServiceClient : m \notin DOMAIN GatewayServiceClient
    BY DEF DeviceRegistryServiceClient, GatewayServiceClient
  <1> QED
    BY <1>1, <1>2 DEF Client

\* A method of ControllerService, and ListDevices, is served by the service it names.
LEMMA UnaryRows ==
    ASSUME NEW m \in Unary
    PROVE  /\ Client[m].name \in DOMAIN Served
           /\ Served[Client[m].name].in = Client[m].in
           /\ Served[Client[m].name].out = Client[m].out
           /\ Type(Client[m].in) /\ Type(Client[m].out)
  <1>1. CASE m = "listDevices"
    BY <1>1, ClientRows, DeviceTypes
       DEF DeviceRegistryServiceClient, DeviceRegistryService, Row, Served
  <1>2. CASE m \in DOMAIN ControllerServiceClient
    BY <1>2, ClientRows, ControllerTypes
       DEF ControllerServiceClient, ControllerService, Row, Served
  <1> QED
    BY <1>1, <1>2, Methods DEF ControllerServiceClient

\* The gateway forwards each of its methods to the one that the schema says, and the
\* agent's router finds that one again, by a number (services.go, agent main.go).
LEMMA GatewayRows ==
    ASSUME NEW m \in Tunnelled
    PROVE  LET name == Client[m].name
               to == ForwardedTo[name]
           IN /\ name \notin DOMAIN Served /\ to \in DOMAIN Served
              /\ GatewayMethod(name).as = to /\ Handler(GatewayMethod(name).method) = to
              /\ FlatType(Served[to].in) /\ Client[m].in = OnDevice(Served[to].in)
              /\ Type(Served[to].in)
              /\ Type(Served[to].out) /\ Client[m].out = Served[to].out
  <1> DEFINE name == Client[m].name
             to == ForwardedTo[name]
  <1>1. Client[m] = GatewayServiceClient[m]
    BY ClientRows DEF Tunnelled
  <1>2. name \in DOMAIN ForwardedTo
    BY <1>1, Methods DEF GatewayServiceClient, GatewayService, Row, ForwardedTo
  <1>3. \A s \in DOMAIN ForwardedTo : s \notin DOMAIN Served /\ ForwardedTo[s] \in DOMAIN Served
    BY DEF ForwardedTo, Served
  <1>4. \A s \in DOMAIN ForwardedTo : GatewayMethod(s).as = ForwardedTo[s]
    BY DEF ForwardedTo, GatewayMethod
  <1>5. Handler(GatewayMethod(name).method) = to
    <2>1. /\ Handler(ControllerMethod.EXECUTE) = "ExecuteCommandSet"
          /\ Handler(ControllerMethod.LIST) = "GetAllCommandSets"
          /\ Handler(ControllerMethod.STORE) = "StoreCommandSet"
          /\ Handler(ControllerMethod.UPDATE) = "UpdateCommandSet"
          /\ Handler(ControllerMethod.DELETE) = "DeleteCommandSet"
      BY DEF Handler, ControllerMethod, Zero
    <2> QED
      BY <1>2, <2>1 DEF ForwardedTo, GatewayMethod
  <1>6. FlatType(Served[to].in) /\ Type(Served[to].in) /\ Type(Served[to].out)
    BY <1>2, ControllerTypes DEF ForwardedTo, Served, Row
  <1>7. Client[m].out = Served[to].out
    BY <1>1, Methods DEF GatewayServiceClient, GatewayService, Row, ForwardedTo, Served
  <1>8. Client[m].in = OnDevice(Served[to].in)
    BY <1>1, Methods DEF GatewayServiceClient, GatewayService, Row, ForwardedTo, Served, OnDevice,
       ExecuteOnDeviceRequest, ListDeviceCommandSetsRequest, StoreOnDeviceRequest,
       UpdateOnDeviceRequest, DeleteOnDeviceRequest
  <1> QED
    BY <1>2, <1>3, <1>4, <1>5, <1>6, <1>7, <1>8

-----------------------------------------------------------------------------
(* Payloads. *)

\* What the gateway takes out of a request, also when it is too old for a field, is what
\* the caller put in; no request at all is an empty one.
LEMMA OnDeviceCarries ==
    ASSUME NEW T, FlatType(T), Type(T), NEW no, NEW m, IsMessage(OnDevice(T), m)
    PROVE  LET O == Older(T, no)
               read == Decode(OnDevice(O), Write(OnDevice(T), m))
               request == IF m.fields["request"] = <<>> THEN Create(T) ELSE m.fields["request"][1]
           IN /\ IsMessage(T, request)
              /\ (IF read.fields["request"] = <<>> THEN NoItems ELSE Write(O, read.fields["request"][1]))
                    = Write(T, request)
  <1> DEFINE O == Older(T, no)
             wired == Write(OnDevice(T), m)
             read == Decode(OnDevice(O), wired)
             value == m.fields["request"]
  <1>1. FlatType(O) /\ Type(O)
    BY OlderType
  <1>2. "request" \in DOMAIN OnDevice(T) /\ OnDevice(T)["request"] = Message(2, T)
    BY DEF OnDevice
  <1>3. "request" \in DOMAIN OnDevice(O) /\ OnDevice(O)["request"] = Message(2, O)
    BY DEF OnDevice
  <1>4. Message(2, T).how = "message" /\ Message(2, T).of = T /\ Message(2, T).no = 2
    BY DEF Message, Field
  <1>5. Message(2, O).how = "message" /\ Message(2, O).of = O /\ Message(2, O).no = 2
    BY DEF Message, Field
  <1>6. wired[2] = WriteField(Message(2, T), value)
    BY <1>2, <1>4, Items, OnDeviceType DEF Type
  <1>7. MessageField(Message(2, T), value)
    BY <1>2, MessageFields
  <1>8. read.fields["request"] = ReadField(OnDevice(O), "request", wired)
    BY <1>3 DEF Decode
  <1>9. CASE value = <<>>
    <2>1. wired[2] = <<>>
      BY <1>4, <1>6, <1>9 DEF WriteField
    <2>2. read.fields["request"] = <<>>
      BY <1>3, <1>5, <1>8, <2>1 DEF ReadField
    <2>3. IsMessage(T, Create(T)) /\ Write(T, Create(T)) = NoItems
      BY CreateIsEmpty, FlatCodec
    <2> QED
      BY <1>9, <2>2, <2>3
  <1>10. CASE value # <<>>
    <2> DEFINE items == WriteFlat(T, value[1])
    <2>1. wired[2] = <<Body(items)>> /\ wired[2] # <<>>
      BY <1>4, <1>6, <1>10 DEF WriteField
    <2>2. IsFlat(T, value[1])
      BY <1>4, <1>7, <1>10 DEF MessageField
    <2>3. Merged(O, wired[2]) = DecodeFlat(O, items)
      BY <2>1, MergedOne, BodyOf, WriteFlatItems
    <2>4. read.fields["request"] = <<DecodeFlat(O, items)>>
      BY <1>3, <1>5, <1>8, <2>1, <2>3 DEF ReadField
    <2>5. Write(O, DecodeFlat(O, items)) = Write(T, value[1])
      BY <1>1, <2>2, FlatCodec, OlderBuildPassesOn
    <2>6. IsMessage(T, value[1])
      BY <2>2, FlatCodec
    <2> QED
      BY <1>10, <2>4, <2>5, <2>6
  <1> QED
    BY <1>9, <1>10

LEMMA FillIn ==
    ASSUME NEW r, NEW F, NEW u, r = [fields |-> F, unknown |-> u], NEW k, NEW v
    PROVE  [r EXCEPT !.fields[k] = v] = [fields |-> [F EXCEPT ![k] = v], unknown |-> u]
  OBVIOUS

\* An envelope is a message with one member of its choice.
LEMMA EnvelopeIsMessage ==
    ASSUME NEW T, \A n \in DOMAIN T : T[n].how = "choice",
           NEW kind \in DOMAIN T, NEW m, IsFlat(T[kind].of, m)
    PROVE  IsMessage(T, Envelope(T, kind, m)) /\ Envelope(T, kind, m).fields[kind] = <<m>>
  <1> DEFINE e == Envelope(T, kind, m)
  <1> DEFINE F == Create(T).fields
  <1>1. e = [fields |-> [F EXCEPT ![kind] = <<m>>], unknown |-> NoItems]
    <2>1. Create(T) = [fields |-> F, unknown |-> NoItems]
      BY DEF Create
    <2> HIDE DEF F
    <2> QED
      BY <2>1, FillIn DEF Envelope
  <1>2. F = [n \in DOMAIN T |-> <<>>]
    BY DEF Create, IsScalar
  <1> HIDE DEF e, F
  <1>3. /\ e.fields = [n \in DOMAIN T |-> e.fields[n]] /\ e.unknown = NoItems
        /\ e = [fields |-> e.fields, unknown |-> e.unknown]
        /\ \A n \in DOMAIN T : e.fields[n] = IF n = kind THEN <<m>> ELSE <<>>
    BY <1>1, <1>2
  <1>4. Len(<<m>>) = 1 /\ <<m>>[1] = m /\ <<m>> # <<>>
    OBVIOUS
  <1>5. \A n, k \in DOMAIN T : e.fields[n] # <<>> /\ e.fields[k] # <<>> => n = k
    BY <1>3
  <1>6. \A n \in DOMAIN T : e.fields[n] # <<>> =>
            Len(e.fields[n]) = 1 /\ e.fields[n] = <<e.fields[n][1]>> /\ IsFlat(T[n].of, e.fields[n][1])
    BY <1>3, <1>4
  <1>7. IsMessage(T, e)
    BY <1>3, <1>5, <1>6 DEF IsMessage
  <1> QED
    BY <1>3, <1>7 DEF e

LEMMA ChoiceTypes ==
    /\ \A n \in DOMAIN CloudMessage : CloudMessage[n].how = "choice"
    /\ "command" \in DOMAIN CloudMessage /\ CloudMessage["command"].of = CommandRequest
    /\ \A n \in DOMAIN AgentMessage : AgentMessage[n].how = "choice"
    /\ "response" \in DOMAIN AgentMessage /\ AgentMessage["response"].of = CommandResponse
  BY DEF CloudMessage, AgentMessage, Choice, Field

\* A command and a response are read out of their envelope as they were put in.
LEMMA CommandCarries ==
    ASSUME NEW id, NEW payload, NEW method
    PROVE  LET command == Made([requestId |-> <<id>>, payload |-> <<payload>>, method |-> <<method>>])
           IN Decode(CloudMessage, Write(CloudMessage, Envelope(CloudMessage, "command", command)))
                .fields["command"] = <<command>>
  <1> DEFINE command == Made([requestId |-> <<id>>, payload |-> <<payload>>, method |-> <<method>>])
             message == Envelope(CloudMessage, "command", command)
  <1>1. DOMAIN CommandRequest = {"requestId", "payload", "method"}
    BY DEF CommandRequest
  <1>2. IsFlat(CommandRequest, command)
    BY <1>1 DEF IsFlat, IsValue, Made
  <1>3. IsMessage(CloudMessage, message) /\ message.fields["command"] = <<command>>
    BY <1>2, EnvelopeIsMessage, ChoiceTypes
  <1> QED
    BY <1>3, DeviceTypes, ReadsWhatWasWritten

LEMMA ResponseCarries ==
    ASSUME NEW id, NEW payload
    PROVE  LET response == Made([requestId |-> <<id>>, payload |-> <<payload>>])
           IN Decode(AgentMessage, Write(AgentMessage, Envelope(AgentMessage, "response", response)))
                .fields["response"] = <<response>>
  <1> DEFINE response == Made([requestId |-> <<id>>, payload |-> <<payload>>])
             message == Envelope(AgentMessage, "response", response)
  <1>1. DOMAIN CommandResponse = {"requestId", "payload"}
    BY DEF CommandResponse
  <1>2. IsFlat(CommandResponse, response)
    BY <1>1 DEF IsFlat, IsValue, Made
  <1>3. IsMessage(AgentMessage, message) /\ message.fields["response"] = <<response>>
    BY <1>2, EnvelopeIsMessage, ChoiceTypes
  <1> QED
    BY <1>3, DeviceTypes, ReadsWhatWasWritten

-----------------------------------------------------------------------------
(* The invariant: what is on the wire, at each stage, is what was meant, written once    *)
(* or as the payload of another message; and what is meant or answered is a message of   *)
(* its type.                                                                             *)

To == ForwardedTo[Client[op].name]

MeantInv ==
    /\ op \in DOMAIN Client
    /\ IsMessage(Client[op].in, meant)

\* Which stages a call of this method goes through.
StageInv ==
    /\ phase \in {"meant", "sent", "command", "response", "lost", "answered", "done"}
    /\ phase # "meant" => path = Client[op].name
    /\ phase \in {"command", "response"} => op \in Tunnelled

CommandInv ==
    phase = "command" =>
        LET c == Decode(CloudMessage, wire).fields["command"][1]
        IN /\ One(c.fields["requestId"])
           /\ c.fields["method"][1].text = GatewayMethod(path).method
           /\ c.fields["payload"][1].body = Write(Served[To].in, Wanted.request)

ResponseInv ==
    phase = "response" =>
        LET r == Decode(AgentMessage, wire).fields["response"][1]
        IN r.fields["payload"][1].body = Write(Served[To].out, answer)

SentInv == phase = "sent" => wire = Write(Client[op].in, meant)

AnsweredInv == phase = "answered" => wire = Write(Client[op].out, answer)

AnswerInv == phase \in {"response", "answered"} => IsMessage(Client[op].out, answer)

RelayInv ==
    /\ MeantInv /\ StageInv /\ SentInv /\ CommandInv /\ ResponseInv /\ AnsweredInv /\ AnswerInv
    /\ RequestArrives /\ AnswerArrives

LEMMA RelayInit == Init => RelayInv
  <1> SUFFICES ASSUME Init PROVE RelayInv
    OBVIOUS
  <1>1. op \in DOMAIN Client /\ phase = "meant"
    BY DEF Init
  <1>2. \A T \in {Client[op].in, Client[op].out} : \A a \in Sample(T) : IsMessage(T, a)
    BY <1>1, SampleAssumption
  <1>3. MeantInv
    BY <1>1, <1>2 DEF Init, MeantInv
  <1> QED
    BY <1>1, <1>3 DEF RelayInv, StageInv, SentInv, CommandInv, ResponseInv, AnsweredInv, AnswerInv,
       RequestArrives, AnswerArrives

\* No step changes the call.
LEMMA SameCall ==
    ASSUME MeantInv, UNCHANGED <<op, gap, meant>>
    PROVE  /\ MeantInv' /\ Wanted' = Wanted /\ To' = To
           /\ op' = op /\ gap' = gap /\ meant' = meant
  BY DEF MeantInv, Wanted, To

LEMMA UnprintableIsLost == ~Marshals(ExecuteCommandSetResponse, Unprintable)
  <1> DEFINE F == Create(StepResult).fields
             step == [fields |-> [F EXCEPT !["output"] = <<Scalar(Garbled)>>], unknown |-> NoItems]
             G == Create(ExecuteCommandSetResponse).fields
             whole == [fields |-> [G EXCEPT !["stepResults"] = <<step>>], unknown |-> NoItems]
  <1>1. Unprintable = whole
    <2>1. Create(StepResult) = [fields |-> F, unknown |-> NoItems]
      BY DEF Create
    <2>2. Create(ExecuteCommandSetResponse) = [fields |-> G, unknown |-> NoItems]
      BY DEF Create
    <2> HIDE DEF F, G
    <2>3. [Create(StepResult) EXCEPT !.fields["output"] = <<Scalar(Garbled)>>] = step
      BY <2>1, FillIn
    <2> HIDE DEF step
    <2>4. [Create(ExecuteCommandSetResponse) EXCEPT !.fields["stepResults"] = <<step>>] = whole
      BY <2>2, FillIn
    <2> QED
      BY <2>3, <2>4 DEF Unprintable
  <1>2. "output" \in DOMAIN StepResult /\ StepResult["output"].how = "text"
    BY DEF StepResult, Text, Field
  <1>3. /\ "stepResults" \in DOMAIN ExecuteCommandSetResponse
        /\ ExecuteCommandSetResponse["stepResults"].how = "messages"
        /\ ExecuteCommandSetResponse["stepResults"].of = StepResult
    BY DEF ExecuteCommandSetResponse, Messages, Field
  <1>4. F["output"] = <<Empty>> /\ step.fields["output"] = <<Scalar(Garbled)>>
    BY <1>2 DEF Create, IsScalar
  <1>5. whole.fields["stepResults"] = <<step>>
    BY <1>3 DEF Create
  <1> HIDE DEF whole, step
  <1>6. Scalar(Garbled).text = Garbled
    BY DEF Scalar
  <1>7. ~IsUtf8(StepResult["output"], step.fields["output"])
    BY <1>2, <1>4, <1>6 DEF IsUtf8
  <1> QED
    BY <1>1, <1>2, <1>3, <1>5, <1>7 DEF Marshals

\* What is sent is a message of its type, and what is not is what a script printed.
LEMMA AnswersSent ==
    ASSUME NEW m \in DOMAIN Client, NEW name \in DOMAIN Served, Served[name].out = Client[m].out,
           NEW a \in Answers(name)
    PROVE  /\ Marshals(Served[name].out, a) => IsMessage(Client[m].out, a)
           /\ ~Marshals(Served[name].out, a) => a = Unprintable
  <1>1. a \in Sample(Client[m].out) => IsMessage(Client[m].out, a) /\ Marshals(Client[m].out, a)
    BY SampleAssumption
  <1>2. a \notin Sample(Client[m].out) => name = "ExecuteCommandSet" /\ a = Unprintable
    BY DEF Answers
  <1>3. Served["ExecuteCommandSet"].out = ExecuteCommandSetResponse
    BY DEF Served, Row
  <1> QED
    BY <1>1, <1>2, <1>3, UnprintableIsLost

LEMMA SendStep == RelayInv /\ Send => RelayInv'
  <1> SUFFICES ASSUME RelayInv, Send PROVE RelayInv'
    OBVIOUS
  <1>1. UNCHANGED <<op, gap, meant>> /\ phase' = "sent"
        /\ path' = Client[op].name /\ wire' = Write(Client[op].in, meant)
    BY DEF Send
  <1>2. MeantInv' /\ op' = op /\ meant' = meant
    BY <1>1, SameCall DEF RelayInv
  <1> QED
    BY <1>1, <1>2 DEF RelayInv, StageInv, SentInv, CommandInv, ResponseInv, AnsweredInv, AnswerInv,
       RequestArrives, AnswerArrives

\* The service itself: it finds what was wanted, and its answer is a message or lost.
LEMMA HandleStep ==
    ASSUME MeantInv, NEW name \in DOMAIN Served, NEW items, NEW next, Handle(name, items, next),
           Served[name].out = Client[op].out, Decode(Served[name].in, items) = Wanted.request,
           name = Wanted.name
    PROVE  /\ handled' = Wanted
           /\ \/ phase' = next /\ IsMessage(Client[op].out, answer')
              \/ phase' = "lost" /\ answer' = Unprintable
  <1>1. PICK a \in Answers(name) :
            /\ handled' = [name |-> name, request |-> Decode(Served[name].in, items)]
            /\ answer' = a
            /\ phase' = IF Marshals(Served[name].out, a) THEN next ELSE "lost"
    BY DEF Handle
  <1>2. Wanted = [name |-> Wanted.name, request |-> Wanted.request]
    BY DEF Wanted
  <1>3. op \in DOMAIN Client
    BY DEF MeantInv
  <1> QED
    BY <1>1, <1>2, <1>3, AnswersSent

LEMMA ServeStep == RelayInv /\ Serve => RelayInv'
  <1> SUFFICES ASSUME RelayInv, Serve PROVE RelayInv'
    OBVIOUS
  <1>1. /\ phase = "sent" /\ path \in DOMAIN Served /\ Handle(path, wire, "answered")
        /\ wire' = IF phase' = "lost" THEN NoItems ELSE Write(Served[path].out, answer')
        /\ UNCHANGED <<op, gap, meant>> /\ path' = path
    BY DEF Serve
  <1>2. /\ MeantInv' /\ Wanted' = Wanted /\ op' = op /\ meant' = meant
    BY <1>1, SameCall DEF RelayInv
  <1>3. path = Client[op].name /\ wire = Write(Client[op].in, meant)
        /\ IsMessage(Client[op].in, meant) /\ op \in DOMAIN Client
    BY <1>1 DEF RelayInv, StageInv, SentInv, MeantInv
  <1>4. op \in Unary
    BY <1>1, <1>3, Methods, GatewayRows
  <1>5. /\ Served[path].in = Client[op].in /\ Served[path].out = Client[op].out
        /\ Type(Client[op].in)
    BY <1>3, <1>4, UnaryRows
  <1>6. Wanted.name = path /\ Wanted.request = meant
    BY <1>3, <1>4 DEF Wanted, Unary
  <1>7. Decode(Served[path].in, wire) = Wanted.request
    BY <1>3, <1>5, <1>6, ReadsWhatWasWritten
  <1>8. /\ handled' = Wanted
        /\ \/ phase' = "answered" /\ IsMessage(Client[op].out, answer')
           \/ phase' = "lost" /\ answer' = Unprintable
    BY <1>1, <1>5, <1>6, <1>7, HandleStep DEF RelayInv
  <1> QED
    BY <1>1, <1>2, <1>3, <1>5, <1>8
       DEF RelayInv, StageInv, SentInv, CommandInv, ResponseInv, AnsweredInv, AnswerInv,
       RequestArrives, AnswerArrives

LEMMA ForwardStep == RelayInv /\ Forward => RelayInv'
  <1> SUFFICES ASSUME RelayInv, Forward PROVE RelayInv'
    OBVIOUS
  <1> DEFINE In == Served[To].in
             O == Older(In, gap)
             read == Decode(OnDevice(O), wire)
             payload == IF read.fields["request"] = <<>> THEN NoItems
                        ELSE Write(O, read.fields["request"][1])
             id == Scalar(CHOOSE t \in Texts : TRUE)
             method == Scalar(GatewayMethod(path).method)
             command == Made([requestId |-> <<id>>, payload |-> <<Body(payload)>>, method |-> <<method>>])
  <1>1. /\ phase = "sent" /\ phase' = "command" /\ path \notin DOMAIN Served
        /\ UNCHANGED <<op, gap, meant>> /\ path' = path
    BY DEF Forward
  <1>2. /\ MeantInv' /\ Wanted' = Wanted /\ To' = To /\ op' = op /\ meant' = meant
    BY <1>1, SameCall DEF RelayInv
  <1>3. path = Client[op].name /\ wire = Write(Client[op].in, meant)
        /\ IsMessage(Client[op].in, meant) /\ op \in DOMAIN Client
    BY <1>1 DEF RelayInv, StageInv, SentInv, MeantInv
  <1>4. op \in Tunnelled
    BY <1>1, <1>3, Methods, UnaryRows
  <1>5. /\ GatewayMethod(path).as = To /\ Client[op].in = OnDevice(In)
        /\ FlatType(In) /\ Type(In)
    BY <1>3, <1>4, GatewayRows DEF To
  <1>6. wire' = Write(CloudMessage, Envelope(CloudMessage, "command", command))
    BY <1>5 DEF Forward
  <1>7. payload = Write(In, Wanted.request)
    <2> HIDE DEF In
    <2>1. IsMessage(OnDevice(In), meant) /\ wire = Write(OnDevice(In), meant)
      BY <1>3, <1>5
    <2>2. payload = Write(In, IF meant.fields["request"] = <<>> THEN Create(In) ELSE meant.fields["request"][1])
      BY <1>5, <2>1, OnDeviceCarries
    <2>3. Wanted.request = IF meant.fields["request"] = <<>> THEN Create(In) ELSE meant.fields["request"][1]
      BY <1>4 DEF Wanted, To, In
    <2> QED
      BY <2>2, <2>3
  <1> HIDE DEF payload, id, method
  <1>8. Decode(CloudMessage, wire').fields["command"] = <<command>>
    <2>1. Decode(CloudMessage, Write(CloudMessage, Envelope(CloudMessage, "command", command)))
            .fields["command"] = <<command>>
      BY ONLY CommandCarries
    <2> QED
      BY <1>6, <2>1
  <1> USE DEF method
  <1>9. CommandInv'
    <2>1. /\ command.fields["requestId"] = <<id>>
          /\ command.fields["payload"][1].body = payload
          /\ command.fields["method"][1].text = GatewayMethod(path).method
      BY DEF Made, Body, Scalar
    <2> HIDE DEF command
    <2>2. One(<<id>>)
      BY DEF One
    <2> QED
      BY <1>1, <1>2, <1>7, <1>8, <2>1, <2>2 DEF CommandInv
  <1> QED
    BY <1>1, <1>2, <1>3, <1>4, <1>9
       DEF RelayInv, StageInv, SentInv, ResponseInv, AnsweredInv, AnswerInv,
       RequestArrives, AnswerArrives

LEMMA AgentHandlesStep == RelayInv /\ AgentHandles => RelayInv'
  <1> SUFFICES ASSUME RelayInv, AgentHandles PROVE RelayInv'
    OBVIOUS
  <1> DEFINE c == Decode(CloudMessage, wire).fields["command"][1]
             name == Handler(c.fields["method"][1].text)
             items == c.fields["payload"][1].body
             response == Made([requestId |-> c.fields["requestId"],
                               payload |-> <<Body(Write(Served[name].out, answer'))>>])
  <1>1. /\ phase = "command" /\ Handle(name, items, "response")
        /\ wire' = IF phase' = "lost" THEN NoItems
                   ELSE Write(AgentMessage, Envelope(AgentMessage, "response", response))
        /\ UNCHANGED <<op, gap, meant>> /\ path' = path
    BY DEF AgentHandles
  <1>2. /\ MeantInv' /\ Wanted' = Wanted /\ To' = To /\ op' = op /\ meant' = meant
    BY <1>1, SameCall DEF RelayInv
  <1>3. /\ op \in Tunnelled /\ path = Client[op].name
        /\ IsMessage(Client[op].in, meant) /\ op \in DOMAIN Client
    BY <1>1 DEF RelayInv, StageInv, MeantInv
  <1>4. /\ One(c.fields["requestId"])
        /\ c.fields["method"][1].text = GatewayMethod(path).method
        /\ items = Write(Served[To].in, Wanted.request)
    BY <1>1 DEF RelayInv, CommandInv
  <1>5. /\ To \in DOMAIN Served /\ Handler(GatewayMethod(path).method) = To
        /\ Served[To].out = Client[op].out /\ Client[op].in = OnDevice(Served[To].in)
        /\ FlatType(Served[To].in) /\ Type(Served[To].in)
    BY <1>3, GatewayRows DEF To
  <1>6. name = To /\ Wanted.name = To
    BY <1>3, <1>4, <1>5 DEF Wanted, To
  <1>7. IsMessage(Served[To].in, Wanted.request)
    BY <1>3, <1>5, OnDeviceCarries DEF Wanted, To
  <1>8. Decode(Served[To].in, items) = Wanted.request
    BY <1>4, <1>5, <1>7, ReadsWhatWasWritten
  <1> HIDE DEF items, name
  <1>9. /\ handled' = Wanted
        /\ \/ phase' = "response" /\ IsMessage(Client[op].out, answer')
           \/ phase' = "lost" /\ answer' = Unprintable
    BY <1>1, <1>5, <1>6, <1>8, HandleStep DEF RelayInv
  <1>10. ResponseInv'
    <2> SUFFICES ASSUME phase' = "response" PROVE ResponseInv'
      BY DEF ResponseInv
    <2> DEFINE payload == Body(Write(Served[To].out, answer'))
               id == c.fields["requestId"][1]
    <2>1. response = Made([requestId |-> <<id>>, payload |-> <<payload>>])
      BY <1>4, <1>6 DEF One
    <2>2. wire' = Write(AgentMessage, Envelope(AgentMessage, "response", response))
      BY <1>1
    <2> HIDE DEF payload, id, response
    <2>3. Decode(AgentMessage, wire').fields["response"] = <<response>>
      <3>1. Decode(AgentMessage, Write(AgentMessage, Envelope(AgentMessage, "response",
                Made([requestId |-> <<id>>, payload |-> <<payload>>]))))
              .fields["response"] = <<Made([requestId |-> <<id>>, payload |-> <<payload>>])>>
        BY ONLY ResponseCarries
      <3> QED
        BY <2>1, <2>2, <3>1
    <2>4. response.fields["payload"][1] = payload
      BY <2>1 DEF Made
    <2>5. payload.body = Write(Served[To].out, answer')
      BY DEF payload, Body
    <2> QED
      BY <1>2, <2>3, <2>4, <2>5 DEF ResponseInv
  <1> QED
    BY <1>1, <1>2, <1>3, <1>9, <1>10
       DEF RelayInv, StageInv, SentInv, CommandInv, AnsweredInv, AnswerInv,
       RequestArrives, AnswerArrives

LEMMA ReturnStep == RelayInv /\ Return => RelayInv'
  <1> SUFFICES ASSUME RelayInv, Return PROVE RelayInv'
    OBVIOUS
  <1> DEFINE payload == Decode(AgentMessage, wire).fields["response"][1].fields["payload"][1].body
             out == Client[op].out
  <1>1. /\ phase = "response" /\ phase' = "answered"
        /\ LET T == Older(Served[GatewayMethod(path).as].out, gap) IN wire' = Write(T, Decode(T, payload))
        /\ UNCHANGED <<op, gap, meant>> /\ path' = path /\ handled' = handled /\ answer' = answer
    BY DEF Return
  <1>2. /\ MeantInv' /\ Wanted' = Wanted /\ op' = op /\ meant' = meant
    BY <1>1, SameCall DEF RelayInv
  <1>3. /\ op \in Tunnelled /\ path = Client[op].name
        /\ IsMessage(out, answer) /\ handled = Wanted
        /\ payload = Write(Served[To].out, answer)
    BY <1>1 DEF RelayInv, StageInv, AnswerInv, ResponseInv, RequestArrives
  <1>4. GatewayMethod(path).as = To /\ Served[To].out = out /\ Type(out)
    BY <1>3, GatewayRows DEF To
  <1>5. wire' = Write(out, answer)
    BY <1>1, <1>3, <1>4, OlderBuildPassesOn
  <1> QED
    BY <1>1, <1>2, <1>3, <1>5
       DEF RelayInv, StageInv, SentInv, CommandInv, ResponseInv, AnsweredInv, AnswerInv,
       RequestArrives, AnswerArrives

LEMMA ClientTypes == \A m \in DOMAIN Client : Type(Client[m].in) /\ Type(Client[m].out)
  <1> TAKE m \in DOMAIN Client
  <1>1. CASE m \in Tunnelled
    BY <1>1, GatewayRows, OnDeviceType
  <1>2. CASE m \in Unary
    BY <1>2, UnaryRows
  <1> QED
    BY <1>1, <1>2, Methods

LEMMA ReceiveStep == RelayInv /\ Receive => RelayInv'
  <1> SUFFICES ASSUME RelayInv, Receive PROVE RelayInv'
    OBVIOUS
  <1>1. /\ phase = "answered" /\ phase' = "done" /\ got' = Decode(Client[op].out, wire)
        /\ UNCHANGED <<op, gap, meant>> /\ path' = path /\ handled' = handled /\ answer' = answer
    BY DEF Receive
  <1>2. /\ MeantInv' /\ Wanted' = Wanted /\ op' = op /\ meant' = meant
    BY <1>1, SameCall DEF RelayInv
  <1>3. /\ path = Client[op].name /\ op \in DOMAIN Client
        /\ IsMessage(Client[op].out, answer) /\ handled = Wanted
        /\ wire = Write(Client[op].out, answer)
    BY <1>1 DEF RelayInv, StageInv, AnswerInv, AnsweredInv, RequestArrives, MeantInv
  <1>4. got' = answer
    BY <1>1, <1>3, ClientTypes, ReadsWhatWasWritten
  <1> QED
    BY <1>1, <1>2, <1>3, <1>4
       DEF RelayInv, StageInv, SentInv, CommandInv, ResponseInv, AnsweredInv, AnswerInv,
       RequestArrives, AnswerArrives

LEMMA RelayStutters == RelayInv /\ UNCHANGED vars => RelayInv'
  <1> SUFFICES ASSUME RelayInv, UNCHANGED vars PROVE RelayInv'
    OBVIOUS
  <1>1. /\ MeantInv' /\ Wanted' = Wanted /\ To' = To
        /\ op' = op /\ gap' = gap /\ meant' = meant
    BY SameCall DEF RelayInv, vars
  <1>2. phase' = phase /\ path' = path /\ wire' = wire /\ handled' = handled
        /\ answer' = answer /\ got' = got
    BY DEF vars
  <1> QED
    BY <1>1, <1>2 DEF RelayInv, StageInv, SentInv, CommandInv, ResponseInv, AnsweredInv, AnswerInv,
       RequestArrives, AnswerArrives

\* The invariant holds for any messages that are of their type.
THEOREM RelayInvariant == Spec => []RelayInv
  <1>1. RelayInv /\ [Next]_vars => RelayInv'
    BY SendStep, ServeStep, ForwardStep, AgentHandlesStep, ReturnStep, ReceiveStep,
       RelayStutters DEF Next
  <1> QED
    BY <1>1, RelayInit, PTL DEF Spec

-----------------------------------------------------------------------------

\* The service handles what the caller meant, whatever the messages say and whichever
\* field the gateway is too old for (services.go 132-216, agent main.go 28-46).
THEOREM RequestsArrive == Spec => []RequestArrives
  BY RelayInvariant, PTL DEF RelayInv

\* The caller gets what the service answered, and nothing only when a script printed what
\* is not UTF-8 (agent main.go 221-258).
THEOREM AnswersArrive == Spec => []AnswerArrives
  BY RelayInvariant, PTL DEF RelayInv
=============================================================================
