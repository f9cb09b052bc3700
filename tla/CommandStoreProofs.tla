------------------------- MODULE CommandStoreProofs -------------------------
(* Proofs about CommandStore, for any number of ids, contents and clients.   *)
EXTENDS SerialStore, TLAPS

\* Types, and what the program counter says of the fields next to it.
TypeInv ==
    /\ TypeOK
    /\ \A c \in Clients :
        /\ pc[c] # "idle" => cid[c] \in Ids
        /\ pc[c] = "run" => got[c] \in Contents

\* The states of the store are maps.
LEMMA EmptyIsMap == Empty \in Maps
  BY DEF Empty, Maps

\* Taking a request keeps the types of what it sets.
LEMMA AcceptType ==
    ASSUME TypeInv, NEW c \in Clients, NEW i \in Ids, NEW v \in Contents \cup {NoSet},
           NEW o \in {"store", "update", "delete", "execute"},
           NEW next \in {"write", "snapshot", "run"},
           Accept(c, o, i, v, next)
    PROVE  /\ op' \in [Clients -> {"none", "store", "update", "delete", "execute"}]
           /\ cid' \in [Clients -> Ids \cup {NoId}]
           /\ body' \in [Clients -> Contents \cup {NoSet}]
           /\ pc' \in [Clients -> {"idle", "write", "snapshot", "create", "temp",
                                   "rename", "ack", "run"}]
           /\ pc'[c] = next
           /\ \A d \in Clients : d # c => pc'[d] = pc[d]
           /\ \A d \in Clients : pc'[d] # "idle" => cid'[d] \in Ids
  BY DEF Accept, TypeInv, TypeOK

\* A write keeps the types of the map and its history.
LEMMA PutType ==
    ASSUME TypeInv, NEW c \in Clients, NEW i \in Ids, NEW v \in Contents \cup {NoSet},
           Put(c, i, v)
    PROVE  commandSets' \in Maps /\ past' \in SUBSET Maps /\ last' \in [Ids -> Write]
<1>1. commandSets' \in Maps
  BY DEF Put, TypeInv, TypeOK, Maps
<1>2. [by |-> c, to |-> v, acked |-> FALSE] \in Write
  BY DEF Write
<1> QED
  BY <1>1, <1>2 DEF Put, TypeInv, TypeOK

\* The end of a request keeps the types of what it resets.
LEMMA ReturnType ==
    ASSUME TypeInv, NEW c \in Clients, Return(c)
    PROVE  /\ op' \in [Clients -> {"none", "store", "update", "delete", "execute"}]
           /\ cid' \in [Clients -> Ids \cup {NoId}]
           /\ body' \in [Clients -> Contents \cup {NoSet}]
           /\ pc' \in [Clients -> {"idle", "write", "snapshot", "create", "temp",
                                   "rename", "ack", "run"}]
           /\ pc'[c] = "idle"
           /\ \A d \in Clients : d # c => pc'[d] = pc[d]
           /\ \A d \in Clients : pc'[d] # "idle" => cid'[d] \in Ids
  BY DEF Return, TypeInv, TypeOK

\* The types hold at the start.
LEMMA TypeInit == Init => TypeInv
<1> SUFFICES ASSUME Init PROVE TypeInv
  OBVIOUS
<1>1. <<>> \in Seq(StepResult)
  OBVIOUS
<1>2. [by |-> NoClient, to |-> NoSet, acked |-> FALSE] \in Write
  BY DEF Write
<1> QED
  BY <1>1, <1>2, EmptyIsMap DEF Init, TypeInv, TypeOK

\* ... and each step keeps them.  The hypothesis on temp is about Rename: what
\* is renamed is all written.
LEMMA TypeStep ==
    ASSUME TypeInv, [Next]_vars,
           \A c \in Clients : pc[c] = "rename" => temp[c] \in Maps
    PROVE  TypeInv'
<1> USE DEF saveVars, runVars
<1>1. ASSUME NEW c \in Clients, NEW i \in Ids, NEW v \in Contents, StoreCommandSet(c, i, v)
      PROVE  TypeInv'
  <2>1. Accept(c, "store", i, v, "snapshot") /\ Put(c, i, v)
        /\ UNCHANGED <<up, file, saveVars, runVars>>
    BY <1>1 DEF StoreCommandSet
  <2> QED
    BY <2>1, AcceptType, PutType DEF TypeInv, TypeOK
<1>2. ASSUME NEW c \in Clients, NEW i \in Ids, NEW v \in Contents, UpdateCommandSet(c, i, v)
      PROVE  TypeInv'
  BY <1>2, AcceptType DEF UpdateCommandSet, TypeInv, TypeOK
<1>3. ASSUME NEW c \in Clients, NEW i \in Ids, DeleteCommandSet(c, i)
      PROVE  TypeInv'
  BY <1>3, AcceptType DEF DeleteCommandSet, TypeInv, TypeOK
<1>4. ASSUME NEW c \in Clients, WriteChecked(c)
      PROVE  TypeInv'
  <2>1. cid[c] \in Ids /\ body[c] \in Contents \cup {NoSet} /\ Put(c, cid[c], body[c])
    BY <1>4 DEF WriteChecked, TypeInv, TypeOK
  <2>2. commandSets' \in Maps /\ past' \in SUBSET Maps /\ last' \in [Ids -> Write]
    BY <2>1, PutType
  <2> QED
    BY <1>4, <2>2 DEF WriteChecked, TypeInv, TypeOK
<1>5. ASSUME NEW c \in Clients, Snapshot(c) \/ CreateTemp(c) \/ WriteTemp(c) \/ Rename(c)
      PROVE  TypeInv'
  <2>1. CASE Snapshot(c)
    BY <2>1 DEF Snapshot, TypeInv, TypeOK
  <2>2. CASE CreateTemp(c)
    BY <2>2 DEF CreateTemp, TypeInv, TypeOK
  <2>3. CASE WriteTemp(c)
    BY <2>3 DEF WriteTemp, TypeInv, TypeOK
  <2>4. CASE Rename(c)
    BY <2>4 DEF Rename, TypeInv, TypeOK
  <2> QED
    BY <1>5, <2>1, <2>2, <2>3, <2>4
<1>6. ASSUME NEW c \in Clients, SaveFails(c)
      PROVE  TypeInv'
  BY <1>6, ReturnType DEF SaveFails, TypeInv, TypeOK
<1>7. ASSUME NEW c \in Clients, Acknowledge(c)
      PROVE  TypeInv'
  <2>1. cid[c] \in Ids
    BY <1>7 DEF Acknowledge, TypeInv
  <2>2. last' \in [Ids -> Write]
    <3>1. last \in [Ids -> Write] /\ last[cid[c]] \in Write
      BY <2>1 DEF TypeInv, TypeOK
    <3>2. [last[cid[c]] EXCEPT !.acked = TRUE] \in Write
      BY <3>1 DEF Write
    <3>3. last' = last \/ last' = [last EXCEPT ![cid[c]] = [last[cid[c]] EXCEPT !.acked = TRUE]]
      BY <1>7 DEF Acknowledge
    <3> QED
      BY <3>1, <3>2, <3>3
  <2> QED
    BY <1>7, <2>2, ReturnType DEF Acknowledge, TypeInv, TypeOK
<1>8. ASSUME NEW c \in Clients, NEW i \in Ids, ExecuteCommandSet(c, i)
      PROVE  TypeInv'
  <2>1. commandSets[i] \in Contents /\ <<>> \in Seq(StepResult)
    BY <1>8 DEF ExecuteCommandSet, TypeInv, TypeOK, Maps
  <2> QED
    BY <1>8, <2>1, AcceptType DEF ExecuteCommandSet, TypeInv, TypeOK
<1>9. ASSUME NEW c \in Clients, ExecuteStep(c)
      PROVE  TypeInv'
  <2>1. PICK ok \in BOOLEAN :
          /\ results' = [results EXCEPT ![c] = Append(@, [of |-> got[c], success |-> ok])]
          /\ UNCHANGED <<pc, op, cid, body>> \/ Return(c)
    BY <1>9 DEF ExecuteStep
  <2>2. [of |-> got[c], success |-> ok] \in StepResult
    BY <1>9 DEF ExecuteStep, TypeInv, StepResult
  <2>3. results' \in [Clients -> Seq(StepResult)]
    BY <2>1, <2>2 DEF TypeInv, TypeOK
  <2> QED
    BY <1>9, <2>1, <2>3, ReturnType DEF ExecuteStep, TypeInv, TypeOK
<1>10. ASSUME Crash PROVE TypeInv'
  BY <1>10, EmptyIsMap DEF Crash, TypeInv, TypeOK
<1>11. ASSUME Load PROVE TypeInv'
  BY <1>11, EmptyIsMap DEF Load, TypeInv, TypeOK
<1>12. CASE UNCHANGED vars
  BY <1>12 DEF vars, TypeInv, TypeOK
<1> QED
  BY <1>1, <1>2, <1>3, <1>4, <1>5, <1>6, <1>7, <1>8, <1>9, <1>10, <1>11, <1>12
  DEF Next, Serve, Request

-----------------------------------------------------------------------------
(* FileIsSnapshot. *)

\* Everything on its way to the file was the map once.
SnapshotInv ==
    /\ TypeInv
    /\ FileIsSnapshot
    /\ {Empty, commandSets} \subseteq past
    /\ \A c \in Clients :
        /\ snapshot[c] \in past
        /\ pc[c] = "rename" => temp[c] \in past

LEMMA SnapshotInit == Init => SnapshotInv
  BY TypeInit DEF Init, SnapshotInv, FileIsSnapshot

\* Every step keeps it.
LEMMA SnapshotStep == SnapshotInv /\ [Next]_vars => SnapshotInv'
<1> SUFFICES ASSUME SnapshotInv, [Next]_vars PROVE SnapshotInv'
  OBVIOUS
<1> USE DEF saveVars, runVars
<1>1. TypeInv'
  BY TypeStep DEF SnapshotInv, TypeInv, TypeOK
<1>2. past \subseteq past'
  BY DEF Next, Serve, Request, StoreCommandSet, UpdateCommandSet, DeleteCommandSet,
     WriteChecked, Put, Snapshot, CreateTemp, WriteTemp, Rename, SaveFails,
     Acknowledge, ExecuteCommandSet, ExecuteStep, Crash, Load, vars
<1>3. ASSUME NEW c \in Clients, NEW i \in Ids, NEW v,
             Put(c, i, v), UNCHANGED <<file, saveVars>>,
             \A d \in Clients : pc'[d] = "rename" => pc[d] = "rename"
      PROVE  SnapshotInv'
  <2>1. {Empty, commandSets'} \subseteq past' /\ file' \in past'
    BY <1>2, <1>3 DEF Put, SnapshotInv, FileIsSnapshot
  <2>2. ASSUME NEW d \in Clients
        PROVE  snapshot'[d] \in past' /\ (pc'[d] = "rename" => temp'[d] \in past')
    BY <1>2, <1>3 DEF SnapshotInv
  <2> QED
    BY <1>1, <2>1, <2>2 DEF SnapshotInv, FileIsSnapshot
<1>4. ASSUME NEW c \in Clients, NEW i \in Ids, Request(c, i)
      PROVE  SnapshotInv'
  <2>1. \A d \in Clients : pc'[d] = "rename" => pc[d] = "rename"
    BY <1>4 DEF Request, StoreCommandSet, UpdateCommandSet, DeleteCommandSet,
       ExecuteCommandSet, Accept, SnapshotInv, TypeInv, TypeOK
  <2>2. CASE \E v \in Contents : StoreCommandSet(c, i, v)
    BY <1>3, <2>1, <2>2 DEF StoreCommandSet
  <2>3. CASE UNCHANGED <<file, commandSets, saveVars, past>>
    BY <1>1, <2>1, <2>3 DEF SnapshotInv, FileIsSnapshot
  <2> QED
    BY <1>4, <2>2, <2>3 DEF Request, UpdateCommandSet, DeleteCommandSet, ExecuteCommandSet
<1>8. ASSUME NEW c \in Clients, WriteChecked(c)
      PROVE  SnapshotInv'
  <2>1. \A d \in Clients : pc'[d] = "rename" => pc[d] = "rename"
    BY <1>8 DEF WriteChecked, SnapshotInv, TypeInv, TypeOK
  <2>2. cid[c] \in Ids
    BY <1>8 DEF WriteChecked, SnapshotInv, TypeInv
  <2> QED
    BY <1>3, <1>8, <2>1, <2>2 DEF WriteChecked
<1>5. ASSUME NEW c \in Clients, UNCHANGED <<commandSets, past>>,
             file' \in past,
             \A d \in Clients :
                /\ snapshot'[d] \in past
                /\ pc'[d] = "rename" => temp'[d] \in past
      PROVE  SnapshotInv'
  BY <1>1, <1>5 DEF SnapshotInv, FileIsSnapshot
<1>6. ASSUME NEW c \in Clients,
             \/ Snapshot(c) \/ CreateTemp(c) \/ WriteTemp(c) \/ Rename(c)
             \/ SaveFails(c) \/ Acknowledge(c) \/ ExecuteStep(c)
      PROVE  SnapshotInv'
  <2>1. CASE Snapshot(c)
    BY <1>5, <2>1 DEF Snapshot, SnapshotInv, FileIsSnapshot, TypeInv, TypeOK
  <2>2. CASE CreateTemp(c)
    BY <1>5, <2>2 DEF CreateTemp, SnapshotInv, FileIsSnapshot, TypeInv, TypeOK
  <2>3. CASE WriteTemp(c)
    BY <1>5, <2>3 DEF WriteTemp, SnapshotInv, FileIsSnapshot, TypeInv, TypeOK
  <2>4. CASE Rename(c)
    BY <1>5, <2>4 DEF Rename, SnapshotInv, FileIsSnapshot, TypeInv, TypeOK
  <2>5. CASE SaveFails(c)
    BY <1>5, <2>5 DEF SaveFails, Return, SnapshotInv, FileIsSnapshot, TypeInv, TypeOK
  <2>6. CASE Acknowledge(c)
    BY <1>5, <2>6 DEF Acknowledge, Return, SnapshotInv, FileIsSnapshot, TypeInv, TypeOK
  <2>7. CASE ExecuteStep(c)
    <3>1. UNCHANGED pc \/ Return(c)
      BY <2>7 DEF ExecuteStep
    <3>2. \A d \in Clients : pc'[d] = "rename" => pc[d] = "rename"
      BY <3>1 DEF Return, SnapshotInv, TypeInv, TypeOK
    <3> QED
      BY <1>5, <2>7, <3>2 DEF ExecuteStep, SnapshotInv, FileIsSnapshot
  <2> QED
    BY <1>6, <2>1, <2>2, <2>3, <2>4, <2>5, <2>6, <2>7
<1>7. ASSUME Crash \/ Load \/ UNCHANGED vars
      PROVE  SnapshotInv'
  BY <1>1, <1>2, <1>7 DEF Crash, Load, vars, SnapshotInv, FileIsSnapshot, TypeInv, TypeOK
<1> QED
  BY <1>4, <1>6, <1>7, <1>8 DEF Next, Serve

LEMMA SnapshotInvariant == Spec => []SnapshotInv
  BY SnapshotInit, SnapshotStep, PTL DEF Spec

\* The state of the store keeps its types; the file never becomes a torn one.
THEOREM StoreTypeCorrect == Spec => []TypeOK
<1>1. SnapshotInv => TypeOK
  BY DEF SnapshotInv, TypeInv
<1> QED
  BY <1>1, SnapshotInvariant, PTL

\* Whatever runs at the same time, fails or crashes, the file is the whole map
\* as it was at some moment.
THEOREM SavesAreAtomic == Spec => []FileIsSnapshot
<1>1. SnapshotInv => FileIsSnapshot
  BY DEF SnapshotInv
<1> QED
  BY <1>1, SnapshotInvariant, PTL

-----------------------------------------------------------------------------
(* ExecutesOneVersion. *)

\* What has been run is of the version looked up, and went well so far.
RunInv ==
    \A c \in Clients : \A k \in 1..Len(results[c]) :
        /\ results[c][k].of = got[c]
        /\ k < Len(results[c]) \/ pc[c] = "run" => results[c][k].success

\* The invariant is inductive.
LEMMA RunInvariant == Spec => []RunInv
<1>1. Init => RunInv
  BY DEF Init, RunInv
<1>2. TypeInv /\ RunInv /\ [Next]_vars => RunInv'
  <2> SUFFICES ASSUME TypeInv, RunInv, [Next]_vars PROVE RunInv'
    OBVIOUS
  <2> USE DEF saveVars, runVars
  <2>1. ASSUME UNCHANGED runVars,
               \A d \in Clients : pc'[d] = "run" => pc[d] = "run"
        PROVE  RunInv'
    BY <2>1 DEF RunInv
  <2>2. ASSUME NEW c \in Clients, NEW i \in Ids, Request(c, i), ~ExecuteCommandSet(c, i)
        PROVE  RunInv'
    <3>1. UNCHANGED runVars /\ \A d \in Clients : pc'[d] = "run" => pc[d] = "run"
      BY <2>2 DEF Request, StoreCommandSet, UpdateCommandSet, DeleteCommandSet, Accept,
         TypeInv, TypeOK
    <3> QED
      BY <2>1, <3>1
  <2>3. ASSUME NEW c \in Clients, NEW i \in Ids, ExecuteCommandSet(c, i)
        PROVE  RunInv'
    <3>1. /\ results'[c] = <<>>
          /\ \A d \in Clients : d # c =>
                results'[d] = results[d] /\ got'[d] = got[d] /\ pc'[d] = pc[d]
      BY <2>3 DEF ExecuteCommandSet, Accept, TypeInv, TypeOK
    <3> QED
      BY <3>1 DEF RunInv
  <2>4. ASSUME NEW c \in Clients, ExecuteStep(c)
        PROVE  RunInv'
    <3>1. PICK ok \in BOOLEAN :
            /\ results' = [results EXCEPT ![c] = Append(@, [of |-> got[c], success |-> ok])]
            /\ (ok /\ UNCHANGED pc) \/ Return(c)
      BY <2>4 DEF ExecuteStep
    <3>2. /\ results[c] \in Seq(StepResult) /\ pc[c] = "run" /\ got' = got
          /\ results'[c] = Append(results[c], [of |-> got[c], success |-> ok])
          /\ \A d \in Clients : d # c => results'[d] = results[d] /\ pc'[d] = pc[d]
          /\ pc'[c] = "run" => ok
      BY <2>4, <3>1 DEF ExecuteStep, Return, TypeInv, TypeOK
    <3>3. ASSUME NEW k \in 1..Len(results'[c])
          PROVE  /\ results'[c][k].of = got[c]
                 /\ k < Len(results'[c]) => results'[c][k].success
                 /\ k = Len(results'[c]) => results'[c][k].success = ok
      <4>1. CASE k \in 1..Len(results[c])
        BY <3>2, <4>1 DEF RunInv
      <4>2. CASE k = Len(results[c]) + 1
        BY <3>2, <4>2
      <4> QED
        BY <3>2, <4>1, <4>2
    <3>4. \A k \in 1..Len(results'[c]) : k < Len(results'[c]) \/ k = Len(results'[c])
      BY <3>2
    <3>5. ASSUME NEW d \in Clients, NEW k \in 1..Len(results'[d])
          PROVE  /\ results'[d][k].of = got'[d]
                 /\ k < Len(results'[d]) \/ pc'[d] = "run" => results'[d][k].success
      <4>1. CASE d = c
        BY <3>2, <3>3, <3>4, <4>1
      <4>2. CASE d # c
        BY <3>2, <4>2 DEF RunInv
      <4> QED
        BY <4>1, <4>2
    <3> QED
      BY <3>5 DEF RunInv
  <2>5. ASSUME NEW c \in Clients,
               \/ WriteChecked(c) \/ Snapshot(c) \/ CreateTemp(c) \/ WriteTemp(c)
               \/ Rename(c) \/ SaveFails(c) \/ Acknowledge(c)
        PROVE  RunInv'
    <3>1. UNCHANGED runVars /\ \A d \in Clients : pc'[d] = "run" => pc[d] = "run"
      BY <2>5 DEF WriteChecked, Snapshot, CreateTemp, WriteTemp, Rename, SaveFails,
         Acknowledge, Return, TypeInv, TypeOK
    <3> QED
      BY <2>1, <3>1
  <2>6. ASSUME Crash \/ Load \/ UNCHANGED vars
        PROVE  RunInv'
    <3>1. UNCHANGED runVars /\ \A d \in Clients : pc'[d] = "run" => pc[d] = "run"
      BY <2>6 DEF Crash, Load, vars
    <3> QED
      BY <2>1, <3>1
  <2> QED
    BY <2>2, <2>3, <2>4, <2>5, <2>6 DEF Next, Serve
<1>3. SnapshotInv => TypeInv
  BY DEF SnapshotInv
<1> QED
  BY <1>1, <1>2, <1>3, SnapshotInvariant, PTL DEF Spec

\* An execution runs one version of its set, however the set is updated or
\* deleted by others meanwhile, and no script after one that failed.
THEOREM ExecutionsAreOfOneVersion == Spec => []ExecutesOneVersion
<1>1. RunInv => ExecutesOneVersion
  BY DEF RunInv, ExecutesOneVersion
<1> QED
  BY <1>1, RunInvariant, PTL

-----------------------------------------------------------------------------
(* AckedIsDurable, as long as one write runs at a time and the file can be    *)
(* read at a start.                                                           *)

\* What a request in progress says of the map, the copy and the file.
DurableInv ==
    /\ AckedIsDurable
    /\ ~up => \A c \in Clients : pc[c] = "idle"
    /\ \A c \in Clients :
        /\ pc[c] \in {"create", "temp", "rename"} => snapshot[c] = commandSets
        /\ pc[c] = "rename" => temp[c] = commandSets
        /\ pc[c] = "ack" => file = commandSets
        /\ pc[c] \in {"snapshot", "create", "temp", "rename", "ack"} =>
            last[cid[c]].to = commandSets[cid[c]]

LEMMA DurableInit == Init => DurableInv
  BY DEF Init, DurableInv, AckedIsDurable

\* A step that leaves at most one write in progress keeps it.
LEMMA DurableStep ==
    ASSUME TypeInv, DurableInv, [Next]_vars, OneWriter, OneWriter', LoadReadsFile
    PROVE  DurableInv'
<1> USE DEF saveVars, runVars
<1>1. ASSUME NEW c \in Clients, NEW i \in Ids, NEW v,
             Put(c, i, v), UNCHANGED <<up, file>>, up,
             cid'[c] = i, pc'[c] = "snapshot",
             \A d \in Clients : d # c => pc'[d] = pc[d]
      PROVE  DurableInv'
  <2>1. /\ last'[i].acked = FALSE /\ last'[i].to = v /\ commandSets'[i] = v
        /\ \A j \in Ids : j # i => last'[j] = last[j] /\ commandSets'[j] = commandSets[j]
    BY <1>1 DEF Put, TypeInv, TypeOK, Maps
  <2>2. AckedIsDurable'
    BY <1>1, <2>1 DEF DurableInv, AckedIsDurable
  <2>3. \A d \in Clients : d # c => d \notin Writing'
    BY <1>1 DEF OneWriter, Writing
  <2> QED
    BY <1>1, <2>1, <2>2, <2>3 DEF DurableInv, Writing
<1>2. ASSUME NEW c \in Clients, NEW i \in Ids, NEW v \in Contents, StoreCommandSet(c, i, v)
      PROVE  DurableInv'
  BY <1>1, <1>2 DEF StoreCommandSet, Accept, TypeInv, TypeOK
<1>3. ASSUME NEW c \in Clients, WriteChecked(c)
      PROVE  DurableInv'
  <2>1. /\ cid[c] \in Ids /\ up /\ cid'[c] = cid[c] /\ pc'[c] = "snapshot"
        /\ \A d \in Clients : d # c => pc'[d] = pc[d]
    BY <1>3 DEF WriteChecked, TypeInv, TypeOK, DurableInv
  <2> QED
    BY <1>1, <1>3, <2>1 DEF WriteChecked
<1>4. ASSUME NEW c \in Clients, UNCHANGED <<up, commandSets, file, last, snapshot>>,
             up, pc'[c] \in {"idle", "write", "run"},
             \A d \in Clients : d # c => pc'[d] = pc[d] /\ cid'[d] = cid[d] /\ temp'[d] = temp[d]
      PROVE  DurableInv'
  BY <1>4 DEF DurableInv, AckedIsDurable
<1>5. ASSUME NEW c \in Clients, NEW i \in Ids,
             \/ \E v \in Contents : UpdateCommandSet(c, i, v)
             \/ DeleteCommandSet(c, i) \/ ExecuteCommandSet(c, i)
      PROVE  DurableInv'
  <2>1. /\ up /\ pc'[c] \in {"write", "run"}
        /\ \A d \in Clients : d # c => pc'[d] = pc[d] /\ cid'[d] = cid[d]
        /\ UNCHANGED <<up, commandSets, file, last, snapshot, temp>>
    BY <1>5 DEF UpdateCommandSet, DeleteCommandSet, ExecuteCommandSet, Accept, TypeInv, TypeOK
  <2> QED
    BY <1>4, <2>1
<1>6. ASSUME NEW c \in Clients, Snapshot(c) \/ CreateTemp(c) \/ WriteTemp(c)
      PROVE  DurableInv'
  BY <1>6 DEF Snapshot, CreateTemp, WriteTemp, DurableInv, AckedIsDurable, TypeInv, TypeOK
<1>7. ASSUME NEW c \in Clients, Rename(c)
      PROVE  DurableInv'
  <2>1. /\ up /\ UNCHANGED <<up, commandSets, last, cid, snapshot>> /\ file' = commandSets
        /\ pc'[c] = "ack" /\ last[cid[c]].to = commandSets[cid[c]]
        /\ \A d \in Clients : d # c => pc'[d] = pc[d] /\ temp'[d] = temp[d]
    BY <1>7 DEF Rename, DurableInv, TypeInv, TypeOK
  <2> QED
    BY <2>1 DEF DurableInv, AckedIsDurable
<1>8. ASSUME NEW c \in Clients, SaveFails(c) \/ ExecuteStep(c)
      PROVE  DurableInv'
  <2>1. /\ up /\ pc'[c] \in {"idle", "run"}
        /\ UNCHANGED <<up, commandSets, file, last, snapshot>>
        /\ \A d \in Clients : d # c => pc'[d] = pc[d] /\ cid'[d] = cid[d] /\ temp'[d] = temp[d]
    <3>1. CASE SaveFails(c)
      BY <3>1 DEF SaveFails, Return, DurableInv, TypeInv, TypeOK
    <3>2. CASE ExecuteStep(c)
      <4>1. pc[c] = "run" /\ UNCHANGED <<up, commandSets, file, last, saveVars>>
            /\ (UNCHANGED <<pc, op, cid, body>> \/ Return(c))
        BY <3>2 DEF ExecuteStep
      <4> QED
        BY <4>1 DEF Return, DurableInv, TypeInv, TypeOK
    <3> QED
      BY <1>8, <3>1, <3>2
  <2> QED
    BY <1>4, <2>1
<1>9. ASSUME NEW c \in Clients, Acknowledge(c)
      PROVE  DurableInv'
  <2>1. /\ up /\ file = commandSets /\ UNCHANGED <<up, commandSets, file, snapshot, temp>>
        /\ pc'[c] = "idle" /\ cid[c] \in Ids /\ last[cid[c]].to = commandSets[cid[c]]
        /\ \A d \in Clients : d # c => pc'[d] = pc[d] /\ cid'[d] = cid[d]
    BY <1>9 DEF Acknowledge, Return, DurableInv, TypeInv, TypeOK
  <2>2. \A j \in Ids : last'[j].to = last[j].to /\ (j # cid[c] => last'[j] = last[j])
    BY <1>9 DEF Acknowledge, TypeInv, TypeOK, Write
  <2>3. AckedIsDurable'
    BY <2>1, <2>2 DEF DurableInv, AckedIsDurable
  <2>4. \A d \in Clients : d # c => d \notin Writing
    BY <1>9 DEF Acknowledge, OneWriter, Writing
  <2> QED
    BY <2>1, <2>3, <2>4 DEF DurableInv, Writing
<1>10. ASSUME Crash
       PROVE  DurableInv'
  BY <1>10 DEF Crash, DurableInv, AckedIsDurable
<1>11. ASSUME Load
       PROVE  DurableInv'
  BY <1>11 DEF Load, LoadReadsFile, DurableInv, AckedIsDurable
<1>12. CASE UNCHANGED vars
  BY <1>12 DEF vars, DurableInv, AckedIsDurable
<1> QED
  BY <1>2, <1>3, <1>5, <1>6, <1>7, <1>8, <1>9, <1>10, <1>11, <1>12 DEF Next, Serve, Request

\* Who makes the write in progress, and which it is.
PendingInv ==
    \A c \in Writing :
        /\ cid[c] \in Ids
        /\ last[cid[c]].by = c
        /\ commandSets[cid[c]] = body[c]

LEMMA PendingStep ==
    ASSUME TypeInv, DurableInv, PendingInv, [Next]_vars, OneWriter, OneWriter'
    PROVE  PendingInv'
<1> USE DEF saveVars, runVars
<1>1. ASSUME NEW c \in Clients, cid'[c] \in Ids, Put(c, cid'[c], body'[c]), pc'[c] = "snapshot"
      PROVE  PendingInv'
  <2>1. last'[cid'[c]].by = c /\ commandSets'[cid'[c]] = body'[c]
    BY <1>1 DEF Put, TypeInv, TypeOK, Maps
  <2>2. \A d \in Clients : d # c => d \notin Writing'
    BY <1>1 DEF OneWriter, Writing
  <2> QED
    BY <1>1, <2>1, <2>2 DEF PendingInv, Writing
<1>2. ASSUME NEW c \in Clients, NEW i \in Ids, NEW v \in Contents, StoreCommandSet(c, i, v)
      PROVE  PendingInv'
  BY <1>1, <1>2 DEF StoreCommandSet, Accept, TypeInv, TypeOK
<1>3. ASSUME NEW c \in Clients, WriteChecked(c)
      PROVE  PendingInv'
  BY <1>1, <1>3 DEF WriteChecked, TypeInv, TypeOK
<1>4. ASSUME NEW c \in Clients, UNCHANGED <<commandSets, last>>,
             pc'[c] \notin {"idle", "write", "run"} => c \in Writing /\ cid'[c] = cid[c] /\ body'[c] = body[c],
             \A d \in Clients : d # c => pc'[d] = pc[d] /\ cid'[d] = cid[d] /\ body'[d] = body[d]
      PROVE  PendingInv'
  BY <1>4 DEF PendingInv, Writing
<1>5. ASSUME NEW c \in Clients, NEW i \in Ids,
             \/ \E v \in Contents : UpdateCommandSet(c, i, v)
             \/ DeleteCommandSet(c, i) \/ ExecuteCommandSet(c, i)
      PROVE  PendingInv'
  <2>1. /\ pc'[c] \in {"write", "run"} /\ UNCHANGED <<commandSets, last>>
        /\ \A d \in Clients : d # c => pc'[d] = pc[d] /\ cid'[d] = cid[d] /\ body'[d] = body[d]
    BY <1>5 DEF UpdateCommandSet, DeleteCommandSet, ExecuteCommandSet, Accept, TypeInv, TypeOK
  <2> QED
    BY <1>4, <2>1
<1>6. ASSUME NEW c \in Clients, Snapshot(c) \/ CreateTemp(c) \/ WriteTemp(c) \/ Rename(c)
      PROVE  PendingInv'
  <2>1. /\ c \in Writing /\ UNCHANGED <<commandSets, last, cid, body>>
        /\ \A d \in Clients : d # c => pc'[d] = pc[d]
    BY <1>6 DEF Snapshot, CreateTemp, WriteTemp, Rename, Writing, TypeInv, TypeOK
  <2> QED
    BY <1>4, <2>1
<1>7. ASSUME NEW c \in Clients, SaveFails(c) \/ ExecuteStep(c)
      PROVE  PendingInv'
  <2>1. /\ pc'[c] \in {"idle", "run"} /\ UNCHANGED <<commandSets, last>>
        /\ \A d \in Clients : d # c => pc'[d] = pc[d] /\ cid'[d] = cid[d] /\ body'[d] = body[d]
    <3>1. CASE SaveFails(c)
      BY <3>1 DEF SaveFails, Return, TypeInv, TypeOK
    <3>2. CASE ExecuteStep(c)
      <4>1. pc[c] = "run" /\ UNCHANGED <<commandSets, last>>
            /\ (UNCHANGED <<pc, op, cid, body>> \/ Return(c))
        BY <3>2 DEF ExecuteStep
      <4> QED
        BY <4>1 DEF Return, TypeInv, TypeOK
    <3> QED
      BY <1>7, <3>1, <3>2
  <2> QED
    BY <1>4, <2>1
<1>8. ASSUME NEW c \in Clients, Acknowledge(c)
      PROVE  PendingInv'
  <2>1. Writing' = {}
    BY <1>8 DEF Acknowledge, Return, OneWriter, Writing, TypeInv, TypeOK
  <2> QED
    BY <2>1 DEF PendingInv
<1>9. ASSUME Crash \/ Load
      PROVE  PendingInv'
  <2>1. Writing' = {}
    BY <1>9 DEF Crash, Load, DurableInv, Writing
  <2> QED
    BY <2>1 DEF PendingInv
<1>10. CASE UNCHANGED vars
  BY <1>10 DEF vars, PendingInv, Writing
<1> QED
  BY <1>2, <1>3, <1>5, <1>6, <1>7, <1>8, <1>9, <1>10 DEF Next, Serve, Request

\* What holds as long as saves run one at a time.
SerialInv == SnapshotInv /\ (serial => DurableInv /\ PendingInv /\ OneWriter)

LEMMA SerialInvInit == SerialInit => SerialInv
<1> SUFFICES ASSUME SerialInit PROVE SerialInv
  OBVIOUS
<1>1. SnapshotInv /\ DurableInv
  BY SnapshotInit, DurableInit DEF SerialInit
<1>2. OneWriter /\ PendingInv
  BY DEF SerialInit, Init, OneWriter, PendingInv, Writing
<1> QED
  BY <1>1, <1>2 DEF SerialInv

LEMMA SerialInvStep == SerialInv /\ [SerialNext]_<<vars, serial>> => SerialInv'
<1> SUFFICES ASSUME SerialInv, [SerialNext]_<<vars, serial>> PROVE SerialInv'
  OBVIOUS
<1>1. SnapshotInv' /\ [Next]_vars
  BY SnapshotStep DEF SerialInv, SerialNext
<1>2. CASE SerialNext
  <2> SUFFICES ASSUME serial' PROVE DurableInv' /\ PendingInv' /\ OneWriter'
    BY <1>1 DEF SerialInv
  <2>1. serial /\ OneWriter' /\ LoadReadsFile
    BY <1>2, Zenon DEF SerialNext
  <2> QED
    BY <1>1, <2>1, DurableStep, PendingStep DEF SerialInv, SnapshotInv
<1>3. CASE UNCHANGED <<vars, serial>>
  <2>1. (serial' <=> serial) /\ (OneWriter' <=> OneWriter)
    BY <1>3 DEF vars, OneWriter, Writing
  <2>2. (DurableInv => DurableInv') /\ (PendingInv => PendingInv')
    BY <1>3 DEF vars, DurableInv, AckedIsDurable, PendingInv, Writing
  <2> QED
    BY <1>1, <2>1, <2>2 DEF SerialInv
<1> QED
  BY <1>2, <1>3

\* Overlapping saves and unreadable files are all that takes an acknowledged write out of
\* the file, for any number of clients, ids and contents: not a save that fails, not a
\* write that was checked before another's, not a crash (storage.go 56-112).
THEOREM SerialIsDurable == SerialSpec => []SerialSavesAreDurable
<1>1. SerialInv => SerialSavesAreDurable
  BY DEF SerialInv, SerialSavesAreDurable, DurableInv
<1> QED
  BY <1>1, SerialInvInit, SerialInvStep, PTL DEF SerialSpec

-----------------------------------------------------------------------------
(* The abstract map. *)

\* What awaits its answer when one client writes, and when none does.
LEMMA OnePending ==
    ASSUME NEW c \in Writing, OneWriter, PendingInv, TypeInv
    PROVE  /\ PendingWrite = [id |-> cid[c], to |-> body[c]]
           /\ PendingWrite # NoWrite
<1>1. Writing = {c}
  BY DEF OneWriter
<1>2. PendingWrite = [id |-> cid[c], to |-> body[c]]
  BY <1>1 DEF PendingWrite
<1>3. cid[c] \in Ids /\ body[c] \in Contents \cup {NoSet}
  BY DEF PendingInv, Writing, TypeInv, TypeOK
<1> QED
  BY <1>2, <1>3, NoWriteAssumption

\* A step that leaves what is written and what is pending as they are is none of the map.
LEMMA StutterOfMap ==
    ASSUME UNCHANGED <<up, commandSets, file, last>>, Writing' = Writing,
           \A c \in Writing : cid'[c] = cid[c] /\ body'[c] = body[c]
    PROVE  UNCHANGED Durable!vars
<1>1. PendingWrite' = PendingWrite
  <2>1. CASE Writing = {}
    BY <2>1 DEF PendingWrite
  <2>2. CASE Writing # {}
    <3>1. (CHOOSE c \in Writing : TRUE) \in Writing
      BY <2>2
    <3> QED
      BY <2>2, <3>1 DEF PendingWrite
  <2> QED
    BY <2>1, <2>2
<1> QED
  BY <1>1 DEF Durable!vars

\* Each step that leaves at most one write in progress is one of the map, or none.
LEMMA MapStep ==
    ASSUME TypeInv, TypeInv', DurableInv, PendingInv, PendingInv', [Next]_vars,
           OneWriter, OneWriter', LoadReadsFile
    PROVE  Durable!Next \/ UNCHANGED Durable!vars
<1> USE DEF saveVars, runVars
<1> DEFINE Safe == {i \in Ids : last[i].acked}
<1>1. ASSUME NEW c \in Clients, Put(c, cid'[c], body'[c]), UNCHANGED <<up, file>>, up,
             c \notin Writing, pc'[c] = "snapshot",
             \A d \in Clients : d # c => pc'[d] = pc[d]
      PROVE  Durable!Next
  <2>1. c \in Writing' /\ Writing = {}
    BY <1>1 DEF OneWriter, Writing
  <2>2. cid'[c] \in Ids /\ body'[c] \in Contents \cup {NoSet}
    BY <2>1 DEF PendingInv, TypeInv, TypeOK
  <2>3. PendingWrite = NoWrite
    BY <2>1 DEF PendingWrite
  <2>4. PendingWrite' = [id |-> cid'[c], to |-> body'[c]]
    <3>1. Writing' = {c}
      BY <2>1 DEF OneWriter
    <3> QED
      BY <3>1 DEF PendingWrite
  <2>5. Safe' = Safe \ {cid'[c]}
    BY <1>1, <2>2 DEF Put, TypeInv, TypeOK, Write
  <2>6. PICK i \in Ids, v \in Contents \cup {NoSet} : i = cid'[c] /\ v = body'[c]
    BY <2>2
  <2>7. Durable!Write(i, v)
    BY <1>1, <2>3, <2>4, <2>5, <2>6 DEF Put, Durable!Write
  <2> QED
    BY <2>7 DEF Durable!Next
<1>2. ASSUME NEW c \in Clients, NEW i \in Ids, NEW v \in Contents, StoreCommandSet(c, i, v)
      PROVE  Durable!Next
  BY <1>1, <1>2 DEF StoreCommandSet, Accept, TypeInv, TypeOK, Writing
<1>3. ASSUME NEW c \in Clients, WriteChecked(c)
      PROVE  Durable!Next
  BY <1>1, <1>3 DEF WriteChecked, DurableInv, TypeInv, TypeOK, Writing
<1>4. ASSUME NEW c \in Clients, NEW i \in Ids,
             \/ \E v \in Contents : UpdateCommandSet(c, i, v)
             \/ DeleteCommandSet(c, i) \/ ExecuteCommandSet(c, i)
      PROVE  UNCHANGED Durable!vars
  <2>1. /\ pc[c] = "idle" /\ pc'[c] \in {"write", "run"}
        /\ UNCHANGED <<up, commandSets, file, last>>
        /\ \A d \in Clients : d # c => pc'[d] = pc[d] /\ cid'[d] = cid[d] /\ body'[d] = body[d]
    BY <1>4 DEF UpdateCommandSet, DeleteCommandSet, ExecuteCommandSet, Accept, TypeInv, TypeOK
  <2>2. Writing' = Writing /\ c \notin Writing /\ \A d \in Writing : d \in Clients
    BY <2>1 DEF Writing
  <2> QED
    BY <2>1, <2>2, StutterOfMap
<1>5. ASSUME NEW c \in Clients, Snapshot(c) \/ CreateTemp(c) \/ WriteTemp(c)
      PROVE  UNCHANGED Durable!vars
  <2>1. /\ UNCHANGED <<up, commandSets, file, last, cid, body>> /\ Writing' = Writing
    BY <1>5 DEF Snapshot, CreateTemp, WriteTemp, Writing, TypeInv, TypeOK
  <2> QED
    BY <2>1, StutterOfMap
<1>6. ASSUME NEW c \in Clients, ExecuteStep(c)
      PROVE  UNCHANGED Durable!vars
  <2>1. /\ pc[c] = "run" /\ pc'[c] \in {"idle", "run"}
        /\ UNCHANGED <<up, commandSets, file, last>>
        /\ \A d \in Clients : d # c => pc'[d] = pc[d] /\ cid'[d] = cid[d] /\ body'[d] = body[d]
    <3>1. pc[c] = "run" /\ UNCHANGED <<up, commandSets, file, last>>
          /\ (UNCHANGED <<pc, op, cid, body>> \/ Return(c))
      BY <1>6 DEF ExecuteStep
    <3> QED
      BY <3>1 DEF Return, TypeInv, TypeOK
  <2>2. Writing' = Writing /\ c \notin Writing /\ \A d \in Writing : d \in Clients
    BY <2>1 DEF Writing
  <2> QED
    BY <2>1, <2>2, StutterOfMap
<1>7. ASSUME NEW c \in Clients, Rename(c)
      PROVE  Durable!Next
  <2>1. /\ c \in Writing /\ up /\ file' = commandSets
        /\ UNCHANGED <<up, commandSets, last, cid, body>> /\ Writing' = Writing
    BY <1>7 DEF Rename, DurableInv, Writing, TypeInv, TypeOK
  <2>2. PendingWrite' = PendingWrite /\ PendingWrite # NoWrite
    BY <2>1, OnePending DEF PendingWrite
  <2>3. Durable!Persist
    BY <2>1, <2>2 DEF Durable!Persist
  <2> QED
    BY <2>3 DEF Durable!Next
<1>8. ASSUME NEW c \in Clients, c \in Writing, Return(c)
      PROVE  PendingWrite' = NoWrite
  <2>1. Writing' = {}
    BY <1>8 DEF Return, OneWriter, Writing, TypeInv, TypeOK
  <2> QED
    BY <2>1 DEF PendingWrite
<1>9. ASSUME NEW c \in Clients, SaveFails(c)
      PROVE  Durable!Next
  <2>1. c \in Writing /\ Return(c) /\ UNCHANGED <<up, commandSets, file, last>>
    BY <1>9 DEF SaveFails, Writing
  <2>2. PendingWrite' = NoWrite /\ PendingWrite # NoWrite
    BY <1>8, <2>1, OnePending
  <2>3. Durable!Failed
    BY <2>1, <2>2 DEF Durable!Failed
  <2> QED
    BY <2>3 DEF Durable!Next
<1>10. ASSUME NEW c \in Clients, Acknowledge(c)
       PROVE  Durable!Next
  <2>1. /\ c \in Writing /\ Return(c) /\ UNCHANGED <<up, commandSets, file>>
        /\ file = commandSets
    BY <1>10 DEF Acknowledge, DurableInv, Writing
  <2>2. PendingWrite' = NoWrite /\ PendingWrite # NoWrite
        /\ PendingWrite = [id |-> cid[c], to |-> body[c]]
    BY <1>8, <2>1, OnePending
  <2>3. cid[c] \in Ids /\ last[cid[c]].by = c /\ commandSets[cid[c]] = body[c]
    BY <2>1 DEF PendingInv
  <2>4. last' = [last EXCEPT ![cid[c]].acked = TRUE]
    BY <1>10, <2>3 DEF Acknowledge
  <2>5. Safe' = Safe \cup {cid[c]}
    BY <2>3, <2>4 DEF TypeInv, TypeOK, Write
  <2>6. PendingWrite.id = cid[c] /\ PendingWrite.to = body[c]
    BY <2>2
  <2>7. Durable!Saved
    BY <2>1, <2>2, <2>3, <2>5, <2>6 DEF Durable!Saved
  <2> QED
    BY <2>7 DEF Durable!Next
<1>11. ASSUME Crash
       PROVE  Durable!Next
  <2>1. Writing' = {}
    BY <1>11 DEF Crash, Writing
  <2>2. PendingWrite' = NoWrite
    BY <2>1 DEF PendingWrite
  <2>3. Durable!Crash
    BY <1>11, <2>2 DEF Crash, Durable!Crash, Empty, Durable!Empty
  <2> QED
    BY <2>3 DEF Durable!Next
<1>12. ASSUME Load
       PROVE  Durable!Next
  <2>1. Writing = {} /\ Writing' = {}
    BY <1>12 DEF Load, DurableInv, Writing
  <2>2. PendingWrite' = PendingWrite
    BY <2>1 DEF PendingWrite
  <2>3. Durable!Recover
    BY <1>12, <2>2 DEF Load, LoadReadsFile, Durable!Recover
  <2> QED
    BY <2>3 DEF Durable!Next
<1>13. CASE UNCHANGED vars
  <2>1. UNCHANGED <<up, commandSets, file, last, cid, body>> /\ Writing' = Writing
    BY <1>13 DEF vars, Writing
  <2> QED
    BY <2>1, StutterOfMap
<1> QED
  BY <1>2, <1>3, <1>4, <1>5, <1>6, <1>7, <1>9, <1>10, <1>11, <1>12, <1>13 DEF Next, Serve, Request

LEMMA MapInit == SerialInit => Durable!Init
<1> SUFFICES ASSUME SerialInit PROVE Durable!Init
  OBVIOUS
<1>1. Writing = {}
  BY DEF SerialInit, Init, Writing
<1>2. {i \in Ids : last[i].acked} = {}
  BY DEF SerialInit, Init
<1> QED
  BY <1>1, <1>2 DEF SerialInit, Init, Empty, Durable!Init, Durable!Empty, PendingWrite

\* The steps of saves, handlers, crashes and restarts implement the abstract map for as long
\* as saves run one at a time (storage.go 56-112, server.go 39-118).
THEOREM ImplementsMap == SerialSpec => StoreIsDurableMap
<1> DEFINE MapNext == serial' => Durable!Next \/ UNCHANGED Durable!vars
<1>1. SerialInv /\ SerialInv' /\ [SerialNext]_<<vars, serial>> => [MapNext]_<<vars, serial>>
  <2> SUFFICES ASSUME SerialInv, SerialInv', SerialNext, serial'
               PROVE  Durable!Next \/ UNCHANGED Durable!vars
    OBVIOUS
  <2>1. serial /\ OneWriter' /\ LoadReadsFile /\ Next
    BY Zenon DEF SerialNext
  <2> QED
    BY <2>1, MapStep DEF SerialInv, SnapshotInv
<1> QED
  BY <1>1, MapInit, SerialInvInit, SerialInvStep, PTL DEF SerialSpec, StoreIsDurableMap

\* A store whose saves always run one at a time is the abstract map.
THEOREM SerialIsMap == SerialSpec /\ []serial => Durable!Spec
<1> DEFINE MapNext == serial' => Durable!Next \/ UNCHANGED Durable!vars
<1>1. serial' /\ [MapNext]_<<vars, serial>> => [Durable!Next]_(Durable!vars)
  <2>1. UNCHANGED <<vars, serial>> => UNCHANGED Durable!vars
    BY StutterOfMap DEF vars, Writing
  <2> QED
    BY <2>1
<1> QED
  BY <1>1, ImplementsMap, PTL DEF StoreIsDurableMap, Durable!Spec

\* What the abstract map promises: a saved write is in memory and in the copy, and only
\* another write to its id takes it out of the copy.
THEOREM MapIsDurable ==
    Durable!Spec => []Durable!SafeIsSaved /\ [][Durable!SafeIsKept]_(Durable!vars)
<1> DEFINE MapInv == Durable!TypeOK /\ Durable!SafeIsSaved
<1> USE DEF Durable!TypeOK, Durable!SafeIsSaved, Durable!SafeIsKept
<1>1. Durable!Init => MapInv
  BY DEF Durable!Init, Durable!Empty
<1>2. MapInv /\ [Durable!Next]_(Durable!vars) => MapInv' /\ [Durable!SafeIsKept]_(Durable!vars)
  <2> SUFFICES ASSUME MapInv, [Durable!Next]_(Durable!vars)
               PROVE  MapInv' /\ Durable!SafeIsKept
    OBVIOUS
  <2>1. ASSUME NEW i \in Ids, NEW v \in Contents \cup {NoSet}, Durable!Write(i, v)
        PROVE  MapInv' /\ Durable!SafeIsKept
    BY <2>1 DEF Durable!Write
  <2>2. CASE Durable!Persist
    BY <2>2 DEF Durable!Persist
  <2>3. CASE Durable!Saved
    BY <2>3 DEF Durable!Saved
  <2>4. CASE Durable!Failed
    BY <2>4 DEF Durable!Failed
  <2>5. CASE Durable!Crash
    BY <2>5 DEF Durable!Crash, Durable!Empty
  <2>6. CASE Durable!Recover
    BY <2>6 DEF Durable!Recover
  <2>7. CASE UNCHANGED Durable!vars
    BY <2>7 DEF Durable!vars
  <2> QED
    BY <2>1, <2>2, <2>3, <2>4, <2>5, <2>6, <2>7 DEF Durable!Next
<1> QED
  BY <1>1, <1>2, PTL DEF Durable!Spec

\* An agent that serves one request at a time, and whose file can be read.
Alone == (\A c, d \in Clients : c = d) /\ ~LoadMayFail

\* On the stand-alone agent an acknowledged store, update or delete survives
\* crashes, and saves that fail after it.
THEOREM AloneIsDurable == Alone => (Spec => []AckedIsDurable)
<1> SUFFICES ASSUME Alone PROVE Spec => []AckedIsDurable
  OBVIOUS
<1>1. DurableInv => AckedIsDurable
  BY DEF DurableInv
<1>2. TypeInv /\ DurableInv /\ [Next]_vars => DurableInv'
  <2>1. OneWriter /\ OneWriter'
    BY DEF Alone, OneWriter, Writing
  <2>2. [Next]_vars /\ DurableInv /\ TypeInv => LoadReadsFile
    <3> SUFFICES ASSUME [Next]_vars, ~up, up' PROVE commandSets' = file
      BY DEF LoadReadsFile
    <3>1. Load
      BY DEF Next, Serve, Request, StoreCommandSet, UpdateCommandSet, DeleteCommandSet,
         WriteChecked, Snapshot, CreateTemp, WriteTemp, Rename, SaveFails, Acknowledge,
         ExecuteCommandSet, ExecuteStep, Crash, vars
    <3> QED
      BY <3>1 DEF Load, Alone
  <2> QED
    BY <2>1, <2>2, DurableStep
<1>3. SnapshotInv => TypeInv
  BY DEF SnapshotInv
<1> QED
  BY <1>1, <1>2, <1>3, DurableInit, SnapshotInvariant, PTL DEF Spec
=============================================================================
