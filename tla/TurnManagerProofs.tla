-------------------------- MODULE TurnManagerProofs --------------------------
(***************************************************************************)
(* Theorems about the turn manager, for every value of its constants: its  *)
(* variables keep their types and the slot of the conversation is held     *)
(* once.                                                                   *)
(***************************************************************************)
EXTENDS TurnManagerProps, SequenceTheorems, WellFoundedInduction, TLAPS

-----------------------------------------------------------------------------
(* The repository's operations stay inside Store.                          *)

(* Removing a row leaves a sequence of rows.                               *)
LEMMA RemoveAtType ==
  ASSUME NEW S, NEW q \in Seq(S), NEW i \in DOMAIN q
  PROVE  RemoveAt(q, i) \in Seq(S)
<1>1. i \in 1..Len(q) /\ Len(q) \in Nat /\ \A j \in 1..Len(q) : q[j] \in S
  BY LenProperties
<1>2. SubSeq(q, 1, i - 1) \in Seq(S)
  BY <1>1, SubSeqProperties
<1>3. SubSeq(q, i + 1, Len(q)) \in Seq(S)
  BY <1>1, SubSeqProperties
<1> QED
  BY <1>2, <1>3, ConcatProperties DEF RemoveAt

(* A stored message is published with the others.                          *)
LEMMA AddMessageType ==
  ASSUME NEW d \in Store, NEW m \in Message
  PROVE  AddMessage(d, m) \in Store
BY DEF AddMessage, Store

(* Deleting a message leaves a store, with or without its row.             *)
LEMMA DeleteMessageType ==
  ASSUME NEW d \in Store, NEW m
  PROVE  DeleteMessage(d, m) \in Store
<1>1. HasRow(d, m) =>
        RemoveAt(d.rows, CHOOSE i \in DOMAIN d.rows : d.rows[i].msg = m) \in Seq(Row)
  BY RemoveAtType DEF HasRow, Store
<1> QED
  BY <1>1 DEF DeleteMessage, Store

(* Queueing a message leaves a store.                                      *)
LEMMA EnqueueTurnType ==
  ASSUME NEW d \in Store, NEW m \in Message, NEW hide \in BOOLEAN
  PROVE  EnqueueTurn(d, m, hide) \in Store
<1>1. Append(d.rows, [msg |-> m, failed |-> FALSE]) \in Seq(Row)
  BY AppendProperties DEF Store, Row
<1> QED
  BY <1>1 DEF EnqueueTurn, Store

(* Marking a row as failed leaves a store.                                 *)
LEMMA MarkFailedType ==
  ASSUME NEW d \in Store, NEW m
  PROVE  MarkQueuedTurnFailed(d, m) \in Store
<1> DEFINE q == [i \in DOMAIN d.rows |->
       IF d.rows[i].msg = m THEN [d.rows[i] EXCEPT !.failed = TRUE] ELSE d.rows[i]]
<1>1. d.rows \in Seq(Row) /\ DOMAIN d.rows = 1..Len(d.rows) /\ Len(d.rows) \in Nat
  BY LenProperties DEF Store
<1>2. \A i \in 1..Len(d.rows) : d.rows[i] \in Row
  BY <1>1, ElementOfSeq
<1>3. q \in [1..Len(d.rows) -> Row]
  BY <1>1, <1>2 DEF Row
<1>4. q \in Seq(Row)
  BY <1>1, <1>3, SeqDef
<1> QED
  BY <1>4 DEF MarkQueuedTurnFailed, Store

(* There is a first row that is not failed, if there is any.               *)
LEMMA NextRowType ==
  ASSUME NEW d \in Store, Waiting(d) # {}
  PROVE  NextRow(d) \in Waiting(d) /\ Waiting(d) \subseteq DOMAIN d.rows
<1>1. Waiting(d) \subseteq Nat
  BY LenProperties DEF Waiting, Store
<1> DEFINE R == OpToRel(<, Nat)
<1>2. R = {p \in Nat \X Nat : p[1] < p[2]}
  BY Zenon DEF OpToRel
<1>3. IsWellFoundedOn(R, Nat)
  BY NatLessThanWellFounded
<1> HIDE DEF R
<1>4. PICK i \in Waiting(d) : \A j \in Waiting(d) : <<j, i>> \notin R
  BY <1>1, <1>3, WFMin, Zenon
<1>5. \A j \in Waiting(d) : i <= j
  <2> TAKE j \in Waiting(d)
  <2>1. i \in Nat /\ j \in Nat
    BY <1>1
  <2>2. \A p \in Nat \X Nat : p[1] < p[2] => p \in R
    BY <1>2
  <2>3. j < i => <<j, i>> \in R
    BY <2>1, <2>2
  <2> QED
    BY <2>1, <2>3, <1>4
<1>6. \E k \in Waiting(d) : \A j \in Waiting(d) : k <= j
  BY <1>5
<1>7. NextRow(d) \in Waiting(d)
  BY <1>6 DEF NextRow
<1> QED
  BY <1>7 DEF Waiting

(* Taking the next row publishes a message and leaves a store.             *)
LEMMA TakeType ==
  ASSUME NEW d \in Store, Waiting(d) # {}
  PROVE  /\ d.rows[NextRow(d)].msg \in Message
         /\ TakeQueuedTurn(d) \in Store
<1>1. NextRow(d) \in DOMAIN d.rows
  BY NextRowType
<1>2. d.rows[NextRow(d)] \in Row
  BY <1>1, LenProperties, ElementOfSeq DEF Store
<1>3. RemoveAt(d.rows, NextRow(d)) \in Seq(Row)
  BY <1>1, RemoveAtType DEF Store
<1> QED
  BY <1>2, <1>3 DEF TakeQueuedTurn, Store, Row

(* The rows of a store hold messages.                                      *)
LEMMA RowType ==
  ASSUME NEW d \in Store, NEW i \in DOMAIN d.rows
  PROVE  d.rows[i] \in Row /\ d.rows[i].msg \in Message
<1>1. d.rows \in Seq(Row)
  BY DEF Store
<1>2. d.rows[i] \in Row
  BY <1>1, LenProperties, ElementOfSeq
<1> QED
  BY <1>2 DEF Row

(* Editing a row leaves a store.                                           *)
LEMMA UpdateType ==
  ASSUME NEW d \in Store, NEW i \in DOMAIN d.rows
  PROVE  UpdateQueuedTurn(d, i) \in Store
<1>1. [d.rows[i] EXCEPT !.failed = FALSE] \in Row
  BY RowType DEF Row
<1>2. [d.rows EXCEPT ![i] = [d.rows[i] EXCEPT !.failed = FALSE]] \in Seq(Row)
  BY <1>1, ExceptSeq, LenProperties DEF Store
<1> QED
  BY <1>2 DEF UpdateQueuedTurn, Store

(* Moving a row to the front leaves a store.                               *)
LEMMA PrioritizeType ==
  ASSUME NEW d \in Store, NEW i \in DOMAIN d.rows
  PROVE  PrioritizeQueuedTurn(d, i) \in Store
<1> DEFINE first == <<[msg |-> d.rows[i].msg, failed |-> FALSE]>>
<1>1. first \in Seq(Row)
  BY RowType DEF Row
<1>2. RemoveAt(d.rows, i) \in Seq(Row)
  BY RemoveAtType DEF Store
<1> HIDE DEF first
<1>3. first \o RemoveAt(d.rows, i) \in Seq(Row)
  BY <1>1, <1>2, ConcatProperties
<1> QED
  BY <1>3 DEF PrioritizeQueuedTurn, Store, first

(* Any rearrangement of the rows leaves a store.                           *)
LEMMA ReorderType ==
  ASSUME NEW d \in Store, NEW p \in [DOMAIN d.rows -> DOMAIN d.rows]
  PROVE  ReorderQueuedTurns(d, p) \in Store
<1> DEFINE q == [i \in DOMAIN d.rows |-> [msg |-> d.rows[p[i]].msg, failed |-> FALSE]]
<1>1. DOMAIN d.rows = 1..Len(d.rows) /\ Len(d.rows) \in Nat
  BY LenProperties DEF Store
<1>2. \A i \in DOMAIN d.rows : d.rows[p[i]].msg \in Message
  BY RowType
<1>3. q \in [1..Len(d.rows) -> Row]
  BY <1>1, <1>2 DEF Row
<1>4. q \in Seq(Row)
  BY <1>1, <1>3, SeqDef
<1> QED
  BY <1>4 DEF ReorderQueuedTurns, Store

(* Merging a row into a message leaves a store.                            *)
LEMMA MergeType ==
  ASSUME NEW d \in Store, NEW i \in DOMAIN d.rows, NEW m \in Message
  PROVE  MergeQueuedTurnIntoMessage(d, i, m) \in Store
<1>1. m \o d.rows[i].msg \in Message
  BY RowType, ConcatProperties DEF Message
<1> QED
  BY <1>1, DeleteMessageType, AddMessageType DEF MergeQueuedTurnIntoMessage

-----------------------------------------------------------------------------
(* The handlers.                                                           *)

HandlersOK ==
  /\ task \in [Slots -> Task] /\ lane \in Seq(Slots)
  /\ \A s \in Slots : Flows(task[s])

(* Replacing a handler by a well-formed one keeps the handlers' types.     *)
LEMMA BecomeType ==
  ASSUME HandlersOK, NEW s \in Slots, NEW new \in Task, Flows(new), Become(s, new)
  PROVE  HandlersOK'
<1>1. task' \in [Slots -> Task]
  BY DEF HandlersOK, Become
<1>2. lane # <<>> => Tail(lane) \in Seq(Slots)
  BY HeadTailProperties DEF HandlersOK
<1>3. <<s>> \in Seq(Slots) /\ <<>> \in Seq(Slots)
  OBVIOUS
<1>4. (IF lane # <<>> /\ Head(lane) = s THEN Tail(lane) ELSE lane) \in Seq(Slots)
  BY <1>2 DEF HandlersOK
<1>5. (IF new.pc \in DirectCalls THEN <<s>> ELSE <<>>) \in Seq(Slots)
  BY <1>3
<1>6. lane' \in Seq(Slots)
  BY <1>4, <1>5, ConcatProperties DEF Become
<1>7. \A r \in Slots : task'[r] = IF r = s THEN new ELSE task[r]
  BY DEF Become, HandlersOK
<1>8. \A r \in Slots : Flows(task'[r])
  BY <1>7 DEF HandlersOK
<1> QED
  BY <1>1, <1>6, <1>8 DEF HandlersOK

(* An idle place is a well-formed handler.                                 *)
LEMMA IdleType == Idle \in Task /\ Flows(Idle)
<1>1. <<>> \in Message
  BY DEF Message
<1>2. Idle \in Task
  BY <1>1, TurnAssumption DEF Idle, Task, Pcs, TurnAssumption
<1> QED
  BY <1>2 DEF Idle, Flows

(* A call of start() is a well-formed handler.                             *)
LEMMA StartTaskType ==
  ASSUME NEW m \in Message, NEW via \in {"ws", "queue", "now"}
  PROVE  StartTask(m, via) \in Task /\ Flows(StartTask(m, via))
<1>1. StartTask(m, via) \in Task
  BY IdleType DEF StartTask, Task, Pcs, Idle
<1> QED
  BY <1>1 DEF StartTask, Idle, Flows

(* The awaits from which every way is allowed.                             *)
PlainPcs == {"idle", "park", "launch", "retry", "save", "insert", "savePartial",
             "dispatch", "gate", "take", "now", "merge", "restart", "exit"}

(* The names of the awaits.                                                *)
LEMMA PcNames ==
  /\ "idle" \in Pcs /\ "check" \in Pcs /\ "park" \in Pcs /\ "restore" \in Pcs
  /\ "prioritize" \in Pcs /\ "prepare" \in Pcs /\ "late" \in Pcs /\ "launch" \in Pcs
  /\ "requeue" \in Pcs /\ "keep" \in Pcs /\ "retry" \in Pcs /\ "markFailed" \in Pcs
  /\ "setPause" \in Pcs /\ "save" \in Pcs /\ "insert" \in Pcs /\ "savePartial" \in Pcs
  /\ "dispatch" \in Pcs /\ "gate" \in Pcs /\ "take" \in Pcs /\ "now" \in Pcs
  /\ "merge" \in Pcs /\ "restart" \in Pcs /\ "exit" \in Pcs
BY DEF Pcs

(* The names of the awaits from which every way is allowed.                *)
LEMMA PlainNames ==
  /\ "idle" \in PlainPcs /\ "park" \in PlainPcs /\ "launch" \in PlainPcs
  /\ "retry" \in PlainPcs /\ "save" \in PlainPcs /\ "insert" \in PlainPcs
  /\ "savePartial" \in PlainPcs /\ "dispatch" \in PlainPcs /\ "gate" \in PlainPcs
  /\ "take" \in PlainPcs /\ "now" \in PlainPcs /\ "merge" \in PlainPcs
  /\ "restart" \in PlainPcs /\ "exit" \in PlainPcs /\ PlainPcs \subseteq Pcs
BY DEF Pcs, PlainPcs

(* Resuming a handler at such an await keeps the handlers' types.          *)
LEMMA ResumeType ==
  ASSUME HandlersOK, NEW s \in Slots, NEW pc \in PlainPcs, Resume(s, pc)
  PROVE  HandlersOK'
<1>1. [task[s] EXCEPT !.pc = pc] \in Task
  BY PlainNames DEF HandlersOK, Task
<1>2. [task[s] EXCEPT !.pc = pc].pc = pc
  BY DEF HandlersOK, Task
<1>3. Flows([task[s] EXCEPT !.pc = pc])
  BY <1>2 DEF Flows, PlainPcs
<1> QED
  BY <1>1, <1>3, IdleType, BecomeType DEF Resume

(* A handler that puts a message back goes on to set the pause.            *)
LEMMA PutBackFlow ==
  ASSUME HandlersOK, NEW s \in Slots,
         task[s].pc \in {"restore", "prioritize", "requeue", "keep", "markFailed"},
         NEW pc \in {"prioritize", "markFailed", "setPause"},
         Resume(s, pc)
  PROVE  HandlersOK'
<1>1. pc \in Pcs /\ pc # "idle"
  BY PcNames
<1> DEFINE new == [task[s] EXCEPT !.pc = pc]
<1>2. new \in Task /\ new.pc = pc /\ new.then = task[s].then /\ new.via = task[s].via
  BY <1>1 DEF HandlersOK, Task
<1>3. task[s].then \in {"idle", "dispatch"}
  BY DEF HandlersOK, Flows
<1>4. Become(s, new)
  BY <1>1 DEF Resume
<1> HIDE DEF new
<1>5. Flows(new)
  BY <1>2, <1>3 DEF Flows
<1> QED
  BY <1>2, <1>4, <1>5, BecomeType

(* Storing the pause and going on elsewhere keeps the handlers' types.     *)
LEMMA PauseType ==
  ASSUME HandlersOK, NEW s \in Slots, NEW value \in BOOLEAN,
         NEW next \in {"idle", "dispatch", "prepare", "savePartial", "restart"},
         next = "prepare" => task[s].via \in {"ws", "queue", "now"},
         Pause(s, value, next)
  PROVE  HandlersOK'
<1> DEFINE new == [task[s] EXCEPT !.pc = "setPause", !.pause = value, !.then = next]
<1>1. next \in Pcs
  BY PcNames
<1>2. new \in Task
  BY <1>1, PcNames DEF HandlersOK, Task
<1>3. new.pc = "setPause" /\ new.then = next /\ new.via = task[s].via
  BY DEF HandlersOK, Task
<1>4. Become(s, new)
  BY DEF Pause
<1> HIDE DEF new
<1>5. Flows(new)
  BY <1>3 DEF Flows
<1> QED
  BY <1>2, <1>4, <1>5, BecomeType

(* A new handler in a free place keeps the handlers' types.                *)
LEMMA ForkType ==
  ASSUME HandlersOK, NEW new \in Task, Flows(new), Fork(new)
  PROVE  HandlersOK'
BY BecomeType DEF Fork

MemoryOK ==
  /\ starting \in BOOLEAN /\ active \in 0..MaxTurns /\ restarting \in BOOLEAN
  /\ unsaved \subseteq TurnIds /\ finalizing \subseteq TurnIds /\ grants \subseteq TurnIds

TurnOK == turn \in [TurnIds -> TurnState]

TypeInv == TypeOK /\ \A s \in Slots : Flows(task[s])

EnvironmentOK ==
  /\ holds \subseteq 0..MaxTurns
  /\ refused \subseteq Message /\ fresh \subseteq Inputs
  /\ budget \in [Kinds -> Nat]

(* The type invariant in parts.                                            *)
LEMMA TypeParts ==
  TypeInv <=> db \in Store /\ MemoryOK /\ TurnOK /\ HandlersOK /\ EnvironmentOK
BY DEF TypeInv, TypeOK, MemoryOK, TurnOK, HandlersOK, EnvironmentOK

(* The same of the next state.                                             *)
LEMMA TypePartsNext ==
  TypeInv' <=> db' \in Store /\ MemoryOK' /\ TurnOK' /\ HandlersOK' /\ EnvironmentOK'
BY DEF TypeInv, TypeOK, MemoryOK, TurnOK, HandlersOK, EnvironmentOK

(* Spending from the budget leaves a budget.                               *)
LEMMA SpendType ==
  ASSUME EnvironmentOK, NEW kind \in Kinds, Spend(kind)
  PROVE  budget' \in [Kinds -> Nat]
BY DEF EnvironmentOK, Spend

(* A restart of the process leaves a well-formed memory.                   *)
LEMMA RebootType ==
  ASSUME MemoryOK, TurnOK, Reboot
  PROVE  MemoryOK' /\ TurnOK' /\ HandlersOK'
<1>1. MemoryOK'
  <2>1. 0 \in 0..MaxTurns
    BY TurnAssumption DEF TurnAssumption
  <2>2. /\ starting' = FALSE /\ active' = 0 /\ restarting' = FALSE
        /\ unsaved' = {} /\ finalizing' = {} /\ grants' = {}
    BY DEF Reboot
  <2> QED
    BY <2>1, <2>2 DEF MemoryOK
<1>2. TurnOK'
  <2>1. ASSUME NEW t \in TurnIds PROVE turn'[t] \in TurnState
    <3>1. turn[t] \in TurnState
      BY DEF TurnOK
    <3>2. CASE turn[t].exec \in {"new", "denied", "running"}
      <4>1. turn'[t] = [turn[t] EXCEPT !.exec = "stopped", !.done = TRUE]
        BY <3>2 DEF Reboot
      <4> QED
        BY <3>1, <4>1 DEF TurnState
    <3>3. CASE turn[t].exec \notin {"new", "denied", "running"}
      <4>1. turn'[t] = turn[t]
        BY <3>3 DEF Reboot
      <4> QED
        BY <3>1, <4>1
    <3> QED
      BY <3>2, <3>3
  <2>2. turn' = [t \in TurnIds |-> turn'[t]]
    BY DEF Reboot
  <2> QED
    BY <2>1, <2>2 DEF TurnOK
<1>3. HandlersOK'
  <2>1. task' \in [Slots -> Task]
    BY IdleType DEF Reboot
  <2>2. lane' \in Seq(Slots)
    BY EmptySeq DEF Reboot
  <2>3. \A s \in Slots : Flows(task'[s])
    BY IdleType DEF Reboot
  <2> QED
    BY <2>1, <2>2, <2>3 DEF HandlersOK
<1> QED
  BY <1>1, <1>2, <1>3

(* So does a start() that throws, whoever called it.                       *)
LEMMA ThrowType ==
  ASSUME MemoryOK, TurnOK, HandlersOK, NEW s \in Slots, Throw(s)
  PROVE  MemoryOK' /\ TurnOK' /\ HandlersOK'
<1>1. CASE Reboot
  BY <1>1, RebootType
<1>2. CASE Resume(s, "idle") /\ UNCHANGED <<memory, turn>>
  BY <1>2, ResumeType, PlainNames DEF MemoryOK, TurnOK, memory
<1>3. CASE /\ Become(s, [task[s] EXCEPT !.pc = "requeue", !.pause = TRUE, !.then = "idle"])
           /\ UNCHANGED <<memory, turn>>
  <2> DEFINE new == [task[s] EXCEPT !.pc = "requeue", !.pause = TRUE, !.then = "idle"]
  <2>1. new \in Task /\ new.pc = "requeue" /\ new.then = "idle"
    BY PcNames DEF HandlersOK, Task
  <2> HIDE DEF new
  <2>2. Flows(new)
    BY <2>1 DEF Flows
  <2>3. HandlersOK'
    BY <1>3, <2>1, <2>2, BecomeType DEF new
  <2> QED
    BY <1>3, <2>3 DEF MemoryOK, TurnOK, memory
<1> QED
  BY <1>1, <1>2, <1>3 DEF Throw

(* One state function changes at most its own part.                        *)
LEMMA UnchangedTypes ==
  /\ UNCHANGED memory /\ MemoryOK => MemoryOK'
  /\ UNCHANGED turn /\ TurnOK => TurnOK'
  /\ UNCHANGED handlers /\ HandlersOK => HandlersOK'
  /\ UNCHANGED <<holds, history, budget>> /\ EnvironmentOK => EnvironmentOK'
BY DEF memory, handlers, history, MemoryOK, TurnOK, HandlersOK, EnvironmentOK

(* A handler's record has the fields the actions read.                     *)
LEMMA TaskFields ==
  ASSUME HandlersOK, NEW s \in Slots
  PROVE  /\ task[s] \in Task /\ task[s].pc \in Pcs /\ task[s].msg \in Message
         /\ task[s].then \in Pcs /\ task[s].pause \in BOOLEAN
         /\ task[s].tid \in 0..MaxTurns
BY DEF HandlersOK, Task

(* A refusal adds the handler's message to the history.                    *)
LEMMA RefuseType ==
  ASSUME HandlersOK, EnvironmentOK, NEW s \in Slots, Refuse(s)
  PROVE  refused' \subseteq Message /\ fresh' \subseteq Inputs
BY TaskFields DEF Refuse, EnvironmentOK

(* The admission of start() keeps the types.                               *)
LEMMA AdmissionType ==
  ASSUME TypeInv, NEW s \in Slots
  PROVE  /\ Issue(s) \/ Deny(s) \/ RefusePending(s) => TypeInv'
         /\ FindBusy(s) \/ ClaimSlot(s) => TypeInv'
         /\ Enqueue(s) \/ Prioritize(s) \/ SetPause(s) => TypeInv'
<1>1. db \in Store /\ MemoryOK /\ TurnOK /\ HandlersOK /\ EnvironmentOK
  BY TypeParts
<1>2. CASE Issue(s)
  <2>1. lane' \in Seq(Slots)
    BY <1>1, <1>2, AppendProperties DEF Issue, HandlersOK
  <2>2. HandlersOK'
    BY <1>1, <1>2, <2>1 DEF Issue, HandlersOK
  <2> QED
    BY <1>1, <1>2, <2>2, TypePartsNext, UnchangedTypes DEF Issue
<1>3. CASE Deny(s)
  <2>1. HandlersOK'
    BY <1>1, <1>3, ResumeType, PlainNames DEF Deny
  <2>2. budget' \in [Kinds -> Nat]
    <3>1. "refuse" \in Kinds
      BY DEF Kinds
    <3> QED
      BY <1>1, <1>3, <3>1, SpendType DEF Deny, EnvironmentOK
  <2>3. EnvironmentOK'
    BY <1>1, <1>3, <2>2, RefuseType DEF Deny, EnvironmentOK
  <2> QED
    BY <1>1, <1>3, <2>1, <2>3, TypePartsNext, UnchangedTypes DEF Deny
<1>4. CASE RefusePending(s)
  <2> DEFINE new == [task[s] EXCEPT !.pc = "restore", !.pause = TRUE, !.then = "idle"]
  <2>1. new \in Task /\ new.pc = "restore" /\ new.then = "idle"
    BY <1>1, PcNames, TaskFields DEF Task
  <2>2. Resume(s, "idle") \/ Become(s, new)
    BY <1>4 DEF RefusePending
  <2> HIDE DEF new
  <2>3. Flows(new)
    BY <2>1 DEF Flows
  <2>4. HandlersOK'
    BY <1>1, <2>1, <2>2, <2>3, ResumeType, BecomeType, PlainNames
  <2>5. EnvironmentOK'
    BY <1>1, <1>4, RefuseType DEF RefusePending, EnvironmentOK
  <2> QED
    BY <1>1, <1>4, <2>4, <2>5, TypePartsNext, UnchangedTypes DEF RefusePending
<1>5. CASE FindBusy(s)
  <2>1. HandlersOK'
    BY <1>1, <1>5, ResumeType, PlainNames DEF FindBusy
  <2> QED
    BY <1>1, <1>5, <2>1, TypePartsNext, UnchangedTypes DEF FindBusy
<1>6. CASE ClaimSlot(s)
  <2>1. task[s].via \in {"ws", "queue", "now"}
    BY <1>1, <1>6 DEF ClaimSlot, Admissible, At, HandlersOK, Flows
  <2>2. HandlersOK'
    BY <1>1, <1>6, <2>1, PauseType DEF ClaimSlot
  <2>3. MemoryOK'
    BY <1>1, <1>6 DEF ClaimSlot, MemoryOK
  <2> QED
    BY <1>1, <1>6, <2>2, <2>3, TypePartsNext, UnchangedTypes DEF ClaimSlot
<1>7. CASE Enqueue(s)
  <2>1. CASE HasMessage(db, task[s].msg)
    <3>1. db' \in Store
      BY <1>1, <1>7, <2>1, EnqueueTurnType, TaskFields DEF Enqueue
    <3>2. HandlersOK'
      <4>1. CASE At(s, "park")
        BY <1>1, <1>7, <2>1, <4>1, ResumeType, PlainNames DEF Enqueue
      <4>2. CASE ~At(s, "park")
        <5>1. task[s].pc = "restore" /\ Resume(s, "prioritize")
          BY <1>7, <2>1, <4>2 DEF Enqueue, Called, At
        <5> QED
          BY <1>1, <5>1, PutBackFlow
      <4> QED
        BY <4>1, <4>2
    <3> QED
      BY <1>1, <1>7, <2>1, <3>1, <3>2, TypePartsNext, UnchangedTypes DEF Enqueue
  <2>2. CASE ~HasMessage(db, task[s].msg)
    BY <1>1, <1>7, <2>2, ThrowType, TypePartsNext, UnchangedTypes DEF Enqueue
  <2> QED
    BY <2>1, <2>2
<1>8. CASE Prioritize(s)
  <2>1. db' \in Store
    BY <1>1, <1>8, PrioritizeType DEF Prioritize, HasRow
  <2>2. HandlersOK'
    BY <1>1, <1>8, PutBackFlow DEF Prioritize, Called
  <2> QED
    BY <1>1, <1>8, <2>1, <2>2, TypePartsNext, UnchangedTypes DEF Prioritize
<1>9. CASE SetPause(s)
  <2>1. db' \in Store
    BY <1>1, <1>9, TaskFields DEF SetPause, SetTurnQueuePaused, Store
  <2>2. HandlersOK'
    <3> DEFINE new == [task[s] EXCEPT !.pc = task[s].then]
    <3>1. task[s].pc = "setPause"
      BY <1>9 DEF SetPause, Called
    <3>2. CASE task[s].then = "prepare"
      <4>1. new \in Task /\ new.pc = "prepare" /\ new.via = task[s].via
        BY <1>1, <3>2, PcNames DEF HandlersOK, Task
      <4>2. Become(s, new)
        BY <1>9, <3>2 DEF SetPause, Resume
      <4>3. task[s].via \in {"ws", "queue", "now"}
        BY <1>1, <3>1, <3>2 DEF HandlersOK, Flows
      <4> HIDE DEF new
      <4>4. Flows(new)
        BY <4>1, <4>3 DEF Flows
      <4> QED
        BY <1>1, <4>1, <4>2, <4>4, BecomeType
    <3>3. CASE task[s].then # "prepare"
      <4>1. task[s].then \in PlainPcs
        BY <1>1, <3>1, <3>3 DEF HandlersOK, Flows, PlainPcs
      <4> QED
        BY <1>1, <1>9, <4>1, ResumeType DEF SetPause
    <3> QED
      BY <3>2, <3>3
  <2>3. MemoryOK'
    BY <1>1, <1>9 DEF SetPause, MemoryOK
  <2> QED
    BY <1>1, <1>9, <2>1, <2>2, <2>3, TypePartsNext, UnchangedTypes DEF SetPause
<1> QED
  BY <1>2, <1>3, <1>4, <1>5, <1>6, <1>7, <1>8, <1>9

(* A turn's record may change in any of its fields.                        *)
LEMMA TurnUpdate ==
  ASSUME TurnOK, NEW t, NEW new, t \in TurnIds => new \in TurnState
  PROVE  [turn EXCEPT ![t] = new] \in [TurnIds -> TurnState]
BY DEF TurnOK

(* Giving a message to the model keeps the types.                          *)
LEMMA LaunchedType ==
  ASSUME TurnOK, holds \subseteq 0..MaxTurns, NEW t \in 0..MaxTurns, Launched(t)
  PROVE  TurnOK' /\ holds' \subseteq 0..MaxTurns
<1> DEFINE exec == IF Paid /\ holds # {} THEN "denied" ELSE "running"
<1>1. t \in TurnIds => [turn[t] EXCEPT !.exec = exec] \in TurnState
  BY DEF TurnOK, TurnState
<1>2. turn' = [turn EXCEPT ![t] = [turn[t] EXCEPT !.exec = exec]]
  BY DEF Launched
<1> HIDE DEF exec
<1>3. TurnOK'
  BY <1>1, <1>2, TurnUpdate DEF TurnOK
<1> QED
  BY <1>3 DEF Launched

(* The preparation of a turn and its launch keep the types.                *)
LEMMA PreparationType ==
  ASSUME TypeInv, NEW s \in Slots
  PROVE  /\ RefusePreparation(s) \/ FailPreparation(s) \/ GrantTools(s) => TypeInv'
         /\ MachineOffline(s) \/ Register(s) \/ Launch(s) => TypeInv'
<1>1. db \in Store /\ MemoryOK /\ TurnOK /\ HandlersOK /\ EnvironmentOK
  BY TypeParts
<1>2. "refuse" \in Kinds /\ "fault" \in Kinds
  BY DEF Kinds
<1>3. CASE RefusePreparation(s)
  <2>1. HandlersOK'
    BY <1>1, <1>3, ResumeType, PlainNames DEF RefusePreparation
  <2>2. MemoryOK'
    BY <1>1, <1>3 DEF RefusePreparation, MemoryOK
  <2>3. EnvironmentOK'
    BY <1>1, <1>2, <1>3, RefuseType, SpendType DEF RefusePreparation, EnvironmentOK
  <2> QED
    BY <1>1, <1>3, <2>1, <2>2, <2>3, TypePartsNext, UnchangedTypes DEF RefusePreparation
<1>4. CASE FailPreparation(s)
  <2>1. EnvironmentOK'
    BY <1>1, <1>2, <1>4, SpendType DEF FailPreparation, EnvironmentOK, history
  <2> QED
    BY <1>1, <1>4, <2>1, ThrowType, TypePartsNext DEF FailPreparation
<1>5. CASE GrantTools(s)
  <2>1. PICK t \in TurnIds :
          /\ turn' = [turn EXCEPT ![t] = [@ EXCEPT !.exec = "refused", !.msg = task[s].msg,
                                                   !.via = task[s].via]]
          /\ grants' = grants \cup {t}
          /\ Become(s, [task[s] EXCEPT !.pc = "late", !.tid = t])
    BY <1>5 DEF GrantTools
  <2>2. t \in 0..MaxTurns
    BY TurnAssumption DEF TurnIds, TurnAssumption
  <2>3. task[s].via \in {"ws", "queue", "now"}
    BY <1>1, <1>5 DEF GrantTools, At, HandlersOK, Flows
  <2>4. HandlersOK'
    <3> DEFINE new == [task[s] EXCEPT !.pc = "late", !.tid = t]
    <3>1. new \in Task /\ new.pc = "late" /\ new.via = task[s].via
      BY <1>1, <2>2, PcNames, TaskFields DEF Task
    <3> HIDE DEF new
    <3>2. Flows(new)
      BY <2>3, <3>1 DEF Flows
    <3> QED
      BY <1>1, <2>1, <3>1, <3>2, BecomeType DEF new
  <2>5. MemoryOK'
    BY <1>1, <1>5, <2>1 DEF GrantTools, MemoryOK
  <2>6. TurnOK'
    <3> DEFINE new == [turn[t] EXCEPT !.exec = "refused", !.msg = task[s].msg,
                                      !.via = task[s].via]
    <3>1. new \in TurnState
      BY <1>1, <2>3, TaskFields DEF TurnOK, TurnState
    <3>2. turn' = [turn EXCEPT ![t] = new]
      BY <2>1
    <3> QED
      BY <1>1, <3>1, <3>2, TurnUpdate DEF TurnOK
  <2> QED
    BY <1>1, <1>5, <2>4, <2>5, <2>6, TypePartsNext, UnchangedTypes DEF GrantTools
<1>6. CASE MachineOffline(s)
  <2>1. HandlersOK'
    BY <1>1, <1>6, ResumeType, PlainNames DEF MachineOffline
  <2>2. MemoryOK'
    BY <1>1, <1>6 DEF MachineOffline, MemoryOK
  <2>3. EnvironmentOK'
    BY <1>1, <1>2, <1>6, RefuseType, SpendType DEF MachineOffline, EnvironmentOK
  <2> QED
    BY <1>1, <1>6, <2>1, <2>2, <2>3, TypePartsNext, UnchangedTypes DEF MachineOffline
<1>7. CASE Register(s)
  <2>1. HandlersOK'
    BY <1>1, <1>7, ResumeType, PlainNames DEF Register
  <2>2. MemoryOK'
    BY <1>1, <1>7, TaskFields DEF Register, Occupy, MemoryOK
  <2>3. CASE AsyncLaunch
    <3>1. task[s].tid \in TurnIds => [turn[task[s].tid] EXCEPT !.exec = "new"] \in TurnState
      BY <1>1 DEF TurnOK, TurnState
    <3>2. TurnOK'
      BY <1>1, <1>7, <2>3, <3>1, TurnUpdate DEF Register, TurnOK
    <3> QED
      BY <1>1, <1>7, <2>1, <2>2, <2>3, <3>2, TypePartsNext, UnchangedTypes DEF Register
  <2>4. CASE ~AsyncLaunch
    <3>1. TurnOK' /\ EnvironmentOK'
      BY <1>1, <1>7, <2>4, LaunchedType, TaskFields DEF Register, EnvironmentOK, history
    <3> QED
      BY <1>1, <1>7, <2>1, <2>2, <3>1, TypePartsNext DEF Register
  <2> QED
    BY <2>3, <2>4
<1>8. CASE Launch(s)
  <2>1. HandlersOK'
    BY <1>1, <1>8, ResumeType, PlainNames DEF Launch
  <2>2. TurnOK' /\ EnvironmentOK'
    BY <1>1, <1>8, LaunchedType, TaskFields DEF Launch, EnvironmentOK, history
  <2> QED
    BY <1>1, <1>8, <2>1, <2>2, TypePartsNext, UnchangedTypes DEF Launch
<1> QED
  BY <1>3, <1>4, <1>5, <1>6, <1>7, <1>8

Execs == {"free", "new", "denied", "running", "stopped", "failed", "ended", "refused"}

(* Ending a turn keeps its type.                                           *)
LEMMA EndTurnType ==
  ASSUME TurnOK, NEW t, NEW exec \in Execs
  PROVE  [turn EXCEPT ![t].done = TRUE, ![t].exec = exec] \in [TurnIds -> TurnState]
<1> DEFINE f == [turn EXCEPT ![t].done = TRUE]
<1>1. t \in TurnIds => [turn[t] EXCEPT !.done = TRUE] \in TurnState
  BY DEF TurnOK, TurnState
<1>2. f \in [TurnIds -> TurnState]
  BY <1>1, TurnUpdate
<1> HIDE DEF f
<1>3. t \in TurnIds => [f[t] EXCEPT !.exec = exec] \in TurnState
  BY <1>2 DEF TurnState, Execs
<1>4. [f EXCEPT ![t].exec = exec] \in [TurnIds -> TurnState]
  BY <1>2, <1>3
<1> QED
  BY <1>4 DEF f

(* What an end of the execution does to turn, tools and map keeps them.    *)
LEMMA FinishType ==
  ASSUME TurnOK, MemoryOK, NEW t, NEW exec \in Execs, Finish(t, exec)
  PROVE  TurnOK' /\ active' \in 0..MaxTurns /\ grants' \subseteq TurnIds
<1>1. TurnOK'
  BY EndTurnType DEF Finish, TurnOK
<1>2. active' \in 0..MaxTurns
  BY TurnAssumption DEF Finish, MemoryOK, TurnAssumption
<1> QED
  BY <1>1, <1>2 DEF Finish, ReleaseTurnTools, MemoryOK

(* Storing a reply counts it.                                              *)
LEMMA ReplyType ==
  ASSUME TurnOK, NEW t, Reply(t)
  PROVE  TurnOK'
<1>1. t \in TurnIds => [turn[t] EXCEPT !.replies = @ + 1] \in TurnState
  BY DEF TurnOK, TurnState
<1>2. turn' = [turn EXCEPT ![t] = [turn[t] EXCEPT !.replies = @ + 1]]
  BY DEF Reply
<1> QED
  BY <1>1, <1>2, TurnUpdate DEF TurnOK

(* The handlers of a callback's tail keep the types.                       *)
LEMMA TailType ==
  ASSUME TypeInv, NEW s \in Slots
  PROVE  /\ PutBack(s) \/ MarkFailed(s) \/ Save(s) \/ Insert(s) => TypeInv'
         /\ SavePartial(s) \/ Exit(s) => TypeInv'
<1>1. db \in Store /\ MemoryOK /\ TurnOK /\ HandlersOK /\ EnvironmentOK
  BY TypeParts
<1>2. CASE PutBack(s)
  <2>1. CASE HasMessage(db, task[s].msg)
    <3>1. db' \in Store
      BY <1>1, <1>2, <2>1, EnqueueTurnType, TaskFields DEF PutBack
    <3>2. HandlersOK'
      <4>1. CASE At(s, "requeue")
        BY <1>1, <1>2, <2>1, <4>1, PutBackFlow DEF PutBack, At
      <4>2. CASE At(s, "keep")
        BY <1>1, <1>2, <2>1, <4>2, PutBackFlow DEF PutBack, At
      <4>3. CASE At(s, "retry")
        BY <1>1, <1>2, <2>1, <4>3, ResumeType, PlainNames DEF PutBack, At
      <4> QED
        BY <1>2, <4>1, <4>2, <4>3 DEF PutBack, Called, At
    <3> QED
      BY <1>1, <1>2, <2>1, <3>1, <3>2, TypePartsNext, UnchangedTypes DEF PutBack
  <2>2. CASE ~HasMessage(db, task[s].msg)
    <3>1. MemoryOK' /\ TurnOK' /\ HandlersOK'
      BY <1>1, <1>2, <2>2, RebootType, ResumeType, PlainNames, UnchangedTypes DEF PutBack
    <3> QED
      BY <1>1, <1>2, <2>2, <3>1, TypePartsNext, UnchangedTypes DEF PutBack
  <2> QED
    BY <2>1, <2>2
<1>3. CASE MarkFailed(s)
  <2>1. db' \in Store
    BY <1>1, <1>3, MarkFailedType DEF MarkFailed
  <2>2. HandlersOK'
    BY <1>1, <1>3, PutBackFlow DEF MarkFailed, Called
  <2> QED
    BY <1>1, <1>3, <2>1, <2>2, TypePartsNext, UnchangedTypes DEF MarkFailed
<1>4. CASE Save(s)
  <2> DEFINE t == task[s].tid
  <2>1. HandlersOK'
    BY <1>1, <1>4, ResumeType, PlainNames DEF Save
  <2>2. MemoryOK'
    BY <1>1, <1>4 DEF Save, MemoryOK
  <2>3. TurnOK'
    <3>1. t \in TurnIds => [turn[t] EXCEPT !.saved = TRUE] \in TurnState
      BY ZenonT(60), <1>1 DEF TurnOK, TurnState
    <3>2. \/ turn' = turn
          \/ turn' = [turn EXCEPT ![t] = [turn[t] EXCEPT !.saved = TRUE]]
      BY <1>4 DEF Save
    <3> HIDE DEF t
    <3> QED
      BY <1>1, <3>1, <3>2, TurnUpdate DEF TurnOK
  <2> QED
    BY <1>1, <1>4, <2>1, <2>2, <2>3, TypePartsNext, UnchangedTypes DEF Save
<1>5. CASE Insert(s)
  <2>1. HandlersOK'
    BY <1>1, <1>5, ResumeType, PlainNames DEF Insert
  <2> QED
    BY <1>1, <1>5, <2>1, ReplyType, TypePartsNext, UnchangedTypes DEF Insert
<1>6. CASE SavePartial(s)
  <2>1. HandlersOK'
    BY <1>1, <1>6, ResumeType, PlainNames DEF SavePartial
  <2>2. TurnOK'
    BY <1>1, <1>6, ReplyType, UnchangedTypes DEF SavePartial
  <2> QED
    BY <1>1, <1>6, <2>1, <2>2, TypePartsNext, UnchangedTypes DEF SavePartial
<1>7. CASE Exit(s)
  BY <1>1, <1>7, RebootType, TypePartsNext, UnchangedTypes DEF Exit
<1> QED
  BY <1>2, <1>3, <1>4, <1>5, <1>6, <1>7

(* The handlers of dispatchNext() keep the types.                          *)
LEMMA DispatchType ==
  ASSUME TypeInv, NEW s \in Slots
  PROVE  Dispatch(s) \/ Gate(s) \/ Take(s) => TypeInv'
<1>1. db \in Store /\ MemoryOK /\ TurnOK /\ HandlersOK /\ EnvironmentOK
  BY TypeParts
<1>2. CASE Dispatch(s)
  <2>1. HandlersOK'
    BY <1>1, <1>2, ResumeType, PlainNames DEF Dispatch
  <2> QED
    BY <1>1, <1>2, <2>1, TypePartsNext, UnchangedTypes DEF Dispatch
<1>3. CASE Gate(s)
  <2>1. HandlersOK'
    BY <1>1, <1>3, PauseType, ResumeType, PlainNames DEF Gate
  <2> QED
    BY <1>1, <1>3, <2>1, TypePartsNext, UnchangedTypes DEF Gate
<1>4. CASE Take(s)
  <2>1. db' \in Store
    BY <1>1, <1>4, TakeType DEF Take
  <2>2. HandlersOK'
    <3>1. CASE Waiting(db) = {}
      BY <1>1, <1>4, <3>1, ResumeType, PlainNames DEF Take
    <3>2. CASE Waiting(db) # {}
      <4>1. db.rows[NextRow(db)].msg \in Message
        BY <1>1, <3>2, TakeType
      <4> QED
        BY <1>1, <1>4, <3>2, <4>1, StartTaskType, BecomeType DEF Take
    <3> QED
      BY <3>1, <3>2
  <2> QED
    BY <1>1, <1>4, <2>1, <2>2, TypePartsNext, UnchangedTypes DEF Take
<1> QED
  BY <1>2, <1>3, <1>4

(* What becomes of a killed process is one of the states of an execution.  *)
LEMMA CancelledType ==
  ASSUME TurnOK, NEW t \in TurnIds
  PROVE  Cancelled(t) \in Execs
BY DEF Cancelled, TurnOK, TurnState, Execs

(* The handlers of sendQueuedNow() keep the types.                         *)
LEMMA SendNowType ==
  ASSUME TypeInv, NEW s \in Slots
  PROVE  ChooseNow(s) \/ Merge(s) \/ Restart(s) => TypeInv'
<1>1. db \in Store /\ MemoryOK /\ TurnOK /\ HandlersOK /\ EnvironmentOK
  BY TypeParts
<1>2. CASE ChooseNow(s)
  <2> DEFINE new == [task[s] EXCEPT !.pc = "prioritize", !.pause = FALSE,
                                    !.then = "dispatch"]
  <2>1. new \in Task /\ new.pc = "prioritize" /\ new.then = "dispatch"
    BY <1>1, PcNames, TaskFields DEF Task
  <2>2. \/ Pause(s, TRUE, "idle") \/ Resume(s, "idle") \/ Resume(s, "merge")
        \/ Become(s, new)
    BY <1>2 DEF ChooseNow
  <2> HIDE DEF new
  <2>3. Flows(new)
    BY <2>1 DEF Flows
  <2>4. HandlersOK'
    BY <1>1, <2>1, <2>2, <2>3, PauseType, ResumeType, BecomeType, PlainNames
  <2> QED
    BY <1>1, <1>2, <2>4, TypePartsNext, UnchangedTypes DEF ChooseNow
<1>3. CASE Merge(s)
  <2> DEFINE t == task[s].tid
             own == turn[t].msg
             merged == own \o task[s].msg
             i == CHOOSE k \in DOMAIN db.rows : db.rows[k].msg = task[s].msg
             onward == [task[s] EXCEPT !.pc = "setPause", !.msg = merged,
                                       !.pause = FALSE, !.then = "restart"]
             back == [task[s] EXCEPT !.pc = "requeue", !.msg = merged, !.pause = TRUE,
                                     !.then = "idle", !.via = "command"]
  <2>1. CASE HasRow(db, task[s].msg) /\ own \in db.shown /\ own # task[s].msg
    <3>1. own \in Message /\ i \in DOMAIN db.rows
      BY <1>1, <2>1 DEF Store, HasRow
    <3>2. merged \in Message
      BY <1>1, <3>1, TaskFields, ConcatProperties DEF Message
    <3>3. db' \in Store
      <4>1. db' = MergeQueuedTurnIntoMessage(db, i, own)
        BY <1>3, <2>1 DEF Merge
      <4> QED
        BY <1>1, <3>1, <4>1, MergeType
    <3>4. MemoryOK'
      BY <1>1, <1>3, <2>1, TurnAssumption
      DEF Merge, MemoryOK, ReleaseTurnTools, TurnAssumption
    <3>5. onward \in Task /\ onward.pc = "setPause" /\ onward.then = "restart"
      BY <1>1, <3>2, PcNames, TaskFields DEF Task
    <3>6. back \in Task /\ back.pc = "requeue" /\ back.then = "idle"
      BY <1>1, <3>2, PcNames, TaskFields DEF Task
    <3>7. \/ /\ turn' = [turn EXCEPT ![t].done = TRUE, ![t].exec = Cancelled(t)]
             /\ Become(s, onward) /\ UNCHANGED budget
          \/ /\ Spend("fault") /\ turn' = [turn EXCEPT ![t].done = TRUE]
             /\ Become(s, back)
      BY <1>3, <2>1 DEF Merge
    <3>8. HandlersOK'
      <4> HIDE DEF onward, back
      <4>1. Flows(onward) /\ Flows(back)
        BY <3>5, <3>6 DEF Flows
      <4> QED
        BY <1>1, <3>5, <3>6, <3>7, <4>1, BecomeType
    <3>9. TurnOK'
      <4>1. CASE turn' = [turn EXCEPT ![t].done = TRUE]
        <5>1. t \in TurnIds => [turn[t] EXCEPT !.done = TRUE] \in TurnState
          BY ZenonT(60), <1>1 DEF TurnOK, TurnState
        <5> QED
          BY <1>1, <4>1, <5>1, TurnUpdate DEF TurnOK
      <4>2. CASE turn' = [turn EXCEPT ![t].done = TRUE, ![t].exec = Cancelled(t)]
        <5>1. CASE t \in TurnIds
          BY <1>1, <4>2, <5>1, CancelledType, EndTurnType DEF TurnOK
        <5>2. CASE t \notin TurnIds
          BY <1>1, <4>2, <5>2 DEF TurnOK
        <5> QED
          BY <5>1, <5>2
      <4> QED
        BY <3>7, <4>1, <4>2
    <3>10. EnvironmentOK'
      <4>1. "fault" \in Kinds
        BY DEF Kinds
      <4>2. budget' \in [Kinds -> Nat]
        BY <1>1, <3>7, <4>1, SpendType DEF EnvironmentOK
      <4> QED
        BY <1>1, <1>3, <4>2 DEF Merge, EnvironmentOK, history
    <3> QED
      BY <3>3, <3>4, <3>8, <3>9, <3>10, TypePartsNext
  <2>2. CASE ~(HasRow(db, task[s].msg) /\ own \in db.shown /\ own # task[s].msg)
    <3>1. /\ Resume(s, "idle") /\ UNCHANGED <<db, active, grants, turn, budget>>
          /\ UNCHANGED <<starting, restarting, unsaved, finalizing, holds, history>>
      BY <1>3, <2>2 DEF Merge
    <3>2. HandlersOK'
      BY <1>1, <3>1, ResumeType, PlainNames
    <3>3. MemoryOK'
      BY <1>1, <3>1 DEF MemoryOK
    <3> QED
      BY <1>1, <3>1, <3>2, <3>3, TypePartsNext, UnchangedTypes
  <2> QED
    BY <2>1, <2>2
<1>4. CASE Restart(s)
  <2>1. HandlersOK'
    BY <1>1, <1>4, StartTaskType, BecomeType, TaskFields DEF Restart
  <2>2. MemoryOK'
    BY <1>1, <1>4 DEF Restart, MemoryOK
  <2> QED
    BY <1>1, <1>4, <2>1, <2>2, TypePartsNext, UnchangedTypes DEF Restart
<1> QED
  BY <1>2, <1>3, <1>4

(* The callbacks of a model process keep the types.                        *)
LEMMA ModelType ==
  ASSUME TypeInv, NEW t \in TurnIds, Model(t)
  PROVE  TypeInv'
<1>1. db \in Store /\ MemoryOK /\ TurnOK /\ HandlersOK /\ EnvironmentOK
  BY TypeParts
<1>2. /\ t \in 0..MaxTurns /\ 0 \in 0..MaxTurns /\ <<>> \in Message
      /\ turn[t].msg \in Message /\ Paid \in BOOLEAN
  BY <1>1, TurnAssumption DEF TurnIds, TurnAssumption, TurnOK, TurnState, Message
<1>3. MaySettle(t) => holds' \subseteq 0..MaxTurns
  BY <1>1 DEF MaySettle, EnvironmentOK
<1>4. "ended" \in Execs /\ "failed" \in Execs
  BY DEF Execs
<1>5. CASE OnDone(t)
  <2> DEFINE new == [Idle EXCEPT !.pc = "save", !.tid = t]
  <2>1. new \in Task /\ new.pc = "save"
    BY <1>2, IdleType, PcNames DEF Task, Idle
  <2>2. Fork(new)
    BY <1>5 DEF OnDone
  <2> HIDE DEF new
  <2>3. Flows(new)
    BY <2>1 DEF Flows
  <2>4. HandlersOK'
    BY <1>1, <2>1, <2>2, <2>3, ForkType
  <2>5. TurnOK' /\ active' \in 0..MaxTurns /\ grants' \subseteq TurnIds
    BY <1>1, <1>4, <1>5, FinishType DEF OnDone
  <2>6. MemoryOK'
    BY <1>1, <1>5, <2>5 DEF OnDone, MemoryOK
  <2>7. EnvironmentOK'
    BY <1>1, <1>3, <1>5 DEF OnDone, EnvironmentOK, history
  <2> QED
    BY <1>1, <1>5, <2>4, <2>5, <2>6, <2>7, TypePartsNext DEF OnDone
<1>6. ASSUME NEW lost \in BOOLEAN, OnError(t, lost) PROVE TypeInv'
  <2> DEFINE new == [Idle EXCEPT !.pc = IF lost THEN "retry" ELSE "requeue",
                                 !.msg = turn[t].msg, !.pause = Paid, !.then = "dispatch"]
  <2>1. new \in Task /\ new.pc \in {"retry", "requeue"} /\ new.then = "dispatch"
    BY <1>2, IdleType, PcNames DEF Task, Idle
  <2>2. Fork(new)
    BY <1>6 DEF OnError
  <2> HIDE DEF new
  <2>3. Flows(new)
    BY <2>1 DEF Flows
  <2>4. HandlersOK'
    BY <1>1, <2>1, <2>2, <2>3, ForkType
  <2>5. TurnOK' /\ active' \in 0..MaxTurns /\ grants' \subseteq TurnIds
    BY <1>1, <1>4, <1>6, FinishType DEF OnError
  <2>6. MemoryOK'
    BY <1>1, <1>6, <2>5 DEF OnError, MemoryOK
  <2>7. EnvironmentOK'
    <3>1. "error" \in Kinds
      BY DEF Kinds
    <3> QED
      BY <1>1, <1>3, <1>6, <3>1, SpendType DEF OnError, EnvironmentOK, history
  <2> QED
    BY <1>1, <1>6, <2>4, <2>5, <2>6, <2>7, TypePartsNext DEF OnError
<1>7. CASE OnDenied(t)
  <2> DEFINE new == [Idle EXCEPT !.pc = IF turn[t].via = "ws" THEN "keep" ELSE "restore",
                                 !.msg = turn[t].msg, !.pause = TRUE, !.then = "dispatch"]
  <2>1. new \in Task /\ new.pc \in {"keep", "restore"} /\ new.then = "dispatch"
    BY <1>2, IdleType, PcNames DEF Task, Idle
  <2>2. Fork(new)
    BY <1>7 DEF OnDenied
  <2> HIDE DEF new
  <2>3. Flows(new)
    BY <2>1 DEF Flows
  <2>4. HandlersOK'
    BY <1>1, <2>1, <2>2, <2>3, ForkType
  <2>5. TurnOK' /\ active' \in 0..MaxTurns /\ grants' \subseteq TurnIds
    BY <1>1, <1>4, <1>7, FinishType DEF OnDenied
  <2>6. MemoryOK'
    BY <1>1, <1>7, <2>5 DEF OnDenied, MemoryOK
  <2> QED
    BY <1>1, <1>7, <2>4, <2>5, <2>6, TypePartsNext, UnchangedTypes DEF OnDenied
<1>8. CASE EndUnheard(t)
  <2>1. [turn[t] EXCEPT !.exec = "ended"] \in TurnState
    BY <1>1 DEF TurnOK, TurnState
  <2>2. TurnOK'
    BY <1>1, <1>8, <2>1, TurnUpdate DEF EndUnheard, TurnOK
  <2>3. EnvironmentOK'
    BY <1>1, <1>3, <1>8 DEF EndUnheard, EnvironmentOK, history
  <2> QED
    BY <1>1, <1>8, <2>2, <2>3, TypePartsNext, UnchangedTypes DEF EndUnheard
<1>9. CASE Finalize(t)
  <2>1. TurnOK'
    BY <1>1, <1>9, ReplyType DEF Finalize
  <2>2. MemoryOK'
    BY <1>1, <1>9 DEF Finalize, MemoryOK
  <2> QED
    BY <1>1, <1>9, <2>1, <2>2, TypePartsNext, UnchangedTypes DEF Finalize
<1> QED
  BY <1>5, <1>6, <1>7, <1>8, <1>9 DEF Model

(* The commands on the queue that touch the database only keep the types.  *)
LEMMA ManageType ==
  ASSUME TypeInv, NEW kind \in Kinds, NEW stored \in Store, Manage(kind, stored)
  PROVE  TypeInv'
<1>1. MemoryOK /\ TurnOK /\ HandlersOK /\ EnvironmentOK
  BY TypeParts
<1>2. EnvironmentOK'
  BY <1>1, SpendType DEF Manage, EnvironmentOK, history
<1>3. db' \in Store
  BY DEF Manage
<1> QED
  BY <1>1, <1>2, <1>3, TypePartsNext, UnchangedTypes DEF Manage

(* The events of the world outside keep the types.                         *)
LEMMA UserType ==
  ASSUME TypeInv, User
  PROVE  TypeInv'
<1>1. db \in Store /\ MemoryOK /\ TurnOK /\ HandlersOK /\ EnvironmentOK
  BY TypeParts
<1>2. /\ "send" \in Kinds /\ "resend" \in Kinds /\ "stop" \in Kinds
      /\ "now" \in Kinds /\ "edit" \in Kinds /\ "drop" \in Kinds /\ "reorder" \in Kinds /\ "erase" \in Kinds
      /\ "connect" \in Kinds /\ "foreign" \in Kinds /\ "shutdown" \in Kinds
      /\ "crash" \in Kinds
  BY DEF Kinds
<1>3. MaxTurns \in Nat /\ Paid \in BOOLEAN /\ 0 \in 0..MaxTurns
  BY TurnAssumption DEF TurnAssumption
<1>4. ASSUME NEW i \in Inputs, Send(i) PROVE TypeInv'
  <2>1. <<i>> \in Message
    BY DEF Message
  <2>2. db' \in Store
    BY <1>1, <1>4, <2>1, AddMessageType DEF Send
  <2>3. StartTask(<<i>>, "ws") \in Task /\ Flows(StartTask(<<i>>, "ws"))
    BY <2>1, StartTaskType
  <2>4. HandlersOK'
    BY <1>1, <1>4, <2>3, ForkType DEF Send
  <2>5. EnvironmentOK'
    BY <1>1, <1>2, <1>4, SpendType DEF Send, EnvironmentOK
  <2> QED
    BY <1>1, <1>4, <2>2, <2>4, <2>5, TypePartsNext, UnchangedTypes DEF Send
<1>5. ASSUME NEW i \in Inputs, Resend(i) PROVE TypeInv'
  <2>1. <<i>> \in Message
    BY DEF Message
  <2>2. StartTask(<<i>>, "ws") \in Task /\ Flows(StartTask(<<i>>, "ws"))
    BY <2>1, StartTaskType
  <2>3. HandlersOK'
    BY <1>1, <1>5, <2>2, ForkType DEF Resend
  <2>4. EnvironmentOK'
    BY <1>1, <1>2, <1>5, SpendType DEF Resend, EnvironmentOK, history
  <2> QED
    BY <1>1, <1>5, <2>3, <2>4, TypePartsNext, UnchangedTypes DEF Resend
<1>6. CASE Stop
  <2> DEFINE new == [Idle EXCEPT !.pc = "setPause", !.pause = Paid,
                                 !.then = "savePartial", !.tid = active]
  <2>1. new \in Task /\ new.pc = "setPause" /\ new.then = "savePartial"
    BY <1>1, <1>3, IdleType, PcNames DEF Task, Idle, MemoryOK
  <2>2. Fork(new)
    BY <1>6 DEF Stop
  <2> HIDE DEF new
  <2>3. Flows(new)
    BY <2>1 DEF Flows
  <2>4. HandlersOK'
    BY <1>1, <2>1, <2>2, <2>3, ForkType
  <2>5. active \in TurnIds
    BY <1>1, <1>3, <1>6 DEF Stop, MemoryOK, TurnIds
  <2>6. TurnOK'
    BY <1>1, <1>6, <2>5, CancelledType, EndTurnType DEF Stop, TurnOK
  <2>7. MemoryOK'
    BY <1>1, <1>3, <1>6 DEF Stop, MemoryOK, ReleaseTurnTools
  <2>8. EnvironmentOK'
    BY <1>1, <1>2, <1>6, SpendType DEF Stop, EnvironmentOK, history
  <2> QED
    BY <1>6, <1>1, <2>4, <2>6, <2>7, <2>8, TypePartsNext DEF Stop
<1>7. CASE Connect
  <2> DEFINE new == [Idle EXCEPT !.pc = "dispatch"]
  <2>1. new \in Task /\ new.pc = "dispatch"
    BY IdleType, PcNames DEF Task, Idle
  <2>2. Fork(new)
    BY <1>7 DEF Connect
  <2> HIDE DEF new
  <2>3. Flows(new)
    BY <2>1 DEF Flows
  <2>4. HandlersOK'
    BY <1>1, <2>1, <2>2, <2>3, ForkType
  <2>5. EnvironmentOK'
    BY <1>1, <1>2, <1>7, SpendType DEF Connect, EnvironmentOK, history
  <2> QED
    BY <1>1, <1>7, <2>4, <2>5, TypePartsNext, UnchangedTypes DEF Connect
<1>8. CASE Shutdown
  <2> DEFINE halt == [Idle EXCEPT !.pc = "exit", !.via = "flush"]
             stop == [Idle EXCEPT !.pc = "setPause", !.via = "flush", !.pause = TRUE,
                                  !.then = "savePartial", !.tid = active]
  <2>1. halt \in Task /\ halt.pc = "exit"
    BY IdleType, PcNames DEF Task, Idle
  <2>2. stop \in Task /\ stop.pc = "setPause" /\ stop.then = "savePartial"
    BY <1>1, IdleType, PcNames DEF Task, Idle, MemoryOK
  <2>3. Fork(IF active = 0 THEN halt ELSE stop)
    BY <1>8 DEF Shutdown
  <2> HIDE DEF halt, stop
  <2>4. Flows(halt) /\ Flows(stop)
    BY <2>1, <2>2 DEF Flows
  <2>5. HandlersOK'
    BY <1>1, <2>1, <2>2, <2>3, <2>4, ForkType
  <2>6. TurnOK'
    <3>1. \A t \in TurnIds : Cancelled(t) \in Execs
      BY <1>1, CancelledType
    <3>2. \A t \in TurnIds :
            [turn[t] EXCEPT !.saved = @ \/ t \in unsaved, !.done = @ \/ t = active,
                            !.exec = IF t = active THEN Cancelled(t) ELSE @] \in TurnState
      BY ZenonT(60), <1>1, <3>1 DEF TurnOK, TurnState, Execs
    <3> QED
      BY <1>8, <3>2 DEF Shutdown, TurnOK
  <2>7. MemoryOK'
    BY <1>1, <1>3, <1>8 DEF Shutdown, FinalizePending, MemoryOK, ReleaseTurnTools
  <2>8. EnvironmentOK'
    BY <1>1, <1>2, <1>8, SpendType DEF Shutdown, EnvironmentOK, history
  <2> QED
    BY <1>1, <1>8, <2>5, <2>6, <2>7, <2>8, TypePartsNext DEF Shutdown
<1>9. CASE Crash
  <2>1. EnvironmentOK'
    BY <1>1, <1>2, <1>9, SpendType DEF Crash, EnvironmentOK, history
  <2> QED
    BY <1>1, <1>9, <2>1, RebootType, TypePartsNext DEF Crash
<1>10. CASE OtherChatPays
  <2>1. EnvironmentOK'
    BY <1>1, <1>2, <1>3, <1>10, SpendType DEF OtherChatPays, EnvironmentOK, history
  <2> QED
    BY <1>1, <1>10, <2>1, TypePartsNext, UnchangedTypes DEF OtherChatPays
<1>11. ASSUME NEW i \in DOMAIN db.rows, SendNow(i) PROVE TypeInv'
  <2> DEFINE new == [Idle EXCEPT !.pc = "now", !.msg = db.rows[i].msg, !.via = "now",
                                 !.tid = active]
  <2>1. db.rows[i].msg \in Message
    BY <1>1, RowType
  <2>2. new \in Task /\ new.pc = "now"
    BY <1>1, <2>1, IdleType, PcNames DEF Task, Idle, MemoryOK
  <2>3. Fork(new)
    BY <1>11 DEF SendNow
  <2> HIDE DEF new
  <2>4. Flows(new)
    BY <2>2 DEF Flows
  <2>5. HandlersOK'
    BY <1>1, <2>2, <2>3, <2>4, ForkType
  <2>6. EnvironmentOK'
    BY <1>1, <1>2, <1>11, SpendType DEF SendNow, EnvironmentOK, history
  <2> QED
    BY <1>1, <1>11, <2>5, <2>6, TypePartsNext, UnchangedTypes DEF SendNow
<1>12. ASSUME NEW i \in DOMAIN db.rows, EditQueued(i) PROVE TypeInv'
  BY <1>1, <1>2, <1>12, UpdateType, ManageType DEF EditQueued
<1>13. ASSUME NEW i \in DOMAIN db.rows, DeleteQueued(i) PROVE TypeInv'
  BY <1>1, <1>2, <1>13, DeleteMessageType, ManageType DEF DeleteQueued, DeleteQueuedTurn
<1>14. ASSUME NEW i \in DOMAIN db.rows, NEW j \in DOMAIN db.rows, ReorderQueued(i, j)
       PROVE  TypeInv'
  <2> DEFINE p == [[k \in DOMAIN db.rows |-> k] EXCEPT ![i] = j, ![j] = i]
  <2>1. p \in [DOMAIN db.rows -> DOMAIN db.rows]
    OBVIOUS
  <2>2. Manage("reorder", ReorderQueuedTurns(db, p))
    BY <1>14 DEF ReorderQueued
  <2> HIDE DEF p
  <2>3. ReorderQueuedTurns(db, p) \in Store
    BY <1>1, <2>1, ReorderType
  <2> QED
    BY <1>2, <2>2, <2>3, ManageType
<1>15. ASSUME NEW m \in db.shown, Erase(m) PROVE TypeInv'
  BY <1>1, <1>2, <1>15, DeleteMessageType, ManageType DEF Erase
<1> QED
  BY <1>4, <1>5, <1>6, <1>7, <1>8, <1>9, <1>10, <1>11, <1>12, <1>13, <1>14, <1>15 DEF User

(* A settled operation is forgotten.                                       *)
LEMMA SettleType ==
  ASSUME TypeInv, NEW h, Settle(h)
  PROVE  TypeInv'
<1>1. db \in Store /\ MemoryOK /\ TurnOK /\ HandlersOK /\ EnvironmentOK
  BY TypeParts
<1>2. EnvironmentOK'
  BY <1>1 DEF Settle, EnvironmentOK, history
<1> QED
  BY <1>1, <1>2, TypePartsNext, UnchangedTypes DEF Settle

(* A fresh server has a well-formed state.                                 *)
LEMMA InitType == Init => TypeInv
<1> SUFFICES ASSUME Init PROVE TypeInv
  OBVIOUS
<1>1. db \in Store
  BY EmptySeq DEF Init, EmptyStore, Store
<1>2. MemoryOK
  <2>1. 0 \in 0..MaxTurns
    BY TurnAssumption DEF TurnAssumption
  <2>2. starting = FALSE /\ restarting = FALSE
    BY DEF Init
  <2>3. active = 0 /\ unsaved = {} /\ finalizing = {} /\ grants = {}
    BY DEF Init
  <2> QED
    BY <2>1, <2>2, <2>3 DEF MemoryOK
<1>3. NoTurn \in TurnState
  BY EmptySeq DEF NoTurn, TurnState, Message
<1>4. TurnOK
  BY <1>3 DEF Init, TurnOK
<1>5. HandlersOK
  BY IdleType, EmptySeq DEF Init, HandlersOK
<1>6. EnvironmentOK
  BY TurnAssumption DEF Init, EnvironmentOK, TurnAssumption
<1> QED
  BY <1>1, <1>2, <1>4, <1>5, <1>6, TypeParts

(* Every step keeps a well-formed state.                                   *)
LEMMA NextType == TypeInv /\ [Next]_vars => TypeInv'
<1> SUFFICES ASSUME TypeInv, [Next]_vars PROVE TypeInv'
  OBVIOUS
<1>1. ASSUME NEW s \in Slots, Step(s) PROVE TypeInv'
  BY <1>1, AdmissionType, PreparationType, TailType, DispatchType, SendNowType DEF Step
<1>2. ASSUME NEW t \in TurnIds, Model(t) PROVE TypeInv'
  BY <1>2, ModelType
<1>3. ASSUME NEW h \in holds, Settle(h) PROVE TypeInv'
  BY <1>3, SettleType
<1>4. CASE User
  BY <1>4, UserType
<1>5. CASE UNCHANGED vars
  BY <1>5, TypeParts, TypePartsNext, UnchangedTypes DEF vars
<1> QED
  BY <1>1, <1>2, <1>3, <1>4, <1>5 DEF Next

(* The state stays well formed for any inputs, places, turns and budget:   *)
(* what the handlers and the repository store is always a queue of         *)
(* messages, and every token, reply and handler belongs to a turn.         *)
THEOREM TypeCorrect == Spec => []TypeOK
<1>1. TypeInv => TypeOK
  BY DEF TypeInv
<1> QED
  BY <1>1, InitType, NextType, PTL DEF Spec

-----------------------------------------------------------------------------
(* The slot of the conversation.  Most steps start no preparation and keep *)
(* "starting": they cannot break SlotExclusive.                            *)

Prep(h) == h.pc \in {"prepare", "late"} \/ (h.pc = "setPause" /\ h.then = "prepare")

NoNewStart == \A r \in Slots : Preparing(r)' => Preparing(r)

Calm == NoNewStart /\ starting' = starting /\ active' \in {active, 0}

(* A calm step leaves the slot as it was.                                  *)
LEMMA CalmSlot ==
  ASSUME SlotExclusive, Calm
  PROVE  SlotExclusive'
BY DEF SlotExclusive, Calm, NoNewStart

(* A handler that goes on elsewhere than to a preparation starts none.     *)
LEMMA BecomeCalm ==
  ASSUME HandlersOK, NEW s \in Slots, NEW new, Become(s, new),
         Prep(new) => Prep(task[s])
  PROVE  NoNewStart
<1>1. \A r \in Slots : task'[r] = IF r = s THEN new ELSE task[r]
  BY DEF Become, HandlersOK
<1>2. \A r \in Slots : Prep(task'[r]) => Prep(task[r])
  BY <1>1
<1>3. \A r \in Slots : (Preparing(r) <=> Prep(task[r])) /\ (Preparing(r)' <=> Prep(task'[r]))
  BY DEF Preparing, Prep, At
<1> QED
  BY <1>2, <1>3 DEF NoNewStart

(* The same for a handler that resumes where every way is allowed.         *)
LEMMA ResumeCalm ==
  ASSUME HandlersOK, NEW s \in Slots, NEW pc \in PlainPcs, Resume(s, pc)
  PROVE  NoNewStart
<1>1. PICK new \in {Idle, [task[s] EXCEPT !.pc = pc]} : Become(s, new) /\ new.pc = pc
  BY DEF Resume, HandlersOK, Task, Idle
<1>2. ~Prep(new)
  BY <1>1 DEF Prep, PlainPcs
<1> QED
  BY <1>1, <1>2, BecomeCalm

(* The same for a handler on its way back to the queue.                    *)
LEMMA PutBackCalm ==
  ASSUME HandlersOK, NEW s \in Slots,
         task[s].pc \in {"restore", "prioritize", "requeue", "keep", "markFailed"},
         NEW pc \in {"prioritize", "markFailed", "setPause"},
         Resume(s, pc)
  PROVE  NoNewStart
<1> DEFINE new == [task[s] EXCEPT !.pc = pc]
<1>1. new.pc = pc /\ new.then = task[s].then
  BY DEF HandlersOK, Task
<1>2. task[s].then \in {"idle", "dispatch"}
  BY DEF HandlersOK, Flows
<1>3. Become(s, new)
  BY DEF Resume
<1> HIDE DEF new
<1>4. ~Prep(new)
  BY <1>1, <1>2 DEF Prep
<1> QED
  BY <1>3, <1>4, BecomeCalm

(* The same for a handler that sets the pause for another purpose.         *)
LEMMA PauseCalm ==
  ASSUME HandlersOK, NEW s \in Slots, NEW value, NEW next, next # "prepare",
         Pause(s, value, next)
  PROVE  NoNewStart
<1> DEFINE new == [task[s] EXCEPT !.pc = "setPause", !.pause = value, !.then = next]
<1>1. new.pc = "setPause" /\ new.then = next
  BY DEF HandlersOK, Task
<1>2. Become(s, new)
  BY DEF Pause
<1> HIDE DEF new
<1>3. ~Prep(new)
  BY <1>1 DEF Prep
<1> QED
  BY <1>2, <1>3, BecomeCalm

(* The same for a new handler.                                             *)
LEMMA ForkCalm ==
  ASSUME HandlersOK, NEW new, Fork(new), ~Prep(new)
  PROVE  NoNewStart
BY BecomeCalm DEF Fork

(* A start that is called begins with its checks.                          *)
LEMMA StartCalm ==
  ASSUME NEW m, NEW via
  PROVE  ~Prep(StartTask(m, via))
BY DEF StartTask, Idle, Prep

(* The handlers as they are start nothing.                                 *)
LEMMA StillCalm == UNCHANGED task => NoNewStart
BY DEF NoNewStart, Preparing, At

(* After a restart of the process the slot is free.                        *)
LEMMA RebootSlot ==
  ASSUME Reboot
  PROVE  SlotExclusive'
<1>1. \A s \in Slots : ~Preparing(s)'
  BY DEF Reboot, Preparing, At, Idle
<1>2. starting' = FALSE
  BY DEF Reboot
<1> QED
  BY <1>1, <1>2 DEF SlotExclusive

(* A start that throws keeps the slot or restarts the process.             *)
LEMMA ThrowSlot ==
  ASSUME HandlersOK, SlotExclusive, NEW s \in Slots, Throw(s)
  PROVE  SlotExclusive'
<1>1. CASE Reboot
  BY <1>1, RebootSlot
<1>2. CASE Resume(s, "idle") /\ UNCHANGED <<memory, turn>>
  BY <1>2, ResumeCalm, PlainNames, CalmSlot DEF Calm, memory
<1>3. CASE /\ Become(s, [task[s] EXCEPT !.pc = "requeue", !.pause = TRUE, !.then = "idle"])
           /\ UNCHANGED <<memory, turn>>
  <2> DEFINE new == [task[s] EXCEPT !.pc = "requeue", !.pause = TRUE, !.then = "idle"]
  <2>1. new.pc = "requeue"
    BY DEF HandlersOK, Task
  <2> HIDE DEF new
  <2>2. ~Prep(new)
    BY <2>1 DEF Prep
  <2>3. NoNewStart
    BY <1>3, <2>2, BecomeCalm DEF new
  <2> QED
    BY <1>3, <2>3, CalmSlot DEF Calm, memory
<1> QED
  BY <1>1, <1>2, <1>3 DEF Throw

(* A start that was preparing gives the slot up or gives it to a turn.     *)
LEMMA LeaveSlot ==
  ASSUME HandlersOK, SlotExclusive, NEW s \in Slots, Preparing(s),
         Resume(s, "idle") \/ Resume(s, "launch"), starting' = FALSE
  PROVE  SlotExclusive'
<1>1. PICK new : Become(s, new) /\ new.pc \in {"idle", "launch"}
  <2>1. [task[s] EXCEPT !.pc = "launch"].pc = "launch" /\ Idle.pc = "idle"
    BY DEF HandlersOK, Task, Idle
  <2> QED
    BY <2>1 DEF Resume
<1>2. \A r \in Slots : task'[r] = IF r = s THEN new ELSE task[r]
  BY <1>1 DEF Become, HandlersOK
<1>3. \A r \in Slots : r # s => ~Preparing(r)
  BY DEF SlotExclusive
<1>4. \A r \in Slots : ~Preparing(r)'
  BY <1>1, <1>2, <1>3 DEF Preparing, At
<1> QED
  BY <1>4 DEF SlotExclusive

(* The slot is claimed only when nobody holds it.                          *)
LEMMA ClaimStep ==
  ASSUME HandlersOK, SlotExclusive, NEW s \in Slots, ClaimSlot(s)
  PROVE  SlotExclusive'
<1> DEFINE new == [task[s] EXCEPT !.pc = "setPause", !.pause = FALSE, !.then = "prepare"]
<1>1. starting' = TRUE /\ active' = 0 /\ ~starting /\ Become(s, new)
  BY DEF ClaimSlot, SlotFree, Pause
<1> HIDE DEF new
<1>2. \A r \in Slots : task'[r] = IF r = s THEN new ELSE task[r]
  BY <1>1 DEF Become, HandlersOK
<1>3. \A r \in Slots : ~Preparing(r)
  BY <1>1 DEF SlotExclusive
<1>4. \A r \in Slots : Preparing(r)' => r = s
  BY <1>2, <1>3 DEF Preparing, At
<1> QED
  BY <1>1, <1>4 DEF SlotExclusive

(* Storing the pause lets the start that claimed the slot go on.           *)
LEMMA SetPauseStep ==
  ASSUME HandlersOK, SlotExclusive, NEW s \in Slots, SetPause(s)
  PROVE  SlotExclusive'
<1>1. task[s].pc = "setPause" /\ Resume(s, task[s].then) /\ UNCHANGED <<starting, active>>
  BY DEF SetPause, Called
<1>2. CASE task[s].then \in PlainPcs
  BY <1>1, <1>2, ResumeCalm, CalmSlot DEF Calm
<1>3. CASE task[s].then \notin PlainPcs
  <2> DEFINE new == [task[s] EXCEPT !.pc = task[s].then]
  <2>1. task[s].then = "prepare"
    BY <1>1, <1>3 DEF HandlersOK, Flows, PlainPcs
  <2>2. Prep(task[s])
    BY <1>1, <2>1 DEF Prep
  <2>3. Become(s, new)
    BY <1>1, <2>1 DEF Resume
  <2> HIDE DEF new
  <2> QED
    BY <1>1, <2>2, <2>3, BecomeCalm, CalmSlot DEF Calm
<1> QED
  BY <1>2, <1>3

(* The other steps of the admission start no preparation.                  *)
LEMMA AdmissionSlot ==
  ASSUME HandlersOK, SlotExclusive, NEW s \in Slots
  PROVE  /\ Issue(s) \/ Deny(s) \/ RefusePending(s) => SlotExclusive'
         /\ FindBusy(s) \/ Enqueue(s) \/ Prioritize(s) => SlotExclusive'
<1>1. CASE Issue(s)
  BY <1>1, StillCalm, CalmSlot DEF Issue, Calm, memory
<1>2. CASE Deny(s)
  BY <1>2, ResumeCalm, PlainNames, CalmSlot DEF Deny, Calm, memory
<1>3. CASE RefusePending(s)
  <2> DEFINE new == [task[s] EXCEPT !.pc = "restore", !.pause = TRUE, !.then = "idle"]
  <2>1. new.pc = "restore"
    BY DEF HandlersOK, Task
  <2>2. Resume(s, "idle") \/ Become(s, new)
    BY <1>3 DEF RefusePending
  <2> HIDE DEF new
  <2>3. ~Prep(new)
    BY <2>1 DEF Prep
  <2>4. NoNewStart
    BY <2>2, <2>3, ResumeCalm, BecomeCalm, PlainNames
  <2> QED
    BY <1>3, <2>4, CalmSlot DEF RefusePending, Calm, memory
<1>4. CASE FindBusy(s)
  BY <1>4, ResumeCalm, PlainNames, CalmSlot DEF FindBusy, Calm, memory
<1>5. CASE Enqueue(s)
  <2>1. CASE HasMessage(db, task[s].msg)
    <3>1. NoNewStart
      <4>1. CASE At(s, "park")
        BY <1>5, <2>1, <4>1, ResumeCalm, PlainNames DEF Enqueue
      <4>2. CASE ~At(s, "park")
        <5>1. task[s].pc = "restore" /\ Resume(s, "prioritize")
          BY <1>5, <2>1, <4>2 DEF Enqueue, Called, At
        <5> QED
          BY <5>1, PutBackCalm
      <4> QED
        BY <4>1, <4>2
    <3> QED
      BY <1>5, <2>1, <3>1, CalmSlot DEF Enqueue, Calm, memory
  <2>2. CASE ~HasMessage(db, task[s].msg)
    BY <1>5, <2>2, ThrowSlot DEF Enqueue
  <2> QED
    BY <2>1, <2>2
<1>6. CASE Prioritize(s)
  <2>1. NoNewStart
    BY <1>6, PutBackCalm DEF Prioritize, Called
  <2> QED
    BY <1>6, <2>1, CalmSlot DEF Prioritize, Calm, memory
<1> QED
  BY <1>1, <1>2, <1>3, <1>4, <1>5, <1>6

(* The preparation keeps the slot until it gives it up or to its turn.     *)
LEMMA PreparationSlot ==
  ASSUME HandlersOK, SlotExclusive, NEW s \in Slots
  PROVE  /\ RefusePreparation(s) \/ FailPreparation(s) \/ GrantTools(s) => SlotExclusive'
         /\ MachineOffline(s) \/ Register(s) \/ Launch(s) => SlotExclusive'
<1>1. CASE RefusePreparation(s)
  BY <1>1, LeaveSlot DEF RefusePreparation, Preparing, At
<1>2. CASE FailPreparation(s)
  BY <1>2, ThrowSlot DEF FailPreparation
<1>3. CASE GrantTools(s)
  <2>1. PICK t \in TurnIds : Become(s, [task[s] EXCEPT !.pc = "late", !.tid = t])
    BY <1>3 DEF GrantTools
  <2>2. Prep(task[s])
    BY <1>3 DEF GrantTools, At, Prep
  <2>3. NoNewStart
    BY <2>1, <2>2, BecomeCalm
  <2> QED
    BY <1>3, <2>3, CalmSlot DEF GrantTools, Calm
<1>4. CASE MachineOffline(s)
  BY <1>4, LeaveSlot DEF MachineOffline, Preparing, At
<1>5. CASE Register(s)
  BY <1>5, LeaveSlot DEF Register, Occupy, Preparing, At
<1>6. CASE Launch(s)
  BY <1>6, ResumeCalm, PlainNames, CalmSlot DEF Launch, Calm, memory
<1> QED
  BY <1>1, <1>2, <1>3, <1>4, <1>5, <1>6

(* The tails of the callbacks and the end of the process.                  *)
LEMMA TailSlot ==
  ASSUME HandlersOK, SlotExclusive, NEW s \in Slots
  PROVE  /\ PutBack(s) \/ MarkFailed(s) \/ Save(s) \/ Insert(s) => SlotExclusive'
         /\ SavePartial(s) \/ Exit(s) => SlotExclusive'
<1>1. CASE PutBack(s)
  <2>1. CASE Reboot
    BY <2>1, RebootSlot
  <2>2. CASE UNCHANGED <<memory, turn>>
    <3>1. CASE HasMessage(db, task[s].msg)
      <4>1. CASE At(s, "requeue")
        BY <1>1, <2>2, <3>1, <4>1, PutBackCalm, CalmSlot DEF PutBack, At, Calm, memory
      <4>2. CASE At(s, "keep")
        BY <1>1, <2>2, <3>1, <4>2, PutBackCalm, CalmSlot DEF PutBack, At, Calm, memory
      <4>3. CASE At(s, "retry")
        BY <1>1, <2>2, <3>1, <4>3, ResumeCalm, PlainNames, CalmSlot
        DEF PutBack, At, Calm, memory
      <4> QED
        BY <1>1, <4>1, <4>2, <4>3 DEF PutBack, Called, At
    <3>2. CASE ~HasMessage(db, task[s].msg)
      BY <1>1, <2>2, <3>2, RebootSlot, ResumeCalm, PlainNames, CalmSlot
      DEF PutBack, Calm, memory
    <3> QED
      BY <3>1, <3>2
  <2> QED
    BY <1>1, <2>1, <2>2 DEF PutBack
<1>2. CASE MarkFailed(s)
  BY <1>2, PutBackCalm, CalmSlot DEF MarkFailed, Called, Calm, memory
<1>3. CASE Save(s)
  BY <1>3, ResumeCalm, PlainNames, CalmSlot DEF Save, Calm
<1>4. CASE Insert(s)
  BY <1>4, ResumeCalm, PlainNames, CalmSlot DEF Insert, Calm, memory
<1>5. CASE SavePartial(s)
  BY <1>5, ResumeCalm, PlainNames, CalmSlot DEF SavePartial, Calm, memory
<1>6. CASE Exit(s)
  BY <1>6, RebootSlot DEF Exit
<1> QED
  BY <1>1, <1>2, <1>3, <1>4, <1>5, <1>6

(* dispatchNext() and sendQueuedNow() call start(), they prepare nothing.  *)
LEMMA DispatchSlot ==
  ASSUME HandlersOK, SlotExclusive, NEW s \in Slots
  PROVE  /\ Dispatch(s) \/ Gate(s) \/ Take(s) => SlotExclusive'
         /\ ChooseNow(s) \/ Merge(s) \/ Restart(s) => SlotExclusive'
<1>1. CASE Dispatch(s)
  BY <1>1, ResumeCalm, PlainNames, CalmSlot DEF Dispatch, Calm, memory
<1>2. CASE Gate(s)
  <2>1. NoNewStart
    BY <1>2, ResumeCalm, PauseCalm, PlainNames DEF Gate
  <2> QED
    BY <1>2, <2>1, CalmSlot DEF Gate, Calm, memory
<1>3. CASE Take(s)
  <2>1. NoNewStart
    BY <1>3, ResumeCalm, BecomeCalm, StartCalm, PlainNames DEF Take
  <2> QED
    BY <1>3, <2>1, CalmSlot DEF Take, Calm, memory
<1>4. CASE ChooseNow(s)
  <2> DEFINE new == [task[s] EXCEPT !.pc = "prioritize", !.pause = FALSE,
                                    !.then = "dispatch"]
  <2>1. new.pc = "prioritize"
    BY DEF HandlersOK, Task
  <2>2. \/ Pause(s, TRUE, "idle") \/ Resume(s, "idle") \/ Resume(s, "merge")
        \/ Become(s, new)
    BY <1>4 DEF ChooseNow
  <2> HIDE DEF new
  <2>3. ~Prep(new)
    BY <2>1 DEF Prep
  <2>4. NoNewStart
    BY <2>2, <2>3, PauseCalm, ResumeCalm, BecomeCalm, PlainNames
  <2> QED
    BY <1>4, <2>4, CalmSlot DEF ChooseNow, Calm, memory
<1>5. CASE Merge(s)
  <2> DEFINE merged == turn[task[s].tid].msg \o task[s].msg
             onward == [task[s] EXCEPT !.pc = "setPause", !.msg = merged,
                                       !.pause = FALSE, !.then = "restart"]
             back == [task[s] EXCEPT !.pc = "requeue", !.msg = merged, !.pause = TRUE,
                                     !.then = "idle", !.via = "command"]
  <2>1. onward.pc = "setPause" /\ onward.then = "restart" /\ back.pc = "requeue"
    BY DEF HandlersOK, Task
  <2>2. Resume(s, "idle") \/ Become(s, onward) \/ Become(s, back)
    BY <1>5 DEF Merge
  <2>3. active' \in {active, 0} /\ starting' = starting
    BY <1>5 DEF Merge
  <2> HIDE DEF onward, back
  <2>4. ~Prep(onward) /\ ~Prep(back)
    BY <2>1 DEF Prep
  <2>5. NoNewStart
    BY <2>2, <2>4, ResumeCalm, BecomeCalm, PlainNames
  <2> QED
    BY <2>3, <2>5, CalmSlot DEF Calm
<1>6. CASE Restart(s)
  BY <1>6, BecomeCalm, StartCalm, CalmSlot DEF Restart, Calm
<1> QED
  BY <1>1, <1>2, <1>3, <1>4, <1>5, <1>6

(* The callbacks may free the slot of their own turn, nothing else.        *)
LEMMA ModelSlot ==
  ASSUME HandlersOK, SlotExclusive, NEW t \in TurnIds, Model(t)
  PROVE  SlotExclusive'
<1>1. ASSUME NEW exec, Finish(t, exec) PROVE active' \in {active, 0}
  BY <1>1 DEF Finish
<1>2. ASSUME NEW new, Fork(new), new.pc \notin {"prepare", "late", "setPause"}
      PROVE  NoNewStart
  BY <1>2, ForkCalm DEF Prep
<1>3. CASE OnDone(t)
  <2>1. NoNewStart
    <3>1. [Idle EXCEPT !.pc = "save", !.tid = t].pc = "save"
      BY DEF Idle
    <3> QED
      BY <1>2, <1>3, <3>1 DEF OnDone
  <2> QED
    BY <1>1, <1>3, <2>1, CalmSlot DEF OnDone, Calm
<1>4. ASSUME NEW lost \in BOOLEAN, OnError(t, lost) PROVE SlotExclusive'
  <2> DEFINE new == [Idle EXCEPT !.pc = IF lost THEN "retry" ELSE "requeue",
                                 !.msg = turn[t].msg, !.pause = Paid, !.then = "dispatch"]
  <2>1. new.pc \in {"retry", "requeue"}
    BY DEF Idle
  <2>2. Fork(new)
    BY <1>4 DEF OnError
  <2> HIDE DEF new
  <2>3. NoNewStart
    BY <1>2, <2>1, <2>2
  <2> QED
    BY <1>1, <1>4, <2>3, CalmSlot DEF OnError, Calm
<1>5. CASE OnDenied(t)
  <2> DEFINE new == [Idle EXCEPT !.pc = IF turn[t].via = "ws" THEN "keep" ELSE "restore",
                                 !.msg = turn[t].msg, !.pause = TRUE, !.then = "dispatch"]
  <2>1. new.pc \in {"keep", "restore"}
    BY DEF Idle
  <2>2. Fork(new)
    BY <1>5 DEF OnDenied
  <2> HIDE DEF new
  <2>3. NoNewStart
    BY <1>2, <2>1, <2>2
  <2> QED
    BY <1>1, <1>5, <2>3, CalmSlot DEF OnDenied, Calm
<1>6. CASE EndUnheard(t)
  BY <1>6, StillCalm, CalmSlot DEF EndUnheard, Calm, memory, handlers
<1>7. CASE Finalize(t)
  BY <1>7, StillCalm, CalmSlot DEF Finalize, Calm, handlers
<1> QED
  BY <1>3, <1>4, <1>5, <1>6, <1>7 DEF Model

(* The world outside prepares nothing either.                              *)
LEMMA UserSlot ==
  ASSUME HandlersOK, SlotExclusive, User
  PROVE  SlotExclusive'
<1>1. ASSUME NEW kind, NEW stored, Manage(kind, stored) PROVE SlotExclusive'
  BY <1>1, StillCalm, CalmSlot DEF Manage, Calm, memory, handlers
<1>2. ASSUME NEW i \in Inputs, Send(i) \/ Resend(i) PROVE SlotExclusive'
  BY <1>2, ForkCalm, StartCalm, CalmSlot DEF Send, Resend, Calm, memory
<1>3. CASE Stop
  <2> DEFINE new == [Idle EXCEPT !.pc = "setPause", !.pause = Paid,
                                 !.then = "savePartial", !.tid = active]
  <2>1. new.pc = "setPause" /\ new.then = "savePartial"
    BY DEF Idle
  <2>2. Fork(new)
    BY <1>3 DEF Stop
  <2> HIDE DEF new
  <2>3. ~Prep(new)
    BY <2>1 DEF Prep
  <2> QED
    BY <1>3, <2>2, <2>3, ForkCalm, CalmSlot DEF Stop, Calm
<1>4. CASE Connect
  <2>1. ~Prep([Idle EXCEPT !.pc = "dispatch"])
    BY DEF Idle, Prep
  <2> QED
    BY <1>4, <2>1, ForkCalm, CalmSlot DEF Connect, Calm, memory
<1>5. CASE Shutdown
  <2> DEFINE halt == [Idle EXCEPT !.pc = "exit", !.via = "flush"]
             stop == [Idle EXCEPT !.pc = "setPause", !.via = "flush", !.pause = TRUE,
                                  !.then = "savePartial", !.tid = active]
  <2>1. halt.pc = "exit" /\ stop.pc = "setPause" /\ stop.then = "savePartial"
    BY DEF Idle
  <2>2. Fork(IF active = 0 THEN halt ELSE stop)
    BY <1>5 DEF Shutdown
  <2> HIDE DEF halt, stop
  <2>3. ~Prep(IF active = 0 THEN halt ELSE stop)
    BY <2>1 DEF Prep
  <2>4. NoNewStart
    BY <2>2, <2>3, ForkCalm
  <2> QED
    BY <1>5, <2>4, CalmSlot DEF Shutdown, Calm
<1>6. CASE Crash
  BY <1>6, RebootSlot DEF Crash
<1>7. CASE OtherChatPays
  BY <1>7, StillCalm, CalmSlot DEF OtherChatPays, Calm, memory, handlers
<1>8. ASSUME NEW i \in DOMAIN db.rows, SendNow(i) PROVE SlotExclusive'
  <2> DEFINE new == [Idle EXCEPT !.pc = "now", !.msg = db.rows[i].msg, !.via = "now",
                                 !.tid = active]
  <2>1. new.pc = "now"
    BY DEF Idle
  <2>2. Fork(new)
    BY <1>8 DEF SendNow
  <2> HIDE DEF new
  <2>3. ~Prep(new)
    BY <2>1 DEF Prep
  <2> QED
    BY <1>8, <2>2, <2>3, ForkCalm, CalmSlot DEF SendNow, Calm, memory
<1> QED
  BY <1>1, <1>2, <1>3, <1>4, <1>5, <1>6, <1>7, <1>8
  DEF User, EditQueued, DeleteQueued, ReorderQueued, Erase

(* SlotInv is inductive.                                                   *)
LEMMA SlotInvInductive == SlotInv /\ [Next]_vars => SlotInv'
<1> SUFFICES ASSUME SlotInv, [Next]_vars PROVE SlotInv'
  OBVIOUS
<1>1. TypeInv /\ SlotExclusive /\ HandlersOK
  BY TypeParts DEF SlotInv, TypeInv
<1>2. SlotExclusive'
  <2>1. ASSUME NEW s \in Slots, Step(s) PROVE SlotExclusive'
    BY <1>1, <2>1, AdmissionSlot, ClaimStep, SetPauseStep, PreparationSlot, TailSlot,
       DispatchSlot DEF Step
  <2>2. ASSUME NEW t \in TurnIds, Model(t) PROVE SlotExclusive'
    BY <1>1, <2>2, ModelSlot
  <2>3. ASSUME NEW h \in holds, Settle(h) PROVE SlotExclusive'
    BY <1>1, <2>3, StillCalm, CalmSlot DEF Settle, Calm, memory, handlers
  <2>4. CASE User
    BY <1>1, <2>4, UserSlot
  <2>5. CASE UNCHANGED vars
    BY <1>1, <2>5, StillCalm, CalmSlot DEF vars, Calm, memory, handlers
  <2> QED
    BY <2>1, <2>2, <2>3, <2>4, <2>5 DEF Next
<1>3. TypeInv'
  BY <1>1, NextType
<1> QED
  BY <1>2, <1>3 DEF SlotInv, TypeInv

(* Handlers stand where they may, and the slot is held once (the await     *)
(* points of start, dispatchNext and the commands).                        *)
THEOREM SlotInvKept == Spec => []SlotInv
<1>1. Init => SlotInv
  <2>1. Init => SlotExclusive
    BY DEF Init, SlotExclusive, Preparing, At, Idle
  <2> QED
    BY <2>1, InitType DEF SlotInv, TypeInv
<1> QED
  BY <1>1, SlotInvInductive, PTL DEF Spec

(* The conversation's slot is held once, however many handlers run, turns  *)
(* end, commands arrive, and wherever the process dies: two starts never   *)
(* prepare together and none prepares next to a registered turn.           *)
THEOREM SlotHeldOnce == Spec => []SlotExclusive
<1>1. SlotInv => SlotExclusive
  BY DEF SlotInv
<1> QED
  BY <1>1, SlotInvKept, PTL

=============================================================================
