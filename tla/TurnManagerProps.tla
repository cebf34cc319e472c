--------------------------- MODULE TurnManagerProps ---------------------------
(***************************************************************************)
(* What the turn manager must guarantee, stated over the state of          *)
(* TurnManager, and the abstract slot it implements.                       *)
(***************************************************************************)
EXTENDS TurnManager

TypeOK ==
  /\ db \in Store
  /\ starting \in BOOLEAN /\ active \in 0..MaxTurns /\ restarting \in BOOLEAN
  /\ unsaved \subseteq TurnIds /\ finalizing \subseteq TurnIds /\ grants \subseteq TurnIds
  /\ turn \in [TurnIds -> TurnState]
  /\ task \in [Slots -> Task] /\ lane \in Seq(Slots)
  /\ holds \subseteq 0..MaxTurns
  /\ refused \subseteq Message /\ fresh \subseteq Inputs
  /\ budget \in [Kinds -> Nat]

(* A handler that holds the conversation's slot: between starting.add and  *)
(* the registration of the turn.                                           *)
Preparing(s) ==
  \/ task[s].pc \in {"prepare", "late"}
  \/ At(s, "setPause") /\ task[s].then = "prepare"

(* The slot of the conversation is held once: two starts never prepare at  *)
(* the same time, whoever called them, and none prepares next to a         *)
(* registered turn (the check and starting.add of start()).                *)
SlotExclusive ==
  /\ \A s \in Slots : Preparing(s) => starting
  /\ \A r, s \in Slots : Preparing(r) /\ Preparing(s) => r = s
  /\ starting => active = 0

(* Where a handler goes on fits to how it got there.  Only a start that    *)
(* claimed the slot prepares, also when its way leads over setPause; no    *)
(* handler that puts a message back ever does.                             *)
Flows(h) ==
  /\ h.pc \in {"restore", "prioritize", "requeue", "keep", "markFailed"}
       => h.then \in {"idle", "dispatch"}
  /\ h.pc = "setPause"
       => h.then \in {"idle", "dispatch", "prepare", "savePartial", "restart"}
  /\ h.pc \in {"check", "prepare", "late"} \/ (h.pc = "setPause" /\ h.then = "prepare")
       => h.via \in {"ws", "queue", "now"}

(* The slot is held once and the handlers around it are at places that     *)
(* keep it so: the inductive form of SlotExclusive.                        *)
SlotInv == TypeOK /\ (\A s \in Slots : Flows(task[s])) /\ SlotExclusive

(* A finished turn has no registered tool tokens (releaseTurnTools).       *)
ToolsReleased == \A t \in grants : ~turn[t].done

(* At most one reply is stored for a turn: the tail of onDone, finalize at *)
(* shutdown and the partial text of a stopped turn exclude each other.     *)
OneReply == \A t \in TurnIds : turn[t].replies <= 1

(* A hidden message is in the queue and a queued row has its message: no   *)
(* step of any handler makes a question invisible or leaves a row whose    *)
(* text is gone, and a message is never queued twice.                      *)
QueueMatchesMessages ==
  /\ \A m \in db.hidden : HasRow(db, m) /\ m \notin db.shown
  /\ \A i \in DOMAIN db.rows : HasMessage(db, db.rows[i].msg)
  /\ \A i, j \in DOMAIN db.rows : db.rows[i].msg = db.rows[j].msg => i = j

(* What the user wrote is in one stored message only: merging messages     *)
(* while other handlers move them neither copies nor forks an input.       *)
InputsStoredOnce ==
  \A m, n \in db.shown \cup db.hidden :
    ToSet(m) \cap ToSet(n) # {} => m = n

(* Handlers that still have to do something about their message.           *)
Carries(s) ==
  \/ task[s].pc \in {"check", "park", "restore", "prepare", "late", "launch", "requeue",
                     "keep", "retry", "restart"}
  \/ At(s, "setPause") /\ task[s].then \in {"prepare", "restart"}

(* Every stored question is queued, being handled, given to a turn or      *)
(* refused aloud: taking a row before admission never loses it.  A turn    *)
(* whose onError was called no longer covers its question, which has to be *)
(* put back.                                                               *)
NothingDropped ==
  \A m \in db.shown \cup db.hidden :
    \/ HasRow(db, m) \/ m \in refused
    \/ \E s \in Slots : Carries(s) /\ task[s].msg = m
    \/ \E t \in TurnIds : turn[t].msg = m /\ turn[t].exec \notin {"free", "refused", "failed"}

(* The second parallel turn is forbidden: one model process that nobody    *)
(* stopped at a time.                                                      *)
OneExecution ==
  \A t, u \in TurnIds : Running(t) /\ Running(u) => t = u

Waits(i) == \E k \in Waiting(db) : db.rows[k].msg = <<i>>

Flushing == \E s \in Slots : task[s].via = "flush"

(* The conversation is busy: a turn is prepared or runs, or a handler is   *)
(* under way other than one that parks its question.                       *)
Busy == starting \/ active # 0 \/ \E s \in Slots : task[s].pc \notin {"idle", "park"}

(* Refused starts and stops of the server that are still to come.          *)
Setbacks(b) == b["refuse"] + b["shutdown"]

NoSetback == \E b \in Budgets : Setbacks(budget) = Setbacks(b)

(* A question in a queue that is not paused, not failed, is taken in the   *)
(* end if the conversation is busy, or if it had no setback yet: the end   *)
(* of a turn and a connection call for the next one.  Two setbacks leave   *)
(* the queue as it is: a refused start, which frees the slot and calls for *)
(* nobody, and a stop of the server.  A question parked meanwhile may wait *)
(* at rest after them, but no longer than until the conversation is busy.  *)
QueueDrains ==
  \A i \in Inputs : \A n \in UNION {0..Setbacks(b) : b \in Budgets} :
    (/\ Waits(i) /\ ~db.paused /\ ~Flushing /\ (Busy \/ NoSetback)
     /\ Setbacks(budget) = n)
      ~> (~Waits(i) \/ Setbacks(budget) < n)

(* The slot of a start that does not throw is given up or passed to a turn *)
(* whatever the user does meanwhile.                                       *)
SlotReleased == starting ~> ~starting

(* A finished answer is stored once the model is done, also when the       *)
(* server is stopped while its images are being moved.                     *)
ReplySaved ==
  \A t \in TurnIds : (t \in unsaved /\ ~Flushing) ~> (turn[t].replies = 1)

-----------------------------------------------------------------------------
(* The conversation's slot.                                                *)

Slot == INSTANCE ConversationSlot WITH
  Turns <- TurnIds,
  phase <- IF starting THEN "preparing" ELSE IF active # 0 THEN "running" ELSE "free",
  owner <- active,
  had <- {t \in TurnIds : turn[t].exec \notin {"free", "refused"}}

(* The turn manager implements the slot: one turn after the other, each    *)
(* prepared while no other runs, with every await, command and restart.    *)
SlotSpec == Slot!Spec
=============================================================================
