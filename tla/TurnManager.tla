----------------------------- MODULE TurnManager -----------------------------
(***************************************************************************)
(* The turn manager of one conversation (apps/server/src/turns.ts): the    *)
(* closures of createTurnManager, the handlers that session.ts and the     *)
(* model client call, and the durable queue of TurnQueueStore.             *)
(*                                                                         *)
(* Node runs one piece of code at a time and every await lets another one  *)
(* in.  A handler in progress is a record in a slot of "task"; its pc      *)
(* names the await it is parked at.  One action resumes one handler: the   *)
(* awaited database call takes effect and the code up to the next await    *)
(* runs.  Database calls take effect in the order in which they were made  *)
(* (the lane of db/repos/base.ts).  Awaits that only read what the         *)
(* properties do not tell apart are folded into the next one, which then   *)
(* is made at an unknown time (Issue).                                     *)
(***************************************************************************)
EXTENDS TurnQueueStore, FiniteSets

CONSTANTS
  Slots,        \* places for handlers in progress at once
  MaxTurns,     \* turns that reach the end of preparation
  Paid,         \* accounted public chat: Stop ends in the background
  AsyncLaunch,  \* the registered turn awaits before client.send
  Budgets       \* how often each kind of outside event may happen: a
                \* behaviour starts with one of these

Kinds == {"send", "resend", "stop", "now", "edit", "drop", "reorder", "erase",
          "connect", "refuse", "fault", "error", "foreign", "shutdown", "crash"}

ASSUME TurnAssumption ==
  /\ MaxTurns \in Nat
  /\ Paid \in BOOLEAN /\ AsyncLaunch \in BOOLEAN
  /\ Budgets \subseteq [Kinds -> Nat]

VARIABLES
  db,          \* the stored conversation
  starting,    \* the conversation is in the set "starting"
  active,      \* the turn in the map "turns", 0 if there is none
  restarting,  \* the conversation is in the set "restarting"
  unsaved,     \* turns whose finalize closure is in pendingSaves
  finalizing,  \* turns whose finalize closure was called at shutdown
  grants,      \* turns whose tool tokens are registered
  turn,        \* TurnState and the model process behind it, by turn
  task,        \* the handlers in progress
  lane,        \* the handlers whose database calls wait for their turn
  holds,       \* unsettled accounting jobs of this user, 0: of another chat
  refused,     \* history: messages whose refusal was shown to the user
  fresh,       \* history: inputs the user has not sent yet
  budget       \* what is left of the budget

memory == <<starting, active, restarting, unsaved, finalizing, grants>>
history == <<refused, fresh>>
handlers == <<task, lane>>
vars == <<db, memory, turn, handlers, holds, history, budget>>

TurnIds == 1..MaxTurns

(* exec: "new" registered but client.send not called, "denied" refused by  *)
(* accounting admission and not told yet, "stopped" killed, "failed" and   *)
(* "ended" reported onError and onDone or went unheard, "refused" never    *)
(* registered.                                                             *)
TurnState ==
  [msg : Message, via : {"ws", "queue", "now"}, done : BOOLEAN,
   exec : {"free", "new", "denied", "running", "stopped", "failed", "ended", "refused"},
   saved : BOOLEAN, replies : Nat]

NoTurn == [msg |-> <<>>, via |-> "ws", done |-> FALSE,
           exec |-> "free", saved |-> FALSE, replies |-> 0]

Pcs == {"idle", "check", "park", "restore", "prioritize", "prepare", "late", "launch",
        "requeue", "keep", "retry", "markFailed", "setPause", "save", "insert",
        "savePartial", "dispatch", "gate", "take", "now", "merge", "restart", "exit"}

(* Awaits of one database call that the properties see; the call is made   *)
(* at once, or after other awaits.                                         *)
DirectCalls == {"park", "restore", "prioritize", "requeue", "keep", "markFailed",
                "setPause", "take", "merge"}

LaterCalls == {"retry", "dispatch"}

(* via: who started the handler; pause, then: what setPause stores and     *)
(* where the handler goes on.                                              *)
Task == [pc : Pcs, msg : Message, via : {"ws", "queue", "now", "command", "flush"},
         tid : 0..MaxTurns, pause : BOOLEAN, then : Pcs]

Idle == [pc |-> "idle", msg |-> <<>>, via |-> "ws", tid |-> 0,
         pause |-> FALSE, then |-> "idle"]

Init ==
  /\ db = EmptyStore
  /\ starting = FALSE /\ active = 0 /\ restarting = FALSE
  /\ unsaved = {} /\ finalizing = {} /\ grants = {}
  /\ turn = [t \in TurnIds |-> NoTurn]
  /\ task = [s \in Slots |-> Idle] /\ lane = <<>>
  /\ holds = {} /\ refused = {} /\ fresh = Inputs
  /\ budget \in Budgets

-----------------------------------------------------------------------------
(* Handlers.                                                               *)

At(s, pc) == task[s].pc = pc

(* The awaited database call of the handler is the next to take effect.    *)
Called(s, pcs) == task[s].pc \in pcs /\ lane # <<>> /\ Head(lane) = s

Become(s, new) ==
  /\ task' = [task EXCEPT ![s] = new]
  /\ lane' = (IF lane # <<>> /\ Head(lane) = s THEN Tail(lane) ELSE lane)
             \o (IF new.pc \in DirectCalls THEN <<s>> ELSE <<>>)

Resume(s, pc) ==
  Become(s, IF pc = "idle" THEN Idle ELSE [task[s] EXCEPT !.pc = pc])

Pause(s, value, next) ==
  Become(s, [task[s] EXCEPT !.pc = "setPause", !.pause = value, !.then = next])

Fork(new) == \E s \in Slots : At(s, "idle") /\ Become(s, new)

(* The call is made after awaits that are not modelled.                    *)
Issue(s) ==
  /\ task[s].pc \in LaterCalls /\ s \notin ToSet(lane)
  /\ lane' = Append(lane, s)
  /\ UNCHANGED <<db, memory, turn, task, holds, history, budget>>

StartTask(m, via) == [Idle EXCEPT !.pc = "check", !.msg = m, !.via = via]

Spend(kind) == budget[kind] > 0 /\ budget' = [budget EXCEPT ![kind] = @ - 1]

(* The process ends and starts again: only the database survives, and the  *)
(* model processes lose their reader.                                      *)
Reboot ==
  /\ starting' = FALSE /\ active' = 0 /\ restarting' = FALSE
  /\ unsaved' = {} /\ finalizing' = {} /\ grants' = {}
  /\ task' = [s \in Slots |-> Idle] /\ lane' = <<>>
  /\ turn' = [t \in TurnIds |->
       IF turn[t].exec \in {"new", "denied", "running"}
       THEN [turn[t] EXCEPT !.exec = "stopped", !.done = TRUE] ELSE turn[t]]

(* start() throws.  session.ts does not catch it, so the rejection ends    *)
(* the process; track() swallows it after a dispatch; sendQueuedNow puts   *)
(* the message back.                                                       *)
Throw(s) ==
  \/ /\ task[s].via = "ws"
     /\ Reboot
  \/ /\ task[s].via = "queue"
     /\ Resume(s, "idle")
     /\ UNCHANGED <<memory, turn>>
  \/ /\ task[s].via = "now"
     /\ Become(s, [task[s] EXCEPT !.pc = "requeue", !.pause = TRUE, !.then = "idle"])
     /\ UNCHANGED <<memory, turn>>

-----------------------------------------------------------------------------
(* start(): admission.                                                     *)

Send(i) ==
  /\ Spend("send")
  /\ i \in fresh /\ fresh' = fresh \ {i}
  /\ db' = AddMessage(db, <<i>>)
  /\ Fork(StartTask(<<i>>, "ws"))
  /\ UNCHANGED <<memory, turn, holds, refused>>

Resend(i) ==
  /\ Spend("resend") /\ i \in Inputs \ fresh
  /\ Fork(StartTask(<<i>>, "ws"))
  /\ UNCHANGED <<db, memory, turn, holds, history>>

Refuse(s) ==
  /\ refused' = refused \cup {task[s].msg}
  /\ UNCHANGED fresh

(* Account, tariff, role, limit, or a message that is not stored.          *)
Deny(s) ==
  /\ At(s, "check") /\ Refuse(s) /\ Resume(s, "idle")
  /\ \/ Spend("refuse")
     \/ ~HasMessage(db, task[s].msg) /\ UNCHANGED budget
  /\ UNCHANGED <<db, memory, turn, holds>>

AccountingPending == Paid /\ active = 0 /\ holds # {}

Admissible(s) == At(s, "check") /\ HasMessage(db, task[s].msg)

RefusePending(s) ==
  /\ Admissible(s) /\ AccountingPending /\ Refuse(s)
  /\ IF task[s].via = "ws" THEN Resume(s, "idle")
     ELSE Become(s, [task[s] EXCEPT !.pc = "restore", !.pause = TRUE, !.then = "idle"])
  /\ UNCHANGED <<db, memory, turn, holds, budget>>

SlotFreeOfTurn == active = 0    \* mutation: starting.has is not asked

SlotFreeOfStart == ~starting    \* mutation: turns.has is not asked

SlotFree == active = 0 /\ ~starting

FindBusy(s) ==
  /\ Admissible(s) /\ ~AccountingPending /\ ~SlotFree
  /\ Resume(s, "park")
  /\ UNCHANGED <<db, memory, turn, holds, history, budget>>

ClaimSlot(s) ==
  /\ Admissible(s) /\ ~AccountingPending /\ SlotFree
  /\ starting' = TRUE
  /\ Pause(s, FALSE, "prepare")
  /\ UNCHANGED <<db, active, restarting, unsaved, finalizing, grants, turn, holds,
                 history, budget>>

(* enqueueTurn of start() and restoreQueuedTurn: the foreign key makes the *)
(* insert fail when the message was deleted meanwhile.                     *)
Enqueue(s) ==
  /\ Called(s, {"park", "restore"})
  /\ IF HasMessage(db, task[s].msg)
     THEN /\ db' = EnqueueTurn(db, task[s].msg, TRUE)
          /\ Resume(s, IF At(s, "park") THEN "idle" ELSE "prioritize")
          /\ UNCHANGED <<memory, turn>>
     ELSE Throw(s) /\ UNCHANGED db
  /\ UNCHANGED <<holds, history, budget>>

Prioritize(s) ==
  /\ Called(s, {"prioritize"})
  /\ db' = IF HasRow(db, task[s].msg)
           THEN PrioritizeQueuedTurn(db, CHOOSE i \in DOMAIN db.rows : db.rows[i].msg = task[s].msg)
           ELSE db
  /\ Resume(s, "setPause")
  /\ UNCHANGED <<memory, turn, holds, history, budget>>

SetPause(s) ==
  /\ Called(s, {"setPause"})
  /\ db' = SetTurnQueuePaused(db, task[s].pause)
  /\ restarting' = (restarting \/ task[s].then = "restart")
  /\ Resume(s, task[s].then)
  /\ UNCHANGED <<starting, active, unsaved, finalizing, grants, turn, holds, history, budget>>

-----------------------------------------------------------------------------
(* start(): preparation and launch.                                        *)

(* No allowed model, no machine, project copy out of date.                 *)
RefusePreparation(s) ==
  /\ At(s, "prepare") /\ Spend("refuse") /\ Refuse(s)
  /\ starting' = FALSE
  /\ Resume(s, "idle")
  /\ UNCHANGED <<db, active, restarting, unsaved, finalizing, grants, turn, holds>>

FailPreparation(s) ==
  /\ task[s].pc \in {"prepare", "late"} /\ Spend("fault")
  /\ Throw(s)
  /\ UNCHANGED <<db, holds, history>>

(* The knowledge base and history tools get their tokens.                  *)
GrantTools(s) ==
  /\ At(s, "prepare")
  /\ \E t \in TurnIds :
       /\ turn[t].exec = "free" /\ \A r \in TurnIds : r < t => turn[r].exec # "free"
       /\ turn' = [turn EXCEPT ![t] = [@ EXCEPT !.exec = "refused", !.msg = task[s].msg,
                                                !.via = task[s].via]]
       /\ grants' = grants \cup {t}
       /\ Become(s, [task[s] EXCEPT !.pc = "late", !.tid = t])
  /\ UNCHANGED <<db, starting, active, restarting, unsaved, finalizing, holds, history, budget>>

(* The chosen machine went offline after the tools were granted.           *)
MachineOffline(s) ==
  /\ At(s, "late") /\ Spend("refuse") /\ Refuse(s)
  /\ starting' = FALSE
  /\ Resume(s, "idle")
  /\ UNCHANGED <<db, active, restarting, unsaved, finalizing, grants, turn, holds>>

(* client.send; in a paid chat Billing admits one operation of a user.     *)
Launched(t) ==
  /\ turn' = [turn EXCEPT ![t].exec = IF Paid /\ holds # {} THEN "denied" ELSE "running"]
  /\ holds' = IF Paid /\ holds = {} THEN {t} ELSE holds

OccupyKeepingStart(t) == active' = t /\ UNCHANGED starting    \* mutation

Occupy(t) == starting' = FALSE /\ active' = t

Register(s) ==
  /\ At(s, "late")
  /\ Occupy(task[s].tid)
  /\ IF AsyncLaunch
     THEN /\ Resume(s, "launch")
          /\ turn' = [turn EXCEPT ![task[s].tid].exec = "new"] /\ UNCHANGED holds
     ELSE Resume(s, "idle") /\ Launched(task[s].tid)
  /\ UNCHANGED <<db, restarting, unsaved, finalizing, grants, history, budget>>

Launch(s) ==
  /\ At(s, "launch")
  /\ Launched(task[s].tid)
  /\ Resume(s, "idle")
  /\ UNCHANGED <<db, memory, history, budget>>

-----------------------------------------------------------------------------
(* The model's callbacks.                                                  *)

Running(t) == turn[t].exec = "running"

KeepTurnTools(t) == UNCHANGED grants    \* mutation

ReleaseTurnTools(t) == grants' = grants \ {t}

(* finish(): later callbacks of the turn are ignored, its tokens removed.  *)
Finish(t, exec) ==
  /\ turn' = [turn EXCEPT ![t].done = TRUE, ![t].exec = exec]
  /\ ReleaseTurnTools(t)
  /\ active' = IF active = t THEN 0 ELSE active

(* The accounting job of a finished execution settles before the callback  *)
(* or stays for the outbox.                                                *)
MaySettle(t) == holds' \in {holds, holds \ {t}}

OnDone(t) ==
  /\ Running(t) /\ ~turn[t].done
  /\ Finish(t, "ended")
  /\ unsaved' = unsaved \cup {t}
  /\ Fork([Idle EXCEPT !.pc = "save", !.tid = t])
  /\ MaySettle(t)
  /\ UNCHANGED <<db, starting, restarting, finalizing, history, budget>>

(* lost: the runner lost the Codex thread, the message is tried again.     *)
OnError(t, lost) ==
  /\ Running(t) /\ ~turn[t].done
  /\ Spend("error")
  /\ Finish(t, "failed")
  /\ Fork([Idle EXCEPT !.pc = IF lost THEN "retry" ELSE "requeue", !.msg = turn[t].msg,
                       !.pause = Paid, !.then = "dispatch"])
  /\ MaySettle(t)
  /\ UNCHANGED <<db, starting, restarting, unsaved, finalizing, history>>

OnDenied(t) ==
  /\ turn[t].exec = "denied" /\ ~turn[t].done
  /\ Finish(t, "failed")
  /\ Fork([Idle EXCEPT !.pc = IF turn[t].via = "ws" THEN "keep" ELSE "restore",
                       !.msg = turn[t].msg, !.pause = TRUE, !.then = "dispatch"])
  /\ UNCHANGED <<db, starting, restarting, unsaved, finalizing, holds, history, budget>>

(* A process that goes on after its turn is done: every callback returns.  *)
EndUnheard(t) ==
  /\ Running(t) /\ turn[t].done
  /\ turn' = [turn EXCEPT ![t].exec = "ended"]
  /\ MaySettle(t)
  /\ UNCHANGED <<db, memory, handlers, history, budget>>

(* Mutation: the job of an execution that goes on is reconciled.           *)
SettleActive(h) ==
  /\ h \in holds
  /\ holds' = holds \ {h}
  /\ UNCHANGED <<db, memory, turn, handlers, history, budget>>

(* The outbox reconciles the jobs of executions that are over.             *)
Settle(h) ==
  /\ h \in holds
  /\ h # 0 => turn[h].exec \in {"stopped", "failed", "ended"}
  /\ holds' = holds \ {h}
  /\ UNCHANGED <<db, memory, turn, handlers, history, budget>>

OtherChatPays ==
  /\ Paid /\ holds = {} /\ Spend("foreign")
  /\ holds' = {0}
  /\ UNCHANGED <<db, memory, turn, handlers, history>>

(* Mutation: after a lost thread dispatchNext is called without the row.   *)
PutBackUnqueued(s) ==
  /\ Called(s, {"requeue", "keep", "retry"}) /\ HasMessage(db, task[s].msg)
  /\ db' = IF At(s, "retry") THEN db ELSE EnqueueTurn(db, task[s].msg, FALSE)
  /\ Resume(s, CASE At(s, "requeue") -> "markFailed"
                 [] At(s, "keep") -> "setPause"
                 [] At(s, "retry") -> "dispatch")
  /\ UNCHANGED <<memory, turn, holds, history, budget>>

(* onError puts the message back: "requeue" to be marked failed, "keep"    *)
(* when accounting was pending, "retry" after a lost thread.  Nobody       *)
(* awaits the callback, so a failed insert ends the process.               *)
PutBack(s) ==
  /\ Called(s, {"requeue", "keep", "retry"})
  /\ IF HasMessage(db, task[s].msg)
     THEN /\ db' = EnqueueTurn(db, task[s].msg, FALSE)
          /\ Resume(s, CASE At(s, "requeue") -> "markFailed"
                         [] At(s, "keep") -> "setPause"
                         [] At(s, "retry") -> "dispatch")
          /\ UNCHANGED <<memory, turn>>
     ELSE /\ IF task[s].via = "command" THEN Resume(s, "idle") /\ UNCHANGED <<memory, turn>>
             ELSE Reboot
          /\ UNCHANGED db
  /\ UNCHANGED <<holds, history, budget>>

MarkFailed(s) ==
  /\ Called(s, {"markFailed"})
  /\ db' = MarkQueuedTurnFailed(db, task[s].msg)
  /\ Resume(s, "setPause")
  /\ UNCHANGED <<memory, turn, holds, history, budget>>

(* Mutation: the tail does not look whether finalize ran.                  *)
SaveAgain(s) ==
  /\ At(s, "save")
  /\ turn' = [turn EXCEPT ![task[s].tid].saved = TRUE]
  /\ unsaved' = unsaved \ {task[s].tid}
  /\ Resume(s, "insert")
  /\ UNCHANGED <<db, starting, active, restarting, finalizing, grants, holds, history, budget>>

(* The tail of onDone after the images were moved, unless finalize ran.    *)
Save(s) ==
  /\ At(s, "save")
  /\ LET t == task[s].tid
     IN  IF turn[t].saved
         THEN Resume(s, "idle") /\ UNCHANGED <<turn, unsaved>>
         ELSE /\ turn' = [turn EXCEPT ![t].saved = TRUE]
              /\ unsaved' = unsaved \ {t}
              /\ Resume(s, "insert")
  /\ UNCHANGED <<db, starting, active, restarting, finalizing, grants, holds, history, budget>>

Reply(t) == turn' = [turn EXCEPT ![t].replies = @ + 1]

Insert(s) ==
  /\ At(s, "insert")
  /\ Reply(task[s].tid)
  /\ Resume(s, "dispatch")
  /\ UNCHANGED <<db, memory, holds, history, budget>>

-----------------------------------------------------------------------------
(* dispatchNext().                                                         *)

Dispatch(s) ==
  /\ Called(s, {"dispatch"})
  /\ Resume(s, IF db.paused \/ active # 0 THEN "idle"
               ELSE IF Paid THEN "gate" ELSE "take")
  /\ UNCHANGED <<db, memory, turn, holds, history, budget>>

Gate(s) ==
  /\ At(s, "gate")
  /\ IF Waiting(db) # {} /\ holds # {} THEN Pause(s, TRUE, "idle") ELSE Resume(s, "take")
  /\ UNCHANGED <<db, memory, turn, holds, history, budget>>

Take(s) ==
  /\ Called(s, {"take"})
  /\ IF Waiting(db) = {} THEN Resume(s, "idle") /\ UNCHANGED db
     ELSE /\ db' = TakeQueuedTurn(db)
          /\ Become(s, StartTask(db.rows[NextRow(db)].msg, "queue"))
  /\ UNCHANGED <<memory, turn, holds, history, budget>>

(* resumeQueues(): every new WebSocket connection dispatches.              *)
Connect ==
  /\ Spend("connect")
  /\ Fork([Idle EXCEPT !.pc = "dispatch"])
  /\ UNCHANGED <<db, memory, turn, holds, history>>

-----------------------------------------------------------------------------
(* The user's commands.                                                    *)

(* handle.cancel(): nothing before client.send; the paid execution of a    *)
(* public chat goes on in the background.                                  *)
Cancelled(t) ==
  CASE turn[t].exec = "running" /\ ~Paid -> "stopped"
    [] turn[t].exec = "denied" -> "ended"
    [] OTHER -> turn[t].exec

(* cancelTurn().                                                           *)
Stop ==
  /\ Spend("stop") /\ active # 0
  /\ active' = 0
  /\ turn' = [turn EXCEPT ![active].done = TRUE, ![active].exec = Cancelled(active)]
  /\ ReleaseTurnTools(active)
  /\ Fork([Idle EXCEPT !.pc = "setPause", !.pause = Paid, !.then = "savePartial",
                       !.tid = active])
  /\ UNCHANGED <<db, starting, restarting, unsaved, finalizing, holds, history>>

(* Mutation: nobody is called for after a stop.                            *)
SavePartialOnly(s) ==
  /\ At(s, "savePartial")
  /\ Reply(task[s].tid) \/ UNCHANGED turn
  /\ Resume(s, IF task[s].via = "flush" THEN "exit" ELSE "idle")
  /\ UNCHANGED <<db, memory, holds, history, budget>>

(* The text received so far, if there is any, becomes the reply.           *)
SavePartial(s) ==
  /\ At(s, "savePartial")
  /\ Reply(task[s].tid) \/ UNCHANGED turn
  /\ Resume(s, IF task[s].via = "flush" THEN "exit" ELSE "dispatch")
  /\ UNCHANGED <<db, memory, holds, history, budget>>

(* sendQueuedNow() remembers the active turn before its first await.       *)
SendNow(i) ==
  /\ Spend("now") /\ i \in DOMAIN db.rows
  /\ Fork([Idle EXCEPT !.pc = "now", !.msg = db.rows[i].msg, !.via = "now", !.tid = active])
  /\ UNCHANGED <<db, memory, turn, holds, history>>

ChooseNow(s) ==
  /\ At(s, "now")
  /\ IF Paid /\ holds # {} THEN Pause(s, TRUE, "idle")
     ELSE IF restarting THEN Resume(s, "idle")
     ELSE IF task[s].tid # 0 THEN Resume(s, "merge")
     ELSE Become(s, [task[s] EXCEPT !.pc = "prioritize", !.pause = FALSE,
                                    !.then = "dispatch"])
  /\ UNCHANGED <<db, memory, turn, holds, history, budget>>

(* The remembered turn gives way to one with both messages.  The map entry *)
(* is deleted whichever turn it holds by now.                              *)
Merge(s) ==
  /\ Called(s, {"merge"})
  /\ LET t == task[s].tid
         own == turn[t].msg
         merged == own \o task[s].msg
     IN  IF HasRow(db, task[s].msg) /\ own \in db.shown /\ own # task[s].msg
         THEN /\ db' = MergeQueuedTurnIntoMessage(db,
                         CHOOSE i \in DOMAIN db.rows : db.rows[i].msg = task[s].msg, own)
              /\ active' = 0 /\ ReleaseTurnTools(t)
              /\ \/ /\ turn' = [turn EXCEPT ![t].done = TRUE, ![t].exec = Cancelled(t)]
                    /\ Become(s, [task[s] EXCEPT !.pc = "setPause", !.msg = merged,
                                                 !.pause = FALSE, !.then = "restart"])
                    /\ UNCHANGED budget
                 \/ /\ Spend("fault")
                    /\ turn' = [turn EXCEPT ![t].done = TRUE]
                    /\ Become(s, [task[s] EXCEPT !.pc = "requeue", !.msg = merged,
                                                 !.pause = TRUE, !.then = "idle",
                                                 !.via = "command"])
         ELSE Resume(s, "idle") /\ UNCHANGED <<db, active, grants, turn, budget>>
  /\ UNCHANGED <<starting, restarting, unsaved, finalizing, holds, history>>

Restart(s) ==
  /\ At(s, "restart")
  /\ restarting' = FALSE
  /\ Become(s, StartTask(task[s].msg, "now"))
  /\ UNCHANGED <<db, starting, active, unsaved, finalizing, grants, turn, holds, history, budget>>

Manage(kind, stored) ==
  /\ Spend(kind) /\ db' = stored
  /\ UNCHANGED <<memory, turn, handlers, holds, history>>

EditQueued(i) == i \in DOMAIN db.rows /\ Manage("edit", UpdateQueuedTurn(db, i))

DeleteQueued(i) == i \in DOMAIN db.rows /\ Manage("drop", DeleteQueuedTurn(db, i))

(* The full set of row ids in a new order; another set changes nothing.    *)
ReorderQueued(i, j) ==
  /\ i \in DOMAIN db.rows /\ j \in DOMAIN db.rows /\ i # j
  /\ Manage("reorder", ReorderQueuedTurns(db,
       [[k \in DOMAIN db.rows |-> k] EXCEPT ![i] = j, ![j] = i]))

(* DELETE of a message over REST does not look at the turn manager.        *)
Erase(m) == m \in db.shown /\ Manage("erase", DeleteMessage(db, m))

-----------------------------------------------------------------------------
(* Shutdown.                                                               *)

ForgetPending == unsaved' = {} /\ UNCHANGED finalizing    \* mutation

FinalizePending == unsaved' = {} /\ finalizing' = finalizing \cup unsaved

(* flushInterrupted() up to its first await.                               *)
Shutdown ==
  /\ Spend("shutdown")
  /\ FinalizePending
  /\ active' = 0 /\ ReleaseTurnTools(active)
  /\ turn' = [t \in TurnIds |->
       [turn[t] EXCEPT !.saved = @ \/ t \in unsaved,
                       !.done = @ \/ t = active,
                       !.exec = IF t = active THEN Cancelled(t) ELSE @]]
  /\ Fork(IF active = 0 THEN [Idle EXCEPT !.pc = "exit", !.via = "flush"]
          ELSE [Idle EXCEPT !.pc = "setPause", !.via = "flush", !.pause = TRUE,
                            !.then = "savePartial", !.tid = active])
  /\ UNCHANGED <<db, starting, restarting, holds, history>>

Finalize(t) ==
  /\ t \in finalizing /\ finalizing' = finalizing \ {t}
  /\ Reply(t)
  /\ UNCHANGED <<db, starting, active, restarting, unsaved, grants, handlers, holds, history, budget>>

(* accounting.shutdown() waits for paid executions, db.close() for the     *)
(* statements already queued; then the process ends.                       *)
Exit(s) ==
  /\ At(s, "exit") /\ finalizing = {} /\ lane = <<>>
  /\ \A r \in Slots : task[r].pc \notin {"insert", "savePartial"}
  /\ Paid => \A t \in TurnIds : ~Running(t)
  /\ Reboot
  /\ UNCHANGED <<db, holds, history, budget>>

Crash ==
  /\ Spend("crash") /\ Reboot
  /\ UNCHANGED <<db, holds, history>>

-----------------------------------------------------------------------------
Step(s) ==
  \/ Issue(s) \/ Deny(s) \/ RefusePending(s) \/ FindBusy(s) \/ ClaimSlot(s)
  \/ Enqueue(s) \/ Prioritize(s) \/ SetPause(s)
  \/ RefusePreparation(s) \/ FailPreparation(s) \/ GrantTools(s)
  \/ MachineOffline(s) \/ Register(s) \/ Launch(s)
  \/ PutBack(s) \/ MarkFailed(s) \/ Save(s) \/ Insert(s)
  \/ Dispatch(s) \/ Gate(s) \/ Take(s)
  \/ SavePartial(s) \/ ChooseNow(s) \/ Merge(s) \/ Restart(s) \/ Exit(s)

Model(t) ==
  \/ OnDone(t) \/ OnDenied(t) \/ EndUnheard(t) \/ Finalize(t)
  \/ \E lost \in BOOLEAN : OnError(t, lost)

User ==
  \/ \E i \in Inputs : Send(i) \/ Resend(i)
  \/ Stop \/ Connect \/ Shutdown \/ Crash \/ OtherChatPays
  \/ \E i \in DOMAIN db.rows : SendNow(i) \/ EditQueued(i) \/ DeleteQueued(i)
  \/ \E i, j \in DOMAIN db.rows : ReorderQueued(i, j)
  \/ \E m \in db.shown : Erase(m)

Next ==
  \/ \E s \in Slots : Step(s)
  \/ \E t \in TurnIds : Model(t)
  \/ \E h \in holds : Settle(h)
  \/ User

Spec == Init /\ [][Next]_vars

(* Node resumes every handler whose await is over, and a model process     *)
(* reports its end: the runners stop a CLI that does not.                  *)
FairSpec ==
  /\ Spec
  /\ \A s \in Slots : WF_vars(Step(s))
  /\ \A t \in TurnIds : WF_vars(Model(t))
=============================================================================
