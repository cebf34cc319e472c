--------------------------- MODULE ChatAccounting ---------------------------
(***************************************************************************)
(* Accounting of one model turn (billing/chatAccounting.ts): the turn      *)
(* reserves and claims at Billing, dispatches the run to the executor, and *)
(* a reconciliation that reads a durable outbox settles with Billing what  *)
(* the executor's receipt proves.  Billing and the executor are external;  *)
(* a call to them may be lost, or carried out after the caller gave up.    *)
(***************************************************************************)
EXTENDS Naturals

CONSTANT Faults     \* failed calls and restarts

ASSUME AccountingAssumption == Faults \in Nat

VARIABLES
  turn,       \* ChatAccounting.wrap
  outbox,     \* chat_accounting_outbox
  rec,        \* ChatAccounting.reconciling
  wire,       \* requests under way to Billing and to the executor
  hold,       \* the reservation at Billing
  runner,     \* the receipt of the run at the executor
  expired,    \* the reservation's expiresAt has passed
  server,     \* the process: "up", "stopping", "closing"
  faults

accountingVars == <<turn, outbox, rec, wire, hold, runner, expired, server, faults>>

TurnCalls == {"reserve", "start", "run"}
RecCalls == {"release", "zero", "usage", "uncertain"}

(* claim, dispatch: the authorization of the caller is being checked.      *)
(* background: Stop only hides the output of a dispatched turn.            *)
AccountedTurn ==
  [pc : {"new", "reserve", "claim", "start", "dispatch", "running", "over"},
   active : BOOLEAN, cancelled : BOOLEAN, background : BOOLEAN,
   reply : {"none", "yes", "no"}]

Outbox ==
  [state : {"none", "admitting", "reserved", "claiming", "dispatching", "settling", "done"},
   settlement : {"none", "zero", "usage"}]

Reconciliation ==
  [pc : {"idle", "get", "receipt"} \cup RecCalls,
   seen : {"none", "running", "uncertain"}, reply : {"none", "yes", "no"}]

Resting == [pc |-> "idle", seen |-> "none", reply |-> "none"]

AccountingInit ==
  /\ turn \in {t \in AccountedTurn : /\ t.pc = "new" /\ t.reply = "none"
                                     /\ ~t.active /\ ~t.cancelled}
  /\ outbox = [state |-> "none", settlement |-> "none"]
  /\ rec = Resting /\ wire = {} /\ hold = "none" /\ runner = "none"
  /\ expired = FALSE /\ server = "up" /\ faults = Faults

Elsewhere == <<hold, runner, expired, server>>

Ask(call) == wire' = wire \cup {[call |-> call, heard |-> TRUE]}

(* The callers among calls do not listen any more.                         *)
Unheard(calls) ==
  {[m EXCEPT !.heard = @ /\ m.call \notin calls] : m \in wire}

Fault == faults > 0 /\ faults' = faults - 1

StoreState(state) == outbox' = [outbox EXCEPT !.state = state]

Pending == outbox.state \notin {"none", "done"}

-----------------------------------------------------------------------------
(* The turn.                                                               *)

TurnAt(pc) == turn' = [turn EXCEPT !.pc = pc, !.reply = "none"]

(* The finally of the admission, and complete(): the reconciliation may    *)
(* have the job from now on.                                               *)
TurnOver == turn' = [turn EXCEPT !.pc = "over", !.active = FALSE, !.reply = "none"]

AdmitTurn ==
  /\ turn.pc = "new" /\ server = "up"
  /\ turn' = [turn EXCEPT !.pc = "reserve", !.active = TRUE]
  /\ StoreState("admitting") /\ Ask("reserve")
  /\ UNCHANGED <<rec, Elsewhere, faults>>

Reserved ==
  /\ turn.pc = "reserve" /\ turn.reply = "yes"
  /\ IF turn.cancelled THEN StoreState("reserved") /\ TurnOver
                       ELSE StoreState("claiming") /\ TurnAt("claim")
  /\ UNCHANGED <<rec, wire, Elsewhere, faults>>

Refused ==
  /\ turn.pc = "reserve" /\ turn.reply = "no"
  /\ StoreState("done") /\ TurnOver
  /\ UNCHANGED <<rec, wire, Elsewhere, faults>>

Claim ==
  /\ turn.pc = "claim" /\ TurnAt("start") /\ Ask("start")
  /\ UNCHANGED <<outbox, rec, Elsewhere, faults>>

ClaimAnswered ==
  /\ turn.pc = "start" /\ turn.reply # "none"
  /\ IF turn.reply = "yes" /\ ~turn.cancelled THEN TurnAt("dispatch") ELSE TurnOver
  /\ UNCHANGED <<outbox, rec, wire, Elsewhere, faults>>

(* Mutation: the request leaves without a word in the outbox.              *)
DispatchRunUnstored ==
  /\ turn.pc = "dispatch"
  /\ IF turn.cancelled THEN TurnOver /\ UNCHANGED wire ELSE TurnAt("running") /\ Ask("run")
  /\ UNCHANGED <<outbox, rec, Elsewhere, faults>>

(* The outbox says "dispatching" before the request leaves.                *)
DispatchRun ==
  /\ turn.pc = "dispatch"
  /\ IF turn.cancelled THEN TurnOver /\ UNCHANGED <<outbox, wire>>
                       ELSE TurnAt("running") /\ StoreState("dispatching") /\ Ask("run")
  /\ UNCHANGED <<rec, Elsewhere, faults>>

(* The authorization has been revoked.                                     *)
Unauthorized ==
  /\ turn.pc \in {"claim", "dispatch"} /\ TurnOver
  /\ UNCHANGED <<outbox, rec, wire, Elsewhere, faults>>

(* Mutation: a call that failed counts as not carried out.                 *)
TurnCallFailsDone ==
  /\ turn.pc \in {"reserve", "start"} /\ turn.reply = "none" /\ Fault
  /\ TurnOver /\ StoreState("done") /\ wire' = Unheard(TurnCalls)
  /\ UNCHANGED <<rec, Elsewhere>>

(* A call to Billing fails without an answer.                              *)
TurnCallFails ==
  /\ turn.pc \in {"reserve", "start"} /\ turn.reply = "none" /\ Fault
  /\ TurnOver /\ wire' = Unheard(TurnCalls)
  /\ UNCHANGED <<outbox, rec, Elsewhere>>

(* onDone or onError of the client, or its connection broke.               *)
CompleteTurn ==
  /\ turn.pc = "running"
  /\ IF turn.reply # "none" \/ runner \in {"finished", "unknown"}
     THEN UNCHANGED faults ELSE Fault
  /\ TurnOver /\ wire' = Unheard(TurnCalls)
  /\ UNCHANGED <<outbox, rec, Elsewhere>>

CancelTurn ==
  /\ turn.pc \notin {"new", "over"} /\ ~turn.cancelled
  /\ IF turn.pc = "running" /\ ~turn.background
     THEN /\ turn' = [turn EXCEPT !.cancelled = TRUE, !.pc = "over", !.active = FALSE,
                                  !.reply = "none"]
          /\ wire' = Unheard(TurnCalls)
     ELSE turn' = [turn EXCEPT !.cancelled = TRUE] /\ UNCHANGED wire
  /\ UNCHANGED <<outbox, rec, Elsewhere, faults>>

-----------------------------------------------------------------------------
(* The reconciliation.                                                     *)

ReconcileJob ==
  /\ server \in {"up", "closing"} \/ turn.pc = "over"
  /\ rec.pc = "idle" /\ Pending /\ ~turn.active
  /\ IF outbox.state = "admitting"
     THEN expired /\ StoreState("done") /\ UNCHANGED rec
     ELSE rec' = [rec EXCEPT !.pc = "get"] /\ UNCHANGED outbox
  /\ UNCHANGED <<turn, wire, Elsewhere, faults>>

RecAsks(call) == Ask(call) /\ rec' = [rec EXCEPT !.pc = call, !.reply = "none"]

(* Billing has told the state of the reservation.                          *)
CurrentHold ==
  /\ rec.pc = "get"
  /\ IF hold \in {"released", "zero", "paid"}
     THEN StoreState("done") /\ rec' = Resting /\ UNCHANGED wire
     ELSE /\ UNCHANGED outbox
          /\ IF outbox.state \in {"reserved", "claiming"}
             THEN RecAsks(IF hold = "reserved" THEN "release" ELSE "zero")
             ELSE IF outbox.settlement # "none" THEN RecAsks(outbox.settlement)
             ELSE rec' = [rec EXCEPT !.pc = "receipt", !.seen = hold] /\ UNCHANGED wire
  /\ UNCHANGED <<turn, Elsewhere, faults>>

(* Mutation: a run the executor does not know is not fenced.               *)
ReceiptUnfenced ==
  /\ rec.pc = "receipt" /\ UNCHANGED runner
  /\ IF runner = "finished"
     THEN outbox' = [state |-> "settling", settlement |-> "usage"] /\ RecAsks("usage")
     ELSE /\ UNCHANGED outbox
          /\ IF runner = "unknown" /\ rec.seen = "running" THEN RecAsks("uncertain")
             ELSE rec' = Resting /\ UNCHANGED wire
  /\ UNCHANGED <<turn, hold, expired, server, faults>>

(* The executor has told the receipt; a run it does not know is fenced.    *)
Receipt ==
  LET told == IF runner = "none" THEN "fenced" ELSE runner IN
  /\ rec.pc = "receipt" /\ runner' = told
  /\ IF told \in {"fenced", "finished"}
     THEN LET settlement == IF told = "fenced" THEN "zero" ELSE "usage" IN
          /\ outbox' = [state |-> "settling", settlement |-> settlement]
          /\ RecAsks(settlement)
     ELSE /\ UNCHANGED outbox
          /\ IF told = "unknown" /\ rec.seen = "running" THEN RecAsks("uncertain")
             ELSE rec' = Resting /\ UNCHANGED wire
  /\ UNCHANGED <<turn, hold, expired, server, faults>>

RecAnswered ==
  /\ rec.pc \in RecCalls /\ rec.reply # "none" /\ rec' = Resting
  /\ IF rec.reply = "yes" /\ rec.pc # "uncertain" THEN StoreState("done") ELSE UNCHANGED outbox
  /\ UNCHANGED <<turn, wire, Elsewhere, faults>>

RecFails ==
  /\ rec.pc # "idle" /\ rec.reply = "none" /\ Fault
  /\ rec' = Resting /\ wire' = Unheard(RecCalls)
  /\ UNCHANGED <<turn, outbox, Elsewhere>>

-----------------------------------------------------------------------------
(* Billing and the executor.                                               *)

(* A transition of the reservation; asked again, it is confirmed, except   *)
(* that a second start did not acquire the claim.                          *)
HoldFrom ==
  [reserve |-> {"none"}, start |-> {"reserved"}, release |-> {"reserved", "released"},
   zero |-> {"running", "uncertain", "zero"}, usage |-> {"running", "uncertain", "paid"},
   uncertain |-> {"running", "uncertain"}]

HoldTo ==
  [reserve |-> "reserved", start |-> "running", release |-> "released",
   zero |-> "zero", usage |-> "paid", uncertain |-> "uncertain"]

TellCaller(m, reply) ==
  /\ turn' = IF m.heard /\ m.call \in TurnCalls THEN [turn EXCEPT !.reply = reply] ELSE turn
  /\ rec' = IF m.heard /\ m.call \in RecCalls THEN [rec EXCEPT !.reply = reply] ELSE rec

Billing(m) ==
  /\ m \in wire /\ m.call # "run" /\ wire' = wire \ {m}
  /\ \/ /\ hold \in HoldFrom[m.call]
        /\ hold' = HoldTo[m.call] /\ TellCaller(m, "yes")
     \/ /\ hold \notin HoldFrom[m.call] \/ m.call = "reserve"
        /\ UNCHANGED hold /\ TellCaller(m, "no")
  /\ UNCHANGED <<outbox, runner, expired, server, faults>>

(* A run is started once; a fenced one is refused.                         *)
Execute(m) ==
  /\ m \in wire /\ m.call = "run" /\ wire' = wire \ {m}
  /\ IF runner = "none" THEN runner' = "working" /\ UNCHANGED <<turn, rec>>
                        ELSE UNCHANGED runner /\ TellCaller(m, "no")
  /\ UNCHANGED <<outbox, hold, expired, server, faults>>

(* A request whose caller gave up, or died before it left, never arrives.  *)
NeverArrives(m) ==
  /\ m \in wire /\ ~m.heard /\ wire' = wire \ {m}
  /\ UNCHANGED <<turn, outbox, rec, Elsewhere, faults>>

(* The run ends with usage that can be proved, or without.                 *)
RunEnds ==
  /\ runner = "working" /\ runner' \in {"finished", "unknown"}
  /\ UNCHANGED <<turn, outbox, rec, wire, hold, expired, server, faults>>

Expires ==
  /\ outbox.state # "none" /\ ~expired /\ expired' = TRUE
  /\ UNCHANGED <<turn, outbox, rec, wire, hold, runner, server, faults>>

Lapses ==
  /\ expired /\ hold = "reserved" /\ hold' = "released"
  /\ UNCHANGED <<turn, outbox, rec, wire, runner, expired, server, faults>>

-----------------------------------------------------------------------------
(* The process.                                                            *)

Shutdown ==
  /\ server = "up" /\ Fault /\ server' = "stopping"
  /\ UNCHANGED <<turn, outbox, rec, wire, hold, runner, expired>>

(* shutdown() waits for the admissions, the background executions and the  *)
(* reconciliations, then reconciles once more.                             *)
LastPass ==
  /\ server = "stopping" /\ rec.pc = "idle"
  /\ \/ turn.pc \in {"new", "over"}
     \/ turn.pc = "running" /\ ~turn.background
  /\ server' = "closing"
  /\ UNCHANGED <<turn, outbox, rec, wire, hold, runner, expired, faults>>

Restarted ==
  /\ turn' = [turn EXCEPT !.pc = "over", !.active = FALSE, !.reply = "none"]
  /\ rec' = Resting /\ wire' = Unheard(TurnCalls \cup RecCalls) /\ server' = "up"
  /\ UNCHANGED <<outbox, hold, runner, expired>>

CloseProcess == server = "closing" /\ rec.pc = "idle" /\ Restarted /\ UNCHANGED faults

Die == turn.pc # "new" /\ Fault /\ Restarted

TurnSteps == Reserved \/ Refused \/ Claim \/ ClaimAnswered \/ DispatchRun \/ CompleteTurn
RecSteps == ReconcileJob \/ CurrentHold \/ Receipt \/ RecAnswered
Others == RunEnds \/ Expires \/ Lapses

AccountingNext ==
  \/ AdmitTurn \/ TurnSteps \/ Unauthorized \/ TurnCallFails \/ CancelTurn
  \/ RecSteps \/ RecFails \/ Others
  \/ \E m \in wire : Billing(m) \/ Execute(m) \/ NeverArrives(m)
  \/ Shutdown \/ LastPass \/ CloseProcess \/ Die

AccountingSpec == AccountingInit /\ [][AccountingNext]_accountingVars

(* The turn and the timer of the reconciliation go on, requests arrive,    *)
(* runs end, reservations expire, and a process that stops ends.           *)
AccountingFairness ==
  /\ WF_accountingVars(TurnSteps) /\ WF_accountingVars(RecSteps)
  /\ WF_accountingVars(\E m \in wire : Billing(m))
  /\ WF_accountingVars(\E m \in wire : Execute(m))
  /\ WF_accountingVars(RunEnds) /\ WF_accountingVars(Expires)
  /\ WF_accountingVars(LastPass \/ CloseProcess)

-----------------------------------------------------------------------------
AccountingTypeOK ==
  /\ turn \in AccountedTurn /\ outbox \in Outbox /\ rec \in Reconciliation
  /\ wire \subseteq [call : TurnCalls \cup RecCalls, heard : BOOLEAN]
  /\ hold \in {"none", "reserved", "running", "uncertain", "released", "zero", "paid"}
  /\ runner \in {"none", "working", "finished", "unknown", "fenced"}
  /\ expired \in BOOLEAN /\ server \in {"up", "stopping", "closing"} /\ faults \in 0..Faults

(* A run that the executor has begun, or may still begin, is held or paid  *)
(* for: no release and no settlement of zero covers it, although requests  *)
(* are lost, arrive late, and the process restarts.                        *)
NoFreeWork ==
  /\ runner \in {"working", "finished", "unknown"} => hold \in {"running", "uncertain", "paid"}
  /\ \A m \in wire : m.call = "run" /\ runner = "none" => hold = "running"

(* What Billing holds for a started run is still followed by the outbox:   *)
(* no account is blocked by a hold that nobody will settle.                *)
HoldsFollowed == hold \in {"running", "uncertain"} => Pending

(* A turn that ends without a proof of its usage keeps its hold; every     *)
(* other one is done in the end.                                           *)
HoldSettled == Pending ~> (~Pending \/ runner = "unknown")
=============================================================================
