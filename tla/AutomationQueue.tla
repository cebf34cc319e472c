--------------------------- MODULE AutomationQueue ---------------------------
(***************************************************************************)
(* The durable job queue of the automation runner                          *)
(* (apps/automation-runner/src/queue.ts) behind its routes (server.ts).    *)
(*                                                                         *)
(* SQLite is called synchronously, so a handler runs to its next await     *)
(* without another one in between, but the process may end between two     *)
(* statements.  "code" is what the running handler still has to execute:   *)
(* its first statement is the next step, everything but the end of the     *)
(* process waits until it is empty.                                        *)
(*                                                                         *)
(* What executes a job is given to the queue from outside: an execution    *)
(* may pause its job through the store, ends with a result or an error     *)
(* when it likes, and is bound only by forceCancel.                        *)
(***************************************************************************)
EXTENDS AutomationStore, Sequences, FiniteSets, SequencesExt

CONSTANTS Jobs, Concurrency

ASSUME ConcurrencyAssumption == Concurrency \in Nat \ {0}

VARIABLES
  job,      \* the stored jobs
  order,    \* created jobs in the order of created_at, id
  active,   \* the map "active": the execution of a job, 0 if there is none
  exec,     \* the executions of this process, by job and number
  code,     \* statements left of the running handler
  closing   \* the onClose hook has begun

vars == <<job, order, active, exec, code, closing>>

(* A job is run when it is created and, as it can pause only once, after   *)
(* the answer to its pause.  Another run comes after a restart only.       *)
Runs == 1..2

(* "asked": cancel() was called; "timed": it was answered and the grace    *)
(* timer runs; "refused": it was rejected and no timer was set; "settled": *)
(* the result was handled but not yet the finally behind it.               *)
Execution == {"none", "busy", "asked", "timed", "refused", "forced", "settled"}

Live == {"busy", "asked", "timed", "refused", "forced"}

Statement == [op : {"tell"}, job : Jobs, state : States]
        \cup [op : {"run", "signal"}, job : Jobs]
        \cup [op : {"pump"}]

PumpAll == <<[op |-> "pump"]>>

Init ==
  /\ job = [j \in Jobs |-> NoJob] /\ order = <<>>
  /\ active = [j \in Jobs |-> 0]
  /\ exec = [j \in Jobs |-> [r \in Runs |-> "none"]]
  /\ code = PumpAll /\ closing = FALSE

-----------------------------------------------------------------------------
(* Statements.                                                             *)

Size == Cardinality({j \in Jobs : active[j] # 0})

Queued == {i \in DOMAIN order : job[order[i]].state = "queued"}

NextJob == order[CHOOSE i \in Queued : \A k \in Queued : i <= k]

First(op) == code # <<>> /\ Head(code).op = op

(* The event of a transition made by the statement before.                 *)
TellState ==
  /\ First("tell")
  /\ job' = [job EXCEPT ![Head(code).job] = Tell(@, Head(code).state)]
  /\ code' = Tail(code)
  /\ UNCHANGED <<order, active, exec, closing>>

(* Mutation: the capacity is not asked.                                    *)
MayStartAny == Queued # {}

MayStart == Size < Concurrency /\ Queued # {}

(* One turn of the loop in pump().                                         *)
Pump ==
  /\ First("pump")
  /\ IF MayStart
     THEN /\ job' = [job EXCEPT ![NextJob] = Move(@, "running")]
          /\ code' = <<[op |-> "tell", job |-> NextJob, state |-> "running"],
                       [op |-> "run", job |-> NextJob]>> \o code
     ELSE code' = Tail(code) /\ UNCHANGED job
  /\ UNCHANGED <<order, active, exec, closing>>

(* run(): an execute() that throws ends the process, as Crash does here.   *)
Run ==
  /\ First("run")
  /\ LET j == Head(code).job
         free == {r \in Runs : exec[j][r] = "none"} \cup {3}
         r == CHOOSE r \in free : \A q \in free : r <= q
     IN  /\ exec' = [exec EXCEPT ![j][r] = "busy"]
         /\ active' = [active EXCEPT ![j] = r]
  /\ code' = Tail(code)
  /\ UNCHANGED <<job, order, closing>>

(* cancel() after the transition: abort and cancel what the map holds.     *)
Signal ==
  /\ First("signal")
  /\ LET j == Head(code).job
     IN  exec' = IF active[j] # 0 /\ exec[j][active[j]] \in Live
                 THEN [exec EXCEPT ![j][active[j]] = "asked"] ELSE exec
  /\ code' = Tail(code)
  /\ UNCHANGED <<job, order, active, closing>>

-----------------------------------------------------------------------------
(* Routes.                                                                 *)

Idle == code = <<>> /\ ~closing

(* POST jobs: a known idempotency key creates nothing but pumps as well.   *)
Post(j) ==
  /\ Idle
  /\ IF job[j].state = "none"
     THEN job' = [job EXCEPT ![j] = Create(@)] /\ order' = Append(order, j)
     ELSE UNCHANGED <<job, order>>
  /\ code' = PumpAll
  /\ UNCHANGED <<active, exec, closing>>

(* DELETE of a job that does not run.                                      *)
CancelPassive(j) ==
  /\ Idle /\ job[j].state \in {"queued", "waiting"}
  /\ job' = [job EXCEPT ![j] = Finish(@, "cancelled")]
  /\ UNCHANGED <<order, active, exec, code, closing>>

(* Mutation: the execution of a cancelled job is not told.                 *)
CancelSilent(j) ==
  /\ Idle /\ job[j].state = "running"
  /\ job' = [job EXCEPT ![j] = Move(@, "cancelling")]
  /\ code' = <<[op |-> "tell", job |-> j, state |-> "cancelling"]>>
  /\ UNCHANGED <<order, active, exec, closing>>

(* DELETE of a running job.                                                *)
CancelActive(j) ==
  /\ Idle /\ job[j].state = "running"
  /\ job' = [job EXCEPT ![j] = Move(@, "cancelling")]
  /\ code' = <<[op |-> "tell", job |-> j, state |-> "cancelling"],
               [op |-> "signal", job |-> j]>>
  /\ UNCHANGED <<order, active, exec, closing>>

(* POST resume does not pump.                                              *)
Answer(j) ==
  /\ Idle /\ job[j].pause = "open"
  /\ job' = [job EXCEPT ![j] = Resume(@)]
  /\ UNCHANGED <<order, active, exec, code, closing>>

-----------------------------------------------------------------------------
(* Executions.                                                             *)

(* cancel() of the execution was answered, or rejected: then the code that *)
(* sets the timer is not reached.                                          *)
CancelAnswered(j, r) ==
  /\ code = <<>> /\ exec[j][r] = "asked"
  /\ exec' \in {[exec EXCEPT ![j][r] = "timed"], [exec EXCEPT ![j][r] = "refused"]}
  /\ UNCHANGED <<job, order, active, code, closing>>

GraceOver(j, r) ==
  /\ code = <<>> /\ exec[j][r] = "timed"
  /\ exec' = [exec EXCEPT ![j][r] = "forced"]
  /\ UNCHANGED <<job, order, active, code, closing>>

PauseJob(j, r) ==
  /\ code = <<>> /\ exec[j][r] \in Live
  /\ job' = [job EXCEPT ![j] = Pause(@)]
  /\ UNCHANGED <<order, active, exec, code, closing>>

(* Mutation: a job that is being cancelled takes the late result.          *)
LateResult(j, outcome) == outcome

(* A late result does not undo a cancellation.                             *)
Outcome(j, outcome) ==
  IF job[j].state \in {"cancelling", "cancelled"} THEN "cancelled" ELSE outcome

(* The result of an execution; an error counts as "failed".                *)
Settle(j, r, outcome) ==
  /\ code = <<>> /\ exec[j][r] \in Live
  /\ exec' = [exec EXCEPT ![j][r] = "settled"]
  /\ job' = [job EXCEPT ![j] = Finish(@, Outcome(j, outcome))]
  /\ UNCHANGED <<order, active, code, closing>>

(* Mutation: nobody looks for the next job.                                *)
ReleaseOnly(j, r) ==
  /\ code = <<>> /\ exec[j][r] = "settled"
  /\ active' = [active EXCEPT ![j] = 0]
  /\ exec' = [exec EXCEPT ![j][r] = "none"]
  /\ UNCHANGED <<job, order, code, closing>>

(* The finally of an execution removes the entry of its job, whichever     *)
(* execution it holds by then.                                             *)
Release(j, r) ==
  /\ code = <<>> /\ exec[j][r] = "settled"
  /\ active' = [active EXCEPT ![j] = 0]
  /\ exec' = [exec EXCEPT ![j][r] = "none"]
  /\ code' = PumpAll
  /\ UNCHANGED <<job, order, closing>>

-----------------------------------------------------------------------------
(* The process.                                                            *)

(* onClose: what the map holds is aborted and cancelled by force.          *)
Close ==
  /\ Idle
  /\ closing' = TRUE
  /\ exec' = [j \in Jobs |-> [r \in Runs |->
       IF r = active[j] /\ exec[j][r] \in Live THEN "forced" ELSE exec[j][r]]]
  /\ UNCHANGED <<job, order, active, code>>

(* The process ends, at any time, and starts again.                        *)
Restart ==
  /\ job' = [j \in Jobs |-> Recover(job[j])]
  /\ active' = [j \in Jobs |-> 0]
  /\ exec' = [j \in Jobs |-> [r \in Runs |-> "none"]]
  /\ code' = PumpAll /\ closing' = FALSE
  /\ UNCHANGED order

-----------------------------------------------------------------------------
Handler == TellState \/ Pump \/ Run \/ Signal

Route(j) == Post(j) \/ CancelPassive(j) \/ CancelActive(j) \/ Answer(j)

Ends(j, r) == \E outcome \in Terminal : Settle(j, r, outcome)

Executing(j, r) ==
  CancelAnswered(j, r) \/ GraceOver(j, r) \/ PauseJob(j, r) \/ Ends(j, r) \/ Release(j, r)

Next ==
  \/ Handler \/ Close \/ Restart
  \/ \E j \in Jobs : Route(j)
  \/ \E j \in Jobs, r \in Runs : Executing(j, r)

Spec == Init /\ [][Next]_vars

(* What the executions of a job and the timers still owe the queue.        *)
Owed(j) == \E r \in Runs :
  \/ CancelAnswered(j, r) \/ GraceOver(j, r) \/ Release(j, r)
  \/ exec[j][r] = "forced" /\ Ends(j, r)

(* The event loop starves no job's callbacks and timers; cancel() of an    *)
(* execution is answered, one cancelled by force ends, and a process that  *)
(* is being closed ends.  An execution that nobody cancels may hang.       *)
FairSpec ==
  /\ Spec /\ WF_vars(Handler) /\ WF_vars(closing /\ Restart)
  /\ \A j \in Jobs : SF_vars(Owed(j))
=============================================================================
