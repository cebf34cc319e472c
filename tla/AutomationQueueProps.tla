------------------------- MODULE AutomationQueueProps -------------------------
(***************************************************************************)
(* What the job queue of the automation runner must guarantee, and the     *)
(* life of a job that it implements.                                       *)
(***************************************************************************)
EXTENDS AutomationQueue

TypeOK ==
  /\ job \in [Jobs -> Job] /\ order \in Seq(Jobs)
  /\ active \in [Jobs -> 0..2]
  /\ exec \in [Jobs -> [Runs -> Execution]]
  /\ code \in Seq(Statement) /\ closing \in BOOLEAN

NeverPaused(j) == job[j].pause = "none"

(* A job that waits has a pause that can still be answered: the row and    *)
(* the state change together, and a second pause of the job changes        *)
(* nothing (store.pause, store.resume).                                    *)
WaitingAnswerable == \A j \in Jobs : job[j].state = "waiting" => job[j].pause = "open"

(* A client that replays the events of a job sees its state, except for    *)
(* the statement between an update and its event, and for what a restart   *)
(* put back: there the log is at an earlier state, never at a later one.   *)
LogFollowsState ==
  \A j \in Jobs :
    \/ job[j].told = job[j].state
    \/ job[j].state = "queued" /\ job[j].told \in {"running", "cancelling"}
    \/ \E i \in DOMAIN code : code[i].op = "tell" /\ code[i].job = j
                              /\ code[i].state = job[j].state

(* The capacity is respected, counting the executions in progress of jobs  *)
(* that have not paused (pump() counts the entries of the map).            *)
CapacityKept ==
  Cardinality({j \in Jobs : NeverPaused(j) /\ \E r \in Runs : exec[j][r] \in Live})
    <= Concurrency

(* The queue does not idle: when nothing is left to execute, a job that    *)
(* has not paused is queued only while every place is taken.               *)
NoIdleCapacity ==
  code = <<>> =>
    \A j \in Jobs : job[j].state = "queued" /\ NeverPaused(j) => Size >= Concurrency

(* The cancellation of a running job comes to an end: the execution ends   *)
(* by itself or by force after the grace period, unless it rejects the     *)
(* call or the job paused before and the map lost its execution.           *)
CancelTakesEffect ==
  \A j \in Jobs :
    (job[j].state = "cancelling" /\ NeverPaused(j)) ~>
      \/ job[j].state # "cancelling" \/ ~NeverPaused(j)
      \/ \E r \in Runs : exec[j][r] = "refused"

(* A paused job runs again once its pause is answered.                     *)
AnsweredRuns ==
  \A j \in Jobs :
    (job[j].state = "queued" /\ job[j].pause = "answered") ~> job[j].state # "queued"

-----------------------------------------------------------------------------
(* The life of a job.                                                      *)

Life == INSTANCE AutomationJob WITH phase <- [j \in Jobs |-> job[j].state]

(* The queue implements the life of its jobs, with the end of the process  *)
(* between any two statements and with late results.                       *)
LifeSpec == Life!Spec
=============================================================================
