---------------------------- MODULE AutomationJob ----------------------------
(***************************************************************************)
(* What the automation runner promises about its jobs, without events,     *)
(* executions, the queue and the process: the life of each job.  It ends   *)
(* once; a job that is being cancelled ends cancelled, unless a restart    *)
(* puts it back; a job that waits goes on with an answer only, or ends.    *)
(***************************************************************************)
EXTENDS AutomationStore

CONSTANT Jobs

VARIABLE phase  \* [Jobs -> States]

Init == phase = [j \in Jobs |-> "none"]

Goes(j, from, to) == phase[j] \in from /\ phase' = [phase EXCEPT ![j] = to]

Submit(j) == Goes(j, {"none"}, "queued")

Start(j) == Goes(j, {"queued"}, "running")

Suspend(j) == Goes(j, {"running"}, "waiting")

Continue(j) == Goes(j, {"waiting"}, "queued")

AskCancel(j) == Goes(j, {"running"}, "cancelling")

End(j) ==
  \/ \E result \in Terminal : Goes(j, {"queued", "running", "waiting"}, result)
  \/ Goes(j, {"cancelling"}, "cancelled")

PutBack ==
  phase' = [j \in Jobs |->
              IF phase[j] \in {"running", "cancelling"} THEN "queued" ELSE phase[j]]

Next ==
  \/ \E j \in Jobs :
       Submit(j) \/ Start(j) \/ Suspend(j) \/ Continue(j) \/ AskCancel(j) \/ End(j)
  \/ PutBack

Spec == Init /\ [][Next]_phase
=============================================================================
