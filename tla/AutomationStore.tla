--------------------------- MODULE AutomationStore ---------------------------
(***************************************************************************)
(* The tables of the automation runner                                     *)
(* (apps/automation-runner/src/store.ts) and its methods, each an operator *)
(* on the record of one job.  A method that runs in a transaction is one   *)
(* operator; "transition" outside a transaction is an UPDATE, Move, and    *)
(* later an event, Tell.                                                   *)
(*                                                                         *)
(* The event log of a job is abstracted to what a client that replays it   *)
(* takes for the state of the job.  The two kinds of waiting differ in     *)
(* nothing else.                                                           *)
(***************************************************************************)
EXTENDS Naturals

Terminal == {"succeeded", "failed", "cancelled"}

States == {"none", "queued", "running", "waiting", "cancelling"} \cup Terminal

(* pause: the row of the job in the table pauses, there is at most one.    *)
Job == [state : States, told : States, pause : {"none", "open", "answered"}]

NoJob == [state |-> "none", told |-> "none", pause |-> "none"]

Create(j) == [j EXCEPT !.state = "queued", !.told = "queued"]

Move(j, to) == [j EXCEPT !.state = to]

Tell(j, to) == [j EXCEPT !.told = to]

(* Mutation: the end of a job is not told.                                 *)
FinishUntold(j, to) ==
  IF j.state \in Terminal THEN j ELSE [j EXCEPT !.state = to]

Finish(j, to) ==
  IF j.state \in Terminal THEN j ELSE [j EXCEPT !.state = to, !.told = to]

(* Mutation: a second pause of the job is ignored but the job waits.       *)
PauseAgain(j) ==
  [j EXCEPT !.pause = IF @ = "none" THEN "open" ELSE @,
            !.state = IF @ = "running" THEN "waiting" ELSE @,
            !.told = IF j.state = "running" THEN "waiting" ELSE @]

(* The INSERT fails for a second pause of the job (job_id is UNIQUE).      *)
Pause(j) ==
  IF j.pause # "none" THEN j
  ELSE [j EXCEPT !.pause = "open",
                 !.state = IF @ = "running" THEN "waiting" ELSE @,
                 !.told = IF j.state = "running" THEN "waiting" ELSE @]

(* An answer is taken once; it moves the job only if that is waiting.      *)
Resume(j) ==
  IF j.pause # "open" THEN j
  ELSE [j EXCEPT !.pause = "answered",
                 !.state = IF @ = "waiting" THEN "queued" ELSE @,
                 !.told = IF j.state = "waiting" THEN "queued" ELSE @]

(* Opening the database puts interrupted jobs back; no event tells of it.  *)
Recover(j) ==
  IF j.state \in {"running", "cancelling"} THEN [j EXCEPT !.state = "queued"] ELSE j
=============================================================================
