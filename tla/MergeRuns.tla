------------------------------ MODULE MergeRuns ------------------------------
(***************************************************************************)
(* Merge runs of one task (db/repos/ci.ts): users start, cancel, retry and *)
(* reassign a run while it is queued, an executor claims it.  The executor *)
(* is a service that uses the repository.  A statement or a transaction is *)
(* one step; what a call awaits between two of them may be out of date.    *)
(***************************************************************************)
EXTENDS Naturals, FiniteSets

CONSTANTS
  TaskRuns,        \* 1..n, in the order of created_at
  Machines,    \* machines of the project
  UserCalls,       \* calls of users under way
  NoRun,
  MaxEdits,    \* changes of project settings
  MaxVersion   \* changes of the machine of a run

ASSUME MergeAssumption ==
  /\ TaskRuns \in SUBSET Nat /\ IsFiniteSet(TaskRuns) /\ NoRun \notin TaskRuns
  /\ Machines # {} /\ MaxEdits \in Nat /\ MaxVersion \in Nat

VARIABLES
  run,         \* merge_runs
  claim,       \* what the executor of a run works with
  column,      \* the card of the task
  settings,    \* generation of the settings a preflight looks at
  asks         \* calls of users between two of their steps

mergeVars == <<run, claim, column, settings, asks>>

(* version: assignment_version; pinned: source_sha is set.                 *)
MergeRun ==
  [status : {"none", "queued", "working", "success", "failed", "cancelled"},
   machine : Machines, version : Nat, pinned : BOOLEAN, conflicts : BOOLEAN]

NoClaim == [status |-> "none", machine |-> CHOOSE m \in Machines : TRUE,
            version |-> 0, pinned |-> FALSE, conflicts |-> FALSE]

(* at: the next step; run: the run it is about; machine, version, seen:    *)
(* the change it asks for; unpin: the retry drops the source SHA.          *)
MergeCall ==
  [at : {"none", "change", "move", "start", "unpin"}, run : TaskRuns \cup {NoRun},
   machine : Machines, version : Nat, seen : Nat, unpin : BOOLEAN]

NoMergeCall == [at |-> "none", run |-> NoRun, machine |-> NoClaim.machine,
                version |-> 0, seen |-> 0, unpin |-> FALSE]

MergeInit ==
  /\ run = [r \in TaskRuns |-> NoClaim] /\ claim = [r \in TaskRuns |-> NoClaim]
  /\ column = "awaiting" /\ settings = 0 /\ asks = [c \in UserCalls |-> NoMergeCall]

ActiveRuns == {r \in TaskRuns : run[r].status \in {"queued", "working"}}
FreeRuns == {r \in TaskRuns : run[r].status = "none"}

(* Mutation: nobody looks for an active run.                               *)
StartRunAgain(machine, result) ==
  /\ column \in {"awaiting", "merge"}
  /\ result \in FreeRuns /\ \A r \in FreeRuns : result <= r
  /\ run' = [run EXCEPT ![result] =
       [NoClaim EXCEPT !.status = "queued", !.machine = machine, !.pinned = TRUE]]
  /\ column' = "merge"

(* startMergeRun, one transaction: the active run, or a new one with the   *)
(* source SHA of the prepared branch.  result is the run it returns.       *)
StartRun(machine, result) ==
  \/ /\ result \in ActiveRuns
     /\ UNCHANGED <<run, column>>
  \/ /\ ActiveRuns = {} /\ column \in {"awaiting", "merge"}
     /\ result \in FreeRuns /\ \A r \in FreeRuns : result <= r
     /\ run' = [run EXCEPT ![result] =
          [NoClaim EXCEPT !.status = "queued", !.machine = machine, !.pinned = TRUE]]
     /\ column' = "merge"

StartMerge(machine, r) ==
  /\ StartRun(machine, r)
  /\ UNCHANGED <<claim, settings, asks>>

ClaimQueued(r) ==
  /\ run[r].status = "queued"
  /\ run' = [run EXCEPT ![r].status = "working"]
  /\ claim' = [claim EXCEPT ![r] = run'[r]]
  /\ UNCHANGED <<column, settings, asks>>

(* The user has seen this version of the assignment.                       *)
CancelQueued(r, version) ==
  /\ run[r].status = "queued" /\ run[r].version = version
  /\ run' = [run EXCEPT ![r].status = "cancelled"]
  /\ UNCHANGED <<claim, column, settings, asks>>

(* The executor ends the run.                                              *)
FinishRun(r, status, conflicts) ==
  /\ run[r].status = "working"
  /\ run' = [run EXCEPT ![r].status = status, ![r].conflicts = conflicts]
  /\ claim' = [claim EXCEPT ![r] = NoClaim]
  /\ column' \in {"merge", "other"}
  /\ UNCHANGED <<settings, asks>>

EditSettings ==
  /\ settings < MaxEdits /\ settings' = settings + 1
  /\ UNCHANGED <<run, claim, column, asks>>

-----------------------------------------------------------------------------
(* changeQueuedMergeMachine: the preflight of the machine runs outside the *)
(* transaction that changes the assignment.                                *)
Preflight(c, r, machine, version) ==
  /\ asks[c].at = "none" /\ run[r].status # "none"
  /\ version <= run[r].version /\ run[r].version < MaxVersion
  /\ asks' = [asks EXCEPT ![c] =
       [NoMergeCall EXCEPT !.at = "change", !.run = r, !.machine = machine,
                           !.version = version, !.seen = settings]]
  /\ UNCHANGED <<run, claim, column, settings>>

ChangeMachine(c) ==
  LET ask == asks[c] IN
  /\ ask.at = "change" /\ asks' = [asks EXCEPT ![c] = NoMergeCall]
  /\ run' = IF /\ run[ask.run].status = "queued" /\ run[ask.run].version = ask.version
               /\ run[ask.run].machine # ask.machine /\ settings = ask.seen
            THEN [run EXCEPT ![ask.run].machine = ask.machine, ![ask.run].version = @ + 1]
            ELSE run
  /\ UNCHANGED <<claim, column, settings>>

-----------------------------------------------------------------------------
(* retryMergeRun: reads the run, moves the card, starts a run, and drops   *)
(* the source SHA of whatever run it got.                                  *)
Retry(c, r, unpin) ==
  /\ asks[c].at = "none" /\ run[r].status \notin {"none", "queued", "working"}
  /\ asks' = [asks EXCEPT ![c] = [NoMergeCall EXCEPT !.at = "move", !.run = r,
       !.machine = run[r].machine, !.unpin = unpin \/ run[r].conflicts]]
  /\ UNCHANGED <<run, claim, column, settings>>

MoveCard(c) ==
  /\ asks[c].at = "move" /\ asks' = [asks EXCEPT ![c].at = "start"]
  /\ column' = "merge"
  /\ UNCHANGED <<run, claim, settings>>

RetryStart(c, r) ==
  /\ asks[c].at = "start" /\ StartRun(asks[c].machine, r)
  /\ asks' = [asks EXCEPT ![c] =
       IF @.unpin THEN [@ EXCEPT !.at = "unpin", !.run = r] ELSE NoMergeCall]
  /\ UNCHANGED <<claim, settings>>

Unpin(c) ==
  /\ asks[c].at = "unpin" /\ asks' = [asks EXCEPT ![c] = NoMergeCall]
  /\ run' = [run EXCEPT ![asks[c].run].pinned = FALSE]
  /\ UNCHANGED <<claim, column, settings>>

(* A call ends with an error, or with the process.                         *)
AskFails(c) ==
  /\ asks[c].at # "none" /\ asks' = [asks EXCEPT ![c] = NoMergeCall]
  /\ UNCHANGED <<run, claim, column, settings>>

MergeNext ==
  \/ \E m \in Machines, r \in TaskRuns : StartMerge(m, r)
  \/ \E r \in TaskRuns : ClaimQueued(r)
  \/ \E r \in TaskRuns, version \in 0..MaxVersion : CancelQueued(r, version)
  \/ \E r \in TaskRuns, status \in {"success", "failed"}, conflicts \in BOOLEAN :
       FinishRun(r, status, conflicts)
  \/ EditSettings
  \/ \E c \in UserCalls, r \in TaskRuns, m \in Machines, version \in 0..MaxVersion :
       Preflight(c, r, m, version)
  \/ \E c \in UserCalls, r \in TaskRuns, unpin \in BOOLEAN : Retry(c, r, unpin)
  \/ \E c \in UserCalls : ChangeMachine(c) \/ MoveCard(c) \/ Unpin(c) \/ AskFails(c)
  \/ \E c \in UserCalls, r \in TaskRuns : RetryStart(c, r)

MergeSpec == MergeInit /\ [][MergeNext]_mergeVars

-----------------------------------------------------------------------------
MergeTypeOK ==
  /\ run \in [TaskRuns -> MergeRun] /\ claim \in [TaskRuns -> MergeRun]
  /\ column \in {"awaiting", "merge", "other"} /\ settings \in 0..MaxEdits
  /\ asks \in [UserCalls -> MergeCall]

(* A task has at most one run that is queued or works, whoever starts and  *)
(* retries at the same time.                                               *)
OneActiveRun == Cardinality(ActiveRuns) <= 1

(* The executor works on the machine the row says, on a run that nobody    *)
(* has cancelled: the last change of the assignment comes before the claim *)
(* or not at all.                                                          *)
ClaimedAssignment ==
  \A r \in TaskRuns : claim[r].status = "working" =>
    /\ run[r].status = "working"
    /\ run[r].machine = claim[r].machine /\ run[r].version = claim[r].version
=============================================================================
