--------------------------- MODULE ReleaseProofs ----------------------------
(***************************************************************************)
(* Merge runs and deploys for any number of runs, machines, callers,       *)
(* applications, releases and deploys: the row types, one active run of    *)
(* the task, the assignment an executor works with, the lock of the        *)
(* production environment, and that what is confirmed is what runs.        *)
(***************************************************************************)
EXTENDS MergeRuns, Deployments, FiniteSetTheorems, TLAPS

-----------------------------------------------------------------------------
(* Merge runs.                                                             *)

(* The machine of a call that is not about one.                            *)
LEMMA AnyMachine ==
  NoClaim \in MergeRun /\ NoMergeCall \in MergeCall /\ NoClaim.status = "none"
<1>1. NoClaim.machine \in Machines
  BY MergeAssumption DEF NoClaim
<1> QED
  BY <1>1 DEF NoClaim, NoMergeCall, MergeRun, MergeCall

(* Two active runs are the same run, and what is claimed is as committed.  *)
Exclusive ==
  /\ \A q, r \in ActiveRuns : q = r
  /\ \A r \in TaskRuns : claim[r].status = "working" => run[r].status = "working"

MergeInv == MergeTypeOK /\ Exclusive /\ ClaimedAssignment

(* A call of startMergeRun keeps the invariant for the runs and claims.    *)
LEMMA StartRunKeeps ==
  ASSUME MergeInv, NEW m \in Machines, NEW r \in TaskRuns, StartRun(m, r), UNCHANGED claim
  PROVE  /\ run' \in [TaskRuns -> MergeRun] /\ column' \in {"awaiting", "merge", "other"}
         /\ Exclusive' /\ ClaimedAssignment'
<1>0. /\ run \in [TaskRuns -> MergeRun] /\ claim \in [TaskRuns -> MergeRun]
      /\ column \in {"awaiting", "merge", "other"}
  BY DEF MergeInv, MergeTypeOK
<1>1. CASE r \in ActiveRuns /\ UNCHANGED <<run, column>>
  BY <1>0, <1>1 DEF MergeInv, Exclusive, ClaimedAssignment, ActiveRuns
<1>2. CASE /\ ActiveRuns = {} /\ r \in FreeRuns
           /\ run' = [run EXCEPT ![r] =
                [NoClaim EXCEPT !.status = "queued", !.machine = m, !.pinned = TRUE]]
           /\ column' = "merge"
  <2> DEFINE new == [NoClaim EXCEPT !.status = "queued", !.machine = m, !.pinned = TRUE]
  <2>1. new \in MergeRun /\ new.status = "queued"
    BY AnyMachine DEF MergeRun
  <2> HIDE DEF new
  <2>2. run' = [run EXCEPT ![r] = new]
    BY <1>2 DEF new
  <2>3. run' \in [TaskRuns -> MergeRun]
    BY <1>0, <2>1, <2>2
  <2>4. \A q \in TaskRuns : q # r => run'[q] = run[q] /\ q \notin ActiveRuns
    BY <1>0, <1>2, <2>2
  <2>5. run'[r].status = "queued" /\ run[r].status = "none"
    BY <1>0, <1>2, <2>1, <2>2 DEF FreeRuns
  <2>6. claim[r].status # "working"
    BY <2>5 DEF MergeInv, Exclusive
  <2>7. Exclusive'
    BY <2>4, <2>5, <2>6 DEF MergeInv, Exclusive, ActiveRuns
  <2>8. ClaimedAssignment'
    BY <2>4, <2>6 DEF MergeInv, ClaimedAssignment
  <2> QED
    BY <2>3, <2>7, <2>8, <1>2
<1> QED
  BY <1>1, <1>2 DEF StartRun

(* A step that leaves the status of a run alone, or changes one that is    *)
(* queued and no claim, keeps the invariant.                               *)
LEMMA RunKept ==
  ASSUME MergeInv, UNCHANGED claim, NEW r \in TaskRuns, NEW new \in MergeRun,
         run' = [run EXCEPT ![r] = new],
         \/ new.status = run[r].status /\ new.machine = run[r].machine /\ new.version = run[r].version
         \/ run[r].status = "queued" /\ new.status \in {"queued", "cancelled"}
  PROVE  run' \in [TaskRuns -> MergeRun] /\ Exclusive' /\ ClaimedAssignment'
<1>0. run \in [TaskRuns -> MergeRun] /\ claim \in [TaskRuns -> MergeRun]
  BY DEF MergeInv, MergeTypeOK
<1>1. run' \in [TaskRuns -> MergeRun] /\ run'[r] = new /\ \A q \in TaskRuns : q # r => run'[q] = run[q]
  BY <1>0
<1>2. \A q \in TaskRuns : run'[q].status \in {"queued", "working"} => q \in ActiveRuns
  BY <1>0, <1>1 DEF ActiveRuns
<1>3. Exclusive'
  BY <1>0, <1>1, <1>2 DEF MergeInv, Exclusive, ActiveRuns
<1>4. ClaimedAssignment'
  BY <1>0, <1>1 DEF MergeInv, ClaimedAssignment
<1> QED
  BY <1>1, <1>3, <1>4

LEMMA MergeInitial == MergeInit => MergeInv
<1> SUFFICES ASSUME MergeInit PROVE MergeInv
  OBVIOUS
<1>1. MergeTypeOK
  BY AnyMachine, MergeAssumption DEF MergeInit, MergeTypeOK
<1>2. \A r \in TaskRuns : run[r].status = "none" /\ claim[r].status = "none"
  BY DEF MergeInit, NoClaim
<1> QED
  BY <1>1, <1>2 DEF MergeInv, Exclusive, ClaimedAssignment, ActiveRuns

LEMMA StartMergeStep ==
  ASSUME MergeInv, NEW m \in Machines, NEW r \in TaskRuns, StartMerge(m, r)
  PROVE  MergeInv'
<1>1. UNCHANGED <<claim, settings, asks>> /\ StartRun(m, r)
  BY DEF StartMerge
<1> QED
  BY <1>1, StartRunKeeps DEF MergeInv, MergeTypeOK

LEMMA ClaimQueuedStep ==
  ASSUME MergeInv, NEW r \in TaskRuns, ClaimQueued(r)
  PROVE  MergeInv'
<1>0. /\ run \in [TaskRuns -> MergeRun] /\ claim \in [TaskRuns -> MergeRun]
      /\ run[r].status = "queued" /\ UNCHANGED <<column, settings, asks>>
  BY DEF MergeInv, MergeTypeOK, ClaimQueued
<1> DEFINE new == [run[r] EXCEPT !.status = "working"]
<1>1. new \in MergeRun /\ new.status = "working"
  BY <1>0 DEF MergeRun
<1> HIDE DEF new
<1>2. run' = [run EXCEPT ![r] = new]
  BY <1>0 DEF ClaimQueued, new
<1>3. /\ run' \in [TaskRuns -> MergeRun] /\ run'[r] = new
      /\ \A q \in TaskRuns : q # r => run'[q] = run[q]
  BY <1>0, <1>1, <1>2
<1>4. claim' = [claim EXCEPT ![r] = new]
  BY <1>3 DEF ClaimQueued
<1>5. claim' \in [TaskRuns -> MergeRun] /\ claim'[r] = new /\ \A q \in TaskRuns : q # r => claim'[q] = claim[q]
  BY <1>0, <1>1, <1>4
<1>6. MergeTypeOK'
  BY <1>0, <1>3, <1>5 DEF MergeInv, MergeTypeOK
<1>7. \A q \in TaskRuns : run'[q].status \in {"queued", "working"} => q \in ActiveRuns
  BY <1>0, <1>3 DEF ActiveRuns
<1>8. Exclusive'
  BY <1>0, <1>1, <1>3, <1>5, <1>7 DEF MergeInv, Exclusive, ActiveRuns
<1>9. ClaimedAssignment'
  BY <1>1, <1>3, <1>5 DEF MergeInv, ClaimedAssignment
<1> QED
  BY <1>6, <1>8, <1>9 DEF MergeInv

LEMMA CancelQueuedStep ==
  ASSUME MergeInv, NEW r \in TaskRuns, NEW version, CancelQueued(r, version)
  PROVE  MergeInv'
<1>0. run \in [TaskRuns -> MergeRun] /\ run[r].status = "queued" /\ UNCHANGED <<claim, column, settings, asks>>
  BY DEF MergeInv, MergeTypeOK, CancelQueued
<1> DEFINE new == [run[r] EXCEPT !.status = "cancelled"]
<1>1. new \in MergeRun /\ new.status = "cancelled"
  BY <1>0 DEF MergeRun
<1> HIDE DEF new
<1>2. run' = [run EXCEPT ![r] = new]
  BY <1>0 DEF CancelQueued, new
<1>3. run' \in [TaskRuns -> MergeRun] /\ Exclusive' /\ ClaimedAssignment'
  BY <1>0, <1>1, <1>2, RunKept
<1> QED
  BY <1>0, <1>3 DEF MergeInv, MergeTypeOK

LEMMA FinishRunStep ==
  ASSUME MergeInv, NEW r \in TaskRuns, NEW status \in {"success", "failed"},
         NEW conflicts \in BOOLEAN, FinishRun(r, status, conflicts)
  PROVE  MergeInv'
<1>0. /\ run \in [TaskRuns -> MergeRun] /\ claim \in [TaskRuns -> MergeRun]
      /\ UNCHANGED <<settings, asks>> /\ column' \in {"awaiting", "merge", "other"}
      /\ run[r].status = "working" /\ claim' = [claim EXCEPT ![r] = NoClaim]
  BY DEF MergeInv, MergeTypeOK, FinishRun
<1> DEFINE new == [run[r] EXCEPT !.status = status, !.conflicts = conflicts]
<1>1. new \in MergeRun /\ new.status \in {"success", "failed"}
  BY <1>0 DEF MergeRun
<1>2. run' = [run EXCEPT ![r] = new]
  BY <1>0 DEF FinishRun
<1> HIDE DEF new
<1>3. /\ run' \in [TaskRuns -> MergeRun] /\ run'[r] = new
      /\ \A q \in TaskRuns : q # r => run'[q] = run[q]
  BY <1>0, <1>1, <1>2
<1>5. /\ claim' \in [TaskRuns -> MergeRun] /\ claim'[r].status = "none"
      /\ \A q \in TaskRuns : q # r => claim'[q] = claim[q]
  BY <1>0, AnyMachine
<1>6. MergeTypeOK'
  BY <1>0, <1>3, <1>5 DEF MergeInv, MergeTypeOK
<1>7. \A q \in TaskRuns : run'[q].status \in {"queued", "working"} => q \in ActiveRuns
  BY <1>0, <1>1, <1>3 DEF ActiveRuns
<1>8. Exclusive'
  BY <1>0, <1>3, <1>5, <1>7 DEF MergeInv, Exclusive, ActiveRuns
<1>9. ClaimedAssignment'
  BY <1>3, <1>5 DEF MergeInv, ClaimedAssignment
<1> QED
  BY <1>6, <1>8, <1>9 DEF MergeInv

(* What changes neither runs nor claims.                                   *)
LEMMA RunsUntouched ==
  ASSUME MergeInv, MergeTypeOK', UNCHANGED <<run, claim>>
  PROVE  MergeInv'
BY DEF MergeInv, Exclusive, ClaimedAssignment, ActiveRuns

LEMMA EditSettingsStep ==
  ASSUME MergeInv, EditSettings
  PROVE  MergeInv'
<1>1. settings' \in 0..MaxEdits
  BY MergeAssumption DEF MergeInv, MergeTypeOK, EditSettings
<1> QED
  BY <1>1, RunsUntouched DEF MergeInv, MergeTypeOK, EditSettings

LEMMA PreflightStep ==
  ASSUME MergeInv, NEW c \in UserCalls, NEW r \in TaskRuns, NEW m \in Machines,
         NEW version \in Nat, Preflight(c, r, m, version)
  PROVE  MergeInv'
<1> DEFINE ask == [NoMergeCall EXCEPT !.at = "change", !.run = r, !.machine = m,
                                       !.version = version, !.seen = settings]
<1>0. NoMergeCall \in MergeCall /\ settings \in Nat
  BY AnyMachine, MergeAssumption DEF MergeInv, MergeTypeOK
<1>1. ask \in MergeCall
  BY <1>0 DEF MergeCall
<1>2. asks' = [asks EXCEPT ![c] = ask] /\ UNCHANGED <<run, claim, column, settings>>
  BY DEF Preflight
<1> HIDE DEF ask
<1> QED
  BY <1>1, <1>2, RunsUntouched DEF MergeInv, MergeTypeOK

LEMMA ChangeMachineStep ==
  ASSUME MergeInv, NEW c \in UserCalls, ChangeMachine(c)
  PROVE  MergeInv'
<1>0. /\ asks[c] \in MergeCall /\ asks' = [asks EXCEPT ![c] = NoMergeCall]
      /\ run \in [TaskRuns -> MergeRun]
      /\ UNCHANGED <<claim, column, settings>>
  BY DEF MergeInv, MergeTypeOK, ChangeMachine
<1>1. asks' \in [UserCalls -> MergeCall]
  BY <1>0, AnyMachine DEF MergeInv, MergeTypeOK
<1>2. CASE UNCHANGED run
  BY <1>0, <1>1, <1>2, RunsUntouched DEF MergeInv, MergeTypeOK
<1>3. CASE run' # run
  <2> DEFINE r == asks[c].run
             new == [run[r] EXCEPT !.machine = asks[c].machine, !.version = @ + 1]
  <2>1. /\ run[r].status = "queued"
        /\ run' = [run EXCEPT ![r].machine = asks[c].machine, ![r].version = @ + 1]
    BY <1>3 DEF ChangeMachine
  <2>2. r \in TaskRuns
    BY <1>0, <1>3, <2>1
  <2>3. new \in MergeRun /\ new.status = "queued" /\ run' = [run EXCEPT ![r] = new]
    BY <1>0, <2>1, <2>2 DEF MergeRun, MergeCall
  <2> HIDE DEF r, new
  <2>4. run' \in [TaskRuns -> MergeRun] /\ Exclusive' /\ ClaimedAssignment'
    BY <1>0, <2>1, <2>2, <2>3, RunKept
  <2> QED
    BY <1>0, <1>1, <2>4 DEF MergeInv, MergeTypeOK
<1> QED
  BY <1>2, <1>3

LEMMA RetryStep ==
  ASSUME MergeInv, NEW c \in UserCalls, NEW r \in TaskRuns, NEW unpin \in BOOLEAN, Retry(c, r, unpin)
  PROVE  MergeInv'
<1> DEFINE ask == [NoMergeCall EXCEPT !.at = "move", !.run = r, !.machine = run[r].machine,
                                       !.unpin = unpin \/ run[r].conflicts]
<1>0. run[r] \in MergeRun
  BY DEF MergeInv, MergeTypeOK
<1>1. ask \in MergeCall
  BY <1>0, AnyMachine DEF MergeCall, MergeRun
<1>2. asks' = [asks EXCEPT ![c] = ask] /\ UNCHANGED <<run, claim, column, settings>>
  BY DEF Retry
<1> HIDE DEF ask
<1> QED
  BY <1>1, <1>2, RunsUntouched DEF MergeInv, MergeTypeOK

LEMMA MoveCardStep ==
  ASSUME MergeInv, NEW c \in UserCalls, MoveCard(c)
  PROVE  MergeInv'
<1>0. asks \in [UserCalls -> MergeCall]
  BY DEF MergeInv, MergeTypeOK
<1>1. [asks[c] EXCEPT !.at = "start"] \in MergeCall
  BY <1>0 DEF MergeCall
<1>2. asks' = [asks EXCEPT ![c] = [asks[c] EXCEPT !.at = "start"]]
  BY DEF MoveCard
<1>3. asks' \in [UserCalls -> MergeCall]
  BY <1>0, <1>1, <1>2
<1> QED
  BY <1>3, RunsUntouched DEF MergeInv, MergeTypeOK, MoveCard

LEMMA RetryStartStep ==
  ASSUME MergeInv, NEW c \in UserCalls, NEW r \in TaskRuns, RetryStart(c, r)
  PROVE  MergeInv'
<1>0. asks \in [UserCalls -> MergeCall] /\ asks[c] \in MergeCall
  BY DEF MergeInv, MergeTypeOK
<1> DEFINE next == IF asks[c].unpin THEN [asks[c] EXCEPT !.at = "unpin", !.run = r] ELSE NoMergeCall
<1>1. next \in MergeCall
  BY <1>0, AnyMachine DEF MergeCall
<1>2. /\ asks' = [asks EXCEPT ![c] = next] /\ UNCHANGED <<claim, settings>>
      /\ StartRun(asks[c].machine, r)
  BY DEF RetryStart
<1> HIDE DEF next
<1>3. asks' \in [UserCalls -> MergeCall]
  BY <1>0, <1>1, <1>2
<1>4. asks[c].machine \in Machines
  BY <1>0 DEF MergeCall
<1>5. /\ run' \in [TaskRuns -> MergeRun] /\ column' \in {"awaiting", "merge", "other"}
      /\ Exclusive' /\ ClaimedAssignment'
  BY <1>2, <1>4, StartRunKeeps
<1> QED
  BY <1>2, <1>3, <1>5 DEF MergeInv, MergeTypeOK

(* A step of Unpin that finds a run; one that has none changes nothing.    *)
LEMMA UnpinStep ==
  ASSUME MergeInv, NEW c \in UserCalls, Unpin(c)
  PROVE  MergeInv'
<1>0. /\ asks[c] \in MergeCall /\ asks' = [asks EXCEPT ![c] = NoMergeCall]
      /\ run \in [TaskRuns -> MergeRun] /\ UNCHANGED <<claim, column, settings>>
  BY DEF MergeInv, MergeTypeOK, Unpin
<1>1. asks' \in [UserCalls -> MergeCall]
  BY <1>0, AnyMachine DEF MergeInv, MergeTypeOK
<1> DEFINE r == asks[c].run
           new == [run[r] EXCEPT !.pinned = FALSE]
<1>2. CASE r \in TaskRuns
  <2>1. /\ new \in MergeRun /\ new.status = run[r].status /\ new.machine = run[r].machine
        /\ new.version = run[r].version /\ run' = [run EXCEPT ![r] = new]
    BY ZenonT(60), <1>0, <1>2 DEF MergeRun, Unpin
  <2> HIDE DEF r, new
  <2>2. run' \in [TaskRuns -> MergeRun] /\ Exclusive' /\ ClaimedAssignment'
    BY <1>0, <1>2, <2>1, RunKept
  <2> QED
    BY <1>0, <1>1, <2>2 DEF MergeInv, MergeTypeOK
<1>3. CASE r \notin TaskRuns
  <2>1. UNCHANGED run
    BY <1>0, <1>3 DEF Unpin
  <2> QED
    BY <1>0, <1>1, <2>1, RunsUntouched DEF MergeInv, MergeTypeOK
<1> QED
  BY <1>2, <1>3

LEMMA AskFailsStep ==
  ASSUME MergeInv, NEW c \in UserCalls, AskFails(c)
  PROVE  MergeInv'
<1>1. asks' \in [UserCalls -> MergeCall]
  BY AnyMachine DEF MergeInv, MergeTypeOK, AskFails
<1> QED
  BY <1>1, RunsUntouched DEF MergeInv, MergeTypeOK, AskFails

(* Every step keeps the invariant.                                         *)
LEMMA MergeStep == MergeInv /\ [MergeNext]_mergeVars => MergeInv'
<1> SUFFICES ASSUME MergeInv, [MergeNext]_mergeVars PROVE MergeInv'
  OBVIOUS
<1>0. \A version \in 0..MaxVersion : version \in Nat
  BY MergeAssumption
<1>1. CASE MergeNext
  BY <1>0, <1>1, StartMergeStep, ClaimQueuedStep, CancelQueuedStep, FinishRunStep,
     EditSettingsStep, PreflightStep, RetryStep, ChangeMachineStep, MoveCardStep,
     UnpinStep, AskFailsStep, RetryStartStep
     DEF MergeNext
<1>2. CASE UNCHANGED mergeVars
  BY <1>2, RunsUntouched DEF MergeInv, MergeTypeOK, mergeVars
<1> QED
  BY <1>1, <1>2

LEMMA MergeInvariant == MergeSpec => []MergeInv
BY MergeInitial, MergeStep, PTL DEF MergeSpec

(* The rows and calls are well formed in every reachable state.            *)
THEOREM MergeTypeCorrect == MergeSpec => []MergeTypeOK
<1>1. MergeInv => MergeTypeOK
  BY DEF MergeInv
<1> QED
  BY <1>1, MergeInvariant, PTL

(* The task has at most one run that is queued or works, for any number of *)
(* callers that start, retry, cancel and reassign (startMergeRun decides   *)
(* in one transaction).                                                    *)
THEOREM OneActiveRunKept == MergeSpec => []OneActiveRun
<1>1. ASSUME MergeInv PROVE OneActiveRun
  <2>1. CASE ActiveRuns = {}
    BY <2>1, FS_EmptySet DEF OneActiveRun
  <2>2. CASE ActiveRuns # {}
    <3>1. PICK r \in ActiveRuns : ActiveRuns = {r}
      BY <1>1, <2>2 DEF MergeInv, Exclusive
    <3>2. Cardinality({r}) = 1
      BY FS_Singleton, Zenon
    <3>3. Cardinality(ActiveRuns) = 1
      BY <3>1, <3>2, Zenon
    <3> QED
      BY <3>3 DEF OneActiveRun
  <2> QED
    BY <2>1, <2>2
<1> QED
  BY <1>1, MergeInvariant, PTL

(* The executor of a run works with its committed assignment, and on no    *)
(* run that was cancelled: the reassignment looks at the status again in   *)
(* its transaction.                                                        *)
THEOREM ClaimedAssignmentKept == MergeSpec => []ClaimedAssignment
<1>1. MergeInv => ClaimedAssignment
  BY DEF MergeInv
<1> QED
  BY <1>1, MergeInvariant, PTL

-----------------------------------------------------------------------------
(* Deploys to production.                                                  *)

Environment ==
  [found : Composition, revision : Nat, active : Deploys \cup {NoDeploy}, trusted : BOOLEAN]

(* Whoever executes a deploy holds the lock: with it, LockHeld and         *)
(* OneExecutor are inductive.                                              *)
ExecutorLocks == executor # NoDeploy => environment.active = executor

DeployInv == DeployTypeOK /\ LockHeld /\ OneExecutor /\ ExecutorLocks

LEMMA NoDeploymentType == NoDeployment \in Deployment /\ Empty \in Composition
BY DEF NoDeployment, Deployment, Empty, Composition

LEMMA DeployInitial == DeployInit => DeployInv
<1> SUFFICES ASSUME DeployInit PROVE DeployInv
  OBVIOUS
<1>1. environment \in Environment /\ environment.active = NoDeploy
  BY NoDeploymentType DEF DeployInit, Environment
<1>2. probe \in [on : BOOLEAN, found : Composition, revision : Nat, passed : BOOLEAN]
  BY NoDeploymentType DEF DeployInit, NoProbe
<1>3. DeployTypeOK
  BY <1>1, <1>2, NoDeploymentType DEF DeployInit, DeployTypeOK, Environment
<1>4. LockHeld
  BY <1>1, DeployAssumption DEF DeployInit, LockHeld, NoDeployment
<1>5. OneExecutor /\ ExecutorLocks
  BY <1>1 DEF DeployInit, OneExecutor, ExecutorLocks
<1> QED
  BY <1>3, <1>4, <1>5 DEF DeployInv

(* A deploy begins: only while the environment is free.                    *)
LEMMA DeployBeginStep ==
  ASSUME DeployInv, NEW d \in Deploys, NEW plan \in Composition,
         NEW back \in Deploys \cup {NoDeploy}, BeginDeploy(d, plan, back)
  PROVE  DeployInv'
<1>0. /\ environment \in Environment /\ deploy \in [Deploys -> Deployment]
      /\ d # NoDeploy /\ environment.active = NoDeploy /\ ~CommonActive
      /\ UNCHANGED <<common, production, probe>> /\ executor' = d
      /\ environment' = [environment EXCEPT !.active = d]
  BY DeployAssumption DEF DeployInv, DeployTypeOK, BeginDeploy, Environment
<1> DEFINE new == [status |-> "deploying", plan |-> plan, previous |-> environment.found,
                   revision |-> environment.revision, rollbackOf |-> back]
<1>1. new \in Deployment /\ new.status = "deploying"
  BY <1>0 DEF Deployment, Environment
<1>2. deploy' = [deploy EXCEPT ![d] = new]
  BY DEF BeginDeploy
<1> HIDE DEF new
<1>3. /\ deploy' \in [Deploys -> Deployment] /\ deploy'[d].status = "deploying"
      /\ \A e \in Deploys : e # d => deploy'[e] = deploy[e]
  BY <1>0, <1>1, <1>2
<1>4. environment' \in Environment /\ environment'.active = d
  BY <1>0 DEF Environment
<1>5. DeployTypeOK'
  BY <1>0, <1>3, <1>4 DEF DeployInv, DeployTypeOK, Environment
<1>6. \A e \in Deploys : e # d => deploy[e].status \notin {"deploying", "uncertain"}
  BY <1>0, DeployAssumption DEF DeployInv, LockHeld
<1>7. LockHeld'
  BY <1>3, <1>4, <1>6 DEF LockHeld
<1>8. OneExecutor' /\ ExecutorLocks'
  BY <1>0, <1>4 DEF OneExecutor, ExecutorLocks, CommonActive
<1> QED
  BY <1>5, <1>7, <1>8 DEF DeployInv

(* The outcome of the deploy that holds the lock, told when its executor   *)
(* has stopped.                                                            *)
LEMMA FinishStep ==
  ASSUME DeployInv, NEW d \in Deploys, NEW status \in Statuses,
         environment.active = d, FinishDeploy(d, status), executor' = NoDeploy
  PROVE  DeployInv'
<1>0. /\ environment \in Environment /\ deploy \in [Deploys -> Deployment]
      /\ d # NoDeploy /\ ~CommonActive
      /\ UNCHANGED <<common, production, probe>>
      /\ deploy' = [deploy EXCEPT ![d].status = status]
  BY DeployAssumption DEF DeployInv, DeployTypeOK, FinishDeploy, Environment, OneExecutor
<1>1. /\ deploy' \in [Deploys -> Deployment] /\ deploy'[d].status = status
      /\ \A e \in Deploys : e # d => deploy'[e] = deploy[e]
  BY <1>0 DEF Statuses, Deployment
<1>2. \A e \in Deploys : e # d => deploy[e].status \notin {"deploying", "uncertain"}
  BY DEF DeployInv, LockHeld
<1>3. CASE status = "uncertain"
  <2>1. UNCHANGED environment
    BY <1>3 DEF FinishDeploy
  <2>2. DeployTypeOK'
    BY <1>0, <1>1, <2>1 DEF DeployInv, DeployTypeOK
  <2>3. LockHeld'
    BY <1>1, <1>2, <1>3, <2>1 DEF LockHeld
  <2>4. OneExecutor' /\ ExecutorLocks'
    BY <1>0 DEF OneExecutor, ExecutorLocks, CommonActive
  <2> QED
    BY <2>2, <2>3, <2>4 DEF DeployInv
<1>4. CASE status # "uncertain"
  <2>1. environment' = [found |-> production, revision |-> deploy[d].revision + 1,
                        active |-> NoDeploy, trusted |-> TRUE]
    BY <1>4 DEF FinishDeploy
  <2>2. production \in Composition /\ deploy[d].revision + 1 \in Nat
    BY <1>0 DEF DeployInv, DeployTypeOK, Deployment
  <2>3. environment' \in Environment /\ environment'.active = NoDeploy
    BY <2>1, <2>2 DEF Environment
  <2>4. DeployTypeOK'
    BY <1>0, <1>1, <2>3 DEF DeployInv, DeployTypeOK, Environment
  <2>5. LockHeld'
    BY <1>1, <1>2, <1>4, <2>3, DeployAssumption DEF LockHeld, Statuses
  <2>6. OneExecutor' /\ ExecutorLocks'
    BY <1>0 DEF OneExecutor, ExecutorLocks, CommonActive
  <2> QED
    BY <2>4, <2>5, <2>6 DEF DeployInv
<1> QED
  BY <1>3, <1>4

LEMMA OutcomeStep ==
  ASSUME DeployInv, NEW status \in Statuses, DeployOutcome(status) \/ Resolve(status)
  PROVE  DeployInv'
<1>1. CASE DeployOutcome(status)
  <2>1. executor \in Deploys /\ environment.active = executor
    BY <1>1 DEF DeployOutcome, DeployInv, DeployTypeOK, ExecutorLocks
  <2> QED
    BY <1>1, <2>1, FinishStep DEF DeployOutcome
<1>2. CASE Resolve(status)
  <2>1. environment.active \in Deploys
    BY <1>2 DEF Resolve, DeployInv, DeployTypeOK
  <2> QED
    BY <1>2, <2>1, FinishStep DEF Resolve
<1> QED
  BY <1>1, <1>2

(* An observation is stored only while no deploy holds the lock.           *)
LEMMA StoreObservedStep ==
  ASSUME DeployInv, StoreObserved
  PROVE  DeployInv'
<1>0. /\ environment \in Environment
      /\ probe \in [on : BOOLEAN, found : Composition, revision : Nat, passed : BOOLEAN]
      /\ UNCHANGED <<deploy, common, production, executor>> /\ probe' = NoProbe
  BY DEF DeployInv, DeployTypeOK, Environment, StoreObserved
<1>1. environment' \in Environment /\ environment'.active = environment.active
  BY <1>0 DEF StoreObserved, Environment
<1>2. probe' \in [on : BOOLEAN, found : Composition, revision : Nat, passed : BOOLEAN]
  BY <1>0, NoDeploymentType DEF NoProbe
<1> QED
  BY <1>0, <1>1, <1>2
     DEF DeployInv, DeployTypeOK, Environment, LockHeld, OneExecutor, ExecutorLocks, CommonActive

(* The common deploy and what happens on the machine.                      *)
LEMMA CommonStep ==
  ASSUME DeployInv, NEW l \in Commons, CommonBegin(l) \/ CommonStatus(l)
  PROVE  DeployInv'
<1>0. UNCHANGED <<environment, deploy, executor>>
  BY DEF CommonBegin, CommonStatus
<1>1. LockHeld' /\ ExecutorLocks'
  BY <1>0 DEF DeployInv, LockHeld, ExecutorLocks
<1>2. common \in [Commons -> {"none", "queued", "switching", "over"}]
  BY DEF DeployInv, DeployTypeOK
<1>3. CASE CommonBegin(l)
  <2>1. executor = NoDeploy /\ environment.active = NoDeploy
    BY <1>3 DEF CommonBegin, DeployInv, ExecutorLocks
  <2>2. DeployTypeOK'
    BY <1>2, <1>3 DEF CommonBegin, DeployInv, DeployTypeOK
  <2> QED
    BY <1>0, <1>1, <2>1, <2>2 DEF DeployInv, OneExecutor
<1>4. CASE CommonStatus(l)
  <2>1. common[l] \in {"queued", "switching"}
    BY <1>4 DEF CommonStatus
  <2>2. executor = NoDeploy /\ environment.active = NoDeploy
    BY <2>1 DEF DeployInv, OneExecutor, CommonActive
  <2>3. /\ common' \in [Commons -> {"none", "queued", "switching", "over"}]
        /\ production' \in Composition
        /\ probe' \in [on : BOOLEAN, found : Composition, revision : Nat, passed : BOOLEAN]
    BY <1>2, <1>4, NoDeploymentType DEF CommonStatus, DeployInv, DeployTypeOK
  <2> QED
    BY <1>0, <1>1, <2>2, <2>3 DEF DeployInv, DeployTypeOK, OneExecutor
<1> QED
  BY <1>3, <1>4

LEMMA MachineStep ==
  ASSUME DeployInv, (\E a \in Apps : PutUp(a)) \/ Died \/ ProbeMachine
  PROVE  DeployInv'
<1>1. ASSUME NEW a \in Apps, PutUp(a) PROVE DeployInv'
  <2>1. executor \in Deploys /\ deploy[executor] \in Deployment
    BY <1>1 DEF PutUp, DeployInv, DeployTypeOK
  <2>2. deploy[executor].plan[a] \in Artifacts \cup {Absent}
        /\ deploy[executor].previous[a] \in Artifacts \cup {Absent}
    BY <2>1 DEF Deployment, Composition
  <2>3. production' \in Composition
    BY <1>1, <2>2 DEF PutUp, DeployInv, DeployTypeOK, Composition
  <2> QED
    BY <1>1, <2>3
       DEF PutUp, DeployInv, DeployTypeOK, LockHeld, OneExecutor, ExecutorLocks, CommonActive
<1>2. CASE Died
  BY <1>2 DEF Died, DeployInv, DeployTypeOK, LockHeld, OneExecutor, ExecutorLocks, CommonActive
<1>3. CASE ProbeMachine
  <2>1. probe' \in [on : BOOLEAN, found : Composition, revision : Nat, passed : BOOLEAN]
    BY <1>3 DEF ProbeMachine, DeployInv, DeployTypeOK
  <2> QED
    BY <1>3, <2>1
       DEF ProbeMachine, DeployInv, DeployTypeOK, LockHeld, OneExecutor, ExecutorLocks, CommonActive
<1> QED
  BY <1>1, <1>2, <1>3

LEMMA RollbackStep ==
  ASSUME DeployInv, NEW d \in Deploys, NEW last \in Deploys, Rollback(d, last)
  PROVE  DeployInv'
<1> DEFINE old == [a \in Apps |-> IF deploy[last].plan[a] # Absent
                                  THEN deploy[last].previous[a] ELSE Absent]
<1>1. deploy[last] \in Deployment
  BY DEF DeployInv, DeployTypeOK
<1>2. old \in Composition
  BY <1>1 DEF Deployment, Composition
<1>3. BeginDeploy(d, old, last)
  BY DEF Rollback
<1> HIDE DEF old
<1> QED
  BY <1>2, <1>3, DeployBeginStep

LEMMA DeployStep == DeployInv /\ [DeployNext]_deployVars => DeployInv'
<1> SUFFICES ASSUME DeployInv, [DeployNext]_deployVars PROVE DeployInv'
  OBVIOUS
<1>1. CASE DeployNext
  BY <1>1, DeployBeginStep, RollbackStep, OutcomeStep, StoreObservedStep, CommonStep, MachineStep
     DEF DeployNext
<1>2. CASE UNCHANGED deployVars
  BY <1>2 DEF deployVars, DeployInv, DeployTypeOK, LockHeld, OneExecutor, ExecutorLocks, CommonActive
<1> QED
  BY <1>1, <1>2

LEMMA DeployInvariant == DeploySpec => []DeployInv
BY DeployInitial, DeployStep, PTL DEF DeploySpec

(* Rows, plans and observations are well formed.                           *)
THEOREM DeployTypeCorrect == DeploySpec => []DeployTypeOK
<1>1. DeployInv => DeployTypeOK
  BY DEF DeployInv
<1> QED
  BY <1>1, DeployInvariant, PTL

(* The environment is locked exactly by the deploy that is not over, an    *)
(* uncertain one included, for any number of deploys, crashes and repeated *)
(* outcomes.                                                               *)
THEOREM LockKept == DeploySpec => []LockHeld
<1>1. DeployInv => LockHeld
  BY DEF DeployInv
<1> QED
  BY <1>1, DeployInvariant, PTL

(* An application deploy and a common deploy never work at the same time.  *)
THEOREM OneExecutorKept == DeploySpec => []OneExecutor
<1>1. DeployInv => OneExecutor
  BY DEF DeployInv
<1> QED
  BY <1>1, DeployInvariant, PTL

-----------------------------------------------------------------------------
(* What is confirmed is what runs.                                         *)

(* While a common deploy is active nothing is confirmed; a deploy that is  *)
(* under way started from the revision the environment still has; and an   *)
(* observation that may still be stored, of this revision and with no      *)
(* common deploy since, is of what runs.                                   *)
NothingConfirmed == CommonActive => environment.found = Empty
StartedFromHere ==
  environment.active # NoDeploy => deploy[environment.active].revision = environment.revision
ProbedEarlier == probe.on => probe.revision <= environment.revision
ProbeCurrent ==
  probe.on /\ ~probe.passed /\ environment.active = NoDeploy
    /\ probe.revision = environment.revision => production = probe.found

SeenInv ==
  NothingConfirmed /\ StartedFromHere /\ ProbedEarlier /\ ProbeCurrent /\ ConfirmedRuns

LEMMA SeenInitial == DeployInit => SeenInv
<1> SUFFICES ASSUME DeployInit PROVE SeenInv
  OBVIOUS
<1>1. environment.found = Empty /\ environment.active = NoDeploy /\ probe.on = FALSE
  BY DEF DeployInit, NoProbe
<1>2. \A a \in Apps : environment.found[a] = Absent
  BY <1>1 DEF Empty
<1> QED
  BY <1>1, <1>2
     DEF SeenInv, NothingConfirmed, StartedFromHere, ProbedEarlier, ProbeCurrent, ConfirmedRuns

(* A deploy starts from the revision of the environment that it locks.     *)
LEMMA BeginSees ==
  ASSUME DeployInv, SeenInv, NEW d \in Deploys, NEW plan \in Composition,
         NEW back \in Deploys \cup {NoDeploy}, BeginDeploy(d, plan, back)
  PROVE  SeenInv'
<1>1. /\ environment \in Environment /\ deploy \in [Deploys -> Deployment]
      /\ d # NoDeploy /\ environment' = [environment EXCEPT !.active = d]
      /\ UNCHANGED <<common, production, probe>>
  BY DeployAssumption DEF DeployInv, DeployTypeOK, BeginDeploy, Environment
<1>2. /\ environment'.active = d /\ environment'.found = environment.found
      /\ environment'.revision = environment.revision
  BY <1>1 DEF Environment
<1>3. deploy'[d].revision = environment.revision
  BY <1>1 DEF BeginDeploy
<1> QED
  BY <1>1, <1>2, <1>3 DEF SeenInv, NothingConfirmed, StartedFromHere, ProbedEarlier,
     ProbeCurrent, ConfirmedRuns, CommonActive

LEMMA RollbackSees ==
  ASSUME DeployInv, SeenInv, NEW d \in Deploys, NEW last \in Deploys, Rollback(d, last)
  PROVE  SeenInv'
<1> DEFINE old == [a \in Apps |-> IF deploy[last].plan[a] # Absent
                                  THEN deploy[last].previous[a] ELSE Absent]
<1>1. deploy[last] \in Deployment
  BY DEF DeployInv, DeployTypeOK
<1>2. old \in Composition
  BY <1>1 DEF Deployment, Composition
<1>3. BeginDeploy(d, old, last)
  BY DEF Rollback
<1> HIDE DEF old
<1> QED
  BY <1>2, <1>3, BeginSees

(* An outcome that frees the environment counts its revision up, past every *)
(* observation that was made before.                                        *)
LEMMA FinishSees ==
  ASSUME DeployInv, SeenInv, NEW d \in Deploys, NEW status \in Statuses,
         environment.active = d, FinishDeploy(d, status)
  PROVE  SeenInv'
<1>1. /\ environment \in Environment /\ deploy \in [Deploys -> Deployment]
      /\ d # NoDeploy /\ ~CommonActive /\ deploy[d].revision = environment.revision
      /\ UNCHANGED <<common, production, probe>>
      /\ deploy' = [deploy EXCEPT ![d].status = status]
  BY DeployAssumption
     DEF DeployInv, DeployTypeOK, FinishDeploy, Environment, OneExecutor, SeenInv, StartedFromHere
<1>2. deploy'[d].revision = deploy[d].revision
  BY <1>1 DEF Deployment
<1>3. ~CommonActive'
  BY <1>1 DEF CommonActive
<1>4. CASE status = "uncertain"
  <2>1. UNCHANGED environment
    BY <1>4 DEF FinishDeploy
  <2> QED
    BY <1>1, <1>2, <1>3, <2>1 DEF SeenInv, NothingConfirmed, StartedFromHere, ProbedEarlier,
       ProbeCurrent, ConfirmedRuns
<1>5. CASE status # "uncertain"
  <2>1. /\ environment'.active = NoDeploy /\ environment'.found = production
        /\ environment'.revision = environment.revision + 1
    BY <1>1, <1>5 DEF FinishDeploy
  <2>2. environment.revision \in Nat /\ (probe.on => probe.revision \in Nat)
    BY <1>1 DEF Environment, DeployInv, DeployTypeOK
  <2>3. ProbedEarlier' /\ (probe.on => probe.revision # environment'.revision)
    BY <1>1, <2>1, <2>2 DEF SeenInv, ProbedEarlier
  <2> QED
    BY <1>1, <1>3, <2>1, <2>3 DEF SeenInv, NothingConfirmed, StartedFromHere,
       ProbeCurrent, ConfirmedRuns
<1> QED
  BY <1>4, <1>5

LEMMA OutcomeSees ==
  ASSUME DeployInv, SeenInv, NEW status \in Statuses, DeployOutcome(status) \/ Resolve(status)
  PROVE  SeenInv'
<1>1. CASE DeployOutcome(status)
  <2>1. executor \in Deploys /\ environment.active = executor
    BY <1>1 DEF DeployOutcome, DeployInv, DeployTypeOK, ExecutorLocks
  <2> QED
    BY <1>1, <2>1, FinishSees DEF DeployOutcome
<1>2. CASE Resolve(status)
  <2>1. environment.active \in Deploys
    BY <1>2 DEF Resolve, DeployInv, DeployTypeOK
  <2> QED
    BY <1>2, <2>1, FinishSees DEF Resolve
<1> QED
  BY <1>1, <1>2

(* A stored observation is of this revision: what it found runs, unless a  *)
(* common deploy came between, and then it is not trusted.                 *)
LEMMA StoreObservedSees ==
  ASSUME DeployInv, SeenInv, StoreObserved
  PROVE  SeenInv'
<1>1. /\ UNCHANGED <<deploy, common, production, executor>> /\ probe.on
      /\ probe'.on = FALSE
  BY DEF StoreObserved, NoProbe
<1>2. CASE CommonActive \/ environment.revision # probe.revision \/ environment.active # NoDeploy
  <2>1. UNCHANGED environment
    BY <1>2 DEF StoreObserved
  <2> QED
    BY <1>1, <2>1 DEF SeenInv, NothingConfirmed, StartedFromHere, ProbedEarlier,
       ProbeCurrent, ConfirmedRuns, CommonActive
<1>3. CASE ~(CommonActive \/ environment.revision # probe.revision
             \/ environment.active # NoDeploy)
  <2>1. environment' = [found |-> probe.found, revision |-> probe.revision + 1,
                        active |-> NoDeploy, trusted |-> ~probe.passed]
    BY <1>3 DEF StoreObserved
  <2>2. environment'.trusted => production = probe.found
    BY <1>1, <1>3, <2>1 DEF SeenInv, ProbeCurrent
  <2>3. ConfirmedRuns'
    BY <1>1, <2>1, <2>2 DEF ConfirmedRuns
  <2>4. ~CommonActive' /\ environment'.active = NoDeploy
    BY <1>1, <1>3, <2>1 DEF CommonActive
  <2> QED
    BY <1>1, <2>3, <2>4 DEF SeenInv, NothingConfirmed, StartedFromHere, ProbedEarlier,
       ProbeCurrent
<1> QED
  BY <1>2, <1>3

(* A common deploy starts where nothing is confirmed; when it switches, an *)
(* observation that is on its way is no longer of what runs.               *)
LEMMA CommonSees ==
  ASSUME DeployInv, SeenInv, NEW l \in Commons, CommonBegin(l) \/ CommonStatus(l)
  PROVE  SeenInv'
<1>1. /\ UNCHANGED <<environment, deploy, executor>>
      /\ common \in [Commons -> {"none", "queued", "switching", "over"}]
      /\ probe \in [on : BOOLEAN, found : Composition, revision : Nat, passed : BOOLEAN]
  BY DEF CommonBegin, CommonStatus, DeployInv, DeployTypeOK
<1>2. environment.found = Empty
  BY DEF CommonBegin, CommonStatus, CommonActive, SeenInv, NothingConfirmed
<1>3. \A a \in Apps : environment.found[a] = Absent
  BY <1>2 DEF Empty
<1>4. NothingConfirmed' /\ StartedFromHere' /\ ConfirmedRuns'
  BY <1>1, <1>2, <1>3 DEF SeenInv, NothingConfirmed, StartedFromHere, ConfirmedRuns
<1>5. CASE UNCHANGED <<production, probe>>
  BY <1>1, <1>4, <1>5 DEF SeenInv, ProbedEarlier, ProbeCurrent
<1>6. CASE probe' = [probe EXCEPT !.passed = @ \/ probe.on]
  <2>1. probe'.on = probe.on /\ probe'.revision = probe.revision /\ (probe.on => probe'.passed)
    BY <1>1, <1>6
  <2> QED
    BY <1>1, <1>4, <2>1 DEF SeenInv, ProbedEarlier, ProbeCurrent
<1> QED
  BY <1>5, <1>6 DEF CommonBegin, CommonStatus

(* Only the executor of a deploy that holds the lock changes what runs.    *)
LEMMA MachineSees ==
  ASSUME DeployInv, SeenInv, (\E a \in Apps : PutUp(a)) \/ Died \/ ProbeMachine
  PROVE  SeenInv'
<1>1. ASSUME NEW a \in Apps, PutUp(a) PROVE SeenInv'
  <2>1. environment.active # NoDeploy
    BY <1>1 DEF PutUp, DeployInv, ExecutorLocks
  <2> QED
    BY <1>1, <2>1 DEF PutUp, SeenInv, NothingConfirmed, StartedFromHere, ProbedEarlier,
       ProbeCurrent, ConfirmedRuns, CommonActive
<1>2. CASE Died
  BY <1>2 DEF Died, SeenInv, NothingConfirmed, StartedFromHere, ProbedEarlier,
     ProbeCurrent, ConfirmedRuns, CommonActive
<1>3. CASE ProbeMachine
  <2>1. /\ UNCHANGED <<environment, deploy, common, production, executor>>
        /\ probe'.found = production /\ probe'.revision = environment.revision
    BY <1>3 DEF ProbeMachine
  <2>2. environment.revision \in Nat
    BY DEF DeployInv, DeployTypeOK
  <2> QED
    BY <2>1, <2>2 DEF SeenInv, NothingConfirmed, StartedFromHere, ProbedEarlier,
       ProbeCurrent, ConfirmedRuns, CommonActive
<1> QED
  BY <1>1, <1>2, <1>3

LEMMA SeenStep == DeployInv /\ SeenInv /\ [DeployNext]_deployVars => SeenInv'
<1> SUFFICES ASSUME DeployInv, SeenInv, [DeployNext]_deployVars PROVE SeenInv'
  OBVIOUS
<1>1. CASE DeployNext
  BY <1>1, BeginSees, RollbackSees, OutcomeSees, StoreObservedSees, CommonSees, MachineSees
     DEF DeployNext
<1>2. CASE UNCHANGED deployVars
  BY <1>2 DEF deployVars, SeenInv, NothingConfirmed, StartedFromHere, ProbedEarlier,
     ProbeCurrent, ConfirmedRuns, CommonActive
<1> QED
  BY <1>1, <1>2

(* While no deploy is under way, what the environment holds as confirmed   *)
(* is what runs: no observation from before a deploy is stored after it,   *)
(* in any order of probes, deploys, crashes and late outcomes.  (An        *)
(* observation that a common deploy passed is the exception that the       *)
(* property names.)                                                        *)
THEOREM ConfirmedKept == DeploySpec => []ConfirmedRuns
<1>1. SeenInv => ConfirmedRuns
  BY DEF SeenInv
<1> QED
  BY <1>1, SeenInitial, SeenStep, DeployInvariant, PTL DEF DeploySpec
=============================================================================
