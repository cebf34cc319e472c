----------------------------- MODULE Deployments -----------------------------
(***************************************************************************)
(* Deploys to the production environment (db/repos/releases.ts): releases  *)
(* of single applications with a durable lock and a revision, next to the  *)
(* common deploy of the whole project.  The repository decides in its      *)
(* transactions; who runs a deploy on the machine and probes the result is *)
(* a service that uses it.                                                 *)
(***************************************************************************)
EXTENDS Naturals, FiniteSets

CONSTANTS
  Apps,        \* applications of the project
  Artifacts,   \* prepared releases of each
  Absent,      \* an application that is not there
  Deploys,     \* 1..n, application deploys in the order of created_at
  NoDeploy,
  Commons      \* common deploys

ASSUME DeployAssumption ==
  /\ Deploys \in SUBSET Nat /\ IsFiniteSet(Deploys) /\ NoDeploy \notin Deploys
  /\ Absent \notin Artifacts

VARIABLES
  environment, \* the row of application_environments
  deploy,      \* application_deployments
  common,      \* project_releases with a previous_release_id
  production,     \* what runs
  executor,    \* the deploy that is executed on the machine
  probe        \* an observation between its probe and its transaction

deployVars == <<environment, deploy, common, production, executor, probe>>

Composition == [Apps -> Artifacts \cup {Absent}]
Empty == [a \in Apps |-> Absent]

(* plan: the releases; previous, revision: the environment it started from. *)
Deployment ==
  [status : {"none", "deploying", "uncertain", "released", "failed"},
   plan : Composition, previous : Composition, revision : Nat,
   rollbackOf : Deploys \cup {NoDeploy}]

NoDeployment == [status |-> "none", plan |-> Empty, previous |-> Empty,
                 revision |-> 0, rollbackOf |-> NoDeploy]

(* passed, and trusted of the environment, are history: a common deploy    *)
(* began after the probe; no such observation has been stored.             *)
NoProbe == [on |-> FALSE, found |-> Empty, revision |-> 0, passed |-> FALSE]

DeployInit ==
  /\ environment = [found |-> Empty, revision |-> 0, active |-> NoDeploy, trusted |-> TRUE]
  /\ deploy = [d \in Deploys |-> NoDeployment]
  /\ common = [l \in Commons |-> "none"]
  /\ production \in Composition
  /\ executor = NoDeploy /\ probe = NoProbe

CommonActive == \E l \in Commons : common[l] \in {"queued", "switching"}

Planned(plan) == {a \in Apps : plan[a] # Absent}

Replaced(previous, plan) == [a \in Apps |-> IF plan[a] # Absent THEN plan[a] ELSE previous[a]]

-----------------------------------------------------------------------------
(* beginApplicationDeployment: the lock, the plan and what it replaces, in *)
(* one transaction.                                                        *)
BeginDeploy(d, plan, rollbackOf) ==
  /\ deploy[d].status = "none" /\ \A e \in Deploys : e < d => deploy[e].status # "none"
  /\ ~CommonActive /\ environment.active = NoDeploy /\ Planned(plan) # {}
  /\ deploy' = [deploy EXCEPT ![d] =
       [status |-> "deploying", plan |-> plan, previous |-> environment.found,
        revision |-> environment.revision, rollbackOf |-> rollbackOf]]
  /\ environment' = [environment EXCEPT !.active = d]
  /\ executor' = d
  /\ UNCHANGED <<common, production, probe>>

Released == {d \in Deploys : deploy[d].status = "released"}

(* Only the last released deploy can be rolled back, to the artifacts that *)
(* it replaced.                                                            *)
Rollback(d, last) ==
  LET old == [a \in Apps |-> IF deploy[last].plan[a] # Absent
                             THEN deploy[last].previous[a] ELSE Absent]
  IN
  /\ last \in Released /\ \A e \in Released : e <= last
  /\ Planned(old) = Planned(deploy[last].plan)
  /\ BeginDeploy(d, old, last)

(* finishApplicationDeployment with the composition that was found on the  *)
(* machine: "failed" only when it is the previous one again, "uncertain"   *)
(* keeps the lock.                                                         *)
Expected(d, status) ==
  IF status = "released" THEN Replaced(deploy[d].previous, deploy[d].plan) ELSE deploy[d].previous

(* Mutation: an uncertain deploy frees the environment.                    *)
FinishDeployFree(d, status) ==
  /\ deploy[d].status \in {"deploying", "uncertain"}
  /\ deploy' = [deploy EXCEPT ![d].status = status]
  /\ environment.active = d
  /\ status # "uncertain" => production = Expected(d, status)
  /\ environment' = [found |-> production, revision |-> deploy[d].revision + 1,
                     active |-> NoDeploy, trusted |-> TRUE]
  /\ UNCHANGED <<common, production, probe>>

FinishDeploy(d, status) ==
  /\ deploy[d].status \in {"deploying", "uncertain"}
  /\ deploy' = [deploy EXCEPT ![d].status = status]
  /\ IF status = "uncertain" THEN UNCHANGED environment
     ELSE /\ production = Expected(d, status) /\ environment.active = d
          /\ environment' = [found |-> production, revision |-> deploy[d].revision + 1,
                             active |-> NoDeploy, trusted |-> TRUE]
  /\ UNCHANGED <<common, production, probe>>

(* Mutation: the revision is not compared.                                 *)
StoreObservedLate ==
  /\ probe.on /\ probe' = NoProbe
  /\ environment' =
       IF CommonActive \/ environment.active # NoDeploy THEN environment
       ELSE [found |-> probe.found, revision |-> environment.revision + 1,
             active |-> NoDeploy, trusted |-> ~probe.passed]
  /\ UNCHANGED <<deploy, common, production, executor>>

(* observeApplicationEnvironment, after a probe of the machine.            *)
StoreObserved ==
  /\ probe.on /\ probe' = NoProbe
  /\ environment' =
       IF CommonActive \/ environment.revision # probe.revision \/ environment.active # NoDeploy
       THEN environment
       ELSE [found |-> probe.found, revision |-> probe.revision + 1,
             active |-> NoDeploy, trusted |-> ~probe.passed]
  /\ UNCHANGED <<deploy, common, production, executor>>

(* createProjectRelease of a deploy: refused while the applications have a *)
(* deploy or a confirmed composition.                                      *)
CommonBegin(l) ==
  /\ common[l] = "none"
  /\ environment.active = NoDeploy /\ environment.found = Empty
  /\ common' = [common EXCEPT ![l] = "queued"]
  /\ UNCHANGED <<environment, deploy, production, executor, probe>>

(* setProjectReleaseStatus of its executor, which replaces everything.     *)
CommonStatus(l) ==
  /\ \/ common[l] = "queued" /\ production' = Empty
        /\ common' = [common EXCEPT ![l] = "switching"]
        /\ probe' = [probe EXCEPT !.passed = @ \/ probe.on]
     \/ common[l] = "switching" /\ common' = [common EXCEPT ![l] = "over"]
        /\ UNCHANGED <<production, probe>>
  /\ UNCHANGED <<environment, deploy, executor>>

-----------------------------------------------------------------------------
(* The executor on the machine.                                            *)

(* It puts an application up, or back after a failure.                     *)
PutUp(a) ==
  /\ executor # NoDeploy /\ deploy[executor].plan[a] # Absent
  /\ production' \in {[production EXCEPT ![a] = deploy[executor].plan[a]],
                   [production EXCEPT ![a] = deploy[executor].previous[a]]}
  /\ UNCHANGED <<environment, deploy, common, executor, probe>>

DeployOutcome(status) ==
  /\ executor # NoDeploy /\ executor' = NoDeploy
  /\ FinishDeploy(executor, status)

Died ==
  /\ executor # NoDeploy /\ executor' = NoDeploy
  /\ UNCHANGED <<environment, deploy, common, production, probe>>

(* After a restart, or when it is asked again, it looks what runs.         *)
Resolve(status) ==
  /\ executor = NoDeploy /\ environment.active # NoDeploy
  /\ FinishDeploy(environment.active, status) /\ UNCHANGED executor

ProbeMachine ==
  /\ ~probe.on /\ environment.revision < Cardinality(Deploys)
  /\ probe' = [on |-> TRUE, found |-> production, revision |-> environment.revision,
               passed |-> FALSE]
  /\ UNCHANGED <<environment, deploy, common, production, executor>>

Statuses == {"released", "failed", "uncertain"}

DeployNext ==
  \/ \E d \in Deploys, plan \in Composition : BeginDeploy(d, plan, NoDeploy)
  \/ \E d, last \in Deploys : Rollback(d, last)
  \/ \E status \in Statuses : DeployOutcome(status) \/ Resolve(status)
  \/ \E a \in Apps : PutUp(a)
  \/ Died \/ ProbeMachine \/ StoreObserved
  \/ \E l \in Commons : CommonBegin(l) \/ CommonStatus(l)

DeploySpec == DeployInit /\ [][DeployNext]_deployVars

-----------------------------------------------------------------------------
DeployTypeOK ==
  /\ environment \in [found : Composition, revision : Nat,
                      active : Deploys \cup {NoDeploy}, trusted : BOOLEAN]
  /\ deploy \in [Deploys -> Deployment]
  /\ common \in [Commons -> {"none", "queued", "switching", "over"}]
  /\ production \in Composition /\ executor \in Deploys \cup {NoDeploy}
  /\ probe \in [on : BOOLEAN, found : Composition, revision : Nat, passed : BOOLEAN]

(* The environment is locked by the one deploy that is not over, an        *)
(* uncertain one included: no crash, retry or late result frees it early,  *)
(* and none leaves it locked for nobody.                                   *)
LockHeld ==
  \A d \in Deploys :
    (environment.active = d) = (deploy[d].status \in {"deploying", "uncertain"})

(* The two executors never work on production at the same time.            *)
OneExecutor == CommonActive => environment.active = NoDeploy /\ executor = NoDeploy

(* What the environment holds as confirmed is what runs, while no deploy   *)
(* is under way: no observation from before a deploy outlives it.  An      *)
(* observation from before a common deploy may: that one has no revision.  *)
ConfirmedRuns ==
  environment.active = NoDeploy /\ environment.trusted =>
    \A a \in Apps : environment.found[a] # Absent => production[a] = environment.found[a]
=============================================================================
