--------------------------- MODULE StorageMigration ---------------------------
(***************************************************************************)
(* Moving legacy files of a machine into a storage                         *)
(* (storageMigration/manager.ts): a dry run records what is to be moved, a *)
(* copy publishes and verifies each file, and a separate request deletes   *)
(* the verified sources.  Plans of an owner run side by side; each call to *)
(* the machine is an await.  The state of all plans is saved as one file.  *)
(***************************************************************************)
EXTENDS Integers, FiniteSets

CONSTANTS
  Plans,
  Items,      \* 1..n, the sources; i is also what is in source i, -i an edit of it
  Targets,    \* places in the storage
  Dest,       \* where a plan puts a source
  Nothing,    \* no such file
  Troubles    \* edits, failed calls and restarts

ASSUME MigrationAssumption ==
  /\ Items \in SUBSET (Nat \ {0}) /\ IsFiniteSet(Items) /\ Nothing \notin Int
  /\ Dest \in [Plans -> [Items -> Targets]] /\ Troubles \in Nat

VARIABLES
  source, target,  \* files of the machine
  migration,       \* State: the plans in memory and the mappings
  stored,          \* storage-migrations.json
  moving,          \* copy() and deleteVerified() under way
  troubles

migrationVars == <<source, target, migration, stored, moving, troubles>>

Content == Items \cup {-i : i \in Items} \cup {Nothing}

(* sum: what the dry run has found in the source.                          *)
MigrationItem ==
  [status : {"planned", "conflict", "source-changed", "copying", "verified", "failed", "deleted"},
   sum : Content]

MigrationPlan ==
  [status : {"none", "ready", "copying", "interrupted", "copied", "deleting", "complete"},
   item : [Items -> MigrationItem]]

NoPlan == [status |-> "none", item |-> [i \in Items |-> [status |-> "planned", sum |-> Nothing]]]

(* at: the await; todo: the rest of the loop, its first item in progress.  *)
Moving == [at : {"none", "source", "target", "publish", "check", "again", "delete"},
           todo : SUBSET Items]

Still == [at |-> "none", todo |-> {}]

MigrationInit ==
  /\ source = [i \in Items |-> i] /\ target = [t \in Targets |-> Nothing]
  /\ migration = [plan |-> [p \in Plans |-> NoPlan], managed |-> [i \in Items |-> Nothing]]
  /\ stored = migration
  /\ moving = [p \in Plans |-> Still] /\ troubles = Troubles

PlanOf(p) == migration.plan[p]
CurrentItem(p) == CHOOSE i \in moving[p].todo : \A j \in moving[p].todo : i <= j
Place(p) == Dest[p][CurrentItem(p)]
Sum(p) == PlanOf(p).item[CurrentItem(p)].sum

SetPlan(p, status) == [migration EXCEPT !.plan[p].status = status]
Mark(p, status) == [migration EXCEPT !.plan[p].item[CurrentItem(p)].status = status]

(* persist() saves everything that is in memory.                           *)
SaveState(new) == migration' = new /\ stored' = new
KeepState(new) == migration' = new /\ UNCHANGED stored

Trouble == troubles > 0 /\ troubles' = troubles - 1

MovingAt(p, place) == moving[p].at = place

MoveOn(p, place) == moving' = [moving EXCEPT ![p].at = place]

(* The loop goes on with the next item, whose first read is at place.      *)
NextItem(p, place) ==
  moving' = [moving EXCEPT ![p] = [at |-> place, todo |-> @.todo \ {CurrentItem(p)}]]

-----------------------------------------------------------------------------
(* createDryRun only reads; what it reads is looked at again by copy().    *)
DryRun(p) ==
  LET overlaps(i) == \E j \in Items : j < i /\ Dest[p][j] = Dest[p][i]
      there(i) == target[Dest[p][i]]
      planned(i) == there(i) = source[i] \/ (there(i) = Nothing /\ ~overlaps(i))
  IN
  /\ PlanOf(p).status = "none" /\ \A i \in Items : source[i] # Nothing
  /\ SaveState([migration EXCEPT !.plan[p] =
       [status |-> "ready", item |-> [i \in Items |->
          [status |-> IF planned(i) THEN "planned" ELSE "conflict",
           sum |-> source[i]]]]])
  /\ UNCHANGED <<source, target, moving, troubles>>

-----------------------------------------------------------------------------
(* copy().                                                                 *)

StartCopy(p) ==
  /\ PlanOf(p).status \in {"ready", "interrupted"}
  /\ SaveState(SetPlan(p, "copying"))
  /\ moving' = [moving EXCEPT ![p] =
       [at |-> "source", todo |-> {i \in Items : PlanOf(p).item[i].status # "conflict"}]]
  /\ UNCHANGED <<source, target, troubles>>

(* A failed call interrupts the copy; so does a file that is not there.    *)
Interrupt(p) ==
  /\ SaveState(SetPlan(p, "interrupted")) /\ moving' = [moving EXCEPT ![p] = Still]

ReadSource(p) ==
  /\ MovingAt(p, "source") /\ moving[p].todo # {}
  /\ LET found == source[CurrentItem(p)] IN
     IF found = Nothing THEN Interrupt(p)
     ELSE IF found = Sum(p) THEN MoveOn(p, "target") /\ UNCHANGED <<migration, stored>>
     ELSE KeepState(Mark(p, "source-changed")) /\ NextItem(p, "source")
  /\ UNCHANGED <<source, target, troubles>>

(* The file is there and right.                                            *)
Verified(p) ==
  /\ SaveState([Mark(p, "verified") EXCEPT
       !.managed[CurrentItem(p)] = IF @ = Nothing THEN Place(p) ELSE @])
  /\ NextItem(p, "source")

ReadTarget(p) ==
  /\ MovingAt(p, "target")
  /\ LET found == target[Place(p)] IN
     IF found = Sum(p) THEN Verified(p)
     ELSE IF found = Nothing THEN SaveState(Mark(p, "copying")) /\ MoveOn(p, "publish")
     ELSE KeepState(Mark(p, "conflict")) /\ NextItem(p, "source")
  /\ UNCHANGED <<source, target, troubles>>

(* Written under a name of its own, renamed to the target.                 *)
PublishFile(p) ==
  /\ MovingAt(p, "publish") /\ target' = [target EXCEPT ![Place(p)] = Sum(p)]
  /\ MoveOn(p, "check")
  /\ UNCHANGED <<source, migration, stored, troubles>>

CheckTarget(p) ==
  /\ MovingAt(p, "check")
  /\ IF target[Place(p)] = Sum(p) THEN Verified(p)
     ELSE SaveState(Mark(p, "failed")) /\ NextItem(p, "source")
  /\ UNCHANGED <<source, target, troubles>>

Copied(p) ==
  /\ MovingAt(p, "source") /\ moving[p].todo = {}
  /\ SaveState(SetPlan(p, "copied")) /\ moving' = [moving EXCEPT ![p] = Still]
  /\ UNCHANGED <<source, target, troubles>>

CopyFails(p) ==
  /\ moving[p].at \in {"source", "target", "publish", "check"} /\ moving[p].todo # {}
  /\ Trouble /\ Interrupt(p)
  /\ target' \in {target} \cup
       (IF MovingAt(p, "publish") THEN {[target EXCEPT ![Place(p)] = Sum(p)]} ELSE {})
  /\ UNCHANGED source

-----------------------------------------------------------------------------
(* deleteVerified().                                                       *)

(* Mutation: sources that are only planned are deleted.                    *)
DeleteVerifiedEarly(p) ==
  /\ PlanOf(p).status \in {"ready", "copied", "complete"}
  /\ SaveState(SetPlan(p, "deleting"))
  /\ moving' = [moving EXCEPT ![p] =
       [at |-> "again", todo |-> {i \in Items : PlanOf(p).item[i].status \in {"planned", "verified"}}]]
  /\ UNCHANGED <<source, target, troubles>>

DeleteVerified(p) ==
  /\ PlanOf(p).status \in {"copied", "complete"}
  /\ SaveState(SetPlan(p, "deleting"))
  /\ moving' = [moving EXCEPT ![p] =
       [at |-> "again", todo |-> {i \in Items : PlanOf(p).item[i].status = "verified"}]]
  /\ UNCHANGED <<source, target, troubles>>

(* The plan stays "deleting" when a call fails.                            *)
ReadAgain(p) ==
  /\ MovingAt(p, "again") /\ moving[p].todo # {}
  /\ LET found == source[CurrentItem(p)] IN
     IF found = Nothing THEN moving' = [moving EXCEPT ![p] = Still]
     ELSE IF found = Sum(p) THEN MoveOn(p, "delete")
     ELSE NextItem(p, "again")
  /\ UNCHANGED <<source, target, migration, stored, troubles>>

DeleteSource(p) ==
  /\ MovingAt(p, "delete") /\ source' = [source EXCEPT ![CurrentItem(p)] = Nothing]
  /\ SaveState(Mark(p, "deleted")) /\ NextItem(p, "again")
  /\ UNCHANGED <<target, troubles>>

DeletesOver(p) ==
  /\ MovingAt(p, "again") /\ moving[p].todo = {}
  /\ SaveState(SetPlan(p, "complete")) /\ moving' = [moving EXCEPT ![p] = Still]
  /\ UNCHANGED <<source, target, troubles>>

DeleteFails(p) ==
  /\ moving[p].at \in {"again", "delete"} /\ moving[p].todo # {} /\ Trouble
  /\ moving' = [moving EXCEPT ![p] = Still]
  /\ source' \in {source} \cup
       (IF MovingAt(p, "delete") THEN {[source EXCEPT ![CurrentItem(p)] = Nothing]} ELSE {})
  /\ UNCHANGED <<target, migration, stored>>

-----------------------------------------------------------------------------
EditSource(i) ==
  /\ source[i] # Nothing /\ Trouble /\ source' = [source EXCEPT ![i] = -i]
  /\ UNCHANGED <<target, migration, stored, moving>>

RestartServer ==
  /\ Trouble /\ migration' = stored /\ moving' = [p \in Plans |-> Still]
  /\ UNCHANGED <<source, target, stored>>

CopySteps(p) == ReadSource(p) \/ ReadTarget(p) \/ PublishFile(p) \/ CheckTarget(p) \/ Copied(p)
DeleteSteps(p) == ReadAgain(p) \/ DeleteSource(p) \/ DeletesOver(p)

MigrationNext ==
  \/ \E p \in Plans :
       \/ DryRun(p) \/ StartCopy(p) \/ CopySteps(p) \/ CopyFails(p)
       \/ DeleteVerified(p) \/ DeleteSteps(p) \/ DeleteFails(p)
  \/ \E i \in Items : EditSource(i)
  \/ RestartServer

MigrationSpec == MigrationInit /\ [][MigrationNext]_migrationVars

-----------------------------------------------------------------------------
MigrationTypeOK ==
  /\ source \in [Items -> Content] /\ target \in [Targets -> Content]
  /\ {migration, stored} \subseteq
       [plan : [Plans -> MigrationPlan], managed : [Items -> Targets \cup {Nothing}]]
  /\ moving \in [Plans -> Moving] /\ troubles \in 0..Troubles

(* A source is deleted only while what a plan has read in it is in the     *)
(* storage, although calls fail, the process restarts, users edit sources  *)
(* and another plan moves files at the same time.                          *)
DeletedIsStored ==
  \A i \in Items : source[i] = Nothing =>
    \E p \in Plans : target[Dest[p][i]] \in {i, -i}

=============================================================================
