--------------------------- MODULE CompositionProofs ---------------------------
(***************************************************************************)
(* The components around the turn manager side by side.  What the runs     *)
(* check is their composition; what the other modules prove is about one   *)
(* component each.  Here every behaviour of the composition is shown to be *)
(* one of every component, so that all the theorems hold of it.            *)
(***************************************************************************)
EXTENDS MCServices, AgentProofs, LinkProofs, ReleaseProofs, ServiceProofs,
        AutomationQueueProofs

(* The components not looked at rest, each by its name.                    *)
LEMMA OthersRestEach ==
  ASSUME NEW looked, OthersRest(looked)
  PROVE  /\ looked # "requests" => UNCHANGED requestVars
         /\ looked # "terminals" => UNCHANGED terminalVars
         /\ looked # "links" => UNCHANGED linkVars
         /\ looked # "relay" => UNCHANGED relayVars
         /\ looked # "watchdog" => UNCHANGED watchdogVars
         /\ looked # "accounting" => UNCHANGED accountingVars
         /\ looked # "vpn" => UNCHANGED grantVars
         /\ looked # "merges" => UNCHANGED mergeVars
         /\ looked # "deploys" => UNCHANGED deployVars
         /\ looked # "storage" => UNCHANGED migrationVars
         /\ looked # "storybook" => UNCHANGED bookVars
         /\ looked # "jobs" => UNCHANGED vars
BY DEF OthersRest

(* A step of the composition is a step of the component that is looked at  *)
(* and none of the others.                                                 *)
LEMMA StepOfEach ==
  ASSUME ServicesNext
  PROVE  /\ RequestNext \/ UNCHANGED requestVars
         /\ TerminalNext \/ UNCHANGED terminalVars
         /\ LinkNext \/ UNCHANGED linkVars
         /\ RelayNext \/ UNCHANGED relayVars
         /\ WatchdogNext \/ UNCHANGED watchdogVars
         /\ AccountingNext \/ UNCHANGED accountingVars
         /\ GrantNext \/ UNCHANGED grantVars
         /\ MergeNext \/ UNCHANGED mergeVars
         /\ DeployNext \/ UNCHANGED deployVars
         /\ MigrationNext \/ UNCHANGED migrationVars
         /\ BookNext \/ UNCHANGED bookVars
         /\ Next \/ UNCHANGED vars
         /\ UNCHANGED focus
<1>1. CASE Looked("requests", RequestNext)
  BY <1>1, OthersRestEach DEF Looked
<1>2. CASE Looked("terminals", TerminalNext)
  BY <1>2, OthersRestEach DEF Looked
<1>3. CASE Looked("links", LinkNext)
  BY <1>3, OthersRestEach DEF Looked
<1>4. CASE Looked("relay", RelayNext)
  BY <1>4, OthersRestEach DEF Looked
<1>5. CASE Looked("watchdog", WatchdogNext)
  BY <1>5, OthersRestEach DEF Looked
<1>6. CASE Looked("accounting", AccountingNext)
  BY <1>6, OthersRestEach DEF Looked
<1>7. CASE Looked("vpn", GrantNext)
  BY <1>7, OthersRestEach DEF Looked
<1>8. CASE Looked("merges", MergeNext)
  BY <1>8, OthersRestEach DEF Looked
<1>9. CASE Looked("deploys", DeployNext)
  BY <1>9, OthersRestEach DEF Looked
<1>10. CASE Looked("storage", MigrationNext)
  BY <1>10, OthersRestEach DEF Looked
<1>11. CASE Looked("storybook", BookNext)
  BY <1>11, OthersRestEach DEF Looked
<1>12. CASE Looked("jobs", Next)
  BY <1>12, OthersRestEach DEF Looked
<1> QED
  BY <1>1, <1>2, <1>3, <1>4, <1>5, <1>6, <1>7, <1>8, <1>9, <1>10, <1>11, <1>12 DEF ServicesNext

(* Whatever component a behaviour looks at, it is a behaviour of every     *)
(* component: they share no state and none of them can disturb another.    *)
THEOREM ServicesImplement ==
  ServicesSpec =>
    /\ RequestSpec
    /\ TerminalSpec
    /\ LinkSpec
    /\ RelaySpec
    /\ WatchdogSpec
    /\ AccountingSpec
    /\ GrantSpec
    /\ MergeSpec
    /\ DeploySpec
    /\ MigrationSpec
    /\ BookSpec
    /\ Spec
<1>1. ServicesInit => RequestInit /\ TerminalInit /\ LinkInit /\ RelayInit /\
      WatchdogInit /\ AccountingInit /\ GrantInit /\ MergeInit /\
      DeployInit /\ MigrationInit /\ BookInit /\ Init
  BY DEF ServicesInit
<1>2. ASSUME [ServicesNext]_servicesVars
      PROVE  /\ [RequestNext]_requestVars
             /\ [TerminalNext]_terminalVars
             /\ [LinkNext]_linkVars
             /\ [RelayNext]_relayVars
             /\ [WatchdogNext]_watchdogVars
             /\ [AccountingNext]_accountingVars
             /\ [GrantNext]_grantVars
             /\ [MergeNext]_mergeVars
             /\ [DeployNext]_deployVars
             /\ [MigrationNext]_migrationVars
             /\ [BookNext]_bookVars
             /\ [Next]_vars
  <2>1. CASE ServicesNext
    BY <2>1, StepOfEach
  <2>2. CASE UNCHANGED servicesVars
    BY <2>2 DEF servicesVars
  <2> QED
    BY <1>2, <2>1, <2>2
<1> QED
  BY <1>1, <1>2, PTL
  DEF ServicesSpec, RequestSpec, TerminalSpec, LinkSpec, RelaySpec, WatchdogSpec,
      AccountingSpec, GrantSpec, MergeSpec, DeploySpec, MigrationSpec, BookSpec, Spec

(* A behaviour looks at one component all along.                           *)
LEMMA FocusKept == ServicesSpec => [](focus \in Components)
<1>1. ServicesInit => focus \in Components
  BY FocusAssumption DEF ServicesInit
<1>2. focus \in Components /\ [ServicesNext]_servicesVars => (focus \in Components)'
  BY StepOfEach DEF servicesVars
<1> QED
  BY <1>1, <1>2, PTL DEF ServicesSpec

(* Whatever component is looked at, its state stays of its type.           *)
THEOREM ServicesTypeCorrect == ServicesSpec => []ServicesTypeOK
<1>1. ASSUME focus \in Components,
             RequestTypeOK, TerminalTypeOK, LinkTypeOK, RelayTypeOK,
             WatchdogTypeOK, AccountingTypeOK, GrantTypeOK, MergeTypeOK,
             DeployTypeOK, MigrationTypeOK, BookTypeOK, TypeOK
      PROVE  ServicesTypeOK
  BY <1>1 DEF ServicesTypeOK, Components
<1> QED
  BY <1>1, ServicesImplement, FocusKept, RequestTypeCorrect, TerminalTypeCorrect,
     LinkTypeCorrect, RelayTypeCorrect, WatchdogTypeCorrect, AccountingTypeCorrect,
     GrantTypeCorrect, MergeTypeCorrect, DeployTypeCorrect, MigrationTypeCorrect,
     BookTypeCorrect, TypeCorrect, PTL

(* What is proved of each component, of all of them together.              *)
ComponentsSafe ==
  /\ PendingOnline /\ WaitingOffline /\ NoOrphanCommand
  /\ ForgottenTimed
  /\ StateMatchesTunnel /\ DeletedSilent
  /\ HoldsAgree
  /\ AlertsAlternate
  /\ NoFreeWork /\ HoldsFollowed
  /\ JournalCovers /\ AppliedIsReal
  /\ OneActiveRun /\ ClaimedAssignment
  /\ LockHeld /\ OneExecutor /\ ConfirmedRuns
  /\ PortsApart /\ WishesFollow
  /\ WaitingAnswerable /\ LogFollowsState /\ CapacityKept /\ NoIdleCapacity

(* Every safety invariant of every component holds of the composition, no  *)
(* deleted file is missing from the storage when plans write apart, and a  *)
(* job of the runner lives the life AutomationJob allows.                  *)
THEOREM ServicesSafe ==
  /\ ServicesSpec => []ComponentsSafe
  /\ Apart => (ServicesSpec => []DeletedIsStored)
  /\ ServicesSpec => LifeSpec
<1>1. /\ PendingOnline /\ WaitingOffline /\ NoOrphanCommand
      /\ ForgottenTimed
      /\ StateMatchesTunnel /\ DeletedSilent /\ HoldsAgree /\ AlertsAlternate
      /\ NoFreeWork /\ HoldsFollowed /\ JournalCovers /\ AppliedIsReal
      /\ OneActiveRun /\ ClaimedAssignment /\ LockHeld /\ OneExecutor /\ ConfirmedRuns
      /\ PortsApart /\ WishesFollow
      /\ WaitingAnswerable /\ LogFollowsState /\ CapacityKept /\ NoIdleCapacity
      => ComponentsSafe
  BY DEF ComponentsSafe
<1>2. ServicesSpec => []ComponentsSafe
  BY <1>1, ServicesImplement,
     PendingOnlineKept, WaitingOfflineKept, NoOrphanCommandKept, ForgottenTimedKept,
     StateMatchesKept, DeletedSilentKept, HoldsAgreeKept,
     AlertsAlternateKept, NoFreeWorkKept, HoldsFollowedKept, JournalCoversKept,
     AppliedIsRealKept, OneActiveRunKept, ClaimedAssignmentKept, LockKept,
     OneExecutorKept, ConfirmedKept, PortsApartKept, WishesFollowKept,
     WaitingKept, LogKept, CapacityRespected, NoPlaceIdle, PTL
<1>3. Apart => (ServicesSpec => []DeletedIsStored)
  BY ServicesImplement, DeletedStored
<1>4. ServicesSpec => LifeSpec
  BY ServicesImplement, LifeImplemented
<1> QED
  BY <1>2, <1>3, <1>4
=============================================================================
