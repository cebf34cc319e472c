------------------------------ MODULE MCServices ------------------------------
(***************************************************************************)
(* Instances for TLC of the components around the turn manager.  They      *)
(* share no state, so a behaviour runs one of them: "focus", chosen in the *)
(* initial state among Focuses.  The others stay as they were created.     *)
(***************************************************************************)
EXTENDS TLC, AgentRequests, AgentTerminals, EnvironmentLinks, RelayFlow, AgentWatchdog,
        ChatAccounting, VpnGrants, MergeRuns, Deployments, StorageMigration, StorybookSessions,
        AutomationQueueProps

CONSTANTS
  Focuses,
  Pair        \* two values that stand for whatever comes in twos

Components ==
  {"requests", "terminals", "links", "relay", "watchdog", "accounting", "vpn", "merges",
   "deploys", "storage", "storybook", "jobs"}

ASSUME FocusAssumption == Focuses \subseteq Components

VARIABLE focus

(* Two connections of one machine, and one of another.                     *)
OwnerOf == [s \in Sockets |-> IF s <= 2 THEN 1 ELSE 2]

(* Every plan puts source i at place i, or the second plan the other way.  *)
SameDest == [p \in Plans |-> [i \in Items |-> i]]
CrossDest == [p \in Plans |-> [i \in Items |-> IF p = 1 THEN i ELSE 3 - i]]

(* Books 1 and 2 are two directories of one working copy.                  *)
ShellOfBook == [k \in Books |-> (k + 1) \div 2]

(* Tabs, connections of a tunnel, applications and callers are two of a    *)
(* kind that no definition tells apart.                                    *)
Symmetry == Permutations(Pair)

-----------------------------------------------------------------------------
ServicesInit ==
  /\ focus \in Focuses
  /\ RequestInit /\ TerminalInit /\ LinkInit /\ RelayInit /\ WatchdogInit
  /\ AccountingInit /\ GrantInit /\ MergeInit /\ DeployInit /\ MigrationInit /\ BookInit
  /\ Init
  /\ focus # "links" => \A l \in Links : ~row[l].exists /\ row[l].transport = "tunnel"
  /\ focus # "accounting" => turn.background
  /\ focus # "deploys" => production = Empty

OthersRest(looked) ==
  /\ IF looked = "requests" THEN TRUE ELSE UNCHANGED requestVars
  /\ IF looked = "terminals" THEN TRUE ELSE UNCHANGED terminalVars
  /\ IF looked = "links" THEN TRUE ELSE UNCHANGED linkVars
  /\ IF looked = "relay" THEN TRUE ELSE UNCHANGED relayVars
  /\ IF looked = "watchdog" THEN TRUE ELSE UNCHANGED watchdogVars
  /\ IF looked = "accounting" THEN TRUE ELSE UNCHANGED accountingVars
  /\ IF looked = "vpn" THEN TRUE ELSE UNCHANGED grantVars
  /\ IF looked = "merges" THEN TRUE ELSE UNCHANGED mergeVars
  /\ IF looked = "deploys" THEN TRUE ELSE UNCHANGED deployVars
  /\ IF looked = "storage" THEN TRUE ELSE UNCHANGED migrationVars
  /\ IF looked = "storybook" THEN TRUE ELSE UNCHANGED bookVars
  /\ IF looked = "jobs" THEN TRUE ELSE UNCHANGED vars

Looked(component, step) == focus = component /\ step /\ OthersRest(component) /\ UNCHANGED focus

ServicesNext ==
  \/ Looked("requests", RequestNext)
  \/ Looked("terminals", TerminalNext)
  \/ Looked("links", LinkNext)
  \/ Looked("relay", RelayNext)
  \/ Looked("watchdog", WatchdogNext)
  \/ Looked("accounting", AccountingNext)
  \/ Looked("vpn", GrantNext)
  \/ Looked("merges", MergeNext)
  \/ Looked("deploys", DeployNext)
  \/ Looked("storage", MigrationNext)
  \/ Looked("storybook", BookNext)
  \/ Looked("jobs", Next)

servicesVars ==
  <<focus, requestVars, terminalVars, linkVars, relayVars, watchdogVars,
    accountingVars, grantVars, mergeVars, deployVars, migrationVars,
    bookVars, vars>>

ServicesSpec == ServicesInit /\ [][ServicesNext]_servicesVars

(* The fairness of each component.  What is enabled in a component from    *)
(* the start is fair only in behaviours that look at it.                   *)
FairServices ==
  /\ ServicesSpec
  /\ RequestFairness /\ RelayFairness /\ WatchdogFairness
  /\ AccountingFairness /\ BookFairness
  /\ WF_linkVars(focus = "links" /\ Piece) /\ WF_linkVars(focus = "links" /\ LinksStarted)
  /\ WF_linkVars(Listening) /\ WF_linkVars(Telemetry)
  /\ WF_vars(focus = "jobs" /\ Handler) /\ WF_vars(closing /\ Restart)
  /\ \A j \in Jobs : SF_vars(Owed(j))

(* A component that is looked at stays well formed.                        *)
ServicesTypeOK ==
  CASE focus = "requests" -> RequestTypeOK
    [] focus = "terminals" -> TerminalTypeOK
    [] focus = "links" -> LinkTypeOK
    [] focus = "relay" -> RelayTypeOK
    [] focus = "watchdog" -> WatchdogTypeOK
    [] focus = "accounting" -> AccountingTypeOK
    [] focus = "vpn" -> GrantTypeOK
    [] focus = "merges" -> MergeTypeOK
    [] focus = "deploys" -> DeployTypeOK
    [] focus = "storage" -> MigrationTypeOK
    [] focus = "storybook" -> BookTypeOK
    [] focus = "jobs" -> TypeOK
=============================================================================
