------------------------------ MODULE VpnGrants ------------------------------
(***************************************************************************)
(* Environment grants and exit nodes in the owner's tailnet                *)
(* (machines/vpn/service.ts).  An operation journals the rules it is about *)
(* to write in the row of the network, writes the policy and the tags of   *)
(* the devices, and stores the outcome; operations of one owner exclude    *)
(* each other.  Tailscale is external: an administrator edits the policy   *)
(* too, and a write may be carried out although its answer is lost.        *)
(***************************************************************************)
EXTENDS Naturals, FiniteSets

CONSTANTS
  Envs,       \* environments of the owner
  Devices,    \* bound machines
  Ports,      \* what the rule of an environment allows
  Exit,       \* the rule of a machine behind an exit node
  Operations, \* operations in a behaviour
  Mishaps     \* failures, restarts and edits of the administrator

ASSUME GrantAssumption ==
  /\ Envs # {} /\ Ports # {}
  /\ Exit \notin [env : Envs, ports : Ports]
  /\ Operations \in Nat /\ Mishaps \in Nat

VARIABLES
  net,        \* the row vpn_networks
  remote,     \* policy and tags at Tailscale
  op,         \* the operation that holds "busy"
  operations, mishaps

grantVars == <<net, remote, op, operations, mishaps>>

Rules == [env : Envs, ports : Ports]

(* phase, machines, ports: environments[tag]; grants: the rules that may be *)
(* in the policy; exit: the phase of the machine behind the exit node.     *)
Network ==
  [phase : [Envs -> {"none", "applying", "applied", "removing", "removed", "error"}],
   machines : [Envs -> SUBSET Devices], ports : [Envs -> Ports],
   grants : SUBSET (Rules \cup {Exit}), exit : {"idle", "applying", "error"}]

Remote ==
  [rules : SUBSET (Rules \cup {Exit}), etag : Nat, tagged : [Envs -> SUBSET Devices]]

(* rules: what the policy shall hold; etag: of the policy it read; todo:   *)
(* devices whose tags it has not looked at.                                *)
Operation ==
  [pc : {"none", "read", "policy", "tags", "over", "agent"}, kind : {"ensure", "remove", "exit"},
   env : Envs, machines : SUBSET Devices, ports : Ports,
   rules : SUBSET (Rules \cup {Exit}), etag : Nat, todo : SUBSET Devices]

NoOperation ==
  [pc |-> "none", kind |-> "exit", env |-> CHOOSE e \in Envs : TRUE, machines |-> {},
   ports |-> CHOOSE p \in Ports : TRUE, rules |-> {}, etag |-> 0, todo |-> {}]

GrantInit ==
  /\ net = [phase |-> [e \in Envs |-> "none"], machines |-> [e \in Envs |-> {}],
            ports |-> [e \in Envs |-> NoOperation.ports], grants |-> {}, exit |-> "idle"]
  /\ remote = [rules |-> {}, etag |-> 0, tagged |-> [e \in Envs |-> {}]]
  /\ op = NoOperation /\ operations = Operations /\ mishaps = Mishaps

RulesOf(e) == {r \in Rules : r.env = e}

Unlocked == \A e \in Envs : net.phase[e] # "applying"

Mishap == mishaps > 0 /\ mishaps' = mishaps - 1

Busy(new) ==
  /\ op.pc = "none" /\ operations > 0 /\ operations' = operations - 1
  /\ op' = new
  /\ UNCHANGED <<remote, mishaps>>

-----------------------------------------------------------------------------
(* environmentGrant.                                                       *)

EnsureGrant(e, machines, ports) ==
  /\ Unlocked /\ net.exit # "applying" /\ net.phase[e] # "removing" /\ machines # {}
  /\ Busy([NoOperation EXCEPT !.pc = "read", !.kind = "ensure", !.env = e,
                              !.machines = machines, !.ports = ports])
  /\ UNCHANGED net

RemoveGrant(e) ==
  /\ Unlocked /\ net.exit # "applying"
  /\ Busy([NoOperation EXCEPT !.pc = "read", !.kind = "remove", !.env = e])
  /\ UNCHANGED net

(* A rule for an environment that is not in the journal is foreign.        *)
Foreign == (remote.rules \ {Exit}) \ net.grants # {}

NewRules ==
  (net.grants \ RulesOf(op.env)) \cup
  (IF op.kind = "remove" THEN {} ELSE {[env |-> op.env, ports |-> op.ports]})

InPlace ==
  /\ net.phase[op.env] = (IF op.kind = "remove" THEN "removed" ELSE "applied")
  /\ net.machines[op.env] = op.machines
  /\ op.kind = "remove" \/ net.ports[op.env] = op.ports
  /\ remote.rules = NewRules /\ remote.tagged[op.env] = op.machines

(* The devices and the policy are read; the generation is reserved and     *)
(* both versions of the rules journaled before the first write.            *)
Journal ==
  /\ op.pc = "read" /\ op.kind # "exit"
  /\ IF Foreign \/ InPlace
     THEN op' = NoOperation /\ UNCHANGED net
     ELSE /\ op' = [op EXCEPT !.pc = IF op.kind = "remove" THEN "tags" ELSE "policy",
                              !.rules = NewRules, !.etag = remote.etag, !.todo = Devices]
          /\ net' = [net EXCEPT
               !.phase[op.env] = IF op.kind = "remove" THEN "removing" ELSE "applying",
               !.machines[op.env] = op.machines, !.ports[op.env] = op.ports,
               !.grants = @ \cup NewRules]
  /\ UNCHANGED <<remote, operations, mishaps>>

Written == remote' = [remote EXCEPT !.rules = op.rules, !.etag = @ + 1]

(* setPolicy with the ETag of the policy that was read.                    *)
SetPolicy ==
  /\ op.pc = "policy" /\ op.etag = remote.etag /\ Written
  /\ op' = [op EXCEPT !.pc = IF op.kind = "ensure" THEN "tags" ELSE "over"]
  /\ UNCHANGED <<net, operations, mishaps>>

(* Mutation: no device loses its tag.                                      *)
TagsAdded(d) ==
  {[remote EXCEPT !.tagged[op.env] = IF d \in op.machines THEN @ \cup {d} ELSE @]}

Tags(d) ==
  {[remote EXCEPT !.tagged[op.env] = IF d \in op.machines THEN @ \cup {d} ELSE @ \ {d}]}

SetDeviceTags(d) ==
  /\ op.pc = "tags" /\ d \in op.todo /\ remote' \in Tags(d)
  /\ op' = [op EXCEPT !.todo = @ \ {d}]
  /\ UNCHANGED <<net, operations, mishaps>>

Tagged ==
  /\ op.pc = "tags" /\ op.todo = {}
  /\ op' = [op EXCEPT !.pc = IF op.kind = "remove" THEN "policy" ELSE "over"]
  /\ UNCHANGED <<net, remote, operations, mishaps>>

GrantOver ==
  /\ op.pc = "over" /\ op.kind # "exit" /\ op' = NoOperation
  /\ net' = [net EXCEPT !.grants = op.rules,
       !.phase[op.env] = IF op.kind = "remove" THEN "removed" ELSE "applied"]
  /\ UNCHANGED <<remote, operations, mishaps>>

-----------------------------------------------------------------------------
(* change() to an exit node.                                               *)

(* The machine is marked before anything else is written.                  *)
ChangeExit ==
  /\ Unlocked /\ net.exit # "applying"
  /\ Busy([NoOperation EXCEPT !.pc = "read"])
  /\ net' = [net EXCEPT !.exit = "applying"]

(* The policy is read, and both versions journaled.                        *)
JournalExit ==
  /\ op.pc = "read" /\ op.kind = "exit"
  /\ LET rules == {Exit} \cup (net.grants \cap Rules) IN
     IF Foreign
     THEN net' = [net EXCEPT !.exit = "error"] /\ op' = NoOperation
     ELSE /\ net' = [net EXCEPT !.grants = @ \cup rules]
          /\ op' = [op EXCEPT !.pc = "policy", !.rules = rules, !.etag = remote.etag]
  /\ UNCHANGED <<remote, operations, mishaps>>

(* The rules are stored, then the agent is told.                           *)
ExitWritten ==
  /\ op.pc = "over" /\ op.kind = "exit" /\ op' = [op EXCEPT !.pc = "agent"]
  /\ net' = [net EXCEPT !.grants = op.rules]
  /\ UNCHANGED <<remote, operations, mishaps>>

AgentApplied ==
  /\ op.pc = "agent" /\ op' = NoOperation
  /\ net' = [net EXCEPT !.exit = "idle"]
  /\ UNCHANGED <<remote, operations, mishaps>>

(* read(): inspect resolves what a crash left unresolved.                  *)
Inspect ==
  /\ op.pc = "none" /\ Unlocked /\ net.exit = "applying"
  /\ net' \in {[net EXCEPT !.exit = "idle"], [net EXCEPT !.exit = "error"]}
  /\ UNCHANGED <<remote, op, operations, mishaps>>

-----------------------------------------------------------------------------
(* A write or the agent fails: before the effect or, with a lost answer,   *)
(* after it.  The outcome is stored.                                       *)
Failed ==
  /\ op' = NoOperation
  /\ net' = IF op.kind = "exit" THEN [net EXCEPT !.exit = "error"]
            ELSE [net EXCEPT !.phase[op.env] = IF op.kind = "remove" THEN "removing" ELSE "error"]
  /\ UNCHANGED operations

StalePolicy ==
  /\ op.pc = "policy" /\ op.etag # remote.etag
  /\ Failed /\ UNCHANGED <<remote, mishaps>>

WriteFails ==
  /\ Mishap /\ Failed
  /\ \/ op.pc \in {"policy", "tags", "agent"} /\ UNCHANGED remote
     \/ op.pc = "policy" /\ op.etag = remote.etag /\ Written
     \/ op.pc = "tags" /\ \E d \in op.todo : remote' \in Tags(d)

RestartVpn ==
  /\ op.pc # "none" /\ Mishap /\ op' = NoOperation
  /\ UNCHANGED <<net, remote, operations>>

AdminEdits ==
  /\ Mishap /\ remote' = [remote EXCEPT !.etag = @ + 1]
  /\ UNCHANGED <<net, op, operations>>

GrantNext ==
  \/ \E e \in Envs, machines \in SUBSET Devices, ports \in Ports : EnsureGrant(e, machines, ports)
  \/ \E e \in Envs : RemoveGrant(e)
  \/ Journal \/ SetPolicy \/ Tagged \/ GrantOver
  \/ \E d \in Devices : SetDeviceTags(d)
  \/ ChangeExit \/ JournalExit \/ ExitWritten \/ AgentApplied \/ Inspect
  \/ StalePolicy \/ WriteFails \/ RestartVpn \/ AdminEdits

GrantSpec == GrantInit /\ [][GrantNext]_grantVars

-----------------------------------------------------------------------------
GrantTypeOK ==
  /\ net \in Network /\ remote \in Remote /\ op \in Operation
  /\ operations \in 0..Operations /\ mishaps \in 0..Mishaps

(* Every managed rule in the policy is in the journal, whatever operation  *)
(* failed or died half-way: the next operation recognizes it as its own    *)
(* and replaces it.                                                        *)
JournalCovers == remote.rules \subseteq net.grants

(* A grant that is stored as applied is: the policy has its rule and no    *)
(* other for the environment, and exactly its machines carry the tag.  One *)
(* that is stored as removed is gone.                                      *)
AppliedIsReal ==
  \A e \in Envs :
    /\ net.phase[e] = "applied" =>
         /\ remote.rules \cap RulesOf(e) = {[env |-> e, ports |-> net.ports[e]]}
         /\ remote.tagged[e] = net.machines[e]
    /\ net.phase[e] = "removed" =>
         remote.rules \cap RulesOf(e) = {} /\ remote.tagged[e] = {}
=============================================================================
