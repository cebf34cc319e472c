--------------------------- MODULE ServiceProofs ----------------------------
(***************************************************************************)
(* VPN grants, storage migrations, Storybook sessions and the accounting   *)
(* of chats, for any number of environments, machines, operations, plans,  *)
(* files, books, clients, failures and restarts: the types, that the       *)
(* journal covers the policy, that a grant stored as applied or removed    *)
(* is, that a deleted file is in the storage, that servers at work have    *)
(* their own ports and stored wishes, that no run is unpaid and that every *)
(* hold of a run is followed.                                              *)
(***************************************************************************)
EXTENDS VpnGrants, StorageMigration, StorybookSessions, ChatAccounting, WellFoundedInduction,
        TLAPS

(* A set of numbers has a least one.                                       *)
LEMMA LeastNumber ==
  ASSUME NEW S \in SUBSET Nat, S # {}
  PROVE  (CHOOSE i \in S : \A j \in S : i <= j) \in S
<1> DEFINE R == OpToRel(<, Nat)
<1>1. R = {p \in Nat \X Nat : p[1] < p[2]}
  BY Zenon DEF OpToRel
<1>2. IsWellFoundedOn(R, Nat)
  BY NatLessThanWellFounded
<1> HIDE DEF R
<1>3. PICK i \in S : \A k \in S : <<k, i>> \notin R
  BY <1>2, WFMin, Zenon
<1>4. \A k \in S : i <= k
  <2> TAKE k \in S
  <2>1. i \in Nat /\ k \in Nat
    OBVIOUS
  <2>2. \A p \in Nat \X Nat : p[1] < p[2] => p \in R
    BY <1>1
  <2>3. k < i => <<k, i>> \in R
    BY <2>1, <2>2
  <2> QED
    BY <2>1, <2>3, <1>3
<1> QED
  BY <1>4

-----------------------------------------------------------------------------
(* Grants.                                                                 *)

Has(rules, e) == rules \cap RulesOf(e)

(* Between the journal and the outcome.                                    *)
MoveDoing(o) == o.pc \in {"policy", "tags", "over"}
Writing(o) == MoveDoing(o) /\ o.kind # "exit"

Wanted(o) == IF o.kind = "remove" THEN {} ELSE {[env |-> o.env, ports |-> o.ports]}

(* What an operation knows while it goes on.                               *)
RulesKnown(o, n, r) ==
  /\ MoveDoing(o) => o.rules \subseteq n.grants
  /\ o.pc = "over" \/ (o.pc = "tags" /\ o.kind = "ensure") => r.rules = o.rules
  /\ MoveDoing(o) => \A e \in Envs : o.kind = "exit" \/ e # o.env => Has(o.rules, e) = Has(n.grants, e)
  /\ Writing(o) => Has(o.rules, o.env) = Wanted(o)
  /\ o.pc = "tags" => o.kind # "exit"

RowKnown(o, n) ==
  /\ Writing(o) =>
       /\ n.phase[o.env] = (IF o.kind = "remove" THEN "removing" ELSE "applying")
       /\ n.machines[o.env] = o.machines
       /\ o.kind = "remove" \/ n.ports[o.env] = o.ports
  /\ o.kind = "remove" => o.machines = {}

TagsKnown(o, r) ==
  /\ o.pc = "policy" /\ o.kind = "ensure" => o.todo = Devices
  /\ o.pc = "tags" => \A d \in Devices \ o.todo : d \in r.tagged[o.env] <=> d \in o.machines
  /\ Writing(o) /\ (o.pc = "over" \/ (o.pc = "policy" /\ o.kind = "remove"))
       => r.tagged[o.env] = o.machines

OpOK(o, n, r) == RulesKnown(o, n, r) /\ RowKnown(o, n) /\ TagsKnown(o, r)

(* What a row stored as applied or removed says, with the journal exact.   *)
Exact(e, n, r) ==
  /\ n.phase[e] = "applied" =>
       /\ Has(n.grants, e) = {[env |-> e, ports |-> n.ports[e]]}
       /\ Has(r.rules, e) = {[env |-> e, ports |-> n.ports[e]]}
       /\ r.tagged[e] = n.machines[e]
  /\ n.phase[e] = "removed" =>
       Has(n.grants, e) = {} /\ Has(r.rules, e) = {} /\ r.tagged[e] = {}

GrantInv ==
  /\ GrantTypeOK /\ JournalCovers /\ OpOK(op, net, remote)
  /\ \A e \in Envs : Exact(e, net, remote)

LEMMA NoOperationIdle ==
  /\ NoOperation \in Operation
  /\ \A n, r : OpOK(NoOperation, n, r)
<1>1. (CHOOSE e \in Envs : TRUE) \in Envs /\ (CHOOSE p \in Ports : TRUE) \in Ports
  BY GrantAssumption
<1>2. NoOperation \in Operation
  BY <1>1 DEF NoOperation, Operation
<1>3. NoOperation.pc = "none" /\ NoOperation.kind = "exit"
  BY DEF NoOperation
<1>4. \A n, r : OpOK(NoOperation, n, r)
  BY <1>3 DEF OpOK, RulesKnown, RowKnown, TagsKnown, MoveDoing, Writing
<1> QED
  BY <1>2, <1>4

LEMMA GrantInitial == GrantInit => GrantInv
<1> SUFFICES ASSUME GrantInit PROVE GrantInv
  OBVIOUS
<1>1. NoOperation.ports \in Ports
  BY NoOperationIdle DEF Operation
<1>2. net \in Network /\ net.grants = {} /\ \A e \in Envs : net.phase[e] = "none"
  BY <1>1 DEF GrantInit, Network
<1>3. remote \in Remote /\ remote.rules = {}
  BY DEF GrantInit, Remote
<1>4. op \in Operation /\ OpOK(op, net, remote)
  BY NoOperationIdle DEF GrantInit
<1>5. operations \in 0..Operations /\ mishaps \in 0..Mishaps
  BY GrantAssumption DEF GrantInit
<1> QED
  BY <1>2, <1>3, <1>4, <1>5 DEF GrantInv, GrantTypeOK, JournalCovers, Exact

(* The rules of two environments are different ones.                       *)
LEMMA RulesApart ==
  ASSUME NEW e \in Envs, NEW f \in Envs, e # f
  PROVE  RulesOf(e) \cap RulesOf(f) = {}
BY DEF RulesOf

(* An environment whose row no step touches, with its rules written as     *)
(* the journal has them.                                                   *)
LEMMA ExactKept ==
  ASSUME NEW e \in Envs, Exact(e, net, remote),
         \/ net'.phase[e] \notin {"applied", "removed"}
         \/ /\ net'.phase[e] = net.phase[e] /\ net'.ports[e] = net.ports[e]
            /\ net'.machines[e] = net.machines[e] /\ remote'.tagged[e] = remote.tagged[e]
            /\ Has(net'.grants, e) = Has(net.grants, e)
            /\ Has(remote'.rules, e) \in {Has(remote.rules, e), Has(net.grants, e)}
  PROVE  Exact(e, net', remote')
BY DEF Exact

(* A step after which no operation goes on.                                *)
LEMMA OverKeeps ==
  ASSUME GrantInv, op' = NoOperation, net' \in Network, remote' \in Remote,
         operations' \in 0..Operations, mishaps' \in 0..Mishaps,
         remote'.rules \subseteq net'.grants, \A e \in Envs : Exact(e, net', remote')
  PROVE  GrantInv'
BY NoOperationIdle DEF GrantInv, GrantTypeOK, JournalCovers

LEMMA ExitRow ==
  ASSUME NEW n \in Network, NEW x \in {"idle", "applying", "error"}
  PROVE  LET m == [n EXCEPT !.exit = x] IN
         /\ m \in Network /\ m.phase = n.phase /\ m.machines = n.machines
         /\ m.ports = n.ports /\ m.grants = n.grants
BY DEF Network

LEMMA BusyStep ==
  ASSUME GrantInv, NEW new \in Operation, Busy(new), new.pc = "read",
         new.kind = "remove" => new.machines = {},
         \/ UNCHANGED net
         \/ net' = [net EXCEPT !.exit = "applying"]
  PROVE  GrantInv'
<1>1. /\ op' = new /\ UNCHANGED <<remote, mishaps>>
      /\ operations > 0 /\ operations' = operations - 1 /\ net \in Network
  BY DEF Busy, GrantInv, GrantTypeOK
<1>2. /\ net' \in Network /\ net'.phase = net.phase /\ net'.machines = net.machines
      /\ net'.ports = net.ports /\ net'.grants = net.grants
  BY <1>1, ExitRow
<1>3. OpOK(op', net', remote')
  BY <1>1 DEF OpOK, RulesKnown, RowKnown, TagsKnown, MoveDoing, Writing
<1>4. operations' \in 0..Operations
  BY <1>1, GrantAssumption DEF GrantInv, GrantTypeOK
<1>5. \A e \in Envs : Exact(e, net', remote')
  BY <1>1, <1>2, ExactKept DEF GrantInv
<1> QED
  BY <1>1, <1>2, <1>3, <1>4, <1>5 DEF GrantInv, GrantTypeOK, JournalCovers

LEMMA BeginStep ==
  ASSUME GrantInv,
         \/ \E e \in Envs, machines \in SUBSET Devices, ports \in Ports : EnsureGrant(e, machines, ports)
         \/ \E e \in Envs : RemoveGrant(e)
         \/ ChangeExit
  PROVE  GrantInv'
<1>0. NoOperation \in Operation /\ NoOperation.kind = "exit" /\ NoOperation.machines = {}
  BY NoOperationIdle DEF NoOperation
<1>1. ASSUME NEW e \in Envs, NEW machines \in SUBSET Devices, NEW ports \in Ports,
             EnsureGrant(e, machines, ports)
      PROVE  GrantInv'
  <2> DEFINE new == [NoOperation EXCEPT !.pc = "read", !.kind = "ensure", !.env = e,
                                        !.machines = machines, !.ports = ports]
  <2>1. new \in Operation /\ new.pc = "read" /\ new.kind = "ensure"
    BY <1>0 DEF Operation
  <2>2. Busy(new) /\ UNCHANGED net
    BY <1>1 DEF EnsureGrant
  <2> HIDE DEF new
  <2> QED
    BY <2>1, <2>2, BusyStep
<1>2. ASSUME NEW e \in Envs, RemoveGrant(e)
      PROVE  GrantInv'
  <2> DEFINE new == [NoOperation EXCEPT !.pc = "read", !.kind = "remove", !.env = e]
  <2>1. new \in Operation /\ new.pc = "read" /\ new.machines = {}
    BY <1>0 DEF Operation
  <2>2. Busy(new) /\ UNCHANGED net
    BY <1>2 DEF RemoveGrant
  <2> HIDE DEF new
  <2> QED
    BY <2>1, <2>2, BusyStep
<1>3. CASE ChangeExit
  <2> DEFINE new == [NoOperation EXCEPT !.pc = "read"]
  <2>1. new \in Operation /\ new.pc = "read" /\ new.kind = "exit"
    BY <1>0 DEF Operation
  <2>2. Busy(new) /\ net' = [net EXCEPT !.exit = "applying"]
    BY <1>3 DEF ChangeExit
  <2> HIDE DEF new
  <2> QED
    BY <2>1, <2>2, BusyStep
<1> QED
  BY <1>1, <1>2, <1>3

(* The rules an operation wants, seen from each environment.               *)
LEMMA NewRulesApart ==
  ASSUME GrantInv
  PROVE  /\ NewRules \subseteq Rules \cup {Exit}
         /\ Has(NewRules, op.env) = Wanted(op)
         /\ \A e \in Envs : e # op.env => Has(NewRules, e) = Has(net.grants, e)
<1>0. op.env \in Envs /\ op.ports \in Ports /\ net.grants \subseteq Rules \cup {Exit}
  BY DEF GrantInv, GrantTypeOK, Operation, Network
<1> DEFINE rule == [env |-> op.env, ports |-> op.ports]
<1>1. rule \in RulesOf(op.env) /\ rule \in Rules
  BY <1>0 DEF RulesOf, Rules
<1>2. Wanted(op) \subseteq RulesOf(op.env) /\ Wanted(op) \subseteq Rules
  BY <1>1 DEF Wanted
<1>3. NewRules = (net.grants \ RulesOf(op.env)) \cup Wanted(op)
  BY DEF NewRules, Wanted
<1>4. \A e \in Envs : e # op.env => RulesOf(e) \cap RulesOf(op.env) = {}
  BY <1>0, RulesApart
<1> QED
  BY <1>0, <1>2, <1>3, <1>4 DEF Has

LEMMA JournalStep ==
  ASSUME GrantInv, Journal
  PROVE  GrantInv'
<1>0. /\ op \in Operation /\ net \in Network /\ remote \in Remote /\ op.env \in Envs
      /\ op.kind # "exit" /\ UNCHANGED <<remote, operations, mishaps>>
      /\ operations \in 0..Operations /\ mishaps \in 0..Mishaps
  BY DEF GrantInv, GrantTypeOK, Journal, Operation
<1>1. CASE op' = NoOperation /\ UNCHANGED net
  BY <1>0, <1>1, OverKeeps DEF GrantInv, GrantTypeOK, JournalCovers
<1>2. CASE /\ op' = [op EXCEPT !.pc = IF op.kind = "remove" THEN "tags" ELSE "policy",
                               !.rules = NewRules, !.etag = remote.etag, !.todo = Devices]
           /\ net' = [net EXCEPT
                !.phase[op.env] = IF op.kind = "remove" THEN "removing" ELSE "applying",
                !.machines[op.env] = op.machines, !.ports[op.env] = op.ports,
                !.grants = @ \cup NewRules]
  <2>1. /\ NewRules \subseteq Rules \cup {Exit} /\ Has(NewRules, op.env) = Wanted(op)
        /\ \A e \in Envs : e # op.env => Has(NewRules, e) = Has(net.grants, e)
    BY NewRulesApart
  <2> DEFINE phase == IF op.kind = "remove" THEN "removing" ELSE "applying"
             pc == IF op.kind = "remove" THEN "tags" ELSE "policy"
  <2>2. /\ op' = [op EXCEPT !.pc = pc, !.rules = NewRules, !.etag = remote.etag, !.todo = Devices]
        /\ pc \in {"tags", "policy"} /\ (pc = "tags" <=> op.kind = "remove")
    BY <1>2
  <2>3. /\ net'.phase = [net.phase EXCEPT ![op.env] = phase]
        /\ net'.machines = [net.machines EXCEPT ![op.env] = op.machines]
        /\ net'.ports = [net.ports EXCEPT ![op.env] = op.ports]
        /\ net'.grants = net.grants \cup NewRules /\ net'.exit = net.exit
        /\ net' = [phase |-> net'.phase, machines |-> net'.machines, ports |-> net'.ports,
                   grants |-> net'.grants, exit |-> net'.exit]
    BY <1>0, <1>2 DEF Network
  <2>4. phase \in {"removing", "applying"}
    OBVIOUS
  <2>5. /\ net.phase \in [Envs -> {"none", "applying", "applied", "removing", "removed", "error"}]
        /\ net.machines \in [Envs -> SUBSET Devices] /\ net.ports \in [Envs -> Ports]
        /\ net.grants \subseteq Rules \cup {Exit} /\ net.exit \in {"idle", "applying", "error"}
        /\ op.machines \subseteq Devices /\ op.ports \in Ports /\ remote.etag \in Nat
    BY <1>0 DEF Network, Operation, Remote
  <2> HIDE DEF phase, pc
  <2>6. net' \in Network
    BY <1>0, <2>1, <2>3, <2>4, <2>5 DEF Network
  <2>7. /\ op'.pc = pc /\ op'.rules = NewRules /\ op'.todo = Devices /\ op'.kind = op.kind
        /\ op'.env = op.env /\ op'.machines = op.machines /\ op'.ports = op.ports
    BY <1>0, <2>2 DEF Operation
  <2>8. op' \in Operation
    BY <1>0, <2>1, <2>2, <2>5 DEF Operation
  <2>9. /\ net'.phase[op.env] = phase /\ net'.machines[op.env] = op.machines
        /\ net'.ports[op.env] = op.ports
        /\ \A e \in Envs : e # op.env => /\ net'.phase[e] = net.phase[e]
                                         /\ net'.machines[e] = net.machines[e]
                                         /\ net'.ports[e] = net.ports[e]
    BY <1>0, <2>3, <2>5
  <2>10. \A e \in Envs : e # op.env => Has(net'.grants, e) = Has(net.grants, e)
    BY <2>1, <2>3 DEF Has
  <2>11. RulesKnown(op', net', remote')
    BY <1>0, <2>1, <2>2, <2>3, <2>7, <2>10 DEF RulesKnown, MoveDoing, Writing, Wanted
  <2>12. RowKnown(op', net')
    BY <1>0, <2>7, <2>9 DEF RowKnown, phase, GrantInv, OpOK
  <2>13. TagsKnown(op', remote')
    BY <1>0, <2>2, <2>7 DEF TagsKnown
  <2>14. \A e \in Envs : Exact(e, net', remote')
    BY <1>0, <2>4, <2>9, <2>10, ExactKept DEF GrantInv
  <2>15. JournalCovers'
    BY <1>0, <2>3 DEF GrantInv, JournalCovers
  <2> QED
    BY <1>0, <2>6, <2>8, <2>11, <2>12, <2>13, <2>14, <2>15 DEF GrantInv, GrantTypeOK, OpOK
<1> QED
  BY <1>1, <1>2 DEF Journal

(* What a write of the policy leaves, with or without an answer.           *)
LEMMA WrittenPolicy ==
  ASSUME GrantInv, op.pc = "policy", Written
  PROVE  /\ remote' \in Remote /\ remote'.rules = op.rules /\ remote'.tagged = remote.tagged
         /\ remote'.rules \subseteq net.grants
         /\ \A e \in Envs :
              \/ op.kind # "exit" /\ e = op.env
              \/ Has(remote'.rules, e) = Has(net.grants, e)
<1>0. op \in Operation /\ remote \in Remote /\ op.rules \subseteq net.grants
      /\ \A e \in Envs : op.kind = "exit" \/ e # op.env => Has(op.rules, e) = Has(net.grants, e)
  BY DEF GrantInv, GrantTypeOK, OpOK, RulesKnown, MoveDoing
<1>1. /\ remote' = [remote EXCEPT !.rules = op.rules, !.etag = @ + 1]
      /\ op.rules \subseteq Rules \cup {Exit} /\ remote.etag + 1 \in Nat
  BY <1>0 DEF Written, Operation, Remote
<1>2. remote' \in Remote /\ remote'.rules = op.rules /\ remote'.tagged = remote.tagged
  BY <1>0, <1>1 DEF Remote
<1> QED
  BY <1>0, <1>2

LEMMA SetPolicyStep ==
  ASSUME GrantInv, SetPolicy
  PROVE  GrantInv'
<1>0. /\ op \in Operation /\ op.pc = "policy" /\ Written /\ net' = net
      /\ operations' = operations /\ mishaps' = mishaps
  BY DEF GrantInv, GrantTypeOK, SetPolicy
<1>1. /\ remote' \in Remote /\ remote'.rules = op.rules /\ remote'.tagged = remote.tagged
      /\ remote'.rules \subseteq net.grants
      /\ \A e \in Envs : \/ op.kind # "exit" /\ e = op.env
                         \/ Has(remote'.rules, e) = Has(net.grants, e)
  BY <1>0, WrittenPolicy
<1> DEFINE pc == IF op.kind = "ensure" THEN "tags" ELSE "over"
<1>2. op' = [op EXCEPT !.pc = pc] /\ pc \in {"tags", "over"} /\ (pc = "tags" <=> op.kind = "ensure")
  BY DEF SetPolicy
<1> HIDE DEF pc
<1>3. /\ op' \in Operation /\ op'.pc = pc /\ op'.rules = op.rules /\ op'.todo = op.todo
      /\ op'.kind = op.kind /\ op'.env = op.env /\ op'.machines = op.machines /\ op'.ports = op.ports
  BY <1>0, <1>2 DEF Operation
<1>4. RulesKnown(op', net, remote')
  BY <1>0, <1>1, <1>2, <1>3 DEF GrantInv, OpOK, RulesKnown, MoveDoing, Writing, Wanted
<1>5. RowKnown(op', net)
  BY <1>0, <1>2, <1>3 DEF GrantInv, OpOK, RowKnown, MoveDoing, Writing
<1>6. op.kind = "ensure" => op.todo = Devices
  BY <1>0 DEF GrantInv, OpOK, TagsKnown, Writing, MoveDoing
<1>7. TagsKnown(op', remote')
  BY <1>0, <1>1, <1>2, <1>3, <1>6 DEF GrantInv, OpOK, TagsKnown, MoveDoing, Writing, Operation
<1>8. ASSUME NEW e \in Envs
      PROVE  Exact(e, net', remote')
  <2>1. CASE op.kind # "exit" /\ e = op.env
    <3>1. net.phase[e] \in {"removing", "applying"}
      BY <1>0, <2>1 DEF GrantInv, OpOK, RowKnown, Writing, MoveDoing
    <3> QED
      BY <1>0, <3>1 DEF Exact
  <2>2. CASE Has(remote'.rules, e) = Has(net.grants, e)
    BY <1>0, <1>1, <2>2, ExactKept DEF GrantInv
  <2> QED
    BY <1>1, <2>1, <2>2
<1> QED
  BY <1>0, <1>1, <1>3, <1>4, <1>5, <1>7, <1>8 DEF GrantInv, GrantTypeOK, OpOK, JournalCovers

(* What a write of the tags of a device leaves.                            *)
LEMMA WrittenTags ==
  ASSUME GrantInv, op.pc = "tags", NEW d \in op.todo, remote' \in Tags(d)
  PROVE  /\ remote' \in Remote /\ remote'.rules = remote.rules
         /\ \A e \in Envs : e # op.env => remote'.tagged[e] = remote.tagged[e]
         /\ \A c \in Devices : c \in remote'.tagged[op.env] <=>
              IF c = d THEN c \in op.machines ELSE c \in remote.tagged[op.env]
<1>0. /\ op \in Operation /\ remote \in Remote /\ op.env \in Envs /\ d \in Devices
      /\ remote.tagged \in [Envs -> SUBSET Devices]
  BY DEF GrantInv, GrantTypeOK, Operation, Remote
<1> DEFINE set == IF d \in op.machines THEN remote.tagged[op.env] \cup {d}
                  ELSE remote.tagged[op.env] \ {d}
<1>1. remote' = [remote EXCEPT !.tagged = [remote.tagged EXCEPT ![op.env] = set]]
  BY <1>0 DEF Tags, Remote
<1>2. /\ set \subseteq Devices
      /\ \A c \in Devices : c \in set <=> IF c = d THEN c \in op.machines ELSE c \in remote.tagged[op.env]
  BY <1>0
<1> HIDE DEF set
<1> DEFINE tagged == [remote.tagged EXCEPT ![op.env] = set]
<1>3. /\ tagged \in [Envs -> SUBSET Devices] /\ tagged[op.env] = set
      /\ \A e \in Envs : e # op.env => tagged[e] = remote.tagged[e]
  BY <1>0, <1>2
<1> HIDE DEF tagged
<1>4. remote' = [remote EXCEPT !.tagged = tagged]
  BY <1>1 DEF tagged
<1>5. remote' \in Remote /\ remote'.rules = remote.rules /\ remote'.tagged = tagged
  BY <1>0, <1>3, <1>4 DEF Remote
<1> QED
  BY <1>2, <1>3, <1>5

(* The tags of an operation that goes on are about its environment alone.  *)
LEMMA TagsExact ==
  ASSUME GrantInv, op.pc = "tags", NEW d \in op.todo, remote' \in Tags(d), net' = net
  PROVE  \A e \in Envs : Exact(e, net', remote')
<1> TAKE e \in Envs
<1>1. /\ remote'.rules = remote.rules
      /\ \A f \in Envs : f # op.env => remote'.tagged[f] = remote.tagged[f]
  BY WrittenTags
<1>2. CASE e = op.env
  <2>1. net.phase[e] \in {"removing", "applying"}
    BY <1>2 DEF GrantInv, OpOK, RowKnown, RulesKnown, Writing, MoveDoing
  <2> QED
    BY <2>1 DEF Exact
<1>3. CASE e # op.env
  BY <1>1, <1>3, ExactKept DEF GrantInv
<1> QED
  BY <1>2, <1>3

LEMMA SetDeviceTagsStep ==
  ASSUME GrantInv, NEW d \in Devices, SetDeviceTags(d)
  PROVE  GrantInv'
<1>0. /\ op \in Operation /\ op.pc = "tags" /\ d \in op.todo /\ remote' \in Tags(d) /\ net' = net
      /\ operations' = operations /\ mishaps' = mishaps
  BY DEF GrantInv, GrantTypeOK, SetDeviceTags
<1>1. /\ remote' \in Remote /\ remote'.rules = remote.rules
      /\ \A c \in Devices : c \in remote'.tagged[op.env] <=>
           IF c = d THEN c \in op.machines ELSE c \in remote.tagged[op.env]
  BY <1>0, WrittenTags
<1>2. op' = [op EXCEPT !.todo = @ \ {d}]
  BY DEF SetDeviceTags
<1>3. /\ op' \in Operation /\ op'.pc = "tags" /\ op'.rules = op.rules /\ op'.todo = op.todo \ {d}
      /\ op'.kind = op.kind /\ op'.env = op.env /\ op'.machines = op.machines /\ op'.ports = op.ports
  BY <1>0, <1>2 DEF Operation
<1>4. RulesKnown(op', net, remote')
  BY <1>0, <1>1, <1>3 DEF GrantInv, OpOK, RulesKnown, MoveDoing, Writing, Wanted
<1>5. RowKnown(op', net)
  BY <1>0, <1>3 DEF GrantInv, OpOK, RowKnown, MoveDoing, Writing
<1>6. TagsKnown(op', remote')
  BY <1>0, <1>1, <1>3 DEF GrantInv, OpOK, TagsKnown, MoveDoing, Writing
<1>7. \A e \in Envs : Exact(e, net', remote')
  BY <1>0, TagsExact
<1> QED
  BY <1>0, <1>1, <1>3, <1>4, <1>5, <1>6, <1>7 DEF GrantInv, GrantTypeOK, OpOK, JournalCovers

LEMMA TaggedStep ==
  ASSUME GrantInv, Tagged
  PROVE  GrantInv'
<1>0. /\ op \in Operation /\ remote \in Remote /\ op.pc = "tags" /\ op.todo = {}
      /\ net' = net /\ remote' = remote /\ operations' = operations /\ mishaps' = mishaps
      /\ op.kind \in {"ensure", "remove"} /\ op.env \in Envs
  BY DEF GrantInv, GrantTypeOK, Tagged, OpOK, RulesKnown, Operation
<1> DEFINE pc == IF op.kind = "remove" THEN "policy" ELSE "over"
<1>1. op' = [op EXCEPT !.pc = pc] /\ pc \in {"policy", "over"} /\ (pc = "policy" <=> op.kind = "remove")
  BY DEF Tagged
<1> HIDE DEF pc
<1>2. /\ op' \in Operation /\ op'.pc = pc /\ op'.rules = op.rules /\ op'.todo = op.todo
      /\ op'.kind = op.kind /\ op'.env = op.env /\ op'.machines = op.machines /\ op'.ports = op.ports
  BY <1>0, <1>1 DEF Operation
<1>3. RulesKnown(op', net, remote)
  BY <1>0, <1>1, <1>2 DEF GrantInv, OpOK, RulesKnown, MoveDoing, Writing, Wanted
<1>4. RowKnown(op', net)
  BY <1>0, <1>1, <1>2 DEF GrantInv, OpOK, RowKnown, MoveDoing, Writing
<1>5. remote.tagged[op.env] = op.machines
  <2>1. \A d \in Devices : d \in remote.tagged[op.env] <=> d \in op.machines
    BY <1>0 DEF GrantInv, OpOK, TagsKnown
  <2>2. remote.tagged[op.env] \subseteq Devices /\ op.machines \subseteq Devices
    BY <1>0 DEF Remote, Operation
  <2> QED
    BY <2>1, <2>2
<1>6. TagsKnown(op', remote)
  BY <1>1, <1>2, <1>5 DEF TagsKnown
<1> QED
  BY <1>0, <1>2, <1>3, <1>4, <1>6 DEF GrantInv, GrantTypeOK, OpOK, JournalCovers

LEMMA GrantOverStep ==
  ASSUME GrantInv, GrantOver
  PROVE  GrantInv'
<1>0. /\ op \in Operation /\ net \in Network /\ remote \in Remote /\ op.env \in Envs
      /\ op.pc = "over" /\ op.kind \in {"ensure", "remove"} /\ op' = NoOperation /\ remote' = remote
      /\ operations' = operations /\ mishaps' = mishaps
  BY DEF GrantInv, GrantTypeOK, GrantOver, Operation
<1>1. /\ remote.rules = op.rules /\ Has(op.rules, op.env) = Wanted(op)
      /\ \A e \in Envs : e # op.env => Has(op.rules, e) = Has(net.grants, e)
      /\ net.machines[op.env] = op.machines /\ remote.tagged[op.env] = op.machines
      /\ op.kind = "remove" \/ net.ports[op.env] = op.ports
      /\ op.kind = "remove" => op.machines = {}
  BY <1>0 DEF GrantInv, OpOK, RulesKnown, RowKnown, TagsKnown, Writing, MoveDoing
<1> DEFINE phase == IF op.kind = "remove" THEN "removed" ELSE "applied"
<1>2. /\ net'.phase = [net.phase EXCEPT ![op.env] = phase] /\ net'.grants = op.rules
      /\ net'.machines = net.machines /\ net'.ports = net.ports /\ net'.exit = net.exit
      /\ net' = [phase |-> net'.phase, machines |-> net'.machines, ports |-> net'.ports,
                 grants |-> net'.grants, exit |-> net'.exit]
  BY <1>0 DEF GrantOver, Network
<1>3. /\ phase \in {"removed", "applied"} /\ (phase = "removed" <=> op.kind = "remove")
      /\ op.rules \subseteq Rules \cup {Exit}
      /\ net.phase \in [Envs -> {"none", "applying", "applied", "removing", "removed", "error"}]
      /\ net.machines \in [Envs -> SUBSET Devices] /\ net.ports \in [Envs -> Ports]
      /\ net.exit \in {"idle", "applying", "error"}
  BY <1>0 DEF Network, Operation
<1> HIDE DEF phase
<1>4. net' \in Network
  BY <1>0, <1>2, <1>3 DEF Network
<1>5. ASSUME NEW e \in Envs
      PROVE  Exact(e, net', remote')
  <2>1. CASE e = op.env
    <3>1. net'.phase[e] = phase /\ net'.machines[e] = op.machines
      BY <1>0, <1>1, <1>2, <1>3, <2>1
    <3>2. op.kind # "remove" => net'.ports[e] = op.ports
      BY <1>1, <1>2, <2>1
    <3>3. Has(net'.grants, e) = Wanted(op) /\ Has(remote'.rules, e) = Wanted(op)
      BY <1>0, <1>1, <1>2, <2>1
    <3> QED
      BY <1>0, <1>1, <1>3, <2>1, <3>1, <3>2, <3>3 DEF Exact, Wanted
  <2>2. CASE e # op.env
    <3>1. /\ net'.phase[e] = net.phase[e] /\ net'.ports[e] = net.ports[e]
          /\ net'.machines[e] = net.machines[e] /\ remote'.tagged[e] = remote.tagged[e]
          /\ Has(net'.grants, e) = Has(net.grants, e) /\ Has(remote'.rules, e) = Has(net.grants, e)
      BY <1>0, <1>1, <1>2, <1>3, <2>2
    <3> QED
      BY <3>1, ExactKept DEF GrantInv
  <2> QED
    BY <2>1, <2>2
<1>6. remote'.rules \subseteq net'.grants
  BY <1>0, <1>1, <1>2
<1>7. operations' \in 0..Operations /\ mishaps' \in 0..Mishaps
  BY <1>0 DEF GrantInv, GrantTypeOK
<1> QED
  BY <1>0, <1>4, <1>5, <1>6, <1>7, OverKeeps

-----------------------------------------------------------------------------
(* The exit node, the failures and the restart leave the rows of the       *)
(* environments alone, or take their promise back.                         *)

LEMMA FailedKeeps ==
  ASSUME GrantInv, Failed, op.pc # "none", mishaps' \in 0..Mishaps, remote' \in Remote,
         remote'.rules \subseteq net.grants,
         \A e \in Envs :
           \/ op.kind # "exit" /\ e = op.env
           \/ /\ remote'.tagged[e] = remote.tagged[e]
              /\ Has(remote'.rules, e) \in {Has(remote.rules, e), Has(net.grants, e)}
  PROVE  GrantInv'
<1>0. /\ net \in Network /\ op.env \in Envs /\ op' = NoOperation
      /\ operations' \in 0..Operations
  BY DEF GrantInv, GrantTypeOK, Operation, Failed
<1>1. CASE op.kind = "exit"
  <2>1. /\ net' \in Network /\ net'.phase = net.phase /\ net'.machines = net.machines
        /\ net'.ports = net.ports /\ net'.grants = net.grants
    BY <1>0, <1>1, ExitRow DEF Failed
  <2>2. \A e \in Envs : Exact(e, net', remote')
    BY <1>1, <2>1, ExactKept DEF GrantInv
  <2> QED
    BY <1>0, <2>1, <2>2, OverKeeps
<1>2. CASE op.kind # "exit"
  <2> DEFINE phase == IF op.kind = "remove" THEN "removing" ELSE "error"
  <2>1. /\ net'.phase = [net.phase EXCEPT ![op.env] = phase] /\ net'.machines = net.machines
        /\ net'.ports = net.ports /\ net'.grants = net.grants /\ net'.exit = net.exit
        /\ net' = [phase |-> net'.phase, machines |-> net'.machines, ports |-> net'.ports,
                   grants |-> net'.grants, exit |-> net'.exit]
    BY <1>0, <1>2 DEF Failed, Network
  <2>2. /\ phase \in {"removing", "error"}
        /\ net.phase \in [Envs -> {"none", "applying", "applied", "removing", "removed", "error"}]
    BY <1>0 DEF Network
  <2> HIDE DEF phase
  <2>3. net' \in Network
    BY <1>0, <2>1, <2>2 DEF Network
  <2>4. \A e \in Envs : net'.phase[e] = IF e = op.env THEN phase ELSE net.phase[e]
    BY <2>1, <2>2
  <2>5. \A e \in Envs : Exact(e, net', remote')
    BY <2>1, <2>2, <2>4, ExactKept DEF GrantInv
  <2> QED
    BY <1>0, <2>1, <2>3, <2>5, OverKeeps
<1> QED
  BY <1>1, <1>2

LEMMA WriteFailsStep ==
  ASSUME GrantInv, WriteFails \/ StalePolicy
  PROVE  GrantInv'
<1>0. /\ Failed /\ mishaps' \in 0..Mishaps /\ op.pc \in {"policy", "tags", "agent"}
      /\ remote \in Remote
  <2>1. mishaps \in 0..Mishaps /\ Mishaps \in Nat /\ remote \in Remote
    BY GrantAssumption DEF GrantInv, GrantTypeOK
  <2>2. CASE WriteFails
    <3>1. mishaps' = mishaps - 1 /\ mishaps > 0
      BY <2>2 DEF WriteFails, Mishap
    <3> QED
      BY <2>1, <2>2, <3>1 DEF WriteFails
  <2>3. CASE StalePolicy
    BY <2>1, <2>3 DEF StalePolicy
  <2> QED
    BY <2>2, <2>3
<1>1. CASE UNCHANGED remote
  BY <1>0, <1>1, FailedKeeps DEF GrantInv, JournalCovers
<1>2. CASE op.pc = "policy" /\ Written
  BY <1>0, <1>2, WrittenPolicy, FailedKeeps
<1>3. CASE op.pc = "tags" /\ \E d \in op.todo : remote' \in Tags(d)
  <2>1. PICK d \in op.todo : remote' \in Tags(d)
    BY <1>3
  <2>2. /\ remote' \in Remote /\ remote'.rules = remote.rules
        /\ \A e \in Envs : e # op.env => remote'.tagged[e] = remote.tagged[e]
    BY <1>3, <2>1, WrittenTags
  <2>3. op.kind # "exit"
    BY <1>3 DEF GrantInv, OpOK, RulesKnown
  <2> QED
    BY <1>0, <2>2, <2>3, FailedKeeps DEF GrantInv, JournalCovers
<1> QED
  BY <1>1, <1>2, <1>3 DEF WriteFails, StalePolicy

LEMMA RestartVpnStep ==
  ASSUME GrantInv, RestartVpn
  PROVE  GrantInv'
<1>0. mishaps > 0 /\ mishaps' = mishaps - 1 /\ op' = NoOperation /\ UNCHANGED <<net, remote, operations>>
  BY DEF RestartVpn, Mishap
<1>1. mishaps' \in 0..Mishaps
  BY <1>0, GrantAssumption DEF GrantInv, GrantTypeOK
<1> QED
  BY <1>0, <1>1, OverKeeps DEF GrantInv, GrantTypeOK, JournalCovers

LEMMA AdminEditsStep ==
  ASSUME GrantInv, AdminEdits
  PROVE  GrantInv'
<1>0. remote \in Remote /\ remote.etag + 1 \in Nat
      /\ mishaps > 0 /\ mishaps' = mishaps - 1 /\ UNCHANGED <<net, op, operations>>
      /\ remote' = [remote EXCEPT !.etag = @ + 1]
  BY DEF AdminEdits, Mishap, GrantInv, GrantTypeOK, Remote
<1>1. remote' \in Remote /\ remote'.rules = remote.rules /\ remote'.tagged = remote.tagged
  BY <1>0 DEF Remote
<1>2. mishaps' \in 0..Mishaps
  BY <1>0, GrantAssumption DEF GrantInv, GrantTypeOK
<1>3. OpOK(op', net', remote')
  BY <1>0, <1>1 DEF GrantInv, OpOK, RulesKnown, RowKnown, TagsKnown
<1>4. \A e \in Envs : Exact(e, net', remote')
  BY <1>0, <1>1 DEF GrantInv, Exact
<1> QED
  BY <1>0, <1>1, <1>2, <1>3, <1>4 DEF GrantInv, GrantTypeOK, JournalCovers

LEMMA JournalExitStep ==
  ASSUME GrantInv, JournalExit
  PROVE  GrantInv'
<1>0. /\ op \in Operation /\ net \in Network /\ remote \in Remote /\ op.kind = "exit"
      /\ UNCHANGED <<remote, operations, mishaps>>
      /\ operations' \in 0..Operations /\ mishaps' \in 0..Mishaps
      /\ net.grants \subseteq Rules \cup {Exit} /\ remote.etag \in Nat
  BY DEF GrantInv, GrantTypeOK, JournalExit, Network, Remote
<1> DEFINE rules == {Exit} \cup (net.grants \cap Rules)
<1>1. CASE net' = [net EXCEPT !.exit = "error"] /\ op' = NoOperation
  <2>1. /\ net' \in Network /\ net'.phase = net.phase /\ net'.machines = net.machines
        /\ net'.ports = net.ports /\ net'.grants = net.grants
    BY <1>0, <1>1, ExitRow
  <2>2. \A e \in Envs : Exact(e, net', remote')
    BY <1>0, <2>1, ExactKept DEF GrantInv
  <2>3. remote'.rules \subseteq net'.grants
    BY <1>0, <2>1 DEF GrantInv, JournalCovers
  <2> QED
    BY <1>0, <1>1, <2>1, <2>2, <2>3, OverKeeps
<1>2. CASE /\ net' = [net EXCEPT !.grants = @ \cup rules]
           /\ op' = [op EXCEPT !.pc = "policy", !.rules = rules, !.etag = remote.etag]
  <2>1. ASSUME NEW e \in Envs
        PROVE  Has(rules, e) = Has(net.grants, e) /\ Has(net.grants \cup rules, e) = Has(net.grants, e)
    <3>1. RulesOf(e) \subseteq Rules /\ Exit \notin Rules
      BY GrantAssumption DEF RulesOf, Rules
    <3> QED
      BY <3>1 DEF Has
  <2>2. rules \subseteq Rules \cup {Exit}
    OBVIOUS
  <2> HIDE DEF rules
  <2>3. /\ net'.grants = net.grants \cup rules /\ net'.phase = net.phase /\ net'.ports = net.ports
        /\ net'.machines = net.machines /\ net' \in Network
    BY <1>0, <1>2, <2>2 DEF Network
  <2>4. /\ op' \in Operation /\ op'.pc = "policy" /\ op'.rules = rules /\ op'.kind = "exit"
        /\ op'.env = op.env
    BY <1>0, <1>2, <2>2 DEF Operation
  <2>5. OpOK(op', net', remote')
    <3>1. rules \subseteq net'.grants /\ \A e \in Envs : Has(rules, e) = Has(net'.grants, e)
      BY <2>1, <2>3
    <3> QED
      BY <2>4, <3>1 DEF OpOK, RulesKnown, RowKnown, TagsKnown, MoveDoing, Writing
  <2>6. \A e \in Envs : Exact(e, net', remote')
    BY <1>0, <2>1, <2>3, ExactKept DEF GrantInv
  <2> QED
    BY <1>0, <2>3, <2>4, <2>5, <2>6 DEF GrantInv, GrantTypeOK, JournalCovers
<1> QED
  BY <1>1, <1>2 DEF JournalExit

LEMMA ExitWrittenStep ==
  ASSUME GrantInv, ExitWritten
  PROVE  GrantInv'
<1>0. /\ op \in Operation /\ net \in Network /\ remote \in Remote /\ op.kind = "exit"
      /\ op.pc = "over" /\ UNCHANGED <<remote, operations, mishaps>>
      /\ op' = [op EXCEPT !.pc = "agent"] /\ net' = [net EXCEPT !.grants = op.rules]
      /\ op.rules \subseteq Rules \cup {Exit}
  BY DEF GrantInv, GrantTypeOK, ExitWritten, Operation
<1>1. remote.rules = op.rules /\ \A e \in Envs : Has(op.rules, e) = Has(net.grants, e)
  BY <1>0 DEF GrantInv, OpOK, RulesKnown, MoveDoing
<1>2. /\ net' \in Network /\ net'.grants = op.rules /\ net'.phase = net.phase
      /\ net'.ports = net.ports /\ net'.machines = net.machines
  BY <1>0 DEF Network
<1>3. op' \in Operation /\ op'.pc = "agent" /\ op'.kind = "exit"
  BY <1>0 DEF Operation
<1>4. OpOK(op', net', remote')
  BY <1>3 DEF OpOK, RulesKnown, RowKnown, TagsKnown, MoveDoing, Writing
<1>5. \A e \in Envs : Exact(e, net', remote')
  BY <1>0, <1>1, <1>2, ExactKept DEF GrantInv
<1> QED
  BY <1>0, <1>1, <1>2, <1>3, <1>4, <1>5 DEF GrantInv, GrantTypeOK, JournalCovers

LEMMA ExitOverStep ==
  ASSUME GrantInv, AgentApplied \/ Inspect
  PROVE  GrantInv'
<1>0. /\ net \in Network /\ UNCHANGED <<remote, operations, mishaps>>
      /\ op' = NoOperation \/ op' = op
      /\ \E x \in {"idle", "applying", "error"} : net' = [net EXCEPT !.exit = x]
  BY DEF GrantInv, GrantTypeOK, AgentApplied, Inspect
<1>1. /\ net' \in Network /\ net'.phase = net.phase /\ net'.machines = net.machines
      /\ net'.ports = net.ports /\ net'.grants = net.grants
  <2>1. PICK x \in {"idle", "applying", "error"} : net' = [net EXCEPT !.exit = x]
    BY <1>0
  <2> QED
    BY <1>0, <2>1 DEF Network
<1>2. \A e \in Envs : Exact(e, net', remote')
  BY <1>0, <1>1, ExactKept DEF GrantInv
<1>3. OpOK(op', net', remote') /\ op' \in Operation
  <2>1. CASE op' = NoOperation
    BY <2>1, NoOperationIdle
  <2>2. CASE op' = op
    BY <1>0, <1>1, <2>2 DEF GrantInv, GrantTypeOK, OpOK, RulesKnown, RowKnown, TagsKnown
  <2> QED
    BY <1>0, <2>1, <2>2
<1> QED
  BY <1>0, <1>1, <1>2, <1>3 DEF GrantInv, GrantTypeOK, JournalCovers

LEMMA GrantStep ==
  ASSUME GrantInv, [GrantNext]_grantVars
  PROVE  GrantInv'
<1>1. CASE UNCHANGED grantVars
  <2>1. net' = net /\ remote' = remote /\ op' = op /\ operations' = operations /\ mishaps' = mishaps
    BY <1>1 DEF grantVars
  <2> QED
    BY <2>1 DEF GrantInv, GrantTypeOK, JournalCovers
<1>2. CASE \E d \in Devices : SetDeviceTags(d)
  BY <1>2, SetDeviceTagsStep
<1> QED
  BY <1>1, <1>2, BeginStep, JournalStep, SetPolicyStep, TaggedStep, GrantOverStep,
     JournalExitStep, ExitWrittenStep, ExitOverStep, WriteFailsStep, RestartVpnStep,
     AdminEditsStep
  DEF GrantNext

LEMMA GrantInvariant == GrantSpec => []GrantInv
  BY GrantInitial, GrantStep, PTL DEF GrantSpec

(* The row of the network, the policy at Tailscale and the operation stay  *)
(* of their types.                                                         *)
THEOREM GrantTypeCorrect == GrantSpec => []GrantTypeOK
<1>1. GrantInv => GrantTypeOK
  BY DEF GrantInv
<1> QED
  BY <1>1, GrantInvariant, PTL

(* No managed rule is in the policy that the journal does not know, with   *)
(* any number of operations, failed writes, lost answers and restarts.     *)
THEOREM JournalCoversKept == GrantSpec => []JournalCovers
<1>1. GrantInv => JournalCovers
  BY DEF GrantInv
<1> QED
  BY <1>1, GrantInvariant, PTL

(* A grant stored as applied or removed is so at Tailscale.                *)
THEOREM AppliedIsRealKept == GrantSpec => []AppliedIsReal
<1>1. GrantInv => AppliedIsReal
  BY DEF GrantInv, Exact, Has, AppliedIsReal
<1> QED
  BY <1>1, GrantInvariant, PTL

-----------------------------------------------------------------------------
(* Moving files into a storage.                                            *)

(* No two plans put different sources at one place.                        *)
Apart ==
  \A p, q \in Plans, i, j \in Items : p # q /\ i # j => Dest[p][i] # Dest[q][j]

(* What is read in a source: what was in it, or an edit of it.             *)
Of(i) == {i, -i}

(* The first of the sources that a plan puts at one place; the dry run     *)
(* makes the others conflicts.                                             *)
Sole(p, i) == \A j \in Items : j < i => Dest[p][j] # Dest[p][i]

MigrationState ==
  [plan : [Plans -> MigrationPlan], managed : [Items -> Targets \cup {Nothing}]]

ItemStatus ==
  {"planned", "conflict", "source-changed", "copying", "verified", "failed", "deleted"}

(* A plan in memory or in the file, while the storage is t: only items with *)
(* a place of their own are moved, and a verified one is there.            *)
ItemFine(m, t, p, i) ==
  m.plan[p].status # "none" =>
    /\ m.plan[p].item[i].sum \in Of(i)
    /\ m.plan[p].item[i].status = "conflict" \/ Sole(p, i)
    /\ m.plan[p].item[i].status = "verified" => t[Dest[p][i]] \in Of(i)

(* A file in the storage is of the source that some plan puts there.       *)
PlaceFine(m, t, at) ==
  t[at] = Nothing \/
  \E p \in Plans, i \in Items :
    m.plan[p].status # "none" /\ Sole(p, i) /\ Dest[p][i] = at /\ t[at] \in Of(i)

(* The loop of a plan goes over such items, the loop that deletes over     *)
(* items that are in the storage.                                          *)
LoopFine(t, w, p) ==
  /\ w.at # "none" => \A i \in w.todo : Sole(p, i)
  /\ w.at \in {"again", "delete"} => \A i \in w.todo : t[Dest[p][i]] \in Of(i)
  /\ w.at \in {"target", "publish", "check", "delete"} => w.todo # {}

MoveFine(m, t, w, p) ==
  (w.at # "none" => m.plan[p].status # "none") /\ LoopFine(t, w, p)

(* The file lags behind only in what a copy has seen of single items.      *)
SameStatus == \A p \in Plans : stored.plan[p].status = migration.plan[p].status

SourceFine == \A i \in Items : source[i] \in Of(i) \cup {Nothing}
TargetFine == \A at \in Targets : PlaceFine(migration, target, at)
ItemsFine ==
  \A p \in Plans, i \in Items : ItemFine(migration, target, p, i) /\ ItemFine(stored, target, p, i)
MovingFine == \A p \in Plans : MoveFine(migration, target, moving[p], p)

MoveInv ==
  /\ MigrationTypeOK /\ SourceFine /\ TargetFine /\ ItemsFine /\ SameStatus /\ MovingFine
  /\ DeletedIsStored

(* Contents tell their source.                                             *)
LEMMA OfApart ==
  ASSUME NEW i \in Items, NEW j \in Items
  PROVE  /\ i # j => Of(i) \cap Of(j) = {}
         /\ Nothing \notin Of(i) /\ Of(i) \subseteq Content
<1>1. i \in Nat /\ i > 0 /\ j \in Nat /\ j > 0 /\ Nothing \notin Int
  BY MigrationAssumption
<1>2. -i # j /\ -j # i /\ (i # j => -i # -j)
  BY <1>1
<1>3. i # Nothing /\ -i # Nothing
  BY <1>1
<1> QED
  BY <1>2, <1>3 DEF Of, Content

(* A place is of one source, whatever plan puts it there.                  *)
LEMMA OneSource ==
  ASSUME Apart, NEW p \in Plans, NEW q \in Plans, NEW i \in Items, NEW j \in Items,
         Sole(p, i), Sole(q, j), Dest[p][i] = Dest[q][j]
  PROVE  i = j
<1>1. CASE p = q
  <2>1. ~(i < j) /\ ~(j < i)
    BY <1>1 DEF Sole
  <2>2. i \in Nat /\ j \in Nat
    BY MigrationAssumption
  <2> QED
    BY <2>1, <2>2
<1>2. CASE p # q
  BY <1>2 DEF Apart
<1> QED
  BY <1>1, <1>2

(* The item a loop goes on with.                                           *)
LEMMA LeastItem ==
  ASSUME NEW S \in SUBSET Items, S # {}
  PROVE  (CHOOSE i \in S : \A j \in S : i <= j) \in S
<1>1. S \subseteq Nat
  BY MigrationAssumption
<1> QED
  BY <1>1, LeastNumber

(* What the two updates of a plan change.                                  *)
Marked(m, p, i, s) == [m EXCEPT !.plan[p].item[i].status = s]

LEMMA MarkShape ==
  ASSUME NEW m \in MigrationState, NEW p \in Plans, NEW i \in Items, NEW s \in ItemStatus,
         NEW n, n = Marked(m, p, i, s)
  PROVE  /\ n \in MigrationState /\ n.managed = m.managed
         /\ \A q \in Plans : n.plan[q].status = m.plan[q].status
         /\ \A q \in Plans, j \in Items :
              /\ n.plan[q].item[j].sum = m.plan[q].item[j].sum
              /\ n.plan[q].item[j].status = IF q = p /\ j = i THEN s ELSE m.plan[q].item[j].status
<1>1. /\ m.plan \in [Plans -> MigrationPlan]
      /\ \A q \in Plans : m.plan[q].item \in [Items -> MigrationItem]
  BY DEF MigrationState, MigrationPlan
<1>2. PICK it : it = [m.plan[p].item[i] EXCEPT !.status = s]
  OBVIOUS
<1>3. m.plan[p].item[i] \in MigrationItem
  BY <1>1
<1>4. it \in MigrationItem /\ it.status = s /\ it.sum = m.plan[p].item[i].sum
  BY <1>2, <1>3 DEF MigrationItem, ItemStatus
<1>5. PICK plan : plan = [m.plan[p] EXCEPT !.item[i] = it]
  OBVIOUS
<1>6. /\ plan \in MigrationPlan /\ plan.status = m.plan[p].status
      /\ plan.item[i] = it /\ \A j \in Items : j # i => plan.item[j] = m.plan[p].item[j]
  BY <1>1, <1>4, <1>5 DEF MigrationPlan
<1>7. PICK plans : plans = [m.plan EXCEPT ![p] = plan]
  OBVIOUS
<1>8. /\ plans \in [Plans -> MigrationPlan] /\ plans[p] = plan
      /\ \A q \in Plans : q # p => plans[q] = m.plan[q]
  BY <1>1, <1>6, <1>7
<1>9. n = [m EXCEPT !.plan = plans]
  BY <1>2, <1>5, <1>7 DEF Marked
<1>10. n \in MigrationState /\ n.managed = m.managed /\ n.plan = plans
  BY <1>8, <1>9 DEF MigrationState
<1>11. \A q \in Plans : n.plan[q].status = m.plan[q].status
  BY <1>6, <1>8, <1>10
<1>12. ASSUME NEW q \in Plans, NEW j \in Items
       PROVE  /\ n.plan[q].item[j].sum = m.plan[q].item[j].sum
              /\ n.plan[q].item[j].status = IF q = p /\ j = i THEN s ELSE m.plan[q].item[j].status
  <2>1. CASE q # p
    BY <1>8, <1>10, <2>1
  <2>2. CASE q = p /\ j # i
    BY <1>6, <1>8, <1>10, <2>2
  <2>3. CASE q = p /\ j = i
    <3>1. n.plan[q].item[j] = it
      BY <1>6, <1>8, <1>10, <2>3
    <3>2. m.plan[q].item[j] = m.plan[p].item[i]
      BY <2>3
    <3> QED
      BY <1>4, <2>3, <3>1, <3>2
  <2> QED
    BY <2>1, <2>2, <2>3
<1> QED
  BY <1>10, <1>11, <1>12

LEMMA StatusShape ==
  ASSUME NEW m \in MigrationState, NEW p \in Plans,
         NEW s \in {"ready", "copying", "interrupted", "copied", "deleting", "complete"},
         NEW n, n = [m EXCEPT !.plan[p].status = s]
  PROVE  /\ n \in MigrationState
         /\ \A q \in Plans : n.plan[q].status = IF q = p THEN s ELSE m.plan[q].status
         /\ \A q \in Plans : n.plan[q].item = m.plan[q].item
<1>1. m.plan \in [Plans -> MigrationPlan]
  BY DEF MigrationState
<1>2. PICK plan : plan = [m.plan[p] EXCEPT !.status = s]
  OBVIOUS
<1>3. plan \in MigrationPlan /\ plan.status = s /\ plan.item = m.plan[p].item
  BY <1>1, <1>2 DEF MigrationPlan
<1>4. n = [m EXCEPT !.plan = [m.plan EXCEPT ![p] = plan]]
  BY <1>2
<1>5. /\ n.plan[p] = plan /\ \A q \in Plans : q # p => n.plan[q] = m.plan[q]
      /\ n \in MigrationState
  BY <1>1, <1>3, <1>4 DEF MigrationState
<1> QED
  BY <1>3, <1>5

(* The items of a loop, and the one it is at.                              *)
LEMMA TypesOf ==
  ASSUME MigrationTypeOK, NEW p \in Plans
  PROVE  /\ migration \in MigrationState /\ stored \in MigrationState
         /\ source \in [Items -> Content] /\ target \in [Targets -> Content]
         /\ moving \in [Plans -> Moving] /\ moving[p] \in Moving
         /\ moving[p].todo \subseteq Items /\ troubles \in 0..Troubles
         /\ migration.plan[p] \in MigrationPlan
         /\ \A i \in Items : migration.plan[p].item[i] \in MigrationItem /\ Dest[p][i] \in Targets
BY MigrationAssumption DEF MigrationTypeOK, MigrationState, Moving, MigrationPlan

LEMMA Typed ==
  ASSUME MoveInv, NEW p \in Plans
  PROVE  /\ migration \in MigrationState /\ stored \in MigrationState
         /\ source \in [Items -> Content] /\ target \in [Targets -> Content]
         /\ moving \in [Plans -> Moving] /\ moving[p] \in Moving
         /\ moving[p].todo \subseteq Items /\ troubles \in 0..Troubles
         /\ migration.plan[p] \in MigrationPlan
         /\ \A i \in Items : migration.plan[p].item[i] \in MigrationItem /\ Dest[p][i] \in Targets
BY TypesOf DEF MoveInv

LEMMA Current ==
  ASSUME MoveInv, NEW p \in Plans, moving[p].todo # {}, moving[p].at # "none"
  PROVE  /\ CurrentItem(p) \in moving[p].todo /\ CurrentItem(p) \in Items
         /\ Sole(p, CurrentItem(p)) /\ migration.plan[p].status # "none"
         /\ Sum(p) \in Of(CurrentItem(p))
<1>1. moving[p].todo \subseteq Items
  BY Typed
<1>2. CurrentItem(p) \in moving[p].todo
  BY <1>1, LeastItem DEF CurrentItem
<1>3. Sole(p, CurrentItem(p)) /\ migration.plan[p].status # "none"
  BY <1>2 DEF MoveInv, MovingFine, MoveFine, LoopFine
<1>4. ItemFine(migration, target, p, CurrentItem(p))
  BY <1>1, <1>2 DEF MoveInv, ItemsFine
<1> QED
  BY <1>1, <1>2, <1>3, <1>4 DEF ItemFine, Sum, PlanOf

(* What stays in the storage, up to edits, when t becomes u.               *)
MoveKeeps(t, u) ==
  \A q \in Plans, j \in Items : Sole(q, j) /\ t[Dest[q][j]] \in Of(j) => u[Dest[q][j]] \in Of(j)

LEMMA ItemKept ==
  ASSUME NEW m, NEW t, NEW u, MoveKeeps(t, u), NEW p \in Plans, NEW i \in Items,
         ItemFine(m, t, p, i)
  PROVE  ItemFine(m, u, p, i)
BY DEF ItemFine, MoveKeeps

(* A step of plan p preserves the invariant when the plans it writes, the  *)
(* files it leaves and the rest of its own loop are right.                 *)
LEMMA PlanStep ==
  ASSUME Apart, MoveInv, NEW p \in Plans,
         migration' \in MigrationState, stored' \in MigrationState,
         source' \in [Items -> Content], target' \in [Targets -> Content],
         troubles' \in 0..Troubles,
         MoveKeeps(target, target'),
         \A at \in Targets : PlaceFine(migration, target', at),
         \A q \in Plans, j \in Items :
           ItemFine(migration', target', q, j) /\ ItemFine(stored', target', q, j),
         \A q \in Plans :
           /\ stored'.plan[q].status = migration'.plan[q].status
           /\ migration.plan[q].status # "none" => migration'.plan[q].status # "none",
         \A j \in Items :
           /\ source'[j] \in Of(j) \cup {Nothing}
           /\ source'[j] = Nothing =>
                source[j] = Nothing \/ \E q \in Plans : target[Dest[q][j]] \in Of(j),
         NEW w \in Moving, moving' = [moving EXCEPT ![p] = w],
         MoveFine(migration', target', w, p)
  PROVE  MoveInv'
<1>1. moving \in [Plans -> Moving]
  BY Typed
<1>2. /\ moving' \in [Plans -> Moving] /\ moving'[p] = w
      /\ \A q \in Plans : q # p => moving'[q] = moving[q]
  BY <1>1
<1>3. MigrationTypeOK'
  BY <1>2 DEF MigrationTypeOK, MigrationState
<1>4. SourceFine' /\ ItemsFine' /\ SameStatus'
  BY DEF SourceFine, ItemsFine, SameStatus
<1>5. TargetFine'
  BY DEF TargetFine, PlaceFine
<1>6. ASSUME NEW q \in Plans PROVE MoveFine(migration', target', moving'[q], q)
  <2>1. CASE q = p
    BY <1>2, <2>1
  <2>2. CASE q # p
    <3>1. MoveFine(migration, target, moving[q], q) /\ moving[q].todo \subseteq Items
      BY Typed DEF MoveInv, MovingFine
    <3>2. \A i \in moving[q].todo : Sole(q, i) /\ target[Dest[q][i]] \in Of(i)
                                    => target'[Dest[q][i]] \in Of(i)
      BY <3>1 DEF MoveKeeps
    <3> QED
      BY <1>2, <2>2, <3>1, <3>2 DEF MoveFine, LoopFine
  <2> QED
    BY <2>1, <2>2
<1>7. MovingFine'
  BY <1>6 DEF MovingFine
<1>8. ASSUME NEW j \in Items, source'[j] = Nothing
      PROVE  \E q \in Plans : target'[Dest[q][j]] \in Of(j)
  <2>1. PICK q \in Plans : target[Dest[q][j]] \in Of(j)
    BY <1>8 DEF MoveInv, DeletedIsStored, Of
  <2>2. Dest[q][j] \in Targets /\ target[Dest[q][j]] # Nothing
    BY <2>1, OfApart, Typed
  <2>3. PICK r \in Plans, i \in Items : Sole(r, i) /\ Dest[r][i] = Dest[q][j]
                                        /\ target[Dest[q][j]] \in Of(i)
    BY <2>2 DEF MoveInv, TargetFine, PlaceFine
  <2>4. i = j
    BY <2>1, <2>3, OfApart
  <2>5. target'[Dest[r][j]] \in Of(j)
    BY <2>1, <2>3, <2>4 DEF MoveKeeps
  <2> QED
    BY <2>5
<1>9. DeletedIsStored'
  BY <1>8 DEF DeletedIsStored, Of
<1> QED
  BY <1>3, <1>4, <1>5, <1>7, <1>9 DEF MoveInv

(* The same for a step that leaves all files alone.                        *)
LEMMA QuietStep ==
  ASSUME Apart, MoveInv, NEW p \in Plans,
         UNCHANGED <<source, target>>, troubles' \in 0..Troubles,
         migration' \in MigrationState, stored' \in MigrationState,
         \A q \in Plans, j \in Items :
           ItemFine(migration', target, q, j) /\ ItemFine(stored', target, q, j),
         \A q \in Plans :
           /\ stored'.plan[q].status = migration'.plan[q].status
           /\ migration.plan[q].status # "none" => migration'.plan[q].status # "none",
         NEW w \in Moving, moving' = [moving EXCEPT ![p] = w],
         MoveFine(migration', target, w, p)
  PROVE  MoveInv'
<1>1. /\ source' \in [Items -> Content] /\ target' \in [Targets -> Content]
  BY Typed
<1>2. MoveKeeps(target, target')
  BY DEF MoveKeeps
<1>3. \A at \in Targets : PlaceFine(migration, target', at)
  BY DEF MoveInv, TargetFine
<1>4. \A j \in Items : source'[j] \in Of(j) \cup {Nothing} /\ (source'[j] = Nothing => source[j] = Nothing)
  BY DEF MoveInv, SourceFine
<1>5. \A q \in Plans, j \in Items : ItemFine(migration', target', q, j) /\ ItemFine(stored', target', q, j)
  OBVIOUS
<1>6. MoveFine(migration', target', w, p)
  OBVIOUS
<1> QED
  BY <1>1, <1>2, <1>3, <1>4, <1>5, <1>6, PlanStep

(* Plans in which one item, or the status of one plan, was changed.        *)
LEMMA MarkFine ==
  ASSUME Apart, MoveInv, NEW p \in Plans, NEW s \in ItemStatus,
         NEW i \in Items, Sole(p, i), s = "verified" => target[Dest[p][i]] \in Of(i),
         NEW n, n = Marked(migration, p, i, s)
  PROVE  /\ n \in MigrationState /\ n.managed = migration.managed
         /\ \A q \in Plans : n.plan[q].status = migration.plan[q].status
         /\ \A q \in Plans, j \in Items : ItemFine(n, target, q, j)
<1>1. migration \in MigrationState
  BY Typed
<1>2. \A q \in Plans, j \in Items : ItemFine(migration, target, q, j)
  BY DEF MoveInv, ItemsFine
<1>3. /\ n \in MigrationState /\ n.managed = migration.managed
      /\ \A q \in Plans : n.plan[q].status = migration.plan[q].status
      /\ \A q \in Plans, j \in Items :
           /\ n.plan[q].item[j].sum = migration.plan[q].item[j].sum
           /\ n.plan[q].item[j].status =
                IF q = p /\ j = i THEN s ELSE migration.plan[q].item[j].status
  BY <1>1, MarkShape
<1>4. ASSUME NEW q \in Plans, NEW j \in Items PROVE ItemFine(n, target, q, j)
  <2>1. ItemFine(migration, target, q, j)
    BY <1>2
  <2> QED
    BY <1>3, <2>1 DEF ItemFine
<1> QED
  BY <1>3, <1>4

LEMMA StatusFine ==
  ASSUME MoveInv, NEW p \in Plans, migration.plan[p].status # "none",
         NEW s \in {"ready", "copying", "interrupted", "copied", "deleting", "complete"},
         NEW n, n = [migration EXCEPT !.plan[p].status = s]
  PROVE  /\ n \in MigrationState /\ n.plan[p].status = s
         /\ \A q \in Plans : migration.plan[q].status # "none" => n.plan[q].status # "none"
         /\ \A q \in Plans, j \in Items : ItemFine(n, target, q, j)
<1>1. migration \in MigrationState
  BY Typed
<1>2. /\ n \in MigrationState
      /\ \A q \in Plans : n.plan[q].status = IF q = p THEN s ELSE migration.plan[q].status
      /\ \A q \in Plans : n.plan[q].item = migration.plan[q].item
  BY <1>1, StatusShape
<1>3. ASSUME NEW q \in Plans, NEW j \in Items PROVE ItemFine(n, target, q, j)
  <2>1. ItemFine(migration, target, q, j)
    BY DEF MoveInv, ItemsFine
  <2>2. n.plan[q].status # "none" => migration.plan[q].status # "none"
    BY <1>2
  <2>3. n.plan[q].item[j] = migration.plan[q].item[j]
    BY <1>2
  <2> QED
    BY <2>1, <2>2, <2>3 DEF ItemFine
<1> QED
  BY <1>2, <1>3

(* A step that sets the status of the plan, and one that marks the item    *)
(* its loop is at, in memory or in the file as well.                       *)
LEMMA StatusStep ==
  ASSUME Apart, MoveInv, NEW p \in Plans, migration.plan[p].status # "none",
         NEW s \in {"ready", "copying", "interrupted", "copied", "deleting", "complete"},
         SaveState(SetPlan(p, s)), UNCHANGED <<source, target>>, troubles' \in 0..Troubles,
         NEW w \in Moving, moving' = [moving EXCEPT ![p] = w], LoopFine(target, w, p)
  PROVE  MoveInv'
<1>1. PICK n : n = SetPlan(p, s)
  OBVIOUS
<1>2. n = [migration EXCEPT !.plan[p].status = s]
  BY <1>1 DEF SetPlan
<1>3. migration' = n /\ stored' = n
  BY <1>1 DEF SaveState
<1>4. /\ n \in MigrationState /\ n.plan[p].status = s
      /\ \A q \in Plans : migration.plan[q].status # "none" => n.plan[q].status # "none"
      /\ \A q \in Plans, j \in Items : ItemFine(n, target, q, j)
  BY <1>2, StatusFine
<1>5. MoveFine(n, target, w, p)
  BY <1>4 DEF MoveFine
<1> QED
  BY <1>3, <1>4, <1>5, QuietStep

LEMMA MarkStep ==
  ASSUME Apart, MoveInv, NEW p \in Plans, moving[p].at # "none", moving[p].todo # {},
         NEW s \in ItemStatus, s = "verified" => target[Place(p)] \in Of(CurrentItem(p)),
         SaveState(Mark(p, s)) \/ KeepState(Mark(p, s)),
         UNCHANGED <<source, target>>, troubles' \in 0..Troubles,
         NEW w \in Moving, moving' = [moving EXCEPT ![p] = w], LoopFine(target, w, p)
  PROVE  MoveInv'
<1>1. PICK i \in Items : i = CurrentItem(p) /\ Sole(p, i)
  BY Current
<1>2. PICK n : n = Mark(p, s)
  OBVIOUS
<1>3. n = Marked(migration, p, i, s)
  BY <1>1, <1>2 DEF Mark, Marked
<1>4. s = "verified" => target[Dest[p][i]] \in Of(i)
  BY <1>1 DEF Place
<1>5. /\ n \in MigrationState
      /\ \A q \in Plans : n.plan[q].status = migration.plan[q].status
      /\ \A q \in Plans, j \in Items : ItemFine(n, target, q, j)
  BY <1>1, <1>3, <1>4, MarkFine
<1>6. migration' = n /\ (stored' = n \/ stored' = stored)
  BY <1>2 DEF SaveState, KeepState
<1>7. /\ stored \in MigrationState /\ SameStatus
      /\ \A q \in Plans, j \in Items : ItemFine(stored, target, q, j)
  BY Typed DEF MoveInv, ItemsFine
<1>8. /\ migration' \in MigrationState /\ stored' \in MigrationState
      /\ \A q \in Plans, j \in Items :
           ItemFine(migration', target, q, j) /\ ItemFine(stored', target, q, j)
  BY <1>5, <1>6, <1>7
<1>9. \A q \in Plans :
        /\ stored'.plan[q].status = migration'.plan[q].status
        /\ migration'.plan[q].status = migration.plan[q].status
  BY <1>5, <1>6, <1>7 DEF SameStatus
<1>10. MoveFine(migration', target, w, p)
  BY <1>9, Current DEF MoveFine
<1> QED
  BY <1>8, <1>9, <1>10, QuietStep

(* The rest of a loop.                                                     *)
After(p, place) == [at |-> place, todo |-> moving[p].todo \ {CurrentItem(p)}]
Onward(p, place) == [at |-> place, todo |-> moving[p].todo]

LEMMA LoopGoesOn ==
  ASSUME MoveInv, NEW p \in Plans, moving[p].at # "none",
         NEW place \in {"source", "target", "publish", "check", "again", "delete"}
  PROVE  /\ NextItem(p, place) => moving' = [moving EXCEPT ![p] = After(p, place)]
         /\ MoveOn(p, place) => moving' = [moving EXCEPT ![p] = Onward(p, place)]
         /\ After(p, place) \in Moving /\ Onward(p, place) \in Moving /\ Still \in Moving
         /\ LoopFine(target, Still, p)
         /\ place \in {"source"} => LoopFine(target, After(p, place), p)
         /\ place \in {"again"} /\ moving[p].at \in {"again", "delete"} =>
              LoopFine(target, After(p, place), p)
         /\ place \in {"target", "publish", "check"} /\ moving[p].todo # {} =>
              LoopFine(target, Onward(p, place), p)
         /\ place = "delete" /\ moving[p].at = "again" /\ moving[p].todo # {} =>
              LoopFine(target, Onward(p, place), p)
<1>1. /\ moving \in [Plans -> Moving] /\ moving[p] \in Moving /\ moving[p].todo \subseteq Items
      /\ LoopFine(target, moving[p], p)
  BY Typed DEF MoveInv, MovingFine, MoveFine
<1>2. NextItem(p, place) => moving' = [moving EXCEPT ![p] = After(p, place)]
  BY <1>1 DEF NextItem, After
<1>3. [moving[p] EXCEPT !.at = place] = Onward(p, place)
  BY <1>1 DEF Moving, Onward
<1>4. MoveOn(p, place) => moving' = [moving EXCEPT ![p] = Onward(p, place)]
  BY <1>1, <1>3 DEF MoveOn
<1>5. /\ After(p, place) \in Moving /\ Onward(p, place) \in Moving /\ Still \in Moving
  BY <1>1 DEF After, Onward, Still, Moving
<1>6. LoopFine(target, Still, p)
  BY DEF LoopFine, Still
<1> QED
  BY <1>1, <1>2, <1>4, <1>5, <1>6 DEF LoopFine, After, Onward

LEMMA InterruptStep ==
  ASSUME Apart, MoveInv, NEW p \in Plans, moving[p].at # "none", Interrupt(p),
         UNCHANGED <<source, target>>, troubles' \in 0..Troubles
  PROVE  MoveInv'
<1>1. migration.plan[p].status # "none"
  BY DEF MoveInv, MovingFine, MoveFine
<1>2. Still \in Moving /\ LoopFine(target, Still, p)
  BY LoopGoesOn
<1>3. SaveState(SetPlan(p, "interrupted")) /\ moving' = [moving EXCEPT ![p] = Still]
  BY DEF Interrupt
<1> QED
  BY <1>1, <1>2, <1>3, StatusStep

(* A file that was read in the storage is right.                           *)
LEMMA VerifiedStep ==
  ASSUME Apart, MoveInv, NEW p \in Plans, moving[p].at # "none", moving[p].todo # {},
         target[Place(p)] = Sum(p), Verified(p), UNCHANGED <<source, target>>,
         troubles' \in 0..Troubles
  PROVE  MoveInv'
<1>1. PICK i \in Items : i = CurrentItem(p) /\ Sole(p, i) /\ Sum(p) \in Of(i)
  BY Current
<1>2. PICK n : n = Marked(migration, p, i, "verified")
  OBVIOUS
<1>3. target[Dest[p][i]] \in Of(i) /\ "verified" \in ItemStatus
  BY <1>1 DEF Place, ItemStatus
<1>4. /\ n \in MigrationState
      /\ \A q \in Plans : n.plan[q].status = migration.plan[q].status
      /\ \A q \in Plans, j \in Items : ItemFine(n, target, q, j)
  BY <1>1, <1>2, <1>3, MarkFine
<1>5. migration' = [n EXCEPT !.managed[i] = IF @ = Nothing THEN Place(p) ELSE @]
      /\ stored' = migration'
  BY <1>1, <1>2 DEF Verified, SaveState, Mark, Marked
<1>6. Place(p) \in Targets
  BY <1>1, Typed DEF Place
<1>7. migration' \in MigrationState /\ migration'.plan = n.plan
  BY <1>4, <1>5, <1>6 DEF MigrationState
<1>8. \A q \in Plans, j \in Items : ItemFine(migration', target, q, j)
  BY <1>4, <1>7 DEF ItemFine
<1>9. PICK w : w = After(p, "source")
  OBVIOUS
<1>10. moving' = [moving EXCEPT ![p] = w] /\ w \in Moving /\ LoopFine(target, w, p)
  BY <1>9, LoopGoesOn DEF Verified
<1>11. migration.plan[p].status # "none"
  BY Current
<1>12. MoveFine(migration', target, w, p)
  BY <1>4, <1>7, <1>10, <1>11 DEF MoveFine
<1>13. \A q \in Plans :
        /\ stored'.plan[q].status = migration'.plan[q].status
        /\ migration.plan[q].status # "none" => migration'.plan[q].status # "none"
  BY <1>4, <1>5, <1>7
<1>14. stored' \in MigrationState /\ \A q \in Plans, j \in Items : ItemFine(stored', target, q, j)
  BY <1>5, <1>7, <1>8
<1> QED
  BY <1>7, <1>8, <1>10, <1>12, <1>13, <1>14, QuietStep

-----------------------------------------------------------------------------
(* A dry run finds nothing of another source where an item with a smaller  *)
(* one at its place is to go, so it makes the item a conflict.             *)
LEMMA DryRunStep ==
  ASSUME Apart, MoveInv, NEW p \in Plans, DryRun(p)
  PROVE  MoveInv'
<1> DEFINE overlaps(i) == \E j \in Items : j < i /\ Dest[p][j] = Dest[p][i]
           there(i) == target[Dest[p][i]]
           planned(i) == there(i) = source[i] \/ (there(i) = Nothing /\ ~overlaps(i))
<1>1. PICK items : items = [i \in Items |->
        [status |-> IF planned(i) THEN "planned" ELSE "conflict", sum |-> source[i]]]
  OBVIOUS
<1>2. PICK plan : plan = [status |-> "ready", item |-> items]
  OBVIOUS
<1>3. /\ migration.plan[p].status = "none" /\ \A i \in Items : source[i] # Nothing
      /\ UNCHANGED <<source, target, moving, troubles>>
  BY DEF DryRun, PlanOf
<1>4. migration' = [migration EXCEPT !.plan[p] = plan] /\ stored' = migration'
  BY <1>1, <1>2 DEF DryRun, SaveState
<1>5. ASSUME NEW i \in Items
      PROVE  source[i] \in Of(i) /\ (planned(i) => Sole(p, i))
  <2>1. source[i] \in Of(i)
    BY <1>3 DEF MoveInv, SourceFine
  <2>2. ASSUME planned(i), ~Sole(p, i) PROVE FALSE
    <3>1. PICK k \in Items : k < i /\ Dest[p][k] = Dest[p][i]
      BY <2>2 DEF Sole
    <3>2. there(i) = source[i]
      BY <2>2, <3>1
    <3>3. target[Dest[p][i]] # Nothing /\ Dest[p][i] \in Targets
      BY <3>2, <1>3, Typed
    <3>4. PICK q \in Plans, j \in Items : /\ migration.plan[q].status # "none"
                                          /\ Dest[q][j] = Dest[p][i]
      BY <3>3 DEF MoveInv, TargetFine, PlaceFine
    <3>5. q # p
      BY <1>3, <3>4
    <3>6. j = i /\ j = k
      BY <3>1, <3>4, <3>5 DEF Apart
    <3>7. i \in Nat
      BY MigrationAssumption
    <3> QED
      BY <3>1, <3>6, <3>7
  <2> QED
    BY <2>1, <2>2
<1> HIDE DEF overlaps, there, planned
<1>6. \A i \in Items : /\ items[i] \in MigrationItem /\ items[i].sum \in Of(i)
                       /\ items[i].status = "conflict" \/ Sole(p, i)
                       /\ items[i].status # "verified"
  <2> TAKE i \in Items
  <2>1. items[i].sum = source[i] /\ source[i] \in Content
    BY <1>1, Typed
  <2>2. items[i].status = IF planned(i) THEN "planned" ELSE "conflict"
    BY <1>1
  <2>3. items[i] = [status |-> items[i].status, sum |-> items[i].sum]
    BY <1>1
  <2>4. items[i] \in MigrationItem
    BY <2>1, <2>2, <2>3 DEF MigrationItem
  <2> QED
    BY <1>5, <2>1, <2>2, <2>4
<1>7. plan \in MigrationPlan /\ plan.status = "ready" /\ plan.item = items
  BY <1>1, <1>2, <1>6 DEF MigrationPlan
<1>8. migration \in MigrationState /\ migration.plan \in [Plans -> MigrationPlan]
  BY Typed DEF MigrationState
<1>9. PICK plans : plans = [migration.plan EXCEPT ![p] = plan]
  OBVIOUS
<1>10. migration' = [migration EXCEPT !.plan = plans]
  BY <1>4, <1>9
<1>11. /\ migration' \in MigrationState /\ migration'.plan = plans
       /\ plans[p] = plan /\ \A q \in Plans : q # p => plans[q] = migration.plan[q]
  BY <1>7, <1>8, <1>9, <1>10 DEF MigrationState
<1>12. ASSUME NEW q \in Plans, NEW j \in Items PROVE ItemFine(migration', target, q, j)
  <2>1. CASE q = p
    BY <1>6, <1>7, <1>11, <2>1 DEF ItemFine
  <2>2. CASE q # p
    <3>1. ItemFine(migration, target, q, j) /\ migration'.plan[q] = migration.plan[q]
      BY <1>11, <2>2 DEF MoveInv, ItemsFine
    <3> QED
      BY <3>1 DEF ItemFine
  <2> QED
    BY <2>1, <2>2
<1>13. /\ moving[p] \in Moving /\ moving' = [moving EXCEPT ![p] = moving[p]]
       /\ LoopFine(target, moving[p], p) /\ troubles' \in 0..Troubles
  BY <1>3, Typed DEF MoveInv, MovingFine, MoveFine
<1>14. MoveFine(migration', target, moving[p], p)
  BY <1>7, <1>11, <1>13 DEF MoveFine
<1>15. \A q \in Plans : migration.plan[q].status # "none" => migration'.plan[q].status # "none"
  BY <1>3, <1>11
<1>16. /\ stored' \in MigrationState
       /\ \A q \in Plans : stored'.plan[q].status = migration'.plan[q].status
       /\ \A q \in Plans, j \in Items : ItemFine(stored', target, q, j)
  BY <1>4, <1>11, <1>12
<1>17. UNCHANGED <<source, target>>
  BY <1>3
<1> QED
  BY <1>11, <1>12, <1>13, <1>14, <1>15, <1>16, <1>17, QuietStep

LEMMA StartCopyStep ==
  ASSUME Apart, MoveInv, NEW p \in Plans, StartCopy(p)
  PROVE  MoveInv'
<1>1. PICK w : w = [at |-> "source",
                    todo |-> {i \in Items : migration.plan[p].item[i].status # "conflict"}]
  OBVIOUS
<1>2. /\ migration.plan[p].status # "none" /\ SaveState(SetPlan(p, "copying"))
      /\ moving' = [moving EXCEPT ![p] = w] /\ UNCHANGED <<source, target, troubles>>
  BY <1>1 DEF StartCopy, PlanOf
<1>3. \A i \in Items : migration.plan[p].item[i].status = "conflict" \/ Sole(p, i)
  BY <1>2 DEF MoveInv, ItemsFine, ItemFine
<1>4. w \in Moving /\ LoopFine(target, w, p)
  BY <1>1, <1>3 DEF Moving, LoopFine
<1>5. troubles' \in 0..Troubles
  BY <1>2, Typed
<1> QED
  BY <1>2, <1>4, <1>5, StatusStep

LEMMA DeleteVerifiedStep ==
  ASSUME Apart, MoveInv, NEW p \in Plans, DeleteVerified(p)
  PROVE  MoveInv'
<1>1. PICK w : w = [at |-> "again",
                    todo |-> {i \in Items : migration.plan[p].item[i].status = "verified"}]
  OBVIOUS
<1>2. /\ migration.plan[p].status # "none" /\ SaveState(SetPlan(p, "deleting"))
      /\ moving' = [moving EXCEPT ![p] = w] /\ UNCHANGED <<source, target, troubles>>
  BY <1>1 DEF DeleteVerified, PlanOf
<1>3. \A i \in Items : migration.plan[p].item[i].status = "verified" =>
                         Sole(p, i) /\ target[Dest[p][i]] \in Of(i)
  BY <1>2 DEF MoveInv, ItemsFine, ItemFine
<1>4. w \in Moving /\ LoopFine(target, w, p)
  BY <1>1, <1>3 DEF Moving, LoopFine
<1>5. troubles' \in 0..Troubles
  BY <1>2, Typed
<1> QED
  BY <1>2, <1>4, <1>5, StatusStep

(* A loop that only reads, or is over.                                     *)
LEMMA UnmarkedStep ==
  ASSUME Apart, MoveInv, NEW p \in Plans, moving[p].at # "none",
         UNCHANGED <<source, target, migration, stored>>, troubles' \in 0..Troubles,
         NEW w \in Moving, moving' = [moving EXCEPT ![p] = w], LoopFine(target, w, p)
  PROVE  MoveInv'
<1>1. /\ migration' \in MigrationState /\ stored' \in MigrationState
      /\ migration.plan[p].status # "none"
  BY Typed DEF MoveInv, MovingFine, MoveFine
<1>2. \A q \in Plans, j \in Items :
        ItemFine(migration', target, q, j) /\ ItemFine(stored', target, q, j)
  BY DEF MoveInv, ItemsFine
<1>3. \A q \in Plans :
        /\ stored'.plan[q].status = migration'.plan[q].status
        /\ migration.plan[q].status # "none" => migration'.plan[q].status # "none"
  BY DEF MoveInv, SameStatus
<1>4. MoveFine(migration', target, w, p)
  BY <1>1 DEF MoveFine
<1>5. UNCHANGED <<source, target>>
  OBVIOUS
<1> QED
  BY <1>1, <1>2, <1>3, <1>4, <1>5, QuietStep

LEMMA ReadSourceStep ==
  ASSUME Apart, MoveInv, NEW p \in Plans, ReadSource(p)
  PROVE  MoveInv'
<1>1. /\ moving[p].at = "source" /\ moving[p].todo # {}
      /\ UNCHANGED <<source, target>> /\ troubles' \in 0..Troubles
  BY Typed DEF ReadSource, MovingAt
<1>2. CASE Interrupt(p)
  BY <1>1, <1>2, InterruptStep
<1>3. CASE MoveOn(p, "target") /\ UNCHANGED <<migration, stored>>
  <2>1. PICK w : w = Onward(p, "target")
    OBVIOUS
  <2>2. w \in Moving /\ moving' = [moving EXCEPT ![p] = w] /\ LoopFine(target, w, p)
    BY <1>1, <1>3, <2>1, LoopGoesOn
  <2> QED
    BY <1>1, <1>3, <2>2, UnmarkedStep
<1>4. CASE KeepState(Mark(p, "source-changed")) /\ NextItem(p, "source")
  <2>1. PICK w : w = After(p, "source")
    OBVIOUS
  <2>2. w \in Moving /\ moving' = [moving EXCEPT ![p] = w] /\ LoopFine(target, w, p)
    BY <1>1, <1>4, <2>1, LoopGoesOn
  <2>3. "source-changed" \in ItemStatus
    BY DEF ItemStatus
  <2> QED
    BY <1>1, <1>4, <2>2, <2>3, MarkStep
<1> QED
  BY <1>2, <1>3, <1>4 DEF ReadSource

LEMMA ReadTargetStep ==
  ASSUME Apart, MoveInv, NEW p \in Plans, ReadTarget(p)
  PROVE  MoveInv'
<1>1. /\ moving[p].at = "target" /\ moving[p].todo # {}
      /\ UNCHANGED <<source, target, troubles>> /\ troubles' \in 0..Troubles
  BY Typed DEF ReadTarget, MovingAt, MoveInv, MovingFine, MoveFine, LoopFine
<1>2. CASE target[Place(p)] = Sum(p) /\ Verified(p)
  BY <1>1, <1>2, VerifiedStep
<1>3. CASE SaveState(Mark(p, "copying")) /\ MoveOn(p, "publish")
  <2>1. PICK w : w = Onward(p, "publish")
    OBVIOUS
  <2>2. w \in Moving /\ moving' = [moving EXCEPT ![p] = w] /\ LoopFine(target, w, p)
    BY <1>1, <1>3, <2>1, LoopGoesOn
  <2>3. "copying" \in ItemStatus
    BY DEF ItemStatus
  <2> QED
    BY <1>1, <1>3, <2>2, <2>3, MarkStep
<1>4. CASE KeepState(Mark(p, "conflict")) /\ NextItem(p, "source")
  <2>1. PICK w : w = After(p, "source")
    OBVIOUS
  <2>2. w \in Moving /\ moving' = [moving EXCEPT ![p] = w] /\ LoopFine(target, w, p)
    BY <1>1, <1>4, <2>1, LoopGoesOn
  <2>3. "conflict" \in ItemStatus
    BY DEF ItemStatus
  <2> QED
    BY <1>1, <1>4, <2>2, <2>3, MarkStep
<1> QED
  BY <1>2, <1>3, <1>4 DEF ReadTarget

LEMMA CheckTargetStep ==
  ASSUME Apart, MoveInv, NEW p \in Plans, CheckTarget(p)
  PROVE  MoveInv'
<1>1. /\ moving[p].at = "check" /\ moving[p].todo # {}
      /\ UNCHANGED <<source, target, troubles>> /\ troubles' \in 0..Troubles
  BY Typed DEF CheckTarget, MovingAt, MoveInv, MovingFine, MoveFine, LoopFine
<1>2. CASE target[Place(p)] = Sum(p) /\ Verified(p)
  BY <1>1, <1>2, VerifiedStep
<1>3. CASE SaveState(Mark(p, "failed")) /\ NextItem(p, "source")
  <2>1. PICK w : w = After(p, "source")
    OBVIOUS
  <2>2. w \in Moving /\ moving' = [moving EXCEPT ![p] = w] /\ LoopFine(target, w, p)
    BY <1>1, <1>3, <2>1, LoopGoesOn
  <2>3. "failed" \in ItemStatus
    BY DEF ItemStatus
  <2> QED
    BY <1>1, <1>3, <2>2, <2>3, MarkStep
<1> QED
  BY <1>2, <1>3 DEF CheckTarget

LEMMA OverStep ==
  ASSUME Apart, MoveInv, NEW p \in Plans, Copied(p) \/ DeletesOver(p)
  PROVE  MoveInv'
<1>1. /\ moving[p].at # "none" /\ moving' = [moving EXCEPT ![p] = Still]
      /\ UNCHANGED <<source, target>> /\ troubles' \in 0..Troubles
      /\ SaveState(SetPlan(p, "copied")) \/ SaveState(SetPlan(p, "complete"))
  BY Typed DEF Copied, DeletesOver, MovingAt
<1>2. migration.plan[p].status # "none"
  BY <1>1 DEF MoveInv, MovingFine, MoveFine
<1>3. Still \in Moving /\ LoopFine(target, Still, p)
  BY <1>1, LoopGoesOn
<1> QED
  BY <1>1, <1>2, <1>3, StatusStep

LEMMA ReadAgainStep ==
  ASSUME Apart, MoveInv, NEW p \in Plans, ReadAgain(p)
  PROVE  MoveInv'
<1>1. /\ moving[p].at = "again" /\ moving[p].todo # {} /\ troubles' \in 0..Troubles
      /\ UNCHANGED <<source, target, migration, stored, troubles>>
  BY Typed DEF ReadAgain, MovingAt
<1>2. CASE moving' = [moving EXCEPT ![p] = Still]
  <2>1. Still \in Moving /\ LoopFine(target, Still, p)
    BY <1>1, LoopGoesOn
  <2> QED
    BY <1>1, <1>2, <2>1, UnmarkedStep
<1>3. CASE MoveOn(p, "delete")
  <2>1. PICK w : w = Onward(p, "delete")
    OBVIOUS
  <2>2. w \in Moving /\ moving' = [moving EXCEPT ![p] = w] /\ LoopFine(target, w, p)
    BY <1>1, <1>3, <2>1, LoopGoesOn
  <2> QED
    BY <1>1, <2>2, UnmarkedStep
<1>4. CASE NextItem(p, "again")
  <2>1. PICK w : w = After(p, "again")
    OBVIOUS
  <2>2. w \in Moving /\ moving' = [moving EXCEPT ![p] = w] /\ LoopFine(target, w, p)
    BY <1>1, <1>4, <2>1, LoopGoesOn
  <2> QED
    BY <1>1, <2>2, UnmarkedStep
<1> QED
  BY <1>2, <1>3, <1>4 DEF ReadAgain

(* A file is written where its source belongs: whatever was there was of   *)
(* the same source.                                                        *)
LEMMA WriteFine ==
  ASSUME Apart, MoveInv, NEW p \in Plans, moving[p].at # "none", moving[p].todo # {},
         NEW t, t = [target EXCEPT ![Place(p)] = Sum(p)]
  PROVE  /\ t \in [Targets -> Content] /\ MoveKeeps(target, t)
         /\ \A at \in Targets : PlaceFine(migration, t, at)
<1>1. PICK i \in Items : /\ i = CurrentItem(p) /\ Sole(p, i) /\ Sum(p) \in Of(i)
                         /\ migration.plan[p].status # "none"
  BY Current
<1>2. Place(p) = Dest[p][i] /\ Place(p) \in Targets /\ Sum(p) \in Content
  BY <1>1, Typed, OfApart DEF Place
<1>3. target \in [Targets -> Content]
  BY Typed
<1>4. /\ t \in [Targets -> Content] /\ t[Dest[p][i]] \in Of(i)
      /\ \A at \in Targets : at # Dest[p][i] => t[at] = target[at]
  BY <1>1, <1>2, <1>3
<1>5. ASSUME NEW q \in Plans, NEW j \in Items, Sole(q, j), target[Dest[q][j]] \in Of(j)
      PROVE  t[Dest[q][j]] \in Of(j)
  <2>1. Dest[q][j] \in Targets
    BY Typed
  <2>2. CASE Dest[q][j] = Dest[p][i]
    <3>1. i = j
      BY <1>1, <1>5, <2>2, OneSource
    <3> QED
      BY <1>4, <2>2, <3>1
  <2>3. CASE Dest[q][j] # Dest[p][i]
    BY <1>4, <1>5, <2>1, <2>3
  <2> QED
    BY <2>2, <2>3
<1>6. ASSUME NEW at \in Targets PROVE PlaceFine(migration, t, at)
  <2>1. CASE at = Dest[p][i]
    BY <1>1, <1>4, <2>1 DEF PlaceFine
  <2>2. CASE at # Dest[p][i]
    <3>1. PlaceFine(migration, target, at) /\ t[at] = target[at]
      BY <1>4, <2>2 DEF MoveInv, TargetFine
    <3> QED
      BY <3>1 DEF PlaceFine
  <2> QED
    BY <2>1, <2>2
<1> QED
  BY <1>4, <1>5, <1>6 DEF MoveKeeps

LEMMA PublishFileStep ==
  ASSUME Apart, MoveInv, NEW p \in Plans, PublishFile(p)
  PROVE  MoveInv'
<1>1. /\ moving[p].at = "publish" /\ moving[p].todo # {} /\ MoveOn(p, "check")
      /\ target' = [target EXCEPT ![Place(p)] = Sum(p)]
      /\ UNCHANGED <<source, migration, stored, troubles>>
  BY DEF PublishFile, MovingAt, MoveInv, MovingFine, MoveFine, LoopFine
<1>2. PICK t : t = [target EXCEPT ![Place(p)] = Sum(p)]
  OBVIOUS
<1>3. /\ t \in [Targets -> Content] /\ MoveKeeps(target, t) /\ target' = t
      /\ \A at \in Targets : PlaceFine(migration, t, at)
  BY <1>1, <1>2, WriteFine
<1>4. PICK w : w = Onward(p, "check")
  OBVIOUS
<1>5. w \in Moving /\ moving' = [moving EXCEPT ![p] = w]
  BY <1>1, <1>4, LoopGoesOn
<1>6. /\ w.at = "check" /\ w.todo # {} /\ \A i \in w.todo : Sole(p, i)
      /\ migration.plan[p].status # "none"
  BY <1>1, <1>4 DEF Onward, MoveInv, MovingFine, MoveFine, LoopFine
<1>7. MoveFine(migration', target', w, p)
  BY <1>1, <1>6 DEF MoveFine, LoopFine
<1>8. /\ migration' \in MigrationState /\ stored' \in MigrationState
      /\ source' \in [Items -> Content] /\ troubles' \in 0..Troubles
  BY <1>1, Typed
<1>9. ASSUME NEW q \in Plans, NEW j \in Items
      PROVE  ItemFine(migration', target', q, j) /\ ItemFine(stored', target', q, j)
  <2>1. ItemFine(migration, target, q, j) /\ ItemFine(stored, target, q, j)
    BY DEF MoveInv, ItemsFine
  <2> QED
    BY <1>1, <1>3, <2>1, ItemKept
<1>10. \A q \in Plans :
         /\ stored'.plan[q].status = migration'.plan[q].status
         /\ migration.plan[q].status # "none" => migration'.plan[q].status # "none"
  BY <1>1 DEF MoveInv, SameStatus
<1>11. \A j \in Items : /\ source'[j] \in Of(j) \cup {Nothing}
                        /\ source'[j] = Nothing => source[j] = Nothing
  BY <1>1 DEF MoveInv, SourceFine
<1>12. /\ target' \in [Targets -> Content] /\ MoveKeeps(target, target')
       /\ \A at \in Targets : PlaceFine(migration, target', at)
  BY <1>3
<1> QED
  BY <1>5, <1>7, <1>8, <1>9, <1>10, <1>11, <1>12, PlanStep

(* A call of the copy fails, before or after it was carried out.           *)
LEMMA CopyFailsStep ==
  ASSUME Apart, MoveInv, NEW p \in Plans, CopyFails(p)
  PROVE  MoveInv'
<1>1. /\ moving[p].at # "none" /\ moving[p].todo # {} /\ Interrupt(p) /\ UNCHANGED source
      /\ target' = target \/ target' = [target EXCEPT ![Place(p)] = Sum(p)]
  BY DEF CopyFails
<1>2. troubles' \in 0..Troubles
  <2>1. troubles > 0 /\ troubles' = troubles - 1 /\ troubles \in 0..Troubles /\ Troubles \in Nat
    BY Typed, MigrationAssumption DEF CopyFails, Trouble
  <2> QED
    BY <2>1
<1>3. CASE target' = target
  BY <1>1, <1>2, <1>3, InterruptStep
<1>4. CASE target' = [target EXCEPT ![Place(p)] = Sum(p)]
  <2>1. PICK t : t = [target EXCEPT ![Place(p)] = Sum(p)]
    OBVIOUS
  <2>2. /\ t \in [Targets -> Content] /\ MoveKeeps(target, t) /\ target' = t
        /\ \A at \in Targets : PlaceFine(migration, t, at)
    BY <1>1, <1>4, <2>1, WriteFine
  <2>3. PICK n : n = SetPlan(p, "interrupted")
    OBVIOUS
  <2>4. n = [migration EXCEPT !.plan[p].status = "interrupted"]
    BY <2>3 DEF SetPlan
  <2>5. migration' = n /\ stored' = n /\ moving' = [moving EXCEPT ![p] = Still]
    BY <1>1, <2>3 DEF Interrupt, SaveState
  <2>6. migration.plan[p].status # "none"
    BY <1>1, Current
  <2>7. /\ n \in MigrationState
        /\ \A q \in Plans : migration.plan[q].status # "none" => n.plan[q].status # "none"
        /\ \A q \in Plans, j \in Items : ItemFine(n, target, q, j)
    BY <2>4, <2>6, StatusFine
  <2>8. \A q \in Plans, j \in Items : ItemFine(n, t, q, j)
    BY <2>2, <2>7, ItemKept
  <2>9. Still \in Moving /\ MoveFine(n, t, Still, p)
    BY DEF Still, Moving, MoveFine, LoopFine
  <2>10. /\ migration' \in MigrationState /\ stored' \in MigrationState
         /\ source' \in [Items -> Content] /\ target' \in [Targets -> Content]
         /\ MoveKeeps(target, target') /\ \A at \in Targets : PlaceFine(migration, target', at)
    BY <1>1, <2>2, <2>5, <2>7, Typed
  <2>11. \A q \in Plans, j \in Items :
           ItemFine(migration', target', q, j) /\ ItemFine(stored', target', q, j)
    BY <2>2, <2>5, <2>8
  <2>12. \A q \in Plans :
           /\ stored'.plan[q].status = migration'.plan[q].status
           /\ migration.plan[q].status # "none" => migration'.plan[q].status # "none"
    BY <2>5, <2>7
  <2>13. \A j \in Items : /\ source'[j] \in Of(j) \cup {Nothing}
                          /\ source'[j] = Nothing => source[j] = Nothing
    BY <1>1 DEF MoveInv, SourceFine
  <2>14. MoveFine(migration', target', Still, p)
    BY <2>2, <2>5, <2>9
  <2> QED
    BY <1>2, <2>5, <2>9, <2>10, <2>11, <2>12, <2>13, <2>14, PlanStep
<1> QED
  BY <1>1, <1>3, <1>4

(* A source is deleted while the loop knows it in the storage.             *)
LEMMA DeletedFine ==
  ASSUME MoveInv, NEW p \in Plans, moving[p].at = "delete",
         NEW s, s = [source EXCEPT ![CurrentItem(p)] = Nothing]
  PROVE  /\ s \in [Items -> Content]
         /\ \A j \in Items :
              /\ s[j] \in Of(j) \cup {Nothing}
              /\ s[j] = Nothing =>
                   source[j] = Nothing \/ \E q \in Plans : target[Dest[q][j]] \in Of(j)
<1>1. moving[p].todo # {} /\ \A i \in moving[p].todo : target[Dest[p][i]] \in Of(i)
  BY DEF MoveInv, MovingFine, MoveFine, LoopFine
<1>2. PICK i \in Items : i = CurrentItem(p) /\ i \in moving[p].todo
  BY <1>1, Current
<1>3. target[Dest[p][i]] \in Of(i) /\ source \in [Items -> Content] /\ Nothing \in Content
  BY <1>1, <1>2, Typed DEF Content
<1>4. \A j \in Items : source[j] \in Of(j) \cup {Nothing}
  BY DEF MoveInv, SourceFine
<1>5. /\ s \in [Items -> Content] /\ s[i] = Nothing
      /\ \A j \in Items : j # i => s[j] = source[j]
  BY <1>2, <1>3
<1> QED
  BY <1>3, <1>4, <1>5

LEMMA DeleteSourceStep ==
  ASSUME Apart, MoveInv, NEW p \in Plans, DeleteSource(p)
  PROVE  MoveInv'
<1>1. /\ moving[p].at = "delete" /\ moving[p].todo # {} /\ NextItem(p, "again")
      /\ source' = [source EXCEPT ![CurrentItem(p)] = Nothing]
      /\ SaveState(Mark(p, "deleted")) /\ UNCHANGED <<target, troubles>>
  BY DEF DeleteSource, MovingAt, MoveInv, MovingFine, MoveFine, LoopFine
<1>2. PICK s : s = [source EXCEPT ![CurrentItem(p)] = Nothing]
  OBVIOUS
<1>3. /\ s \in [Items -> Content] /\ source' = s
      /\ \A j \in Items :
           /\ s[j] \in Of(j) \cup {Nothing}
           /\ s[j] = Nothing =>
                source[j] = Nothing \/ \E q \in Plans : target[Dest[q][j]] \in Of(j)
  BY <1>1, <1>2, DeletedFine
<1>4. PICK i \in Items : i = CurrentItem(p) /\ Sole(p, i)
  BY <1>1, Current
<1>5. PICK n : n = Mark(p, "deleted")
  OBVIOUS
<1>6. n = Marked(migration, p, i, "deleted") /\ "deleted" \in ItemStatus
  BY <1>4, <1>5 DEF Mark, Marked, ItemStatus
<1>7. /\ n \in MigrationState
      /\ \A q \in Plans : n.plan[q].status = migration.plan[q].status
      /\ \A q \in Plans, j \in Items : ItemFine(n, target, q, j)
  BY <1>4, <1>6, MarkFine
<1>8. migration' = n /\ stored' = n
  BY <1>1, <1>5 DEF SaveState
<1>9. PICK w : w = After(p, "again")
  OBVIOUS
<1>10. w \in Moving /\ moving' = [moving EXCEPT ![p] = w] /\ LoopFine(target, w, p)
  BY <1>1, <1>9, LoopGoesOn
<1>11. migration.plan[p].status # "none"
  BY <1>1, Current
<1>12. MoveFine(n, target, w, p)
  BY <1>7, <1>10, <1>11 DEF MoveFine
<1>13. /\ migration' \in MigrationState /\ stored' \in MigrationState
       /\ source' \in [Items -> Content] /\ target' \in [Targets -> Content]
       /\ troubles' \in 0..Troubles
  BY <1>1, <1>3, <1>7, <1>8, Typed
<1>14. MoveKeeps(target, target')
  BY <1>1 DEF MoveKeeps
<1>15. \A at \in Targets : PlaceFine(migration, target', at)
  BY <1>1 DEF MoveInv, TargetFine
<1>16. \A q \in Plans, j \in Items :
         ItemFine(migration', target', q, j) /\ ItemFine(stored', target', q, j)
  BY <1>1, <1>7, <1>8
<1>17. \A q \in Plans :
         /\ stored'.plan[q].status = migration'.plan[q].status
         /\ migration.plan[q].status # "none" => migration'.plan[q].status # "none"
  BY <1>7, <1>8
<1>18. MoveFine(migration', target', w, p)
  BY <1>1, <1>8, <1>12
<1>19. \A j \in Items :
         /\ source'[j] \in Of(j) \cup {Nothing}
         /\ source'[j] = Nothing =>
              source[j] = Nothing \/ \E q \in Plans : target[Dest[q][j]] \in Of(j)
  BY <1>3
<1> QED
  BY <1>10, <1>13, <1>14, <1>15, <1>16, <1>17, <1>18, <1>19, PlanStep

LEMMA DeleteFailsStep ==
  ASSUME Apart, MoveInv, NEW p \in Plans, DeleteFails(p)
  PROVE  MoveInv'
<1>1. /\ moving[p].at # "none" /\ moving[p].todo # {}
      /\ moving' = [moving EXCEPT ![p] = Still]
      /\ UNCHANGED <<target, migration, stored>>
      /\ \/ source' = source
         \/ moving[p].at = "delete" /\ source' = [source EXCEPT ![CurrentItem(p)] = Nothing]
  BY DEF DeleteFails, MovingAt
<1>2. troubles' \in 0..Troubles
  <2>1. troubles > 0 /\ troubles' = troubles - 1 /\ troubles \in 0..Troubles /\ Troubles \in Nat
    BY Typed, MigrationAssumption DEF DeleteFails, Trouble
  <2> QED
    BY <2>1
<1>3. Still \in Moving /\ LoopFine(target, Still, p)
  BY <1>1, LoopGoesOn
<1>4. CASE source' = source
  BY <1>1, <1>2, <1>3, <1>4, UnmarkedStep
<1>5. CASE moving[p].at = "delete" /\ source' = [source EXCEPT ![CurrentItem(p)] = Nothing]
  <2>1. PICK s : s = [source EXCEPT ![CurrentItem(p)] = Nothing]
    OBVIOUS
  <2>2. /\ s \in [Items -> Content] /\ source' = s
        /\ \A j \in Items :
             /\ s[j] \in Of(j) \cup {Nothing}
             /\ s[j] = Nothing =>
                  source[j] = Nothing \/ \E q \in Plans : target[Dest[q][j]] \in Of(j)
    BY <1>5, <2>1, DeletedFine
  <2>3. /\ migration' \in MigrationState /\ stored' \in MigrationState
        /\ source' \in [Items -> Content] /\ target' \in [Targets -> Content]
    BY <1>1, <2>2, Typed
  <2>4. MoveKeeps(target, target')
    BY <1>1 DEF MoveKeeps
  <2>5. \A at \in Targets : PlaceFine(migration, target', at)
    BY <1>1 DEF MoveInv, TargetFine
  <2>6. \A q \in Plans, j \in Items :
          ItemFine(migration', target', q, j) /\ ItemFine(stored', target', q, j)
    BY <1>1 DEF MoveInv, ItemsFine
  <2>7. \A q \in Plans :
          /\ stored'.plan[q].status = migration'.plan[q].status
          /\ migration.plan[q].status # "none" => migration'.plan[q].status # "none"
    BY <1>1 DEF MoveInv, SameStatus
  <2>8. MoveFine(migration', target', Still, p)
    BY DEF MoveFine, LoopFine, Still
  <2>9. \A j \in Items :
          /\ source'[j] \in Of(j) \cup {Nothing}
          /\ source'[j] = Nothing =>
               source[j] = Nothing \/ \E q \in Plans : target[Dest[q][j]] \in Of(j)
    BY <2>2
  <2> QED
    BY <1>1, <1>2, <1>3, <2>3, <2>4, <2>5, <2>6, <2>7, <2>8, <2>9, PlanStep
<1> QED
  BY <1>1, <1>4, <1>5

(* An edit changes what a source holds, not whose it is.                   *)
LEMMA EditSourceStep ==
  ASSUME MoveInv, NEW i \in Items, EditSource(i)
  PROVE  MoveInv'
<1>1. /\ source[i] # Nothing /\ source' = [source EXCEPT ![i] = -i]
      /\ UNCHANGED <<target, migration, stored, moving>>
      /\ troubles > 0 /\ troubles' = troubles - 1
  BY DEF EditSource, Trouble
<1>2. troubles' \in 0..Troubles
  <2>1. troubles \in 0..Troubles /\ Troubles \in Nat
    BY MigrationAssumption DEF MoveInv, MigrationTypeOK
  <2> QED
    BY <1>1, <2>1
<1>3. source \in [Items -> Content] /\ -i \in Of(i) /\ Of(i) \subseteq Content /\ Nothing \notin Of(i)
  BY OfApart DEF MoveInv, MigrationTypeOK, Of
<1>4. /\ source' \in [Items -> Content] /\ source'[i] \in Of(i)
      /\ \A j \in Items : j # i => source'[j] = source[j]
  BY <1>1, <1>3
<1>5. SourceFine' /\ \A j \in Items : source'[j] = Nothing => source[j] = Nothing
  BY <1>3, <1>4 DEF MoveInv, SourceFine
<1>6. DeletedIsStored'
  BY <1>1, <1>5 DEF MoveInv, DeletedIsStored
<1>7. TargetFine' /\ ItemsFine' /\ SameStatus' /\ MovingFine'
  BY <1>1 DEF MoveInv, TargetFine, ItemsFine, SameStatus, MovingFine
<1>8. MigrationTypeOK'
  BY <1>1, <1>2, <1>4 DEF MoveInv, MigrationTypeOK
<1> QED
  BY <1>5, <1>6, <1>7, <1>8 DEF MoveInv

(* The file has every plan and what was verified: a restart loses nothing  *)
(* that a deletion needs.                                                  *)
LEMMA RestartServerStep ==
  ASSUME MoveInv, RestartServer
  PROVE  MoveInv'
<1>1. /\ migration' = stored /\ moving' = [p \in Plans |-> Still]
      /\ UNCHANGED <<source, target, stored>>
      /\ troubles > 0 /\ troubles' = troubles - 1
  BY DEF RestartServer, Trouble
<1>2. troubles' \in 0..Troubles
  <2>1. troubles \in 0..Troubles /\ Troubles \in Nat
    BY MigrationAssumption DEF MoveInv, MigrationTypeOK
  <2> QED
    BY <1>1, <2>1
<1>3. Still \in Moving
  BY DEF Still, Moving
<1>4. MigrationTypeOK'
  BY <1>1, <1>2, <1>3 DEF MoveInv, MigrationTypeOK
<1>5. TargetFine'
  BY <1>1 DEF MoveInv, TargetFine, PlaceFine, SameStatus
<1>6. ItemsFine' /\ SameStatus' /\ SourceFine' /\ DeletedIsStored'
  BY <1>1 DEF MoveInv, ItemsFine, SameStatus, SourceFine, DeletedIsStored
<1>7. MovingFine'
  BY <1>1 DEF MovingFine, MoveFine, LoopFine, Still
<1> QED
  BY <1>4, <1>5, <1>6, <1>7 DEF MoveInv

LEMMA MigrationInitial == MigrationInit => MoveInv
<1> SUFFICES ASSUME MigrationInit PROVE MoveInv
  OBVIOUS
<1>1. /\ source = [i \in Items |-> i] /\ target = [t \in Targets |-> Nothing]
      /\ migration = [plan |-> [p \in Plans |-> NoPlan], managed |-> [i \in Items |-> Nothing]]
      /\ stored = migration /\ moving = [p \in Plans |-> Still] /\ troubles = Troubles
  BY DEF MigrationInit
<1>2. NoPlan \in MigrationPlan /\ NoPlan.status = "none"
  BY DEF NoPlan, MigrationPlan, MigrationItem, Content
<1>3. migration \in MigrationState /\ \A p \in Plans : migration.plan[p].status = "none"
  BY <1>1, <1>2 DEF MigrationState
<1>4. Still \in Moving
  BY DEF Still, Moving
<1>5. MigrationTypeOK
  BY <1>1, <1>3, <1>4, MigrationAssumption DEF MigrationTypeOK, MigrationState, Content
<1>6. SourceFine /\ TargetFine
  BY <1>1 DEF SourceFine, TargetFine, PlaceFine, Of
<1>7. ItemsFine /\ SameStatus
  BY <1>1, <1>3 DEF ItemsFine, ItemFine, SameStatus
<1>8. MovingFine
  BY <1>1 DEF MovingFine, MoveFine, LoopFine, Still
<1>9. DeletedIsStored
  BY <1>1, MigrationAssumption DEF DeletedIsStored
<1> QED
  BY <1>5, <1>6, <1>7, <1>8, <1>9 DEF MoveInv

LEMMA MigrationStep == Apart /\ MoveInv /\ [MigrationNext]_migrationVars => MoveInv'
<1> SUFFICES ASSUME Apart, MoveInv, [MigrationNext]_migrationVars PROVE MoveInv'
  OBVIOUS
<1>1. ASSUME NEW p \in Plans,
             DryRun(p) \/ StartCopy(p) \/ CopySteps(p) \/ CopyFails(p)
             \/ DeleteVerified(p) \/ DeleteSteps(p) \/ DeleteFails(p)
      PROVE  MoveInv'
  BY <1>1, DryRunStep, StartCopyStep, ReadSourceStep, ReadTargetStep, PublishFileStep,
     CheckTargetStep, OverStep, CopyFailsStep, DeleteVerifiedStep, ReadAgainStep,
     DeleteSourceStep, DeleteFailsStep DEF CopySteps, DeleteSteps
<1>2. CASE UNCHANGED migrationVars
  BY <1>2 DEF migrationVars, MoveInv, MigrationTypeOK, SourceFine, TargetFine, ItemsFine,
     SameStatus, MovingFine, DeletedIsStored
<1> QED
  BY <1>1, <1>2, EditSourceStep, RestartServerStep DEF MigrationNext

(* The types alone do not need Apart: an item in progress is one of the    *)
(* loop.                                                                   *)
InProgress(w) == w.at \in {"target", "publish", "check", "delete"} => w.todo # {}
MoveTypes == MigrationTypeOK /\ \A p \in Plans : InProgress(moving[p])

LEMMA TypedItem ==
  ASSUME MoveTypes, NEW p \in Plans
  PROVE  /\ moving[p].todo # {} =>
              /\ CurrentItem(p) \in Items /\ Place(p) \in Targets /\ Sum(p) \in Content
              /\ \A s \in ItemStatus : Mark(p, s) \in MigrationState
         /\ \A s \in {"ready", "copying", "interrupted", "copied", "deleting", "complete"} :
              SetPlan(p, s) \in MigrationState
<1>1. /\ migration \in MigrationState /\ moving[p].todo \subseteq Items
      /\ \A i \in Items : migration.plan[p].item[i] \in MigrationItem /\ Dest[p][i] \in Targets
  BY TypesOf DEF MoveTypes
<1>2. ASSUME moving[p].todo # {}
      PROVE  CurrentItem(p) \in Items
  BY <1>1, <1>2, LeastItem DEF CurrentItem
<1>3. ASSUME moving[p].todo # {}
      PROVE  Place(p) \in Targets /\ Sum(p) \in Content
  BY <1>1, <1>2, <1>3 DEF Place, Sum, PlanOf, MigrationItem
<1>4. ASSUME moving[p].todo # {}, NEW s \in ItemStatus
      PROVE  Mark(p, s) \in MigrationState
  <2>1. PICK i \in Items : i = CurrentItem(p)
    BY <1>2, <1>4
  <2>2. PICK n : n = Marked(migration, p, i, s)
    OBVIOUS
  <2>3. n \in MigrationState
    BY <1>1, <2>2, MarkShape
  <2> QED
    BY <2>1, <2>2, <2>3 DEF Mark, Marked
<1>5. ASSUME NEW s \in {"ready", "copying", "interrupted", "copied", "deleting", "complete"}
      PROVE  SetPlan(p, s) \in MigrationState
  BY <1>1, StatusShape DEF SetPlan
<1> QED
  BY <1>2, <1>3, <1>4, <1>5

(* A step of one plan.                                                     *)
LEMMA TypedStep ==
  ASSUME MoveTypes, NEW p \in Plans,
         migration' \in MigrationState, stored' \in MigrationState,
         source' \in [Items -> Content], target' \in [Targets -> Content],
         troubles' \in 0..Troubles,
         NEW w \in Moving, InProgress(w), moving' = [moving EXCEPT ![p] = w]
  PROVE  MoveTypes'
<1>1. moving \in [Plans -> Moving] /\ \A q \in Plans : InProgress(moving[q])
  BY DEF MoveTypes, MigrationTypeOK
<1>2. /\ moving' \in [Plans -> Moving] /\ moving'[p] = w
      /\ \A q \in Plans : q # p => moving'[q] = moving[q]
  BY <1>1
<1>3. \A q \in Plans : InProgress(moving'[q])
  BY <1>1, <1>2
<1>4. MigrationTypeOK'
  BY <1>2 DEF MigrationTypeOK, MigrationState
<1> QED
  BY <1>3, <1>4 DEF MoveTypes

(* Where the loop of a plan stands after a step.                           *)
LEMMA TypedLoop ==
  ASSUME MoveTypes, NEW p \in Plans
  PROVE  /\ \A at \in {"source", "again"} :
              NextItem(p, at) => \E w \in Moving : InProgress(w) /\ moving' = [moving EXCEPT ![p] = w]
         /\ \A at \in {"target", "publish", "check", "delete"} :
              MoveOn(p, at) /\ moving[p].todo # {} =>
                \E w \in Moving : InProgress(w) /\ moving' = [moving EXCEPT ![p] = w]
         /\ moving' = [moving EXCEPT ![p] = Still] \/ moving' = moving =>
              \E w \in Moving : InProgress(w) /\ moving' = [moving EXCEPT ![p] = w]
<1>1. moving \in [Plans -> Moving] /\ moving[p] \in Moving /\ InProgress(moving[p])
  BY DEF MoveTypes, MigrationTypeOK
<1>2. ASSUME NEW at \in {"source", "again"}, NextItem(p, at)
      PROVE  \E w \in Moving : InProgress(w) /\ moving' = [moving EXCEPT ![p] = w]
  <2>1. PICK w : w = [at |-> at, todo |-> moving[p].todo \ {CurrentItem(p)}]
    OBVIOUS
  <2>2. w \in Moving /\ InProgress(w)
    BY <1>1, <2>1 DEF Moving, InProgress
  <2> QED
    BY <1>1, <1>2, <2>1, <2>2 DEF NextItem
<1>3. ASSUME NEW at \in {"target", "publish", "check", "delete"}, MoveOn(p, at), moving[p].todo # {}
      PROVE  \E w \in Moving : InProgress(w) /\ moving' = [moving EXCEPT ![p] = w]
  <2>1. PICK w : w = [moving[p] EXCEPT !.at = at]
    OBVIOUS
  <2>2. w \in Moving /\ InProgress(w)
    BY <1>1, <1>3, <2>1 DEF Moving, InProgress
  <2> QED
    BY <1>1, <1>3, <2>1, <2>2 DEF MoveOn
<1>4. Still \in Moving /\ InProgress(Still)
  BY DEF Still, Moving, InProgress
<1>5. moving' = moving => moving' = [moving EXCEPT ![p] = moving[p]]
  BY <1>1
<1> QED
  BY <1>1, <1>2, <1>3, <1>4, <1>5

(* copy() and deleteVerified() read and write single files.                *)
LEMMA TypedCopy ==
  ASSUME MoveTypes, NEW p \in Plans, CopySteps(p) \/ CopyFails(p)
  PROVE  MoveTypes'
<1> DEFINE Loops == \E w \in Moving : InProgress(w) /\ moving' = [moving EXCEPT ![p] = w]
<1>1. /\ migration \in MigrationState /\ stored \in MigrationState /\ troubles \in 0..Troubles
      /\ source \in [Items -> Content] /\ target \in [Targets -> Content]
      /\ InProgress(moving[p])
  BY TypesOf DEF MoveTypes
<1>2. /\ \A at \in {"source", "again"} : NextItem(p, at) => Loops
      /\ \A at \in {"target", "publish", "check", "delete"} :
           MoveOn(p, at) /\ moving[p].todo # {} => Loops
      /\ moving' = [moving EXCEPT ![p] = Still] \/ moving' = moving => Loops
  BY TypedLoop
<1>3. /\ moving[p].todo # {} =>
           /\ CurrentItem(p) \in Items /\ Place(p) \in Targets /\ Sum(p) \in Content
           /\ \A s \in ItemStatus : Mark(p, s) \in MigrationState
      /\ \A s \in {"interrupted", "copied"} : SetPlan(p, s) \in MigrationState
  BY TypedItem
<1>4. SUFFICES /\ migration' \in MigrationState /\ stored' \in MigrationState
               /\ source' \in [Items -> Content] /\ target' \in [Targets -> Content]
               /\ troubles' \in 0..Troubles /\ Loops
  BY TypedStep
<1> HIDE DEF Loops
<1>5. {"source-changed", "verified", "copying", "conflict", "failed"} \subseteq ItemStatus
  BY DEF ItemStatus
<1>6. ASSUME Interrupt(p)
      PROVE  migration' \in MigrationState /\ stored' \in MigrationState /\ Loops
  BY <1>2, <1>3, <1>6 DEF Interrupt, SaveState
<1>7. ASSUME Verified(p), moving[p].todo # {}
      PROVE  migration' \in MigrationState /\ stored' \in MigrationState /\ Loops
  <2>1. PICK m : m = Mark(p, "verified")
    OBVIOUS
  <2>2. m \in MigrationState
    BY <1>3, <1>5, <1>7, <2>1
  <2>3. PICK place : place = IF m.managed[CurrentItem(p)] = Nothing THEN Place(p)
                                                                    ELSE m.managed[CurrentItem(p)]
    OBVIOUS
  <2>4. place \in Targets \cup {Nothing}
    BY <1>3, <1>7, <2>2, <2>3 DEF MigrationState
  <2>5. [m EXCEPT !.managed[CurrentItem(p)] = place] \in MigrationState
    BY <2>2, <2>4 DEF MigrationState
  <2>6. SaveState([m EXCEPT !.managed[CurrentItem(p)] = place]) /\ NextItem(p, "source")
    BY <1>7, <2>1, <2>3 DEF Verified
  <2> QED
    BY <1>2, <2>5, <2>6 DEF SaveState
<1>8. ASSUME NEW s \in ItemStatus, moving[p].todo # {},
             SaveState(Mark(p, s)) \/ KeepState(Mark(p, s))
      PROVE  migration' \in MigrationState /\ stored' \in MigrationState
  BY <1>1, <1>3, <1>8 DEF SaveState, KeepState
<1>9. ASSUME moving[p].todo # {}
      PROVE  [target EXCEPT ![Place(p)] = Sum(p)] \in [Targets -> Content]
  BY <1>1, <1>3, <1>9
<1>10. CASE ReadSource(p)
  <2>1. moving[p].todo # {} /\ UNCHANGED <<source, target, troubles>>
    BY <1>10 DEF ReadSource
  <2>2. \/ Interrupt(p)
        \/ MoveOn(p, "target") /\ UNCHANGED <<migration, stored>>
        \/ KeepState(Mark(p, "source-changed")) /\ NextItem(p, "source")
    BY <1>10 DEF ReadSource
  <2> QED
    BY <1>1, <1>2, <1>5, <1>6, <1>8, <2>1, <2>2
<1>11. CASE ReadTarget(p)
  <2>1. moving[p].todo # {} /\ UNCHANGED <<source, target, troubles>>
    BY <1>1, <1>11 DEF ReadTarget, MovingAt, InProgress
  <2>2. \/ Verified(p)
        \/ SaveState(Mark(p, "copying")) /\ MoveOn(p, "publish")
        \/ KeepState(Mark(p, "conflict")) /\ NextItem(p, "source")
    BY <1>11 DEF ReadTarget
  <2> QED
    BY <1>1, <1>2, <1>5, <1>7, <1>8, <2>1, <2>2
<1>12. CASE PublishFile(p)
  <2>1. moving[p].todo # {}
    BY <1>1, <1>12 DEF PublishFile, MovingAt, InProgress
  <2> QED
    BY <1>1, <1>2, <1>9, <1>12, <2>1 DEF PublishFile
<1>13. CASE CheckTarget(p)
  <2>1. moving[p].todo # {} /\ UNCHANGED <<source, target, troubles>>
    BY <1>1, <1>13 DEF CheckTarget, MovingAt, InProgress
  <2>2. Verified(p) \/ (SaveState(Mark(p, "failed")) /\ NextItem(p, "source"))
    BY <1>13 DEF CheckTarget
  <2> QED
    BY <1>1, <1>2, <1>5, <1>7, <1>8, <2>1, <2>2
<1>14. CASE Copied(p)
  BY <1>1, <1>2, <1>3, <1>14 DEF Copied, SaveState
<1>15. CASE CopyFails(p)
  <2>1. troubles' \in 0..Troubles
    BY <1>1, <1>15, MigrationAssumption DEF CopyFails, Trouble
  <2>2. target' \in [Targets -> Content] /\ source' = source /\ Interrupt(p)
    BY <1>1, <1>9, <1>15 DEF CopyFails
  <2> QED
    BY <1>1, <1>6, <2>1, <2>2
<1> QED
  BY <1>10, <1>11, <1>12, <1>13, <1>14, <1>15 DEF CopySteps

LEMMA TypedDelete ==
  ASSUME MoveTypes, NEW p \in Plans,
         DryRun(p) \/ StartCopy(p) \/ DeleteVerified(p) \/ DeleteSteps(p) \/ DeleteFails(p)
  PROVE  MoveTypes'
<1> DEFINE Loops == \E w \in Moving : InProgress(w) /\ moving' = [moving EXCEPT ![p] = w]
<1>1. /\ migration \in MigrationState /\ stored \in MigrationState /\ troubles \in 0..Troubles
      /\ source \in [Items -> Content] /\ target \in [Targets -> Content]
      /\ moving \in [Plans -> Moving] /\ InProgress(moving[p]) /\ Nothing \in Content
  BY TypesOf DEF MoveTypes, Content
<1>2. /\ \A at \in {"source", "again"} : NextItem(p, at) => Loops
      /\ \A at \in {"target", "publish", "check", "delete"} :
           MoveOn(p, at) /\ moving[p].todo # {} => Loops
      /\ moving' = [moving EXCEPT ![p] = Still] \/ moving' = moving => Loops
  BY TypedLoop
<1>3. /\ moving[p].todo # {} =>
           /\ CurrentItem(p) \in Items /\ \A s \in ItemStatus : Mark(p, s) \in MigrationState
      /\ \A s \in {"copying", "deleting", "complete"} : SetPlan(p, s) \in MigrationState
  BY TypedItem
<1>4. SUFFICES /\ migration' \in MigrationState /\ stored' \in MigrationState
               /\ source' \in [Items -> Content] /\ target' \in [Targets -> Content]
               /\ troubles' \in 0..Troubles /\ Loops
  BY TypedStep
<1>5. ASSUME NEW at \in {"source", "again"}, NEW S \in SUBSET Items,
             moving' = [moving EXCEPT ![p] = [at |-> at, todo |-> S]]
      PROVE  Loops
  <2>1. [at |-> at, todo |-> S] \in Moving /\ InProgress([at |-> at, todo |-> S])
    BY DEF Moving, InProgress
  <2> QED
    BY <1>5, <2>1
<1> HIDE DEF Loops
<1>6. CASE DryRun(p)
  <2>1. PICK ok : ok \subseteq Items /\ SaveState([migration EXCEPT !.plan[p] =
          [status |-> "ready", item |-> [i \in Items |->
             [status |-> IF i \in ok THEN "planned" ELSE "conflict", sum |-> source[i]]]]])
    <3> DEFINE fine == {i \in Items : \/ target[Dest[p][i]] = source[i]
                          \/ /\ target[Dest[p][i]] = Nothing
                             /\ ~\E j \in Items : j < i /\ Dest[p][j] = Dest[p][i]}
    <3>1. \A i \in Items : i \in fine <=>
                          \/ target[Dest[p][i]] = source[i]
                          \/ /\ target[Dest[p][i]] = Nothing
                             /\ ~\E j \in Items : j < i /\ Dest[p][j] = Dest[p][i]
      OBVIOUS
    <3>2. fine \subseteq Items
      OBVIOUS
    <3> HIDE DEF fine
    <3> QED
      BY <1>6, <3>1, <3>2 DEF DryRun
  <2>2. PICK item : item = [i \in Items |->
             [status |-> IF i \in ok THEN "planned" ELSE "conflict", sum |-> source[i]]]
    OBVIOUS
  <2>3. item \in [Items -> MigrationItem]
    BY <1>1, <2>2 DEF MigrationItem
  <2>4. PICK plan : plan = [status |-> "ready", item |-> item]
    OBVIOUS
  <2>5. plan \in MigrationPlan
    BY <2>3, <2>4 DEF MigrationPlan
  <2>6. [migration EXCEPT !.plan[p] = plan] \in MigrationState
    BY <1>1, <2>5 DEF MigrationState
  <2>7. SaveState([migration EXCEPT !.plan[p] = plan])
    BY <2>1, <2>2, <2>4
  <2> QED
    BY <1>1, <1>2, <1>6, <2>6, <2>7 DEF DryRun, SaveState
<1>7. CASE StartCopy(p)
  <2>1. Loops
    BY <1>5, <1>7 DEF StartCopy
  <2> QED
    BY <1>1, <1>3, <1>7, <2>1 DEF StartCopy, SaveState
<1>8. CASE DeleteVerified(p)
  <2>1. Loops
    BY <1>5, <1>8 DEF DeleteVerified
  <2> QED
    BY <1>1, <1>3, <1>8, <2>1 DEF DeleteVerified, SaveState
<1>9. CASE ReadAgain(p)
  <2>1. Loops
    BY <1>2, <1>9 DEF ReadAgain
  <2> QED
    BY <1>1, <1>9, <2>1 DEF ReadAgain
<1>10. CASE DeleteSource(p)
  <2>1. moving[p].todo # {} /\ "deleted" \in ItemStatus
    BY <1>1, <1>10 DEF DeleteSource, MovingAt, InProgress, ItemStatus
  <2>2. source' \in [Items -> Content]
    BY <1>1, <1>10 DEF DeleteSource
  <2> QED
    BY <1>1, <1>2, <1>3, <1>10, <2>1, <2>2 DEF DeleteSource, SaveState
<1>11. CASE DeletesOver(p)
  BY <1>1, <1>2, <1>3, <1>11 DEF DeletesOver, SaveState
<1>12. CASE DeleteFails(p)
  <2>1. troubles' \in 0..Troubles
    BY <1>1, <1>12, MigrationAssumption DEF DeleteFails, Trouble
  <2>2. source' \in [Items -> Content]
    BY <1>1, <1>12 DEF DeleteFails
  <2> QED
    BY <1>1, <1>2, <1>12, <2>1, <2>2 DEF DeleteFails
<1> QED
  BY <1>6, <1>7, <1>8, <1>9, <1>10, <1>11, <1>12 DEF DeleteSteps

(* Plans, files and what copy() and deleteVerified() do stay of their      *)
(* types, wherever the plans put their files.                              *)
THEOREM MigrationTypeCorrect == MigrationSpec => []MigrationTypeOK
<1>1. MigrationInit => MoveTypes
  <2>1. MigrationInit => \A p \in Plans : InProgress(moving[p])
    BY DEF MigrationInit, Still, InProgress
  <2> QED
    BY <2>1, MigrationInitial DEF MoveInv, MoveTypes
<1>2. MoveTypes /\ [MigrationNext]_migrationVars => MoveTypes'
  <2> SUFFICES ASSUME MoveTypes, [MigrationNext]_migrationVars PROVE MoveTypes'
    OBVIOUS
  <2>1. ASSUME NEW i \in Items, EditSource(i) PROVE MoveTypes'
    <3>1. source' \in [Items -> Content] /\ troubles' \in 0..Troubles
      BY <2>1, MigrationAssumption DEF EditSource, Trouble, MoveTypes, MigrationTypeOK, Content
    <3> QED
      BY <2>1, <3>1 DEF EditSource, MoveTypes, MigrationTypeOK
  <2>2. CASE RestartServer
    <3>1. troubles' \in 0..Troubles
      BY <2>2, MigrationAssumption DEF RestartServer, Trouble, MoveTypes, MigrationTypeOK
    <3>2. Still \in Moving /\ InProgress(Still)
      BY DEF Still, Moving, InProgress
    <3>3. moving' \in [Plans -> Moving] /\ \A p \in Plans : InProgress(moving'[p])
      BY <2>2, <3>2 DEF RestartServer
    <3> QED
      BY <2>2, <3>1, <3>3 DEF RestartServer, MoveTypes, MigrationTypeOK
  <2>3. CASE UNCHANGED migrationVars
    BY <2>3 DEF migrationVars, MoveTypes, MigrationTypeOK
  <2> QED
    BY <2>1, <2>2, <2>3, TypedCopy, TypedDelete DEF MigrationNext
<1>3. MoveTypes => MigrationTypeOK
  BY DEF MoveTypes
<1> QED
  BY <1>1, <1>2, <1>3, PTL DEF MigrationSpec

(* A source is deleted only while what was read in it is in the storage,   *)
(* for any plans, items, failed calls, restarts and edits, while no two    *)
(* plans put different sources at one place.  Without that condition it is *)
(* not so: the run vmove shows how.                                        *)
THEOREM DeletedStored == Apart => (MigrationSpec => []DeletedIsStored)
<1> SUFFICES ASSUME Apart PROVE MigrationSpec => []DeletedIsStored
  OBVIOUS
<1>1. MoveInv /\ [MigrationNext]_migrationVars => MoveInv'
  BY MigrationStep
<1>2. MoveInv => DeletedIsStored
  BY DEF MoveInv
<1> QED
  BY <1>1, <1>2, MigrationInitial, PTL DEF MigrationSpec

-----------------------------------------------------------------------------
(* Storybook servers on one machine.                                       *)

BookWork(s) == s.state \in {"starting", "running"}

(* The lane: one operation at a time, of a book.                           *)
OneLane ==
  /\ \A c, d \in Clients : bookCall[c].at # "idle" /\ bookCall[d].at # "idle" => c = d
  /\ \A c \in Clients : bookCall[c].at # "idle" => bookCall[c].book \in Books

BookAddress(port) == IF port = 0 THEN 1 ELSE port

(* No server at work has the port that is being probed, and the book that  *)
(* may adopt what is there was not stopped.                                *)
ProbeFree ==
  \A c \in Clients : bookCall[c].at = "probe" =>
    \A j \in Books : BookWork(session[j]) => session[j].port # BookAddress(bookCall[c].port)

Saving(c, k) == bookCall[c].at \in {"saveStart", "saveStop"} /\ bookCall[c].book = k

(* The stored wish of a book is its wish, or is about to be.               *)
SavedFollows ==
  \A k \in Books : saved[k] = wish[k] \/ k \in torn \/ \E c \in Clients : Saving(c, k)

(* A server at work is wished for, unless it is being stopped.             *)
WorkWished ==
  \A k \in Books : BookWork(session[k]) =>
    \/ wish[k] = session[k].port
    \/ k \in torn /\ ~\E c \in Clients : bookCall[c].at = "saveStart" /\ bookCall[c].book = k
    \/ \E c \in Clients : bookCall[c].at = "saveStop" /\ bookCall[c].book = k

(* A book that was stopped stays so until it is started again.             *)
HaltedStays ==
  /\ \A k \in halted : wish[k] = 0 /\ saved[k] = 0 /\ ~BookWork(session[k])
  /\ \A c \in Clients :
       /\ bookCall[c].at \in {"probe", "saveStart"} => bookCall[c].book \notin halted
       /\ bookCall[c].at = "saveStop" => wish[bookCall[c].book] = 0

BookInv ==
  /\ BookTypeOK /\ OneLane /\ ProbeFree /\ SavedFollows /\ WorkWished /\ HaltedStays
  /\ PortsApart

(* Sessions that do not start anything: a server at work was at work, and  *)
(* has its port.                                                           *)
BooksCalm(s, t) ==
  \A k \in Books : BookWork(t[k]) => BookWork(s[k]) /\ t[k].port = s[k].port

LEMMA PortRange == AskedPorts \subseteq Nat /\ 0 \in AskedPorts /\ 1 \in AskedPorts
                   /\ 1..LastPort \subseteq AskedPorts
BY BookAssumption DEF AskedPorts

LEMMA LeastPort ==
  ASSUME NEW S \in SUBSET AskedPorts, S # {}
  PROVE  Min(S) \in S
<1>1. S \subseteq Nat
  BY PortRange
<1>2. (CHOOSE x \in S : \A y \in S : x <= y) \in S
  BY <1>1, LeastNumber
<1> QED
  BY <1>2 DEF Min

(* The ends of a session.                                                  *)
LEMMA SessionEnds ==
  /\ NoSession \in Session /\ ~BookWork(NoSession)
  /\ \A s \in Session :
       /\ FailSession(s) \in Session /\ ~BookWork(FailSession(s))
       /\ MarkStopped(s) \in Session /\ ~BookWork(MarkStopped(s))
       /\ EndedSession(s) \in Session /\ ~BookWork(EndedSession(s))
<1>1. NoSession \in Session /\ ~BookWork(NoSession)
  BY PortRange DEF NoSession, Session, BookWork
<1>2. ASSUME NEW s \in Session
      PROVE  /\ FailSession(s) \in Session /\ ~BookWork(FailSession(s))
             /\ MarkStopped(s) \in Session /\ ~BookWork(MarkStopped(s))
  BY DEF FailSession, MarkStopped, Session, BookWork
<1>3. ASSUME NEW s \in Session
      PROVE  EndedSession(s) \in Session /\ ~BookWork(EndedSession(s))
  <2>1. CASE s.state = "starting"
    BY <1>2, <2>1 DEF EndedSession
  <2>2. CASE s.state = "running"
    BY <1>2, <2>2 DEF EndedSession
  <2>3. CASE s.state \notin {"starting", "running"}
    BY <2>3 DEF EndedSession, BookWork
  <2> QED
    BY <2>1, <2>2, <2>3
<1> QED
  BY <1>1, <1>2, <1>3

LEMMA OneCalm ==
  ASSUME NEW s \in [Books -> Session], NEW k \in Books, NEW new \in Session,
         BookWork(new) => BookWork(s[k]) /\ new.port = s[k].port,
         NEW t, t = [s EXCEPT ![k] = new]
  PROVE  t \in [Books -> Session] /\ BooksCalm(s, t)
<1>1. /\ t \in [Books -> Session] /\ t[k] = new /\ \A j \in Books : j # k => t[j] = s[j]
  OBVIOUS
<1> QED
  BY <1>1 DEF BooksCalm

LEMMA CalmTwice ==
  ASSUME NEW s, NEW t, NEW u, BooksCalm(s, t), BooksCalm(t, u)
  PROVE  BooksCalm(s, u)
BY DEF BooksCalm

LEMMA BookTyped ==
  ASSUME BookInv
  PROVE  /\ session \in [Books -> Session] /\ bookCall \in [Clients -> BookCall]
         /\ wish \in [Books -> AskedPorts] /\ saved \in [Books -> AskedPorts]
         /\ shell \in [Shells -> Books \cup {NoBook}]
         /\ \A k \in Books : ShellOf[k] \in Shells
BY BookAssumption DEF BookInv, BookTypeOK

(* A step that starts nothing and is not an operation.                     *)
LEMMA CalmStep ==
  ASSUME BookInv, BookTypeOK', BooksCalm(session, session'),
         UNCHANGED <<wish, saved, bookCall, halted, torn>>
  PROVE  BookInv'
<1>1. \A k \in Books : BookWork(session'[k]) => BookWork(session[k]) /\ session'[k].port = session[k].port
  BY DEF BooksCalm
<1>2. OneLane' /\ SavedFollows'
  BY DEF BookInv, OneLane, SavedFollows, Saving
<1>3. ProbeFree'
  BY <1>1 DEF BookInv, ProbeFree
<1>4. WorkWished'
  BY <1>1 DEF BookInv, WorkWished
<1>5. halted \subseteq Books
  BY DEF BookInv, BookTypeOK
<1>6. HaltedStays'
  BY <1>1, <1>5 DEF BookInv, HaltedStays
<1>7. PortsApart'
  BY <1>1 DEF BookInv, PortsApart, AtWork, BookWork
<1> QED
  BY <1>2, <1>3, <1>4, <1>6, <1>7 DEF BookInv

(* What an operation of client c on book k comes to: nothing, a probe of   *)
(* an address no server has, or a session with a port no server has, and   *)
(* its wish.                                                               *)
BookOutcome(c, k, x, rest) ==
  /\ bookCall' = [bookCall EXCEPT ![c] = x]
  /\ \/ x.at = "idle" /\ UNCHANGED wish /\ session' = rest
     \/ /\ x.at = "probe" /\ x.book = k /\ UNCHANGED wish /\ session' = rest
        /\ \A j \in Books : BookWork(rest[j]) => rest[j].port # BookAddress(x.port)
     \/ /\ x.at = "saveStart" /\ x.book = k
        /\ \E new \in Session :
             /\ session' = [rest EXCEPT ![k] = new] /\ wish' = [wish EXCEPT ![k] = new.port]
             /\ \A j \in Books \ {k} : BookWork(rest[j]) => rest[j].port # new.port

LEMMA OperationStep ==
  ASSUME BookInv, BookTypeOK', NEW c \in Clients, NEW k \in Books,
         bookCall[c].at \in {"idle", "probe"},
         \A d \in Clients : d # c => bookCall[d].at = "idle",
         halted' \subseteq halted, k \notin halted', UNCHANGED <<saved, torn>>,
         NEW x \in BookCall, NEW rest \in [Books -> Session], BooksCalm(session, rest),
         BookOutcome(c, k, x, rest)
  PROVE  BookInv'
<1>1. /\ bookCall' = [bookCall EXCEPT ![c] = x] /\ bookCall \in [Clients -> BookCall]
      /\ wish \in [Books -> AskedPorts] /\ halted \subseteq Books
  BY BookTyped DEF BookOutcome, BookInv, BookTypeOK
<1>2. bookCall'[c] = x /\ \A d \in Clients : d # c => bookCall'[d].at = "idle"
  BY <1>1
<1>3. \A j \in Books : saved[j] = wish[j] \/ j \in torn
  BY DEF BookInv, SavedFollows, Saving
<1>4. \A j \in Books : BookWork(rest[j]) =>
        /\ BookWork(session[j]) /\ rest[j].port = session[j].port
        /\ wish[j] = rest[j].port \/ j \in torn
  BY DEF BooksCalm, BookInv, WorkWished
<1>5. \A i, j \in Books : i # j /\ BookWork(rest[i]) /\ BookWork(rest[j]) => rest[i].port # rest[j].port
  BY <1>4 DEF BookInv, PortsApart, AtWork, BookWork
<1>6. \A j \in halted' : j \in Books /\ j # k /\ wish[j] = 0 /\ saved[j] = 0 /\ ~BookWork(rest[j])
  BY <1>1, <1>4 DEF BookInv, HaltedStays
<1>7. CASE x.at = "idle" /\ UNCHANGED wish /\ session' = rest
  <2>1. OneLane' /\ ProbeFree'
    BY <1>2, <1>7 DEF OneLane, ProbeFree
  <2>2. SavedFollows'
    BY <1>3, <1>7 DEF SavedFollows
  <2>3. WorkWished'
    BY <1>2, <1>4, <1>7 DEF WorkWished
  <2>4. HaltedStays'
    BY <1>2, <1>6, <1>7 DEF HaltedStays
  <2>5. PortsApart'
    BY <1>5, <1>7 DEF PortsApart, AtWork, BookWork
  <2> QED
    BY <2>1, <2>2, <2>3, <2>4, <2>5 DEF BookInv
<1>8. CASE /\ x.at = "probe" /\ x.book = k /\ UNCHANGED wish /\ session' = rest
           /\ \A j \in Books : BookWork(rest[j]) => rest[j].port # BookAddress(x.port)
  <2>1. OneLane' /\ ProbeFree'
    BY <1>2, <1>8 DEF OneLane, ProbeFree
  <2>2. SavedFollows'
    BY <1>3, <1>8 DEF SavedFollows
  <2>3. WorkWished'
    BY <1>2, <1>4, <1>8 DEF WorkWished
  <2>4. HaltedStays'
    BY <1>2, <1>6, <1>8 DEF HaltedStays
  <2>5. PortsApart'
    BY <1>5, <1>8 DEF PortsApart, AtWork, BookWork
  <2> QED
    BY <2>1, <2>2, <2>3, <2>4, <2>5 DEF BookInv
<1>9. CASE /\ x.at = "saveStart" /\ x.book = k
           /\ \E new \in Session :
                /\ session' = [rest EXCEPT ![k] = new] /\ wish' = [wish EXCEPT ![k] = new.port]
                /\ \A j \in Books \ {k} : BookWork(rest[j]) => rest[j].port # new.port
  <2>1. PICK new \in Session :
          /\ session' = [rest EXCEPT ![k] = new] /\ wish' = [wish EXCEPT ![k] = new.port]
          /\ \A j \in Books \ {k} : BookWork(rest[j]) => rest[j].port # new.port
    BY <1>9
  <2>2. /\ session'[k] = new /\ wish'[k] = new.port
        /\ \A j \in Books : j # k => session'[j] = rest[j] /\ wish'[j] = wish[j]
    BY <1>1, <2>1
  <2>3. OneLane' /\ ProbeFree'
    BY <1>2, <1>9 DEF OneLane, ProbeFree
  <2>4. SavedFollows'
    BY <1>2, <1>3, <1>9, <2>2 DEF SavedFollows, Saving
  <2>5. WorkWished'
    BY <1>2, <1>4, <1>9, <2>2 DEF WorkWished
  <2>6. HaltedStays'
    BY <1>2, <1>6, <1>9, <2>2 DEF HaltedStays
  <2>7. PortsApart'
    BY <1>5, <2>1, <2>2 DEF PortsApart, AtWork, BookWork
  <2> QED
    BY <2>3, <2>4, <2>5, <2>6, <2>7 DEF BookInv
<1> QED
  BY <1>7, <1>8, <1>9 DEF BookOutcome

LEMMA OutcomeTyped ==
  ASSUME BookInv, NEW c \in Clients, NEW k \in Books, NEW x \in BookCall,
         NEW rest \in [Books -> Session], BookOutcome(c, k, x, rest)
  PROVE  /\ session' \in [Books -> Session] /\ wish' \in [Books -> AskedPorts]
         /\ bookCall' \in [Clients -> BookCall]
<1>1. bookCall \in [Clients -> BookCall] /\ wish \in [Books -> AskedPorts]
  BY BookTyped
<1>2. \A new \in Session : new.port \in AskedPorts
  BY DEF Session
<1> QED
  BY <1>1, <1>2 DEF BookOutcome

(* The port of a new session is not one of a session that is there.        *)
LEMMA LaunchFine ==
  ASSUME NEW c \in Clients, NEW k \in Books, NEW asked \in AskedPorts, NEW restoring \in BOOLEAN,
         NEW ss \in [Books -> Session], NEW shells \in [Shells -> Books \cup {NoBook}],
         LaunchBook(c, k, asked, restoring, ss, shells)
  PROVE  /\ \E x \in BookCall : BookOutcome(c, k, x, ss)
         /\ shell' \in [Shells -> Books \cup {NoBook}]
<1> DEFINE used == {ss[j].port : j \in Taken(ss)}
           free == IF asked \notin used \cup {0} THEN {asked} ELSE (1..LastPort) \ used
<1>1. free \subseteq AskedPorts /\ \A n \in free : n \notin used
  BY PortRange
<1>2. \A j \in Books : BookWork(ss[j]) => ss[j].port \in used
  BY DEF Taken, BookWork
<1>3. free # {} => Min(free) \in free
  BY <1>1, LeastPort
<1>4. CASE /\ free = {} /\ session' = ss /\ shell' = shells
           /\ bookCall' = [bookCall EXCEPT ![c] = NoBookCall] /\ UNCHANGED wish
  <2>1. NoBookCall \in BookCall /\ NoBookCall.at = "idle"
    BY PortRange DEF NoBookCall, BookCall
  <2>2. BookOutcome(c, k, NoBookCall, ss)
    BY <1>4, <2>1 DEF BookOutcome
  <2> QED
    BY <1>4, <2>1, <2>2
<1>5. ASSUME NEW accepted \in BOOLEAN, free # {},
             session' = [ss EXCEPT ![k] =
               [(IF accepted
                 THEN [NoSession EXCEPT !.state = "starting", !.port = Min(free),
                                        !.restoring = restoring]
                 ELSE FailSession([NoSession EXCEPT !.state = "starting", !.port = Min(free),
                                                    !.restoring = restoring]))
                EXCEPT !.timer = TRUE]],
             shell' = (IF accepted THEN [shells EXCEPT ![ShellOf[k]] = k] ELSE shells),
             wish' = [wish EXCEPT ![k] = Min(free)],
             bookCall' = [bookCall EXCEPT ![c] =
               [at |-> "saveStart", book |-> k, port |-> 0, restoring |-> restoring]]
      PROVE  /\ \E x \in BookCall : BookOutcome(c, k, x, ss)
             /\ shell' \in [Shells -> Books \cup {NoBook}]
  <2>1. Min(free) \in AskedPorts /\ \A j \in Books : BookWork(ss[j]) => ss[j].port # Min(free)
    BY <1>1, <1>2, <1>3, <1>5
  <2>2. PICK port \in AskedPorts : port = Min(free)
    BY <2>1
  <2> HIDE DEF free
  <2>3. PICK start : start = [NoSession EXCEPT !.state = "starting", !.port = port,
                                               !.restoring = restoring]
    OBVIOUS
  <2>4. start \in Session /\ start.port = port
    BY <2>3 DEF NoSession, Session
  <2>5. FailSession(start) \in Session /\ FailSession(start).port = port
    BY <2>4 DEF FailSession, Session
  <2>6. PICK one \in Session : one.port = port /\ one = IF accepted THEN start ELSE FailSession(start)
    BY <2>4, <2>5
  <2>7. PICK new : new = [one EXCEPT !.timer = TRUE]
    OBVIOUS
  <2>8. new \in Session /\ new.port = port
    BY <2>6, <2>7 DEF Session
  <2>9. session' = [ss EXCEPT ![k] = new]
    BY <1>5, <2>2, <2>3, <2>6, <2>7
  <2>10. PICK x : x = [at |-> "saveStart", book |-> k, port |-> 0, restoring |-> restoring]
    OBVIOUS
  <2>11. x \in BookCall /\ x.at = "saveStart" /\ x.book = k
    BY <2>10, PortRange DEF BookCall
  <2>12. wish' = [wish EXCEPT ![k] = new.port] /\ bookCall' = [bookCall EXCEPT ![c] = x]
    BY <1>5, <2>2, <2>8, <2>10
  <2>13. BookOutcome(c, k, x, ss)
    BY ZenonT(60), <2>1, <2>2, <2>8, <2>9, <2>11, <2>12 DEF BookOutcome
  <2>14. shell' \in [Shells -> Books \cup {NoBook}]
    BY <1>5
  <2> QED
    BY <2>11, <2>13, <2>14
<1> QED
  BY <1>4, <1>5 DEF LaunchBook

LEMMA BeginFine ==
  ASSUME BookInv, LaneFree, NEW c \in Clients, NEW k \in Books, NEW asked \in AskedPorts,
         NEW restoring \in BOOLEAN, NEW ss \in [Books -> Session], BooksCalm(session, ss),
         BeginSession(c, k, asked, restoring, ss)
  PROVE  /\ \E rest \in [Books -> Session], x \in BookCall :
              BooksCalm(session, rest) /\ BookOutcome(c, k, x, rest)
         /\ shell' \in [Shells -> Books \cup {NoBook}]
<1>1. /\ bookCall[c] \in BookCall /\ bookCall[c].at = "idle"
      /\ bookCall = [bookCall EXCEPT ![c] = bookCall[c]]
  BY BookTyped DEF LaneFree
<1>2. PICK rest : rest = [ss EXCEPT ![k] = NoSession]
  OBVIOUS
<1>3. rest \in [Books -> Session] /\ BooksCalm(ss, rest)
  BY <1>2, SessionEnds, OneCalm
<1>4. BooksCalm(session, rest)
  BY <1>3, CalmTwice
<1>5. ShellsWithout(k) \in [Shells -> Books \cup {NoBook}] /\ shell \in [Shells -> Books \cup {NoBook}]
  BY BookTyped DEF ShellsWithout
<1>6. CASE session' = ss /\ UNCHANGED <<shell, wish, bookCall>>
  <2>1. BookOutcome(c, k, bookCall[c], ss)
    BY <1>1, <1>6 DEF BookOutcome
  <2> QED
    BY <1>1, <1>5, <1>6, <2>1
<1>7. CASE session' = rest /\ shell' = ShellsWithout(k) /\ UNCHANGED <<wish, bookCall>>
  <2>1. BookOutcome(c, k, bookCall[c], rest)
    BY <1>1, <1>7 DEF BookOutcome
  <2> QED
    BY <1>1, <1>3, <1>4, <1>5, <1>7, <2>1
<1>8. CASE LaunchBook(c, k, asked, restoring, rest, ShellsWithout(k))
  <2>1. PICK shells \in [Shells -> Books \cup {NoBook}] : shells = ShellsWithout(k)
    BY <1>5
  <2>2. LaunchBook(c, k, asked, restoring, rest, shells)
    BY <1>8, <2>1
  <2> QED
    BY <1>3, <1>4, <2>2, LaunchFine
<1>9. CASE /\ ~\E j \in Taken(rest) : restoring => rest[j].port = BookAddress(asked)
           /\ session' = rest /\ shell' = ShellsWithout(k) /\ UNCHANGED wish
           /\ bookCall' = [bookCall EXCEPT ![c] =
                [at |-> "probe", book |-> k, port |-> asked, restoring |-> restoring]]
  <2>1. PICK x : x = [at |-> "probe", book |-> k, port |-> asked, restoring |-> restoring]
    OBVIOUS
  <2>2. x \in BookCall /\ x.at = "probe" /\ x.book = k /\ x.port = asked
    BY <2>1 DEF BookCall
  <2>3. \A j \in Books : BookWork(rest[j]) => rest[j].port # BookAddress(x.port)
    BY <1>9, <2>2 DEF Taken, BookWork
  <2>4. BookOutcome(c, k, x, rest)
    BY <1>9, <2>1, <2>2, <2>3 DEF BookOutcome
  <2> QED
    BY <1>3, <1>4, <1>5, <1>9, <2>2, <2>4
<1> QED
  BY <1>2, <1>6, <1>7, <1>8, <1>9 DEF BeginSession, BookAddress

LEMMA StartBookStep ==
  ASSUME BookInv, NEW c \in Clients, NEW k \in Books, StartBook(c, k)
  PROVE  BookInv'
<1>1. /\ LaneFree /\ wishes < MaxWishes /\ wishes' = wishes + 1
      /\ attempted' = attempted \cup {k} /\ halted' = halted \ {k}
      /\ UNCHANGED <<saved, machineOn, torn, losses>>
  BY DEF StartBook, Wish
<1>2. PICK asked \in AskedPorts : BeginSession(c, k, asked, FALSE, session)
  BY DEF StartBook
<1>3. PICK ss \in [Books -> Session] : ss = session
  BY BookTyped
<1>4. BooksCalm(session, ss) /\ BeginSession(c, k, asked, FALSE, ss)
  BY <1>2, <1>3 DEF BooksCalm
<1>5. PICK rest \in [Books -> Session], x \in BookCall :
        BooksCalm(session, rest) /\ BookOutcome(c, k, x, rest)
  BY <1>1, <1>4, BeginFine
<1>6. shell' \in [Shells -> Books \cup {NoBook}]
  BY <1>1, <1>4, BeginFine
<1>7. wishes' \in 0..MaxWishes
  BY <1>1, BookAssumption DEF BookInv, BookTypeOK
<1>8. BookTypeOK'
  BY <1>1, <1>5, <1>6, <1>7, OutcomeTyped DEF BookInv, BookTypeOK
<1>9. \A d \in Clients : bookCall[d].at = "idle"
  BY <1>1 DEF LaneFree
<1> QED
  BY <1>1, <1>5, <1>8, <1>9, OperationStep

LEMMA RefreshBookStep ==
  ASSUME BookInv, NEW c \in Clients, NEW k \in Books, RefreshBook(c, k)
  PROVE  BookInv'
<1>1. PICK seen : seen =
        IF session[k].state \in {"starting", "running", "failed"}
           /\ ~session[k].adopted /\ ~ShellLive(k)
        THEN [session EXCEPT ![k] = MarkStopped(@)] ELSE session
  OBVIOUS
<1>2. session \in [Books -> Session] /\ session[k] \in Session
  BY BookTyped
<1>3. BooksCalm(session, session)
  BY DEF BooksCalm
<1>4. [session EXCEPT ![k] = MarkStopped(session[k])] \in [Books -> Session]
      /\ BooksCalm(session, [session EXCEPT ![k] = MarkStopped(session[k])])
  BY <1>2, SessionEnds, OneCalm
<1>5. seen \in [Books -> Session] /\ BooksCalm(session, seen)
  BY <1>1, <1>2, <1>3, <1>4
<1>6. /\ LaneFree /\ UNCHANGED <<saved, machineOn, halted, torn, wishes, losses>>
  BY DEF RefreshBook
<1>7. CASE /\ wish[k] # 0 /\ attempted' = attempted \cup {k}
           /\ BeginSession(c, k, wish[k], TRUE, seen)
  <2>1. PICK asked \in AskedPorts : asked = wish[k]
    BY BookTyped
  <2>2. BeginSession(c, k, asked, TRUE, seen)
    BY <1>7, <2>1
  <2>3. PICK rest \in [Books -> Session], x \in BookCall :
          BooksCalm(session, rest) /\ BookOutcome(c, k, x, rest)
    BY <1>5, <1>6, <2>2, BeginFine
  <2>4. shell' \in [Shells -> Books \cup {NoBook}]
    BY <1>5, <1>6, <2>2, BeginFine
  <2>5. BookTypeOK'
    BY <1>6, <1>7, <2>3, <2>4, OutcomeTyped DEF BookInv, BookTypeOK
  <2>6. k \notin halted' /\ halted' \subseteq halted
    BY <1>6, <1>7 DEF BookInv, HaltedStays
  <2>7. \A d \in Clients : bookCall[d].at = "idle"
    BY <1>6 DEF LaneFree
  <2> QED
    BY <1>6, <2>3, <2>5, <2>6, <2>7, OperationStep
<1>8. CASE session' = seen /\ UNCHANGED <<shell, wish, attempted, bookCall>>
  <2>1. BookTypeOK'
    BY <1>5, <1>6, <1>8 DEF BookInv, BookTypeOK
  <2>2. BooksCalm(session, session')
    BY <1>5, <1>8
  <2> QED
    BY <1>6, <1>8, <2>1, <2>2, CalmStep
<1> QED
  BY <1>1, <1>7, <1>8 DEF RefreshBook

LEMMA ProbedStep ==
  ASSUME BookInv, NEW c \in Clients, Probed(c)
  PROVE  BookInv'
<1>1. PICK call \in BookCall : call = bookCall[c]
  BY BookTyped
<1>2. /\ call.at = "probe" /\ bookCall[c].at = "probe"
      /\ UNCHANGED <<saved, attempted, machineOn, halted, torn, wishes, losses>>
  BY <1>1 DEF Probed
<1>3. PICK k \in Books : k = call.book
  BY <1>1, <1>2 DEF BookInv, OneLane
<1>4. /\ k \notin halted /\ call.port \in AskedPorts /\ call.restoring \in BOOLEAN
      /\ \A d \in Clients : d # c => bookCall[d].at = "idle"
  BY <1>1, <1>2, <1>3 DEF BookInv, HaltedStays, BookCall, OneLane
<1>5. PICK ss \in [Books -> Session] : ss = session
  BY BookTyped
<1>6. BooksCalm(session, ss)
  BY <1>5 DEF BooksCalm
<1>7. PICK shells \in [Shells -> Books \cup {NoBook}] : shells = shell
  BY BookTyped
<1>8. /\ \E x \in BookCall : BookOutcome(c, k, x, ss)
      /\ shell' \in [Shells -> Books \cup {NoBook}]
  <2>1. CASE /\ session' = [session EXCEPT ![call.book] =
                  [NoSession EXCEPT !.state = "running", !.port = BookAddress(call.port),
                                    !.adopted = TRUE]]
             /\ wish' = [wish EXCEPT ![call.book] = BookAddress(call.port)]
             /\ bookCall' = [bookCall EXCEPT ![c].at = "saveStart"]
             /\ UNCHANGED shell
    <3>1. PICK port \in AskedPorts : port = BookAddress(call.port)
      BY <1>4, PortRange DEF BookAddress
    <3>2. PICK new : new = [NoSession EXCEPT !.state = "running", !.port = port, !.adopted = TRUE]
      OBVIOUS
    <3>3. new \in Session /\ new.port = port
      BY <3>2 DEF NoSession, Session
    <3>4. PICK x : x = [call EXCEPT !.at = "saveStart"]
      OBVIOUS
    <3>5. x \in BookCall /\ x.at = "saveStart" /\ x.book = k
      BY <1>3, <3>4 DEF BookCall
    <3>6. bookCall' = [bookCall EXCEPT ![c] = x]
      BY <1>1, <2>1, <3>4
    <3>7. session' = [ss EXCEPT ![k] = new] /\ wish' = [wish EXCEPT ![k] = new.port]
      BY <1>3, <1>5, <2>1, <3>1, <3>2, <3>3
    <3>8. \A j \in Books : BookWork(ss[j]) => ss[j].port # new.port
      BY <1>1, <1>2, <1>5, <3>1, <3>3 DEF BookInv, ProbeFree
    <3>9. BookOutcome(c, k, x, ss)
      BY <3>3, <3>5, <3>6, <3>7, <3>8 DEF BookOutcome
    <3> QED
      BY <1>7, <2>1, <3>5, <3>9
  <2>2. CASE LaunchBook(c, k, call.port, call.restoring, ss, shells)
    <3>1. PICK port \in AskedPorts, restoring \in BOOLEAN :
            port = call.port /\ restoring = call.restoring
      BY <1>4
    <3>2. LaunchBook(c, k, port, restoring, ss, shells)
      BY <2>2, <3>1
    <3> QED
      BY <3>2, LaunchFine
  <2>3. \/ /\ session' = [session EXCEPT ![call.book] =
                  [NoSession EXCEPT !.state = "running", !.port = BookAddress(call.port),
                                    !.adopted = TRUE]]
           /\ wish' = [wish EXCEPT ![call.book] = BookAddress(call.port)]
           /\ bookCall' = [bookCall EXCEPT ![c].at = "saveStart"]
           /\ UNCHANGED shell
        \/ LaunchBook(c, k, call.port, call.restoring, ss, shells)
    BY <1>1, <1>3, <1>5, <1>7 DEF Probed, BookAddress
  <2> QED
    BY <2>1, <2>2, <2>3
<1>9. PICK x \in BookCall : BookOutcome(c, k, x, ss)
  BY <1>8
<1>10. BookTypeOK'
  BY <1>2, <1>8, <1>9, OutcomeTyped DEF BookInv, BookTypeOK
<1> QED
  BY <1>2, <1>4, <1>6, <1>9, <1>10, OperationStep

LEMMA StopBookStep ==
  ASSUME BookInv, NEW c \in Clients, NEW k \in Books, StopBook(c, k)
  PROVE  BookInv'
<1>1. PICK x : x = [at |-> "saveStop", book |-> k, port |-> 0, restoring |-> FALSE]
  OBVIOUS
<1>2. x \in BookCall /\ x.at = "saveStop" /\ x.book = k
  BY <1>1, PortRange DEF BookCall
<1>3. /\ LaneFree /\ wishes < MaxWishes /\ wishes' = wishes + 1
      /\ wish' = [wish EXCEPT ![k] = 0] /\ bookCall' = [bookCall EXCEPT ![c] = x]
      /\ UNCHANGED <<session, saved, attempted, shell, machineOn, halted, torn, losses>>
  BY <1>1 DEF StopBook, Wish
<1>4. /\ bookCall \in [Clients -> BookCall] /\ wish \in [Books -> AskedPorts]
      /\ \A d \in Clients : bookCall[d].at = "idle"
  BY <1>3, BookTyped DEF LaneFree
<1>5. /\ bookCall' \in [Clients -> BookCall] /\ wish' \in [Books -> AskedPorts]
      /\ bookCall'[c] = x /\ \A d \in Clients : d # c => bookCall'[d].at = "idle"
      /\ wish'[k] = 0 /\ \A j \in Books : j # k => wish'[j] = wish[j]
  BY <1>2, <1>3, <1>4, PortRange
<1>6. wishes' \in 0..MaxWishes
  BY <1>3, BookAssumption DEF BookInv, BookTypeOK
<1>7. BookTypeOK'
  BY <1>3, <1>5, <1>6 DEF BookInv, BookTypeOK
<1>8. OneLane' /\ ProbeFree'
  BY <1>2, <1>5 DEF OneLane, ProbeFree
<1>9. \A j \in Books : saved[j] = wish[j] \/ j \in torn
  BY <1>4 DEF BookInv, SavedFollows, Saving
<1>10. SavedFollows'
  BY <1>2, <1>3, <1>5, <1>9 DEF SavedFollows, Saving
<1>11. \A j \in Books : BookWork(session[j]) => wish[j] = session[j].port \/ j \in torn
  BY <1>4 DEF BookInv, WorkWished
<1>12. WorkWished'
  BY <1>2, <1>3, <1>5, <1>11 DEF WorkWished
<1>13. halted \subseteq Books
  BY DEF BookInv, BookTypeOK
<1>14. HaltedStays'
  BY <1>2, <1>3, <1>5, <1>13 DEF BookInv, HaltedStays
<1>15. PortsApart'
  BY <1>3 DEF BookInv, PortsApart, AtWork
<1> QED
  BY <1>7, <1>8, <1>10, <1>12, <1>14, <1>15 DEF BookInv

(* A save that is over, with or without an error: the lane is free.        *)
LEMMA SaveOver ==
  ASSUME BookInv, NEW c \in Clients, bookCall[c].at \in {"saveStart", "saveStop"},
         bookCall' = [bookCall EXCEPT ![c] = NoBookCall],
         session' = session \/ (/\ session' = [session EXCEPT ![bookCall[c].book] = NoSession]
                                /\ shell' = ShellsWithout(bookCall[c].book)),
         session' = session => shell' = shell
  PROVE  /\ session' \in [Books -> Session] /\ bookCall' \in [Clients -> BookCall]
         /\ shell' \in [Shells -> Books \cup {NoBook}]
         /\ BooksCalm(session, session') /\ OneLane' /\ ProbeFree' /\ PortsApart'
         /\ \A d \in Clients : bookCall'[d].at = "idle" /\ (d # c => bookCall[d].at = "idle")
<1>1. /\ session \in [Books -> Session] /\ bookCall \in [Clients -> BookCall]
      /\ shell \in [Shells -> Books \cup {NoBook}] /\ bookCall[c].book \in Books
  BY BookTyped DEF BookInv, OneLane
<1>2. NoBookCall \in BookCall /\ NoBookCall.at = "idle"
  BY PortRange DEF NoBookCall, BookCall
<1>3. \A d \in Clients : bookCall'[d].at = "idle" /\ (d # c => bookCall[d].at = "idle")
  BY <1>1, <1>2 DEF BookInv, OneLane
<1>4. session' \in [Books -> Session] /\ BooksCalm(session, session')
  <2>1. CASE session' = session
    BY <1>1, <2>1 DEF BooksCalm
  <2>2. CASE session' = [session EXCEPT ![bookCall[c].book] = NoSession]
    <3>1. PICK t : t = [session EXCEPT ![bookCall[c].book] = NoSession]
      OBVIOUS
    <3>2. t \in [Books -> Session] /\ BooksCalm(session, t)
      BY <1>1, <3>1, SessionEnds, OneCalm
    <3> QED
      BY <2>2, <3>1, <3>2
  <2> QED
    BY <2>1, <2>2
<1>5. PortsApart'
  BY <1>4 DEF BooksCalm, BookInv, PortsApart, AtWork, BookWork
<1>6. OneLane' /\ ProbeFree'
  BY <1>3 DEF OneLane, ProbeFree
<1>7. shell' \in [Shells -> Books \cup {NoBook}]
  BY <1>1 DEF ShellsWithout
<1> QED
  BY <1>1, <1>2, <1>3, <1>4, <1>5, <1>6, <1>7

LEMMA SavedStep ==
  ASSUME BookInv, NEW c \in Clients, Saved(c)
  PROVE  BookInv'
<1>1. PICK k \in Books : k = bookCall[c].book /\ bookCall[c].at \in {"saveStart", "saveStop"}
  BY DEF Saved, BookInv, OneLane
<1>2. /\ bookCall' = [bookCall EXCEPT ![c] = NoBookCall] /\ torn' = torn \ {k} /\ saved' = wish
      /\ UNCHANGED <<wish, attempted, machineOn, wishes, losses>>
      /\ \/ bookCall[c].at = "saveStart" /\ UNCHANGED <<session, shell, halted>>
         \/ /\ bookCall[c].at = "saveStop" /\ session' = [session EXCEPT ![k] = NoSession]
            /\ shell' = ShellsWithout(k) /\ halted' = halted \cup {k}
  BY <1>1 DEF Saved, Stored
<1>3. /\ session' \in [Books -> Session] /\ bookCall' \in [Clients -> BookCall]
      /\ shell' \in [Shells -> Books \cup {NoBook}]
      /\ BooksCalm(session, session') /\ OneLane' /\ ProbeFree' /\ PortsApart'
      /\ \A d \in Clients : bookCall'[d].at = "idle" /\ (d # c => bookCall[d].at = "idle")
  <2>1. session' = session \/ (/\ session' = [session EXCEPT ![bookCall[c].book] = NoSession]
                               /\ shell' = ShellsWithout(bookCall[c].book))
    BY <1>1, <1>2
  <2>2. session' = session => shell' = shell
    <3>1. CASE bookCall[c].at = "saveStart"
      BY <1>2, <3>1
    <3>2. ASSUME bookCall[c].at = "saveStop", session' = session PROVE shell' = shell
      <4>1. session \in [Books -> Session]
        BY BookTyped
      <4>2. session[k] = NoSession
        BY <1>2, <3>2, <4>1
      <4> QED
        BY <1>2, <3>2, <4>2 DEF ShellsWithout, NoSession
    <3> QED
      BY <1>1, <3>1, <3>2
  <2> QED
    BY <1>1, <1>2, <2>1, <2>2, SaveOver
<1>4. /\ wish \in [Books -> AskedPorts] /\ halted \subseteq Books /\ session \in [Books -> Session]
  BY DEF BookInv, BookTypeOK
<1>5. BookTypeOK'
  BY <1>2, <1>3, <1>4 DEF BookInv, BookTypeOK
<1>6. SavedFollows'
  BY <1>2 DEF SavedFollows
<1>7. ASSUME NEW j \in Books, BookWork(session'[j])
      PROVE  wish[j] = session'[j].port \/ j \in torn'
  <2>1. BookWork(session[j]) /\ session'[j].port = session[j].port
    BY <1>3, <1>7 DEF BooksCalm
  <2>2. CASE j # k
    BY <1>1, <1>2, <1>3, <2>1, <2>2 DEF BookInv, WorkWished
  <2>3. CASE j = k /\ bookCall[c].at = "saveStart"
    BY <1>1, <1>3, <2>1, <2>3 DEF BookInv, WorkWished
  <2>4. CASE j = k /\ bookCall[c].at = "saveStop"
    BY <1>2, <1>4, <1>7, <2>4, SessionEnds
  <2> QED
    BY <1>1, <2>2, <2>3, <2>4
<1>8. WorkWished'
  BY <1>2, <1>7, <1>3 DEF WorkWished
<1>9. ASSUME NEW j \in halted' PROVE wish[j] = 0 /\ ~BookWork(session'[j])
  <2>1. CASE j \in halted
    BY <1>3, <1>4, <2>1 DEF BooksCalm, BookInv, HaltedStays
  <2>2. CASE j \notin halted
    <3>1. j = k /\ bookCall[c].at = "saveStop"
      BY <1>2, <1>9, <2>2
    <3> QED
      BY <1>1, <1>2, <1>4, <3>1, SessionEnds DEF BookInv, HaltedStays
  <2> QED
    BY <2>1, <2>2
<1>10. HaltedStays'
  BY <1>2, <1>3, <1>9 DEF HaltedStays
<1> QED
  BY <1>3, <1>5, <1>6, <1>8, <1>10 DEF BookInv

LEMMA LossBounded ==
  ASSUME BookInv, Loss
  PROVE  losses' \in 0..MaxLosses
BY BookAssumption DEF BookInv, BookTypeOK, Loss

LEMMA SaveFailsStep ==
  ASSUME BookInv, NEW c \in Clients, SaveFails(c)
  PROVE  BookInv'
<1>1. PICK k \in Books : k = bookCall[c].book /\ bookCall[c].at \in {"saveStart", "saveStop"}
  BY DEF SaveFails, BookInv, OneLane
<1>2. /\ bookCall' = [bookCall EXCEPT ![c] = NoBookCall] /\ torn' = torn \cup {k}
      /\ saved' \in {saved, wish} /\ Loss
      /\ UNCHANGED <<wish, attempted, machineOn, halted, wishes>>
      /\ \/ UNCHANGED <<session, shell>>
         \/ session' = [session EXCEPT ![k] = NoSession] /\ shell' = ShellsWithout(k)
  BY <1>1 DEF SaveFails
<1>3. /\ session' \in [Books -> Session] /\ bookCall' \in [Clients -> BookCall]
      /\ shell' \in [Shells -> Books \cup {NoBook}]
      /\ BooksCalm(session, session') /\ OneLane' /\ ProbeFree' /\ PortsApart'
      /\ \A d \in Clients : bookCall'[d].at = "idle" /\ (d # c => bookCall[d].at = "idle")
  <2>1. session' = session \/ (/\ session' = [session EXCEPT ![bookCall[c].book] = NoSession]
                               /\ shell' = ShellsWithout(bookCall[c].book))
    BY <1>1, <1>2
  <2>2. session' = session => shell' = shell
    <3>1. ASSUME session' = [session EXCEPT ![k] = NoSession], shell' = ShellsWithout(k),
                 session' = session
          PROVE  shell' = shell
      <4>1. session \in [Books -> Session]
        BY BookTyped
      <4>2. session[k] = NoSession
        BY <3>1, <4>1
      <4> QED
        BY <3>1, <4>2 DEF ShellsWithout, NoSession
    <3> QED
      BY <1>2, <3>1
  <2> QED
    BY <1>1, <1>2, <2>1, <2>2, SaveOver
<1>4. /\ wish \in [Books -> AskedPorts] /\ saved \in [Books -> AskedPorts]
      /\ halted \subseteq Books /\ losses' \in 0..MaxLosses
  BY <1>2, LossBounded DEF BookInv, BookTypeOK
<1>5. BookTypeOK'
  BY <1>2, <1>3, <1>4 DEF BookInv, BookTypeOK
<1>6. \A j \in Books : j # k => saved[j] = wish[j] \/ j \in torn
  BY <1>1, <1>3 DEF BookInv, SavedFollows, Saving
<1>7. SavedFollows'
  BY <1>2, <1>6 DEF SavedFollows
<1>8. \A j \in Books : j # k /\ BookWork(session[j]) => wish[j] = session[j].port \/ j \in torn
  BY <1>1, <1>3 DEF BookInv, WorkWished
<1>9. WorkWished'
  BY <1>2, <1>3, <1>8 DEF WorkWished, BooksCalm
<1>10. HaltedStays'
  BY <1>2, <1>3, <1>4 DEF BookInv, HaltedStays, BooksCalm
<1> QED
  BY <1>3, <1>5, <1>7, <1>9, <1>10 DEF BookInv

(* The events of terminals and probes change one session each, and start   *)
(* nothing.                                                                *)
LEMMA EventStep ==
  ASSUME BookInv, NEW k \in Books, NEW new \in Session,
         BookWork(new) => BookWork(session[k]) /\ new.port = session[k].port,
         session' = [session EXCEPT ![k] = new],
         shell' \in [Shells -> Books \cup {NoBook}],
         UNCHANGED <<wish, saved, attempted, bookCall, machineOn, halted, torn, wishes, losses>>
  PROVE  BookInv'
<1>1. PICK s \in [Books -> Session] : s = session
  BY BookTyped
<1>2. PICK t : t = [s EXCEPT ![k] = new]
  OBVIOUS
<1>3. t \in [Books -> Session] /\ BooksCalm(s, t)
  BY <1>1, <1>2, OneCalm
<1>4. session' = t
  BY <1>1, <1>2
<1>5. BookTypeOK'
  BY <1>3, <1>4 DEF BookInv, BookTypeOK
<1>6. BooksCalm(session, session')
  BY <1>1, <1>3, <1>4
<1> QED
  BY <1>5, <1>6, CalmStep

LEMMA ProbeTickStep ==
  ASSUME BookInv, NEW k \in Books, ProbeTick(k)
  PROVE  BookInv'
<1>1. PICK s \in Session : s = session[k]
  BY BookTyped
<1>2. PICK new : new = IF s.state # "starting" THEN [s EXCEPT !.timer = FALSE]
                       ELSE IF ~ShellLive(k) THEN FailSession(s)
                       ELSE [s EXCEPT !.timer = FALSE, !.asking = TRUE]
  OBVIOUS
<1>3. new \in Session /\ (BookWork(new) => BookWork(s) /\ new.port = s.port)
  <2>1. CASE s.state # "starting"
    BY <1>2, <2>1 DEF Session, BookWork
  <2>2. CASE s.state = "starting" /\ ~ShellLive(k)
    BY <1>2, <2>2, SessionEnds
  <2>3. CASE s.state = "starting" /\ ShellLive(k)
    BY <1>2, <2>3 DEF Session, BookWork
  <2> QED
    BY <2>1, <2>2, <2>3
<1>4. session' = [session EXCEPT ![k] = new] /\ UNCHANGED shell /\ BookRest
  BY <1>1, <1>2 DEF ProbeTick
<1>5. shell' \in [Shells -> Books \cup {NoBook}]
  BY <1>4, BookTyped
<1> QED
  BY <1>1, <1>3, <1>4, <1>5, EventStep DEF BookRest

LEMMA ProbeAnswerStep ==
  ASSUME BookInv, NEW k \in Books, ProbeAnswer(k)
  PROVE  BookInv'
<1>1. PICK old \in Session : old = session[k]
  BY BookTyped
<1>2. PICK s : s = [old EXCEPT !.asking = FALSE]
  OBVIOUS
<1>3. s \in Session /\ s.state = old.state /\ s.port = old.port
  BY <1>2 DEF Session
<1>4. PICK ready \in BOOLEAN :
        session' = [session EXCEPT ![k] =
          IF s.state # "starting" THEN s
          ELSE IF ready THEN [s EXCEPT !.state = "running", !.late = FALSE]
          ELSE IF s.late THEN FailSession(s) ELSE Again(s)]
  BY <1>1, <1>2 DEF ProbeAnswer
<1>5. PICK new : new = IF s.state # "starting" THEN s
                       ELSE IF ready THEN [s EXCEPT !.state = "running", !.late = FALSE]
                       ELSE IF s.late THEN FailSession(s) ELSE Again(s)
  OBVIOUS
<1>6. new \in Session /\ (BookWork(new) => BookWork(s) /\ new.port = s.port)
  <2>1. CASE s.state # "starting"
    BY <1>3, <1>5, <2>1
  <2>2. CASE s.state = "starting" /\ ready
    BY <1>3, <1>5, <2>2 DEF Session, BookWork
  <2>3. CASE s.state = "starting" /\ ~ready /\ s.late
    BY <1>3, <1>5, <2>3, SessionEnds
  <2>4. CASE s.state = "starting" /\ ~ready /\ ~s.late
    BY <1>3, <1>5, <2>4 DEF Again, Session, BookWork
  <2> QED
    BY <2>1, <2>2, <2>3, <2>4
<1>7. BookWork(new) => BookWork(old) /\ new.port = old.port
  BY <1>3, <1>6 DEF BookWork
<1>8. session' = [session EXCEPT ![k] = new] /\ UNCHANGED shell /\ BookRest
  BY <1>4, <1>5 DEF ProbeAnswer
<1>9. shell' \in [Shells -> Books \cup {NoBook}]
  BY <1>8, BookTyped
<1> QED
  BY <1>1, <1>6, <1>7, <1>8, <1>9, EventStep DEF BookRest

LEMMA BuildTimeOverStep ==
  ASSUME BookInv, NEW k \in Books, BuildTimeOver(k)
  PROVE  BookInv'
<1>1. PICK s \in Session : s = session[k]
  BY BookTyped
<1>2. PICK new : new = [s EXCEPT !.late = TRUE]
  OBVIOUS
<1>3. new \in Session /\ (BookWork(new) => BookWork(s) /\ new.port = s.port)
  BY <1>2 DEF Session, BookWork
<1>4. session' = [session EXCEPT ![k] = new] /\ UNCHANGED shell /\ BookRest
  BY <1>1, <1>2 DEF BuildTimeOver
<1>5. shell' \in [Shells -> Books \cup {NoBook}]
  BY <1>4, BookTyped
<1> QED
  BY <1>1, <1>3, <1>4, <1>5, EventStep DEF BookRest

LEMMA TerminalStep ==
  ASSUME BookInv, NEW w \in Shells, CommandOver(w) \/ ShellExit(w) \/ ShellError(w)
  PROVE  BookInv'
<1>1. shell \in [Shells -> Books \cup {NoBook}] /\ session \in [Books -> Session]
  BY BookTyped
<1>2. PICK k \in Books : k = shell[w]
  BY <1>1 DEF CommandOver, ShellExit, ShellError
<1>3. PICK s \in Session : s = session[k]
  BY <1>1
<1>4. PICK new \in Session : ~BookWork(new) /\ session' = [session EXCEPT ![k] = new]
  <2>1. CASE CommandOver(w)
    BY <1>2, <1>3, <2>1, SessionEnds DEF CommandOver
  <2>2. CASE ShellExit(w)
    <3>1. PICK t : t = IF s.state = "starting" THEN FailSession(s) ELSE MarkStopped(s)
      OBVIOUS
    <3>2. t \in Session /\ ~BookWork(t)
      BY <3>1, SessionEnds
    <3>3. session' = [session EXCEPT ![k] = t]
      BY <1>2, <1>3, <2>2, <3>1 DEF ShellExit
    <3> QED
      BY <3>2, <3>3
  <2>3. CASE ShellError(w)
    BY <1>2, <1>3, <2>3, SessionEnds DEF ShellError
  <2> QED
    BY <2>1, <2>2, <2>3
<1>5. shell' \in [Shells -> Books \cup {NoBook}] /\ BookRest
  BY <1>1 DEF CommandOver, ShellExit, ShellError
<1> QED
  BY <1>4, <1>5, EventStep DEF BookRest

LEMMA ShellIdleStep ==
  ASSUME BookInv, NEW w \in Shells, ShellIdle(w)
  PROVE  BookInv'
<1>1. /\ shell' = [shell EXCEPT ![w] = NoBook] /\ UNCHANGED session /\ BookRest
  BY DEF ShellIdle
<1>2. BookTypeOK'
  BY <1>1 DEF BookRest, BookInv, BookTypeOK
<1>3. BooksCalm(session, session')
  BY <1>1 DEF BooksCalm
<1> QED
  BY <1>1, <1>2, <1>3, CalmStep DEF BookRest

LEMMA BookMachineStep ==
  ASSUME BookInv, BookMachineGone \/ BookMachineBack
  PROVE  BookInv'
<1>1. session \in [Books -> Session]
  BY BookTyped
<1>2. CASE BookMachineGone
  <2>1. /\ losses' \in 0..MaxLosses /\ machineOn' = FALSE
        /\ session' = [k \in Books |->
             IF \E w \in Shells : shell[w] = k THEN FailSession(session[k]) ELSE session[k]]
        /\ shell' = [w \in Shells |-> NoBook]
        /\ UNCHANGED <<wish, saved, attempted, bookCall, halted, torn, wishes>>
    BY <1>2, LossBounded DEF BookMachineGone
  <2>2. \A k \in Books : session'[k] = FailSession(session[k]) \/ session'[k] = session[k]
    BY <2>1
  <2>3. session' \in [Books -> Session]
    BY <1>1, <2>1, SessionEnds
  <2>4. BooksCalm(session, session')
    BY <1>1, <2>2, SessionEnds DEF BooksCalm
  <2>5. BookTypeOK'
    BY <2>1, <2>3 DEF BookInv, BookTypeOK
  <2> QED
    BY <2>1, <2>4, <2>5, CalmStep
<1>3. CASE BookMachineBack
  <2>1. /\ machineOn' = TRUE
        /\ UNCHANGED <<session, wish, saved, attempted, bookCall, shell, halted, torn,
                       wishes, losses>>
    BY <1>3 DEF BookMachineBack
  <2>2. BookTypeOK' /\ BooksCalm(session, session')
    BY <2>1 DEF BookInv, BookTypeOK, BooksCalm
  <2> QED
    BY <2>1, <2>2, CalmStep
<1> QED
  BY <1>2, <1>3

(* A restart forgets the sessions and loads the wishes; those of a book    *)
(* that was stopped had been stored.                                       *)
LEMMA BookRestartStep ==
  ASSUME BookInv, BookRestart
  PROVE  BookInv'
<1>1. /\ losses' \in 0..MaxLosses
      /\ session' = [k \in Books |-> NoSession] /\ wish' = saved /\ attempted' = {}
      /\ bookCall' = [c \in Clients |-> NoBookCall]
      /\ shell' = [w \in Shells |-> NoBook] /\ machineOn' = FALSE /\ torn' = {}
      /\ UNCHANGED <<saved, halted, wishes>>
  BY LossBounded DEF BookRestart
<1>2. NoBookCall \in BookCall /\ NoBookCall.at = "idle"
  BY PortRange DEF NoBookCall, BookCall
<1>3. \A k \in Books : ~BookWork(session'[k])
  BY <1>1, SessionEnds
<1>4. BookTypeOK'
  BY <1>1, <1>2, SessionEnds DEF BookInv, BookTypeOK
<1>5. OneLane' /\ ProbeFree' /\ SavedFollows'
  BY <1>1, <1>2 DEF OneLane, ProbeFree, SavedFollows
<1>6. WorkWished' /\ PortsApart'
  BY <1>3 DEF WorkWished, PortsApart, AtWork, BookWork
<1>7. halted \subseteq Books
  BY DEF BookInv, BookTypeOK
<1>8. HaltedStays'
  BY <1>1, <1>2, <1>3, <1>7 DEF BookInv, HaltedStays
<1> QED
  BY <1>4, <1>5, <1>6, <1>8 DEF BookInv

LEMMA BookInitial == BookInit => BookInv
<1> SUFFICES ASSUME BookInit PROVE BookInv
  OBVIOUS
<1>1. /\ session = [k \in Books |-> NoSession]
      /\ wish = [k \in Books |-> 0] /\ saved = wish
      /\ attempted = {} /\ bookCall = [c \in Clients |-> NoBookCall]
      /\ shell = [w \in Shells |-> NoBook] /\ machineOn = TRUE
      /\ halted = {} /\ torn = {} /\ wishes = 0 /\ losses = 0
  BY DEF BookInit
<1>2. NoBookCall \in BookCall /\ NoBookCall.at = "idle"
  BY PortRange DEF NoBookCall, BookCall
<1>3. \A k \in Books : ~BookWork(session[k])
  BY <1>1, SessionEnds
<1>4. BookTypeOK
  BY <1>1, <1>2, SessionEnds, PortRange, BookAssumption DEF BookTypeOK
<1>5. OneLane /\ ProbeFree /\ SavedFollows /\ HaltedStays
  BY <1>1, <1>2 DEF OneLane, ProbeFree, SavedFollows, HaltedStays
<1>6. WorkWished /\ PortsApart
  BY <1>3 DEF WorkWished, PortsApart, AtWork, BookWork
<1> QED
  BY <1>4, <1>5, <1>6 DEF BookInv

LEMMA BookStep == BookInv /\ [BookNext]_bookVars => BookInv'
<1> SUFFICES ASSUME BookInv, [BookNext]_bookVars PROVE BookInv'
  OBVIOUS
<1>1. CASE BookNext
  BY <1>1, StartBookStep, StopBookStep, RefreshBookStep, ProbedStep, SavedStep, SaveFailsStep,
     ProbeTickStep, ProbeAnswerStep, BuildTimeOverStep, TerminalStep, ShellIdleStep,
     BookMachineStep, BookRestartStep DEF BookNext
<1>2. CASE UNCHANGED bookVars
  <2>1. BookTypeOK' /\ BooksCalm(session, session')
    BY <1>2 DEF bookVars, BookInv, BookTypeOK, BooksCalm
  <2> QED
    BY <1>2, <2>1, CalmStep DEF bookVars
<1> QED
  BY <1>1, <1>2

LEMMA BookInvariant == BookSpec => []BookInv
BY BookInitial, BookStep, PTL DEF BookSpec

(* Sessions, wishes, operations and terminals are well formed.             *)
THEOREM BookTypeCorrect == BookSpec => []BookTypeOK
<1>1. BookInv => BookTypeOK
  BY DEF BookInv
<1> QED
  BY <1>1, BookInvariant, PTL

(* Servers at work have ports of their own, for any number of books and    *)
(* clients, whatever the probes awaited and the restarts recovered.        *)
THEOREM PortsApartKept == BookSpec => []PortsApart
<1>1. BookInv => PortsApart
  BY DEF BookInv
<1> QED
  BY <1>1, BookInvariant, PTL

(* What a restart recovers is what was left at work, and a book whose stop *)
(* was answered comes back neither as a server nor as a wish.              *)
THEOREM WishesFollowKept == BookSpec => []WishesFollow
<1>1. ASSUME BookInv PROVE WishesFollow
  <2>1. ASSUME LaneFree, NEW k \in Books \ torn, AtWork(k) PROVE saved[k] = session[k].port
    <3>1. \A c \in Clients : bookCall[c].at = "idle"
      BY <2>1 DEF LaneFree
    <3>2. saved[k] = wish[k]
      BY <1>1, <2>1, <3>1 DEF BookInv, SavedFollows, Saving
    <3>3. wish[k] = session[k].port
      BY <1>1, <2>1, <3>1 DEF BookInv, WorkWished, AtWork, BookWork
    <3> QED
      BY <3>2, <3>3
  <2>2. \A k \in halted : ~AtWork(k) /\ saved[k] = 0
    BY <1>1 DEF BookInv, HaltedStays, AtWork, BookWork
  <2> QED
    BY <2>1, <2>2 DEF WishesFollow
<1> QED
  BY <1>1, BookInvariant, PTL

-----------------------------------------------------------------------------
(* The accounting of a turn.                                               *)

Carries(w, call) == \E m \in w : m.call = call
Listened(w, call) == \E m \in w : m.heard /\ m.call = call

(* The turn holds the job until it is over; the outbox tells how far it is. *)
Ordered ==
  /\ turn.active <=> turn.pc \notin {"new", "over"}
  /\ turn.pc # "over" =>
       rec.pc = "idle" /\ outbox.settlement = "none" /\ \A c \in RecCalls : ~Carries(wire, c)
  /\ turn.pc = "new" => outbox.state = "none" /\ turn.reply = "none"
  /\ turn.pc = "reserve" => outbox.state = "admitting"
  /\ turn.pc \in {"claim", "start", "dispatch"} => outbox.state = "claiming"
  /\ turn.pc = "running" => outbox.state = "dispatching"
  /\ rec.pc # "idle" => outbox.state \notin {"none", "admitting", "done"}
  /\ rec.pc = "receipt" => outbox.state \in {"dispatching", "settling"}

(* What has not been asked for yet.                                        *)
Unsent ==
  /\ outbox.state \in {"none", "admitting", "reserved"} =>
       ~Carries(wire, "start") /\ hold \in {"none", "reserved", "released"}
  /\ outbox.state \in {"none", "admitting", "reserved", "claiming"} =>
       ~Carries(wire, "run") /\ runner = "none" /\ outbox.settlement = "none"

(* No run has begun, and none will.                                        *)
NoRunAt == runner = "fenced" \/ (turn.pc = "over" /\ runner = "none" /\ ~Carries(wire, "run"))

(* What a reconciliation asks for, it has proved.                          *)
Proved ==
  /\ \/ \E c \in {"release", "zero"} : Carries(wire, c) \/ rec.pc = c
     \/ outbox.settlement = "zero"
     => NoRunAt
  /\ \/ \E c \in {"usage", "uncertain"} : Carries(wire, c) \/ rec.pc = c
     \/ outbox.settlement = "usage"
     => runner \in {"finished", "unknown"}

(* A run that has begun or that may begin is held or paid for.             *)
Paid ==
  /\ runner \in {"working", "finished", "unknown"} => hold \in {"running", "uncertain", "paid"}
  /\ Carries(wire, "run") /\ runner = "none" => hold = "running"

(* What an answer of Billing says of the hold.                             *)
Answers ==
  /\ turn.pc \in {"dispatch", "running"} \/ (turn.pc = "start" /\ turn.reply = "yes")
       => hold = "running"
  /\ rec.pc \in {"release", "zero", "usage"} /\ rec.reply = "yes"
       => hold \in {"released", "zero", "paid"}
  /\ outbox.state \in {"dispatching", "settling"} => hold \notin {"none", "reserved", "released"}
  /\ outbox.state = "done" =>
       hold \notin {"running", "uncertain"} /\ (hold \in {"none", "reserved"} => ~Carries(wire, "start"))

(* Who listens to a request waits for its answer.                          *)
Heard ==
  /\ \A c \in TurnCalls : Listened(wire, c) =>
       turn.reply = "none" /\ turn.pc = (IF c = "run" THEN "running" ELSE c)
  /\ \A c \in RecCalls : Listened(wire, c) => rec.pc = c /\ rec.reply = "none"

AccountingInv ==
  AccountingTypeOK /\ Ordered /\ Unsent /\ Proved /\ Answers /\ Paid /\ Heard

LEMMA AccountingInitial == AccountingInit => AccountingInv
<1> SUFFICES ASSUME AccountingInit PROVE AccountingInv
  OBVIOUS
<1>1. AccountingTypeOK
  <2>1. turn \in AccountedTurn
    BY DEF AccountingInit
  <2>2. outbox \in Outbox
    BY DEF AccountingInit, Outbox
  <2>3. rec \in Reconciliation
    BY DEF AccountingInit, Reconciliation, Resting
  <2>4. faults \in 0..Faults
    BY AccountingAssumption DEF AccountingInit
  <2> QED
    BY <2>1, <2>2, <2>3, <2>4 DEF AccountingInit, AccountingTypeOK
<1>2. \A c : ~Carries(wire, c) /\ ~Listened(wire, c)
  BY DEF AccountingInit, Carries, Listened
<1> QED
  BY <1>1, <1>2
  DEF AccountingInit, AccountingInv, Ordered, Unsent, Proved, Answers, Paid, Heard, Resting, NoRunAt

-----------------------------------------------------------------------------
(* The helpers: what becomes of a record and of the wire.                  *)

LEMMA TurnFields ==
  ASSUME turn \in AccountedTurn,
         NEW pc \in {"new", "reserve", "claim", "start", "dispatch", "running", "over"},
         TurnAt(pc)
  PROVE  turn' \in AccountedTurn /\ turn'.pc = pc /\ turn'.active = turn.active /\ turn'.reply = "none"
BY DEF TurnAt, AccountedTurn

LEMMA TurnOverFields ==
  ASSUME turn \in AccountedTurn, TurnOver
  PROVE  turn' \in AccountedTurn /\ turn'.pc = "over" /\ ~turn'.active /\ turn'.reply = "none"
BY DEF TurnOver, AccountedTurn

LEMMA StoreFields ==
  ASSUME outbox \in Outbox,
         NEW s \in {"none", "admitting", "reserved", "claiming", "dispatching", "settling", "done"},
         StoreState(s)
  PROVE  outbox' \in Outbox /\ outbox'.state = s /\ outbox'.settlement = outbox.settlement
BY DEF StoreState, Outbox

LEMMA AskWire ==
  ASSUME wire \subseteq [call : TurnCalls \cup RecCalls, heard : BOOLEAN],
         NEW c \in TurnCalls \cup RecCalls, Ask(c)
  PROVE  /\ wire' \subseteq [call : TurnCalls \cup RecCalls, heard : BOOLEAN]
         /\ \A d : Carries(wire', d) <=> Carries(wire, d) \/ d = c
         /\ \A d : Listened(wire', d) <=> Listened(wire, d) \/ d = c
<1> DEFINE n == [call |-> c, heard |-> TRUE]
<1>0. wire' = wire \cup {n} /\ n.call = c /\ n.heard /\ n \in [call : TurnCalls \cup RecCalls, heard : BOOLEAN]
  BY DEF Ask
<1> HIDE DEF n
<1>1. wire' = wire \cup {n} /\ n.call = c /\ n.heard /\ n \in [call : TurnCalls \cup RecCalls, heard : BOOLEAN]
  BY <1>0
<1>2. wire' \subseteq [call : TurnCalls \cup RecCalls, heard : BOOLEAN]
  BY <1>1
<1>3. \A d : Carries(wire', d) <=> Carries(wire, d) \/ d = c
  BY <1>1 DEF Carries
<1>4. \A d : Listened(wire', d) <=> Listened(wire, d) \/ d = c
  BY <1>1 DEF Listened
<1> QED
  BY <1>2, <1>3, <1>4

LEMMA UnheardWire ==
  ASSUME wire \subseteq [call : TurnCalls \cup RecCalls, heard : BOOLEAN],
         NEW calls, wire' = Unheard(calls)
  PROVE  /\ wire' \subseteq [call : TurnCalls \cup RecCalls, heard : BOOLEAN]
         /\ \A d : Carries(wire', d) <=> Carries(wire, d)
         /\ \A d : Listened(wire', d) <=> Listened(wire, d) /\ d \notin calls
<1>1. ASSUME NEW m \in wire
      PROVE  LET n == [m EXCEPT !.heard = @ /\ m.call \notin calls] IN
             /\ n \in [call : TurnCalls \cup RecCalls, heard : BOOLEAN] /\ n.call = m.call
             /\ n.heard = (m.heard /\ m.call \notin calls)
  <2>1. m \in [call : TurnCalls \cup RecCalls, heard : BOOLEAN]
    BY <1>1
  <2>2. (m.heard /\ m.call \notin calls) \in BOOLEAN
    OBVIOUS
  <2> QED
    BY <2>1, <2>2
<1>2. wire' = {[m EXCEPT !.heard = @ /\ m.call \notin calls] : m \in wire}
  BY DEF Unheard
<1>3. wire' \subseteq [call : TurnCalls \cup RecCalls, heard : BOOLEAN]
  BY <1>1, <1>2
<1>4. \A d : Carries(wire', d) <=> Carries(wire, d)
  BY ZenonT(60), <1>1, <1>2 DEF Carries
<1>5. \A d : Listened(wire', d) <=> Listened(wire, d) /\ d \notin calls
  BY <1>1, <1>2 DEF Listened
<1> QED
  BY <1>3, <1>4, <1>5

(* The types of the invariant, once for every step.                        *)
LEMMA AccountingTypes ==
  ASSUME AccountingInv
  PROVE  /\ turn \in AccountedTurn /\ outbox \in Outbox /\ rec \in Reconciliation
         /\ wire \subseteq [call : TurnCalls \cup RecCalls, heard : BOOLEAN]
         /\ hold \in {"none", "reserved", "running", "uncertain", "released", "zero", "paid"}
         /\ runner \in {"none", "working", "finished", "unknown", "fenced"}
         /\ faults \in 0..Faults
BY DEF AccountingInv, AccountingTypeOK

-----------------------------------------------------------------------------
(* The steps of the turn.                                                  *)

LEMMA AdmitTurnStep ==
  ASSUME AccountingInv, AdmitTurn
  PROVE  AccountingInv'
<1>1. /\ turn' = [turn EXCEPT !.pc = "reserve", !.active = TRUE] /\ turn.pc = "new"
      /\ StoreState("admitting") /\ Ask("reserve")
      /\ rec' = rec /\ hold' = hold /\ runner' = runner /\ expired' = expired
      /\ server' = server /\ faults' = faults
  BY DEF AdmitTurn, Elsewhere
<1>2. turn' \in AccountedTurn /\ turn'.pc = "reserve" /\ turn'.active /\ turn'.reply = turn.reply
  BY <1>1, AccountingTypes DEF AccountedTurn
<1>3. /\ outbox' \in Outbox /\ outbox'.state = "admitting" /\ outbox'.settlement = outbox.settlement
  BY <1>1, AccountingTypes, StoreFields
<1>4. /\ wire' \subseteq [call : TurnCalls \cup RecCalls, heard : BOOLEAN]
      /\ \A d : Carries(wire', d) <=> Carries(wire, d) \/ d = "reserve"
      /\ \A d : Listened(wire', d) <=> Listened(wire, d) \/ d = "reserve"
  BY <1>1, AccountingTypes, AskWire DEF TurnCalls
<1>5. AccountingTypeOK'
  BY <1>1, <1>2, <1>3, <1>4 DEF AccountingInv, AccountingTypeOK
<1>6. Ordered' /\ Unsent'
  BY <1>1, <1>2, <1>3, <1>4 DEF AccountingInv, Ordered, Unsent, RecCalls
<1>7. Proved'
  BY <1>1, <1>2, <1>3, <1>4 DEF AccountingInv, Ordered, Proved, NoRunAt, RecCalls
<1>8. Answers'
  BY <1>1, <1>2, <1>3, <1>4 DEF AccountingInv, Ordered, Answers
<1>9. Paid'
  BY <1>1, <1>4 DEF AccountingInv, Paid
<1>10. Heard'
  BY <1>1, <1>2, <1>4 DEF AccountingInv, Ordered, Heard, TurnCalls, RecCalls
<1> QED
  BY <1>5, <1>6, <1>7, <1>8, <1>9, <1>10 DEF AccountingInv

(* A step that ends the turn or the reconciliation, or neither, and asks   *)
(* for nothing.                                                            *)
LEMMA EndsKeep ==
  ASSUME AccountingInv, outbox' = outbox, hold' = hold, runner' = runner,
         turn' \in AccountedTurn,
         \/ turn'.pc = turn.pc /\ turn'.active = turn.active /\ turn'.reply = turn.reply
         \/ turn'.pc = "over" /\ ~turn'.active,
         rec' = rec \/ rec' = Resting,
         wire' \subseteq [call : TurnCalls \cup RecCalls, heard : BOOLEAN],
         \A d : Carries(wire', d) <=> Carries(wire, d), Heard',
         expired' \in BOOLEAN, server' \in {"up", "stopping", "closing"}, faults' \in 0..Faults
  PROVE  AccountingInv'
<1>1. rec' \in Reconciliation /\ (rec'.pc = "idle" \/ rec' = rec)
  BY AccountingTypes DEF Resting, Reconciliation
<1>2. AccountingTypeOK'
  BY <1>1 DEF AccountingInv, AccountingTypeOK
<1>3. Ordered' /\ Unsent'
  BY <1>1 DEF AccountingInv, Ordered, Unsent
<1>4. Proved'
  BY <1>1 DEF AccountingInv, Proved, NoRunAt
<1>5. Answers'
  BY <1>1 DEF AccountingInv, Answers
<1>6. Paid'
  BY DEF AccountingInv, Paid
<1> QED
  BY <1>2, <1>3, <1>4, <1>5, <1>6 DEF AccountingInv

LEMMA FaultType ==
  ASSUME AccountingInv, Fault
  PROVE  faults' \in 0..Faults
BY AccountingAssumption DEF Fault, AccountingInv, AccountingTypeOK

LEMMA OtherTypes ==
  ASSUME AccountingInv
  PROVE  /\ expired \in BOOLEAN /\ server \in {"up", "stopping", "closing"}
         /\ faults \in 0..Faults
BY DEF AccountingInv, AccountingTypeOK

(* Steps after which the turn is over and the rest is as it was.           *)
LEMMA TurnEndsStep ==
  ASSUME AccountingInv, TurnOver, UNCHANGED <<outbox, rec, Elsewhere>>,
         \/ wire' = Unheard(TurnCalls)
         \/ wire' = wire /\ (turn.pc \in {"claim", "dispatch"} \/ turn.reply # "none"),
         faults' = faults \/ Fault
  PROVE  AccountingInv'
<1>1. /\ outbox' = outbox /\ rec' = rec /\ hold' = hold /\ runner' = runner
      /\ expired' = expired /\ server' = server
  BY DEF Elsewhere
<1>2. turn' \in AccountedTurn /\ turn'.pc = "over" /\ ~turn'.active
  BY AccountingTypes, TurnOverFields
<1>3. /\ wire' \subseteq [call : TurnCalls \cup RecCalls, heard : BOOLEAN]
      /\ \A d : Carries(wire', d) <=> Carries(wire, d)
  BY AccountingTypes, UnheardWire
<1>4. faults' \in 0..Faults
  BY OtherTypes, FaultType
<1>5. \A c \in TurnCalls : ~Listened(wire', c)
  BY AccountingTypes, UnheardWire DEF AccountingInv, Heard, TurnCalls
<1>6. \A c \in RecCalls : Listened(wire', c) => Listened(wire, c)
  BY AccountingTypes, UnheardWire
<1>7. Heard'
  BY <1>1, <1>5, <1>6 DEF AccountingInv, Heard
<1> QED
  BY <1>1, <1>2, <1>3, <1>4, <1>7, OtherTypes, EndsKeep

LEMMA ReservedStep ==
  ASSUME AccountingInv, Reserved
  PROVE  AccountingInv'
<1>0. \A c \in TurnCalls : ~Listened(wire, c)
  BY DEF AccountingInv, Heard, Reserved
<1>1. /\ turn.pc = "reserve" /\ rec' = rec /\ wire' = wire /\ hold' = hold /\ runner' = runner
      /\ expired' = expired /\ server' = server /\ faults' = faults
      /\ \/ StoreState("reserved") /\ TurnOver
         \/ StoreState("claiming") /\ TurnAt("claim")
  BY DEF Reserved, Elsewhere
<1>2. /\ outbox' \in Outbox /\ outbox'.settlement = outbox.settlement /\ turn' \in AccountedTurn
      /\ \/ outbox'.state = "reserved" /\ turn'.pc = "over" /\ ~turn'.active
         \/ outbox'.state = "claiming" /\ turn'.pc = "claim" /\ turn'.active = turn.active
  BY <1>1, AccountingTypes, StoreFields, TurnOverFields, TurnFields
<1>3. AccountingTypeOK'
  BY <1>1, <1>2 DEF AccountingInv, AccountingTypeOK
<1>4. Ordered' /\ Unsent'
  BY <1>1, <1>2 DEF AccountingInv, Ordered, Unsent
<1>5. Proved' /\ Answers'
  BY <1>1, <1>2 DEF AccountingInv, Ordered, Proved, NoRunAt, Answers
<1>6. Paid'
  BY <1>1 DEF AccountingInv, Paid
<1>7. Heard'
  BY <1>0, <1>1 DEF AccountingInv, Heard
<1> QED
  BY <1>3, <1>4, <1>5, <1>6, <1>7 DEF AccountingInv

LEMMA RefusedStep ==
  ASSUME AccountingInv, Refused
  PROVE  AccountingInv'
<1>0. \A c \in TurnCalls : ~Listened(wire, c)
  BY DEF AccountingInv, Heard, Refused
<1>1. /\ turn.pc = "reserve" /\ rec' = rec /\ wire' = wire /\ hold' = hold /\ runner' = runner
      /\ expired' = expired /\ server' = server /\ faults' = faults
      /\ StoreState("done") /\ TurnOver
  BY DEF Refused, Elsewhere
<1>2. /\ outbox' \in Outbox /\ outbox'.settlement = outbox.settlement /\ outbox'.state = "done"
      /\ turn' \in AccountedTurn /\ turn'.pc = "over" /\ ~turn'.active
  BY <1>1, AccountingTypes, StoreFields, TurnOverFields
<1>3. AccountingTypeOK'
  BY <1>1, <1>2 DEF AccountingInv, AccountingTypeOK
<1>4. Ordered' /\ Unsent'
  BY <1>1, <1>2 DEF AccountingInv, Ordered, Unsent
<1>5. Proved'
  BY <1>1, <1>2 DEF AccountingInv, Ordered, Proved, NoRunAt
<1>6. Answers'
  BY <1>1, <1>2 DEF AccountingInv, Ordered, Unsent, Answers
<1>7. Paid'
  BY <1>1 DEF AccountingInv, Paid
<1>8. Heard'
  BY <1>0, <1>1 DEF AccountingInv, Heard
<1> QED
  BY <1>3, <1>4, <1>5, <1>6, <1>7, <1>8 DEF AccountingInv

LEMMA ClaimStep ==
  ASSUME AccountingInv, Claim
  PROVE  AccountingInv'
<1>1. /\ turn.pc = "claim" /\ outbox' = outbox /\ rec' = rec /\ hold' = hold /\ runner' = runner
      /\ expired' = expired /\ server' = server /\ faults' = faults
      /\ turn' \in AccountedTurn /\ turn'.pc = "start" /\ turn'.active = turn.active
      /\ turn'.reply = "none"
  BY AccountingTypes, TurnFields DEF Claim, Elsewhere
<1>2. /\ wire' \subseteq [call : TurnCalls \cup RecCalls, heard : BOOLEAN]
      /\ \A d : Carries(wire', d) <=> Carries(wire, d) \/ d = "start"
      /\ \A d : Listened(wire', d) <=> Listened(wire, d) \/ d = "start"
  BY AccountingTypes, AskWire DEF Claim, TurnCalls
<1>3. AccountingTypeOK'
  BY <1>1, <1>2 DEF AccountingInv, AccountingTypeOK
<1>4. Ordered' /\ Unsent'
  BY <1>1, <1>2 DEF AccountingInv, Ordered, Unsent, RecCalls
<1>5. Proved'
  BY <1>1, <1>2 DEF AccountingInv, Proved, NoRunAt
<1>6. Answers' /\ Paid'
  BY <1>1, <1>2 DEF AccountingInv, Ordered, Answers, Paid
<1>7. Heard'
  BY <1>1, <1>2 DEF AccountingInv, Heard, TurnCalls, RecCalls
<1> QED
  BY <1>3, <1>4, <1>5, <1>6, <1>7 DEF AccountingInv

LEMMA ClaimAnsweredStep ==
  ASSUME AccountingInv, ClaimAnswered
  PROVE  AccountingInv'
<1>1. CASE turn.reply = "yes" /\ ~turn.cancelled
  <2>1. /\ turn.pc = "start" /\ outbox' = outbox /\ rec' = rec /\ hold' = hold /\ runner' = runner
        /\ expired' = expired /\ server' = server /\ faults' = faults /\ wire' = wire
        /\ turn' \in AccountedTurn /\ turn'.pc = "dispatch" /\ turn'.active = turn.active
    BY <1>1, AccountingTypes, TurnFields DEF ClaimAnswered, Elsewhere
  <2>2. AccountingTypeOK'
    BY <2>1 DEF AccountingInv, AccountingTypeOK
  <2>3. Ordered' /\ Unsent'
    BY <2>1 DEF AccountingInv, Ordered, Unsent
  <2>4. Proved' /\ Answers' /\ Paid'
    BY <1>1, <2>1 DEF AccountingInv, Ordered, Proved, NoRunAt, Answers, Paid
  <2>5. Heard'
    BY <1>1, <2>1 DEF AccountingInv, Heard
  <2> QED
    BY <2>2, <2>3, <2>4, <2>5 DEF AccountingInv
<1>2. CASE ~(turn.reply = "yes" /\ ~turn.cancelled)
  BY <1>2, TurnEndsStep DEF ClaimAnswered
<1> QED
  BY <1>1, <1>2

LEMMA DispatchRunStep ==
  ASSUME AccountingInv, DispatchRun
  PROVE  AccountingInv'
<1>1. CASE turn.cancelled
  BY <1>1, TurnEndsStep DEF DispatchRun
<1>2. CASE ~turn.cancelled
  <2>1. /\ turn.pc = "dispatch" /\ rec' = rec /\ hold' = hold /\ runner' = runner
        /\ expired' = expired /\ server' = server /\ faults' = faults
        /\ turn' \in AccountedTurn /\ turn'.pc = "running" /\ turn'.active = turn.active
        /\ turn'.reply = "none"
    BY <1>2, AccountingTypes, TurnFields DEF DispatchRun, Elsewhere
  <2>2. /\ outbox' \in Outbox /\ outbox'.state = "dispatching"
        /\ outbox'.settlement = outbox.settlement
    BY <1>2, AccountingTypes, StoreFields DEF DispatchRun
  <2>3. /\ wire' \subseteq [call : TurnCalls \cup RecCalls, heard : BOOLEAN]
        /\ \A d : Carries(wire', d) <=> Carries(wire, d) \/ d = "run"
        /\ \A d : Listened(wire', d) <=> Listened(wire, d) \/ d = "run"
    BY <1>2, AccountingTypes, AskWire DEF DispatchRun, TurnCalls
  <2>4. AccountingTypeOK'
    BY <2>1, <2>2, <2>3 DEF AccountingInv, AccountingTypeOK
  <2>5. Ordered' /\ Unsent'
    BY <2>1, <2>2, <2>3 DEF AccountingInv, Ordered, Unsent, RecCalls
  <2>6. Proved'
    BY <2>1, <2>2, <2>3 DEF AccountingInv, Ordered, Proved, NoRunAt, RecCalls
  <2>7. Answers' /\ Paid'
    BY <2>1, <2>2, <2>3 DEF AccountingInv, Ordered, Answers, Paid
  <2>8. Heard'
    BY <2>1, <2>3 DEF AccountingInv, Heard, TurnCalls, RecCalls
  <2> QED
    BY <2>4, <2>5, <2>6, <2>7, <2>8 DEF AccountingInv
<1> QED
  BY <1>1, <1>2

LEMMA CancelTurnStep ==
  ASSUME AccountingInv, CancelTurn
  PROVE  AccountingInv'
<1>1. /\ outbox' = outbox /\ rec' = rec /\ hold' = hold /\ runner' = runner
      /\ expired' = expired /\ server' = server /\ faults' = faults
  BY DEF CancelTurn, Elsewhere
<1>2. /\ wire' \subseteq [call : TurnCalls \cup RecCalls, heard : BOOLEAN]
      /\ \A d : Carries(wire', d) <=> Carries(wire, d)
  BY AccountingTypes, UnheardWire DEF CancelTurn
<1>3. /\ turn' \in AccountedTurn
      /\ \/ turn'.pc = turn.pc /\ turn'.active = turn.active /\ turn'.reply = turn.reply
         \/ turn'.pc = "over" /\ ~turn'.active
  BY ZenonT(60), AccountingTypes DEF CancelTurn, AccountedTurn
<1>4. Heard'
  <2>1. CASE turn'.pc = turn.pc /\ turn'.reply = turn.reply
    <3>1. \A d : Listened(wire', d) => Listened(wire, d)
      BY AccountingTypes, UnheardWire DEF CancelTurn
    <3> QED
      BY <1>1, <2>1, <3>1 DEF AccountingInv, Heard
  <2>2. CASE wire' = Unheard(TurnCalls)
    <3>1. \A d : Listened(wire', d) <=> Listened(wire, d) /\ d \notin TurnCalls
      BY <2>2, AccountingTypes, UnheardWire
    <3> QED
      BY <1>1, <3>1 DEF AccountingInv, Heard
  <2> QED
    BY <2>1, <2>2, AccountingTypes DEF CancelTurn, AccountedTurn
<1> QED
  BY <1>1, <1>2, <1>3, <1>4, OtherTypes, EndsKeep

LEMMA TurnStep ==
  ASSUME AccountingInv,
         AdmitTurn \/ TurnSteps \/ Unauthorized \/ TurnCallFails \/ CancelTurn
  PROVE  AccountingInv'
<1>1. CASE Unauthorized
  BY <1>1, TurnEndsStep DEF Unauthorized
<1>2. CASE TurnCallFails
  BY <1>2, TurnEndsStep DEF TurnCallFails
<1>3. CASE CompleteTurn
  BY <1>3, TurnEndsStep DEF CompleteTurn
<1> QED
  BY <1>1, <1>2, <1>3, AdmitTurnStep, ReservedStep, RefusedStep, ClaimStep, ClaimAnsweredStep,
     DispatchRunStep, CancelTurnStep
  DEF TurnSteps

-----------------------------------------------------------------------------
(* The steps of the reconciliation.                                        *)

LEMMA RestingFields ==
  /\ Resting \in Reconciliation /\ Resting.pc = "idle" /\ Resting.reply = "none"
BY DEF Resting, Reconciliation

LEMMA RecFields ==
  ASSUME rec \in Reconciliation, NEW c \in RecCalls, rec' = [rec EXCEPT !.pc = c, !.reply = "none"]
  PROVE  rec' \in Reconciliation /\ rec'.pc = c /\ rec'.reply = "none"
BY DEF Reconciliation

(* A reconciliation works for a turn that is over.                         *)
LEMMA RecAlone ==
  ASSUME AccountingInv, rec.pc # "idle"
  PROVE  turn.pc = "over" /\ ~turn.active
BY DEF AccountingInv, Ordered

LEMMA ReconcileJobStep ==
  ASSUME AccountingInv, ReconcileJob
  PROVE  AccountingInv'
<1>1. /\ turn' = turn /\ wire' = wire /\ hold' = hold /\ runner' = runner /\ expired' = expired
      /\ server' = server /\ faults' = faults /\ outbox.state \notin {"none", "done"}
      /\ rec.pc = "idle" /\ ~turn.active
  BY DEF ReconcileJob, Elsewhere, Pending
<1>2. turn.pc = "over"
  BY <1>1, AccountingTypes DEF AccountingInv, Ordered, AccountedTurn
<1>3. CASE outbox.state = "admitting"
  <2>1. /\ outbox' \in Outbox /\ outbox'.state = "done" /\ outbox'.settlement = outbox.settlement
        /\ rec' = rec
    BY <1>3, AccountingTypes, StoreFields DEF ReconcileJob
  <2>2. AccountingTypeOK'
    BY <1>1, <2>1 DEF AccountingInv, AccountingTypeOK
  <2>3. Ordered' /\ Unsent'
    BY <1>1, <1>2, <2>1 DEF AccountingInv, Ordered, Unsent
  <2>4. Proved' /\ Paid'
    BY <1>1, <2>1 DEF AccountingInv, Proved, NoRunAt, Paid
  <2>5. Answers'
    BY <1>1, <1>2, <1>3, <2>1 DEF AccountingInv, Unsent, Answers
  <2>6. Heard'
    BY <1>1, <2>1 DEF AccountingInv, Heard
  <2> QED
    BY <2>2, <2>3, <2>4, <2>5, <2>6 DEF AccountingInv
<1>4. CASE outbox.state # "admitting"
  <2>1. rec' \in Reconciliation /\ rec'.pc = "get" /\ outbox' = outbox
    BY <1>4, AccountingTypes DEF ReconcileJob, Reconciliation
  <2>2. AccountingTypeOK'
    BY <1>1, <2>1 DEF AccountingInv, AccountingTypeOK
  <2>3. Ordered' /\ Unsent'
    BY <1>1, <1>2, <1>4, <2>1 DEF AccountingInv, Ordered, Unsent
  <2>4. Proved' /\ Paid' /\ Answers'
    BY <1>1, <1>2, <2>1 DEF AccountingInv, Proved, NoRunAt, Paid, Answers
  <2>5. Heard'
    BY <1>1, <2>1 DEF AccountingInv, Heard, RecCalls
  <2> QED
    BY <2>2, <2>3, <2>4, <2>5 DEF AccountingInv
<1> QED
  BY <1>3, <1>4

(* The reconciliation asks Billing for what the outbox and the receipt     *)
(* have proved.                                                            *)
LEMMA AsksKeep ==
  ASSUME AccountingInv, rec.pc \in {"get", "receipt"}, NEW c \in RecCalls, RecAsks(c),
         turn' = turn, hold' = hold, expired' = expired, server' = server, faults' = faults,
         runner' \in {"none", "working", "finished", "unknown", "fenced"},
         runner' = runner \/ (runner = "none" /\ runner' = "fenced"),
         \/ outbox' = outbox /\ runner' = runner
         \/ /\ outbox' \in Outbox /\ outbox'.state = "settling"
            /\ outbox.state \in {"dispatching", "settling"}
            /\ outbox'.settlement \in {"zero", "usage"}
            /\ outbox'.settlement = "zero" => c = "zero"
            /\ outbox'.settlement = "usage" => c = "usage",
         c \in {"release", "zero"} =>
           runner' = "fenced" \/ (runner' = "none" /\ ~Carries(wire, "run")),
         c \in {"usage", "uncertain"} => runner' \in {"finished", "unknown"}
  PROVE  AccountingInv'
<1>1. rec' \in Reconciliation /\ rec'.pc = c /\ rec'.reply = "none"
  BY AccountingTypes, RecFields DEF RecAsks
<1>2. /\ wire' \subseteq [call : TurnCalls \cup RecCalls, heard : BOOLEAN]
      /\ \A d : Carries(wire', d) <=> Carries(wire, d) \/ d = c
      /\ \A d : Listened(wire', d) <=> Listened(wire, d) \/ d = c
  BY AccountingTypes, AskWire DEF RecAsks
<1>3. turn.pc = "over" /\ ~turn.active /\ c \notin {"run", "start"}
  BY RecAlone DEF RecCalls
<1>4. AccountingTypeOK'
  BY <1>1, <1>2 DEF AccountingInv, AccountingTypeOK
<1>5. Ordered'
  BY <1>1, <1>3 DEF AccountingInv, Ordered, RecCalls
<1>6. Unsent'
  <2>1. CASE outbox' = outbox /\ runner' = runner
    BY <1>2, <1>3, <2>1 DEF AccountingInv, Unsent
  <2>2. CASE outbox'.state = "settling"
    BY <2>2 DEF Unsent
  <2> QED
    BY <2>1, <2>2
<1>7. NoRunAt => NoRunAt'
  BY <1>2, <1>3 DEF NoRunAt
<1>8. Proved'
  BY <1>1, <1>2, <1>3, <1>7 DEF AccountingInv, Proved, NoRunAt
<1>9. Answers' /\ Paid'
  BY <1>1, <1>2, <1>3 DEF AccountingInv, Answers, Paid
<1>10. Heard'
  BY <1>1, <1>2 DEF AccountingInv, Heard, TurnCalls, RecCalls
<1> QED
  BY <1>4, <1>5, <1>6, <1>8, <1>9, <1>10 DEF AccountingInv

LEMMA CurrentHoldStep ==
  ASSUME AccountingInv, CurrentHold
  PROVE  AccountingInv'
<1>1. /\ turn' = turn /\ hold' = hold /\ runner' = runner /\ expired' = expired
      /\ server' = server /\ faults' = faults /\ rec.pc = "get"
  BY DEF CurrentHold, Elsewhere
<1>2. turn.pc = "over" /\ ~turn.active
  BY <1>1, RecAlone
<1>3. CASE hold \in {"released", "zero", "paid"}
  <2>1. /\ outbox' \in Outbox /\ outbox'.state = "done" /\ outbox'.settlement = outbox.settlement
        /\ rec' = Resting /\ wire' = wire
    BY <1>3, AccountingTypes, StoreFields DEF CurrentHold
  <2>2. AccountingTypeOK'
    BY <1>1, <2>1, RestingFields DEF AccountingInv, AccountingTypeOK
  <2>3. Ordered' /\ Unsent'
    BY <1>1, <1>2, <2>1, RestingFields DEF AccountingInv, Ordered, Unsent
  <2>4. Proved' /\ Paid'
    BY <1>1, <2>1, RestingFields DEF AccountingInv, Proved, NoRunAt, Paid
  <2>5. Answers'
    BY <1>1, <1>2, <1>3, <2>1, RestingFields DEF AccountingInv, Answers
  <2>6. Heard'
    BY <1>1, <2>1 DEF AccountingInv, Heard, RecCalls
  <2> QED
    BY <2>2, <2>3, <2>4, <2>5, <2>6 DEF AccountingInv
<1>4. CASE hold \notin {"released", "zero", "paid"}
  <2>1. outbox' = outbox
    BY <1>4 DEF CurrentHold
  <2>2. CASE outbox.state \in {"reserved", "claiming"}
    <3>1. RecAsks("release") \/ RecAsks("zero")
      BY <1>4, <2>2 DEF CurrentHold
    <3>2. runner = "none" /\ ~Carries(wire, "run")
      BY <2>2 DEF AccountingInv, Unsent
    <3> QED
      BY <1>1, <2>1, <3>1, <3>2, AccountingTypes, AsksKeep DEF RecCalls
  <2>3. CASE outbox.state \notin {"reserved", "claiming"} /\ outbox.settlement # "none"
    <3>1. RecAsks(outbox.settlement) /\ outbox.settlement \in {"zero", "usage"}
      BY <1>4, <2>3, AccountingTypes DEF CurrentHold, Outbox
    <3>2. outbox.settlement = "zero" => NoRunAt
      BY DEF AccountingInv, Proved
    <3>3. outbox.settlement = "usage" => runner \in {"finished", "unknown"}
      BY DEF AccountingInv, Proved
    <3>4. CASE outbox.settlement = "zero"
      <4>1. RecAsks("zero") /\ (runner = "fenced" \/ (runner = "none" /\ ~Carries(wire, "run")))
        BY <3>1, <3>2, <3>4 DEF NoRunAt
      <4> QED
        BY <1>1, <2>1, <4>1, AccountingTypes, AsksKeep DEF RecCalls
    <3>5. CASE outbox.settlement = "usage"
      <4>1. RecAsks("usage") /\ runner \in {"finished", "unknown"}
        BY <3>1, <3>3, <3>5
      <4> QED
        BY <1>1, <2>1, <4>1, AccountingTypes, AsksKeep DEF RecCalls
    <3> QED
      BY <3>1, <3>4, <3>5
  <2>4. CASE outbox.state \notin {"reserved", "claiming"} /\ outbox.settlement = "none"
    <3>1. rec' = [rec EXCEPT !.pc = "receipt", !.seen = hold] /\ wire' = wire
      BY <1>4, <2>4 DEF CurrentHold
    <3>2. hold \in {"none", "reserved", "running", "uncertain"}
      BY <1>4, AccountingTypes
    <3>3. outbox.state \in {"dispatching", "settling"}
      BY <1>1, <2>4, AccountingTypes DEF AccountingInv, Ordered, Outbox
    <3>4. hold \in {"running", "uncertain"}
      BY <3>2, <3>3 DEF AccountingInv, Answers
    <3>5. rec' \in Reconciliation /\ rec'.pc = "receipt"
      BY <3>1, <3>4, AccountingTypes DEF Reconciliation
    <3>6. AccountingTypeOK'
      BY <1>1, <2>1, <3>1, <3>5 DEF AccountingInv, AccountingTypeOK
    <3>7. Ordered' /\ Unsent'
      BY <1>1, <1>2, <2>1, <3>1, <3>3, <3>5 DEF AccountingInv, Ordered, Unsent
    <3>8. Proved' /\ Answers' /\ Paid'
      BY <1>1, <1>2, <2>1, <3>1, <3>5 DEF AccountingInv, Proved, NoRunAt, Answers, Paid
    <3>9. Heard'
      BY <1>1, <3>1 DEF AccountingInv, Heard, RecCalls
    <3> QED
      BY <3>6, <3>7, <3>8, <3>9 DEF AccountingInv
  <2> QED
    BY <2>2, <2>3, <2>4
<1> QED
  BY <1>3, <1>4

LEMMA ReceiptStep ==
  ASSUME AccountingInv, Receipt
  PROVE  AccountingInv'
<1> DEFINE told == IF runner = "none" THEN "fenced" ELSE runner
<1>1. /\ turn' = turn /\ hold' = hold /\ expired' = expired /\ server' = server /\ faults' = faults
      /\ rec.pc = "receipt" /\ runner' = told
      /\ told \in {"working", "finished", "unknown", "fenced"}
      /\ told = runner \/ (runner = "none" /\ told = "fenced")
  BY AccountingTypes DEF Receipt
<1>2. turn.pc = "over" /\ ~turn.active /\ outbox.state \in {"dispatching", "settling"}
  BY <1>1, RecAlone DEF AccountingInv, Ordered
<1>3. CASE told = "fenced"
  <2>1. outbox' = [state |-> "settling", settlement |-> "zero"] /\ RecAsks("zero")
    BY <1>3 DEF Receipt
  <2>2. outbox' \in Outbox /\ outbox'.state = "settling" /\ outbox'.settlement = "zero"
    BY <2>1 DEF Outbox
  <2> QED
    BY <1>1, <1>2, <1>3, <2>1, <2>2, AsksKeep DEF RecCalls
<1>4. CASE told = "finished"
  <2>1. outbox' = [state |-> "settling", settlement |-> "usage"] /\ RecAsks("usage")
    BY <1>4 DEF Receipt
  <2>2. outbox' \in Outbox /\ outbox'.state = "settling" /\ outbox'.settlement = "usage"
    BY <2>1 DEF Outbox
  <2> QED
    BY <1>1, <1>2, <1>4, <2>1, <2>2, AsksKeep DEF RecCalls
<1>5. CASE told \in {"working", "unknown"}
  <2>1. outbox' = outbox /\ runner' = runner
    BY <1>1, <1>5 DEF Receipt
  <2>2. CASE told = "unknown" /\ RecAsks("uncertain")
    BY <1>1, <2>1, <2>2, AsksKeep DEF RecCalls
  <2>3. CASE rec' = Resting /\ wire' = wire
    <3>1. Heard'
      BY <1>1, <2>3 DEF AccountingInv, Heard, RecCalls
    <3> QED
      BY <1>1, <2>1, <2>3, <3>1, AccountingTypes, OtherTypes, EndsKeep
  <2> QED
    BY <1>5, <2>2, <2>3 DEF Receipt
<1> QED
  BY <1>1, <1>3, <1>4, <1>5

LEMMA RecAnsweredStep ==
  ASSUME AccountingInv, RecAnswered
  PROVE  AccountingInv'
<1>1. /\ turn' = turn /\ wire' = wire /\ hold' = hold /\ runner' = runner /\ expired' = expired
      /\ server' = server /\ faults' = faults /\ rec' = Resting
      /\ rec.pc \in RecCalls /\ rec.reply # "none"
  BY DEF RecAnswered, Elsewhere
<1>0. Heard'
  BY <1>1 DEF AccountingInv, Heard
<1>2. CASE rec.reply = "yes" /\ rec.pc # "uncertain"
  <2>1. /\ outbox' \in Outbox /\ outbox'.state = "done" /\ outbox'.settlement = outbox.settlement
    BY <1>2, AccountingTypes, StoreFields DEF RecAnswered
  <2>2. hold \in {"released", "zero", "paid"} /\ turn.pc = "over" /\ ~turn.active
    BY <1>1, <1>2, RecAlone DEF AccountingInv, Answers, RecCalls
  <2>3. AccountingTypeOK'
    BY <1>1, <2>1, RestingFields DEF AccountingInv, AccountingTypeOK
  <2>4. Ordered' /\ Unsent'
    BY <1>1, <2>1, <2>2, RestingFields DEF AccountingInv, Ordered, Unsent
  <2>5. Proved' /\ Paid'
    BY <1>1, <2>1, RestingFields DEF AccountingInv, Proved, NoRunAt, Paid
  <2>6. Answers'
    BY <1>1, <2>1, <2>2, RestingFields DEF AccountingInv, Answers
  <2> QED
    BY <1>0, <2>3, <2>4, <2>5, <2>6 DEF AccountingInv
<1>3. CASE ~(rec.reply = "yes" /\ rec.pc # "uncertain")
  <2>1. outbox' = outbox
    BY <1>3 DEF RecAnswered
  <2> QED
    BY <1>0, <1>1, <2>1, AccountingTypes, OtherTypes, EndsKeep
<1> QED
  BY <1>2, <1>3

LEMMA RecFailsStep ==
  ASSUME AccountingInv, RecFails
  PROVE  AccountingInv'
<1>1. /\ turn' = turn /\ outbox' = outbox /\ hold' = hold /\ runner' = runner
      /\ expired' = expired /\ server' = server /\ rec' = Resting
      /\ wire' = Unheard(RecCalls) /\ Fault
  BY DEF RecFails, Elsewhere
<1>2. /\ wire' \subseteq [call : TurnCalls \cup RecCalls, heard : BOOLEAN]
      /\ \A d : Carries(wire', d) <=> Carries(wire, d)
      /\ \A d : Listened(wire', d) <=> Listened(wire, d) /\ d \notin RecCalls
  BY <1>1, AccountingTypes, UnheardWire
<1>3. faults' \in 0..Faults
  BY <1>1, FaultType
<1>4. Heard'
  BY <1>1, <1>2 DEF AccountingInv, Heard
<1> QED
  BY <1>1, <1>2, <1>3, <1>4, AccountingTypes, OtherTypes, EndsKeep

-----------------------------------------------------------------------------
(* Billing, the executor and the process.                                  *)

(* A request that arrives: its caller may hear of it.                      *)
LEMMA ArrivedWire ==
  ASSUME wire \subseteq [call : TurnCalls \cup RecCalls, heard : BOOLEAN],
         NEW m \in wire, wire' = wire \ {m}
  PROVE  /\ wire' \subseteq [call : TurnCalls \cup RecCalls, heard : BOOLEAN]
         /\ \A d : Carries(wire', d) => Carries(wire, d)
         /\ \A d : Listened(wire', d) => Listened(wire, d)
         /\ Carries(wire, m.call) /\ m.call \in TurnCalls \cup RecCalls
         /\ m.heard => Listened(wire, m.call) /\ ~Listened(wire', m.call)
<1>1. \A n \in wire : n = [call |-> n.call, heard |-> n.heard] /\ n.heard \in BOOLEAN
  OBVIOUS
<1>2. \A n \in wire : n.heard /\ m.heard /\ n.call = m.call => n = m
  BY <1>1
<1>3. m.heard => ~Listened(wire', m.call)
  BY <1>2 DEF Listened
<1> QED
  BY <1>3 DEF Carries, Listened

LEMMA ToldFields ==
  ASSUME turn \in AccountedTurn, rec \in Reconciliation, NEW m, NEW reply \in {"yes", "no"},
         TellCaller(m, reply)
  PROVE  /\ turn' \in AccountedTurn /\ turn'.pc = turn.pc /\ turn'.active = turn.active
         /\ turn'.reply = turn.reply \/ (m.heard /\ m.call \in TurnCalls /\ turn'.reply = reply)
         /\ rec' \in Reconciliation /\ rec'.pc = rec.pc
         /\ rec'.reply = rec.reply \/ (m.heard /\ m.call \in RecCalls /\ rec'.reply = reply)
BY DEF TellCaller, AccountedTurn, Reconciliation

(* The transitions of a reservation, one by one.                           *)
LEMMA HoldSteps ==
  /\ HoldFrom["reserve"] = {"none"} /\ HoldTo["reserve"] = "reserved"
  /\ HoldFrom["start"] = {"reserved"} /\ HoldTo["start"] = "running"
  /\ HoldFrom["release"] = {"reserved", "released"} /\ HoldTo["release"] = "released"
  /\ HoldFrom["zero"] = {"running", "uncertain", "zero"} /\ HoldTo["zero"] = "zero"
  /\ HoldFrom["usage"] = {"running", "uncertain", "paid"} /\ HoldTo["usage"] = "paid"
  /\ HoldFrom["uncertain"] = {"running", "uncertain"} /\ HoldTo["uncertain"] = "uncertain"
BY DEF HoldFrom, HoldTo

(* A request to Billing that is answered, with what it does to the hold.   *)
LEMMA ArrivalKeeps ==
  ASSUME AccountingInv, NEW m \in wire, wire' = wire \ {m}, NEW reply \in {"yes", "no"},
         TellCaller(m, reply), outbox' = outbox, expired' = expired, server' = server,
         faults' = faults, runner' = runner,
         hold' \in {"none", "reserved", "running", "uncertain", "released", "zero", "paid"},
         \/ hold' = hold
         \/ m.call = "reserve" /\ hold = "none" /\ hold' = "reserved"
         \/ m.call = "start" /\ hold = "reserved" /\ hold' = "running"
         \/ m.call = "release" /\ hold = "reserved" /\ hold' = "released"
         \/ m.call = "zero" /\ hold \in {"running", "uncertain"} /\ hold' = "zero"
         \/ m.call = "usage" /\ hold \in {"running", "uncertain"} /\ hold' = "paid"
         \/ m.call = "uncertain" /\ hold = "running" /\ hold' = "uncertain",
         reply = "yes" /\ m.call = "start" => hold' = "running",
         reply = "yes" /\ m.call \in {"release", "zero", "usage"} =>
           hold' \in {"released", "zero", "paid"}
  PROVE  AccountingInv'
<1>1. /\ wire' \subseteq [call : TurnCalls \cup RecCalls, heard : BOOLEAN]
      /\ \A d : Carries(wire', d) => Carries(wire, d)
      /\ \A d : Listened(wire', d) => Listened(wire, d)
      /\ Carries(wire, m.call) /\ m.call \in TurnCalls \cup RecCalls
      /\ m.heard => Listened(wire, m.call) /\ ~Listened(wire', m.call)
  BY AccountingTypes, ArrivedWire
<1>2. /\ turn' \in AccountedTurn /\ turn'.pc = turn.pc /\ turn'.active = turn.active
      /\ turn'.reply = turn.reply \/ (m.heard /\ m.call \in TurnCalls /\ turn'.reply = reply)
      /\ rec' \in Reconciliation /\ rec'.pc = rec.pc
      /\ rec'.reply = rec.reply \/ (m.heard /\ m.call \in RecCalls /\ rec'.reply = reply)
  BY AccountingTypes, ToldFields
<1>3. m.heard =>
        /\ m.call \in TurnCalls => turn.pc = (IF m.call = "run" THEN "running" ELSE m.call)
        /\ m.call \in RecCalls => rec.pc = m.call
  BY <1>1 DEF AccountingInv, Heard
<1>4. turn.pc # "over" => m.call \notin RecCalls
  BY <1>1 DEF AccountingInv, Ordered
<1>5. AccountingTypeOK'
  BY <1>1, <1>2 DEF AccountingInv, AccountingTypeOK
<1>6. Ordered'
  BY <1>1, <1>2, <1>3 DEF AccountingInv, Ordered, TurnCalls
<1>7. Unsent'
  BY <1>1, <1>2 DEF AccountingInv, Unsent
<1>8. NoRunAt => NoRunAt'
  BY <1>1, <1>2 DEF NoRunAt
<1>9. Proved'
  BY <1>1, <1>2, <1>8 DEF AccountingInv, Proved
<1>10. /\ m.call \in {"release", "zero"} => NoRunAt
       /\ m.call \in {"usage", "uncertain"} => runner \in {"finished", "unknown"}
  BY <1>1 DEF AccountingInv, Proved
<1>11. Paid'
  BY <1>1, <1>10 DEF AccountingInv, Paid, NoRunAt
<1>12. Answers'
  <2>1. turn.pc \in {"start", "dispatch", "running"} => m.call \notin RecCalls
    BY <1>4
  <2>2. turn'.pc \in {"dispatch", "running"} \/ (turn'.pc = "start" /\ turn'.reply = "yes")
          => hold' = "running"
    BY <1>2, <1>3, <2>1 DEF AccountingInv, Answers, TurnCalls, RecCalls
  <2>3. rec'.pc \in {"release", "zero", "usage"} /\ rec'.reply = "yes"
          => hold' \in {"released", "zero", "paid"}
    BY <1>2, <1>3 DEF AccountingInv, Answers, RecCalls
  <2>4. outbox.state \in {"dispatching", "settling"} => hold' \notin {"none", "reserved", "released"}
    BY DEF AccountingInv, Answers
  <2>5. outbox.state = "done" =>
          hold' \notin {"running", "uncertain"} /\ (hold' \in {"none", "reserved"} => ~Carries(wire', "start"))
    BY <1>1 DEF AccountingInv, Answers
  <2> QED
    BY <2>2, <2>3, <2>4, <2>5 DEF Answers
<1>13. Heard'
  <2>1. ASSUME NEW c \in TurnCalls, Listened(wire', c)
        PROVE  turn'.reply = "none" /\ turn'.pc = (IF c = "run" THEN "running" ELSE c)
    <3>1. turn.reply = "none" /\ turn.pc = (IF c = "run" THEN "running" ELSE c)
      BY <1>1, <2>1 DEF AccountingInv, Heard
    <3>2. ~(m.heard /\ m.call \in TurnCalls)
      BY <1>1, <1>3, <2>1, <3>1 DEF TurnCalls
    <3> QED
      BY <1>2, <3>1, <3>2
  <2>2. ASSUME NEW c \in RecCalls, Listened(wire', c)
        PROVE  rec'.pc = c /\ rec'.reply = "none"
    <3>1. rec.pc = c /\ rec.reply = "none"
      BY <1>1, <2>2 DEF AccountingInv, Heard
    <3>2. ~(m.heard /\ m.call \in RecCalls)
      BY <1>1, <1>3, <2>2, <3>1
    <3> QED
      BY <1>2, <3>1, <3>2
  <2> QED
    BY <2>1, <2>2 DEF Heard
<1> QED
  BY <1>5, <1>6, <1>7, <1>9, <1>11, <1>12, <1>13 DEF AccountingInv

LEMMA BillingStep ==
  ASSUME AccountingInv, NEW m \in wire, Billing(m)
  PROVE  AccountingInv'
<1>1. /\ wire' = wire \ {m} /\ outbox' = outbox /\ runner' = runner /\ expired' = expired
      /\ server' = server /\ faults' = faults
  BY DEF Billing
<1>2. m.call \in {"reserve", "start", "release", "zero", "usage", "uncertain"}
  BY AccountingTypes DEF Billing, TurnCalls, RecCalls
<1>3. CASE hold' = hold /\ TellCaller(m, "no")
  BY <1>1, <1>3, AccountingTypes, ArrivalKeeps
<1>4. CASE hold \in HoldFrom[m.call] /\ hold' = HoldTo[m.call] /\ TellCaller(m, "yes")
  <2>1. /\ hold' \in {"none", "reserved", "running", "uncertain", "released", "zero", "paid"}
        /\ \/ hold' = hold
           \/ m.call = "reserve" /\ hold = "none" /\ hold' = "reserved"
           \/ m.call = "start" /\ hold = "reserved" /\ hold' = "running"
           \/ m.call = "release" /\ hold = "reserved" /\ hold' = "released"
           \/ m.call = "zero" /\ hold \in {"running", "uncertain"} /\ hold' = "zero"
           \/ m.call = "usage" /\ hold \in {"running", "uncertain"} /\ hold' = "paid"
           \/ m.call = "uncertain" /\ hold = "running" /\ hold' = "uncertain"
        /\ m.call = "start" => hold' = "running"
        /\ m.call \in {"release", "zero", "usage"} => hold' \in {"released", "zero", "paid"}
    BY <1>2, <1>4, HoldSteps
  <2> QED
    BY <1>1, <1>4, <2>1, ArrivalKeeps
<1> QED
  BY <1>3, <1>4 DEF Billing

LEMMA ExecuteStep ==
  ASSUME AccountingInv, NEW m \in wire, Execute(m)
  PROVE  AccountingInv'
<1>1. /\ wire' = wire \ {m} /\ outbox' = outbox /\ hold' = hold /\ expired' = expired
      /\ server' = server /\ faults' = faults /\ m.call = "run"
  BY DEF Execute
<1>2. CASE runner' = runner /\ TellCaller(m, "no")
  BY <1>1, <1>2, AccountingTypes, ArrivalKeeps
<1>3. CASE runner = "none" /\ runner' = "working" /\ turn' = turn /\ rec' = rec
  <2>1. /\ wire' \subseteq [call : TurnCalls \cup RecCalls, heard : BOOLEAN]
        /\ \A d : Carries(wire', d) => Carries(wire, d)
        /\ \A d : Listened(wire', d) => Listened(wire, d)
        /\ Carries(wire, "run")
    BY <1>1, AccountingTypes, ArrivedWire
  <2>2. ~NoRunAt
    BY <1>3, <2>1 DEF NoRunAt
  <2>3. AccountingTypeOK'
    BY <1>1, <1>3, <2>1 DEF AccountingInv, AccountingTypeOK
  <2>4. Ordered' /\ Unsent'
    BY <1>1, <1>3, <2>1 DEF AccountingInv, Ordered, Unsent
  <2>5. Proved'
    BY <1>1, <1>3, <2>1, <2>2 DEF AccountingInv, Proved
  <2>6. Answers' /\ Paid'
    BY <1>1, <1>3, <2>1 DEF AccountingInv, Answers, Paid
  <2>7. Heard'
    BY <1>3, <2>1 DEF AccountingInv, Heard
  <2> QED
    BY <2>3, <2>4, <2>5, <2>6, <2>7 DEF AccountingInv
<1> QED
  BY <1>2, <1>3 DEF Execute

LEMMA NeverArrivesStep ==
  ASSUME AccountingInv, NEW m \in wire, NeverArrives(m)
  PROVE  AccountingInv'
<1>1. /\ wire' = wire \ {m} /\ ~m.heard /\ turn' = turn /\ rec' = rec /\ outbox' = outbox
      /\ hold' = hold /\ runner' = runner /\ expired' = expired /\ server' = server
      /\ faults' = faults
  BY DEF NeverArrives, Elsewhere
<1>2. TellCaller(m, "no")
  BY <1>1 DEF TellCaller
<1> QED
  BY <1>1, <1>2, AccountingTypes, ArrivalKeeps

LEMMA OthersStep ==
  ASSUME AccountingInv, Others
  PROVE  AccountingInv'
<1>1. /\ turn' = turn /\ outbox' = outbox /\ rec' = rec /\ wire' = wire /\ server' = server
      /\ faults' = faults
  BY DEF Others, RunEnds, Expires, Lapses
<1>2. Ordered' /\ Heard'
  BY <1>1 DEF AccountingInv, Ordered, Heard
<1>3. CASE RunEnds
  <2>1. /\ runner = "working" /\ runner' \in {"finished", "unknown"} /\ hold' = hold
        /\ expired' = expired
    BY <1>3 DEF RunEnds
  <2>2. AccountingTypeOK' /\ Unsent' /\ Answers' /\ Paid'
    BY <1>1, <2>1 DEF AccountingInv, AccountingTypeOK, Unsent, Answers, Paid
  <2>3. Proved'
    BY <1>1, <2>1 DEF AccountingInv, Proved, NoRunAt
  <2> QED
    BY <1>2, <2>2, <2>3 DEF AccountingInv
<1>4. CASE Expires
  <2>1. runner' = runner /\ hold' = hold /\ expired' = TRUE
    BY <1>4 DEF Expires
  <2>2. AccountingTypeOK' /\ Unsent' /\ Answers' /\ Paid' /\ Proved'
    BY <1>1, <2>1 DEF AccountingInv, AccountingTypeOK, Unsent, Answers, Paid, Proved, NoRunAt
  <2> QED
    BY <1>2, <2>2 DEF AccountingInv
<1>5. CASE Lapses
  <2>1. runner' = runner /\ hold = "reserved" /\ hold' = "released" /\ expired' = expired
    BY <1>5 DEF Lapses
  <2>2. AccountingTypeOK' /\ Unsent' /\ Answers' /\ Paid' /\ Proved'
    BY <1>1, <2>1 DEF AccountingInv, AccountingTypeOK, Unsent, Answers, Paid, Proved, NoRunAt
  <2> QED
    BY <1>2, <2>2 DEF AccountingInv
<1> QED
  BY <1>3, <1>4, <1>5 DEF Others

LEMMA ProcessStep ==
  ASSUME AccountingInv, Shutdown \/ LastPass \/ CloseProcess \/ Die
  PROVE  AccountingInv'
<1>1. /\ outbox' = outbox /\ hold' = hold /\ runner' = runner /\ expired' = expired
      /\ server' \in {"up", "stopping", "closing"} /\ (faults' = faults \/ Fault)
  BY DEF Shutdown, LastPass, CloseProcess, Die, Restarted
<1>2. faults' \in 0..Faults
  BY <1>1, OtherTypes, FaultType
<1>3. CASE Restarted
  <2>1. turn' \in AccountedTurn /\ turn'.pc = "over" /\ ~turn'.active /\ rec' = Resting
    BY <1>3, AccountingTypes DEF Restarted, AccountedTurn
  <2>2. /\ wire' \subseteq [call : TurnCalls \cup RecCalls, heard : BOOLEAN]
        /\ \A d : Carries(wire', d) <=> Carries(wire, d)
        /\ \A d : Listened(wire', d) <=> Listened(wire, d) /\ d \notin TurnCalls \cup RecCalls
    BY <1>3, AccountingTypes, UnheardWire DEF Restarted
  <2>3. Heard'
    BY <2>2 DEF Heard
  <2> QED
    BY <1>1, <1>2, <2>1, <2>2, <2>3, OtherTypes, EndsKeep
<1>4. CASE turn' = turn /\ rec' = rec /\ wire' = wire
  <2>1. Heard'
    BY <1>4 DEF AccountingInv, Heard
  <2> QED
    BY <1>1, <1>2, <1>4, <2>1, AccountingTypes, OtherTypes, EndsKeep
<1> QED
  BY <1>3, <1>4 DEF Shutdown, LastPass, CloseProcess, Die

LEMMA AccountingStep ==
  ASSUME AccountingInv, [AccountingNext]_accountingVars
  PROVE  AccountingInv'
<1>1. CASE UNCHANGED accountingVars
  <2>1. /\ turn' = turn /\ outbox' = outbox /\ rec' = rec /\ wire' = wire /\ hold' = hold
        /\ runner' = runner /\ expired' = expired /\ server' = server /\ faults' = faults
    BY <1>1 DEF accountingVars
  <2>2. Heard'
    BY <2>1 DEF AccountingInv, Heard
  <2> QED
    BY <2>1, <2>2, AccountingTypes, OtherTypes, EndsKeep
<1>2. CASE \E m \in wire : Billing(m) \/ Execute(m) \/ NeverArrives(m)
  BY <1>2, BillingStep, ExecuteStep, NeverArrivesStep
<1>3. CASE RecSteps \/ RecFails
  BY <1>3, ReconcileJobStep, CurrentHoldStep, ReceiptStep, RecAnsweredStep, RecFailsStep
  DEF RecSteps
<1> QED
  BY <1>1, <1>2, <1>3, TurnStep, OthersStep, ProcessStep DEF AccountingNext

LEMMA AccountingInvariant == AccountingSpec => []AccountingInv
  BY AccountingInitial, AccountingStep, PTL DEF AccountingSpec

(* The turn, the outbox, the reconciliation and the requests stay of their *)
(* types.                                                                  *)
THEOREM AccountingTypeCorrect == AccountingSpec => []AccountingTypeOK
<1>1. AccountingInv => AccountingTypeOK
  BY DEF AccountingInv
<1> QED
  BY <1>1, AccountingInvariant, PTL

(* No run is released or settled with zero, however many calls fail and    *)
(* however often the process restarts.                                     *)
THEOREM NoFreeWorkKept == AccountingSpec => []NoFreeWork
<1>1. AccountingInv => NoFreeWork
  BY DEF AccountingInv, Paid, NoFreeWork, Carries
<1> QED
  BY <1>1, AccountingInvariant, PTL

(* A hold of a run is never out of the sight of the outbox.                *)
THEOREM HoldsFollowedKept == AccountingSpec => []HoldsFollowed
<1>1. AccountingInv => HoldsFollowed
  BY DEF AccountingInv, Unsent, Answers, HoldsFollowed, Pending
<1> QED
  BY <1>1, AccountingInvariant, PTL
=============================================================================
