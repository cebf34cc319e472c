---------------------------- MODULE MCTurnManager ----------------------------
(***************************************************************************)
(* Instances of the turn manager for TLC.  Every run bounds the outside    *)
(* events it is about by a budget; what a budget does not name does not    *)
(* happen in that run.                                                     *)
(***************************************************************************)
EXTENDS TurnManagerProps

Symmetry == Permutations(Inputs) \cup Permutations(Slots)

Events(n, kinds) ==
  [k \in Kinds |-> IF k = "send" THEN n ELSE IF k \in kinds THEN 1 ELSE 0]

QueueBudgets ==
  {Events(2, {"resend", "connect", "error"}),
   Events(3, {"edit", "drop", "reorder", "error", "refuse"})}
StopBudgets ==
  {Events(2, {"now", "stop", "connect", "error", "fault"}),
   Events(2, {"shutdown", "crash", "connect", "error", "fault", "erase"})}
PaidBudgets == {Events(2, {"stop", "now", "foreign", "error"})}
(* One setback each: a refused start or a stop of the server.              *)
LiveBudgets ==
  {Events(2, {"stop", "error", "refuse"}), Events(2, {"stop", "refuse", "connect"}),
   Events(2, {"error", "shutdown"}), Events(2, {"shutdown", "connect"})}

CancelBudgets == {Events(2, {"stop"})}
=============================================================================
