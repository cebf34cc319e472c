--------------------------- MODULE ConversationSlot ---------------------------
(***************************************************************************)
(* What the turn manager promises about one conversation, without its      *)
(* queue, its awaits and its commands: the conversation has one slot.  A   *)
(* start claims it while it prepares, gives it to a turn that never had    *)
(* it, and only a free slot is claimed again.                              *)
(***************************************************************************)
EXTENDS Naturals

CONSTANT Turns  \* identities of turns, 0 is none of them

VARIABLES
  phase,  \* "free", "preparing" or "running"
  owner,  \* the running turn, 0 if there is none
  had     \* the turns that have had the slot

slotVars == <<phase, owner, had>>

Init == phase = "free" /\ owner = 0 /\ had = {}

Claim == phase = "free" /\ phase' = "preparing" /\ UNCHANGED <<owner, had>>

Abandon == phase = "preparing" /\ phase' = "free" /\ UNCHANGED <<owner, had>>

Occupy(t) ==
  /\ phase = "preparing" /\ t \notin had
  /\ phase' = "running" /\ owner' = t /\ had' = had \cup {t}

Release == phase = "running" /\ phase' = "free" /\ owner' = 0 /\ UNCHANGED had

Next == Claim \/ Abandon \/ Release \/ \E t \in Turns : Occupy(t)

Spec == Init /\ [][Next]_slotVars
=============================================================================
