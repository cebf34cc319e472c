---------------------------- MODULE AgentWatchdog ----------------------------
(***************************************************************************)
(* The watchdog of agents (agents/watchdog.ts): a timer looks for machines *)
(* that were last seen long ago, a listener of the registry for machines   *)
(* that are back.  Both walk the same list of machines and await the       *)
(* database between two machines; the database answers calls in the order  *)
(* in which they were made.                                                *)
(***************************************************************************)
EXTENDS Integers, Sequences, FiniteSets

CONSTANTS
  Guarded,    \* machines 1..n in the order of listAllAgents
  Walks,      \* places for walks in progress
  MaxFlips    \* connections and disconnections

ASSUME WatchdogAssumption == Guarded \in SUBSET Nat /\ IsFiniteSet(Guarded) /\ MaxFlips \in Nat

VARIABLES
  up,         \* machines that are online
  longAgo,    \* machines last seen longer ago than the threshold
  alerted,    \* alertedSince
  walk,       \* walks in progress
  calls,      \* walks whose database calls wait for their turn
  told,       \* history: "offline" minus "online" messages, by machine
  flips

watchdogVars == <<up, longAgo, alerted, walk, calls, told, flips>>

(* todo: machines the walk has yet to look at; old: those whose last_seen  *)
(* it has read as long ago; at: the machine whose event is being logged.   *)
Walk == [pc : {"idle", "list", "log"}, kind : {"tick", "change"},
         todo : SUBSET Guarded, old : SUBSET Guarded, at : Guarded \cup {0}]

NoWalk == [pc |-> "idle", kind |-> "tick", todo |-> {}, old |-> {}, at |-> 0]

WatchdogInit ==
  /\ up = {} /\ longAgo = Guarded /\ alerted = {}
  /\ walk = [w \in Walks |-> NoWalk] /\ calls = <<>>
  /\ told = [m \in Guarded |-> 0] /\ flips = MaxFlips

(* The walk w sits at a database call again, or is over.                   *)
Await(w, new, queue) ==
  /\ walk' = [walk EXCEPT ![w] = new]
  /\ calls' = IF new.pc = "idle" THEN queue ELSE Append(queue, w)

BeginWalk(kind) ==
  \E w \in Walks : walk[w].pc = "idle" /\ Await(w, [NoWalk EXCEPT !.pc = "list", !.kind = kind], calls)

Tick == BeginWalk("tick") /\ UNCHANGED <<up, longAgo, alerted, told, flips>>

(* The registry tells its listeners; without an alert there is nothing to  *)
(* do.                                                                     *)
Notify == IF alerted = {} THEN UNCHANGED <<walk, calls>> ELSE BeginWalk("change")

Flip(m) ==
  /\ flips > 0 /\ flips' = flips - 1
  /\ up' = IF m \in up THEN up \ {m} ELSE up \cup {m}
  /\ longAgo' = longAgo \ {m}
  /\ Notify
  /\ UNCHANGED <<alerted, told>>

Age(m) ==
  /\ m \in Guarded \ (up \cup longAgo) /\ longAgo' = longAgo \cup {m}
  /\ UNCHANGED <<up, alerted, walk, calls, told, flips>>

(* Mutation: a tick finds machines it has alerted.                         *)
FoundAgain(walking, m) ==
  IF walking.kind = "tick" THEN m \in walking.old \ up
                           ELSE m \in alerted \cap up

(* What the walk finds next: read again for each machine, except last_seen *)
(* that came with the list.                                                *)
Found(walking, m) ==
  IF walking.kind = "tick" THEN m \in walking.old \ (up \cup alerted)
                           ELSE m \in alerted \cap up

Advance(w, walking) ==
  LET found == {m \in walking.todo : Found(walking, m)}
      next == CHOOSE m \in found : \A n \in found : m <= n
  IN
  IF found = {}
  THEN Await(w, NoWalk, Tail(calls)) /\ UNCHANGED alerted
  ELSE /\ alerted' = IF walking.kind = "tick" THEN alerted \cup {next} ELSE alerted \ {next}
       /\ Await(w, [walking EXCEPT !.pc = "log", !.at = next,
                      !.todo = {m \in walking.todo : m > next}], Tail(calls))

WalkAnswered(w, pc) == walk[w].pc = pc /\ Head(calls) = w

(* Mutation: each walk looks at machines last seen long ago only.          *)
ListedOld(w) ==
  /\ WalkAnswered(w, "list")
  /\ Advance(w, [walk[w] EXCEPT !.todo = longAgo, !.old = longAgo])
  /\ UNCHANGED <<up, longAgo, told, flips>>

Listed(w) ==
  /\ WalkAnswered(w, "list")
  /\ Advance(w, [walk[w] EXCEPT !.todo = Guarded, !.old = longAgo])
  /\ UNCHANGED <<up, longAgo, told, flips>>

(* The event is logged: the owner is told, and the walk goes on.           *)
Told(w) ==
  /\ WalkAnswered(w, "log")
  /\ told' = [told EXCEPT ![walk[w].at] = IF walk[w].kind = "tick" THEN @ + 1 ELSE @ - 1]
  /\ Advance(w, walk[w])
  /\ UNCHANGED <<up, longAgo, flips>>

WatchdogNext ==
  \/ Tick
  \/ \E m \in Guarded : Flip(m) \/ Age(m)
  \/ \E w \in Walks : Listed(w) \/ Told(w)

WatchdogSpec == WatchdogInit /\ [][WatchdogNext]_watchdogVars

WatchdogFairness == \A w \in Walks : WF_watchdogVars(Listed(w) \/ Told(w))

-----------------------------------------------------------------------------
WatchdogTypeOK ==
  /\ up \subseteq Guarded /\ longAgo \subseteq Guarded /\ alerted \subseteq Guarded
  /\ walk \in [Walks -> Walk] /\ calls \in Seq(Walks)
  /\ told \in [Guarded -> Int] /\ flips \in 0..MaxFlips

(* The owner hears "offline" and "online" of a machine in turn, however    *)
(* many walks overlap: no alarm twice, and no return without an alarm.     *)
AlertsAlternate == \A m \in Guarded : told[m] \in 0..1

(* The alarm of a machine that stays online is withdrawn.                  *)
AlarmWithdrawn == \A m \in Guarded : m \in alerted \cap up ~> m \notin alerted \cap up
=============================================================================
