-------------------------- MODULE StorybookSessions --------------------------
(***************************************************************************)
(* components/storybookSessions.ts on one machine: dev servers in          *)
(* terminals of the registry, the wishes ("intents") a restarted server    *)
(* recovers them by, and the lane that serializes the operations.  A book  *)
(* is a working copy with its directory, the key of a session; two books   *)
(* of one working copy share the id of their terminal.  A restart() is     *)
(* StopBook and StartBook, which other operations may come between.        *)
(***************************************************************************)
EXTENDS Integers, FiniteSets, FiniteSetsExt

CONSTANTS
  Books,
  NoBook,
  Shells,      \* terminal ids, "storybook:<workspaceId>"
  ShellOf,     \* the terminal id of a book
  Clients,     \* handlers of the routes
  LastPort,    \* PORT_TO, where PORT_FROM is 1
  MaxWishes,   \* bound: starts and stops
  MaxLosses    \* bound: failed saves, restarts, the machine gone

ASSUME BookAssumption ==
  /\ NoBook \notin Books /\ ShellOf \in [Books -> Shells]
  /\ LastPort \in Nat \ {0} /\ MaxWishes \in Nat /\ MaxLosses \in Nat

VARIABLES
  session,     \* StorybookSessions.sessions
  wish,        \* intents: the port of each wish, 0: none
  saved,       \* app config "storybook.sessions"
  attempted,   \* books this process does not recover any more
  bookCall,       \* the operation of each client
  shell,       \* registry: who listens to a terminal, NoBook: it is not live
  machineOn,   \* the machine is online
  halted,      \* history: books whose last answered operation was a stop
  torn,        \* history: books whose last save failed
  wishes,      \* starts and stops so far
  losses       \* faults so far

bookVars == <<session, wish, saved, attempted, bookCall, shell, machineOn, halted, torn,
              wishes, losses>>

(* A request may name a port outside of the range; 0: it names none.       *)
AskedPorts == 0..(LastPort + 1)

(* timer: probeTimer; asking: a tick awaits the machine; late: the time of *)
(* the first build is over.                                                *)
Session ==
  [state : {"none", "starting", "running", "failed", "stopped"}, port : AskedPorts,
   adopted : BOOLEAN, restoring : BOOLEAN, timer : BOOLEAN, asking : BOOLEAN, late : BOOLEAN]

NoSession ==
  [state |-> "none", port |-> 0, adopted |-> FALSE, restoring |-> FALSE,
   timer |-> FALSE, asking |-> FALSE, late |-> FALSE]

BookCall ==
  [at : {"idle", "probe", "saveStart", "saveStop"}, book : Books \cup {NoBook},
   port : AskedPorts, restoring : BOOLEAN]

NoBookCall == [at |-> "idle", book |-> NoBook, port |-> 0, restoring |-> FALSE]

BookInit ==
  /\ session = [k \in Books |-> NoSession]
  /\ wish = [k \in Books |-> 0] /\ saved = wish
  /\ attempted = {} /\ bookCall = [c \in Clients |-> NoBookCall]
  /\ shell = [w \in Shells |-> NoBook] /\ machineOn = TRUE
  /\ halted = {} /\ torn = {} /\ wishes = 0 /\ losses = 0

ShellLive(k) == shell[ShellOf[k]] # NoBook

AtWork(k) == session[k].state \in {"starting", "running"}

FailSession(s) ==
  [s EXCEPT !.state = IF s.restoring THEN "stopped" ELSE "failed",
            !.timer = FALSE, !.late = FALSE]

MarkStopped(s) == [s EXCEPT !.state = "stopped", !.timer = FALSE, !.late = FALSE]

(* The terminals after stopSession: an adopted server is left alone.       *)
ShellsWithout(k) ==
  IF session[k].state = "none" \/ session[k].adopted THEN shell
  ELSE [shell EXCEPT ![ShellOf[k]] = NoBook]

Taken(ss) == {j \in Books : ss[j].state \notin {"none", "stopped"}}

-----------------------------------------------------------------------------
(* Operations, one at a time: run() chains them.                           *)

(* Mutation: no lane.                                                      *)
LaneIgnored == TRUE

LaneFree == \A c \in Clients : bookCall[c].at = "idle"

Wish == wishes < MaxWishes /\ wishes' = wishes + 1

(* startSession from pickPort to the save.  The registry takes over a      *)
(* terminal that is live; it refuses a new one when the machine has gone,  *)
(* is too old or has too many, and the session fails at once.              *)
LaunchBook(c, k, asked, restoring, ss, shells) ==
  LET used == {ss[j].port : j \in Taken(ss)}
      free == IF asked \notin used \cup {0} THEN {asked} ELSE (1..LastPort) \ used
      w == ShellOf[k]
  IN
  \/ /\ free = {}
     /\ session' = ss /\ shell' = shells
     /\ bookCall' = [bookCall EXCEPT ![c] = NoBookCall]
     /\ UNCHANGED wish
  \/ /\ free # {}
     /\ \E accepted \in BOOLEAN :
          LET new == [NoSession EXCEPT !.state = "starting", !.port = Min(free),
                                       !.restoring = restoring]
              one == IF accepted THEN new ELSE FailSession(new)
          IN
          /\ shells[w] # NoBook => accepted
          /\ accepted => machineOn
          /\ session' = [ss EXCEPT ![k] = [one EXCEPT !.timer = TRUE]]
          /\ shell' = IF accepted THEN [shells EXCEPT ![w] = k] ELSE shells
     /\ wish' = [wish EXCEPT ![k] = Min(free)]
     /\ bookCall' = [bookCall EXCEPT ![c] =
                   [at |-> "saveStart", book |-> k, port |-> 0, restoring |-> restoring]]

(* startSession up to its first await: a server at work is kept, whatever  *)
(* else was there is stopped, and a port is probed unless a session of the *)
(* machine (of the port, in a recovery) is there already.                  *)
BeginSession(c, k, asked, restoring, ss) ==
  LET address == IF asked = 0 THEN 1 ELSE asked
      rest == [ss EXCEPT ![k] = NoSession]
      owned == \E j \in Taken(rest) : restoring => rest[j].port = address
      kept == ss[k].state \in {"starting", "running"} /\ ShellLive(k)
  IN
  \/ /\ kept
     /\ session' = ss /\ UNCHANGED <<shell, wish, bookCall>>
  \/ /\ ~kept /\ ~machineOn
     /\ session' = rest /\ shell' = ShellsWithout(k) /\ UNCHANGED <<wish, bookCall>>
  \/ /\ ~kept /\ machineOn /\ owned
     /\ LaunchBook(c, k, asked, restoring, rest, ShellsWithout(k))
  \/ /\ ~kept /\ machineOn /\ ~owned
     /\ session' = rest /\ shell' = ShellsWithout(k) /\ UNCHANGED wish
     /\ bookCall' = [bookCall EXCEPT ![c] =
                   [at |-> "probe", book |-> k, port |-> asked, restoring |-> restoring]]

StartBook(c, k) ==
  /\ LaneFree /\ Wish
  /\ attempted' = attempted \cup {k} /\ halted' = halted \ {k}
  /\ \E asked \in AskedPorts : BeginSession(c, k, asked, FALSE, session)
  /\ UNCHANGED <<saved, machineOn, torn, losses>>

(* The answer to the probe: a Storybook at the port is adopted.            *)
Probed(c) ==
  LET call == bookCall[c]
      address == IF call.port = 0 THEN 1 ELSE call.port
  IN
  /\ call.at = "probe"
  /\ \/ /\ machineOn
        /\ session' = [session EXCEPT ![call.book] =
             [NoSession EXCEPT !.state = "running", !.port = address, !.adopted = TRUE]]
        /\ wish' = [wish EXCEPT ![call.book] = address]
        /\ bookCall' = [bookCall EXCEPT ![c].at = "saveStart"]
        /\ UNCHANGED shell
     \/ LaunchBook(c, call.book, call.port, call.restoring, session, shell)
  /\ UNCHANGED <<saved, attempted, machineOn, halted, torn, wishes, losses>>

StopBook(c, k) ==
  /\ LaneFree /\ Wish
  /\ wish' = [wish EXCEPT ![k] = 0]
  /\ bookCall' = [bookCall EXCEPT ![c] =
                [at |-> "saveStop", book |-> k, port |-> 0, restoring |-> FALSE]]
  /\ UNCHANGED <<session, saved, attempted, shell, machineOn, halted, torn, losses>>

(* refresh(): a session without its terminal has stopped; a wish that this *)
(* process has not tried yet is recovered.                                 *)
RefreshBook(c, k) ==
  LET lost == session[k].state \in {"starting", "running", "failed"}
              /\ ~session[k].adopted /\ ~ShellLive(k)
      seen == IF lost THEN [session EXCEPT ![k] = MarkStopped(@)] ELSE session
      recover == wish[k] # 0 /\ seen[k].state \in {"none", "stopped", "failed"}
                 /\ k \notin attempted /\ machineOn
  IN
  /\ LaneFree
  /\ \/ /\ recover
        /\ attempted' = attempted \cup {k}
        /\ BeginSession(c, k, wish[k], TRUE, seen)
     \/ /\ ~recover /\ session' = seen
        /\ UNCHANGED <<wish, attempted, bookCall, shell>>
  /\ UNCHANGED <<saved, machineOn, halted, torn, wishes, losses>>

(* Mutation: a stop does not save.                                         *)
StoredByStart(call) == IF call.at = "saveStart" THEN wish ELSE saved

Stored(call) == wish

(* saveIntents is over; a stop then ends the session.                      *)
Saved(c) ==
  LET call == bookCall[c] k == call.book IN
  /\ call.at \in {"saveStart", "saveStop"}
  /\ bookCall' = [bookCall EXCEPT ![c] = NoBookCall]
  /\ torn' = torn \ {k}
  /\ saved' = Stored(call)
  /\ IF call.at = "saveStart"
     THEN UNCHANGED <<session, shell, halted>>
     ELSE /\ session' = [session EXCEPT ![k] = NoSession]
          /\ shell' = ShellsWithout(k)
          /\ halted' = halted \cup {k}
  /\ UNCHANGED <<wish, attempted, machineOn, wishes, losses>>

Loss == losses < MaxLosses /\ losses' = losses + 1

(* The save fails, before or after it was carried out: the route answers   *)
(* with an error, a recovery ends what it had started.                     *)
SaveFails(c) ==
  LET call == bookCall[c] k == call.book IN
  /\ call.at \in {"saveStart", "saveStop"} /\ Loss
  /\ bookCall' = [bookCall EXCEPT ![c] = NoBookCall]
  /\ torn' = torn \cup {k}
  /\ saved' \in {saved, wish}
  /\ IF call.restoring
     THEN session' = [session EXCEPT ![k] = NoSession] /\ shell' = ShellsWithout(k)
     ELSE UNCHANGED <<session, shell>>
  /\ UNCHANGED <<wish, attempted, machineOn, halted, wishes>>

-----------------------------------------------------------------------------
(* Probes and the events of terminals, in the middle of any operation.     *)

BookRest == UNCHANGED <<wish, saved, attempted, bookCall, machineOn, halted, torn, wishes, losses>>

ProbeTick(k) ==
  /\ session[k].timer
  /\ session' = [session EXCEPT ![k] =
       IF @.state # "starting" THEN [@ EXCEPT !.timer = FALSE]
       ELSE IF ~ShellLive(k) THEN FailSession(@)
       ELSE [@ EXCEPT !.timer = FALSE, !.asking = TRUE]]
  /\ UNCHANGED shell /\ BookRest

(* Mutation: a probe without an answer is the last one.                    *)
NotAgain(s) == s

Again(s) == [s EXCEPT !.timer = TRUE]

(* The rest of a tick, when the machine has answered the probe or not.     *)
ProbeAnswer(k) ==
  /\ session[k].asking
  /\ \E ready \in BOOLEAN :
       /\ ready => machineOn
       /\ session' = [session EXCEPT ![k] =
            LET s == [@ EXCEPT !.asking = FALSE] IN
            IF s.state # "starting" THEN s
            ELSE IF ready THEN [s EXCEPT !.state = "running", !.late = FALSE]
            ELSE IF s.late THEN FailSession(s)
            ELSE Again(s)]
  /\ UNCHANGED shell /\ BookRest

BuildTimeOver(k) ==
  /\ session[k].state = "starting" /\ ~session[k].late
  /\ session' = [session EXCEPT ![k].late = TRUE]
  /\ UNCHANGED shell /\ BookRest

EndedSession(s) == CASE s.state = "starting" -> FailSession(s)
               [] s.state = "running" -> MarkStopped(s)
               [] OTHER -> s

(* The sentinel in the log: the command is over, its terminal is not.      *)
CommandOver(w) ==
  /\ shell[w] # NoBook
  /\ session' = [session EXCEPT ![shell[w]] = EndedSession(@)]
  /\ UNCHANGED shell /\ BookRest

ShellExit(w) ==
  /\ shell[w] # NoBook
  /\ session' = [session EXCEPT ![shell[w]] =
                  IF @.state = "starting" THEN FailSession(@) ELSE MarkStopped(@)]
  /\ shell' = [shell EXCEPT ![w] = NoBook] /\ BookRest

ShellError(w) ==
  /\ shell[w] # NoBook
  /\ session' = [session EXCEPT ![shell[w]] = FailSession(@)]
  /\ shell' = [shell EXCEPT ![w] = NoBook] /\ BookRest

(* The registry kills a terminal nobody typed in: no event.                *)
ShellIdle(w) ==
  /\ shell[w] # NoBook
  /\ shell' = [shell EXCEPT ![w] = NoBook]
  /\ UNCHANGED session /\ BookRest

(* Every terminal of the machine reports an error.                         *)
BookMachineGone ==
  /\ machineOn /\ Loss /\ machineOn' = FALSE
  /\ session' = [k \in Books |->
       IF \E w \in Shells : shell[w] = k THEN FailSession(session[k]) ELSE session[k]]
  /\ shell' = [w \in Shells |-> NoBook]
  /\ UNCHANGED <<wish, saved, attempted, bookCall, halted, torn, wishes>>

BookMachineBack ==
  /\ ~machineOn /\ machineOn' = TRUE
  /\ UNCHANGED <<session, wish, saved, attempted, bookCall, shell, halted, torn, wishes, losses>>

(* The process ends at any await and a new one loads the wishes.           *)
BookRestart ==
  /\ Loss
  /\ session' = [k \in Books |-> NoSession]
  /\ wish' = saved /\ attempted' = {}
  /\ bookCall' = [c \in Clients |-> NoBookCall]
  /\ shell' = [w \in Shells |-> NoBook] /\ machineOn' = FALSE /\ torn' = {}
  /\ UNCHANGED <<saved, halted, wishes>>

BookNext ==
  \/ \E c \in Clients, k \in Books : StartBook(c, k) \/ StopBook(c, k) \/ RefreshBook(c, k)
  \/ \E c \in Clients : Probed(c) \/ Saved(c) \/ SaveFails(c)
  \/ \E k \in Books : ProbeTick(k) \/ ProbeAnswer(k) \/ BuildTimeOver(k)
  \/ \E w \in Shells : CommandOver(w) \/ ShellExit(w) \/ ShellError(w) \/ ShellIdle(w)
  \/ BookMachineGone \/ BookMachineBack \/ BookRestart

BookSpec == BookInit /\ [][BookNext]_bookVars

(* Timers fire, probes are answered or time out, and time passes.          *)
BookFairness ==
  \A k \in Books :
    /\ WF_bookVars(ProbeTick(k)) /\ WF_bookVars(ProbeAnswer(k))
    /\ WF_bookVars(BuildTimeOver(k))

-----------------------------------------------------------------------------
BookTypeOK ==
  /\ session \in [Books -> Session]
  /\ wish \in [Books -> AskedPorts] /\ saved \in [Books -> AskedPorts]
  /\ attempted \subseteq Books /\ bookCall \in [Clients -> BookCall]
  /\ shell \in [Shells -> Books \cup {NoBook}] /\ machineOn \in BOOLEAN
  /\ halted \subseteq Books /\ torn \subseteq Books
  /\ wishes \in 0..MaxWishes /\ losses \in 0..MaxLosses

(* Servers at work on a machine have ports of their own, whether they were *)
(* launched, adopted or recovered, and whatever the probes awaited.        *)
PortsApart ==
  \A j, k \in Books : j # k /\ AtWork(j) /\ AtWork(k) => session[j].port # session[k].port

(* What a restart recovers is what was left at work: between operations a  *)
(* server at work is stored with its port, unless its own save failed, and *)
(* after an answered stop neither the server nor its wish comes back.      *)
WishesFollow ==
  /\ LaneFree => \A k \in Books \ torn : AtWork(k) => saved[k] = session[k].port
  /\ \A k \in halted : ~AtWork(k) /\ saved[k] = 0

(* A start comes to an end: the server answers, fails, or is given up.     *)
StartSettles == \A k \in Books : session[k].state = "starting" ~> session[k].state # "starting"

(* Not true: two wishes may name one port, and the recovery of the one     *)
(* that had ended adopts the server of the other.                          *)
WishesApart ==
  \A j, k \in Books : j # k /\ saved[j] # 0 => saved[j] # saved[k]

(* Not true: a book takes over the terminal of another directory of its    *)
(* working copy, whose session stays "running" without it.                 *)
RunningWatched ==
  \A k \in Books :
    session[k].state = "running" /\ ~session[k].adopted /\ ShellLive(k) => shell[ShellOf[k]] = k
=============================================================================
