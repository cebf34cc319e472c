---------------------------- MODULE AgentTerminals ----------------------------
(***************************************************************************)
(* Live terminals (the pty part of agents/registry.ts) and the browser     *)
(* connections that watch them (session.ts).  A terminal outlives its      *)
(* watcher for a while; its two timers kill it by its id.  A browser       *)
(* connection detaches, when it closes, the ids it has started.            *)
(***************************************************************************)
EXTENDS Naturals, FiniteSets

CONSTANTS
  Tabs,        \* browser connections
  Terms,       \* terminal ids
  NoTab,       \* nobody watches
  MaxTerms     \* policy ptyMaxSessions, 0: no limit

ASSUME TerminalAssumption == NoTab \notin Tabs /\ MaxTerms \in Nat

VARIABLES
  tab,         \* browser connections
  pty,         \* AgentRegistry.ptys
  leftover,    \* ids with an input timer of a terminal that is gone
  machineUp,     \* the machine is online
  watcher      \* history: the connection that asked last for a terminal

terminalVars == <<tab, pty, leftover, machineUp, watcher>>

(* ids: ptyIds; asking: pty.start handlers at canUseAgent; late: an asking *)
(* outlived the connection.                                                *)
Tab == [ws : {"new", "open", "closed"}, ids : SUBSET Terms,
        asking : SUBSET Terms, late : BOOLEAN]

(* idle: the timer of a terminal nobody watches; input: the timer of the   *)
(* policy ptyIdleMinutes.                                                  *)
Pty == [live : BOOLEAN, emit : Tabs \cup {NoTab}, idle : BOOLEAN, input : BOOLEAN]

NoPty == [live |-> FALSE, emit |-> NoTab, idle |-> FALSE, input |-> FALSE]

TerminalInit ==
  /\ tab = [v \in Tabs |-> [ws |-> "new", ids |-> {}, asking |-> {}, late |-> FALSE]]
  /\ pty = [p \in Terms |-> NoPty]
  /\ leftover = {} /\ machineUp = TRUE
  /\ watcher = [p \in Terms |-> NoTab]

LiveTerms == {p \in Terms : pty[p].live}

(* ptyDetach drops whoever is subscribed.                                  *)
Detached(t) == IF t.live /\ t.emit # NoTab THEN [t EXCEPT !.emit = NoTab, !.idle = TRUE] ELSE t

OpenTab(v) ==
  /\ tab[v].ws = "new"
  /\ tab' = [tab EXCEPT ![v].ws = "open"]
  /\ UNCHANGED <<pty, leftover, machineUp, watcher>>

AskPty(v, p) ==
  /\ tab[v].ws = "open" /\ p \notin tab[v].asking
  /\ tab' = [tab EXCEPT ![v].asking = @ \cup {p}]
  /\ UNCHANGED <<pty, leftover, machineUp, watcher>>

RefusePty(v, p) ==
  /\ p \in tab[v].asking
  /\ tab' = [tab EXCEPT ![v].asking = @ \ {p}]
  /\ UNCHANGED <<pty, leftover, machineUp, watcher>>

(* Mutation: who comes back does not clear the idle timer.                 *)
PtyStartTimed(v, p) ==
  LET room == MaxTerms = 0 \/ Cardinality(LiveTerms) < MaxTerms IN
  /\ p \in tab[v].asking
  /\ tab' = [tab EXCEPT ![v].asking = @ \ {p}, ![v].ids = @ \cup {p},
                        ![v].late = @ \/ tab[v].ws = "closed"]
  /\ pty' = [pty EXCEPT ![p] =
       IF @.live THEN [@ EXCEPT !.emit = v]
       ELSE IF machineUp /\ room THEN [live |-> TRUE, emit |-> v, idle |-> FALSE, input |-> TRUE]
       ELSE @]
  /\ watcher' = [watcher EXCEPT ![p] = IF pty'[p].live THEN v ELSE @]
  /\ UNCHANGED <<leftover, machineUp>>

(* ptyStart after the access check: subscribe again, or a new shell if the *)
(* machine is online and has room for one.                                 *)
PtyStart(v, p) ==
  LET room == MaxTerms = 0 \/ Cardinality(LiveTerms) < MaxTerms IN
  /\ p \in tab[v].asking
  /\ tab' = [tab EXCEPT ![v].asking = @ \ {p}, ![v].ids = @ \cup {p},
                        ![v].late = @ \/ tab[v].ws = "closed"]
  /\ IF pty[p].live
     THEN pty' = [pty EXCEPT ![p].emit = v, ![p].idle = FALSE]
     ELSE pty' = [pty EXCEPT ![p] =
            IF machineUp /\ room THEN [live |-> TRUE, emit |-> v, idle |-> FALSE, input |-> TRUE]
            ELSE @]
  /\ watcher' = [watcher EXCEPT ![p] = IF pty'[p].live THEN v ELSE @]
  /\ UNCHANGED <<leftover, machineUp>>

(* The close event of the browser connection.                              *)
CloseTab(v) ==
  /\ tab[v].ws = "open"
  /\ tab' = [tab EXCEPT ![v].ws = "closed", ![v].ids = {}]
  /\ pty' = [p \in Terms |-> IF p \in tab[v].ids THEN Detached(pty[p]) ELSE pty[p]]
  /\ UNCHANGED <<leftover, machineUp, watcher>>

(* ptyKill clears both timers.                                             *)
Killed(p) == pty' = [pty EXCEPT ![p] = NoPty]

KillPty(v, p) ==
  /\ tab[v].ws = "open" /\ pty[p].live
  /\ tab' = [tab EXCEPT ![v].ids = @ \ {p}]
  /\ Killed(p)
  /\ UNCHANGED <<leftover, machineUp, watcher>>

IdleOver(p) ==
  /\ pty[p].idle /\ Killed(p)
  /\ UNCHANGED <<tab, leftover, machineUp, watcher>>

InputOver(p) ==
  /\ pty[p].input /\ Killed(p)
  /\ UNCHANGED <<tab, leftover, machineUp, watcher>>

(* The input timer of an earlier terminal with this id.                    *)
LeftoverOver(p) ==
  /\ p \in leftover /\ leftover' = leftover \ {p}
  /\ Killed(p)
  /\ UNCHANGED <<tab, machineUp, watcher>>

(* pty.exit or pty.error of the machine: the idle timer is cleared, the    *)
(* input timer is not.                                                     *)
PtyExit(p) ==
  /\ pty[p].live /\ Killed(p)
  /\ leftover' = IF pty[p].input THEN leftover \cup {p} ELSE leftover
  /\ UNCHANGED <<tab, machineUp, watcher>>

MachineGone ==
  /\ machineUp /\ machineUp' = FALSE
  /\ pty' = [p \in Terms |-> NoPty]
  /\ leftover' = leftover \cup {p \in LiveTerms : pty[p].input}
  /\ UNCHANGED <<tab, watcher>>

MachineBack ==
  /\ ~machineUp /\ machineUp' = TRUE
  /\ UNCHANGED <<tab, pty, leftover, watcher>>

TerminalNext ==
  \/ \E v \in Tabs : OpenTab(v) \/ CloseTab(v)
  \/ \E v \in Tabs, p \in Terms :
       AskPty(v, p) \/ RefusePty(v, p) \/ PtyStart(v, p) \/ KillPty(v, p)
  \/ \E p \in Terms : IdleOver(p) \/ InputOver(p) \/ LeftoverOver(p) \/ PtyExit(p)
  \/ MachineGone \/ MachineBack

TerminalSpec == TerminalInit /\ [][TerminalNext]_terminalVars

-----------------------------------------------------------------------------
TerminalTypeOK ==
  /\ tab \in [Tabs -> Tab] /\ pty \in [Terms -> Pty]
  /\ leftover \subseteq Terms /\ machineUp \in BOOLEAN
  /\ watcher \in [Terms -> Tabs \cup {NoTab}]

(* The idle timer runs exactly while nobody is subscribed.                 *)
IdleTimed ==
  \A p \in LiveTerms : pty[p].idle = (pty[p].emit = NoTab)

(* The subscriber of a terminal is an open connection, unless it closed    *)
(* while the access check of its own pty.start was under way.              *)
SubscriberOpen ==
  \A p \in LiveTerms : pty[p].emit # NoTab =>
    tab[pty[p].emit].ws = "open" \/ tab[pty[p].emit].late

(* However connections come, go and take each other's subscription, a      *)
(* terminal does not die under a subscriber, and it is given up when its   *)
(* subscriber is gone: it is timed, or watched by an open connection, or   *)
(* subscribed by a late pty.start, which is the one way to escape.         *)
ForgottenTimed == IdleTimed /\ SubscriberOpen

(* Whoever came back to a terminal is subscribed while his connection is   *)
(* open.                                                                   *)
WatcherAttached ==
  \A p \in LiveTerms :
    watcher[p] # NoTab /\ tab[watcher[p]].ws = "open" /\ p \in tab[watcher[p]].ids
      => pty[p].emit = watcher[p]
=============================================================================
