--------------------------- MODULE EnvironmentLinks ---------------------------
(***************************************************************************)
(* Links between the machines of an environment (agents/linkManager.ts)    *)
(* over the tunnels of AgentRegistry (agents/registry.ts).  The manager    *)
(* runs one piece of work at a time; the agents, the database and the      *)
(* registry go on while it awaits, and a tunnel that closes under it       *)
(* queues a callback behind the work in progress.                          *)
(***************************************************************************)
EXTENDS Naturals, Sequences, FiniteSets

CONSTANTS
  Links,     \* 1..n, the order of the ids
  Moves      \* outside events: machines, VPN, environment, user, timeouts

ASSUME LinkAssumption == Links \in SUBSET Nat /\ IsFiniteSet(Links) /\ Moves \in Nat

VARIABLES
  row,       \* environment_links
  envActive,    \* the environment is provisioning or ready
  bothUp,        \* both machines are online
  vpn,       \* the VPN service has an address for the link
  tun,       \* AgentRegistry.tunnels
  work,      \* the serialized tail, the piece in progress first
  pc, left,  \* where that piece is, and the links it still has to open
  owned,     \* LinkManager.owned
  stop,      \* start() and stop(): "starting", "no", "waits", "over"
  waits,     \* the pieces it waits for
  cache,     \* LinkManager.authorized while its decision is fresh
  frame,     \* a data frame at authorizeFrame
  stray,     \* history: a frame was relayed for a link that does not exist
  moves

manager == <<work, pc, left, owned>>
traffic == <<cache, frame, stray>>
linkVars == <<row, envActive, bothUp, vpn, tun, manager, stop, waits, traffic, moves>>

Row == [exists : BOOLEAN, state : {"open", "down"}, transport : {"vpn", "tunnel"}]
Work == [job : {"reconcile", "ensure", "delete", "closed"}, link : Links \cup {0}]
Tunnel == {"none", "starting", "open"}

LinksStopped == stop \in {"waits", "over"}

Authorized(l) == row[l].exists /\ envActive

(* The rows are what the last process left.                                *)
LinkInit ==
  /\ row \in [Links -> {r \in Row : r.state = "down" \/ r.exists}]
  /\ envActive = TRUE /\ bothUp = FALSE /\ vpn = FALSE
  /\ tun = [l \in Links |-> "none"]
  /\ work = <<[job |-> "reconcile", link |-> 0]>> /\ pc = "begin" /\ left = {}
  /\ owned = {} /\ stop = "starting" /\ waits = 0
  /\ cache = [l \in Links |-> "none"] /\ frame = [l \in Links |-> "none"]
  /\ stray = FALSE /\ moves = Moves

-----------------------------------------------------------------------------
(* The tail and the tunnels.                                               *)

Doing == Head(work)
Link == IF Doing.job = "reconcile" THEN CHOOSE l \in left : \A k \in left : l <= k ELSE Doing.link

AtStep(name) == work # <<>> /\ pc = name

Enqueue(jobs) == work' = work \o jobs

(* closeTunnel of the links in ls: the waiting createTunnel is rejected,   *)
(* frames being authorized find another tunnel or none, and onClose queues *)
(* the check of the row.                                                   *)
Closes(ls) == {l \in ls : tun[l] # "none"}

Callbacks(ls) ==
  LET order == CHOOSE s \in [1..Cardinality(ls) -> ls] :
                 \A i, j \in 1..Cardinality(ls) : i < j => s[i] < s[j]
  IN [i \in 1..Cardinality(ls) |-> [job |-> "closed", link |-> order[i]]]

CloseTunnels(ls) ==
  /\ tun' = [l \in Links |-> IF l \in ls THEN "none" ELSE tun[l]]
  /\ frame' = [l \in Links |-> IF l \in Closes(ls) /\ frame[l] = "asking" THEN "lost" ELSE frame[l]]

Untouched == UNCHANGED <<tun, frame>>

(* The piece in progress goes on at another await ...                      *)
GoOn(name, ls) == pc' = name /\ Enqueue(Callbacks(Closes(ls))) /\ UNCHANGED <<left, waits>>

(* Mutation: pieces are counted when nobody waits for them.                *)
CountedAlways == waits' = waits - 1

(* stop() waits for the pieces that were queued when it was called.        *)
Counted == waits' = IF waits > 0 THEN waits - 1 ELSE 0

(* ... with the next link, or the next piece.                              *)
Done(ls) ==
  LET rest == IF Doing.job = "reconcile" /\ ~LinksStopped THEN left \ {Link} ELSE {} IN
  /\ left' = rest
  /\ IF rest # {}
     THEN pc' = "authorize" /\ Enqueue(Callbacks(Closes(ls))) /\ UNCHANGED waits
     ELSE /\ pc' = "begin"
          /\ work' = Tail(work) \o Callbacks(Closes(ls))
          /\ Counted

SetState(l, state) == row' = [row EXCEPT ![l].state = state]

Surroundings == <<envActive, bothUp, vpn, cache, stray, stop, moves>>

-----------------------------------------------------------------------------
(* The pieces.                                                             *)

(* A piece that ends at once: nothing to open, or the manager is stopped.  *)
Skip ==
  /\ AtStep("begin") /\ Untouched
  /\ \/ Doing.job \in {"reconcile", "ensure"} /\ LinksStopped
     \/ Doing.job = "ensure" /\ ~(bothUp /\ envActive)
     \/ Doing.job = "delete" /\ ~row[Doing.link].exists
     \/ Doing.job = "closed" /\ tun[Doing.link] = "open"
  /\ left' = {} /\ pc' = "begin" /\ work' = Tail(work) /\ Counted
  /\ UNCHANGED <<row, owned, Surroundings>>

(* reconcile() has read the links: tunnels of deleted ones are closed.     *)
ReconcileLinks ==
  LET rows == {l \in Links : row[l].exists}
      gone == owned \ rows
  IN
  /\ AtStep("begin") /\ Doing.job = "reconcile" /\ ~LinksStopped
  /\ CloseTunnels(gone) /\ owned' = owned \cap rows
  /\ left' = rows
  /\ IF rows # {}
     THEN pc' = "authorize" /\ Enqueue(Callbacks(Closes(gone))) /\ UNCHANGED waits
     ELSE pc' = "begin" /\ work' = Tail(work) \o Callbacks(Closes(gone)) /\ Counted
  /\ UNCHANGED <<row, Surroundings>>

(* ensureLink() has its row.                                               *)
EnsureLink ==
  /\ AtStep("begin") /\ Doing.job = "ensure" /\ ~LinksStopped /\ bothUp /\ envActive
  /\ row' = [row EXCEPT ![Link] =
       IF @.exists THEN @ ELSE [exists |-> TRUE, state |-> "down", transport |-> "tunnel"]]
  /\ Untouched /\ GoOn("authorize", {})
  /\ UNCHANGED <<owned, Surroundings>>

(* deleteLink() finds the row, removes it and closes the tunnel.           *)
FindRow ==
  /\ AtStep("begin") /\ Doing.job = "delete" /\ row[Link].exists
  /\ Untouched /\ GoOn("delete", {})
  /\ UNCHANGED <<row, owned, Surroundings>>

(* Mutation: the tunnel stays when its link is deleted.                    *)
DeleteLinkRow ==
  /\ AtStep("delete")
  /\ row' = [row EXCEPT ![Link] = [exists |-> FALSE, state |-> "down", transport |-> "tunnel"]]
  /\ Untouched /\ owned' = owned \ {Link} /\ Done({})
  /\ UNCHANGED Surroundings

DeleteLink ==
  /\ AtStep("delete")
  /\ row' = [row EXCEPT ![Link] = [exists |-> FALSE, state |-> "down", transport |-> "tunnel"]]
  /\ CloseTunnels({Link}) /\ owned' = owned \ {Link}
  /\ cache' = [cache EXCEPT ![Link] = "none"]
  /\ Done({Link})
  /\ UNCHANGED <<envActive, bothUp, vpn, stray, stop, moves>>

(* onClose: a delayed callback must not overwrite a reopened link.         *)
CheckClosed ==
  /\ AtStep("begin") /\ Doing.job = "closed" /\ tun[Link] # "open"
  /\ Untouched
  /\ IF row[Link].exists /\ row[Link].transport = "tunnel" THEN GoOn("mark", {}) ELSE Done({})
  /\ UNCHANGED <<row, owned, Surroundings>>

(* open(): the first read.                                                 *)
Authorize ==
  /\ AtStep("authorize")
  /\ IF LinksStopped THEN Untouched /\ Done({})
     ELSE IF Authorized(Link) /\ bothUp THEN Untouched /\ GoOn("address", {})
     ELSE CloseTunnels({Link}) /\ GoOn("mark", {Link})
  /\ UNCHANGED <<row, owned, Surroundings>>

(* The VPN service has answered.                                           *)
Address ==
  /\ AtStep("address")
  /\ IF LinksStopped THEN Untouched /\ Done({}) /\ UNCHANGED owned
     ELSE IF vpn
     THEN CloseTunnels({Link}) /\ owned' = owned \cup {Link} /\ GoOn("useVpn", {Link})
     ELSE Untouched /\ UNCHANGED owned /\ GoOn("useTunnel", {})
  /\ UNCHANGED <<row, Surroundings>>

SetTransport ==
  /\ AtStep("useVpn") \/ AtStep("useTunnel")
  /\ row' = [row EXCEPT ![Link].transport = IF pc = "useVpn" THEN "vpn" ELSE "tunnel"]
  /\ Untouched
  /\ GoOn(IF pc = "useVpn" \/ tun[Link] = "open" THEN "publish" ELSE "create", {})
  /\ UNCHANGED <<owned, Surroundings>>

PublishLink ==
  /\ AtStep("publish") /\ SetState(Link, "open")
  /\ Untouched /\ Done({})
  /\ UNCHANGED <<owned, Surroundings>>

(* The row is down while the tunnel is made; without the machines the      *)
(* version check throws.                                                   *)
CreateTunnel ==
  /\ AtStep("create") /\ SetState(Link, "down")
  /\ IF LinksStopped \/ ~bothUp THEN Untouched /\ Done({}) /\ UNCHANGED owned
     ELSE /\ owned' = owned \cup {Link}
          /\ tun' = [tun EXCEPT ![Link] = "starting"] /\ UNCHANGED frame
          /\ GoOn("listen", {})
  /\ UNCHANGED Surroundings

(* createTunnel() was rejected.                                            *)
TunnelRejected ==
  /\ AtStep("listen") /\ tun[Link] = "none"
  /\ Untouched /\ GoOn("mark", {})
  /\ UNCHANGED <<row, owned, Surroundings>>

VerifyTunnel ==
  /\ AtStep("verify")
  /\ IF LinksStopped \/ ~Authorized(Link) \/ tun[Link] # "open"
     THEN CloseTunnels({Link}) /\ Done({Link})
     ELSE Untouched /\ GoOn("publish", {})
  /\ UNCHANGED <<row, owned, Surroundings>>

MarkDown ==
  /\ AtStep("mark") /\ SetState(Link, "down")
  /\ Untouched /\ Done({})
  /\ UNCHANGED <<owned, Surroundings>>

Piece ==
  \/ Skip \/ ReconcileLinks \/ EnsureLink \/ FindRow \/ DeleteLink \/ CheckClosed
  \/ Authorize \/ Address \/ SetTransport \/ PublishLink \/ CreateTunnel
  \/ TunnelRejected \/ VerifyTunnel \/ MarkDown

-----------------------------------------------------------------------------
(* The agents, the tunnel frames and the rest of the server.               *)

Outside == stop # "starting" /\ moves > 0 /\ moves' = moves - 1

(* start() has awaited the first reconciliation; only then are the routes  *)
(* registered that machines and users connect to.                          *)
LinksStarted ==
  /\ stop = "starting" /\ work = <<>> /\ stop' = "no"
  /\ UNCHANGED <<row, envActive, bothUp, vpn, tun, manager, waits, traffic, moves>>

(* tunnel.listening of the source agent, with the port that was asked for  *)
(* or another one; the frame is authorized first.                          *)
Listening ==
  /\ AtStep("listen") /\ tun[Link] = "starting"
  /\ IF Authorized(Link)
     THEN \/ /\ tun' = [tun EXCEPT ![Link] = "open"]
             /\ UNCHANGED frame /\ GoOn("verify", {}) /\ UNCHANGED moves
          \/ Outside /\ CloseTunnels({Link}) /\ GoOn("mark", {Link})
     ELSE CloseTunnels({Link}) /\ GoOn("listen", {Link}) /\ UNCHANGED moves
  /\ cache' = [cache EXCEPT ![Link] = IF Authorized(Link) THEN "yes" ELSE "no"]
  /\ UNCHANGED <<row, owned, envActive, bothUp, vpn, stray, stop>>

(* Mutation: the manager is not told of the close.                         *)
UnansweredSilent(l) ==
  /\ tun[l] # "none" /\ Outside
  /\ CloseTunnels({l}) /\ UNCHANGED work
  /\ UNCHANGED <<row, envActive, bothUp, vpn, pc, left, owned, stop, waits, cache, stray>>

(* No answer within ten seconds, or tunnel.error.                          *)
Unanswered(l) ==
  /\ tun[l] # "none" /\ Outside
  /\ CloseTunnels({l}) /\ Enqueue(Callbacks({l}))
  /\ UNCHANGED <<row, envActive, bothUp, vpn, pc, left, owned, stop, waits, cache, stray>>

(* A data frame: the decision of the last seconds, or the database.        *)
Relay(l) == stray' = (stray \/ ~row[l].exists)

DataFrame(l) ==
  /\ tun[l] = "open" /\ frame[l] = "none"
  /\ IF cache[l] = "yes"
     THEN Relay(l) /\ UNCHANGED <<tun, frame, work>>
     ELSE IF cache[l] = "no"
     THEN CloseTunnels({l}) /\ Enqueue(Callbacks({l})) /\ UNCHANGED stray
     ELSE frame' = [frame EXCEPT ![l] = "asking"] /\ UNCHANGED <<tun, work, stray>>
  /\ UNCHANGED <<row, envActive, bothUp, vpn, pc, left, owned, stop, waits, cache, moves>>

FrameDecided(l) ==
  LET same == frame[l] = "asking" IN
  /\ frame[l] # "none"
  /\ cache' = [cache EXCEPT ![l] = IF Authorized(l) THEN "yes" ELSE "no"]
  /\ IF same /\ ~Authorized(l)
     THEN /\ tun' = [tun EXCEPT ![l] = "none"]
          /\ Enqueue(Callbacks({l})) /\ UNCHANGED stray
     ELSE /\ UNCHANGED <<tun, work>>
          /\ IF same THEN Relay(l) ELSE UNCHANGED stray
  /\ frame' = [frame EXCEPT ![l] = "none"]
  /\ UNCHANGED <<row, envActive, bothUp, vpn, pc, left, owned, stop, waits, moves>>

(* Five seconds later.                                                     *)
Expire(l) ==
  /\ cache[l] # "none" /\ cache' = [cache EXCEPT ![l] = "none"]
  /\ UNCHANGED <<row, envActive, bothUp, vpn, tun, manager, stop, waits, frame, stray, moves>>

(* Mutation: the manager does not listen to the registry.                  *)
ChangedUnheard == <<>>

Changed == IF LinksStopped THEN <<>> ELSE <<[job |-> "reconcile", link |-> 0]>>

(* A machine goes: unregister() closes its tunnels, then tells the manager. *)
MachineDown ==
  /\ bothUp /\ bothUp' = FALSE /\ Outside
  /\ CloseTunnels(Links) /\ Enqueue(Callbacks(Closes(Links)) \o Changed)
  /\ UNCHANGED <<row, envActive, vpn, pc, left, owned, stop, waits, cache, stray>>

MachineUp ==
  /\ ~bothUp /\ stop # "starting" /\ bothUp' = TRUE /\ Enqueue(Changed)
  /\ UNCHANGED <<row, envActive, vpn, tun, pc, left, owned, stop, waits, traffic, moves>>

VpnChange ==
  /\ Outside /\ vpn' = ~vpn /\ Enqueue(Changed)
  /\ UNCHANGED <<row, envActive, bothUp, tun, pc, left, owned, stop, waits, traffic>>

EnvironmentChange ==
  /\ Outside /\ envActive' = ~envActive
  /\ UNCHANGED <<row, bothUp, vpn, tun, manager, stop, waits, traffic>>

(* Telemetry of a machine tells the manager every few seconds.             *)
Telemetry ==
  /\ bothUp /\ ~LinksStopped /\ work = <<>> /\ Enqueue(Changed)
  /\ UNCHANGED <<row, envActive, bothUp, vpn, tun, pc, left, owned, stop, waits, traffic, moves>>

Request(job, l) ==
  /\ Outside /\ Enqueue(<<[job |-> job, link |-> l]>>)
  /\ UNCHANGED <<row, envActive, bothUp, vpn, tun, pc, left, owned, stop, waits, traffic>>

StopLinks ==
  /\ stop = "no" /\ stop' = "waits" /\ Outside
  /\ CloseTunnels(owned) /\ Enqueue(Callbacks(Closes(owned)))
  /\ waits' = Len(work')
  /\ UNCHANGED <<row, envActive, bothUp, vpn, pc, left, owned, cache, stray>>

StopOver ==
  /\ stop = "waits" /\ waits = 0
  /\ stop' = "over" /\ owned' = {}
  /\ row' = [l \in Links |-> IF l \in owned THEN [row[l] EXCEPT !.state = "down"] ELSE row[l]]
  /\ UNCHANGED <<envActive, bothUp, vpn, tun, work, pc, left, waits, traffic, moves>>

LinkNext ==
  \/ Piece \/ Listening
  \/ \E l \in Links : Unanswered(l) \/ DataFrame(l) \/ FrameDecided(l) \/ Expire(l)
  \/ MachineDown \/ MachineUp \/ VpnChange \/ EnvironmentChange \/ Telemetry
  \/ \E l \in Links, job \in {"ensure", "delete"} : Request(job, l)
  \/ LinksStarted \/ StopLinks \/ StopOver

LinkSpec == LinkInit /\ [][LinkNext]_linkVars

(* The manager goes on, agents answer, telemetry keeps coming.             *)
LinkFairness ==
  /\ WF_linkVars(Piece) /\ WF_linkVars(Listening) /\ WF_linkVars(Telemetry)
  /\ WF_linkVars(LinksStarted)

-----------------------------------------------------------------------------
LinkTypeOK ==
  /\ row \in [Links -> Row] /\ tun \in [Links -> Tunnel]
  /\ work \in Seq(Work) /\ left \subseteq Links /\ owned \subseteq Links
  /\ stop \in {"starting", "no", "waits", "over"} /\ waits \in 0..Len(work)
  /\ cache \in [Links -> {"none", "yes", "no"}]
  /\ frame \in [Links -> {"none", "asking", "lost"}] /\ moves \in 0..Moves

(* When nothing is queued, a stored link over a tunnel is open exactly     *)
(* when its tunnel is: no callback, reconciliation or stop that comes late *)
(* leaves a reopened link down or a closed one open.                       *)
StateMatchesTunnel ==
  work = <<>> /\ stop \in {"no", "over"} =>
    \A l \in Links :
      /\ tun[l] = "open" => row[l] = [exists |-> TRUE, state |-> "open", transport |-> "tunnel"]
      /\ row[l].exists /\ row[l].state = "open" /\ row[l].transport = "tunnel" => tun[l] = "open"

(* No data is relayed for a deleted link: not by the decision of the last  *)
(* seconds, nor by a frame whose authorization was under way.              *)
DeletedSilent == ~stray

(* A link of an active environment whose machines stay online opens and    *)
(* stays open.                                                             *)
LinkOpens ==
  \A l \in Links :
    <>[](bothUp /\ Authorized(l) /\ ~LinksStopped) => <>[](row[l].state = "open")
=============================================================================
