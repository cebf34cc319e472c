------------------------------ MODULE RelayFlow ------------------------------
(***************************************************************************)
(* Backpressure of data that Core relays through tunnels                   *)
(* (agents/registry.ts).  Core pauses the producer of a connection while   *)
(* the consumer's socket is backlogged and polls it for room; the          *)
(* receiving agent pauses and resumes the same producer for reasons of its *)
(* own; both talk to the producer over one socket.                         *)
(***************************************************************************)
EXTENDS Naturals, Sequences, FiniteSets

CONSTANTS
  Conns,      \* connections with the same producer and consumer
  High, Low,  \* the water marks, in frames
  MaxFlight,  \* frames of a connection that have not reached Core
  MaxFlow,    \* flow messages of a connection that have not reached the producer
  MaxBuffer   \* frames in the socket of the consumer

ASSUME RelayAssumption ==
  /\ High \in Nat /\ Low \in Nat /\ Low < High
  /\ MaxFlight \in Nat \ {0} /\ MaxFlow \in Nat \ {0}
  /\ MaxBuffer \in Nat

VARIABLES
  paused,     \* connections the producer does not read
  over,       \* connections that ended
  flight,     \* frames under way to Core
  buffered,   \* bufferedAmount of the consumer's socket
  coreHolds,  \* TunnelSession.relayPaused
  peerHolds,  \* TunnelSession.peerPaused
  timer,      \* TunnelSession.relayTimer is set
  flow        \* flow messages under way to the producer

relayVars == <<paused, over, flight, buffered, coreHolds, peerHolds, timer, flow>>

RelayInit ==
  /\ paused = {} /\ over = {} /\ buffered = 0
  /\ flight = [c \in Conns |-> 0]
  /\ coreHolds = {} /\ peerHolds = {} /\ timer = FALSE
  /\ flow = [c \in Conns |-> <<>>]

Room(c) == Len(flow[c]) < MaxFlow

Say(c, message) == Room(c) /\ flow' = [flow EXCEPT ![c] = Append(@, message)]

Produce(c) ==
  /\ c \notin paused \cup over /\ flight[c] < MaxFlight
  /\ flight' = [flight EXCEPT ![c] = @ + 1]
  /\ UNCHANGED <<paused, over, buffered, coreHolds, peerHolds, timer, flow>>

(* tunnel.data: relayed, then throttleRelay.                               *)
Data(c) ==
  /\ flight[c] > 0 /\ buffered < MaxBuffer
  /\ flight' = [flight EXCEPT ![c] = @ - 1]
  /\ buffered' = buffered + 1
  /\ IF c \in coreHolds \/ buffered' < High
     THEN UNCHANGED <<coreHolds, timer, flow>>
     ELSE /\ coreHolds' = coreHolds \cup {c} /\ timer' = TRUE
          /\ Say(c, "pause")
  /\ UNCHANGED <<paused, over, peerHolds>>

Drain ==
  /\ buffered > 0 /\ buffered' = buffered - 1
  /\ UNCHANGED <<paused, over, flight, coreHolds, peerHolds, timer, flow>>

(* Mutation: the timer fires once.                                         *)
PollOnce ==
  LET free == IF buffered > Low THEN {} ELSE coreHolds IN
  /\ timer /\ \A c \in free \ peerHolds : Room(c)
  /\ coreHolds' = coreHolds \ free /\ timer' = FALSE
  /\ flow' = [c \in Conns |->
       IF c \in free \ peerHolds THEN Append(flow[c], "resume") ELSE flow[c]]
  /\ UNCHANGED <<paused, over, flight, buffered, peerHolds>>

(* releaseRelay: the held connections are released when the consumer has   *)
(* room; without a held one the timer ends.                                *)
Poll ==
  LET free == IF buffered > Low THEN {} ELSE coreHolds IN
  /\ timer /\ \A c \in free \ peerHolds : Room(c)
  /\ coreHolds' = coreHolds \ free /\ timer' = (coreHolds' # {})
  /\ flow' = [c \in Conns |->
       IF c \in free \ peerHolds THEN Append(flow[c], "resume") ELSE flow[c]]
  /\ UNCHANGED <<paused, over, flight, buffered, peerHolds>>

(* tunnel.pause and tunnel.resume of the receiving agent.                  *)
PeerPause(c) ==
  /\ c \notin peerHolds \cup over /\ peerHolds' = peerHolds \cup {c}
  /\ Say(c, "pause")
  /\ UNCHANGED <<paused, over, flight, buffered, coreHolds, timer>>

(* Mutation: the peer resumes a producer that Core holds.                  *)
PeerResumeAlways(c) ==
  /\ c \in peerHolds /\ peerHolds' = peerHolds \ {c}
  /\ Say(c, "resume")
  /\ UNCHANGED <<paused, over, flight, buffered, coreHolds, timer>>

PeerResume(c) ==
  /\ c \in peerHolds /\ peerHolds' = peerHolds \ {c}
  /\ IF c \in coreHolds THEN UNCHANGED flow ELSE Say(c, "resume")
  /\ UNCHANGED <<paused, over, flight, buffered, coreHolds, timer>>

Hear(c) ==
  /\ flow[c] # <<>> /\ flow' = [flow EXCEPT ![c] = Tail(@)]
  /\ paused' = IF Head(flow[c]) = "pause" THEN paused \cup {c} ELSE paused \ {c}
  /\ UNCHANGED <<over, flight, buffered, coreHolds, peerHolds, timer>>

(* tunnel.end of the producer, behind its data.                            *)
End(c) ==
  /\ c \notin over /\ flight[c] = 0 /\ over' = over \cup {c}
  /\ coreHolds' = coreHolds \ {c}
  /\ UNCHANGED <<paused, flight, buffered, peerHolds, timer, flow>>

RelayNext ==
  \/ \E c \in Conns :
       Produce(c) \/ Data(c) \/ PeerPause(c) \/ PeerResume(c) \/ Hear(c) \/ End(c)
  \/ Drain \/ Poll

RelaySpec == RelayInit /\ [][RelayNext]_relayVars

(* The consumer reads, the poll timer fires, and sockets deliver.          *)
RelayFairness ==
  /\ WF_relayVars(Drain) /\ WF_relayVars(Poll)
  /\ \A c \in Conns : WF_relayVars(Hear(c))

-----------------------------------------------------------------------------
(* What the producer will do once it has heard everything.                 *)
WillPause(c) ==
  IF flow[c] = <<>> THEN c \in paused ELSE flow[c][Len(flow[c])] = "pause"

RelayTypeOK ==
  /\ paused \subseteq Conns /\ over \subseteq Conns
  /\ flight \in [Conns -> Nat] /\ buffered \in Nat
  /\ coreHolds \subseteq Conns /\ peerHolds \subseteq Conns /\ timer \in BOOLEAN
  /\ flow \in [Conns -> Seq({"pause", "resume"})]

(* A producer is or will be paused exactly while Core or its peer holds    *)
(* it: neither of the two releases a producer the other still holds, and   *)
(* none is left paused for nobody.                                         *)
HoldsAgree ==
  \A c \in Conns \ over : WillPause(c) = (c \in coreHolds \cup peerHolds)

(* Once the peers pause no more and the backlog of the consumer stays      *)
(* below the low mark, no producer is paused for good.                     *)
ProducerResumes ==
  <>[](peerHolds = {} /\ buffered <= Low)
    => \A c \in Conns : []<>(c \notin paused \/ c \in over)
=============================================================================
