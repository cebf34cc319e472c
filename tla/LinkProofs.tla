------------------------------ MODULE LinkProofs ------------------------------
(***************************************************************************)
(* Proofs about what the server does between the machines of its users:    *)
(* the backpressure of relayed data, the links of an environment and the   *)
(* watchdog, for any machines, connections and limits.                     *)
(***************************************************************************)
EXTENDS RelayFlow, EnvironmentLinks, AgentWatchdog, SequenceTheorems, FiniteSetTheorems,
        WellFoundedInduction, TLAPS

-----------------------------------------------------------------------------
(* Backpressure of relayed data.                                           *)

Messages == {"pause", "resume"}

(* A message said last is what the producer will do.                       *)
LEMMA SayDecides ==
  ASSUME NEW q \in Seq(Messages), NEW m \in Messages
  PROVE  /\ Append(q, m) \in Seq(Messages) /\ Append(q, m) # <<>>
         /\ Append(q, m)[Len(Append(q, m))] = m
BY DEF Messages

(* Hearing the first message does not change what the last one says.       *)
LEMMA HearKeepsLast ==
  ASSUME NEW q \in Seq(Messages), q # <<>>
  PROVE  /\ Tail(q) \in Seq(Messages) /\ Head(q) \in Messages
         /\ Tail(q) = <<>> => q[Len(q)] = Head(q)
         /\ Tail(q) # <<>> => Tail(q)[Len(Tail(q))] = q[Len(q)]
<1>1. /\ Tail(q) \in Seq(Messages) /\ Len(Tail(q)) = Len(q) - 1
      /\ \A i \in 1..Len(Tail(q)) : Tail(q)[i] = q[i + 1]
      /\ Len(q) \in Nat /\ Len(q) >= 1 /\ Head(q) = q[1] /\ Head(q) \in Messages
  OBVIOUS
<1>2. Tail(q) = <<>> => Len(q) = 1
  <2> SUFFICES ASSUME Tail(q) = <<>> PROVE Len(q) = 1
    OBVIOUS
  <2>1. Len(Tail(q)) = 0
    BY EmptySeq
  <2> QED
    BY <1>1, <2>1
<1>3. Tail(q) # <<>> => Len(Tail(q)) \in 1..Len(Tail(q))
  <2> DEFINE r == Tail(q)
  <2>1. r \in Seq(Messages)
    BY <1>1
  <2> HIDE DEF r
  <2>2. r # <<>> => Len(r) \in 1..Len(r)
    BY <2>1
  <2> QED
    BY <2>2 DEF r
<1> QED
  BY <1>1, <1>2, <1>3

RelayInv == RelayTypeOK /\ HoldsAgree

(* The flow of other connections is their own.                             *)
Keeps(c) == flow'[c] = flow[c] /\ (c \in paused' <=> c \in paused)

(* A connection whose flow is untouched will do what it would have done.   *)
LEMMA KeepsWill ==
  ASSUME NEW c, Keeps(c)
  PROVE  WillPause(c)' <=> WillPause(c)
BY DEF WillPause, Keeps

(* A message that is said decides.                                         *)
LEMMA SaidWill ==
  ASSUME RelayTypeOK, NEW c \in Conns, NEW m \in Messages, flow'[c] = Append(flow[c], m)
  PROVE  WillPause(c)' <=> m = "pause"
<1>1. flow[c] \in Seq(Messages)
  BY DEF RelayTypeOK, Messages
<1>2. flow'[c] # <<>> /\ flow'[c][Len(flow'[c])] = m
  BY <1>1, SayDecides
<1> QED
  BY <1>2 DEF WillPause

(* Types of the relay.                                                     *)
LEMMA RelayTypes ==
  ASSUME RelayTypeOK, RelayNext
  PROVE  RelayTypeOK'
<1> USE DEF RelayTypeOK
<1>1. ASSUME NEW c \in Conns, NEW m \in Messages, Say(c, m)
      PROVE  flow' \in [Conns -> Seq({"pause", "resume"})]
  BY <1>1, SayDecides DEF Say, Messages
<1>2. ASSUME NEW c \in Conns, Produce(c) PROVE RelayTypeOK'
  BY <1>2 DEF Produce
<1>3. ASSUME NEW c \in Conns, Data(c) PROVE RelayTypeOK'
  <2>1. /\ flight' \in [Conns -> Nat] /\ buffered' \in Nat
        /\ UNCHANGED <<paused, over, peerHolds>>
    <3>1. flight[c] \in Nat /\ flight[c] > 0
      BY <1>3 DEF Data
    <3>2. flight' = [flight EXCEPT ![c] = @ - 1] /\ buffered' = buffered + 1
      BY <1>3 DEF Data
    <3> QED
      BY <1>3, <3>1, <3>2 DEF Data
  <2>2. UNCHANGED flow \/ Say(c, "pause")
    BY <1>3 DEF Data
  <2>3. flow' \in [Conns -> Seq({"pause", "resume"})]
    BY <1>1, <2>2 DEF Messages
  <2>4. coreHolds' \subseteq Conns /\ timer' \in BOOLEAN
    BY <1>3 DEF Data
  <2> QED
    BY <2>1, <2>3, <2>4
<1>4. ASSUME NEW c \in Conns, PeerPause(c) PROVE RelayTypeOK'
  BY <1>1, <1>4 DEF PeerPause, Messages
<1>5. ASSUME NEW c \in Conns, PeerResume(c) PROVE RelayTypeOK'
  BY <1>1, <1>5 DEF PeerResume, Messages
<1>6. ASSUME NEW c \in Conns, Hear(c) PROVE RelayTypeOK'
  <2>1. Tail(flow[c]) \in Seq({"pause", "resume"})
    BY <1>6, HearKeepsLast DEF Hear, Messages
  <2> QED
    BY <1>6, <2>1 DEF Hear
<1>7. ASSUME NEW c \in Conns, End(c) PROVE RelayTypeOK'
  BY <1>7 DEF End
<1>8. CASE Drain
  BY <1>8 DEF Drain
<1>9. CASE Poll
  <2>1. \A c \in Conns : Append(flow[c], "resume") \in Seq({"pause", "resume"})
    BY SayDecides DEF Messages
  <2>2. flow' \in [Conns -> Seq({"pause", "resume"})]
    BY <1>9, <2>1 DEF Poll
  <2> QED
    BY <1>9, <2>2 DEF Poll
<1> QED
  BY <1>2, <1>3, <1>4, <1>5, <1>6, <1>7, <1>8, <1>9 DEF RelayNext

(* Both halves of the agreement survive every step.                        *)
LEMMA RelayAgrees ==
  ASSUME RelayInv, RelayNext
  PROVE  HoldsAgree'
<1>0. RelayTypeOK /\ HoldsAgree /\ flow \in [Conns -> Seq(Messages)]
  BY DEF RelayInv, RelayTypeOK, Messages
<1> SUFFICES ASSUME NEW c \in Conns, c \notin over'
             PROVE  WillPause(c)' = (c \in (coreHolds \cup peerHolds)')
  BY DEF HoldsAgree
<1>1. c \notin over
  BY DEF RelayNext, Produce, Data, PeerPause, PeerResume, Hear, End, Drain, Poll
<1>2. WillPause(c) <=> c \in coreHolds \cup peerHolds
  BY <1>0, <1>1 DEF HoldsAgree
<1>3. WillPause(c)' \in BOOLEAN /\ (c \in (coreHolds \cup peerHolds)') \in BOOLEAN
  <2>1. CASE flow'[c] = <<>>
    BY <2>1 DEF WillPause
  <2>2. CASE flow'[c] # <<>>
    BY <2>2 DEF WillPause
  <2> QED
    BY <2>1, <2>2
<1>4. ASSUME Keeps(c), c \in (coreHolds \cup peerHolds)' <=> c \in coreHolds \cup peerHolds
      PROVE  WillPause(c)' = (c \in (coreHolds \cup peerHolds)')
  BY <1>2, <1>3, <1>4, KeepsWill
<1>5. ASSUME NEW d \in Conns, NEW m \in Messages, Say(d, m), paused' = paused,
             (coreHolds \cup peerHolds)' = IF m = "pause" THEN coreHolds \cup peerHolds \cup {d}
                                           ELSE (coreHolds \cup peerHolds) \ {d}
      PROVE  WillPause(c)' = (c \in (coreHolds \cup peerHolds)')
  <2>1. CASE c = d
    <3>1. flow'[c] = Append(flow[c], m)
      BY <1>0, <1>5, <2>1 DEF Say
    <3>2. WillPause(c)' <=> m = "pause"
      BY <1>0, <3>1, SaidWill
    <3> QED
      BY <1>3, <1>5, <2>1, <3>2
  <2>2. CASE c # d
    <3>1. Keeps(c)
      BY <1>0, <1>5, <2>2 DEF Say, Keeps
    <3> QED
      BY <1>4, <1>5, <2>2, <3>1
  <2> QED
    BY <2>1, <2>2
<1>6. ASSUME NEW d \in Conns, Data(d)
      PROVE  WillPause(c)' = (c \in (coreHolds \cup peerHolds)')
  <2>1. CASE UNCHANGED <<coreHolds, flow>>
    BY <1>4, <1>6, <2>1 DEF Data, Keeps
  <2>2. CASE coreHolds' = coreHolds \cup {d} /\ Say(d, "pause")
    BY <1>5, <1>6, <2>2 DEF Data, Messages
  <2> QED
    BY <1>6, <2>1, <2>2 DEF Data
<1>7. ASSUME NEW d \in Conns, PeerPause(d)
      PROVE  WillPause(c)' = (c \in (coreHolds \cup peerHolds)')
  BY <1>5, <1>7 DEF PeerPause, Messages
<1>8. ASSUME NEW d \in Conns, PeerResume(d)
      PROVE  WillPause(c)' = (c \in (coreHolds \cup peerHolds)')
  <2>1. CASE d \in coreHolds
    BY <1>4, <1>8, <2>1 DEF PeerResume, Keeps
  <2>2. CASE d \notin coreHolds
    <3>1. (coreHolds \cup peerHolds)' = (coreHolds \cup peerHolds) \ {d}
      BY <1>8, <2>2 DEF PeerResume
    <3>2. "resume" \in Messages /\ "resume" # "pause"
      BY DEF Messages
    <3> QED
      BY <1>5, <1>8, <2>2, <3>1, <3>2 DEF PeerResume
  <2> QED
    BY <2>1, <2>2
<1>9. ASSUME NEW d \in Conns, Hear(d)
      PROVE  WillPause(c)' = (c \in (coreHolds \cup peerHolds)')
  <2>1. CASE c # d
    BY <1>0, <1>4, <1>9, <2>1 DEF Hear, Keeps
  <2>2. CASE c = d
    <3>1. flow[c] \in Seq(Messages) /\ flow[c] # <<>> /\ flow'[c] = Tail(flow[c])
      BY <1>0, <1>9, <2>2 DEF Hear
    <3>2. c \in paused' <=> Head(flow[c]) = "pause"
      BY <1>9, <2>2 DEF Hear
    <3>3. WillPause(c)' <=> flow[c][Len(flow[c])] = "pause"
      BY <3>1, <3>2, HearKeepsLast DEF WillPause
    <3>4. WillPause(c)' <=> WillPause(c)
      BY <3>1, <3>3 DEF WillPause
    <3> QED
      BY <1>2, <1>3, <1>9, <3>4 DEF Hear
  <2> QED
    BY <2>1, <2>2
<1>10. ASSUME NEW d \in Conns, Produce(d) \/ End(d)
       PROVE  WillPause(c)' = (c \in (coreHolds \cup peerHolds)')
  BY <1>4, <1>10 DEF Produce, End, Keeps
<1>11. CASE Drain
  BY <1>4, <1>11 DEF Drain, Keeps
<1>12. CASE Poll
  <2>1. PICK free : free = IF buffered > Low THEN {} ELSE coreHolds
    OBVIOUS
  <2>2. /\ coreHolds' = coreHolds \ free /\ peerHolds' = peerHolds /\ paused' = paused
        /\ flow'[c] = IF c \in free \ peerHolds THEN Append(flow[c], "resume") ELSE flow[c]
    BY <1>12, <2>1 DEF Poll
  <2>3. CASE c \in free \ peerHolds
    <3>1. ~WillPause(c)'
      <4>1. "resume" \in Messages /\ "resume" # "pause"
        BY DEF Messages
      <4> QED
        BY <1>0, <2>2, <2>3, <4>1, SaidWill
    <3> QED
      BY <1>3, <2>2, <2>3, <3>1
  <2>4. CASE c \notin free \ peerHolds
    BY <1>4, <2>1, <2>2, <2>4 DEF Keeps
  <2> QED
    BY <2>3, <2>4
<1> QED
  BY <1>6, <1>7, <1>8, <1>9, <1>10, <1>11, <1>12 DEF RelayNext

(* The types and the holds of the relay, together.                         *)
LEMMA RelayKept == RelaySpec => []RelayInv
<1>1. RelayInit => RelayInv
  <2> SUFFICES ASSUME RelayInit PROVE RelayInv
    OBVIOUS
  <2>1. <<>> \in Seq({"pause", "resume"})
    OBVIOUS
  <2>2. RelayTypeOK
    BY <2>1 DEF RelayInit, RelayTypeOK
  <2>3. HoldsAgree
    BY DEF RelayInit, HoldsAgree, WillPause
  <2> QED
    BY <2>2, <2>3 DEF RelayInv
<1>2. RelayInv /\ [RelayNext]_relayVars => RelayInv'
  <2>1. RelayInv /\ RelayNext => RelayInv'
    BY RelayTypes, RelayAgrees DEF RelayInv
  <2>2. RelayInv /\ UNCHANGED relayVars => RelayInv'
    BY DEF RelayInv, RelayTypeOK, HoldsAgree, WillPause, relayVars
  <2> QED
    BY <2>1, <2>2
<1> QED
  BY <1>1, <1>2, PTL DEF RelaySpec

(* The relay's variables keep their types.                                 *)
THEOREM RelayTypeCorrect == RelaySpec => []RelayTypeOK
<1>1. RelayInv => RelayTypeOK
  BY DEF RelayInv
<1> QED
  BY <1>1, RelayKept, PTL

(* For any number of connections and any water marks: a producer is paused *)
(* for somebody that still holds it, and for nobody else.                  *)
THEOREM HoldsAgreeKept == RelaySpec => []HoldsAgree
<1>1. RelayInv => HoldsAgree
  BY DEF RelayInv
<1> QED
  BY <1>1, RelayKept, PTL

-----------------------------------------------------------------------------
(* The watchdog.                                                           *)

(* A set of numbers that is not empty has a least element.                 *)
LEMMA LeastMember ==
  ASSUME NEW S \in SUBSET Nat, S # {}
  PROVE  /\ (CHOOSE m \in S : \A n \in S : m <= n) \in S
         /\ \E m \in S : \A n \in S : m <= n
<1> DEFINE R == OpToRel(<, Nat)
<1>1. R = {p \in Nat \X Nat : p[1] < p[2]}
  BY Zenon DEF OpToRel
<1>2. IsWellFoundedOn(R, Nat)
  BY NatLessThanWellFounded
<1> HIDE DEF R
<1>3. PICK i \in S : \A k \in S : <<k, i>> \notin R
  BY <1>2, WFMin, Zenon
<1>4. \A k \in S : i <= k
  <2> TAKE k \in S
  <2>1. i \in Nat /\ k \in Nat
    OBVIOUS
  <2>2. \A p \in Nat \X Nat : p[1] < p[2] => p \in R
    BY <1>1
  <2>3. k < i => <<k, i>> \in R
    BY <2>1, <2>2
  <2> QED
    BY <2>1, <2>3, <1>3
<1> QED
  BY <1>4

(* What a walk that is telling an owner does to the machines the owner     *)
(* takes for offline.                                                      *)
Effect(x, before, after) ==
  IF x.pc # "log" THEN after = before
  ELSE IF x.kind = "tick" THEN x.at \notin before /\ after = before \cup {x.at}
  ELSE x.at \in before /\ after = before \ {x.at}

(* The walks of the queue q, one after the other, take the owner from the  *)
(* set a to the set b by way of h.                                         *)
Way(h, q, walks, a, b) ==
  /\ h \in [0..Len(q) -> SUBSET Guarded] /\ h[0] = a /\ h[Len(q)] = b
  /\ \A i \in 1..Len(q) : Effect(walks[q[i]], h[i - 1], h[i])

Leads(q, walks, a, b) == \E h : Way(h, q, walks, a, b)

(* A walk waits for the database once, or is idle.                         *)
Once(q, walks) ==
  /\ \A i, j \in 1..Len(q) : q[i] = q[j] => i = j
  /\ \A i \in 1..Len(q) : walks[q[i]].pc # "idle"
  /\ \A w \in Walks : walks[w].pc # "idle" => \E i \in 1..Len(q) : q[i] = w

Believed == {m \in Guarded : told[m] = 1}

(* What the owner has been told and will be told by the calls that wait    *)
(* ends in what the watchdog has alerted.                                  *)
WatchdogInv ==
  /\ WatchdogTypeOK /\ AlertsAlternate
  /\ Once(calls, walk) /\ Leads(calls, walk, Believed, alerted)

(* The answer of the first call.                                           *)
LEMMA WayTail ==
  ASSUME NEW q \in Seq(Walks), q # <<>>, NEW walks, NEW a, NEW b, Leads(q, walks, a, b)
  PROVE  \E c \in SUBSET Guarded : Effect(walks[Head(q)], a, c) /\ Leads(Tail(q), walks, c, b)
<1>1. PICK h : Way(h, q, walks, a, b)
  BY DEF Leads
<1>2. PICK n \in Nat : n = Len(q) - 1 /\ Len(q) = n + 1
  OBVIOUS
<1>3. /\ Len(Tail(q)) = n /\ Head(q) = q[1]
      /\ \A i \in 1..n : Tail(q)[i] = q[i + 1]
  BY <1>2
<1> DEFINE g == [i \in 0..n |-> h[i + 1]]
<1>4. g \in [0..n -> SUBSET Guarded] /\ g[0] = h[1] /\ g[n] = h[n + 1] /\ h[1] \in SUBSET Guarded
  BY <1>1, <1>2 DEF Way
<1>5. ASSUME NEW i \in 1..n PROVE Effect(walks[Tail(q)[i]], g[i - 1], g[i])
  <2>1. i + 1 \in 1..Len(q) /\ (i + 1) - 1 = i
    BY <1>2
  <2>2. Effect(walks[q[i + 1]], h[i], h[i + 1])
    BY <1>1, <2>1 DEF Way
  <2>3. g[i - 1] = h[i] /\ g[i] = h[i + 1]
    OBVIOUS
  <2> QED
    BY <1>3, <2>2, <2>3
<1>6. Effect(walks[Head(q)], a, h[1])
  <2>1. 1 \in 1..Len(q) /\ 1 - 1 = 0
    BY <1>2
  <2> QED
    BY <1>1, <1>3, <2>1 DEF Way
<1> HIDE DEF g
<1>7. Way(g, Tail(q), walks, h[1], b)
  BY <1>1, <1>2, <1>3, <1>4, <1>5 DEF Way
<1> QED
  BY <1>4, <1>6, <1>7 DEF Leads

(* A new call at the end.                                                  *)
LEMMA WayAppend ==
  ASSUME NEW q \in Seq(Walks), NEW u \in Walks, NEW walks, NEW a, NEW b,
         NEW c \in SUBSET Guarded, Leads(q, walks, a, b), Effect(walks[u], b, c)
  PROVE  Leads(Append(q, u), walks, a, c)
<1>1. PICK h : Way(h, q, walks, a, b)
  BY DEF Leads
<1>2. PICK n \in Nat : n = Len(q)
  OBVIOUS
<1>3. /\ Len(Append(q, u)) = n + 1 /\ Append(q, u)[n + 1] = u
      /\ \A i \in 1..n : Append(q, u)[i] = q[i]
  BY <1>2
<1> DEFINE g == [i \in 0..(n + 1) |-> IF i = n + 1 THEN c ELSE h[i]]
<1>4. g \in [0..(n + 1) -> SUBSET Guarded] /\ g[0] = a /\ g[n + 1] = c
  BY <1>1, <1>2 DEF Way
<1>5. ASSUME NEW i \in 1..(n + 1) PROVE Effect(walks[Append(q, u)[i]], g[i - 1], g[i])
  <2>1. CASE i = n + 1
    <3>1. g[i - 1] = b /\ g[i] = c
      BY <1>1, <1>2, <2>1 DEF Way
    <3> QED
      BY <1>3, <2>1, <3>1
  <2>2. CASE i # n + 1
    <3>1. i \in 1..n /\ g[i - 1] = h[i - 1] /\ g[i] = h[i]
      BY <2>2
    <3>2. Effect(walks[q[i]], h[i - 1], h[i])
      BY <1>1, <1>2, <3>1 DEF Way
    <3> QED
      BY <1>3, <3>1, <3>2
  <2> QED
    BY <2>1, <2>2
<1> HIDE DEF g
<1>6. Way(g, Append(q, u), walks, a, c)
  BY <1>3, <1>4, <1>5 DEF Way
<1> QED
  BY <1>6 DEF Leads

(* Only the walks in the queue count.                                      *)
LEMMA WaySame ==
  ASSUME NEW q \in Seq(Walks), NEW walks, NEW others, NEW a, NEW b, Leads(q, walks, a, b),
         \A i \in 1..Len(q) : others[q[i]] = walks[q[i]]
  PROVE  Leads(q, others, a, b)
BY DEF Leads, Way

(* The queue without its first call.                                       *)
LEMMA OnceTail ==
  ASSUME NEW q \in Seq(Walks), q # <<>>, NEW walks, Once(q, walks)
  PROVE  /\ Head(q) \in Walks /\ Tail(q) \in Seq(Walks)
         /\ \A i \in 1..Len(Tail(q)) : Tail(q)[i] # Head(q) /\ walks[Tail(q)[i]].pc # "idle"
         /\ \A i, j \in 1..Len(Tail(q)) : Tail(q)[i] = Tail(q)[j] => i = j
         /\ \A w \in Walks \ {Head(q)} :
              walks[w].pc # "idle" => \E i \in 1..Len(Tail(q)) : Tail(q)[i] = w
<1>1. PICK n \in Nat : n = Len(q) - 1 /\ Len(q) = n + 1
  OBVIOUS
<1>2. /\ Head(q) = q[1] /\ Head(q) \in Walks /\ Tail(q) \in Seq(Walks) /\ Len(Tail(q)) = n
      /\ \A i \in 1..n : Tail(q)[i] = q[i + 1]
  BY <1>1
<1>3. \A i \in 1..n : i + 1 \in 1..Len(q) /\ i + 1 # 1
  BY <1>1
<1>4. 1 \in 1..Len(q)
  BY <1>1
<1>5. \A i, j \in 1..n : i + 1 = j + 1 => i = j
  OBVIOUS
<1>6. ASSUME NEW w \in Walks \ {Head(q)}, walks[w].pc # "idle"
      PROVE  \E i \in 1..n : Tail(q)[i] = w
  <2>1. PICK k \in 1..Len(q) : q[k] = w
    BY <1>6 DEF Once
  <2>2. k # 1
    BY <1>2, <2>1
  <2>3. k - 1 \in 1..n /\ (k - 1) + 1 = k
    BY <1>1, <2>2
  <2> QED
    BY <1>2, <2>1, <2>3
<1> QED
  BY <1>2, <1>3, <1>4, <1>5, <1>6 DEF Once

(* The queue with a new call at its end.                                   *)
LEMMA OnceAppend ==
  ASSUME NEW q \in Seq(Walks), NEW u \in Walks, NEW walks, walks[u].pc # "idle",
         \A i \in 1..Len(q) : q[i] # u /\ walks[q[i]].pc # "idle",
         \A i, j \in 1..Len(q) : q[i] = q[j] => i = j,
         \A w \in Walks \ {u} : walks[w].pc # "idle" => \E i \in 1..Len(q) : q[i] = w
  PROVE  Append(q, u) \in Seq(Walks) /\ Once(Append(q, u), walks)
<1>1. PICK n \in Nat : n = Len(q)
  OBVIOUS
<1>2. /\ Append(q, u) \in Seq(Walks) /\ Len(Append(q, u)) = n + 1 /\ Append(q, u)[n + 1] = u
      /\ \A i \in 1..n : Append(q, u)[i] = q[i]
  BY <1>1
<1>3. \A i \in 1..(n + 1) : i = n + 1 \/ i \in 1..n
  OBVIOUS
<1>4. n + 1 \in 1..(n + 1) /\ 1..n \subseteq 1..(n + 1)
  OBVIOUS
<1> QED
  BY <1>1, <1>2, <1>3, <1>4 DEF Once

(* A new walk.                                                             *)
LEMMA BeginKeeps ==
  ASSUME WatchdogInv, NEW kind \in {"tick", "change"}, BeginWalk(kind),
         UNCHANGED <<alerted, told>>, up' \subseteq Guarded, longAgo' \subseteq Guarded,
         flips' \in 0..MaxFlips
  PROVE  WatchdogInv'
<1>1. PICK w \in Walks : /\ walk[w].pc = "idle"
                         /\ Await(w, [NoWalk EXCEPT !.pc = "list", !.kind = kind], calls)
  BY DEF BeginWalk
<1>2. PICK new : new = [NoWalk EXCEPT !.pc = "list", !.kind = kind]
  OBVIOUS
<1>3. new \in Walk /\ new.pc = "list"
  BY <1>2 DEF NoWalk, Walk
<1>4. /\ walk' = [walk EXCEPT ![w] = new] /\ calls' = Append(calls, w)
      /\ walk \in [Walks -> Walk] /\ calls \in Seq(Walks)
  BY <1>1, <1>2, <1>3 DEF Await, WatchdogInv, WatchdogTypeOK
<1>5. walk' \in [Walks -> Walk] /\ walk'[w] = new /\ \A u \in Walks \ {w} : walk'[u] = walk[u]
  BY <1>3, <1>4
<1>6. \A i \in 1..Len(calls) : calls[i] # w /\ calls[i] \in Walks
  BY <1>1, <1>4 DEF WatchdogInv, Once
<1>7. Once(calls', walk') /\ calls' \in Seq(Walks)
  <2>1. \A i \in 1..Len(calls) : walk'[calls[i]].pc # "idle"
    BY <1>5, <1>6 DEF WatchdogInv, Once
  <2>2. \A u \in Walks \ {w} : walk'[u].pc # "idle" => \E i \in 1..Len(calls) : calls[i] = u
    BY <1>5 DEF WatchdogInv, Once
  <2>3. \A i, j \in 1..Len(calls) : calls[i] = calls[j] => i = j
    BY DEF WatchdogInv, Once
  <2>4. walk'[w].pc # "idle"
    BY <1>3, <1>5
  <2>5. \A i \in 1..Len(calls) : calls[i] # w /\ walk'[calls[i]].pc # "idle"
    BY <1>6, <2>1
  <2>6. calls \in Seq(Walks)
    BY <1>4
  <2>7. Append(calls, w) \in Seq(Walks) /\ Once(Append(calls, w), walk')
    BY <2>2, <2>3, <2>4, <2>5, <2>6, OnceAppend
  <2> QED
    BY <1>4, <2>7
<1>8. Leads(calls', walk', Believed, alerted)
  <2>1. Leads(calls, walk, Believed, alerted)
    BY DEF WatchdogInv
  <2>2. Leads(calls, walk', Believed, alerted)
    BY <1>4, <1>5, <1>6, <2>1, WaySame
  <2>3. Effect(walk'[w], alerted, alerted)
    BY <1>3, <1>5 DEF Effect
  <2>4. alerted \in SUBSET Guarded
    BY DEF WatchdogInv, WatchdogTypeOK
  <2> QED
    BY <1>4, <2>2, <2>3, <2>4, WayAppend
<1>9. Believed' = Believed
  BY DEF Believed
<1> QED
  BY <1>5, <1>7, <1>8, <1>9 DEF WatchdogInv, WatchdogTypeOK, AlertsAlternate

(* The first walk in the queue goes on: it finds a machine and alters what *)
(* is alerted, or ends.                                                    *)
LEMMA AdvanceKeeps ==
  ASSUME WatchdogTypeOK, calls # <<>>, Once(calls, walk), NEW w, w = Head(calls),
         NEW walking \in Walk, walking.todo \subseteq Guarded, walking.pc # "idle",
         NEW a \in SUBSET Guarded, Leads(Tail(calls), walk, a, alerted),
         Advance(w, walking)
  PROVE  /\ walk' \in [Walks -> Walk] /\ calls' \in Seq(Walks) /\ alerted' \subseteq Guarded
         /\ Once(calls', walk') /\ Leads(calls', walk', a, alerted')
<1> DEFINE q == Tail(calls)
           found == {m \in walking.todo : Found(walking, m)}
           next == CHOOSE m \in found : \A n \in found : m <= n
<1>1. /\ w \in Walks /\ q \in Seq(Walks) /\ alerted \subseteq Guarded /\ walk \in [Walks -> Walk]
      /\ \A i \in 1..Len(q) : q[i] # w /\ walk[q[i]].pc # "idle" /\ q[i] \in Walks
      /\ \A i, j \in 1..Len(q) : q[i] = q[j] => i = j
      /\ \A u \in Walks \ {w} : walk[u].pc # "idle" => \E i \in 1..Len(q) : q[i] = u
  <2>1. calls \in Seq(Walks)
    BY DEF WatchdogTypeOK
  <2>2. q \in Seq(Walks)
    BY <2>1
  <2>3. \A i \in 1..Len(q) : q[i] \in Walks
    BY <2>2
  <2>4. /\ \A i \in 1..Len(q) : q[i] # w /\ walk[q[i]].pc # "idle"
        /\ \A i, j \in 1..Len(q) : q[i] = q[j] => i = j
        /\ \A u \in Walks \ {w} : walk[u].pc # "idle" => \E i \in 1..Len(q) : q[i] = u
        /\ w \in Walks
    <3>1. /\ Head(calls) \in Walks
          /\ \A i \in 1..Len(Tail(calls)) :
               Tail(calls)[i] # Head(calls) /\ walk[Tail(calls)[i]].pc # "idle"
          /\ \A i, j \in 1..Len(Tail(calls)) : Tail(calls)[i] = Tail(calls)[j] => i = j
          /\ \A u \in Walks \ {Head(calls)} :
               walk[u].pc # "idle" => \E i \in 1..Len(Tail(calls)) : Tail(calls)[i] = u
      BY <2>1, OnceTail
    <3> QED
      BY <3>1, Zenon
  <2> HIDE DEF q
  <2> QED
    BY <2>2, <2>3, <2>4 DEF WatchdogTypeOK
<1> HIDE DEF q
<1>2. ASSUME NEW new, walk' = [walk EXCEPT ![w] = new], new \in Walk
      PROVE  /\ walk' \in [Walks -> Walk] /\ Leads(q, walk', a, alerted) /\ walk'[w] = new
             /\ \A i \in 1..Len(q) : walk'[q[i]] = walk[q[i]]
             /\ \A u \in Walks \ {w} : walk'[u] = walk[u]
  <2>1. /\ walk' \in [Walks -> Walk] /\ walk'[w] = new
        /\ \A u \in Walks \ {w} : walk'[u] = walk[u]
    BY <1>1, <1>2
  <2>2. \A i \in 1..Len(q) : walk'[q[i]] = walk[q[i]]
    BY <1>1, <2>1
  <2> QED
    BY <1>1, <2>1, <2>2, WaySame DEF q
<1>3. CASE found = {}
  <2>1. Await(w, NoWalk, q) /\ alerted' = alerted
    BY <1>3 DEF Advance, q
  <2>2. NoWalk \in Walk /\ NoWalk.pc = "idle"
    BY DEF NoWalk, Walk
  <2>3. walk' = [walk EXCEPT ![w] = NoWalk] /\ calls' = q
    BY <2>1, <2>2 DEF Await
  <2>4. Once(calls', walk')
    BY <1>1, <1>2, <2>2, <2>3 DEF Once
  <2> QED
    BY <1>1, <1>2, <2>1, <2>2, <2>3, <2>4
<1>4. CASE found # {}
  <2>1. found \subseteq Guarded /\ found \subseteq Nat
    BY WatchdogAssumption DEF WatchdogAssumption
  <2>2. next \in found
    BY <1>4, <2>1, LeastMember
  <2>3. PICK new : new = [walking EXCEPT !.pc = "log", !.at = next,
                            !.todo = {m \in walking.todo : m > next}]
    OBVIOUS
  <2>4. /\ Await(w, new, q)
        /\ alerted' = IF walking.kind = "tick" THEN alerted \cup {next} ELSE alerted \ {next}
    BY <1>4, <2>3 DEF Advance, q
  <2>5. next \in Guarded /\ Found(walking, next)
    BY <2>1, <2>2
  <2> HIDE DEF next, found
  <2>6. new \in Walk /\ new.pc = "log" /\ new.at = next /\ new.kind = walking.kind
    BY <2>3, <2>5 DEF Walk
  <2>7. walk' = [walk EXCEPT ![w] = new] /\ calls' = Append(q, w)
    BY <2>4, <2>6 DEF Await
  <2>8. Effect(new, alerted, alerted')
    BY <2>4, <2>5, <2>6 DEF Effect, Found
  <2>9. alerted' \in SUBSET Guarded
    BY <1>1, <2>4, <2>5
  <2>10. calls' \in Seq(Walks) /\ Once(calls', walk')
    <3>1. \A i \in 1..Len(q) : q[i] # w /\ walk'[q[i]].pc # "idle"
      BY <1>1, <1>2, <2>6, <2>7
    <3>2. \A u \in Walks \ {w} : walk'[u].pc # "idle" => \E i \in 1..Len(q) : q[i] = u
      BY <1>1, <1>2, <2>6, <2>7
    <3>3. walk'[w].pc # "idle"
      BY <1>2, <2>6, <2>7
    <3> QED
      BY <1>1, <2>7, <3>1, <3>2, <3>3, OnceAppend
  <2>11. Leads(calls', walk', a, alerted')
    <3>1. Leads(q, walk', a, alerted) /\ walk'[w] = new
      BY <1>2, <2>6, <2>7
    <3> QED
      BY <1>1, <2>7, <2>8, <2>9, <3>1, WayAppend
  <2> QED
    BY <1>2, <2>6, <2>7, <2>9, <2>10, <2>11
<1> QED
  BY <1>3, <1>4

(* A call is answered.                                                     *)
LEMMA WatchAnswerKeeps ==
  ASSUME WatchdogInv, NEW w \in Walks, Listed(w) \/ Told(w)
  PROVE  WatchdogInv'
<1>1. /\ WatchdogTypeOK /\ AlertsAlternate /\ Once(calls, walk)
      /\ Leads(calls, walk, Believed, alerted) /\ calls \in Seq(Walks)
      /\ walk[w] \in Walk /\ told \in [Guarded -> Int]
  BY DEF WatchdogInv, WatchdogTypeOK
<1>2. walk[w].pc # "idle" /\ w = Head(calls)
  BY DEF Listed, Told, WalkAnswered
<1>3. calls # <<>>
  <2>1. PICK i \in 1..Len(calls) : calls[i] = w
    BY <1>1, <1>2 DEF Once
  <2>2. Len(calls) > 0
    BY <1>1, <2>1
  <2> QED
    BY <2>2, EmptySeq
<1>4. PICK c \in SUBSET Guarded : Effect(walk[w], Believed, c) /\ Leads(Tail(calls), walk, c, alerted)
  BY <1>1, <1>2, <1>3, WayTail
<1>5. UNCHANGED <<up, longAgo, flips>>
  BY DEF Listed, Told
<1>6. CASE Listed(w)
  <2>1. PICK walking : walking = [walk[w] EXCEPT !.todo = Guarded, !.old = longAgo]
    OBVIOUS
  <2>2. walking \in Walk /\ walking.todo = Guarded /\ walking.pc = "list" /\ walk[w].pc = "list"
    BY <1>1, <1>6, <2>1 DEF Walk, WatchdogTypeOK, Listed, WalkAnswered
  <2>3. Advance(w, walking) /\ told' = told
    BY <1>6, <2>1 DEF Listed
  <2>4. c = Believed /\ Believed' = Believed
    BY <1>4, <2>2, <2>3 DEF Effect, Believed
  <2>5. /\ walk' \in [Walks -> Walk] /\ calls' \in Seq(Walks) /\ alerted' \subseteq Guarded
        /\ Once(calls', walk') /\ Leads(calls', walk', c, alerted')
    BY <1>1, <1>2, <1>3, <1>4, <2>2, <2>3, AdvanceKeeps
  <2> QED
    BY <1>1, <1>5, <2>3, <2>4, <2>5 DEF WatchdogInv, WatchdogTypeOK, AlertsAlternate
<1>7. CASE Told(w)
  <2>1. PICK x : x = walk[w]
    OBVIOUS
  <2>2. x \in Walk /\ x.pc = "log" /\ Advance(w, x) /\ Effect(x, Believed, c)
    BY <1>1, <1>4, <1>7, <2>1 DEF Told, WalkAnswered
  <2>3. told' = [told EXCEPT ![x.at] = IF x.kind = "tick" THEN @ + 1 ELSE @ - 1]
    BY <1>7, <2>1 DEF Told
  <2>4. x.at \in Guarded /\ told[x.at] = IF x.kind = "tick" THEN 0 ELSE 1
    BY <1>1, <1>4, <2>2 DEF Effect, Believed, AlertsAlternate
  <2>5. told'[x.at] = (IF x.kind = "tick" THEN 1 ELSE 0)
        /\ \A m \in Guarded \ {x.at} : told'[m] = told[m]
    BY <1>1, <2>3, <2>4
  <2>6. told' \in [Guarded -> Int] /\ AlertsAlternate'
    BY <1>1, <2>3, <2>4, <2>5 DEF AlertsAlternate
  <2>7. Believed' = c
    BY <2>2, <2>4, <2>5 DEF Effect, Believed
  <2>8. /\ walk' \in [Walks -> Walk] /\ calls' \in Seq(Walks) /\ alerted' \subseteq Guarded
        /\ Once(calls', walk') /\ Leads(calls', walk', c, alerted')
    <3>1. x.todo \subseteq Guarded
      BY <2>2 DEF Walk
    <3> QED
      BY <1>1, <1>2, <1>3, <1>4, <2>2, <3>1, AdvanceKeeps
  <2> QED
    BY <1>1, <1>5, <2>6, <2>7, <2>8 DEF WatchdogInv, WatchdogTypeOK
<1> QED
  BY <1>6, <1>7

(* Every step of the watchdog and of the machines it watches.              *)
LEMMA WatchdogStep == WatchdogInv /\ [WatchdogNext]_watchdogVars => WatchdogInv'
<1> SUFFICES ASSUME WatchdogInv, [WatchdogNext]_watchdogVars PROVE WatchdogInv'
  OBVIOUS
<1>1. WatchdogTypeOK
  BY DEF WatchdogInv
<1>2. ASSUME UNCHANGED <<alerted, walk, calls, told>>, up' \subseteq Guarded,
             longAgo' \subseteq Guarded, flips' \in 0..MaxFlips
      PROVE  WatchdogInv'
  BY <1>2 DEF WatchdogInv, WatchdogTypeOK, AlertsAlternate, Believed
<1>3. CASE Tick
  BY <1>1, <1>3, BeginKeeps DEF Tick, WatchdogTypeOK
<1>4. ASSUME NEW m \in Guarded, Flip(m) PROVE WatchdogInv'
  <2>1. up' \subseteq Guarded /\ longAgo' \subseteq Guarded /\ UNCHANGED <<alerted, told>>
    BY <1>1, <1>4 DEF Flip, WatchdogTypeOK
  <2>2. flips' \in 0..MaxFlips
    BY <1>1, <1>4, WatchdogAssumption DEF Flip, WatchdogTypeOK, WatchdogAssumption
  <2>3. UNCHANGED <<walk, calls>> \/ BeginWalk("change")
    BY <1>4 DEF Flip, Notify
  <2> QED
    BY <1>2, <2>1, <2>2, <2>3, BeginKeeps
<1>5. ASSUME NEW m \in Guarded, Age(m) PROVE WatchdogInv'
  BY <1>1, <1>2, <1>5 DEF Age, WatchdogTypeOK
<1>6. ASSUME NEW w \in Walks, Listed(w) \/ Told(w) PROVE WatchdogInv'
  BY <1>6, WatchAnswerKeeps
<1>7. CASE UNCHANGED watchdogVars
  BY <1>1, <1>2, <1>7 DEF watchdogVars, WatchdogTypeOK
<1> QED
  BY <1>3, <1>4, <1>5, <1>6, <1>7 DEF WatchdogNext

(* The types of the watchdog and what its open calls still lead to.        *)
LEMMA WatchdogKept == WatchdogSpec => []WatchdogInv
<1>1. WatchdogInit => WatchdogInv
  <2> SUFFICES ASSUME WatchdogInit PROVE WatchdogInv
    OBVIOUS
  <2>1. WatchdogTypeOK /\ AlertsAlternate
    <3>1. NoWalk \in Walk
      BY DEF NoWalk, Walk
    <3>2. calls \in Seq(Walks) /\ flips \in 0..MaxFlips
      BY WatchdogAssumption DEF WatchdogInit, WatchdogAssumption
    <3> QED
      BY <3>1, <3>2 DEF WatchdogInit, WatchdogTypeOK, AlertsAlternate
  <2>2. Once(calls, walk)
    BY DEF WatchdogInit, Once, NoWalk
  <2>3. Leads(calls, walk, Believed, alerted)
    <3> DEFINE h == [i \in 0..0 |-> {}]
    <3>1. Len(calls) = 0 /\ Believed = {} /\ alerted = {}
      BY DEF WatchdogInit, Believed
    <3>2. Way(h, calls, walk, Believed, alerted)
      BY <3>1 DEF Way
    <3> QED
      BY <3>2 DEF Leads
  <2> QED
    BY <2>1, <2>2, <2>3 DEF WatchdogInv
<1> QED
  BY <1>1, WatchdogStep, PTL DEF WatchdogSpec

(* The watchdog's variables keep their types.                              *)
THEOREM WatchdogTypeCorrect == WatchdogSpec => []WatchdogTypeOK
<1>1. WatchdogInv => WatchdogTypeOK
  BY DEF WatchdogInv
<1> QED
  BY <1>1, WatchdogKept, PTL

(* However many walks overlap and whatever the machines do meanwhile, the  *)
(* owner of a machine is told that it is gone and that it is back in turn. *)
THEOREM AlertsAlternateKept == WatchdogSpec => []AlertsAlternate
<1>1. WatchdogInv => AlertsAlternate
  BY DEF WatchdogInv
<1> QED
  BY <1>1, WatchdogKept, PTL

-----------------------------------------------------------------------------
(* The links of an environment.                                            *)

(* The link of the piece in progress, when q is the queue and rest are the *)
(* links it still has to open.                                             *)
Here(q, rest) ==
  IF Head(q).job = "reconcile" THEN CHOOSE l \in rest : \A k \in rest : l <= k ELSE Head(q).link

At(l, q, rest, at, steps) == q # <<>> /\ at \in steps /\ Here(q, rest) = l

Callback(l) == [job |-> "closed", link |-> l]

(* Work that will look at the row of l again: a callback that has not read *)
(* it, a piece about to mark it, the first reconciliation.                 *)
LinkPending(l, q, rest, at, s) ==
  \/ \E i \in 1..Len(q) : q[i] = Callback(l) /\ (i # 1 \/ at = "begin")
  \/ At(l, q, rest, at, {"create", "mark"})
  \/ s = "starting" /\ l \in rest
  \/ s = "starting" /\ at = "begin" /\ q # <<>> /\ Head(q).job = "reconcile"

(* The row r and the tunnel t of l.  A tunnel that is open has its row,    *)
(* published or about to be; a row that says so without a tunnel will be   *)
(* looked at.                                                              *)
Follows(l, r, t, q, rest, at, s) ==
  /\ t = "open" =>
       /\ r.exists /\ r.transport = "tunnel"
       /\ r.state = "open" \/ At(l, q, rest, at, {"verify", "publish"})
  /\ (/\ r.exists /\ r.transport = "tunnel" /\ t # "open"
      /\ r.state = "open" \/ At(l, q, rest, at, {"publish"}))
     => LinkPending(l, q, rest, at, s)

(* What the piece in progress knows of its link.                           *)
Known(l, r, t, at) ==
  /\ at = "useVpn" => t = "none"
  /\ at \in {"create", "listen", "mark"} => t # "open"
  /\ at \in {"create", "listen"} => r.transport = "tunnel"

(* The queue and the piece in progress.                                    *)
QueueFine(q, rest, at) ==
  /\ \A i \in 1..Len(q) : q[i].job # "reconcile" => q[i].link \in Links
  /\ at # "begin" => q # <<>> /\ (Head(q).job = "reconcile" => rest # {})
  /\ at = "begin" => rest = {}

(* Before the first reconciliation is over nothing comes from outside.     *)
Starting(online, q, at, f) ==
  /\ ~online /\ at \in {"begin", "authorize", "mark"} /\ \A l \in Links : f[l] = "none"
  /\ \A i \in 1..Len(q) : q[i].job = "reconcile"

LinkInv ==
  /\ row \in [Links -> Row] /\ tun \in [Links -> Tunnel] /\ work \in Seq(Work)
  /\ left \subseteq Links /\ owned \subseteq Links
  /\ stop \in {"starting", "no", "waits", "over"}
  /\ QueueFine(work, left, pc)
  /\ \A l \in Links : /\ Follows(l, row[l], tun[l], work, left, pc, stop)
                      /\ pc # "begin" /\ Here(work, left) = l => Known(l, row[l], tun[l], pc)
                      /\ tun[l] # "none" => l \in owned /\ stop = "no"
  /\ stop = "starting" => Starting(bothUp, work, pc, frame)
  /\ stray = FALSE

(* A finite set of numbers can be put in order.                            *)
OrderedSteps(S) ==
  \E s \in [1..Cardinality(S) -> S] : \A i, j \in 1..Cardinality(S) : i < j => s[i] < s[j]

(* By induction on their number: the least one goes first.                 *)
LEMMA OrderExists ==
  ASSUME NEW S \in SUBSET Nat, IsFiniteSet(S)
  PROVE  OrderedSteps(S)
<1> DEFINE Bad == {n \in Nat : \E T \in SUBSET Nat : IsFiniteSet(T) /\ Cardinality(T) = n /\ ~OrderedSteps(T)}
<1>1. SUFFICES ASSUME Bad # {} PROVE FALSE
  BY FS_CardinalityType
<1>2. PICK n \in Bad : \A m \in Bad : n <= m
  BY <1>1, LeastMember
<1>3. PICK T \in SUBSET Nat : IsFiniteSet(T) /\ Cardinality(T) = n /\ ~OrderedSteps(T)
  BY <1>2
<1>4. T # {}
  <2> SUFFICES ASSUME T = {} PROVE FALSE
    OBVIOUS
  <2>1. Cardinality(T) = 0
    BY FS_EmptySet
  <2>2. [i \in 1..0 |-> 0] \in [1..0 -> T]
    OBVIOUS
  <2> QED
    BY <1>3, <2>1, <2>2 DEF OrderedSteps
<1>5. PICK m \in T : \A k \in T : m <= k
  BY <1>4, LeastMember
<1>6. /\ IsFiniteSet(T \ {m}) /\ Cardinality(T \ {m}) = n - 1 /\ n \in Nat
  BY <1>2, <1>3, FS_RemoveElement
<1>7. n - 1 \in Nat /\ n - 1 \notin Bad
  BY <1>2, <1>6, FS_CardinalityType
<1>8. OrderedSteps(T \ {m})
  <2>1. T \ {m} \in SUBSET Nat
    OBVIOUS
  <2> QED
    BY <1>6, <1>7, <2>1
<1> HIDE DEF Bad
<1>9. PICK s \in [1..(n - 1) -> T \ {m}] : \A i, j \in 1..(n - 1) : i < j => s[i] < s[j]
  BY <1>6, <1>8 DEF OrderedSteps
<1> DEFINE u == [i \in 1..n |-> IF i = 1 THEN m ELSE s[i - 1]]
<1>10. u \in [1..n -> T]
  BY <1>6, <1>7, <1>9
<1>11. ASSUME NEW i \in 1..n, NEW j \in 1..n, i < j PROVE u[i] < u[j]
  <2>1. j - 1 \in 1..(n - 1) /\ u[j] = s[j - 1] /\ s[j - 1] \in T \ {m}
    BY <1>6, <1>7, <1>9, <1>11
  <2>2. CASE i = 1
    <3>1. u[i] = m /\ m \in Nat /\ s[j - 1] \in Nat /\ m <= s[j - 1] /\ m # s[j - 1]
      BY <1>5, <2>1, <2>2
    <3> QED
      BY <2>1, <3>1
  <2>3. CASE i # 1
    <3>1. i - 1 \in 1..(n - 1) /\ i - 1 < j - 1 /\ u[i] = s[i - 1]
      BY <1>6, <1>11, <2>3
    <3> QED
      BY <1>9, <2>1, <3>1
  <2> QED
    BY <2>2, <2>3
<1> HIDE DEF u
<1> QED
  BY <1>3, <1>10, <1>11 DEF OrderedSteps

(* The callbacks of the tunnels that close: one for each of them.          *)
LEMMA CallbacksOf ==
  ASSUME NEW ls \in SUBSET Links
  PROVE  /\ Callbacks(ls) \in Seq(Work)
         /\ \A i \in 1..Len(Callbacks(ls)) : \E l \in ls : Callbacks(ls)[i] = Callback(l)
         /\ \A l \in ls : \E i \in 1..Len(Callbacks(ls)) : Callbacks(ls)[i] = Callback(l)
<1>1. IsFiniteSet(ls) /\ ls \in SUBSET Nat /\ Cardinality(ls) \in Nat
  BY LinkAssumption, FS_Subset, FS_CardinalityType DEF LinkAssumption
<1>2. PICK n \in Nat : n = Cardinality(ls)
  BY <1>1
<1> DEFINE order == CHOOSE s \in [1..Cardinality(ls) -> ls] :
                      \A i, j \in 1..Cardinality(ls) : i < j => s[i] < s[j]
<1>3. order \in [1..n -> ls] /\ \A i, j \in 1..n : i < j => order[i] < order[j]
  BY <1>1, <1>2, OrderExists DEF OrderedSteps
<1>4. Callbacks(ls) = [i \in 1..n |-> [job |-> "closed", link |-> order[i]]]
  BY <1>2 DEF Callbacks
<1> HIDE DEF order
<1>5. \A i \in 1..n : order[i] \in ls /\ Callback(order[i]) \in Work
  BY <1>3 DEF Callback, Work
<1>6. Callbacks(ls) \in [1..n -> Work] /\ \A i \in 1..n : Callbacks(ls)[i] = Callback(order[i])
  BY <1>4, <1>5 DEF Callback
<1>7. Callbacks(ls) \in Seq(Work) /\ Len(Callbacks(ls)) = n
  BY <1>6
<1>8. IsInjective(order)
  <2> SUFFICES ASSUME NEW i \in 1..n, NEW j \in 1..n, order[i] = order[j] PROVE i = j
    BY <1>3 DEF IsInjective
  <2>1. order[i] \in Nat /\ order[j] \in Nat
    BY <1>1, <1>3
  <2> QED
    BY <1>3, <2>1
<1>9. order \in Surjection(1..n, ls)
  <2>1. order \in Injection(1..n, ls)
    BY <1>3, <1>8 DEF Injection
  <2>2. IsFiniteSet(1..n) /\ Cardinality(1..n) = n
    BY FS_Interval
  <2> QED
    BY <1>1, <1>2, <2>1, <2>2, FS_Injection
<1>10. \A l \in ls : \E i \in 1..n : order[i] = l
  BY <1>9 DEF Surjection
<1> QED
  BY <1>5, <1>6, <1>7, <1>10

(* A queue with more at its end.                                           *)
LEMMA QueueGrows ==
  ASSUME NEW q \in Seq(Work), NEW x \in Seq(Work)
  PROVE  /\ q \o x \in Seq(Work) /\ Len(q \o x) = Len(q) + Len(x)
         /\ \A i \in 1..Len(q) : i \in 1..Len(q \o x) /\ (q \o x)[i] = q[i]
         /\ \A i \in 1..Len(x) : Len(q) + i \in 1..Len(q \o x) /\ (q \o x)[Len(q) + i] = x[i]
         /\ \A i \in 1..Len(q \o x) : i \in 1..Len(q) \/ \E j \in 1..Len(x) : i = Len(q) + j
         /\ q # <<>> => q \o x # <<>> /\ Head(q \o x) = Head(q)
<1>1. PICK m \in Nat, n \in Nat : m = Len(q) /\ n = Len(x)
  OBVIOUS
<1>2. /\ q \o x \in Seq(Work) /\ Len(q \o x) = m + n
      /\ \A i \in 1..(m + n) : (q \o x)[i] = IF i <= m THEN q[i] ELSE x[i - m]
  BY <1>1, ConcatProperties
<1>3. \A i \in 1..m : i \in 1..(m + n) /\ i <= m
  OBVIOUS
<1>4. \A i \in 1..n : m + i \in 1..(m + n) /\ ~(m + i <= m) /\ (m + i) - m = i
  OBVIOUS
<1>5. \A i \in 1..(m + n) : i \in 1..m \/ (i - m \in 1..n /\ i = m + (i - m))
  OBVIOUS
<1>6. ASSUME q # <<>> PROVE q \o x # <<>> /\ Head(q \o x) = Head(q)
  <2>1. m # 0
    BY <1>1, <1>6, EmptySeq
  <2>2. Len(q \o x) # 0
    BY <1>2, <2>1
  <2>3. q \o x # <<>>
    BY <2>2, EmptySeq
  <2>4. 1 \in 1..m
    BY <2>1
  <2> QED
    BY <1>1, <1>2, <1>3, <2>3, <2>4
<1>7. /\ \A i \in 1..m : i \in 1..(m + n) /\ (q \o x)[i] = q[i]
      /\ \A i \in 1..n : m + i \in 1..(m + n) /\ (q \o x)[m + i] = x[i]
      /\ \A i \in 1..(m + n) : i \in 1..m \/ \E j \in 1..n : i = m + j
  BY <1>2, <1>3, <1>4, <1>5
<1> QED
  BY <1>1, <1>2, <1>6, <1>7

(* A queue without its first.                                              *)
LEMMA QueueTail ==
  ASSUME NEW q \in Seq(Work), q # <<>>
  PROVE  /\ Head(q) = q[1] /\ 1 \in 1..Len(q) /\ Tail(q) \in Seq(Work)
         /\ \A i \in 1..Len(q) : i # 1 => i - 1 \in 1..Len(Tail(q)) /\ Tail(q)[i - 1] = q[i]
         /\ \A i \in 1..Len(Tail(q)) : i + 1 \in 1..Len(q) /\ Tail(q)[i] = q[i + 1]
<1>1. PICK n \in Nat : Len(q) = n + 1 /\ Len(Tail(q)) = n
  BY HeadTailProperties, EmptySeq, LenProperties
<1>2. \A i \in 1..n : Tail(q)[i] = q[i + 1] /\ i + 1 \in 1..(n + 1)
  BY <1>1, HeadTailProperties
<1>3. \A i \in 1..(n + 1) : i # 1 => i - 1 \in 1..n /\ (i - 1) + 1 = i
  OBVIOUS
<1>4. Head(q) = q[1] /\ Tail(q) \in Seq(Work) /\ 1 \in 1..(n + 1)
  OBVIOUS
<1> QED
  BY <1>1, <1>2, <1>3, <1>4

(* The piece in progress stays at its link when the queue grows.           *)
LEMMA HereKept ==
  ASSUME NEW q \in Seq(Work), NEW x \in Seq(Work), NEW rest, q # <<>>
  PROVE  q \o x # <<>> /\ Here(q \o x, rest) = Here(q, rest)
BY QueueGrows DEF Here

(* What comes to the end of the queue leaves what is pending ...           *)
LEMMA PendingEnqueued ==
  ASSUME NEW q \in Seq(Work), NEW x \in Seq(Work), NEW rest, NEW at, NEW s, NEW l,
         LinkPending(l, q, rest, at, s)
  PROVE  LinkPending(l, q \o x, rest, at, s)
<1>1. CASE \E i \in 1..Len(q) : q[i] = Callback(l) /\ (i # 1 \/ at = "begin")
  BY <1>1, QueueGrows DEF LinkPending
<1>2. CASE At(l, q, rest, at, {"create", "mark"})
  BY <1>2, HereKept DEF LinkPending, At
<1>3. CASE s = "starting" /\ l \in rest
  BY <1>3 DEF LinkPending
<1>4. CASE s = "starting" /\ at = "begin" /\ q # <<>> /\ Head(q).job = "reconcile"
  BY <1>4, QueueGrows DEF LinkPending
<1> QED
  BY <1>1, <1>2, <1>3, <1>4 DEF LinkPending

(* ... and a callback is pending until it is the piece in progress.        *)
LEMMA CallbackPending ==
  ASSUME NEW q \in Seq(Work), NEW x \in Seq(Work), NEW rest, NEW at, NEW s, NEW l,
         at # "begin" => q # <<>>, \E i \in 1..Len(x) : x[i] = Callback(l)
  PROVE  LinkPending(l, q \o x, rest, at, s)
<1>1. PICK i \in 1..Len(x) : x[i] = Callback(l)
  OBVIOUS
<1>2. Len(q) + i \in 1..Len(q \o x) /\ (q \o x)[Len(q) + i] = Callback(l)
  BY <1>1, QueueGrows
<1>3. Len(q) + i # 1 \/ at = "begin"
  <2>1. CASE q # <<>>
    BY <2>1, EmptySeq
  <2> QED
    BY <2>1
<1> QED
  BY <1>2, <1>3 DEF LinkPending

(* The piece at the head of q goes on, to its next await or to its next    *)
(* link, or is over.                                                       *)
Turns(q, rest, x, q2, rest2, at2) ==
  \/ q2 = q \o x /\ at2 # "begin" /\ (rest2 = rest \/ at2 = "authorize")
  \/ q2 = Tail(q) \o x /\ rest2 = {} /\ at2 = "begin"

(* What is pending for l stays so, unless this piece was to see to it.     *)
LEMMA PendingKept ==
  ASSUME NEW q \in Seq(Work), NEW x \in Seq(Work), NEW rest, NEW at, NEW s, NEW l,
         NEW q2, NEW rest2, NEW at2, q # <<>>, Turns(q, rest, x, q2, rest2, at2),
         LinkPending(l, q, rest, at, s),
         at = "begin" => Head(q) # Callback(l),
         Here(q, rest) = l => at \notin {"create", "mark"},
         s = "starting" => (at = "begin" => Head(q).job # "reconcile") /\ (l \in rest => l \in rest2)
  PROVE  LinkPending(l, q2, rest2, at2, s)
<1>1. CASE \E i \in 1..Len(q) : q[i] = Callback(l) /\ (i # 1 \/ at = "begin")
  <2>1. PICK i \in 1..Len(q) : q[i] = Callback(l) /\ i # 1
    BY <1>1, QueueTail
  <2>2. CASE q2 = q \o x
    BY <2>1, <2>2, QueueGrows DEF LinkPending
  <2>3. CASE q2 = Tail(q) \o x /\ at2 = "begin"
    <3>1. Tail(q) \in Seq(Work) /\ i - 1 \in 1..Len(Tail(q)) /\ Tail(q)[i - 1] = Callback(l)
      BY <2>1, QueueTail
    <3>2. i - 1 \in 1..Len(q2) /\ q2[i - 1] = Callback(l)
      BY <2>3, <3>1, QueueGrows
    <3> QED
      BY <2>3, <3>2 DEF LinkPending
  <2> QED
    BY <2>2, <2>3 DEF Turns
<1>2. CASE s = "starting" /\ l \in rest
  BY <1>2 DEF LinkPending
<1> QED
  BY <1>1, <1>2 DEF LinkPending, At

(* The tunnel of a link stays or is closed with a callback: the row still  *)
(* follows it.                                                             *)
LEMMA FollowsKept ==
  ASSUME NEW q \in Seq(Work), NEW x \in Seq(Work), NEW rest, NEW at, NEW s, NEW l,
         NEW r, NEW t, NEW t2,
         NEW q2, NEW rest2, NEW at2, q # <<>>, Turns(q, rest, x, q2, rest2, at2),
         Follows(l, r, t, q, rest, at, s),
         t2 = t \/ (t2 = "none" /\ \E i \in 1..Len(x) : x[i] = Callback(l)),
         at = "begin" => Head(q) # Callback(l),
         Here(q, rest) = l => at \notin {"create", "mark"} /\ (t2 = "open" => at \notin {"verify", "publish"}),
         s = "starting" => (at = "begin" => Head(q).job # "reconcile") /\ (l \in rest => l \in rest2),
         ~At(l, q2, rest2, at2, {"publish"})
  PROVE  Follows(l, r, t2, q2, rest2, at2, s)
<1>1. t2 = "open" => r.exists /\ r.transport = "tunnel" /\ r.state = "open"
  BY DEF Follows, At
<1>2. ASSUME t2 # "open", r.exists, r.transport = "tunnel", r.state = "open"
      PROVE  LinkPending(l, q2, rest2, at2, s)
  <2>1. CASE t # "open"
    <3>1. LinkPending(l, q, rest, at, s)
      BY <1>2, <2>1 DEF Follows
    <3> QED
      BY <3>1, PendingKept
  <2>2. CASE t = "open"
    <3>1. \E i \in 1..Len(x) : x[i] = Callback(l)
      BY <1>2, <2>2
    <3>2. CASE q2 = q \o x
      BY <3>1, <3>2, CallbackPending
    <3>3. CASE q2 = Tail(q) \o x /\ at2 = "begin"
      BY <3>1, <3>3, QueueTail, CallbackPending
    <3> QED
      BY <3>2, <3>3 DEF Turns
  <2> QED
    BY <2>1, <2>2
<1> QED
  BY <1>1, <1>2 DEF Follows

(* The same when others queue work behind the piece in progress.           *)
LEMMA FollowsEnqueued ==
  ASSUME NEW q \in Seq(Work), NEW x \in Seq(Work), NEW rest, NEW at, NEW s, NEW l,
         NEW r, NEW t, NEW t2, at # "begin" => q # <<>>,
         Follows(l, r, t, q, rest, at, s),
         t2 = t \/ (t2 = "none" /\ \E i \in 1..Len(x) : x[i] = Callback(l))
  PROVE  Follows(l, r, t2, q \o x, rest, at, s)
<1>1. \A steps : "begin" \notin steps => (At(l, q \o x, rest, at, steps) <=> At(l, q, rest, at, steps))
  BY HereKept DEF At
<1>2. /\ At(l, q \o x, rest, at, {"publish"}) <=> At(l, q, rest, at, {"publish"})
      /\ At(l, q \o x, rest, at, {"verify", "publish"}) <=> At(l, q, rest, at, {"verify", "publish"})
  BY <1>1
<1>3. CASE t2 = t
  BY <1>2, <1>3, PendingEnqueued DEF Follows
<1>4. CASE t2 = "none" /\ \E i \in 1..Len(x) : x[i] = Callback(l)
  BY <1>4, CallbackPending DEF Follows
<1> QED
  BY <1>3, <1>4

(* The queue stays in order when its piece goes on ...                     *)
LEMMA QueueTurns ==
  ASSUME NEW q \in Seq(Work), NEW x \in Seq(Work), NEW rest, NEW at,
         NEW q2, NEW rest2, NEW at2, q # <<>>, Turns(q, rest, x, q2, rest2, at2),
         QueueFine(q, rest, at), at2 # "begin" /\ Head(q).job = "reconcile" => rest2 # {},
         \A i \in 1..Len(x) : x[i].job # "reconcile" => x[i].link \in Links
  PROVE  q2 \in Seq(Work) /\ QueueFine(q2, rest2, at2)
<1>1. CASE q2 = q \o x /\ at2 # "begin"
  <2>1. q2 \in Seq(Work) /\ q2 # <<>> /\ Head(q2) = Head(q)
    BY <1>1, QueueGrows
  <2>2. ASSUME NEW i \in 1..Len(q2), q2[i].job # "reconcile" PROVE q2[i].link \in Links
    <3>1. CASE i \in 1..Len(q)
      BY <1>1, <2>2, <3>1, QueueGrows DEF QueueFine
    <3>2. CASE \E j \in 1..Len(x) : i = Len(q) + j
      <4>1. PICK j \in 1..Len(x) : i = Len(q) + j
        BY <3>2
      <4>2. q2[i] = x[j]
        BY <1>1, <4>1, QueueGrows
      <4> QED
        BY <2>2, <4>2
    <3> QED
      BY <1>1, <3>1, <3>2, QueueGrows
  <2> QED
    BY <1>1, <2>1, <2>2 DEF QueueFine
<1>2. CASE q2 = Tail(q) \o x /\ rest2 = {} /\ at2 = "begin"
  <2>1. Tail(q) \in Seq(Work)
    BY QueueTail
  <2>2. q2 \in Seq(Work)
    BY <1>2, <2>1, QueueGrows
  <2>3. ASSUME NEW i \in 1..Len(q2), q2[i].job # "reconcile" PROVE q2[i].link \in Links
    <3>1. CASE i \in 1..Len(Tail(q))
      <4>1. i + 1 \in 1..Len(q) /\ q[i + 1] = Tail(q)[i]
        BY <3>1, QueueTail
      <4>2. q2[i] = Tail(q)[i]
        BY <1>2, <2>1, <3>1, QueueGrows
      <4> QED
        BY <2>3, <4>1, <4>2 DEF QueueFine
    <3>2. CASE \E j \in 1..Len(x) : i = Len(Tail(q)) + j
      <4>1. PICK j \in 1..Len(x) : i = Len(Tail(q)) + j
        BY <3>2
      <4>2. q2[i] = x[j]
        BY <1>2, <2>1, <4>1, QueueGrows
      <4> QED
        BY <2>3, <4>2
    <3> QED
      BY <1>2, <2>1, <3>1, <3>2, QueueGrows
  <2> QED
    BY <1>2, <2>2, <2>3 DEF QueueFine
<1> QED
  BY <1>1, <1>2 DEF Turns

(* ... and when others queue work.                                         *)
LEMMA QueueEnqueued ==
  ASSUME NEW q \in Seq(Work), NEW x \in Seq(Work), NEW rest, NEW at, QueueFine(q, rest, at),
         \A i \in 1..Len(x) : x[i].job # "reconcile" => x[i].link \in Links
  PROVE  q \o x \in Seq(Work) /\ QueueFine(q \o x, rest, at)
<1>1. q \o x \in Seq(Work) /\ (q # <<>> => q \o x # <<>> /\ Head(q \o x) = Head(q))
  BY QueueGrows
<1>2. ASSUME NEW i \in 1..Len(q \o x), (q \o x)[i].job # "reconcile" PROVE (q \o x)[i].link \in Links
  <2>1. CASE i \in 1..Len(q)
    BY <1>2, <2>1, QueueGrows DEF QueueFine
  <2>2. CASE \E j \in 1..Len(x) : i = Len(q) + j
    <3>1. PICK j \in 1..Len(x) : i = Len(q) + j
      BY <2>2
    <3>2. (q \o x)[i] = x[j]
      BY <3>1, QueueGrows
    <3> QED
      BY <1>2, <3>2
  <2> QED
    BY <2>1, <2>2, QueueGrows
<1> QED
  BY <1>1, <1>2 DEF QueueFine

(* The queue and the piece in progress after a step that runs it.          *)
LEMMA LinkIsHere == Link = Here(work, left)
BY DEF Link, Doing, Here

(* The tunnels of ls are closed, those of the other links stay.            *)
LinkClosing(ls) ==
  /\ ls \in SUBSET Links
  /\ \A l \in Links : tun'[l] = tun[l] \/ (l \in ls /\ tun'[l] = "none")

(* Each tunnel that closes queues its callback.                            *)
LEMMA ClosesQueued ==
  ASSUME NEW ls \in SUBSET Links
  PROVE  /\ Callbacks(Closes(ls)) \in Seq(Work)
         /\ \A i \in 1..Len(Callbacks(Closes(ls))) :
              /\ Callbacks(Closes(ls))[i].job # "reconcile" /\ Callbacks(Closes(ls))[i].link \in Links
              /\ \E l \in ls : tun[l] # "none"
         /\ \A l \in ls : tun[l] # "none" =>
              \E i \in 1..Len(Callbacks(Closes(ls))) : Callbacks(Closes(ls))[i] = Callback(l)
<1>1. Closes(ls) \in SUBSET Links
  BY DEF Closes
<1>2. PICK c : c = Callbacks(Closes(ls))
  OBVIOUS
<1>3. /\ c \in Seq(Work)
      /\ \A i \in 1..Len(c) : \E l \in Closes(ls) : c[i] = Callback(l)
      /\ \A l \in Closes(ls) : \E i \in 1..Len(c) : c[i] = Callback(l)
  BY <1>1, <1>2, CallbacksOf
<1>4. \A l \in ls : l \in Closes(ls) <=> tun[l] # "none"
  BY DEF Closes
<1>5. \A l \in ls : Callback(l).job = "closed" /\ Callback(l).link = l
  BY DEF Callback
<1>6. \A i \in 1..Len(c) : \E l \in ls : c[i] = Callback(l) /\ tun[l] # "none"
  BY <1>3, <1>4 DEF Closes
<1> QED
  BY SMTT(20), <1>2, <1>3, <1>4, <1>5, <1>6

(* What a piece that goes on, or is done, does to the queue.               *)
LEMMA PieceTurns ==
  ASSUME LinkInv, work # <<>>, NEW ls \in SUBSET Links,
         pc = "begin" => Doing.job # "reconcile",
         (GoOn(pc', ls) /\ pc' # "begin") \/ Done(ls)
  PROVE  /\ Turns(work, left, Callbacks(Closes(ls)), work', left', pc')
         /\ pc' # "begin" /\ Head(work).job = "reconcile" => left' # {}
         /\ left' \subseteq Links
         /\ stop = "starting" => \A l \in left : l \in left' \/ l = Link
<1>1. CASE GoOn(pc', ls) /\ pc' # "begin"
  BY <1>1 DEF GoOn, Enqueue, Turns, LinkInv, QueueFine, Doing
<1>2. CASE Done(ls)
  <2>1. PICK rest : rest = IF Doing.job = "reconcile" /\ ~LinksStopped THEN left \ {Link} ELSE {}
    OBVIOUS
  <2>2. /\ left' = rest
        /\ IF rest # {} THEN pc' = "authorize" /\ work' = work \o Callbacks(Closes(ls))
                        ELSE pc' = "begin" /\ work' = Tail(work) \o Callbacks(Closes(ls))
    BY <1>2, <2>1 DEF Done, Enqueue
  <2>3. Turns(work, left, Callbacks(Closes(ls)), work', left', pc') /\ (pc' # "begin" => left' # {})
    BY <2>2 DEF Turns
  <2>4. left' \subseteq Links
    BY <2>1, <2>2 DEF LinkInv
  <2>5. ASSUME stop = "starting", NEW l \in left PROVE l \in left' \/ l = Link
    <3>1. Head(work).job = "reconcile"
      BY <2>5, QueueTail DEF LinkInv, Starting
    <3> QED
      BY <2>1, <2>2, <2>5, <3>1 DEF Doing, LinksStopped
  <2> QED
    BY <2>3, <2>4, <2>5
<1> QED
  BY <1>1, <1>2

(* The rows and tunnels of the other links while a piece runs.             *)
LEMMA OthersFollow ==
  ASSUME LinkInv, work # <<>>, NEW ls \in SUBSET Links,
         pc = "begin" => Doing.job # "reconcile",
         (GoOn(pc', ls) /\ pc' # "begin") \/ Done(ls),
         NEW l \in Links, l # Link, row'[l] = row[l],
         tun'[l] = tun[l] \/ (l \in ls /\ tun'[l] = "none")
  PROVE  Follows(l, row'[l], tun'[l], work', left', pc', stop)
<1>1. PICK x \in Seq(Work) : x = Callbacks(Closes(ls))
  BY ClosesQueued
<1>2. Turns(work, left, x, work', left', pc') /\ (stop = "starting" => \A k \in left : k \in left' \/ k = Link)
  BY <1>1, PieceTurns
<1>3. tun'[l] = tun[l] \/ (tun'[l] = "none" /\ \E i \in 1..Len(x) : x[i] = Callback(l))
  BY <1>1, ClosesQueued
<1>4. Head(work) # Callback(l) \/ pc # "begin"
  BY DEF Callback, Link, Doing
<1>5. ~At(l, work', left', pc', {"publish"})
  <2>1. CASE work' = work \o x /\ left' = left
    BY <2>1, HereKept, LinkIsHere DEF At, LinkInv
  <2>2. CASE pc' \in {"begin", "authorize"}
    BY <2>2 DEF At
  <2> QED
    BY <1>2, <2>1, <2>2 DEF Turns
<1>6. work \in Seq(Work) /\ Follows(l, row[l], tun[l], work, left, pc, stop)
  BY DEF LinkInv
<1>7. Here(work, left) # l
  BY LinkIsHere
<1>8. stop = "starting" => (pc = "begin" => Head(work).job # "reconcile") /\ (l \in left => l \in left')
  BY <1>2 DEF Doing
<1> QED
  BY <1>2, <1>3, <1>4, <1>5, <1>6, <1>7, <1>8, FollowsKept

(* A step of the piece in progress preserves the invariant when it does so *)
(* for its own link.                                                       *)
LEMMA PieceKeeps ==
  ASSUME LinkInv, work # <<>>, NEW ls \in SUBSET Links,
         pc = "begin" => Doing.job # "reconcile",
         (GoOn(pc', ls) /\ pc' # "begin") \/ Done(ls),
         row' \in [Links -> Row], tun' \in [Links -> Tunnel],
         \A l \in Links : l # Link => row'[l] = row[l] /\ (tun'[l] = tun[l] \/ (l \in ls /\ tun'[l] = "none")),
         Link \in Links => Follows(Link, row'[Link], tun'[Link], work', left', pc', stop),
         Link \in Links /\ GoOn(pc', ls) => Known(Link, row'[Link], tun'[Link], pc'),
         owned' \subseteq Links, \A l \in Links : tun'[l] # "none" => l \in owned' /\ stop = "no",
         stop = "starting" => pc' \in {"begin", "authorize", "mark"} /\ \A l \in Links : frame'[l] = "none",
         UNCHANGED <<stop, bothUp, stray>>
  PROVE  LinkInv'
<1>1. PICK x \in Seq(Work) : x = Callbacks(Closes(ls))
  BY ClosesQueued
<1>2. /\ Turns(work, left, x, work', left', pc') /\ left' \subseteq Links
      /\ pc' # "begin" /\ Head(work).job = "reconcile" => left' # {}
  BY <1>1, PieceTurns
<1>3. work' \in Seq(Work) /\ QueueFine(work', left', pc')
  BY <1>1, <1>2, ClosesQueued, QueueTurns DEF LinkInv
<1>4. ASSUME NEW l \in Links PROVE Follows(l, row'[l], tun'[l], work', left', pc', stop)
  BY OthersFollow
<1>5. ASSUME NEW l \in Links, pc' # "begin", Here(work', left') = l PROVE Known(l, row'[l], tun'[l], pc')
  <2>1. CASE GoOn(pc', ls)
    <3>1. left' = left /\ work' = work \o x
      BY <1>1, <2>1 DEF GoOn, Enqueue
    <3>2. l = Link
      BY <1>5, <3>1, HereKept, LinkIsHere DEF LinkInv
    <3> QED
      BY <2>1, <3>2
  <2>2. CASE Done(ls)
    <3>1. pc' = "authorize"
      BY <1>5, <2>2 DEF Done
    <3> QED
      BY <3>1 DEF Known
  <2> QED
    BY <2>1, <2>2
<1>6. ASSUME stop = "starting" PROVE Starting(bothUp, work', pc', frame')
  <2>1. x \in Seq(Work) /\ \A i \in 1..Len(x) : FALSE
    BY <1>1, <1>6, ClosesQueued DEF LinkInv
  <2>2. ~bothUp /\ \A i \in 1..Len(work) : work[i].job = "reconcile"
    BY <1>6 DEF LinkInv, Starting
  <2>3. ASSUME NEW i \in 1..Len(work') PROVE work'[i].job = "reconcile"
    <3>1. CASE work' = work \o x
      <4>1. i \in 1..Len(work) /\ work'[i] = work[i]
        BY <2>1, <2>3, <3>1, QueueGrows DEF LinkInv
      <4> QED
        BY <2>2, <4>1
    <3>2. CASE work' = Tail(work) \o x
      <4>1. Tail(work) \in Seq(Work)
        BY QueueTail DEF LinkInv
      <4>2. i \in 1..Len(Tail(work)) /\ work'[i] = Tail(work)[i]
        BY <2>1, <2>3, <3>2, <4>1, QueueGrows
      <4>3. i + 1 \in 1..Len(work) /\ work'[i] = work[i + 1]
        BY <4>2, QueueTail DEF LinkInv
      <4> QED
        BY <2>2, <4>3
    <3> QED
      BY <1>2, <3>1, <3>2 DEF Turns
  <2> QED
    BY <1>6, <2>2, <2>3 DEF Starting
<1> QED
  BY <1>2, <1>3, <1>4, <1>5, <1>6 DEF LinkInv

(* The row and tunnel of the link of a piece that does not alter the row.  *)
LEMMA OwnFollows ==
  ASSUME LinkInv, work # <<>>, NEW ls \in SUBSET Links, Link \in Links,
         pc = "begin" => Doing.job \notin {"reconcile", "closed"},
         (GoOn(pc', ls) /\ pc' \notin {"begin", "publish"}) \/ (Done(ls) /\ stop # "starting"),
         row'[Link] = row[Link],
         tun'[Link] = tun[Link] \/ (Link \in ls /\ tun'[Link] = "none"),
         pc \notin {"create", "mark"}, tun'[Link] = "open" => pc \notin {"verify", "publish"}
  PROVE  Follows(Link, row'[Link], tun'[Link], work', left', pc', stop)
<1>1. PICK x \in Seq(Work) : x = Callbacks(Closes(ls))
  BY ClosesQueued
<1>2. Turns(work, left, x, work', left', pc')
  BY <1>1, PieceTurns
<1>3. tun'[Link] = tun[Link] \/ (tun'[Link] = "none" /\ \E i \in 1..Len(x) : x[i] = Callback(Link))
  BY <1>1, ClosesQueued
<1>4. Head(work) # Callback(Link) \/ pc # "begin"
  BY DEF Callback, Doing
<1>5. pc' # "publish"
  BY DEF Done
<1>6. ~At(Link, work', left', pc', {"publish"})
  BY <1>5 DEF At
<1>7. work \in Seq(Work) /\ Follows(Link, row[Link], tun[Link], work, left, pc, stop)
  BY DEF LinkInv
<1>8. stop = "starting" => (pc = "begin" => Head(work).job # "reconcile") /\ (Link \in left => Link \in left')
  BY DEF Doing, GoOn
<1> QED
  BY <1>2, <1>3, <1>4, <1>6, <1>7, <1>8, FollowsKept

(* What the piece in progress knows, and where it is.                      *)
LEMMA PieceKnows ==
  ASSUME LinkInv, work # <<>>
  PROVE  /\ pc # "begin" /\ Link \in Links => Known(Link, row[Link], tun[Link], pc)
         /\ Link \in Links => Follows(Link, row[Link], tun[Link], work, left, pc, stop)
         /\ stop = "starting" => ~bothUp /\ pc \in {"begin", "authorize", "mark"} /\ Doing.job = "reconcile"
         /\ \A l \in Links : tun[l] # "none" => l \in owned /\ stop = "no"
         /\ stop = "starting" => \A l \in Links : frame[l] = "none"
         /\ row \in [Links -> Row] /\ tun \in [Links -> Tunnel] /\ work \in Seq(Work)
         /\ owned \subseteq Links
<1>1. Head(work) = work[1] /\ 1 \in 1..Len(work)
  BY QueueTail DEF LinkInv
<1> QED
  BY <1>1, LinkIsHere DEF LinkInv, Starting, Doing

(* A piece that has begun has a link.                                      *)
LEMMA PieceLink ==
  ASSUME LinkInv, work # <<>>, pc # "begin"
  PROVE  Link \in Links
<1>1. Head(work) = work[1] /\ 1 \in 1..Len(work)
  BY QueueTail DEF LinkInv
<1>2. CASE Head(work).job = "reconcile"
  <2>1. left # {} /\ left \in SUBSET Nat /\ left \subseteq Links
    BY <1>2, LinkAssumption DEF LinkInv, QueueFine, LinkAssumption
  <2>2. Here(work, left) \in left
    BY <1>2, <2>1, LeastMember DEF Here
  <2> QED
    BY <2>1, <2>2, LinkIsHere
<1>3. CASE Head(work).job # "reconcile"
  BY <1>1, <1>3, LinkIsHere DEF LinkInv, QueueFine, Here
<1> QED
  BY <1>2, <1>3

(* The tunnels after CloseTunnels.                                         *)
LEMMA TunnelsClosed ==
  ASSUME tun \in [Links -> Tunnel], NEW ls \in SUBSET Links, CloseTunnels(ls)
  PROVE  /\ tun' \in [Links -> Tunnel]
         /\ \A l \in Links : IF l \in ls THEN tun'[l] = "none" ELSE tun'[l] = tun[l]
         /\ (\A l \in Links : frame[l] = "none") => \A l \in Links : frame'[l] = "none"
BY DEF CloseTunnels, Closes, Tunnel

(* The first step of a piece.                                              *)
LEMMA EnsureLinkKeeps == LinkInv /\ EnsureLink => LinkInv'
<1> SUFFICES ASSUME LinkInv, EnsureLink PROVE LinkInv'
  OBVIOUS
<1>1. /\ work # <<>> /\ pc = "begin" /\ Doing.job = "ensure" /\ bothUp /\ stop \notin {"waits", "over"}
      /\ GoOn("authorize", {}) /\ tun' = tun /\ pc' = "authorize"
      /\ UNCHANGED <<frame, stop, bothUp, stray, owned>>
      /\ row' = [row EXCEPT ![Link] =
           IF @.exists THEN @ ELSE [exists |-> TRUE, state |-> "down", transport |-> "tunnel"]]
  BY DEF EnsureLink, AtStep, Untouched, Surroundings, GoOn, LinksStopped
<1> HIDE DEF Link
<1>2. GoOn(pc', {})
  BY <1>1
<1>3. row' \in [Links -> Row] /\ \A l \in Links : l # Link => row'[l] = row[l]
  BY <1>1, PieceKnows DEF Row
<1>4. ASSUME Link \in Links PROVE Follows(Link, row'[Link], tun'[Link], work', left', pc', stop)
  <2>1. CASE row[Link].exists
    <3>1. row'[Link] = row[Link]
      BY <1>1, <1>4, <2>1, PieceKnows
    <3> QED
      BY <1>1, <1>2, <1>4, <3>1, OwnFollows
  <2>2. CASE ~row[Link].exists
    <3>1. row'[Link] = [exists |-> TRUE, state |-> "down", transport |-> "tunnel"]
      BY <1>1, <1>4, <2>2, PieceKnows
    <3>2. tun[Link] # "open"
      BY <1>1, <1>4, <2>2, PieceKnows DEF Follows
    <3> QED
      BY <1>1, <3>1, <3>2 DEF Follows, At
  <2> QED
    BY <2>1, <2>2
<1>5. Known(Link, row'[Link], tun'[Link], pc')
  BY <1>1 DEF Known
<1>6. stop # "starting"
  BY <1>1, PieceKnows
<1> QED
  BY <1>1, <1>2, <1>3, <1>4, <1>5, <1>6, PieceKnows, PieceKeeps

LEMMA FindRowKeeps == LinkInv /\ FindRow => LinkInv'
<1> SUFFICES ASSUME LinkInv, FindRow PROVE LinkInv'
  OBVIOUS
<1>1. /\ work # <<>> /\ pc = "begin" /\ Doing.job = "delete"
      /\ GoOn("delete", {}) /\ tun' = tun /\ pc' = "delete"
      /\ UNCHANGED <<row, frame, stop, bothUp, stray, owned>>
  BY DEF FindRow, AtStep, Untouched, Surroundings, GoOn
<1>2. GoOn(pc', {}) /\ Known(Link, row'[Link], tun'[Link], pc')
  BY <1>1 DEF Known
<1>3. Link \in Links => Follows(Link, row'[Link], tun'[Link], work', left', pc', stop)
  BY <1>1, <1>2, OwnFollows
<1>4. stop # "starting"
  BY <1>1, PieceKnows
<1> QED
  BY <1>1, <1>2, <1>3, <1>4, PieceKnows, PieceKeeps

LEMMA CheckClosedKeeps == LinkInv /\ CheckClosed => LinkInv'
<1> SUFFICES ASSUME LinkInv, CheckClosed PROVE LinkInv'
  OBVIOUS
<1>1. /\ work # <<>> /\ pc = "begin" /\ Doing.job = "closed" /\ tun[Link] # "open" /\ tun' = tun
      /\ UNCHANGED <<row, frame, stop, bothUp, stray, owned>>
      /\ IF row[Link].exists /\ row[Link].transport = "tunnel" THEN GoOn("mark", {}) ELSE Done({})
  BY DEF CheckClosed, AtStep, Untouched, Surroundings
<1>2. stop # "starting"
  BY <1>1, PieceKnows
<1>3. CASE row[Link].exists /\ row[Link].transport = "tunnel"
  <2>1. GoOn(pc', {}) /\ pc' = "mark" /\ work' # <<>> /\ Here(work', left') = Link
    <3>1. GoOn("mark", {})
      BY <1>1, <1>3
    <3>2. pc' = "mark" /\ left' = left /\ work' = work \o Callbacks(Closes({}))
      BY <3>1 DEF GoOn, Enqueue
    <3> QED
      BY <1>1, <3>1, <3>2, ClosesQueued, HereKept, LinkIsHere DEF LinkInv
  <2>2. Follows(Link, row'[Link], tun'[Link], work', left', pc', stop)
    BY <1>1, <2>1 DEF Follows, LinkPending, At
  <2>3. Known(Link, row'[Link], tun'[Link], pc')
    BY <1>1, <2>1 DEF Known
  <2> QED
    BY <1>1, <1>2, <2>1, <2>2, <2>3, PieceKnows, PieceKeeps
<1>4. CASE ~(row[Link].exists /\ row[Link].transport = "tunnel")
  <2>1. Done({})
    BY <1>1, <1>4
  <2>2. Follows(Link, row'[Link], tun'[Link], work', left', pc', stop)
    BY <1>1, <1>4 DEF Follows
  <2>3. ~GoOn(pc', {}) \/ pc' = "authorize" \/ pc' = "begin"
    BY <2>1 DEF Done
  <2>4. Known(Link, row'[Link], tun'[Link], pc') \/ ~GoOn(pc', {})
    BY <2>3 DEF Known
  <2> QED
    BY <1>1, <1>2, <2>1, <2>2, <2>4, PieceKnows, PieceKeeps
<1> QED
  BY <1>3, <1>4

(* Where the piece in progress is after it goes on, or is done.            *)
LEMMA GoesOnHere ==
  ASSUME LinkInv, work # <<>>, NEW ls \in SUBSET Links, NEW name, GoOn(name, ls)
  PROVE  pc' = name /\ work' # <<>> /\ Here(work', left') = Link
<1>1. pc' = name /\ left' = left /\ work' = work \o Callbacks(Closes(ls))
  BY DEF GoOn, Enqueue
<1> QED
  BY <1>1, ClosesQueued, HereKept, LinkIsHere DEF LinkInv

(* After a finished piece the next one has read and decided nothing yet.   *)
LEMMA DoneThen ==
  ASSUME NEW ls, Done(ls), NEW l, NEW r, NEW t
  PROVE  Known(l, r, t, pc') /\ ~At(l, work', left', pc', {"publish"})
<1>1. pc' \in {"begin", "authorize"}
  BY DEF Done
<1> QED
  BY <1>1 DEF Known, At

(* A link that is deleted, marked down or not over a tunnel, and has no    *)
(* open tunnel.                                                            *)
LEMMA NothingToFollow ==
  ASSUME NEW l, NEW r, NEW t, NEW q, NEW rest, NEW at, NEW s, t # "open",
         \/ ~r.exists \/ r.transport # "tunnel"
         \/ (r.state # "open" /\ ~At(l, q, rest, at, {"publish"}))
  PROVE  Follows(l, r, t, q, rest, at, s)
BY DEF Follows

LEMMA DeleteLinkKeeps == LinkInv /\ DeleteLink => LinkInv'
<1> SUFFICES ASSUME LinkInv, DeleteLink PROVE LinkInv'
  OBVIOUS
<1>1. /\ work # <<>> /\ pc = "delete" /\ CloseTunnels({Link}) /\ owned' = owned \ {Link} /\ Done({Link})
      /\ UNCHANGED <<stop, bothUp, stray>>
      /\ row' = [row EXCEPT ![Link] = [exists |-> FALSE, state |-> "down", transport |-> "tunnel"]]
  BY DEF DeleteLink, AtStep
<1> HIDE DEF Link
<1>2. stop # "starting"
  BY <1>1, PieceKnows
<1>3. Link \in Links
  BY <1>1, PieceLink
<1>4. row' \in [Links -> Row] /\ ~row'[Link].exists /\ \A l \in Links : l # Link => row'[l] = row[l]
  BY <1>1, <1>3, PieceKnows DEF Row
<1>5. tun' \in [Links -> Tunnel] /\ \A l \in Links : IF l \in {Link} THEN tun'[l] = "none" ELSE tun'[l] = tun[l]
  BY <1>1, <1>3, PieceKnows, TunnelsClosed
<1>6. Follows(Link, row'[Link], tun'[Link], work', left', pc', stop)
  BY <1>3, <1>4, <1>5, NothingToFollow
<1>7. Known(Link, row'[Link], tun'[Link], pc')
  BY <1>1, DoneThen
<1>8. \A l \in Links : tun'[l] # "none" => l \in owned' /\ stop = "no"
  BY <1>1, <1>5, PieceKnows
<1>9. owned' \subseteq Links
  BY <1>1, PieceKnows
<1> QED
  BY <1>1, <1>2, <1>3, <1>4, <1>5, <1>6, <1>7, <1>8, <1>9, PieceKeeps

LEMMA AuthorizeKeeps == LinkInv /\ Authorize => LinkInv'
<1> SUFFICES ASSUME LinkInv, Authorize PROVE LinkInv'
  OBVIOUS
<1>1. /\ work # <<>> /\ pc = "authorize" /\ UNCHANGED <<row, owned, stop, bothUp, stray>>
      /\ IF LinksStopped THEN Untouched /\ Done({})
         ELSE IF Authorized(Link) /\ bothUp THEN Untouched /\ GoOn("address", {})
         ELSE CloseTunnels({Link}) /\ GoOn("mark", {Link})
  BY DEF Authorize, AtStep, Surroundings
<1> HIDE DEF Link
<1>2. Link \in Links
  BY <1>1, PieceLink
<1>3. CASE LinksStopped
  <2>1. Done({}) /\ tun' = tun /\ frame' = frame /\ stop # "starting"
    BY <1>1, <1>3 DEF LinksStopped, Untouched
  <2>2. Follows(Link, row'[Link], tun'[Link], work', left', pc', stop)
    BY <1>1, <1>2, <2>1, OwnFollows
  <2>3. Known(Link, row'[Link], tun'[Link], pc')
    BY <2>1, DoneThen
  <2> QED
    BY <1>1, <2>1, <2>2, <2>3, PieceKnows, PieceKeeps
<1>4. CASE ~LinksStopped /\ Authorized(Link) /\ bothUp
  <2>1. GoOn("address", {}) /\ tun' = tun /\ frame' = frame /\ stop # "starting" /\ pc' = "address"
    BY <1>1, <1>4, PieceKnows DEF Untouched, GoOn
  <2>2. Follows(Link, row'[Link], tun'[Link], work', left', pc', stop)
    BY <1>1, <1>2, <2>1, OwnFollows
  <2>3. Known(Link, row'[Link], tun'[Link], pc')
    BY <2>1 DEF Known
  <2> QED
    BY <1>1, <2>1, <2>2, <2>3, PieceKnows, PieceKeeps
<1>5. CASE ~LinksStopped /\ ~(Authorized(Link) /\ bothUp)
  <2>1. CloseTunnels({Link}) /\ GoOn("mark", {Link})
    BY <1>1, <1>5
  <2>2. pc' = "mark" /\ work' # <<>> /\ Here(work', left') = Link
    BY <1>1, <1>2, <2>1, GoesOnHere
  <2>3. tun' \in [Links -> Tunnel] /\ \A l \in Links : IF l \in {Link} THEN tun'[l] = "none" ELSE tun'[l] = tun[l]
    BY <1>1, <1>2, <2>1, PieceKnows, TunnelsClosed
  <2>4. Follows(Link, row'[Link], tun'[Link], work', left', pc', stop)
    BY <1>2, <2>2, <2>3 DEF Follows, LinkPending, At
  <2>5. Known(Link, row'[Link], tun'[Link], pc')
    BY <1>2, <2>2, <2>3 DEF Known
  <2>6. stop = "starting" => \A l \in Links : frame'[l] = "none"
    BY <1>1, <1>2, <2>1, PieceKnows, TunnelsClosed
  <2>7. \A l \in Links : tun'[l] # "none" => l \in owned' /\ stop = "no"
    BY <1>1, <2>3, PieceKnows
  <2> QED
    BY <1>1, <1>2, <2>1, <2>2, <2>3, <2>4, <2>5, <2>6, <2>7, PieceKnows, PieceKeeps
<1> QED
  BY <1>3, <1>4, <1>5

LEMMA AddressKeeps == LinkInv /\ Address => LinkInv'
<1> SUFFICES ASSUME LinkInv, Address PROVE LinkInv'
  OBVIOUS
<1>1. /\ work # <<>> /\ pc = "address" /\ UNCHANGED <<row, stop, bothUp, stray>>
      /\ IF LinksStopped THEN Untouched /\ Done({}) /\ UNCHANGED owned
         ELSE IF vpn
         THEN CloseTunnels({Link}) /\ owned' = owned \cup {Link} /\ GoOn("useVpn", {Link})
         ELSE Untouched /\ UNCHANGED owned /\ GoOn("useTunnel", {})
  BY DEF Address, AtStep, Surroundings
<1> HIDE DEF Link
<1>2. Link \in Links /\ stop # "starting"
  BY <1>1, PieceLink, PieceKnows
<1>3. CASE LinksStopped
  <2>1. Done({}) /\ tun' = tun /\ owned' = owned
    BY <1>1, <1>3 DEF LinksStopped, Untouched
  <2>2. Follows(Link, row'[Link], tun'[Link], work', left', pc', stop)
    BY <1>1, <1>2, <2>1, OwnFollows
  <2>3. Known(Link, row'[Link], tun'[Link], pc')
    BY <2>1, DoneThen
  <2> QED
    BY <1>1, <1>2, <2>1, <2>2, <2>3, PieceKnows, PieceKeeps
<1>4. CASE ~LinksStopped /\ ~vpn
  <2>1. GoOn("useTunnel", {}) /\ tun' = tun /\ owned' = owned /\ pc' = "useTunnel"
    BY <1>1, <1>4 DEF Untouched, GoOn
  <2>2. Follows(Link, row'[Link], tun'[Link], work', left', pc', stop)
    BY <1>1, <1>2, <2>1, OwnFollows
  <2>3. Known(Link, row'[Link], tun'[Link], pc')
    BY <2>1 DEF Known
  <2> QED
    BY <1>1, <1>2, <2>1, <2>2, <2>3, PieceKnows, PieceKeeps
<1>5. CASE ~LinksStopped /\ vpn
  <2>1. CloseTunnels({Link}) /\ GoOn("useVpn", {Link}) /\ owned' = owned \cup {Link} /\ pc' = "useVpn"
    BY <1>1, <1>5 DEF GoOn
  <2>2. tun' \in [Links -> Tunnel] /\ \A l \in Links : IF l \in {Link} THEN tun'[l] = "none" ELSE tun'[l] = tun[l]
    BY <1>1, <1>2, <2>1, PieceKnows, TunnelsClosed
  <2>3. Follows(Link, row'[Link], tun'[Link], work', left', pc', stop)
    BY <1>1, <1>2, <2>1, <2>2, OwnFollows
  <2>4. Known(Link, row'[Link], tun'[Link], pc')
    BY <1>2, <2>1, <2>2 DEF Known
  <2>5. \A l \in Links : tun'[l] # "none" => l \in owned' /\ stop = "no"
    BY <1>1, <2>1, <2>2, PieceKnows
  <2> QED
    BY <1>1, <1>2, <2>1, <2>2, <2>3, <2>4, <2>5, PieceKnows, PieceKeeps
<1> QED
  BY <1>3, <1>4, <1>5

LEMMA SetTransportKeeps == LinkInv /\ SetTransport => LinkInv'
<1> SUFFICES ASSUME LinkInv, SetTransport PROVE LinkInv'
  OBVIOUS
<1>1. /\ work # <<>> /\ pc \in {"useVpn", "useTunnel"} /\ tun' = tun
      /\ UNCHANGED <<owned, frame, stop, bothUp, stray>>
      /\ row' = [row EXCEPT ![Link].transport = IF pc = "useVpn" THEN "vpn" ELSE "tunnel"]
      /\ GoOn(IF pc = "useVpn" \/ tun[Link] = "open" THEN "publish" ELSE "create", {})
  BY DEF SetTransport, AtStep, Surroundings, Untouched
<1> HIDE DEF Link
<1>2. Link \in Links /\ stop # "starting"
  BY <1>1, PieceLink, PieceKnows
<1>3. PICK name \in {"publish", "create"} :
        name = IF pc = "useVpn" \/ tun[Link] = "open" THEN "publish" ELSE "create"
  OBVIOUS
<1>4. GoOn(name, {}) /\ pc' = name /\ work' # <<>> /\ Here(work', left') = Link
  BY <1>1, <1>3, GoesOnHere
<1>5. /\ row' \in [Links -> Row] /\ \A l \in Links : l # Link => row'[l] = row[l]
      /\ row'[Link].exists = row[Link].exists /\ row'[Link].state = row[Link].state
      /\ row'[Link].transport = IF pc = "useVpn" THEN "vpn" ELSE "tunnel"
  BY <1>1, <1>2, PieceKnows DEF Row
<1>6. /\ pc = "useVpn" => tun[Link] = "none"
      /\ Follows(Link, row[Link], tun[Link], work, left, pc, stop)
  BY <1>1, <1>2, PieceKnows DEF Known
<1>7. CASE pc = "useVpn"
  <2>1. row'[Link].transport = "vpn" /\ tun'[Link] = "none" /\ name = "publish"
    BY <1>1, <1>3, <1>5, <1>6, <1>7
  <2>2. Follows(Link, row'[Link], tun'[Link], work', left', pc', stop)
    BY <2>1, NothingToFollow
  <2>3. Known(Link, row'[Link], tun'[Link], pc')
    BY <1>4, <2>1 DEF Known
  <2> QED
    BY <1>1, <1>2, <1>4, <1>5, <2>2, <2>3, PieceKnows, PieceKeeps
<1>8. CASE pc = "useTunnel"
  <2>1. row'[Link].transport = "tunnel"
    BY <1>5, <1>8
  <2>2. tun[Link] = "open" => name = "publish" /\ row[Link].exists
    BY <1>3, <1>6 DEF Follows
  <2>3. tun[Link] # "open" => name = "create"
    BY <1>3, <1>8
  <2>4. Follows(Link, row'[Link], tun'[Link], work', left', pc', stop)
    BY <1>1, <1>4, <1>5, <2>1, <2>2, <2>3 DEF Follows, LinkPending, At
  <2>5. Known(Link, row'[Link], tun'[Link], pc')
    BY <1>1, <1>4, <2>1, <2>2, <2>3 DEF Known
  <2> QED
    BY <1>1, <1>2, <1>4, <1>5, <2>4, <2>5, PieceKnows, PieceKeeps
<1> QED
  BY <1>1, <1>7, <1>8

(* The state of a row.                                                     *)
LEMMA StateSet ==
  ASSUME row \in [Links -> Row], NEW l \in Links, NEW state \in {"open", "down"}, SetState(l, state)
  PROVE  /\ row' \in [Links -> Row] /\ \A k \in Links : k # l => row'[k] = row[k]
         /\ row'[l].state = state /\ row'[l].exists = row[l].exists
         /\ row'[l].transport = row[l].transport
BY DEF SetState, Row

LEMMA PublishLinkKeeps == LinkInv /\ PublishLink => LinkInv'
<1> SUFFICES ASSUME LinkInv, PublishLink PROVE LinkInv'
  OBVIOUS
<1>1. /\ work # <<>> /\ pc = "publish" /\ tun' = tun /\ UNCHANGED <<owned, frame, stop, bothUp, stray>>
      /\ SetState(Link, "open") /\ Done({})
  BY DEF PublishLink, AtStep, Surroundings, Untouched
<1> HIDE DEF Link
<1>2. Link \in Links /\ stop # "starting"
  BY <1>1, PieceLink, PieceKnows
<1>3. /\ row' \in [Links -> Row] /\ \A l \in Links : l # Link => row'[l] = row[l]
      /\ row'[Link].state = "open" /\ row'[Link].exists = row[Link].exists
      /\ row'[Link].transport = row[Link].transport
  BY <1>1, <1>2, PieceKnows, StateSet
<1>4. Known(Link, row'[Link], tun'[Link], pc')
  BY <1>1, DoneThen
<1>5. Follows(Link, row[Link], tun[Link], work, left, pc, stop) /\ At(Link, work, left, pc, {"publish"})
  BY <1>1, <1>2, PieceKnows, LinkIsHere DEF At
<1>6. CASE tun[Link] = "open"
  <2>1. Follows(Link, row'[Link], tun'[Link], work', left', pc', stop)
    BY <1>1, <1>3, <1>5, <1>6 DEF Follows
  <2> QED
    BY <1>1, <1>2, <1>3, <1>4, <2>1, PieceKnows, PieceKeeps
<1>7. CASE tun[Link] # "open"
  <2>1. PICK x \in Seq(Work) : x = Callbacks(Closes({}))
    BY ClosesQueued
  <2>2. Turns(work, left, x, work', left', pc')
    BY <1>1, <2>1, PieceTurns
  <2>3. ASSUME row[Link].exists, row[Link].transport = "tunnel"
        PROVE  LinkPending(Link, work', left', pc', stop)
    <3>1. LinkPending(Link, work, left, pc, stop)
      BY <1>5, <1>7, <2>3 DEF Follows
    <3>2. work \in Seq(Work)
      BY <1>1, PieceKnows
    <3> QED
      BY <1>1, <1>2, <2>2, <3>1, <3>2, PendingKept
  <2>4. Follows(Link, row'[Link], tun'[Link], work', left', pc', stop)
    BY <1>1, <1>3, <1>7, <2>3 DEF Follows
  <2> QED
    BY <1>1, <1>2, <1>3, <1>4, <2>4, PieceKnows, PieceKeeps
<1> QED
  BY <1>6, <1>7

LEMMA CreateTunnelKeeps == LinkInv /\ CreateTunnel => LinkInv'
<1> SUFFICES ASSUME LinkInv, CreateTunnel PROVE LinkInv'
  OBVIOUS
<1>1. /\ work # <<>> /\ pc = "create" /\ UNCHANGED <<frame, stop, bothUp, stray>> /\ SetState(Link, "down")
      /\ IF LinksStopped \/ ~bothUp THEN Untouched /\ Done({}) /\ UNCHANGED owned
         ELSE /\ owned' = owned \cup {Link} /\ tun' = [tun EXCEPT ![Link] = "starting"]
              /\ GoOn("listen", {})
  BY DEF CreateTunnel, AtStep, Surroundings, Untouched
<1> HIDE DEF Link
<1>2. Link \in Links /\ stop # "starting"
  BY <1>1, PieceLink, PieceKnows
<1>3. /\ row' \in [Links -> Row] /\ \A l \in Links : l # Link => row'[l] = row[l]
      /\ row'[Link].state = "down" /\ row'[Link].transport = row[Link].transport
  BY <1>1, <1>2, PieceKnows, StateSet
<1>4. tun[Link] # "open" /\ row[Link].transport = "tunnel"
  BY <1>1, <1>2, PieceKnows DEF Known
<1>5. CASE LinksStopped \/ ~bothUp
  <2>1. Done({}) /\ tun' = tun /\ owned' = owned
    BY <1>1, <1>5 DEF Untouched
  <2>2. Known(Link, row'[Link], tun'[Link], pc') /\ ~At(Link, work', left', pc', {"publish"})
    BY <2>1, DoneThen
  <2>3. Follows(Link, row'[Link], tun'[Link], work', left', pc', stop)
    BY <1>3, <1>4, <2>1, <2>2, NothingToFollow
  <2> QED
    BY <1>1, <1>2, <1>3, <2>1, <2>2, <2>3, PieceKnows, PieceKeeps
<1>6. CASE ~(LinksStopped \/ ~bothUp)
  <2>1. GoOn("listen", {}) /\ tun' = [tun EXCEPT ![Link] = "starting"] /\ owned' = owned \cup {Link}
        /\ pc' = "listen"
    BY <1>1, <1>6 DEF GoOn
  <2>2. /\ tun' \in [Links -> Tunnel] /\ tun'[Link] = "starting"
        /\ \A l \in Links : l # Link => tun'[l] = tun[l]
    BY <1>1, <1>2, <2>1, PieceKnows DEF Tunnel
  <2>3. Follows(Link, row'[Link], tun'[Link], work', left', pc', stop)
    BY <1>3, <2>1, <2>2, NothingToFollow DEF At
  <2>4. Known(Link, row'[Link], tun'[Link], pc')
    BY <1>3, <1>4, <2>1, <2>2 DEF Known
  <2>5. stop = "no"
    BY <1>2, <1>6 DEF LinkInv, LinksStopped
  <2>6. \A l \in Links : tun'[l] # "none" => l \in owned' /\ stop = "no"
    BY <1>1, <2>1, <2>2, <2>5, PieceKnows
  <2> QED
    BY <1>1, <1>2, <1>3, <2>1, <2>2, <2>3, <2>4, <2>6, PieceKnows, PieceKeeps
<1> QED
  BY <1>5, <1>6

LEMMA TunnelRejectedKeeps == LinkInv /\ TunnelRejected => LinkInv'
<1> SUFFICES ASSUME LinkInv, TunnelRejected PROVE LinkInv'
  OBVIOUS
<1>1. /\ work # <<>> /\ pc = "listen" /\ tun' = tun /\ tun[Link] = "none" /\ GoOn("mark", {})
      /\ UNCHANGED <<row, owned, frame, stop, bothUp, stray>>
  BY DEF TunnelRejected, AtStep, Surroundings, Untouched
<1> HIDE DEF Link
<1>2. Link \in Links /\ stop # "starting"
  BY <1>1, PieceLink, PieceKnows
<1>3. pc' = "mark" /\ work' # <<>> /\ Here(work', left') = Link
  BY <1>1, GoesOnHere
<1>4. Follows(Link, row'[Link], tun'[Link], work', left', pc', stop)
  BY <1>1, <1>3 DEF Follows, LinkPending, At
<1>5. Known(Link, row'[Link], tun'[Link], pc')
  BY <1>1, <1>3 DEF Known
<1> QED
  BY <1>1, <1>2, <1>3, <1>4, <1>5, PieceKnows, PieceKeeps

LEMMA VerifyTunnelKeeps == LinkInv /\ VerifyTunnel => LinkInv'
<1> SUFFICES ASSUME LinkInv, VerifyTunnel PROVE LinkInv'
  OBVIOUS
<1>1. /\ work # <<>> /\ pc = "verify" /\ UNCHANGED <<row, owned, stop, bothUp, stray>>
      /\ IF LinksStopped \/ ~Authorized(Link) \/ tun[Link] # "open"
         THEN CloseTunnels({Link}) /\ Done({Link}) ELSE Untouched /\ GoOn("publish", {})
  BY DEF VerifyTunnel, AtStep, Surroundings
<1> HIDE DEF Link
<1>2. Link \in Links /\ stop # "starting"
  BY <1>1, PieceLink, PieceKnows
<1>3. CASE LinksStopped \/ ~Authorized(Link) \/ tun[Link] # "open"
  <2>1. CloseTunnels({Link}) /\ Done({Link})
    BY <1>1, <1>3
  <2>2. tun' \in [Links -> Tunnel] /\ \A l \in Links : IF l \in {Link} THEN tun'[l] = "none" ELSE tun'[l] = tun[l]
    BY <1>1, <1>2, <2>1, PieceKnows, TunnelsClosed
  <2>3. Follows(Link, row'[Link], tun'[Link], work', left', pc', stop)
    BY <1>1, <1>2, <2>1, <2>2, OwnFollows
  <2>4. Known(Link, row'[Link], tun'[Link], pc')
    BY <2>1, DoneThen
  <2>5. \A l \in Links : tun'[l] # "none" => l \in owned' /\ stop = "no"
    BY <1>1, <2>2, PieceKnows
  <2> QED
    BY <1>1, <1>2, <2>1, <2>2, <2>3, <2>4, <2>5, PieceKnows, PieceKeeps
<1>4. CASE ~(LinksStopped \/ ~Authorized(Link) \/ tun[Link] # "open")
  <2>1. tun' = tun /\ frame' = frame /\ GoOn("publish", {}) /\ tun[Link] = "open"
    BY <1>1, <1>4 DEF Untouched
  <2>2. pc' = "publish" /\ work' # <<>> /\ Here(work', left') = Link
    BY <1>1, <2>1, GoesOnHere
  <2>3. Follows(Link, row[Link], tun[Link], work, left, pc, stop)
    BY <1>1, <1>2, PieceKnows
  <2>4. Follows(Link, row'[Link], tun'[Link], work', left', pc', stop)
    BY <1>1, <2>1, <2>2, <2>3 DEF Follows, At
  <2>5. Known(Link, row'[Link], tun'[Link], pc')
    BY <2>2 DEF Known
  <2> QED
    BY <1>1, <1>2, <2>1, <2>2, <2>4, <2>5, PieceKnows, PieceKeeps
<1> QED
  BY <1>3, <1>4

LEMMA MarkDownKeeps == LinkInv /\ MarkDown => LinkInv'
<1> SUFFICES ASSUME LinkInv, MarkDown PROVE LinkInv'
  OBVIOUS
<1>1. /\ work # <<>> /\ pc = "mark" /\ tun' = tun /\ UNCHANGED <<owned, frame, stop, bothUp, stray>>
      /\ SetState(Link, "down") /\ Done({})
  BY DEF MarkDown, AtStep, Surroundings, Untouched
<1> HIDE DEF Link
<1>2. Link \in Links
  BY <1>1, PieceLink
<1>3. /\ row' \in [Links -> Row] /\ \A l \in Links : l # Link => row'[l] = row[l]
      /\ row'[Link].state = "down"
  BY <1>1, <1>2, PieceKnows, StateSet
<1>4. tun[Link] # "open"
  BY <1>1, <1>2, PieceKnows DEF Known
<1>5. Known(Link, row'[Link], tun'[Link], pc') /\ ~At(Link, work', left', pc', {"publish"})
  BY <1>1, DoneThen
<1>6. Follows(Link, row'[Link], tun'[Link], work', left', pc', stop)
  BY <1>1, <1>3, <1>4, <1>5, NothingToFollow
<1>7. pc' \in {"begin", "authorize"}
  BY <1>1 DEF Done
<1> QED
  BY <1>1, <1>2, <1>3, <1>5, <1>6, <1>7, PieceKnows, PieceKeeps

(* The source agent listens, or is refused.                                *)
LEMMA ListeningKeeps == LinkInv /\ Listening => LinkInv'
<1> SUFFICES ASSUME LinkInv, Listening PROVE LinkInv'
  OBVIOUS
<1>1. /\ work # <<>> /\ pc = "listen" /\ tun[Link] = "starting"
      /\ UNCHANGED <<row, owned, stop, bothUp, stray>>
      /\ \/ /\ Authorized(Link) /\ tun' = [tun EXCEPT ![Link] = "open"] /\ frame' = frame
            /\ GoOn("verify", {})
         \/ CloseTunnels({Link}) /\ GoOn("mark", {Link})
         \/ CloseTunnels({Link}) /\ GoOn("listen", {Link})
  BY DEF Listening, AtStep
<1> HIDE DEF Link
<1>2. Link \in Links /\ stop # "starting"
  BY <1>1, PieceLink, PieceKnows
<1>3. row[Link].transport = "tunnel" /\ Follows(Link, row[Link], tun[Link], work, left, pc, stop)
  BY <1>1, <1>2, PieceKnows DEF Known
<1>4. CASE Authorized(Link) /\ tun' = [tun EXCEPT ![Link] = "open"] /\ GoOn("verify", {})
  <2>1. pc' = "verify" /\ work' # <<>> /\ Here(work', left') = Link
    BY <1>1, <1>4, GoesOnHere
  <2>2. /\ tun' \in [Links -> Tunnel] /\ tun'[Link] = "open"
        /\ \A l \in Links : l # Link => tun'[l] = tun[l]
    BY <1>1, <1>2, <1>4, PieceKnows DEF Tunnel
  <2>3. Follows(Link, row'[Link], tun'[Link], work', left', pc', stop)
    BY <1>1, <1>3, <1>4, <2>1, <2>2 DEF Follows, At, Authorized
  <2>4. Known(Link, row'[Link], tun'[Link], pc')
    BY <2>1 DEF Known
  <2>5. \A l \in Links : tun'[l] # "none" => l \in owned' /\ stop = "no"
    BY <1>1, <1>2, <2>2, PieceKnows
  <2> QED
    BY <1>1, <1>2, <1>4, <2>1, <2>2, <2>3, <2>4, <2>5, PieceKnows, PieceKeeps
<1>5. ASSUME NEW name \in {"mark", "listen"}, CloseTunnels({Link}), GoOn(name, {Link}) PROVE LinkInv'
  <2>1. pc' = name /\ work' # <<>> /\ Here(work', left') = Link
    BY <1>1, <1>2, <1>5, GoesOnHere
  <2>2. tun' \in [Links -> Tunnel] /\ \A l \in Links : IF l \in {Link} THEN tun'[l] = "none" ELSE tun'[l] = tun[l]
    BY <1>1, <1>2, <1>5, PieceKnows, TunnelsClosed
  <2>3. Follows(Link, row'[Link], tun'[Link], work', left', pc', stop)
    BY <1>1, <1>2, <1>5, <2>1, <2>2, OwnFollows
  <2>4. Known(Link, row'[Link], tun'[Link], pc')
    BY <1>1, <1>2, <1>3, <2>1, <2>2 DEF Known
  <2>5. \A l \in Links : tun'[l] # "none" => l \in owned' /\ stop = "no"
    BY <1>1, <2>2, PieceKnows
  <2> QED
    BY <1>1, <1>2, <1>5, <2>1, <2>2, <2>3, <2>4, <2>5, PieceKnows, PieceKeeps
<1> QED
  BY <1>1, <1>4, <1>5

(* The queue after a first step of a piece that has no link of its own.    *)
LEMMA BegunKeeps ==
  ASSUME LinkInv, work # <<>>, pc = "begin", NEW x \in Seq(Work),
         Turns(work, left, x, work', left', pc'), left' \subseteq Links,
         pc' # "begin" => pc' = "authorize" /\ left' # {},
         \A i \in 1..Len(x) : x[i].job # "reconcile" /\ x[i].link \in Links /\ stop # "starting",
         tun' \in [Links -> Tunnel],
         \A l \in Links :
           \/ tun'[l] = tun[l]
           \/ (tun'[l] = "none" /\ \E i \in 1..Len(x) : x[i] = Callback(l)),
         \A l \in Links : /\ Head(work) = Callback(l) => tun'[l] = "open"
                          /\ stop = "starting" /\ row[l].exists => l \in left',
         owned' \subseteq Links, \A l \in Links : tun'[l] # "none" => l \in owned' /\ stop = "no",
         stop = "starting" => \A l \in Links : frame'[l] = "none",
         UNCHANGED <<row, stop, bothUp, stray>>
  PROVE  LinkInv'
<1>1. work' \in Seq(Work) /\ QueueFine(work', left', pc')
  BY QueueTurns DEF LinkInv
<1>2. ~\E l \in Links : At(l, work', left', pc', {"publish"})
  BY DEF At
<1>3. ASSUME NEW l \in Links PROVE Follows(l, row'[l], tun'[l], work', left', pc', stop)
  <2>1. Follows(l, row[l], tun[l], work, left, pc, stop) /\ work \in Seq(Work)
    BY DEF LinkInv
  <2>2. tun'[l] = "open" => row[l].exists /\ row[l].transport = "tunnel" /\ row[l].state = "open"
    BY <2>1 DEF Follows, At
  <2>3. ASSUME tun'[l] # "open", row[l].exists, row[l].transport = "tunnel", row[l].state = "open"
        PROVE  LinkPending(l, work', left', pc', stop)
    <3>1. CASE stop = "starting"
      BY <2>3, <3>1 DEF LinkPending
    <3>2. CASE stop # "starting" /\ tun[l] # "open"
      <4>1. LinkPending(l, work, left, pc, stop)
        BY <2>1, <2>3, <3>2 DEF Follows
      <4> QED
        BY <2>1, <2>3, <3>2, <4>1, PendingKept
    <3>3. CASE stop # "starting" /\ tun[l] = "open"
      <4>1. \E i \in 1..Len(x) : x[i] = Callback(l)
        BY <2>3, <3>3
      <4>2. CASE work' = work \o x
        BY <2>1, <4>1, <4>2, CallbackPending
      <4>3. CASE work' = Tail(work) \o x /\ pc' = "begin"
        BY <2>1, <4>1, <4>3, QueueTail, CallbackPending
      <4> QED
        BY <4>2, <4>3 DEF Turns
    <3> QED
      BY <3>1, <3>2, <3>3
  <2> QED
    BY <1>2, <2>2, <2>3 DEF Follows
<1>4. ASSUME NEW l \in Links PROVE Known(l, row'[l], tun'[l], pc') \/ pc' = "begin"
  BY DEF Known
<1>5. ASSUME stop = "starting" PROVE Starting(bothUp, work', pc', frame')
  <2>1. ~bothUp /\ \A i \in 1..Len(work) : work[i].job = "reconcile"
    BY <1>5 DEF LinkInv, Starting
  <2>2. ASSUME NEW i \in 1..Len(work') PROVE work'[i].job = "reconcile"
    <3>1. CASE work' = work \o x
      <4>1. i \in 1..Len(work) /\ work'[i] = work[i]
        BY <1>5, <2>2, <3>1, QueueGrows DEF LinkInv
      <4> QED
        BY <2>1, <4>1
    <3>2. CASE work' = Tail(work) \o x
      <4>1. Tail(work) \in Seq(Work)
        BY QueueTail DEF LinkInv
      <4>2. i \in 1..Len(Tail(work)) /\ work'[i] = Tail(work)[i]
        BY <1>5, <2>2, <3>2, <4>1, QueueGrows
      <4>3. i + 1 \in 1..Len(work) /\ work'[i] = work[i + 1]
        BY <4>2, QueueTail DEF LinkInv
      <4> QED
        BY <2>1, <4>3
    <3> QED
      BY <3>1, <3>2 DEF Turns
  <2> QED
    BY <1>5, <2>1, <2>2 DEF Starting
<1> QED
  BY <1>1, <1>3, <1>4, <1>5 DEF LinkInv

(* A piece that ends at once.                                              *)
LEMMA SkipKeeps == LinkInv /\ Skip => LinkInv'
<1> SUFFICES ASSUME LinkInv, Skip PROVE LinkInv'
  OBVIOUS
<1>1. /\ work # <<>> /\ pc = "begin" /\ tun' = tun /\ left' = {} /\ pc' = "begin" /\ work' = Tail(work)
      /\ UNCHANGED <<row, owned, frame, stop, bothUp, stray>>
      /\ \/ Doing.job \in {"reconcile", "ensure"} /\ LinksStopped
         \/ Doing.job \in {"ensure", "delete"}
         \/ Doing.job = "closed" /\ tun[Doing.link] = "open"
  BY DEF Skip, AtStep, Surroundings, Untouched
<1>2. /\ <<>> \in Seq(Work) /\ Len(<<>>) = 0 /\ Tail(work) \o <<>> = Tail(work)
  BY <1>1, QueueTail, EmptySeq, ConcatEmptySeq DEF LinkInv
<1>3. Turns(work, left, <<>>, work', left', pc')
  BY <1>1, <1>2 DEF Turns
<1>4. stop # "starting"
  BY <1>1, PieceKnows DEF LinksStopped
<1>5. ASSUME NEW l \in Links, Head(work) = Callback(l) PROVE tun'[l] = "open"
  BY <1>1, <1>5 DEF Callback, Doing
<1>6. \A i \in 1..Len(<<>>) : FALSE
  BY <1>2
<1>7. \A l \in Links : tun'[l] # "none" => l \in owned' /\ stop = "no"
  BY <1>1, PieceKnows
<1>8. tun' \in [Links -> Tunnel] /\ owned' \subseteq Links
  BY <1>1, PieceKnows
<1> QED
  BY <1>1, <1>2, <1>3, <1>4, <1>5, <1>6, <1>7, <1>8, BegunKeeps

(* reconcile() has its rows.                                               *)
LEMMA ReconcileKeeps == LinkInv /\ ReconcileLinks => LinkInv'
<1> SUFFICES ASSUME LinkInv, ReconcileLinks PROVE LinkInv'
  OBVIOUS
<1>1. PICK rows, gone : rows = {l \in Links : row[l].exists} /\ gone = owned \ rows
  OBVIOUS
<1>2. /\ work # <<>> /\ pc = "begin" /\ Doing.job = "reconcile" /\ CloseTunnels(gone)
      /\ owned' = owned \cap rows /\ left' = rows /\ UNCHANGED <<row, stop, bothUp, stray>>
      /\ IF rows # {}
         THEN pc' = "authorize" /\ work' = work \o Callbacks(Closes(gone))
         ELSE pc' = "begin" /\ work' = Tail(work) \o Callbacks(Closes(gone))
  BY <1>1 DEF ReconcileLinks, AtStep, Enqueue, Surroundings
<1>3. rows \in SUBSET Links /\ gone \in SUBSET Links
  BY <1>1 DEF LinkInv
<1>4. PICK x \in Seq(Work) : x = Callbacks(Closes(gone))
  BY <1>3, ClosesQueued
<1>5. Turns(work, left, x, work', left', pc') /\ (pc' # "begin" => pc' = "authorize" /\ left' # {})
  BY <1>2, <1>4 DEF Turns
<1>6. /\ tun' \in [Links -> Tunnel]
      /\ \A l \in Links : IF l \in gone THEN tun'[l] = "none" ELSE tun'[l] = tun[l]
      /\ stop = "starting" => \A l \in Links : frame'[l] = "none"
  BY <1>2, <1>3, PieceKnows, TunnelsClosed
<1>7. \A i \in 1..Len(x) : x[i].job # "reconcile" /\ x[i].link \in Links /\ stop # "starting"
  BY <1>2, <1>3, <1>4, ClosesQueued, PieceKnows
<1>8. ASSUME NEW l \in Links
      PROVE  tun'[l] = tun[l] \/ (tun'[l] = "none" /\ \E i \in 1..Len(x) : x[i] = Callback(l))
  BY <1>3, <1>4, <1>6, ClosesQueued
<1>9. ASSUME NEW l \in Links
      PROVE  /\ Head(work) # Callback(l)
             /\ row[l].exists => l \in left'
  BY <1>1, <1>2 DEF Callback, Doing
<1>10. ASSUME NEW l \in Links, tun'[l] # "none" PROVE l \in owned' /\ stop = "no"
  BY <1>1, <1>2, <1>6, <1>10, PieceKnows
<1> QED
  BY <1>2, <1>3, <1>5, <1>6, <1>7, <1>8, <1>9, <1>10, BegunKeeps

(* Others queue work behind the piece in progress, and may close tunnels.  *)
LEMMA OutsideKeeps ==
  ASSUME LinkInv, NEW x \in Seq(Work), work' = work \o x,
         \A i \in 1..Len(x) : x[i].job # "reconcile" => x[i].link \in Links,
         stop # "starting", stop' \in {"no", "waits", "over"},
         UNCHANGED <<row, pc, left, owned>>, stray' = FALSE, tun' \in [Links -> Tunnel],
         \A l \in Links :
           tun'[l] = tun[l] \/ (tun'[l] = "none" /\ \E i \in 1..Len(x) : x[i] = Callback(l)),
         \A l \in Links : tun'[l] # "none" => stop' = "no"
  PROVE  LinkInv'
<1>1. work' \in Seq(Work) /\ QueueFine(work', left, pc)
  BY QueueEnqueued DEF LinkInv
<1>2. ASSUME NEW l \in Links PROVE Follows(l, row[l], tun'[l], work', left, pc, stop')
  <2>1. Follows(l, row[l], tun[l], work, left, pc, stop) /\ work \in Seq(Work) /\ (pc # "begin" => work # <<>>)
    BY DEF LinkInv, QueueFine
  <2>2. Follows(l, row[l], tun'[l], work', left, pc, stop)
    BY <2>1, FollowsEnqueued
  <2> QED
    BY <2>2 DEF Follows, LinkPending
<1>3. ASSUME NEW l \in Links, pc # "begin", Here(work', left) = l PROVE Known(l, row[l], tun'[l], pc)
  <2>1. work # <<>> /\ work \in Seq(Work)
    BY <1>3 DEF LinkInv, QueueFine
  <2>2. Here(work, left) = l
    BY <1>3, <2>1, HereKept
  <2>3. Known(l, row[l], tun[l], pc)
    BY <1>3, <2>2 DEF LinkInv
  <2> QED
    BY <2>3 DEF Known
<1>4. \A l \in Links : tun'[l] # "none" => l \in owned /\ stop' = "no"
  BY DEF LinkInv
<1> QED
  BY <1>1, <1>2, <1>3, <1>4 DEF LinkInv

(* The tunnels of ls close, and perhaps a reconciliation is queued.        *)
LEMMA ClosingKeeps ==
  ASSUME LinkInv, NEW ls \in SUBSET Links, CloseTunnels(ls), NEW more, more \in {<<>>, Changed},
         work' = work \o (Callbacks(Closes(ls)) \o more),
         stop # "starting", stop' \in {"no", "waits", "over"},
         UNCHANGED <<row, pc, left, owned, stray>>,
         stop' # "no" => owned \subseteq ls \/ stop' = stop
  PROVE  LinkInv'
<1>1. PICK c \in Seq(Work) : c = Callbacks(Closes(ls))
  BY ClosesQueued
<1>2. /\ \A i \in 1..Len(c) : c[i].link \in Links
      /\ \A l \in ls : tun[l] # "none" => \E i \in 1..Len(c) : c[i] = Callback(l)
  BY <1>1, ClosesQueued
<1>3. more = <<>> \/ more = <<[job |-> "reconcile", link |-> 0]>>
  BY DEF Changed
<1>4. more \in Seq(Work) /\ \A i \in 1..Len(more) : more[i].job = "reconcile"
  <2>1. CASE more = <<>>
    BY <2>1, EmptySeq
  <2>2. CASE more = <<[job |-> "reconcile", link |-> 0]>>
    <3>1. [job |-> "reconcile", link |-> 0] \in Work
      BY DEF Work
    <3> QED
      BY <2>2, <3>1
  <2> QED
    BY <1>3, <2>1, <2>2
<1>5. PICK x \in Seq(Work) : x = c \o more
  BY <1>4, QueueGrows
<1>6. ASSUME NEW i \in 1..Len(x), x[i].job # "reconcile" PROVE x[i].link \in Links
  <2>1. CASE i \in 1..Len(c)
    BY <1>2, <1>4, <1>5, <2>1, QueueGrows
  <2>2. CASE \E j \in 1..Len(more) : i = Len(c) + j
    BY <1>4, <1>5, <1>6, <2>2, QueueGrows
  <2> QED
    BY <1>4, <1>5, <2>1, <2>2, QueueGrows
<1>7. ASSUME NEW l \in ls, tun[l] # "none" PROVE \E i \in 1..Len(x) : x[i] = Callback(l)
  BY <1>2, <1>4, <1>5, <1>7, QueueGrows
<1>8. /\ tun' \in [Links -> Tunnel]
      /\ \A l \in Links : IF l \in ls THEN tun'[l] = "none" ELSE tun'[l] = tun[l]
  BY TunnelsClosed DEF LinkInv
<1>9. ASSUME NEW l \in Links
      PROVE  tun'[l] = tun[l] \/ (tun'[l] = "none" /\ \E i \in 1..Len(x) : x[i] = Callback(l))
  BY <1>7, <1>8
<1>10. ASSUME NEW l \in Links, tun'[l] # "none" PROVE stop' = "no"
  <2>1. l \notin ls /\ l \in owned /\ stop = "no"
    BY <1>8, <1>10 DEF LinkInv
  <2> QED
    BY <2>1
<1>11. work' = work \o x /\ stray' = FALSE
  BY <1>1, <1>5 DEF LinkInv
<1> QED
  BY <1>5, <1>6, <1>8, <1>9, <1>10, <1>11, OutsideKeeps

(* Nothing the invariant is about changes, but the machines or the frames. *)
LEMMA RestKeeps ==
  ASSUME LinkInv, UNCHANGED <<row, tun, work, pc, left, owned, stop, stray>>,
         stop = "starting" => bothUp' = bothUp /\ frame' = frame
  PROVE  LinkInv'
BY DEF LinkInv, Starting

(* Work is queued, and nothing closes.                                     *)
LEMMA QueuedKeeps ==
  ASSUME LinkInv, NEW w \in Work, w.job # "reconcile" => w.link \in Links, work' = work \o <<w>>,
         stop # "starting", UNCHANGED <<row, tun, pc, left, owned, stop, stray>>
  PROVE  LinkInv'
<1>1. <<w>> \in Seq(Work) /\ \A i \in 1..Len(<<w>>) : <<w>>[i] = w
  OBVIOUS
<1>2. /\ tun' \in [Links -> Tunnel] /\ stop' \in {"no", "waits", "over"} /\ stray' = FALSE
      /\ \A l \in Links : tun'[l] # "none" => stop' = "no"
  BY DEF LinkInv
<1> QED
  BY <1>1, <1>2, OutsideKeeps

(* A change of anything appends one reconciliation at most.                *)
LEMMA ChangedKeeps ==
  ASSUME LinkInv, work' = work \o Changed, stop # "starting",
         UNCHANGED <<row, tun, pc, left, owned, stop, stray>>
  PROVE  LinkInv'
<1>1. CASE LinksStopped
  <2>1. Changed = <<>> /\ work \o <<>> = work
    BY <1>1, ConcatEmptySeq DEF Changed, LinkInv
  <2>2. work' = work
    BY <2>1
  <2> QED
    BY <2>2, RestKeeps
<1>2. CASE ~LinksStopped
  <2>1. Changed = <<[job |-> "reconcile", link |-> 0]>> /\ [job |-> "reconcile", link |-> 0] \in Work
    BY <1>2 DEF Changed, Work
  <2> QED
    BY <2>1, QueuedKeeps
<1> QED
  BY <1>1, <1>2

(* Frames: a tunnel that is open has its row.                              *)
LEMMA DataFrameKeeps == ASSUME LinkInv, NEW l \in Links, DataFrame(l) PROVE LinkInv'
<1>1. /\ tun[l] = "open" /\ UNCHANGED <<row, pc, left, owned, stop, bothUp>>
      /\ \/ Relay(l) /\ UNCHANGED <<tun, frame, work>>
         \/ CloseTunnels({l}) /\ work' = work \o Callbacks(Closes({l})) /\ stray' = stray
         \/ UNCHANGED <<tun, work, stray>>
  <2>1. /\ tun[l] = "open" /\ UNCHANGED <<row, pc, left, owned, stop, bothUp>>
    BY DEF DataFrame
  <2>2. CASE cache[l] = "yes"
    BY <2>1, <2>2 DEF DataFrame
  <2>3. CASE cache[l] = "no"
    <3>1. CloseTunnels({l}) /\ Enqueue(Callbacks({l})) /\ stray' = stray
      BY <2>3 DEF DataFrame
    <3>2. Closes({l}) = {l}
      BY <2>1 DEF Closes
    <3> QED
      BY <2>1, <3>1, <3>2 DEF Enqueue
  <2>4. CASE cache[l] # "yes" /\ cache[l] # "no"
    BY <2>1, <2>4 DEF DataFrame
  <2> QED
    BY <2>2, <2>3, <2>4
<1>2. row[l].exists /\ stop = "no" /\ stray = FALSE
  BY <1>1 DEF LinkInv, Follows
<1>3. CASE UNCHANGED <<tun, work>> /\ (Relay(l) \/ stray' = stray)
  <2>1. stray' = stray
    BY <1>2, <1>3 DEF Relay
  <2> QED
    BY <1>1, <1>2, <1>3, <2>1, RestKeeps
<1>4. CASE CloseTunnels({l}) /\ work' = work \o Callbacks(Closes({l})) /\ stray' = stray
  <2>1. Callbacks(Closes({l})) \in Seq(Work)
    BY ClosesQueued
  <2>2. Callbacks(Closes({l})) \o <<>> = Callbacks(Closes({l}))
    BY <2>1, ConcatEmptySeq
  <2> QED
    BY <1>1, <1>2, <1>4, <2>2, ClosingKeeps
<1> QED
  BY <1>1, <1>3, <1>4

LEMMA FrameDecidedKeeps == ASSUME LinkInv, NEW l \in Links, FrameDecided(l) PROVE LinkInv'
<1>1. /\ frame[l] # "none" /\ UNCHANGED <<row, pc, left, owned, stop, bothUp>>
      /\ \/ /\ tun' = [tun EXCEPT ![l] = "none"] /\ work' = work \o Callbacks({l}) /\ stray' = stray
         \/ /\ UNCHANGED <<tun, work>> /\ (stray' = stray \/ (Authorized(l) /\ Relay(l)))
  BY DEF FrameDecided, Enqueue
<1>2. stop # "starting" /\ stray = FALSE /\ tun \in [Links -> Tunnel]
      /\ \A k \in Links : tun[k] # "none" => stop = "no"
  BY <1>1 DEF LinkInv, Starting
<1>3. CASE UNCHANGED <<tun, work>> /\ (stray' = stray \/ (Authorized(l) /\ Relay(l)))
  <2>1. stray' = stray
    BY <1>2, <1>3 DEF Relay, Authorized
  <2> QED
    BY <1>1, <1>2, <1>3, <2>1, RestKeeps
<1>4. CASE tun' = [tun EXCEPT ![l] = "none"] /\ work' = work \o Callbacks({l}) /\ stray' = stray
  <2>1. PICK c \in Seq(Work) : c = Callbacks({l})
    BY CallbacksOf
  <2>2. /\ \A i \in 1..Len(c) : \E k \in {l} : c[i] = Callback(k)
        /\ \E i \in 1..Len(c) : c[i] = Callback(l)
    BY <2>1, CallbacksOf
  <2>3. \A i \in 1..Len(c) : c[i].job # "reconcile" => c[i].link \in Links
    BY <2>2 DEF Callback
  <2>4. /\ tun' \in [Links -> Tunnel] /\ tun'[l] = "none"
        /\ \A k \in Links : k # l => tun'[k] = tun[k]
    BY <1>2, <1>4 DEF Tunnel
  <2>5. stop' \in {"no", "waits", "over"} /\ stray' = FALSE /\ work' = work \o c
    BY <1>1, <1>2, <1>4, <2>1 DEF LinkInv
  <2>6. \A k \in Links : tun'[k] # "none" => stop' = "no"
    BY <1>1, <1>2, <2>4
  <2>7. \A k \in Links : tun'[k] = tun[k] \/ (tun'[k] = "none" /\ \E i \in 1..Len(c) : c[i] = Callback(k))
    BY <2>2, <2>4
  <2> QED
    BY <1>1, <1>2, <2>1, <2>3, <2>4, <2>5, <2>6, <2>7, OutsideKeeps
<1> QED
  BY <1>1, <1>3, <1>4

(* The start is over, and the stop.                                        *)
LEMMA LinksStartedKeeps == LinkInv /\ LinksStarted => LinkInv'
<1> SUFFICES ASSUME LinkInv, LinksStarted PROVE LinkInv'
  OBVIOUS
<1>1. /\ work = <<>> /\ stop = "starting" /\ stop' = "no"
      /\ UNCHANGED <<row, tun, work, pc, left, owned, stray>>
  BY DEF LinksStarted, manager, traffic
<1>2. pc = "begin" /\ left = {} /\ \A i \in 1..Len(work) : FALSE
  BY <1>1, EmptySeq DEF LinkInv, QueueFine
<1>3. ASSUME NEW l \in Links PROVE Follows(l, row[l], tun[l], work, left, pc, "no")
  <2>1. Follows(l, row[l], tun[l], work, left, pc, stop)
    BY DEF LinkInv
  <2> QED
    BY <1>1, <1>2, <2>1 DEF Follows, LinkPending, At
<1>4. \A l \in Links : tun[l] = "none"
  BY <1>1 DEF LinkInv
<1> QED
  BY <1>1, <1>3, <1>4 DEF LinkInv

LEMMA StopOverKeeps == LinkInv /\ StopOver => LinkInv'
<1> SUFFICES ASSUME LinkInv, StopOver PROVE LinkInv'
  OBVIOUS
<1>1. /\ stop = "waits" /\ stop' = "over" /\ owned' = {}
      /\ row' = [l \in Links |-> IF l \in owned THEN [row[l] EXCEPT !.state = "down"] ELSE row[l]]
      /\ UNCHANGED <<tun, work, pc, left, stray>>
  BY DEF StopOver, traffic
<1>2. \A l \in Links : tun[l] = "none" /\ row[l] \in Row
  BY <1>1 DEF LinkInv
<1>3. /\ row' \in [Links -> Row]
      /\ \A l \in Links : /\ row'[l].exists = row[l].exists /\ row'[l].transport = row[l].transport
                          /\ row'[l].state = "open" => row[l].state = "open"
  BY <1>1, <1>2 DEF Row
<1>4. ASSUME NEW l \in Links PROVE Follows(l, row'[l], tun[l], work, left, pc, "over")
  <2>1. Follows(l, row[l], tun[l], work, left, pc, stop)
    BY DEF LinkInv
  <2>2. ASSUME row'[l].exists, row'[l].transport = "tunnel",
               row'[l].state = "open" \/ At(l, work, left, pc, {"publish"})
        PROVE  LinkPending(l, work, left, pc, stop)
    BY <1>2, <1>3, <2>1, <2>2 DEF Follows
  <2> QED
    BY <1>1, <1>2, <2>2 DEF Follows, LinkPending
<1>5. ASSUME NEW l \in Links, pc # "begin", Here(work, left) = l PROVE Known(l, row'[l], tun[l], pc)
  <2>1. Known(l, row[l], tun[l], pc)
    BY <1>5 DEF LinkInv
  <2> QED
    BY <1>3, <2>1 DEF Known
<1> QED
  BY <1>1, <1>2, <1>3, <1>4, <1>5 DEF LinkInv

LEMMA LinkInitial == LinkInit => LinkInv
<1> SUFFICES ASSUME LinkInit PROVE LinkInv
  OBVIOUS
<1>1. PICK first : first = [job |-> "reconcile", link |-> 0]
  OBVIOUS
<1>2. first \in Work /\ first.job = "reconcile" /\ work = <<first>>
  BY <1>1 DEF LinkInit, Work
<1>3. /\ work \in Seq(Work) /\ work # <<>> /\ Head(work).job = "reconcile"
      /\ \A i \in 1..Len(work) : work[i].job = "reconcile"
  BY <1>2
<1>4. ASSUME NEW l \in Links PROVE Follows(l, row[l], tun[l], work, left, pc, stop)
  BY <1>3 DEF LinkInit, Follows, LinkPending
<1>5. QueueFine(work, left, pc)
  BY <1>3 DEF LinkInit, QueueFine
<1>6. Starting(bothUp, work, pc, frame)
  BY <1>3 DEF LinkInit, Starting
<1>7. row \in [Links -> Row] /\ tun \in [Links -> Tunnel] /\ pc = "begin"
      /\ left = {} /\ owned = {} /\ stop = "starting" /\ stray = FALSE
      /\ \A l \in Links : tun[l] = "none"
  BY DEF LinkInit, Tunnel
<1> QED
  BY <1>3, <1>4, <1>5, <1>6, <1>7 DEF LinkInv

LEMMA LinkStep == LinkInv /\ [LinkNext]_linkVars => LinkInv'
<1> SUFFICES ASSUME LinkInv, [LinkNext]_linkVars PROVE LinkInv'
  OBVIOUS
<1>1. CASE Piece
  BY <1>1, SkipKeeps, ReconcileKeeps, EnsureLinkKeeps, FindRowKeeps, DeleteLinkKeeps, CheckClosedKeeps,
     AuthorizeKeeps, AddressKeeps, SetTransportKeeps, PublishLinkKeeps, CreateTunnelKeeps,
     TunnelRejectedKeeps, VerifyTunnelKeeps, MarkDownKeeps DEF Piece
<1>2. CASE Listening
  BY <1>2, ListeningKeeps
<1>3. ASSUME NEW l \in Links, Unanswered(l) PROVE LinkInv'
  <2>1. /\ tun[l] # "none" /\ stop # "starting" /\ CloseTunnels({l}) /\ work' = work \o Callbacks({l})
        /\ UNCHANGED <<row, pc, left, owned, stop, stray>>
    BY <1>3 DEF Unanswered, Outside, Enqueue
  <2>2. Closes({l}) = {l}
    BY <2>1 DEF Closes
  <2>3. Callbacks({l}) \o <<>> = Callbacks({l})
    BY CallbacksOf, ConcatEmptySeq
  <2>4. stop' \in {"no", "waits", "over"}
    BY <2>1 DEF LinkInv
  <2> QED
    BY <2>1, <2>2, <2>3, <2>4, ClosingKeeps
<1>4. ASSUME NEW l \in Links, Expire(l) PROVE LinkInv'
  BY <1>4, RestKeeps DEF Expire, manager
<1>5. CASE MachineDown
  <2>1. /\ stop # "starting" /\ CloseTunnels(Links) /\ UNCHANGED <<row, pc, left, owned, stop, stray>>
        /\ work' = work \o (Callbacks(Closes(Links)) \o Changed)
    BY <1>5 DEF MachineDown, Outside, Enqueue
  <2>2. stop' \in {"no", "waits", "over"} /\ Links \in SUBSET Links
    BY <2>1 DEF LinkInv
  <2> QED
    BY <2>1, <2>2, ClosingKeeps
<1>6. CASE MachineUp
  BY <1>6, ChangedKeeps DEF MachineUp, Enqueue, traffic
<1>7. CASE VpnChange
  BY <1>7, ChangedKeeps DEF VpnChange, Outside, Enqueue, traffic
<1>8. CASE EnvironmentChange
  BY <1>8, RestKeeps DEF EnvironmentChange, traffic, manager
<1>9. CASE Telemetry
  <2>1. stop # "starting"
    BY <1>9 DEF Telemetry, LinkInv, Starting
  <2> QED
    BY <1>9, <2>1, ChangedKeeps DEF Telemetry, Enqueue, traffic
<1>10. ASSUME NEW l \in Links, NEW job \in {"ensure", "delete"}, Request(job, l) PROVE LinkInv'
  <2>1. PICK w \in Work : w = [job |-> job, link |-> l]
    BY DEF Work
  <2> QED
    BY <1>10, <2>1, QueuedKeeps DEF Request, Outside, Enqueue, traffic
<1>11. CASE LinksStarted
  BY <1>11, LinksStartedKeeps
<1>12. CASE StopLinks
  <2>1. /\ stop = "no" /\ stop' = "waits" /\ CloseTunnels(owned) /\ UNCHANGED <<row, pc, left, owned, stray>>
        /\ work' = work \o Callbacks(Closes(owned))
    BY <1>12 DEF StopLinks, Enqueue
  <2>2. owned \in SUBSET Links
    BY DEF LinkInv
  <2>3. Callbacks(Closes(owned)) \o <<>> = Callbacks(Closes(owned))
    BY <2>2, ClosesQueued, ConcatEmptySeq
  <2> QED
    BY <2>1, <2>2, <2>3, ClosingKeeps
<1>13. CASE StopOver
  BY <1>13, StopOverKeeps
<1>14. CASE UNCHANGED linkVars
  BY <1>14, RestKeeps DEF linkVars, manager, traffic
<1> QED
  BY <1>1, <1>2, <1>3, <1>4, <1>5, <1>6, <1>7, <1>8, <1>9, <1>10, <1>11, <1>12, <1>13, <1>14,
     DataFrameKeeps, FrameDecidedKeeps DEF LinkNext

(* What the invariant says of a manager that has nothing left to do.       *)
LEMMA NothingPending ==
  ASSUME LinkInv
  PROVE  StateMatchesTunnel
<1> SUFFICES ASSUME work = <<>>, stop \in {"no", "over"}, NEW l \in Links
             PROVE  /\ tun[l] = "open" => row[l] = [exists |-> TRUE, state |-> "open", transport |-> "tunnel"]
                    /\ row[l].exists /\ row[l].state = "open" /\ row[l].transport = "tunnel" => tun[l] = "open"
  BY DEF StateMatchesTunnel
<1>1. Follows(l, row[l], tun[l], work, left, pc, stop) /\ row[l] \in Row
  BY DEF LinkInv
<1>2. ~LinkPending(l, work, left, pc, stop)
  BY EmptySeq DEF LinkPending, At
<1>3. tun[l] = "open" => row[l].exists /\ row[l].transport = "tunnel" /\ row[l].state = "open"
  BY <1>1 DEF Follows, At
<1>4. tun[l] = "open" => row[l] = [exists |-> TRUE, state |-> "open", transport |-> "tunnel"]
  BY <1>1, <1>3 DEF Row
<1> QED
  BY <1>1, <1>2, <1>4 DEF Follows

(* A stored link over a tunnel says what its tunnel is once nothing is     *)
(* queued: whatever callbacks, reconciliations, requests and the stop do   *)
(* between any two awaits of the piece in progress, for any number of      *)
(* links.                                                                  *)
THEOREM StateMatchesKept == LinkSpec => []StateMatchesTunnel
<1> QED
  BY LinkInitial, LinkStep, NothingPending, PTL DEF LinkSpec

(* No data is relayed for a deleted link, however old the cached decision  *)
(* is and wherever the authorization of a frame was interrupted.           *)
THEOREM DeletedSilentKept == LinkSpec => []DeletedSilent
<1>1. LinkInv => DeletedSilent
  BY DEF LinkInv, DeletedSilent
<1> QED
  BY <1>1, LinkInitial, LinkStep, PTL DEF LinkSpec

-----------------------------------------------------------------------------
(* The rest of the types: what the manager waits for is never more than is *)
(* queued.                                                                 *)

(* A queue that grows keeps the pieces that are waited for, one that loses *)
(* its first piece loses one of them.                                      *)
LEMMA WaitsGrow ==
  ASSUME work \in Seq(Work), waits \in 0..Len(work), NEW x \in Seq(Work),
         \/ work' = work \o x /\ waits' = waits
         \/ work # <<>> /\ work' = Tail(work) \o x /\ Counted
  PROVE  waits' \in 0..Len(work')
<1>1. PICK n \in Nat, k \in Nat : n = Len(work) /\ k = Len(x)
  OBVIOUS
<1>2. CASE work' = work \o x /\ waits' = waits
  <2>1. Len(work') = n + k
    BY <1>1, <1>2, QueueGrows
  <2> QED
    BY <1>1, <1>2, <2>1
<1>3. CASE work # <<>> /\ work' = Tail(work) \o x /\ Counted
  <2>1. Tail(work) \in Seq(Work) /\ Len(Tail(work)) = n - 1 /\ n >= 1
    BY <1>1, <1>3
  <2>2. Len(work') = (n - 1) + k
    BY <1>1, <1>3, <2>1, QueueGrows
  <2>3. waits' = IF waits > 0 THEN waits - 1 ELSE 0
    BY <1>3 DEF Counted
  <2> QED
    BY <1>1, <2>1, <2>2, <2>3
<1> QED
  BY <1>2, <1>3

LEMMA WaitsStay ==
  ASSUME work \in Seq(Work), waits \in 0..Len(work), UNCHANGED <<work, waits>>
  PROVE  waits' \in 0..Len(work')
OBVIOUS

(* A piece that goes on or is done.                                        *)
LEMMA PieceWaits ==
  ASSUME LinkInv, waits \in 0..Len(work), work # <<>>, NEW ls \in SUBSET Links,
         GoOn(pc', ls) \/ Done(ls)
  PROVE  waits' \in 0..Len(work')
<1>1. PICK x \in Seq(Work) : x = Callbacks(Closes(ls))
  BY ClosesQueued
<1>2. work \in Seq(Work)
  BY DEF LinkInv
<1>3. \/ work' = work \o x /\ waits' = waits
      \/ work' = Tail(work) \o x /\ Counted
  BY <1>1 DEF GoOn, Done, Enqueue
<1> QED
  BY <1>2, <1>3, WaitsGrow

(* The pieces: each ends, or goes on, with the tunnels it closed.          *)
LEMMA PiecesWait ==
  ASSUME LinkInv, waits \in 0..Len(work), Piece
  PROVE  waits' \in 0..Len(work')
<1>1. CASE Skip
  <2>1. work' = Tail(work) /\ Counted /\ work # <<>> /\ work \in Seq(Work)
    BY <1>1 DEF Skip, AtStep, LinkInv
  <2>2. Tail(work) \in Seq(Work)
    BY <2>1
  <2>3. work' = Tail(work) \o <<>>
    BY <2>1, <2>2, ConcatEmptySeq
  <2>4. <<>> \in Seq(Work)
    OBVIOUS
  <2> QED
    BY <2>1, <2>3, <2>4, WaitsGrow
<1>2. CASE ReconcileLinks
  <2>1. PICK ls \in SUBSET Links : ls = owned \ {l \in Links : row[l].exists}
    BY DEF LinkInv
  <2>2. PICK x \in Seq(Work) : x = Callbacks(Closes(ls))
    BY ClosesQueued
  <2>3. /\ work # <<>> /\ work \in Seq(Work)
        /\ \/ work' = work \o x /\ waits' = waits
           \/ work' = Tail(work) \o x /\ Counted
    BY <1>2, <2>1, <2>2 DEF ReconcileLinks, AtStep, Enqueue, LinkInv
  <2> QED
    BY <2>3, WaitsGrow
<1>3. CASE EnsureLink \/ FindRow \/ CheckClosed \/ SetTransport \/ PublishLink \/ CreateTunnel
           \/ TunnelRejected \/ MarkDown
  <2>1. work # <<>> /\ (GoOn(pc', {}) \/ Done({}))
    BY <1>3 DEF EnsureLink, FindRow, CheckClosed, SetTransport, PublishLink, CreateTunnel,
                TunnelRejected, MarkDown, AtStep, GoOn
  <2> QED
    BY <2>1, PieceWaits
<1>4. CASE DeleteLink \/ Authorize \/ Address \/ VerifyTunnel
  <2>1. work # <<>> /\ pc # "begin"
    BY <1>4 DEF DeleteLink, Authorize, Address, VerifyTunnel, AtStep
  <2>2. Link \in Links
    BY <2>1, PieceLink
  <2>3. \E ls \in {{}, {Link}} : GoOn(pc', ls) \/ Done(ls)
    BY <1>4 DEF DeleteLink, Authorize, Address, VerifyTunnel, GoOn
  <2> QED
    BY <2>1, <2>2, <2>3, PieceWaits
<1> QED
  BY <1>1, <1>2, <1>3, <1>4 DEF Piece

(* The decisions and the frames that are kept per link.                    *)
Decisions == {"none", "yes", "no"}
Frames == {"none", "asking", "lost"}

LEMMA TrafficTyped ==
  ASSUME LinkTypeOK, LinkNext
  PROVE  cache' \in [Links -> Decisions] /\ frame' \in [Links -> Frames] /\ moves' \in 0..Moves
<1>1. /\ cache \in [Links -> Decisions] /\ frame \in [Links -> Frames] /\ moves \in 0..Moves
      /\ Moves \in Nat
  BY LinkAssumption DEF LinkTypeOK, Decisions, Frames
<1>2. UNCHANGED moves \/ Outside => moves' \in 0..Moves
  BY <1>1 DEF Outside
<1>3. ASSUME NEW ls, CloseTunnels(ls) PROVE frame' \in [Links -> Frames]
  BY <1>1, <1>3 DEF CloseTunnels, Frames
<1>4. Untouched => frame' \in [Links -> Frames]
  BY <1>1 DEF Untouched
<1>5. ASSUME NEW l, NEW d \in Decisions, cache' = [cache EXCEPT ![l] = d]
      PROVE  cache' \in [Links -> Decisions]
  BY <1>1, <1>5
<1>6. UNCHANGED cache => cache' \in [Links -> Decisions]
  BY <1>1
<1>7. CASE Piece
  <2>1. moves' = moves
    BY <1>7 DEF Piece, Skip, ReconcileLinks, EnsureLink, FindRow, DeleteLink, CheckClosed,
       Authorize, Address, SetTransport, PublishLink, CreateTunnel, TunnelRejected,
       VerifyTunnel, MarkDown, Surroundings
  <2>2. cache' = cache \/ cache' = [cache EXCEPT ![Link] = "none"]
    BY <1>7 DEF Piece, Skip, ReconcileLinks, EnsureLink, FindRow, DeleteLink, CheckClosed,
       Authorize, Address, SetTransport, PublishLink, CreateTunnel, TunnelRejected,
       VerifyTunnel, MarkDown, Surroundings
  <2>3. Untouched \/ frame' = frame \/ \E ls : CloseTunnels(ls)
    BY <1>7 DEF Piece, Skip, ReconcileLinks, EnsureLink, FindRow, DeleteLink, CheckClosed,
       Authorize, Address, SetTransport, PublishLink, CreateTunnel, TunnelRejected,
       VerifyTunnel, MarkDown
  <2>4. "none" \in Decisions
    BY DEF Decisions
  <2> QED
    BY <1>1, <1>2, <1>3, <1>4, <1>5, <1>6, <2>1, <2>2, <2>3, <2>4
<1>8. CASE Listening
  <2>1. PICK d \in Decisions : cache' = [cache EXCEPT ![Link] = d]
    BY <1>8 DEF Listening, Decisions
  <2>2. UNCHANGED frame \/ \E ls : CloseTunnels(ls)
    BY <1>8 DEF Listening
  <2>3. UNCHANGED moves \/ Outside
    BY <1>8 DEF Listening
  <2> QED
    BY <1>1, <1>2, <1>3, <1>5, <2>1, <2>2, <2>3
<1>9. ASSUME NEW l \in Links, Unanswered(l) PROVE cache' = cache /\ Outside /\ CloseTunnels({l})
  BY <1>9 DEF Unanswered
<1>10. ASSUME NEW l \in Links, DataFrame(l)
       PROVE  /\ UNCHANGED <<cache, moves>>
              /\ frame' = frame \/ CloseTunnels({l}) \/ frame' = [frame EXCEPT ![l] = "asking"]
  BY <1>10 DEF DataFrame
<1>11. ASSUME NEW l \in Links, FrameDecided(l)
       PROVE  /\ moves' = moves /\ frame' = [frame EXCEPT ![l] = "none"]
              /\ \E d \in Decisions : cache' = [cache EXCEPT ![l] = d]
  BY <1>11 DEF FrameDecided, Decisions
<1>12. ASSUME NEW l \in Links, Expire(l)
       PROVE  UNCHANGED <<moves, frame>> /\ cache' = [cache EXCEPT ![l] = "none"]
  BY <1>12 DEF Expire, traffic
<1>13. ASSUME NEW l \in Links, NEW new \in Frames, frame' = [frame EXCEPT ![l] = new]
       PROVE  frame' \in [Links -> Frames]
  BY <1>1, <1>13
<1>14. CASE MachineDown \/ StopLinks
  <2>1. cache' = cache /\ Outside /\ \E ls : CloseTunnels(ls)
    BY <1>14 DEF MachineDown, StopLinks
  <2> QED
    BY <1>2, <1>3, <1>6, <2>1
<1>15. CASE \/ MachineUp \/ VpnChange \/ EnvironmentChange \/ Telemetry \/ LinksStarted \/ StopOver
            \/ \E l \in Links, job \in {"ensure", "delete"} : Request(job, l)
  <2>1. UNCHANGED <<cache, frame>> /\ (UNCHANGED moves \/ Outside)
    BY <1>15 DEF MachineUp, VpnChange, EnvironmentChange, Telemetry, LinksStarted, StopOver,
                 Request, traffic
  <2> QED
    BY <1>1, <1>2, <2>1
<1>16. {"none", "asking"} \subseteq Frames /\ "none" \in Decisions
  BY DEF Frames, Decisions
<1>17. ASSUME NEW l \in Links, Unanswered(l) \/ DataFrame(l) \/ FrameDecided(l) \/ Expire(l)
       PROVE  cache' \in [Links -> Decisions] /\ frame' \in [Links -> Frames] /\ moves' \in 0..Moves
  <2>1. CASE Unanswered(l)
    BY <1>2, <1>3, <1>6, <1>9, <2>1
  <2>2. CASE DataFrame(l)
    BY <1>1, <1>3, <1>10, <1>13, <1>16, <2>2
  <2>3. CASE FrameDecided(l)
    BY <1>1, <1>5, <1>11, <1>13, <1>16, <2>3
  <2>4. CASE Expire(l)
    BY <1>1, <1>5, <1>12, <1>16, <2>4
  <2> QED
    BY <1>17, <2>1, <2>2, <2>3, <2>4
<1> QED
  BY <1>7, <1>8, <1>14, <1>15, <1>17 DEF LinkNext

(* What happens outside of the pieces only appends to the queue; stop()    *)
(* waits for all of it.                                                    *)
LEMMA WaitsTyped ==
  ASSUME LinkInv, LinkInv', LinkTypeOK, LinkNext
  PROVE  waits' \in 0..Len(work')
<1>1. work \in Seq(Work) /\ work' \in Seq(Work) /\ waits \in 0..Len(work)
  BY DEF LinkTypeOK, LinkInv
<1>2. ASSUME NEW ls \in SUBSET Links
      PROVE  Callbacks(ls) \in Seq(Work) /\ Callbacks(Closes(ls)) \in Seq(Work)
  BY CallbacksOf, ClosesQueued
<1>3. Changed \in Seq(Work)
  <2>1. PICK w \in Work : w = [job |-> "reconcile", link |-> 0]
    BY DEF Work
  <2>2. Changed = <<>> \/ Changed = <<w>>
    BY <2>1 DEF Changed
  <2>3. <<>> \in Seq(Work) /\ <<w>> \in Seq(Work)
    BY <2>1
  <2> QED
    BY <2>2, <2>3
<1>4. CASE Listening
  <2>1. work # <<>> /\ pc # "begin"
    BY <1>4 DEF Listening, AtStep
  <2>2. Link \in Links
    BY <2>1, PieceLink
  <2>3. \E ls \in {{}, {Link}} : GoOn(pc', ls)
    BY <1>4 DEF Listening, GoOn
  <2> QED
    BY <1>1, <2>1, <2>2, <2>3, PieceWaits
<1>5. ASSUME NEW l \in Links, Unanswered(l) \/ DataFrame(l) \/ FrameDecided(l) \/ Expire(l)
      PROVE  waits' \in 0..Len(work')
  <2>1. PICK x \in Seq(Work) : x = Callbacks({l})
    BY <1>2
  <2>2. waits' = waits /\ (work' = work \/ work' = work \o x)
    BY <1>5, <2>1 DEF Unanswered, DataFrame, FrameDecided, Expire, Enqueue, manager
  <2> QED
    BY <1>1, <2>2, WaitsGrow
<1>6. CASE MachineDown
  <2>1. PICK c \in Seq(Work), d \in Seq(Work) : c = Callbacks(Closes(Links)) /\ d = Changed
    BY <1>2, <1>3
  <2>2. PICK x \in Seq(Work) : x = c \o d
    BY QueueGrows
  <2> QED
    BY <1>1, <1>6, <2>1, <2>2, WaitsGrow DEF MachineDown, Enqueue
<1>7. CASE MachineUp \/ VpnChange \/ Telemetry
  <2>1. work' = work \o Changed /\ waits' = waits
    BY <1>7 DEF MachineUp, VpnChange, Telemetry, Enqueue
  <2> QED
    BY <1>1, <1>3, <2>1, WaitsGrow
<1>8. ASSUME NEW l \in Links, NEW job \in {"ensure", "delete"}, Request(job, l)
      PROVE  waits' \in 0..Len(work')
  <2>1. PICK w \in Work : w = [job |-> job, link |-> l]
    BY DEF Work
  <2>2. <<w>> \in Seq(Work)
    BY <2>1
  <2>3. work' = work \o <<w>> /\ waits' = waits
    BY <1>8, <2>1 DEF Request, Enqueue
  <2> QED
    BY <1>1, <2>2, <2>3, WaitsGrow
<1>9. CASE EnvironmentChange \/ LinksStarted \/ StopOver
  BY <1>1, <1>9, WaitsStay DEF EnvironmentChange, LinksStarted, StopOver, manager
<1>10. CASE StopLinks
  BY <1>1, <1>10 DEF StopLinks
<1> QED
  BY <1>1, <1>4, <1>5, <1>6, <1>7, <1>8, <1>9, <1>10, PiecesWait DEF LinkNext

(* The manager's variables keep their types: in particular stop() never    *)
(* waits for more pieces than are queued, and so ends with them.            *)
THEOREM LinkTypeCorrect == LinkSpec => []LinkTypeOK
<1>1. LinkInit => LinkTypeOK
  <2> SUFFICES ASSUME LinkInit PROVE LinkTypeOK
    OBVIOUS
  <2>1. LinkInv /\ waits = 0 /\ moves = Moves
    BY LinkInitial DEF LinkInit
  <2>2. Len(work) \in Nat /\ Moves \in Nat
    BY <2>1, LinkAssumption DEF LinkInv
  <2>3. /\ cache \in [Links -> {"none", "yes", "no"}]
        /\ frame \in [Links -> {"none", "asking", "lost"}]
    BY DEF LinkInit
  <2> QED
    BY <2>1, <2>2, <2>3 DEF LinkInv, LinkTypeOK
<1>2. LinkTypeOK /\ LinkInv /\ LinkInv' /\ [LinkNext]_linkVars => LinkTypeOK'
  <2> SUFFICES ASSUME LinkTypeOK, LinkInv, LinkInv', [LinkNext]_linkVars PROVE LinkTypeOK'
    OBVIOUS
  <2>1. CASE LinkNext
    <3>1. waits' \in 0..Len(work')
      BY <2>1, WaitsTyped
    <3>2. /\ cache' \in [Links -> {"none", "yes", "no"}]
          /\ frame' \in [Links -> {"none", "asking", "lost"}] /\ moves' \in 0..Moves
      BY <2>1, TrafficTyped DEF Decisions, Frames
    <3> QED
      BY <3>1, <3>2 DEF LinkInv, LinkTypeOK
  <2>2. CASE UNCHANGED linkVars
    BY <2>2 DEF linkVars, manager, traffic, LinkTypeOK
  <2> QED
    BY <2>1, <2>2
<1> QED
  BY <1>1, <1>2, LinkInitial, LinkStep, PTL DEF LinkSpec
=============================================================================
