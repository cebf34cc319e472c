--------------------------- MODULE TurnQueueProofs ---------------------------
(***************************************************************************)
(* Theorems about what the turn manager keeps of the user's questions and  *)
(* of its turns: the durable queue fits the messages, an input is stored   *)
(* once, a turn is answered once and its tools are taken back, the         *)
(* conversation's slot is the abstract one of ConversationSlot, a paid     *)
(* chat has one execution at a time, a free one where nothing is sent now, *)
(* and no question is dropped, in an undisturbed conversation and by "send *)
(* now" in a free one where nothing fails.                                 *)
(***************************************************************************)
EXTENDS TurnManagerProofs

-----------------------------------------------------------------------------
(* The queue and the messages.                                             *)

Msgs(q) == {q[i].msg : i \in DOMAIN q}

Distinct(q) == \A i, j \in DOMAIN q : q[i].msg = q[j].msg => i = j

Stored(d) == d.shown \cup d.hidden

(* The rows of the queue are the rows of stored messages, each once.       *)
RowsMatch(d) ==
  /\ Distinct(d.rows) /\ d.hidden \cap d.shown = {}
  /\ d.hidden \subseteq Msgs(d.rows) /\ Msgs(d.rows) \subseteq Stored(d)

(* Messages share no input with each other, nor with what is not sent yet. *)
Apart(S, unsent) ==
  /\ \A m \in S : m # <<>> /\ ToSet(m) \cap unsent = {}
  /\ \A m, n \in S : ToSet(m) \cap ToSet(n) # {} => m = n

(* QueueMatchesMessages with what makes it inductive: a message that is    *)
(* made of two others must not be stored already.                          *)
StoreInv == RowsMatch(db) /\ Apart(Stored(db), fresh)

(* What a sequence of rows holds after one of them is removed.             *)
LEMMA RemoveAtRows ==
  ASSUME NEW S, NEW q \in Seq(S), NEW i \in DOMAIN q, Distinct(q)
  PROVE  /\ Distinct(RemoveAt(q, i))
         /\ Msgs(RemoveAt(q, i)) = Msgs(q) \ {q[i].msg}
<1> DEFINE n == Len(q)
           front == SubSeq(q, 1, i - 1)
           back == SubSeq(q, i + 1, n)
           r == RemoveAt(q, i)
<1>1. n \in Nat /\ DOMAIN q = 1..n /\ i \in 1..n /\ \A k \in 1..n : q[k] \in S
  BY LenProperties
<1>2. front \in Seq(S) /\ Len(front) = i - 1 /\ \A k \in 1..(i - 1) : front[k] = q[k]
  <2>1. \A k \in 1..(i - 1) : q[k] \in S
    BY <1>1
  <2>2. \A k \in 1..(i - 1) : 1 + k - 1 = k
    BY <1>1
  <2> HIDE DEF n
  <2> QED
    BY <1>1, <2>1, <2>2, SubSeqProperties
<1>3. back \in Seq(S) /\ Len(back) = n - i /\ \A k \in 1..(n - i) : back[k] = q[i + k]
  <2>1. \A k \in (i + 1)..n : q[k] \in S
    BY <1>1
  <2>2. \A k \in 1..(n - i) : (i + 1) + k - 1 = i + k
    BY <1>1
  <2>3. n - (i + 1) + 1 = n - i
    BY <1>1
  <2> HIDE DEF n
  <2> QED
    BY <1>1, <2>1, <2>2, <2>3, SubSeqProperties
<1>4. r = front \o back
  BY DEF RemoveAt
<1> HIDE DEF n, front, back, r
<1>5. /\ r \in Seq(S) /\ Len(r) = n - 1
      /\ \A k \in 1..(n - 1) : r[k] = IF k <= i - 1 THEN front[k] ELSE back[k - (i - 1)]
  <2>1. /\ r \in Seq(S) /\ Len(r) = Len(front) + Len(back)
        /\ \A k \in 1..(Len(front) + Len(back)) :
             r[k] = IF k <= Len(front) THEN front[k] ELSE back[k - Len(front)]
    BY <1>2, <1>3, <1>4, ConcatProperties
  <2>2. Len(front) = i - 1 /\ Len(front) + Len(back) = n - 1
    BY <1>1, <1>2, <1>3
  <2> QED
    BY <2>1, <2>2
<1> DEFINE at(k) == IF k < i THEN k ELSE k + 1
<1>6. ASSUME NEW k \in 1..(n - 1) PROVE at(k) \in 1..n /\ at(k) # i /\ r[k] = q[at(k)]
  <2>1. k < i => k <= i - 1 /\ k \in 1..(i - 1)
    BY <1>1
  <2>2. ~(k < i) => ~(k <= i - 1) /\ k - (i - 1) \in 1..(n - i) /\ i + (k - (i - 1)) = k + 1
    BY <1>1
  <2>3. r[k] = q[at(k)]
    BY <1>2, <1>3, <1>5, <2>1, <2>2
  <2> QED
    BY <1>1, <2>3
<1>7. DOMAIN r = 1..(n - 1)
  BY <1>5, LenProperties
<1>8. \A k, l \in 1..(n - 1) : at(k) = at(l) => k = l
  BY <1>1
<1>9. \A j \in 1..n : j # i => \E k \in 1..(n - 1) : at(k) = j
  <2> SUFFICES ASSUME NEW j \in 1..n, j # i PROVE \E k \in 1..(n - 1) : at(k) = j
    OBVIOUS
  <2>1. CASE j < i
    BY <1>1, <2>1
  <2>2. CASE j > i
    <3>1. j - 1 \in 1..(n - 1) /\ at(j - 1) = j
      BY <1>1, <2>2
    <3> QED
      BY <3>1
  <2> QED
    BY <1>1, <2>1, <2>2
<1> HIDE DEF at
<1>10. Distinct(r)
  BY <1>1, <1>6, <1>7, <1>8 DEF Distinct
<1>11. Msgs(r) \subseteq Msgs(q) \ {q[i].msg}
  BY <1>1, <1>6, <1>7 DEF Distinct, Msgs
<1>12. Msgs(q) \ {q[i].msg} \subseteq Msgs(r)
  <2>1. \A j \in 1..n : j # i => \E k \in DOMAIN r : r[k] = q[j]
    BY <1>6, <1>7, <1>9
  <2> QED
    BY <1>1, <2>1 DEF Msgs
<1> QED
  BY <1>10, <1>11, <1>12 DEF r

(* A row that is appended adds its message.                                *)
LEMMA AppendRows ==
  ASSUME NEW S, NEW q \in Seq(S), NEW x \in S, Distinct(q), x.msg \notin Msgs(q)
  PROVE  Distinct(Append(q, x)) /\ Msgs(Append(q, x)) = Msgs(q) \cup {x.msg}
<1> DEFINE r == Append(q, x)
           n == Len(q)
<1>1. n \in Nat /\ DOMAIN q = 1..n
  BY LenProperties
<1>2. /\ r \in Seq(S) /\ Len(r) = n + 1 /\ r[n + 1] = x
      /\ \A i \in 1..n : r[i] = q[i]
  BY AppendProperties
<1> HIDE DEF r, n
<1>3. DOMAIN r = 1..(n + 1)
  BY <1>2, LenProperties
<1>4. \A i \in DOMAIN r : (i \in DOMAIN q /\ r[i] = q[i]) \/ (i = n + 1 /\ r[i] = x)
  BY <1>1, <1>2, <1>3
<1>5. n + 1 \in DOMAIN r /\ n + 1 \notin DOMAIN q /\ DOMAIN q \subseteq DOMAIN r
  BY <1>1, <1>3
<1>6. Distinct(r)
  BY <1>4, <1>5 DEF Distinct, Msgs
<1>7. Msgs(r) = Msgs(q) \cup {x.msg}
  BY <1>2, <1>1, <1>4, <1>5 DEF Msgs
<1> QED
  BY <1>6, <1>7 DEF r

(* The same for a row that is put in front.                               *)
LEMMA PrependRows ==
  ASSUME NEW S, NEW q \in Seq(S), NEW x \in S, Distinct(q), x.msg \notin Msgs(q)
  PROVE  Distinct(<<x>> \o q) /\ Msgs(<<x>> \o q) = Msgs(q) \cup {x.msg}
<1> DEFINE r == <<x>> \o q
           n == Len(q)
<1>1. n \in Nat /\ DOMAIN q = 1..n
  BY LenProperties
<1>2. <<x>> \in Seq(S) /\ Len(<<x>>) = 1 /\ <<x>>[1] = x
  OBVIOUS
<1>3. /\ r \in Seq(S) /\ Len(r) = 1 + n
      /\ \A i \in 1..(1 + n) : r[i] = IF i <= 1 THEN <<x>>[i] ELSE q[i - 1]
  BY <1>2, ConcatProperties
<1> HIDE DEF r, n
<1>4. DOMAIN r = 1..(1 + n)
  BY <1>3, LenProperties
<1>5. r[1] = x /\ 1 \in DOMAIN r
  BY <1>1, <1>2, <1>3, <1>4
<1>6. \A i \in DOMAIN r : i # 1 => i - 1 \in DOMAIN q /\ r[i] = q[i - 1]
  BY <1>1, <1>3, <1>4
<1>7. \A i \in DOMAIN q : i + 1 \in DOMAIN r /\ i + 1 # 1 /\ r[i + 1] = q[i]
  BY <1>1, <1>3, <1>4
<1>8. Distinct(r)
  <2> SUFFICES ASSUME NEW i \in DOMAIN r, NEW j \in DOMAIN r, r[i].msg = r[j].msg
               PROVE  i = j
    BY DEF Distinct
  <2>1. CASE i = 1 /\ j # 1
    BY <2>1, <1>5, <1>6 DEF Msgs
  <2>2. CASE i # 1 /\ j = 1
    BY <2>2, <1>5, <1>6 DEF Msgs
  <2>3. CASE i # 1 /\ j # 1
    <3>1. i - 1 = j - 1
      BY <2>3, <1>6 DEF Distinct
    <3> QED
      BY <3>1, <1>1, <1>4
  <2> QED
    BY <2>1, <2>2, <2>3
<1>9. Msgs(r) \subseteq Msgs(q) \cup {x.msg}
  BY <1>5, <1>6 DEF Msgs
<1>10. Msgs(q) \cup {x.msg} \subseteq Msgs(r)
  BY <1>5, <1>7 DEF Msgs
<1> QED
  BY <1>8, <1>9, <1>10 DEF r

-----------------------------------------------------------------------------
(* The repository's operations keep the rows and the messages together.    *)

(* The fields of a store after one of them was changed.                    *)
LEMMA StoreFields ==
  ASSUME NEW d \in Store
  PROVE  /\ d.rows \in Seq(Row) /\ \A i \in DOMAIN d.rows : d.rows[i].msg \in Message
         /\ d.shown \subseteq Message /\ d.hidden \subseteq Message
         /\ \A m : HasRow(d, m) <=> m \in Msgs(d.rows)
         /\ \A m : HasMessage(d, m) <=> m \in Stored(d)
<1>1. \A i \in DOMAIN d.rows : d.rows[i].msg \in Message
  BY RowType
<1> QED
  BY <1>1 DEF Store, HasRow, Msgs, HasMessage, Stored

(* A deleted message takes its row with it.                                *)
LEMMA DeleteKeeps ==
  ASSUME NEW d \in Store, RowsMatch(d), NEW m
  PROVE  /\ RowsMatch(DeleteMessage(d, m))
         /\ Stored(DeleteMessage(d, m)) = Stored(d) \ {m}
         /\ Msgs(DeleteMessage(d, m).rows) = Msgs(d.rows) \ {m}
<1> DEFINE e == DeleteMessage(d, m)
<1>1. e.shown = d.shown \ {m} /\ e.hidden = d.hidden \ {m}
  BY DEF DeleteMessage, Store
<1>2. Distinct(e.rows) /\ Msgs(e.rows) = Msgs(d.rows) \ {m}
  <2>1. CASE HasRow(d, m)
    <3> DEFINE k == CHOOSE i \in DOMAIN d.rows : d.rows[i].msg = m
    <3>1. k \in DOMAIN d.rows /\ d.rows[k].msg = m
      BY <2>1 DEF HasRow
    <3>2. e.rows = RemoveAt(d.rows, k)
      BY <2>1 DEF DeleteMessage, Store
    <3> HIDE DEF k
    <3> QED
      BY <3>1, <3>2, RemoveAtRows, StoreFields DEF RowsMatch
  <2>2. CASE ~HasRow(d, m)
    <3>1. e.rows = d.rows
      BY <2>2 DEF DeleteMessage, Store
    <3> QED
      BY <2>2, <3>1, StoreFields DEF RowsMatch
  <2> QED
    BY <2>1, <2>2
<1> HIDE DEF e
<1> QED
  BY <1>1, <1>2 DEF RowsMatch, Stored, e

(* A published message needs no row.                                       *)
LEMMA AddKeeps ==
  ASSUME NEW d \in Store, RowsMatch(d), NEW m, m \notin d.hidden
  PROVE  /\ RowsMatch(AddMessage(d, m))
         /\ Stored(AddMessage(d, m)) = Stored(d) \cup {m}
         /\ AddMessage(d, m).rows = d.rows
<1>1. /\ AddMessage(d, m).shown = d.shown \cup {m} /\ AddMessage(d, m).hidden = d.hidden
      /\ AddMessage(d, m).rows = d.rows
  BY DEF AddMessage, Store
<1> QED
  BY <1>1 DEF RowsMatch, Stored

(* A stored message may get a row, and may be hidden with it.              *)
LEMMA EnqueueKeeps ==
  ASSUME NEW d \in Store, RowsMatch(d), NEW m \in Message, HasMessage(d, m), NEW hide \in BOOLEAN
  PROVE  /\ RowsMatch(EnqueueTurn(d, m, hide))
         /\ Stored(EnqueueTurn(d, m, hide)) = Stored(d)
         /\ Msgs(EnqueueTurn(d, m, hide).rows) = Msgs(d.rows) \cup {m}
<1> DEFINE e == EnqueueTurn(d, m, hide)
           x == [msg |-> m, failed |-> FALSE]
<1>1. CASE HasRow(d, m)
  BY <1>1, StoreFields DEF EnqueueTurn
<1>2. CASE ~HasRow(d, m)
  <2>1. /\ e.rows = Append(d.rows, x)
        /\ e.shown = IF hide THEN d.shown \ {m} ELSE d.shown
        /\ e.hidden = IF hide THEN d.hidden \cup {m} ELSE d.hidden
    BY <1>2 DEF EnqueueTurn, Store
  <2>2. x \in Row /\ x.msg = m
    BY DEF Row
  <2> HIDE DEF e, x
  <2>3. Distinct(e.rows) /\ Msgs(e.rows) = Msgs(d.rows) \cup {m}
    BY <1>2, <2>1, <2>2, AppendRows, StoreFields DEF RowsMatch
  <2>4. m \in Stored(d)
    BY StoreFields
  <2> QED
    BY <2>1, <2>3, <2>4 DEF RowsMatch, Stored, e
<1> QED
  BY <1>1, <1>2

(* Rows that keep their messages and their places.                         *)
LEMMA SameRows ==
  ASSUME NEW d \in Store, RowsMatch(d), NEW e, e.shown = d.shown, e.hidden = d.hidden,
         DOMAIN e.rows = DOMAIN d.rows, \A i \in DOMAIN d.rows : e.rows[i].msg = d.rows[i].msg
  PROVE  RowsMatch(e) /\ Stored(e) = Stored(d) /\ Msgs(e.rows) = Msgs(d.rows)
<1>1. Msgs(e.rows) = Msgs(d.rows)
  BY DEF Msgs
<1>2. Distinct(e.rows)
  BY DEF RowsMatch, Distinct
<1> QED
  BY <1>1, <1>2 DEF RowsMatch, Stored

(* Marking a row moves nothing.                                            *)
LEMMA MarkKeeps ==
  ASSUME NEW d \in Store, RowsMatch(d), NEW m
  PROVE  /\ RowsMatch(MarkQueuedTurnFailed(d, m))
         /\ Stored(MarkQueuedTurnFailed(d, m)) = Stored(d)
         /\ Msgs(MarkQueuedTurnFailed(d, m).rows) = Msgs(d.rows)
<1> DEFINE e == MarkQueuedTurnFailed(d, m)
<1>1. e.shown = d.shown /\ e.hidden = d.hidden
  BY DEF MarkQueuedTurnFailed, Store
<1>2. e.rows = [i \in DOMAIN d.rows |->
        IF d.rows[i].msg = m THEN [d.rows[i] EXCEPT !.failed = TRUE] ELSE d.rows[i]]
  BY DEF MarkQueuedTurnFailed, Store
<1>3. \A i \in DOMAIN d.rows : [d.rows[i] EXCEPT !.failed = TRUE].msg = d.rows[i].msg
  BY RowType DEF Row
<1> HIDE DEF e
<1>4. DOMAIN e.rows = DOMAIN d.rows /\ \A i \in DOMAIN d.rows : e.rows[i].msg = d.rows[i].msg
  BY <1>2, <1>3
<1> QED
  BY <1>1, <1>4, SameRows DEF e

(* Nor does editing one.                                                   *)
LEMMA UpdateKeeps ==
  ASSUME NEW d \in Store, RowsMatch(d), NEW i \in DOMAIN d.rows
  PROVE  /\ RowsMatch(UpdateQueuedTurn(d, i))
         /\ Stored(UpdateQueuedTurn(d, i)) = Stored(d)
         /\ Msgs(UpdateQueuedTurn(d, i).rows) = Msgs(d.rows)
<1> DEFINE e == UpdateQueuedTurn(d, i)
<1>1. e.shown = d.shown /\ e.hidden = d.hidden
  BY DEF UpdateQueuedTurn, Store
<1>2. e.rows = [d.rows EXCEPT ![i] = [d.rows[i] EXCEPT !.failed = FALSE]]
  BY DEF UpdateQueuedTurn, Store
<1>3. [d.rows[i] EXCEPT !.failed = FALSE].msg = d.rows[i].msg
  BY RowType DEF Row
<1> HIDE DEF e
<1>4. DOMAIN e.rows = DOMAIN d.rows /\ \A j \in DOMAIN d.rows : e.rows[j].msg = d.rows[j].msg
  BY <1>2, <1>3
<1> QED
  BY <1>1, <1>4, SameRows DEF e

(* Nor does the pause of the queue.                                        *)
LEMMA PauseKeeps ==
  ASSUME NEW d \in Store, RowsMatch(d), NEW p
  PROVE  /\ RowsMatch(SetTurnQueuePaused(d, p))
         /\ Stored(SetTurnQueuePaused(d, p)) = Stored(d)
         /\ Msgs(SetTurnQueuePaused(d, p).rows) = Msgs(d.rows)
<1>1. /\ SetTurnQueuePaused(d, p).shown = d.shown /\ SetTurnQueuePaused(d, p).hidden = d.hidden
      /\ SetTurnQueuePaused(d, p).rows = d.rows
  BY DEF SetTurnQueuePaused, Store
<1> QED
  BY <1>1, SameRows

(* The first row is one of the rows.                                       *)
LEMMA PrioritizeKeeps ==
  ASSUME NEW d \in Store, RowsMatch(d), NEW i \in DOMAIN d.rows
  PROVE  /\ RowsMatch(PrioritizeQueuedTurn(d, i))
         /\ Stored(PrioritizeQueuedTurn(d, i)) = Stored(d)
         /\ Msgs(PrioritizeQueuedTurn(d, i).rows) = Msgs(d.rows)
<1> DEFINE e == PrioritizeQueuedTurn(d, i)
           x == [msg |-> d.rows[i].msg, failed |-> FALSE]
           rest == RemoveAt(d.rows, i)
<1>1. CASE i = 1
  BY <1>1 DEF PrioritizeQueuedTurn
<1>2. CASE i # 1
  <2>1. e.rows = <<x>> \o rest /\ e.shown = d.shown /\ e.hidden = d.hidden
    BY <1>2 DEF PrioritizeQueuedTurn, Store
  <2>2. x \in Row /\ x.msg = d.rows[i].msg
    BY RowType DEF Row
  <2>3. rest \in Seq(Row)
    BY RemoveAtType, StoreFields
  <2>4. Distinct(rest) /\ Msgs(rest) = Msgs(d.rows) \ {x.msg}
    BY <2>2, RemoveAtRows, StoreFields DEF RowsMatch
  <2>5. x.msg \in Msgs(d.rows)
    BY <2>2 DEF Msgs
  <2> HIDE DEF e, x, rest
  <2>6. Distinct(e.rows) /\ Msgs(e.rows) = Msgs(d.rows)
    <3>1. x.msg \notin Msgs(rest)
      BY <2>4
    <3>2. Distinct(<<x>> \o rest) /\ Msgs(<<x>> \o rest) = Msgs(rest) \cup {x.msg}
      BY <2>2, <2>3, <2>4, <3>1, PrependRows
    <3> QED
      BY <2>1, <2>4, <2>5, <3>2
  <2> QED
    BY <2>1, <2>6 DEF RowsMatch, Stored, e
<1> QED
  BY <1>1, <1>2

(* Rows in another order: every old place is a new place of one row.       *)
LEMMA ReorderKeeps ==
  ASSUME NEW d \in Store, RowsMatch(d), NEW p \in [DOMAIN d.rows -> DOMAIN d.rows],
         \A i, j \in DOMAIN d.rows : p[i] = p[j] => i = j,
         \A j \in DOMAIN d.rows : \E i \in DOMAIN d.rows : p[i] = j
  PROVE  /\ RowsMatch(ReorderQueuedTurns(d, p))
         /\ Stored(ReorderQueuedTurns(d, p)) = Stored(d)
         /\ Msgs(ReorderQueuedTurns(d, p).rows) = Msgs(d.rows)
<1> DEFINE e == ReorderQueuedTurns(d, p)
<1>1. e.shown = d.shown /\ e.hidden = d.hidden
  BY DEF ReorderQueuedTurns, Store
<1>2. e.rows = [i \in DOMAIN d.rows |-> [msg |-> d.rows[p[i]].msg, failed |-> FALSE]]
  BY DEF ReorderQueuedTurns, Store
<1> HIDE DEF e
<1>3. DOMAIN e.rows = DOMAIN d.rows /\ \A i \in DOMAIN d.rows : e.rows[i].msg = d.rows[p[i]].msg
  BY <1>2
<1>4. Distinct(e.rows)
  <2> SUFFICES ASSUME NEW i \in DOMAIN d.rows, NEW j \in DOMAIN d.rows,
                      e.rows[i].msg = e.rows[j].msg
               PROVE  i = j
    BY <1>3 DEF Distinct
  <2>1. p[i] \in DOMAIN d.rows /\ p[j] \in DOMAIN d.rows
    OBVIOUS
  <2>2. d.rows[p[i]].msg = d.rows[p[j]].msg
    BY <1>3
  <2>3. p[i] = p[j]
    BY <2>1, <2>2 DEF RowsMatch, Distinct
  <2> QED
    BY <2>3
<1>5. Msgs(e.rows) = Msgs(d.rows)
  <2>1. ASSUME NEW i \in DOMAIN e.rows PROVE e.rows[i].msg \in Msgs(d.rows)
    <3>1. p[i] \in DOMAIN d.rows /\ e.rows[i].msg = d.rows[p[i]].msg
      BY <1>3
    <3> QED
      BY <3>1 DEF Msgs
  <2>2. ASSUME NEW j \in DOMAIN d.rows PROVE d.rows[j].msg \in Msgs(e.rows)
    <3>1. PICK i \in DOMAIN d.rows : p[i] = j
      OBVIOUS
    <3>2. i \in DOMAIN e.rows /\ e.rows[i].msg = d.rows[j].msg
      BY <1>3, <3>1
    <3> QED
      BY <3>2 DEF Msgs
  <2>3. Msgs(e.rows) \subseteq Msgs(d.rows)
    BY <2>1 DEF Msgs
  <2>4. Msgs(d.rows) \subseteq Msgs(e.rows)
    BY <2>2 DEF Msgs
  <2> QED
    BY <2>3, <2>4
<1> QED
  BY <1>1, <1>4, <1>5 DEF RowsMatch, Stored, e

(* The taken row is published before it is gone.                           *)
LEMMA TakeKeeps ==
  ASSUME NEW d \in Store, RowsMatch(d), Waiting(d) # {}
  PROVE  /\ RowsMatch(TakeQueuedTurn(d)) /\ Stored(TakeQueuedTurn(d)) = Stored(d)
         /\ Msgs(TakeQueuedTurn(d).rows) = Msgs(d.rows) \ {d.rows[NextRow(d)].msg}
<1> DEFINE e == TakeQueuedTurn(d)
           i == NextRow(d)
           m == d.rows[i].msg
<1>1. i \in DOMAIN d.rows
  BY NextRowType
<1>2. /\ e.rows = RemoveAt(d.rows, i)
      /\ e.shown = d.shown \cup {m} /\ e.hidden = d.hidden \ {m}
  BY DEF TakeQueuedTurn, Store
<1> HIDE DEF i, e
<1>3. m \in Msgs(d.rows)
  BY <1>1 DEF Msgs
<1> HIDE DEF m
<1>4. Distinct(e.rows) /\ Msgs(e.rows) = Msgs(d.rows) \ {m}
  BY <1>1, <1>2, RemoveAtRows, StoreFields DEF RowsMatch, m
<1> QED
  BY <1>2, <1>3, <1>4 DEF RowsMatch, Stored, e, m, i

-----------------------------------------------------------------------------
(* Messages are made of inputs that no other message has.                  *)

(* What is sent or deleted leaves fewer things to share.                   *)
LEMMA ApartFewer ==
  ASSUME NEW S, NEW T \in SUBSET S, NEW unsent, Apart(S, unsent)
  PROVE  Apart(T, unsent)
BY DEF Apart

(* A fresh input becomes a message of its own.                             *)
LEMMA ApartFresh ==
  ASSUME NEW S, NEW unsent, Apart(S, unsent), NEW i \in unsent
  PROVE  Apart(S \cup {<<i>>}, unsent \ {i}) /\ <<i>> \notin S
<1>1. ToSet(<<i>>) = {i} /\ <<i>> # <<>>
  BY DEF ToSet
<1> DEFINE m == <<i>>
<1>2. \A n \in S : i \notin ToSet(n)
  BY DEF Apart
<1> HIDE DEF m
<1>3. ToSet(m) = {i} /\ m # <<>>
  BY <1>1 DEF m
<1>4. Apart(S \cup {m}, unsent \ {i})
  BY <1>2, <1>3 DEF Apart
<1>5. m \notin S
  BY <1>2, <1>3
<1> QED
  BY <1>4, <1>5 DEF m

(* What two sequences hold together.                                       *)
LEMMA ConcatSet ==
  ASSUME NEW S, NEW a \in Seq(S), NEW b \in Seq(S)
  PROVE  ToSet(a \o b) = ToSet(a) \cup ToSet(b)
<1> DEFINE c == a \o b
<1>1. Len(a) \in Nat /\ Len(b) \in Nat /\ DOMAIN a = 1..Len(a) /\ DOMAIN b = 1..Len(b)
  BY LenProperties
<1>2. /\ c \in Seq(S) /\ Len(c) = Len(a) + Len(b)
      /\ \A i \in 1..(Len(a) + Len(b)) : c[i] = IF i <= Len(a) THEN a[i] ELSE b[i - Len(a)]
  BY ConcatProperties
<1>3. DOMAIN c = 1..(Len(a) + Len(b))
  BY <1>2, LenProperties
<1> HIDE DEF c
<1>4. \A i \in DOMAIN c : (i \in DOMAIN a /\ c[i] = a[i])
                       \/ (i - Len(a) \in DOMAIN b /\ c[i] = b[i - Len(a)])
  BY <1>1, <1>2, <1>3
<1>5. \A i \in DOMAIN a : i \in DOMAIN c /\ c[i] = a[i]
  BY <1>1, <1>2, <1>3
<1>6. \A i \in DOMAIN b : Len(a) + i \in DOMAIN c /\ c[Len(a) + i] = b[i]
  BY <1>1, <1>2, <1>3
<1>7. ToSet(c) \subseteq ToSet(a) \cup ToSet(b)
  BY <1>4 DEF ToSet
<1>8. ToSet(a) \cup ToSet(b) \subseteq ToSet(c)
  BY <1>5, <1>6 DEF ToSet
<1> QED
  BY <1>7, <1>8 DEF c

(* Two stored messages become one with the inputs of both.                 *)
LEMMA ApartMerge ==
  ASSUME NEW S, S \subseteq Message, NEW unsent, Apart(S, unsent),
         NEW a \in S, NEW m \in S
  PROVE  /\ Apart((S \ {m, a}) \cup {a \o m}, unsent)
         /\ a \o m \notin S \ {m, a}
<1> DEFINE c == a \o m
           R == S \ {m, a}
<1>1. ToSet(c) = ToSet(a) \cup ToSet(m)
  BY ConcatSet DEF Message
<1>2. ASSUME NEW n \in S PROVE ToSet(n) # {}
  <2>1. n \in Seq(Inputs) /\ n # <<>>
    BY DEF Apart, Message
  <2>2. Len(n) \in Nat /\ DOMAIN n = 1..Len(n) /\ Len(n) # 0
    BY <2>1, LenProperties, EmptySeq
  <2>3. n[1] \in ToSet(n)
    BY <2>2 DEF ToSet
  <2> QED
    BY <2>3
<1>3. c # <<>>
  <2>1. ToSet(c) # {}
    BY <1>1, <1>2
  <2> QED
    BY <2>1 DEF ToSet
<1> HIDE DEF c
<1>4. \A n \in R : ToSet(n) \cap ToSet(c) = {}
  BY <1>1 DEF Apart
<1>5. c \notin R
  BY <1>1, <1>2, <1>4
<1>6. ToSet(c) \cap unsent = {}
  BY <1>1 DEF Apart
<1> HIDE DEF R
<1>7. R \subseteq S
  BY DEF R
<1>8. Apart(R \cup {c}, unsent)
  BY <1>3, <1>4, <1>6, <1>7 DEF Apart
<1> QED
  BY <1>5, <1>8 DEF c, R

(* "Send now" replaces two messages, each with its row, by a published one *)
(* that nobody has queued.                                                 *)
LEMMA MergeKeeps ==
  ASSUME NEW d \in Store, RowsMatch(d), NEW unsent, Apart(Stored(d), unsent),
         NEW i \in DOMAIN d.rows, NEW a \in Stored(d)
  PROVE  LET e == MergeQueuedTurnIntoMessage(d, i, a)
         IN  RowsMatch(e) /\ Apart(Stored(e), unsent)
<1> DEFINE m == d.rows[i].msg
           f == DeleteMessage(d, m)
           g == DeleteMessage(f, a)
           c == a \o m
           e == AddMessage(g, c)
<1>1. m \in Msgs(d.rows)
  BY DEF Msgs
<1>2. m \in Stored(d) /\ Stored(d) \subseteq Message
  BY <1>1, StoreFields DEF RowsMatch, Stored
<1>3. f \in Store /\ RowsMatch(f) /\ Stored(f) = Stored(d) \ {m}
  BY DeleteKeeps, DeleteMessageType
<1> HIDE DEF f
<1>4. g \in Store /\ RowsMatch(g) /\ Stored(g) = Stored(f) \ {a}
  BY <1>3, DeleteKeeps, DeleteMessageType
<1> HIDE DEF g, m
<1>5. Stored(g) = Stored(d) \ {m, a}
  BY <1>3, <1>4
<1>6. Apart(Stored(g) \cup {c}, unsent) /\ c \notin Stored(g)
  BY <1>2, <1>5, ApartMerge
<1> HIDE DEF c
<1>7. RowsMatch(e) /\ Stored(e) = Stored(g) \cup {c}
  BY <1>4, <1>6, AddKeeps DEF Stored
<1>8. e = MergeQueuedTurnIntoMessage(d, i, a)
  BY DEF MergeQueuedTurnIntoMessage, c, e, f, g, m
<1> QED
  BY <1>6, <1>7, <1>8

-----------------------------------------------------------------------------
(* The steps of the turn manager.                                          *)

(* Steps that rearrange the queue or lose messages.                        *)
LEMMA StoreStep ==
  ASSUME StoreInv, RowsMatch(db'), Stored(db') \subseteq Stored(db), fresh' = fresh
  PROVE  StoreInv'
<1>1. Apart(Stored(db'), fresh)
  BY ApartFewer DEF StoreInv
<1> QED
  BY <1>1 DEF StoreInv

(* Steps that leave the conversation's data alone.                         *)
LEMMA StoreStill ==
  ASSUME StoreInv, UNCHANGED <<db, fresh>>
  PROVE  StoreInv'
BY DEF StoreInv

(* The handlers' database calls.                                           *)
LEMMA CallStore ==
  ASSUME TypeInv, StoreInv, NEW s \in Slots
  PROVE  /\ Enqueue(s) \/ Prioritize(s) \/ SetPause(s) => StoreInv'
         /\ PutBack(s) \/ MarkFailed(s) \/ Take(s) \/ Merge(s) => StoreInv'
<1>1. db \in Store /\ HandlersOK /\ RowsMatch(db)
  BY TypeParts DEF StoreInv
<1>2. task[s].msg \in Message
  BY <1>1, TaskFields
<1>3. CASE Enqueue(s)
  <2>1. fresh' = fresh
    BY <1>3 DEF Enqueue, history
  <2>2. CASE HasMessage(db, task[s].msg)
    BY <1>1, <1>2, <1>3, <2>1, <2>2, EnqueueKeeps, StoreStep DEF Enqueue
  <2>3. CASE ~HasMessage(db, task[s].msg)
    BY <1>3, <2>1, <2>3, StoreStill DEF Enqueue
  <2> QED
    BY <2>2, <2>3
<1>4. CASE Prioritize(s)
  <2>1. fresh' = fresh
    BY <1>4 DEF Prioritize, history
  <2>2. CASE HasRow(db, task[s].msg)
    <3> DEFINE k == CHOOSE i \in DOMAIN db.rows : db.rows[i].msg = task[s].msg
    <3>1. k \in DOMAIN db.rows
      BY <2>2 DEF HasRow
    <3>2. db' = PrioritizeQueuedTurn(db, k)
      BY <1>4, <2>2 DEF Prioritize
    <3> HIDE DEF k
    <3> QED
      BY <1>1, <2>1, <3>1, <3>2, PrioritizeKeeps, StoreStep
  <2>3. CASE ~HasRow(db, task[s].msg)
    BY <1>4, <2>1, <2>3, StoreStill DEF Prioritize
  <2> QED
    BY <2>2, <2>3
<1>5. CASE SetPause(s)
  BY <1>1, <1>5, PauseKeeps, StoreStep DEF SetPause, history
<1>6. CASE PutBack(s)
  <2>1. fresh' = fresh
    BY <1>6 DEF PutBack, history
  <2>2. CASE HasMessage(db, task[s].msg)
    BY <1>1, <1>2, <1>6, <2>1, <2>2, EnqueueKeeps, StoreStep DEF PutBack
  <2>3. CASE ~HasMessage(db, task[s].msg)
    BY <1>6, <2>1, <2>3, StoreStill DEF PutBack
  <2> QED
    BY <2>2, <2>3
<1>7. CASE MarkFailed(s)
  BY <1>1, <1>7, MarkKeeps, StoreStep DEF MarkFailed, history
<1>8. CASE Take(s)
  <2>1. fresh' = fresh
    BY <1>8 DEF Take, history
  <2>2. CASE Waiting(db) = {}
    BY <1>8, <2>1, <2>2, StoreStill DEF Take
  <2>3. CASE Waiting(db) # {}
    BY <1>1, <1>8, <2>1, <2>3, TakeKeeps, StoreStep DEF Take
  <2> QED
    BY <2>2, <2>3
<1>9. CASE Merge(s)
  <2> DEFINE own == turn[task[s].tid].msg
             k == CHOOSE i \in DOMAIN db.rows : db.rows[i].msg = task[s].msg
  <2>1. fresh' = fresh
    BY <1>9 DEF Merge, history
  <2>2. CASE HasRow(db, task[s].msg) /\ own \in db.shown /\ own # task[s].msg
    <3>1. k \in DOMAIN db.rows
      BY <2>2 DEF HasRow
    <3>2. db' = MergeQueuedTurnIntoMessage(db, k, own)
      BY <1>9, <2>2 DEF Merge
    <3>3. own \in Stored(db)
      BY <2>2 DEF Stored
    <3> HIDE DEF k, own
    <3>4. RowsMatch(db') /\ Apart(Stored(db'), fresh)
      BY <1>1, <3>1, <3>2, <3>3, MergeKeeps DEF StoreInv
    <3> QED
      BY <2>1, <3>4 DEF StoreInv
  <2>3. CASE ~(HasRow(db, task[s].msg) /\ own \in db.shown /\ own # task[s].msg)
    BY <1>9, <2>1, <2>3, StoreStill DEF Merge
  <2> QED
    BY <2>2, <2>3
<1> QED
  BY <1>3, <1>4, <1>5, <1>6, <1>7, <1>8, <1>9

(* The user's commands.                                                    *)
LEMMA UserStore ==
  ASSUME TypeInv, StoreInv, User
  PROVE  StoreInv'
<1>1. db \in Store /\ RowsMatch(db)
  BY TypeParts DEF StoreInv
<1>2. ASSUME NEW i \in Inputs, Send(i) PROVE StoreInv'
  <2>1. i \in fresh /\ fresh' = fresh \ {i} /\ db' = AddMessage(db, <<i>>)
    BY <1>2 DEF Send
  <2>2. Apart(Stored(db) \cup {<<i>>}, fresh \ {i}) /\ <<i>> \notin Stored(db)
    BY <2>1, ApartFresh DEF StoreInv
  <2>3. RowsMatch(db') /\ Stored(db') = Stored(db) \cup {<<i>>}
    <3>1. <<i>> \notin db.hidden
      BY <2>2 DEF Stored
    <3> QED
      BY <1>1, <2>1, <3>1, AddKeeps
  <2> QED
    BY <2>1, <2>2, <2>3 DEF StoreInv
<1>3. ASSUME NEW i \in DOMAIN db.rows, EditQueued(i) PROVE StoreInv'
  BY <1>1, <1>3, UpdateKeeps, StoreStep DEF EditQueued, Manage, history
<1>4. ASSUME NEW i \in DOMAIN db.rows, DeleteQueued(i) PROVE StoreInv'
  BY <1>1, <1>4, DeleteKeeps, StoreStep DEF DeleteQueued, DeleteQueuedTurn, Manage, history
<1>5. ASSUME NEW i \in DOMAIN db.rows, NEW j \in DOMAIN db.rows, ReorderQueued(i, j)
      PROVE  StoreInv'
  <2> DEFINE p == [[k \in DOMAIN db.rows |-> k] EXCEPT ![i] = j, ![j] = i]
  <2>1. \A k \in DOMAIN db.rows : p[k] = IF k = j THEN i ELSE IF k = i THEN j ELSE k
    OBVIOUS
  <2>2. p \in [DOMAIN db.rows -> DOMAIN db.rows]
    OBVIOUS
  <2>3. db' = ReorderQueuedTurns(db, p) /\ fresh' = fresh
    BY <1>5 DEF ReorderQueued, Manage, history
  <2> HIDE DEF p
  <2>4. \A k, l \in DOMAIN db.rows : p[k] = p[l] => k = l
    BY <2>1
  <2>5. \A l \in DOMAIN db.rows : \E k \in DOMAIN db.rows : p[k] = l
    BY <2>1
  <2> QED
    BY <1>1, <2>2, <2>3, <2>4, <2>5, ReorderKeeps, StoreStep
<1>6. ASSUME NEW m \in db.shown, Erase(m) PROVE StoreInv'
  BY <1>1, <1>6, DeleteKeeps, StoreStep DEF Erase, Manage, history
<1>7. ASSUME \/ \E i \in Inputs : Resend(i)
             \/ Stop \/ Connect \/ Shutdown \/ Crash \/ OtherChatPays
             \/ \E i \in DOMAIN db.rows : SendNow(i)
      PROVE  StoreInv'
  BY <1>7, StoreStill
  DEF Resend, Stop, Connect, Shutdown, Crash, OtherChatPays, SendNow, history
<1> QED
  BY <1>2, <1>3, <1>4, <1>5, <1>6, <1>7 DEF User

(* StoreInv is inductive.                                                  *)
LEMMA StoreInvInductive == TypeInv /\ StoreInv /\ [Next]_vars => StoreInv'
<1> SUFFICES ASSUME TypeInv, StoreInv, [Next]_vars PROVE StoreInv'
  OBVIOUS
<1>1. ASSUME NEW s \in Slots, Step(s) PROVE StoreInv'
  <2>1. ASSUME \/ Issue(s) \/ Deny(s) \/ RefusePending(s) \/ FindBusy(s) \/ ClaimSlot(s)
               \/ RefusePreparation(s) \/ FailPreparation(s) \/ GrantTools(s)
        PROVE  StoreInv'
    BY <2>1, StoreStill
    DEF Issue, Deny, RefusePending, FindBusy, ClaimSlot, RefusePreparation,
        FailPreparation, GrantTools, Refuse, history
  <2>2. ASSUME \/ MachineOffline(s) \/ Register(s) \/ Launch(s) \/ Save(s) \/ Insert(s)
               \/ Dispatch(s) \/ Gate(s) \/ SavePartial(s) \/ ChooseNow(s) \/ Restart(s)
               \/ Exit(s)
        PROVE  StoreInv'
    BY <2>2, StoreStill
    DEF MachineOffline, Register, Launch, Save, Insert, Dispatch, Gate, SavePartial,
        ChooseNow, Restart, Exit, Refuse, history
  <2> QED
    BY <1>1, <2>1, <2>2, CallStore DEF Step
<1>2. ASSUME NEW t \in TurnIds, Model(t) PROVE StoreInv'
  BY <1>2, StoreStill DEF Model, OnDone, OnDenied, EndUnheard, Finalize, OnError, history
<1>3. ASSUME NEW h \in holds, Settle(h) PROVE StoreInv'
  BY <1>3, StoreStill DEF Settle, history
<1>4. CASE UNCHANGED vars
  BY <1>4, StoreStill DEF vars, history
<1> QED
  BY <1>1, <1>2, <1>3, <1>4, UserStore DEF Next

(* The queue fits the messages whatever handlers, callbacks and commands   *)
(* do to it and wherever the process dies: a hidden message is in the      *)
(* queue, a row has its message, and no message is queued twice.           *)
THEOREM QueueMatchesKept == Spec => []QueueMatchesMessages
<1>1. Init => StoreInv
  BY DEF Init, StoreInv, EmptyStore, RowsMatch, Apart, Stored, Msgs, Distinct
<1>2. StoreInv => QueueMatchesMessages
  BY DEF StoreInv, RowsMatch, QueueMatchesMessages, HasRow, HasMessage, Stored, Msgs, Distinct
<1> QED
  BY <1>1, <1>2, InitType, NextType, StoreInvInductive, PTL DEF Spec

(* What the user wrote is in one stored message only, however often it is  *)
(* merged with other questions, put back, sent again or deleted.           *)
THEOREM InputsOnceKept == Spec => []InputsStoredOnce
<1>1. Init => StoreInv
  BY DEF Init, StoreInv, EmptyStore, RowsMatch, Apart, Stored, Msgs, Distinct
<1>2. StoreInv => InputsStoredOnce
  BY DEF StoreInv, Apart, InputsStoredOnce, Stored
<1> QED
  BY <1>1, <1>2, InitType, NextType, StoreInvInductive, PTL DEF Spec

-----------------------------------------------------------------------------
(* The turns and the handlers that still do something for them.            *)

(* The turn has had the conversation's slot.                               *)
Had(t) == turn[t].exec \notin {"free", "refused"}

(* A handler that will store what a turn has said.                         *)
Storing(h) == h.pc \in {"insert", "savePartial"} \/ (h.pc = "setPause" /\ h.then = "savePartial")

(* The reply of a turn is stored by one of: the tail of onDone (unsaved),  *)
(* finalize (finalizing) and a handler that stores; each begins when the   *)
(* turn is done, which takes its tools away.                               *)
TurnFits(t) ==
  /\ ~Had(t) => ~turn[t].done
  /\ t \in grants => ~turn[t].done
  /\ ~turn[t].done => turn[t].replies = 0 /\ ~turn[t].saved /\ t \notin unsaved \cup finalizing
  /\ t \in unsaved => turn[t].replies = 0 /\ ~turn[t].saved /\ t \notin finalizing
  /\ t \in finalizing => turn[t].replies = 0
  /\ turn[t].replies <= 1
  /\ active = t => Had(t) /\ ~turn[t].done

(* What a handler with the turn h.tid takes for granted at its next await, *)
(* of the turns ts, the unsaved and the finalizing ones.                   *)
HandlerFits(h, ts, un, fin) ==
  /\ h.pc = "late" => h.tid \in TurnIds /\ ts[h.tid].exec = "refused"
  /\ h.pc = "launch" => h.tid \in TurnIds /\ ts[h.tid].exec \notin {"free", "refused"}
  /\ h.pc \in {"now", "merge"} /\ h.tid # 0 => ts[h.tid].exec \notin {"free", "refused"}
  /\ h.pc = "merge" => h.tid # 0
  /\ h.pc = "save" => /\ h.tid \in TurnIds /\ ts[h.tid].done
                      /\ ts[h.tid].saved \/ h.tid \in un
  /\ Storing(h) => /\ h.tid \in TurnIds /\ ts[h.tid].done /\ ts[h.tid].replies = 0
                   /\ h.tid \notin un \cup fin

TurnsFit == \A t \in TurnIds : TurnFits(t)

HandlersFit == \A s \in Slots : HandlerFits(task[s], turn, unsaved, finalizing)

OneStores ==
  \A r, s \in Slots :
    Storing(task[r]) /\ Storing(task[s]) /\ task[r].tid = task[s].tid => r = s

TurnInv == TurnsFit /\ HandlersFit /\ OneStores

(* What a step may not undo for the handlers that it does not resume.      *)
Steady(t) ==
  /\ Had(t) => Had(t)'
  /\ turn[t].done => turn'[t].done
  /\ turn[t].saved \/ t \in unsaved => turn'[t].saved \/ t \in unsaved'
  /\ turn[t].done /\ turn[t].replies = 0 /\ t \notin unsaved \cup finalizing
       => turn'[t].replies = 0 /\ t \notin (unsaved \cup finalizing)'

(* A turn that waits for its registration.                                 *)
Awaited(t) == turn[t].exec = "refused" => turn'[t].exec = "refused"

(* A handler that a step does not resume keeps what it takes for granted.  *)
LEMMA SteadyHandler ==
  ASSUME NEW h \in Task, HandlerFits(h, turn, unsaved, finalizing),
         h.tid \in TurnIds => Steady(h.tid),
         h.pc = "late" => Awaited(h.tid)
  PROVE  HandlerFits(h, turn', unsaved', finalizing')
<1>1. h.tid \in TurnIds \/ h.tid = 0
  BY TurnAssumption DEF Task, TurnIds, TurnAssumption
<1> QED
  BY <1>1 DEF HandlerFits, Steady, Awaited, Had

(* One handler goes on, the others still fit.                              *)
LEMMA OneHandler ==
  ASSUME HandlersOK, HandlersFit, OneStores, \A t \in TurnIds : Steady(t),
         NEW s \in Slots, NEW new, Become(s, new),
         HandlerFits(new, turn', unsaved', finalizing'),
         \A r \in Slots \ {s} : task[r].pc = "late" => Awaited(task[r].tid),
         \A r \in Slots \ {s} : Storing(new) /\ Storing(task[r]) => task[r].tid # new.tid
  PROVE  HandlersFit' /\ OneStores'
<1>1. \A r \in Slots : task'[r] = IF r = s THEN new ELSE task[r]
  BY DEF Become, HandlersOK
<1>2. ASSUME NEW r \in Slots PROVE HandlerFits(task'[r], turn', unsaved', finalizing')
  BY <1>1, SteadyHandler DEF HandlersOK, HandlersFit
<1>3. OneStores'
  BY <1>1 DEF OneStores
<1> QED
  BY <1>2, <1>3 DEF HandlersFit

(* No handler goes on.                                                     *)
LEMMA NoHandler ==
  ASSUME HandlersOK, HandlersFit, OneStores, \A t \in TurnIds : Steady(t) /\ Awaited(t),
         UNCHANGED task
  PROVE  HandlersFit' /\ OneStores'
<1>1. ASSUME NEW r \in Slots PROVE HandlerFits(task'[r], turn', unsaved', finalizing')
  <2>1. task[r] \in Task /\ HandlerFits(task[r], turn, unsaved, finalizing)
    BY DEF HandlersOK, HandlersFit
  <2>2. task[r].pc = "late" => task[r].tid \in TurnIds
    BY <2>1 DEF HandlerFits
  <2> QED
    BY <2>1, <2>2, SteadyHandler
<1>2. OneStores'
  BY DEF OneStores
<1> QED
  BY <1>1, <1>2 DEF HandlersFit

(* Nothing happens to the turns.                                           *)
Still == UNCHANGED <<turn, active, unsaved, finalizing, grants>>

(* Then the turns fit as before.                                           *)
LEMMA StillTurns ==
  ASSUME TurnsFit, Still
  PROVE  TurnsFit' /\ \A t : Steady(t) /\ Awaited(t)
BY DEF TurnsFit, TurnFits, Still, Steady, Awaited, Had

(* A handler goes on to an await at which it only knows what it knew.      *)
LEMMA StillStep ==
  ASSUME HandlersOK, TurnInv, Still, NEW s \in Slots, NEW new, Become(s, new),
         HandlerFits(new, turn, unsaved, finalizing),
         Storing(new) => Storing(task[s]) /\ task[s].tid = new.tid
  PROVE  TurnInv'
<1>1. TurnsFit' /\ \A t : Steady(t) /\ Awaited(t)
  BY StillTurns DEF TurnInv
<1>2. HandlerFits(new, turn', unsaved', finalizing')
  BY DEF Still
<1>3. \A r \in Slots \ {s} : Storing(new) /\ Storing(task[r]) => task[r].tid # new.tid
  BY DEF TurnInv, OneStores
<1>4. HandlersFit' /\ OneStores'
  BY <1>1, <1>2, <1>3, OneHandler DEF TurnInv
<1> QED
  BY <1>1, <1>4 DEF TurnInv

(* Awaits at which a handler knows nothing of its turn.                    *)
Unaware == {"idle", "check", "park", "restore", "prioritize", "prepare", "requeue", "keep",
            "retry", "markFailed", "dispatch", "gate", "take", "restart", "exit"}

(* Such a handler fits whatever happens to the turns.                      *)
LEMMA UnawareFits ==
  ASSUME NEW h, h.pc \in Unaware \/ (h.pc = "setPause" /\ h.then # "savePartial"),
         NEW ts, NEW un, NEW fin
  PROVE  HandlerFits(h, ts, un, fin) /\ ~Storing(h)
BY DEF HandlerFits, Storing, Unaware

(* A handler goes on to such an await.                                     *)
LEMMA UnawareStep ==
  ASSUME HandlersOK, TurnInv, Still, NEW s \in Slots, NEW new, Become(s, new),
         new.pc \in Unaware \/ (new.pc = "setPause" /\ new.then # "savePartial")
  PROVE  TurnInv'
BY UnawareFits, StillStep

(* The same for a handler that resumes at such an await.                   *)
LEMMA UnawareResume ==
  ASSUME HandlersOK, TurnInv, Still, NEW s \in Slots, NEW pc \in Unaware, Resume(s, pc)
  PROVE  TurnInv'
<1>1. PICK new \in {Idle, [task[s] EXCEPT !.pc = pc]} : Become(s, new) /\ new.pc = pc
  BY DEF Resume, HandlersOK, Task, Idle
<1> QED
  BY <1>1, UnawareStep

(* The same for one that sets the pause for another purpose.               *)
LEMMA UnawarePause ==
  ASSUME HandlersOK, TurnInv, Still, NEW s \in Slots, NEW value, NEW next,
         next # "savePartial", Pause(s, value, next)
  PROVE  TurnInv'
<1> DEFINE new == [task[s] EXCEPT !.pc = "setPause", !.pause = value, !.then = next]
<1>1. new.pc = "setPause" /\ new.then = next
  BY DEF HandlersOK, Task
<1>2. Become(s, new)
  BY DEF Pause
<1> HIDE DEF new
<1> QED
  BY <1>1, <1>2, UnawareStep

(* The handlers as they are.                                               *)
LEMMA StillHandlers ==
  ASSUME HandlersOK, TurnInv, Still, UNCHANGED task
  PROVE  TurnInv'
BY StillTurns, NoHandler DEF TurnInv

(* After the end of the process nobody stores anything.                    *)
LEMMA RebootTurns ==
  ASSUME TurnOK, TurnInv, Reboot
  PROVE  TurnInv'
<1>1. ASSUME NEW t \in TurnIds PROVE TurnFits(t)'
  <2>1. turn[t] \in TurnState /\ TurnFits(t)
    BY DEF TurnOK, TurnInv, TurnsFit
  <2>2. active' # t /\ t \notin unsaved' /\ t \notin finalizing' /\ t \notin grants'
    <3>1. t # 0
      BY TurnAssumption DEF TurnIds, TurnAssumption
    <3> QED
      BY <3>1 DEF Reboot
  <2>3. CASE turn[t].exec \in {"new", "denied", "running"}
    <3>1. turn'[t] = [turn[t] EXCEPT !.exec = "stopped", !.done = TRUE]
      BY <2>3 DEF Reboot
    <3>2. /\ turn'[t].exec = "stopped" /\ turn'[t].done = TRUE
          /\ turn'[t].replies = turn[t].replies
      BY <2>1, <3>1 DEF TurnState
    <3> QED
      BY <2>1, <2>2, <3>2 DEF TurnFits, Had
  <2>4. CASE turn[t].exec \notin {"new", "denied", "running"}
    <3>1. turn'[t] = turn[t]
      BY <2>4 DEF Reboot
    <3> QED
      BY <2>1, <2>2, <3>1 DEF TurnFits, Had
  <2> QED
    BY <2>3, <2>4
<1>2. \A s \in Slots : task'[s] = Idle
  BY DEF Reboot
<1>3. Idle.pc \in Unaware
  BY DEF Idle, Unaware
<1>4. HandlersFit' /\ OneStores'
  BY <1>2, <1>3, UnawareFits DEF HandlersFit, OneStores
<1> QED
  BY <1>1, <1>4 DEF TurnInv, TurnsFit

(* A start that throws leaves its turn as it is, or the process ends.      *)
LEMMA ThrowTurns ==
  ASSUME HandlersOK, TurnOK, TurnInv, NEW s \in Slots, Throw(s)
  PROVE  TurnInv'
<1>1. CASE Reboot
  BY <1>1, RebootTurns
<1>2. CASE Resume(s, "idle") /\ UNCHANGED <<memory, turn>>
  BY <1>2, UnawareResume DEF Unaware, Still, memory
<1>3. CASE /\ Become(s, [task[s] EXCEPT !.pc = "requeue", !.pause = TRUE, !.then = "idle"])
           /\ UNCHANGED <<memory, turn>>
  <2> DEFINE new == [task[s] EXCEPT !.pc = "requeue", !.pause = TRUE, !.then = "idle"]
  <2>1. new.pc \in Unaware
    BY DEF HandlersOK, Task, Unaware
  <2>2. Still
    BY <1>3 DEF Still, memory
  <2> HIDE DEF new
  <2> QED
    BY <1>3, <2>1, <2>2, UnawareStep DEF new
<1> QED
  BY <1>1, <1>2, <1>3 DEF Throw

(* The admission of start() touches no turn.                               *)
LEMMA AdmissionTurns ==
  ASSUME HandlersOK, TurnOK, TurnInv, NEW s \in Slots
  PROVE  /\ Issue(s) \/ Deny(s) \/ RefusePending(s) => TurnInv'
         /\ FindBusy(s) \/ ClaimSlot(s) => TurnInv'
         /\ Enqueue(s) \/ Prioritize(s) \/ SetPause(s) => TurnInv'
<1> USE DEF Still, memory
<1>1. CASE Issue(s)
  BY <1>1, StillHandlers DEF Issue
<1>2. CASE Deny(s)
  BY <1>2, UnawareResume DEF Deny, Unaware
<1>3. CASE RefusePending(s)
  <2> DEFINE new == [task[s] EXCEPT !.pc = "restore", !.pause = TRUE, !.then = "idle"]
  <2>1. new.pc \in Unaware /\ "idle" \in Unaware
    BY DEF HandlersOK, Task, Unaware
  <2>2. (Resume(s, "idle") \/ Become(s, new)) /\ Still
    BY <1>3 DEF RefusePending
  <2> HIDE DEF new
  <2> QED
    BY <2>1, <2>2, UnawareResume, UnawareStep
<1>4. CASE FindBusy(s)
  BY <1>4, UnawareResume DEF FindBusy, Unaware
<1>5. CASE ClaimSlot(s)
  BY <1>5, UnawarePause DEF ClaimSlot
<1>6. CASE Enqueue(s)
  <2>1. CASE HasMessage(db, task[s].msg)
    BY <1>6, <2>1, UnawareResume DEF Enqueue, Unaware
  <2>2. CASE ~HasMessage(db, task[s].msg)
    BY <1>6, <2>2, ThrowTurns DEF Enqueue
  <2> QED
    BY <2>1, <2>2
<1>7. CASE Prioritize(s)
  <2>1. PICK new : Become(s, new) /\ new = [task[s] EXCEPT !.pc = "setPause"]
    BY <1>7 DEF Prioritize, Resume
  <2>2. new.pc = "setPause" /\ new.then = task[s].then
    BY <2>1 DEF HandlersOK, Task
  <2>3. task[s].then # "savePartial"
    BY <1>7 DEF Prioritize, Called, HandlersOK, Flows
  <2>4. Still
    BY <1>7 DEF Prioritize
  <2> QED
    BY <2>1, <2>2, <2>3, <2>4, UnawareStep
<1>8. CASE SetPause(s)
  <2>1. task[s].pc = "setPause" /\ Resume(s, task[s].then) /\ Still
    BY <1>8 DEF SetPause, Called
  <2>2. task[s].then \in {"idle", "dispatch", "prepare", "savePartial", "restart"}
    BY <2>1 DEF HandlersOK, Flows
  <2>3. CASE task[s].then # "savePartial"
    <3>1. task[s].then \in Unaware
      BY <2>2, <2>3 DEF Unaware
    <3> QED
      BY <2>1, <3>1, UnawareResume
  <2>4. CASE task[s].then = "savePartial"
    <3>1. PICK new : Become(s, new) /\ new = [task[s] EXCEPT !.pc = "savePartial"]
      BY <2>1, <2>4 DEF Resume
    <3>2. new.pc = "savePartial" /\ new.tid = task[s].tid
      BY <3>1 DEF HandlersOK, Task
    <3>3. HandlerFits(task[s], turn, unsaved, finalizing) /\ Storing(task[s])
      BY <2>1, <2>4 DEF TurnInv, HandlersFit, Storing
    <3>4. HandlerFits(new, turn, unsaved, finalizing)
      BY <3>2, <3>3 DEF HandlerFits, Storing
    <3> QED
      BY <2>1, <3>1, <3>2, <3>3, <3>4, StillStep
  <2> QED
    BY <2>3, <2>4
<1> QED
  BY <1>1, <1>2, <1>3, <1>4, <1>5, <1>6, <1>7, <1>8

(* What a step does to one turn only.                                      *)
Only(t, new) == turn' = [turn EXCEPT ![t] = new]

(* The other turns stay as they are.                                       *)
LEMMA OnlyTurn ==
  ASSUME TurnOK, NEW t \in TurnIds, NEW new, Only(t, new)
  PROVE  turn'[t] = new /\ \A u \in TurnIds \ {t} : turn'[u] = turn[u]
BY DEF TurnOK, Only

(* A turn that is not touched is steady and fits as before.                *)
LEMMA OtherTurn ==
  ASSUME NEW u \in TurnIds, TurnFits(u), turn'[u] = turn[u],
         u \in unsaved' <=> u \in unsaved, u \in finalizing' <=> u \in finalizing,
         u \in grants' => u \in grants, active' = u => active = u
  PROVE  TurnFits(u)' /\ Steady(u) /\ Awaited(u)
BY DEF TurnFits, Steady, Awaited, Had

(* The tool tokens come before the registration of the turn.               *)
LEMMA GrantTurns ==
  ASSUME HandlersOK, TurnOK, TurnInv, NEW s \in Slots, GrantTools(s)
  PROVE  TurnInv'
<1>1. PICK t \in TurnIds :
        /\ turn[t].exec = "free"
        /\ turn' = [turn EXCEPT ![t] = [@ EXCEPT !.exec = "refused", !.msg = task[s].msg,
                                                 !.via = task[s].via]]
        /\ grants' = grants \cup {t}
        /\ Become(s, [task[s] EXCEPT !.pc = "late", !.tid = t])
  BY DEF GrantTools
<1>2. UNCHANGED <<active, unsaved, finalizing>>
  BY DEF GrantTools
<1>3. PICK record : record = [turn[t] EXCEPT !.exec = "refused", !.msg = task[s].msg,
                                             !.via = task[s].via]
  OBVIOUS
<1>4. /\ record.exec = "refused" /\ record.done = turn[t].done
      /\ record.saved = turn[t].saved /\ record.replies = turn[t].replies
  BY <1>3 DEF TurnOK, TurnState
<1>5. turn'[t] = record /\ \A u \in TurnIds \ {t} : turn'[u] = turn[u]
  BY <1>1, <1>3, OnlyTurn DEF Only
<1>6. \A u \in TurnIds : TurnFits(u)
  BY DEF TurnInv, TurnsFit
<1>7. TurnFits(t)' /\ Steady(t) /\ Awaited(t)
  BY <1>1, <1>2, <1>4, <1>5, <1>6 DEF TurnFits, Steady, Awaited, Had
<1>8. \A u \in TurnIds : TurnFits(u)' /\ Steady(u) /\ Awaited(u)
  BY <1>1, <1>2, <1>5, <1>6, <1>7, OtherTurn
<1>9. PICK new : new = [task[s] EXCEPT !.pc = "late", !.tid = t]
  OBVIOUS
<1>10. new.pc = "late" /\ new.tid = t
  BY <1>9 DEF HandlersOK, Task
<1>11. HandlerFits(new, turn', unsaved', finalizing') /\ ~Storing(new)
  BY <1>4, <1>5, <1>10 DEF HandlerFits, Storing
<1>12. \A r \in Slots : task[r].pc = "late" => task[r].tid \in TurnIds
  BY DEF TurnInv, HandlersFit, HandlerFits
<1>13. HandlersFit' /\ OneStores'
  BY <1>1, <1>8, <1>9, <1>11, <1>12, OneHandler DEF TurnInv
<1> QED
  BY <1>8, <1>13 DEF TurnInv, TurnsFit

(* A step of one turn: the others are steady.                              *)
Apart1(t) ==
  \A u \in TurnIds \ {t} :
    /\ turn'[u] = turn[u] /\ (u \in unsaved' <=> u \in unsaved)
    /\ u \in finalizing' <=> u \in finalizing
    /\ u \in grants' => u \in grants
    /\ active' = u => active = u

(* Then all turns fit if it does.                                         *)
LEMMA OneTurn ==
  ASSUME TurnsFit, NEW t \in TurnIds, Apart1(t), TurnFits(t)', Steady(t)
  PROVE  TurnsFit' /\ \A u \in TurnIds : Steady(u) /\ (u # t => Awaited(u))
<1>1. \A u \in TurnIds \ {t} : TurnFits(u)' /\ Steady(u) /\ Awaited(u)
  BY OtherTurn DEF TurnsFit, Apart1
<1> QED
  BY <1>1 DEF TurnsFit

(* A step of one turn after which a handler goes on that stores nothing.   *)
LEMMA OneTurnStep ==
  ASSUME HandlersOK, TurnInv, NEW t \in TurnIds, Apart1(t), TurnFits(t)', Steady(t),
         NEW s \in Slots, NEW new, Become(s, new),
         HandlerFits(new, turn', unsaved', finalizing'),
         Awaited(t) \/ \A r \in Slots \ {s} : task[r].pc # "late",
         \A r \in Slots \ {s} : Storing(new) /\ Storing(task[r]) => task[r].tid # new.tid
  PROVE  TurnInv'
<1>1. TurnsFit' /\ \A u \in TurnIds : Steady(u) /\ (u # t => Awaited(u))
  BY OneTurn DEF TurnInv
<1>2. \A r \in Slots : task[r].pc = "late" => task[r].tid \in TurnIds
  BY DEF TurnInv, HandlersFit, HandlerFits
<1>3. \A r \in Slots \ {s} : task[r].pc = "late" => Awaited(task[r].tid)
  BY <1>1, <1>2
<1>4. HandlersFit' /\ OneStores'
  BY <1>1, <1>3, OneHandler DEF TurnInv
<1> QED
  BY <1>1, <1>4 DEF TurnInv

(* The same when no handler goes on.                                       *)
LEMMA OneTurnAlone ==
  ASSUME HandlersOK, TurnInv, NEW t \in TurnIds, Apart1(t), TurnFits(t)', Steady(t),
         Awaited(t), UNCHANGED task
  PROVE  TurnInv'
<1>1. TurnsFit' /\ \A u \in TurnIds : Steady(u) /\ (u # t => Awaited(u))
  BY OneTurn DEF TurnInv
<1> QED
  BY <1>1, NoHandler DEF TurnInv

(* A change of the execution changes nothing else of the turns.            *)
LEMMA ExecOf ==
  ASSUME TurnOK, NEW t \in TurnIds, NEW exec, turn' = [turn EXCEPT ![t].exec = exec]
  PROVE  /\ turn'[t].exec = exec /\ turn'[t].done = turn[t].done
         /\ turn'[t].saved = turn[t].saved /\ turn'[t].replies = turn[t].replies
         /\ \A u \in TurnIds \ {t} : turn'[u] = turn[u]
BY DEF TurnOK, TurnState

(* The turn gets the slot or goes to the model.                            *)
LEMMA LaunchTurns ==
  ASSUME HandlersOK, TurnOK, SlotExclusive, TurnInv, NEW s \in Slots
  PROVE  Register(s) \/ Launch(s) => TurnInv'
<1>0. PICK t : t = task[s].tid
  OBVIOUS
<1>1. CASE Register(s)
  <2>1. t \in TurnIds /\ turn[t].exec = "refused" /\ task[s].pc = "late"
    BY <1>0, <1>1 DEF Register, At, TurnInv, HandlersFit, HandlerFits
  <2>2. active' = t /\ UNCHANGED <<unsaved, finalizing, grants>>
    BY <1>0, <1>1 DEF Register, Occupy
  <2>3. PICK exec \in {"new", "denied", "running"} : turn' = [turn EXCEPT ![t].exec = exec]
    BY <1>0, <1>1 DEF Register, Launched
  <2>4. PICK new : /\ Become(s, new)
                   /\ new.pc = "idle" \/ (new.pc = "launch" /\ new.tid = t)
    <3>1. Idle.pc = "idle"
      BY DEF Idle
    <3>2. /\ [task[s] EXCEPT !.pc = "launch"].pc = "launch"
          /\ [task[s] EXCEPT !.pc = "launch"].tid = t
      BY <1>0 DEF HandlersOK, Task
    <3> QED
      BY <1>1, <3>1, <3>2 DEF Register, Resume
  <2>5. /\ turn'[t].exec = exec /\ turn'[t].done = turn[t].done
        /\ turn'[t].saved = turn[t].saved /\ turn'[t].replies = turn[t].replies
        /\ \A u \in TurnIds \ {t} : turn'[u] = turn[u]
    BY <2>1, <2>3, ExecOf
  <2>6. TurnFits(t)
    BY <2>1 DEF TurnInv, TurnsFit
  <2>7. Apart1(t) /\ TurnFits(t)' /\ Steady(t)
    BY <2>1, <2>2, <2>5, <2>6 DEF Apart1, TurnFits, Steady, Had
  <2>8. HandlerFits(new, turn', unsaved', finalizing') /\ ~Storing(new)
    BY <2>1, <2>4, <2>5 DEF HandlerFits, Storing
  <2>9. \A r \in Slots \ {s} : task[r].pc # "late"
    BY <2>1 DEF SlotExclusive, Preparing
  <2> QED
    BY <2>1, <2>4, <2>7, <2>8, <2>9, OneTurnStep
<1>2. CASE Launch(s)
  <2>1. t \in TurnIds /\ Had(t)
    BY <1>0, <1>2 DEF Launch, At, TurnInv, HandlersFit, HandlerFits, Had
  <2>2. UNCHANGED <<active, unsaved, finalizing, grants>>
    BY <1>0, <1>2 DEF Launch, memory
  <2>3. PICK exec \in {"denied", "running"} : turn' = [turn EXCEPT ![t].exec = exec]
    BY <1>0, <1>2 DEF Launch, Launched
  <2>4. PICK new : Become(s, new) /\ new.pc = "idle"
    BY <1>0, <1>2 DEF Launch, Resume, Idle
  <2>5. /\ turn'[t].exec = exec /\ turn'[t].done = turn[t].done
        /\ turn'[t].saved = turn[t].saved /\ turn'[t].replies = turn[t].replies
        /\ \A u \in TurnIds \ {t} : turn'[u] = turn[u]
    BY <2>1, <2>3, ExecOf
  <2>6. TurnFits(t)
    BY <2>1 DEF TurnInv, TurnsFit
  <2>7. Apart1(t) /\ TurnFits(t)' /\ Steady(t) /\ Awaited(t)
    BY <2>1, <2>2, <2>5, <2>6 DEF Apart1, TurnFits, Steady, Awaited, Had
  <2>8. HandlerFits(new, turn', unsaved', finalizing') /\ ~Storing(new)
    BY <2>4, UnawareFits DEF Unaware
  <2> QED
    BY <2>1, <2>4, <2>7, <2>8, OneTurnStep
<1> QED
  BY <1>1, <1>2

(* A refused preparation leaves its turn as it is.                         *)
LEMMA PreparationTurns ==
  ASSUME HandlersOK, TurnOK, TurnInv, NEW s \in Slots
  PROVE  RefusePreparation(s) \/ FailPreparation(s) \/ MachineOffline(s) => TurnInv'
<1>1. CASE RefusePreparation(s)
  BY <1>1, UnawareResume DEF RefusePreparation, Unaware, Still
<1>2. CASE FailPreparation(s)
  BY <1>2, ThrowTurns DEF FailPreparation
<1>3. CASE MachineOffline(s)
  BY <1>3, UnawareResume DEF MachineOffline, Unaware, Still
<1> QED
  BY <1>1, <1>2, <1>3

(* Storing a reply changes nothing else of the turns.                      *)
LEMMA ReplyOf ==
  ASSUME TurnOK, NEW t \in TurnIds, Reply(t)
  PROVE  /\ turn'[t].replies = turn[t].replies + 1 /\ turn'[t].done = turn[t].done
         /\ turn'[t].saved = turn[t].saved /\ turn'[t].exec = turn[t].exec
         /\ \A u \in TurnIds \ {t} : turn'[u] = turn[u]
BY DEF TurnOK, TurnState, Reply

(* The tails of the callbacks store one reply of a turn.                   *)
LEMMA TailTurns ==
  ASSUME HandlersOK, TurnOK, TurnInv, NEW s \in Slots
  PROVE  /\ PutBack(s) \/ MarkFailed(s) \/ Save(s) \/ Insert(s) => TurnInv'
         /\ SavePartial(s) \/ Exit(s) => TurnInv'
<1>1. CASE PutBack(s)
  <2>1. CASE Reboot
    BY <2>1, RebootTurns
  <2>2. CASE UNCHANGED <<memory, turn>>
    <3>1. Still
      BY <2>2 DEF Still, memory
    <3>2. CASE Resume(s, "idle") \/ Resume(s, "markFailed") \/ Resume(s, "dispatch")
      BY <3>1, <3>2, UnawareResume DEF Unaware
    <3>3. CASE Resume(s, "setPause") /\ At(s, "keep")
      <4>1. PICK new : Become(s, new) /\ new = [task[s] EXCEPT !.pc = "setPause"]
        BY <3>3 DEF Resume
      <4>2. new.pc = "setPause" /\ new.then = task[s].then
        BY <4>1 DEF HandlersOK, Task
      <4>3. task[s].then # "savePartial"
        BY <3>3 DEF At, HandlersOK, Flows
      <4> QED
        BY <3>1, <4>1, <4>2, <4>3, UnawareStep
    <3>4. CASE HasMessage(db, task[s].msg)
      <4>1. task[s].pc \in {"requeue", "keep", "retry"}
        BY <1>1 DEF PutBack, Called
      <4>2. CASE At(s, "requeue")
        <5>1. Resume(s, "markFailed")
          BY <1>1, <3>4, <4>2 DEF PutBack, At
        <5> QED
          BY <3>2, <5>1
      <4>3. CASE At(s, "keep")
        <5>1. Resume(s, "setPause")
          BY <1>1, <3>4, <4>3 DEF PutBack, At
        <5> QED
          BY <3>3, <4>3, <5>1
      <4>4. CASE At(s, "retry")
        <5>1. Resume(s, "dispatch")
          BY <1>1, <3>4, <4>4 DEF PutBack, At
        <5> QED
          BY <3>2, <5>1
      <4> QED
        BY <4>1, <4>2, <4>3, <4>4 DEF At
    <3>5. CASE ~HasMessage(db, task[s].msg)
      BY <1>1, <2>1, <3>2, <3>5 DEF PutBack
    <3> QED
      BY <3>4, <3>5
  <2> QED
    BY <1>1, <2>1, <2>2 DEF PutBack
<1>2. CASE MarkFailed(s)
  <2>1. PICK new : Become(s, new) /\ new = [task[s] EXCEPT !.pc = "setPause"]
    BY <1>2 DEF MarkFailed, Resume
  <2>2. new.pc = "setPause" /\ new.then = task[s].then
    BY <2>1 DEF HandlersOK, Task
  <2>3. task[s].then # "savePartial"
    BY <1>2 DEF MarkFailed, Called, HandlersOK, Flows
  <2>4. Still
    BY <1>2 DEF MarkFailed, Still, memory
  <2> QED
    BY <2>1, <2>2, <2>3, <2>4, UnawareStep
<1>0. PICK t : t = task[s].tid
  OBVIOUS
<1>3. CASE Save(s)
  <2>1. t \in TurnIds /\ turn[t].done /\ (turn[t].saved \/ t \in unsaved)
    BY <1>0, <1>3 DEF Save, At, TurnInv, HandlersFit, HandlerFits
  <2>2. CASE turn[t].saved
    BY <1>0, <1>3, <2>2, UnawareResume DEF Save, Still, Unaware
  <2>3. CASE ~turn[t].saved
    <3>1. /\ turn' = [turn EXCEPT ![t].saved = TRUE] /\ unsaved' = unsaved \ {t}
          /\ Resume(s, "insert") /\ UNCHANGED <<active, finalizing, grants>>
      BY <1>0, <1>3, <2>3 DEF Save
    <3>2. PICK new : Become(s, new) /\ new = [task[s] EXCEPT !.pc = "insert"]
      BY <3>1 DEF Resume
    <3>3. new.pc = "insert" /\ new.tid = t
      BY <1>0, <3>2 DEF HandlersOK, Task
    <3>4. TurnFits(t)
      BY <2>1 DEF TurnInv, TurnsFit
    <3>5. \A r \in Slots : Storing(task[r]) => task[r].tid \notin unsaved
      BY DEF TurnInv, HandlersFit, HandlerFits
    <3>6. /\ turn'[t].saved = TRUE /\ turn'[t].done = turn[t].done
          /\ turn'[t].exec = turn[t].exec /\ turn'[t].replies = turn[t].replies
          /\ \A u \in TurnIds \ {t} : turn'[u] = turn[u]
      BY <2>1, <3>1 DEF TurnOK, TurnState
    <3>7. Apart1(t) /\ TurnFits(t)' /\ Steady(t) /\ Awaited(t)
      BY <2>1, <2>3, <3>1, <3>4, <3>6 DEF Apart1, TurnFits, Steady, Awaited, Had
    <3>8. HandlerFits(new, turn', unsaved', finalizing')
      BY <2>1, <2>3, <3>1, <3>3, <3>4, <3>6 DEF HandlerFits, Storing, TurnFits
    <3>9. \A r \in Slots \ {s} : Storing(new) /\ Storing(task[r]) => task[r].tid # new.tid
      BY <2>1, <2>3, <3>3, <3>5
    <3> QED
      BY <2>1, <3>2, <3>7, <3>8, <3>9, OneTurnStep
  <2> QED
    BY <2>2, <2>3
<1>4. ASSUME Storing(task[s]), NEW new, Become(s, new), new.pc \in Unaware,
             Reply(t) \/ UNCHANGED turn, UNCHANGED <<active, unsaved, finalizing, grants>>
      PROVE  TurnInv'
  <2>1. /\ t \in TurnIds /\ turn[t].done /\ turn[t].replies = 0
        /\ t \notin unsaved \cup finalizing
    BY <1>0, <1>4 DEF TurnInv, HandlersFit, HandlerFits
  <2>2. CASE UNCHANGED turn
    BY <1>4, <2>2, UnawareStep DEF Still
  <2>3. CASE Reply(t)
    <3>1. TurnFits(t)
      BY <2>1 DEF TurnInv, TurnsFit
    <3>2. \A r \in Slots \ {s} : Storing(task[r]) => task[r].tid # t
      BY <1>0, <1>4 DEF TurnInv, OneStores
    <3>3. /\ turn'[t].replies = 1 /\ turn'[t].done = turn[t].done
          /\ turn'[t].saved = turn[t].saved /\ turn'[t].exec = turn[t].exec
          /\ \A u \in TurnIds \ {t} : turn'[u] = turn[u]
      <4>1. turn'[t].replies = turn[t].replies + 1
        BY <2>1, <2>3, ReplyOf
      <4>2. turn[t].replies = 0
        BY <2>1
      <4>3. turn'[t].replies = 1
        BY <4>1, <4>2
      <4> QED
        BY <2>1, <2>3, <4>3, ReplyOf
    <3>4. Apart1(t) /\ TurnFits(t)'
      BY <1>4, <2>1, <3>1, <3>3 DEF Apart1, TurnFits, Had
    <3>5. TurnsFit' /\ \A u \in TurnIds \ {t} : Steady(u) /\ Awaited(u)
      BY <3>4, OtherTurn DEF TurnInv, TurnsFit, Apart1
    <3>6. \A r \in Slots : task'[r] = IF r = s THEN new ELSE task[r]
      BY <1>4 DEF Become, HandlersOK
    <3>7. HandlerFits(new, turn', unsaved', finalizing') /\ ~Storing(new)
      BY <1>4, UnawareFits
    <3>8. ASSUME NEW r \in Slots \ {s} PROVE HandlerFits(task[r], turn', unsaved', finalizing')
      <4>1. HandlerFits(task[r], turn, unsaved, finalizing) /\ task[r] \in Task
        BY DEF TurnInv, HandlersFit, HandlersOK
      <4>2. task[r].tid = t => HandlerFits(task[r], turn', unsaved', finalizing')
        BY <1>4, <3>2, <3>3, <4>1 DEF HandlerFits
      <4>3. task[r].tid # t => HandlerFits(task[r], turn', unsaved', finalizing')
        <5> SUFFICES ASSUME task[r].tid # t
                     PROVE  HandlerFits(task[r], turn', unsaved', finalizing')
          OBVIOUS
        <5>1. task[r].pc = "late" => Awaited(task[r].tid)
          BY <3>5, <4>1 DEF HandlerFits
        <5> QED
          BY <3>5, <4>1, <5>1, SteadyHandler
      <4> QED
        BY <4>2, <4>3
    <3>9. HandlersFit' /\ OneStores'
      BY <3>6, <3>7, <3>8 DEF HandlersFit, OneStores, TurnInv
    <3> QED
      BY <3>5, <3>9 DEF TurnInv
  <2> QED
    BY <1>4, <2>2, <2>3
<1>5. ASSUME NEW pc \in Unaware, Resume(s, pc)
      PROVE  \E new : Become(s, new) /\ new.pc \in Unaware
  <2>1. [task[s] EXCEPT !.pc = pc].pc = pc /\ Idle.pc = "idle"
    BY DEF HandlersOK, Task, Idle
  <2> QED
    BY <1>5, <2>1 DEF Resume
<1>6. CASE Insert(s)
  <2>1. Storing(task[s]) /\ Reply(t) /\ UNCHANGED <<active, unsaved, finalizing, grants>>
    BY <1>0, <1>6 DEF Insert, At, Storing, memory
  <2>2. \E new : Become(s, new) /\ new.pc \in Unaware
    BY <1>5, <1>6 DEF Insert, Unaware
  <2> QED
    BY <1>4, <2>1, <2>2
<1>7. CASE SavePartial(s)
  <2>1. /\ Storing(task[s]) /\ (Reply(t) \/ UNCHANGED turn)
        /\ UNCHANGED <<active, unsaved, finalizing, grants>>
    BY <1>0, <1>7 DEF SavePartial, At, Storing, memory
  <2>2. \E new : Become(s, new) /\ new.pc \in Unaware
    BY <1>5, <1>7 DEF SavePartial, Unaware
  <2> QED
    BY <1>4, <2>1, <2>2
<1>8. CASE Exit(s)
  BY <1>8, RebootTurns DEF Exit
<1> QED
  BY <1>1, <1>2, <1>3, <1>6, <1>7, <1>8

(* A cancelled turn has had the slot if it had it before.                  *)
LEMMA CancelledHad ==
  ASSUME NEW t
  PROVE  /\ Cancelled(t) \in {"free", "refused"} <=> ~Had(t)
         /\ turn[t].exec = "refused" => Cancelled(t) = "refused"
BY DEF Cancelled, Had

(* The end of a turn: done, and the execution as it is then.               *)
LEMMA EndOf ==
  ASSUME TurnOK, NEW t \in TurnIds, NEW exec,
         turn' = [turn EXCEPT ![t].done = TRUE, ![t].exec = exec]
  PROVE  /\ turn'[t].done = TRUE /\ turn'[t].exec = exec
         /\ turn'[t].saved = turn[t].saved /\ turn'[t].replies = turn[t].replies
         /\ \A u \in TurnIds \ {t} : turn'[u] = turn[u]
BY DEF TurnOK, TurnState

(* A turn that had the slot and ends gives its tools back.                 *)
LEMMA EndTurns ==
  ASSUME TurnOK, TurnInv, NEW t \in TurnIds, Had(t), NEW exec, exec \notin {"free", "refused"},
         turn' = [turn EXCEPT ![t].done = TRUE, ![t].exec = exec],
         grants' = grants \ {t}, active' \in {0, active}, active' # t,
         UNCHANGED <<unsaved, finalizing>>
  PROVE  Apart1(t) /\ TurnFits(t)' /\ Steady(t) /\ Awaited(t)
<1>1. /\ turn'[t].done = TRUE /\ turn'[t].exec = exec
      /\ turn'[t].saved = turn[t].saved /\ turn'[t].replies = turn[t].replies
      /\ \A u \in TurnIds \ {t} : turn'[u] = turn[u]
  BY EndOf
<1>2. TurnFits(t)
  BY DEF TurnInv, TurnsFit
<1>3. 0 \notin TurnIds
  BY DEF TurnIds
<1> QED
  BY <1>1, <1>2, <1>3 DEF Apart1, TurnFits, Steady, Awaited, Had

(* dispatchNext() and sendQueuedNow(): the replaced turn ends unheard.     *)
LEMMA DispatchTurns ==
  ASSUME HandlersOK, TurnOK, MemoryOK, TurnInv, NEW s \in Slots
  PROVE  /\ Dispatch(s) \/ Gate(s) \/ Take(s) => TurnInv'
         /\ ChooseNow(s) \/ Merge(s) \/ Restart(s) => TurnInv'
<1> USE DEF Still, memory
<1>1. CASE Dispatch(s)
  BY <1>1, UnawareResume DEF Dispatch, Unaware
<1>2. CASE Gate(s)
  <2>1. Still /\ (Pause(s, TRUE, "idle") \/ Resume(s, "take"))
    BY <1>2 DEF Gate
  <2> QED
    BY <2>1, UnawareResume, UnawarePause DEF Unaware
<1>3. ASSUME NEW m, NEW via PROVE StartTask(m, via).pc \in Unaware
  BY DEF StartTask, Idle, Unaware
<1>4. CASE Take(s)
  <2>1. CASE Waiting(db) = {}
    BY <1>4, <2>1, UnawareResume DEF Take, Unaware
  <2>2. CASE Waiting(db) # {}
    <3>1. Still /\ Become(s, StartTask(db.rows[NextRow(db)].msg, "queue"))
      BY <1>4, <2>2 DEF Take
    <3> QED
      BY <1>3, <3>1, UnawareStep
  <2> QED
    BY <2>1, <2>2
<1>5. CASE ChooseNow(s)
  <2>1. Still
    BY <1>5 DEF ChooseNow
  <2>2. CASE Pause(s, TRUE, "idle") \/ Resume(s, "idle")
    BY <2>1, <2>2, UnawareResume, UnawarePause DEF Unaware
  <2>3. CASE Become(s, [task[s] EXCEPT !.pc = "prioritize", !.pause = FALSE,
                                       !.then = "dispatch"])
    <3>1. [task[s] EXCEPT !.pc = "prioritize", !.pause = FALSE,
                          !.then = "dispatch"].pc \in Unaware
      BY DEF HandlersOK, Task, Unaware
    <3> QED
      BY <2>1, <2>3, <3>1, UnawareStep
  <2>4. CASE task[s].pc = "now" /\ task[s].tid # 0 /\ Resume(s, "merge")
    <3>1. PICK new : Become(s, new) /\ new = [task[s] EXCEPT !.pc = "merge"]
      BY <2>4 DEF Resume
    <3>2. new.pc = "merge" /\ new.tid = task[s].tid
      BY <3>1 DEF HandlersOK, Task
    <3>3. HandlerFits(task[s], turn, unsaved, finalizing)
      BY DEF TurnInv, HandlersFit
    <3>4. HandlerFits(new, turn, unsaved, finalizing) /\ ~Storing(new)
      BY <2>4, <3>2, <3>3 DEF HandlerFits, Storing
    <3> QED
      BY <2>1, <3>1, <3>4, StillStep
  <2> QED
    BY <1>5, <2>2, <2>3, <2>4 DEF ChooseNow, At
<1>6. CASE Merge(s)
  <2>1. PICK t, m : t = task[s].tid /\ m = turn[task[s].tid].msg \o task[s].msg
    OBVIOUS
  <2>2. CASE Resume(s, "idle") /\ Still
    BY <2>2, UnawareResume DEF Unaware
  <2>3. CASE ~(Resume(s, "idle") /\ Still)
    <3>1. task[s].pc = "merge"
      BY <1>6 DEF Merge, Called
    <3>2. t \in TurnIds /\ Had(t)
      <4>1. HandlerFits(task[s], turn, unsaved, finalizing)
        BY DEF TurnInv, HandlersFit
      <4>2. t # 0 /\ Had(t)
        BY <2>1, <3>1, <4>1 DEF HandlerFits, Had
      <4>3. t \in 0..MaxTurns
        BY <2>1, TaskFields
      <4> QED
        BY <4>2, <4>3, TurnAssumption DEF TurnIds, TurnAssumption
    <3>3. active' = 0 /\ grants' = grants \ {t} /\ UNCHANGED <<unsaved, finalizing>>
      BY <1>6, <2>1, <2>3 DEF Merge, ReleaseTurnTools
    <3>4. PICK onward : onward = [task[s] EXCEPT !.pc = "setPause", !.msg = m,
                                                 !.pause = FALSE, !.then = "restart"]
      OBVIOUS
    <3>5. PICK back : back = [task[s] EXCEPT !.pc = "requeue", !.msg = m, !.pause = TRUE,
                                             !.then = "idle", !.via = "command"]
      OBVIOUS
    <3>6. \/ /\ turn' = [turn EXCEPT ![t].done = TRUE, ![t].exec = Cancelled(t)]
             /\ Become(s, onward)
          \/ turn' = [turn EXCEPT ![t].done = TRUE] /\ Become(s, back)
      BY <1>6, <2>1, <2>3, <3>4, <3>5 DEF Merge
    <3>7. onward.pc = "setPause" /\ onward.then = "restart" /\ back.pc = "requeue"
      BY <3>4, <3>5 DEF HandlersOK, Task
    <3>8. \/ onward.pc \in Unaware \/ (onward.pc = "setPause" /\ onward.then # "savePartial")
      BY <3>7
    <3>9. back.pc \in Unaware
      BY <3>7 DEF Unaware
    <3>10. [turn EXCEPT ![t].done = TRUE]
             = [turn EXCEPT ![t].done = TRUE, ![t].exec = turn[t].exec]
      BY <3>2 DEF TurnOK, TurnState
    <3>11. PICK exec, new :
             /\ exec \notin {"free", "refused"}
             /\ turn' = [turn EXCEPT ![t].done = TRUE, ![t].exec = exec]
             /\ Become(s, new)
             /\ HandlerFits(new, turn', unsaved', finalizing') /\ ~Storing(new)
      <4>1. Cancelled(t) \notin {"free", "refused"} /\ turn[t].exec \notin {"free", "refused"}
        BY <3>2, CancelledHad DEF Had
      <4>2. /\ HandlerFits(onward, turn', unsaved', finalizing') /\ ~Storing(onward)
            /\ HandlerFits(back, turn', unsaved', finalizing') /\ ~Storing(back)
        BY <3>8, <3>9, UnawareFits
      <4> QED
        BY <3>6, <3>10, <4>1, <4>2
    <3>12. 0 \notin TurnIds
      BY DEF TurnIds
    <3>13. Apart1(t) /\ TurnFits(t)' /\ Steady(t) /\ Awaited(t)
      BY <3>2, <3>3, <3>11, <3>12, EndTurns
    <3> QED
      BY <3>2, <3>11, <3>13, OneTurnStep
  <2> QED
    BY <2>2, <2>3
<1>7. CASE Restart(s)
  BY <1>3, <1>7, UnawareStep DEF Restart
<1> QED
  BY <1>1, <1>2, <1>4, <1>5, <1>6, <1>7

(* The end of a turn with a handler for what is left to do.                *)
LEMMA FinishTurns ==
  ASSUME HandlersOK, TurnOK, TurnInv, NEW t \in TurnIds, Had(t), NEW exec,
         exec \notin {"free", "refused"}, Finish(t, exec), UNCHANGED <<unsaved, finalizing>>,
         NEW new, Fork(new), new.pc \in Unaware
  PROVE  TurnInv'
<1>1. PICK s \in Slots : Become(s, new)
  BY DEF Fork
<1>2. 0 \notin TurnIds
  BY DEF TurnIds
<1>3. Apart1(t) /\ TurnFits(t)' /\ Steady(t) /\ Awaited(t)
  <2>1. /\ turn' = [turn EXCEPT ![t].done = TRUE, ![t].exec = exec]
        /\ grants' = grants \ {t}
    BY DEF Finish, ReleaseTurnTools
  <2>2. active' \in {0, active} /\ active' # t
    BY <1>2 DEF Finish
  <2> QED
    BY <2>1, <2>2, EndTurns
<1>4. HandlerFits(new, turn', unsaved', finalizing') /\ ~Storing(new)
  BY UnawareFits
<1> QED
  BY <1>1, <1>3, <1>4, OneTurnStep

(* The model's callbacks end a turn once.                                  *)
LEMMA ModelTurns ==
  ASSUME HandlersOK, TurnOK, TurnInv, NEW t \in TurnIds, Model(t)
  PROVE  TurnInv'
<1>1. TurnFits(t) /\ turn[t] \in TurnState /\ 0 \notin TurnIds
  BY DEF TurnInv, TurnsFit, TurnOK, TurnIds
<1>2. CASE OnDone(t)
  <2>1. /\ turn[t].exec = "running" /\ ~turn[t].done
        /\ turn' = [turn EXCEPT ![t].done = TRUE, ![t].exec = "ended"]
        /\ grants' = grants \ {t} /\ unsaved' = unsaved \cup {t} /\ finalizing' = finalizing
        /\ active' \in {0, active} /\ active' # t
    BY <1>1, <1>2 DEF OnDone, Running, Finish, ReleaseTurnTools
  <2>2. PICK new : new = [Idle EXCEPT !.pc = "save", !.tid = t]
    OBVIOUS
  <2>3. new.pc = "save" /\ new.tid = t
    BY <2>2 DEF Idle
  <2>4. PICK s \in Slots : Become(s, new)
    BY <1>2, <2>2 DEF OnDone, Fork
  <2>5. /\ turn'[t].done = TRUE /\ turn'[t].exec = "ended"
        /\ turn'[t].saved = turn[t].saved /\ turn'[t].replies = turn[t].replies
        /\ \A u \in TurnIds \ {t} : turn'[u] = turn[u]
    BY <2>1, EndOf
  <2>6. Apart1(t) /\ TurnFits(t)' /\ Steady(t) /\ Awaited(t)
    BY <1>1, <2>1, <2>5 DEF Apart1, TurnFits, Steady, Awaited, Had
  <2>7. HandlerFits(new, turn', unsaved', finalizing') /\ ~Storing(new)
    BY <2>1, <2>3, <2>5 DEF HandlerFits, Storing
  <2> QED
    BY <2>4, <2>6, <2>7, OneTurnStep
<1>3. ASSUME NEW lost \in BOOLEAN, OnError(t, lost) PROVE TurnInv'
  <2>1. PICK new : new = [Idle EXCEPT !.pc = IF lost THEN "retry" ELSE "requeue",
                            !.msg = turn[t].msg, !.pause = Paid, !.then = "dispatch"]
    OBVIOUS
  <2>2. new.pc \in Unaware
    BY <2>1 DEF Idle, Unaware
  <2>3. Had(t)
    BY <1>3 DEF OnError, Running, Had
  <2>4. Fork(new) /\ UNCHANGED <<unsaved, finalizing>>
    BY <1>3, <2>1 DEF OnError
  <2>5. PICK exec : exec \notin {"free", "refused"} /\ Finish(t, exec)
    BY <1>3 DEF OnError
  <2> QED
    BY <2>2, <2>3, <2>4, <2>5, FinishTurns
<1>4. CASE OnDenied(t)
  <2>1. PICK new : new = [Idle EXCEPT !.pc = IF turn[t].via = "ws" THEN "keep" ELSE "restore",
                            !.msg = turn[t].msg, !.pause = TRUE, !.then = "dispatch"]
    OBVIOUS
  <2>2. new.pc \in Unaware
    BY <2>1 DEF Idle, Unaware
  <2>3. Had(t)
    BY <1>4 DEF OnDenied, Had
  <2>4. Fork(new) /\ UNCHANGED <<unsaved, finalizing>>
    BY <1>4, <2>1 DEF OnDenied
  <2>5. PICK exec : exec \notin {"free", "refused"} /\ Finish(t, exec)
    BY <1>4 DEF OnDenied
  <2> QED
    BY <2>2, <2>3, <2>4, <2>5, FinishTurns
<1>5. CASE EndUnheard(t)
  <2>1. /\ turn[t].exec = "running" /\ turn' = [turn EXCEPT ![t].exec = "ended"]
        /\ UNCHANGED <<active, unsaved, finalizing, grants, task>>
    BY <1>5 DEF EndUnheard, Running, memory, handlers
  <2>2. /\ turn'[t].exec = "ended" /\ turn'[t].done = turn[t].done
        /\ turn'[t].saved = turn[t].saved /\ turn'[t].replies = turn[t].replies
        /\ \A u \in TurnIds \ {t} : turn'[u] = turn[u]
    BY <2>1, ExecOf
  <2>3. Apart1(t) /\ TurnFits(t)' /\ Steady(t) /\ Awaited(t)
    BY <1>1, <2>1, <2>2 DEF Apart1, TurnFits, Steady, Awaited, Had
  <2> QED
    BY <2>1, <2>3, OneTurnAlone
<1>6. CASE Finalize(t)
  <2>1. /\ t \in finalizing /\ finalizing' = finalizing \ {t} /\ Reply(t)
        /\ UNCHANGED <<active, unsaved, grants, task>>
    BY <1>6 DEF Finalize, handlers
  <2>2. /\ turn'[t].replies = turn[t].replies + 1 /\ turn'[t].done = turn[t].done
        /\ turn'[t].saved = turn[t].saved /\ turn'[t].exec = turn[t].exec
        /\ \A u \in TurnIds \ {t} : turn'[u] = turn[u]
    BY <2>1, ReplyOf
  <2>3. turn[t].replies = 0 /\ turn[t].done /\ t \notin unsaved
    BY <1>1, <2>1 DEF TurnFits
  <2>4. turn'[t].replies = 1
    BY <2>2, <2>3
  <2>5. Apart1(t) /\ TurnFits(t)' /\ Steady(t) /\ Awaited(t)
    BY <1>1, <2>1, <2>2, <2>3, <2>4 DEF Apart1, TurnFits, Steady, Awaited, Had
  <2> QED
    BY <2>1, <2>5, OneTurnAlone
<1> QED
  BY <1>2, <1>3, <1>4, <1>5, <1>6 DEF Model

(* The fields of a new handler.                                            *)
LEMMA ForkTurns ==
  ASSUME HandlersOK, TurnInv, Still, NEW new, Fork(new), new.pc \in Unaware
  PROVE  TurnInv'
BY UnawareStep DEF Fork

(* Stop: the reply so far is the only one.                                 *)
LEMMA StopTurns ==
  ASSUME HandlersOK, TurnOK, MemoryOK, TurnInv, Stop
  PROVE  TurnInv'
<1>1. PICK t : t = active
  OBVIOUS
<1>2. t \in TurnIds /\ 0 \notin TurnIds
  <2>1. t # 0 /\ t \in 0..MaxTurns
    BY <1>1 DEF Stop, MemoryOK
  <2> QED
    BY <2>1, TurnAssumption DEF TurnIds, TurnAssumption
<1>3. TurnFits(t) /\ Had(t) /\ ~turn[t].done
  BY <1>1, <1>2 DEF TurnInv, TurnsFit, TurnFits
<1>4. /\ turn' = [turn EXCEPT ![t].done = TRUE, ![t].exec = Cancelled(t)]
      /\ grants' = grants \ {t} /\ active' = 0 /\ UNCHANGED <<unsaved, finalizing>>
  BY <1>1 DEF Stop, ReleaseTurnTools
<1>5. PICK exec : exec = Cancelled(t)
  OBVIOUS
<1>6. exec \notin {"free", "refused"}
  BY <1>3, <1>5, CancelledHad
<1>7. PICK new : new = [Idle EXCEPT !.pc = "setPause", !.pause = Paid,
                                    !.then = "savePartial", !.tid = t]
  OBVIOUS
<1>8. new.pc = "setPause" /\ new.then = "savePartial" /\ new.tid = t
  BY <1>7 DEF Idle
<1>9. PICK s \in Slots : Become(s, new)
  BY <1>1, <1>7 DEF Stop, Fork
<1>10. Apart1(t) /\ TurnFits(t)' /\ Steady(t) /\ Awaited(t)
  BY <1>2, <1>3, <1>4, <1>5, <1>6, EndTurns
<1>11. turn'[t].done /\ turn'[t].replies = 0 /\ t \notin unsaved' \cup finalizing'
  <2>1. turn'[t].done = TRUE /\ turn'[t].replies = turn[t].replies
    BY <1>2, <1>4, <1>5, EndOf
  <2> QED
    BY <1>3, <1>4, <2>1 DEF TurnFits
<1>12. HandlerFits(new, turn', unsaved', finalizing')
  BY <1>2, <1>8, <1>11 DEF HandlerFits, Storing
<1>13. \A r \in Slots : Storing(task[r]) => task[r].tid # t
  BY <1>3 DEF TurnInv, HandlersFit, HandlerFits
<1> QED
  BY <1>2, <1>8, <1>9, <1>10, <1>12, <1>13, OneTurnStep

(* Shutdown: what is unsaved is finalized, the active turn is stopped.     *)
LEMMA ShutdownTurns ==
  ASSUME HandlersOK, TurnOK, MemoryOK, TurnInv, Shutdown
  PROVE  TurnInv'
<1>1. PICK a : a = active
  OBVIOUS
<1>2. /\ active' = 0 /\ grants' = grants \ {a}
      /\ unsaved' = {} /\ finalizing' = finalizing \cup unsaved
  BY <1>1 DEF Shutdown, FinalizePending, ReleaseTurnTools
<1>3. 0 \notin TurnIds
  BY DEF TurnIds
<1>4. ASSUME NEW t \in TurnIds
      PROVE  /\ turn'[t].saved = (turn[t].saved \/ t \in unsaved)
             /\ turn'[t].done = (turn[t].done \/ t = a)
             /\ turn'[t].exec = (IF t = a THEN Cancelled(t) ELSE turn[t].exec)
             /\ turn'[t].replies = turn[t].replies
  BY ZenonT(60), <1>1 DEF Shutdown, TurnOK, TurnState
<1>5. ASSUME NEW t \in TurnIds PROVE TurnFits(t)' /\ Steady(t) /\ Awaited(t)
  <2>1. TurnFits(t)
    BY DEF TurnInv, TurnsFit
  <2>2. t = a => Had(t) /\ ~turn[t].done
    BY <1>1, <2>1 DEF TurnFits
  <2>3. Had(t)' <=> Had(t)
    BY <1>4, CancelledHad DEF Had
  <2>4. Awaited(t)
    BY <1>4, CancelledHad DEF Awaited
  <2> QED
    BY <1>2, <1>3, <1>4, <2>1, <2>2, <2>3, <2>4 DEF TurnFits, Steady
<1>6. PICK halt : halt = [Idle EXCEPT !.pc = "exit", !.via = "flush"]
  OBVIOUS
<1>7. PICK stop : stop = [Idle EXCEPT !.pc = "setPause", !.via = "flush", !.pause = TRUE,
                                      !.then = "savePartial", !.tid = a]
  OBVIOUS
<1>8. /\ halt.pc \in Unaware
      /\ stop.pc = "setPause" /\ stop.then = "savePartial" /\ stop.tid = a
  BY <1>6, <1>7 DEF Idle, Unaware
<1>9. PICK s \in Slots : Become(s, IF a = 0 THEN halt ELSE stop)
  BY <1>1, <1>6, <1>7 DEF Shutdown, Fork
<1> DEFINE new == IF a = 0 THEN halt ELSE stop
<1>10. /\ HandlerFits(new, turn', unsaved', finalizing')
       /\ \A r \in Slots : Storing(new) /\ Storing(task[r]) => task[r].tid # new.tid
  <2>1. CASE a = 0
    BY <1>8, <2>1, UnawareFits
  <2>2. CASE a # 0
    <3>1. a \in TurnIds
      <4>1. a \in 0..MaxTurns
        BY <1>1 DEF MemoryOK
      <4> QED
        BY <2>2, <4>1, TurnAssumption DEF TurnIds, TurnAssumption
    <3>2. TurnFits(a) /\ ~turn[a].done
      BY <1>1, <3>1 DEF TurnInv, TurnsFit, TurnFits
    <3>3. turn'[a].done /\ turn'[a].replies = 0 /\ a \notin unsaved' \cup finalizing'
      BY <1>2, <1>4, <3>1, <3>2 DEF TurnFits
    <3>4. HandlerFits(stop, turn', unsaved', finalizing')
      BY <1>8, <3>1, <3>3 DEF HandlerFits, Storing
    <3>5. \A r \in Slots : Storing(task[r]) => task[r].tid # a
      BY <3>2 DEF TurnInv, HandlersFit, HandlerFits
    <3> QED
      BY <1>8, <2>2, <3>4, <3>5
  <2> QED
    BY <2>1, <2>2
<1>11. \A r \in Slots : task[r].pc = "late" => task[r].tid \in TurnIds
  BY DEF TurnInv, HandlersFit, HandlerFits
<1>12. HandlersFit' /\ OneStores'
  BY <1>5, <1>9, <1>10, <1>11, OneHandler DEF TurnInv
<1> QED
  BY <1>5, <1>12 DEF TurnInv, TurnsFit

(* The world outside.                                                      *)
LEMMA UserTurns ==
  ASSUME HandlersOK, TurnOK, MemoryOK, TurnInv, User
  PROVE  TurnInv'
<1> USE DEF Still, memory, handlers
<1>1. ASSUME NEW kind, NEW stored, Manage(kind, stored) PROVE TurnInv'
  BY <1>1, StillHandlers DEF Manage
<1>2. ASSUME NEW i \in Inputs, Send(i) \/ Resend(i) PROVE TurnInv'
  <2>1. StartTask(<<i>>, "ws").pc \in Unaware
    BY DEF StartTask, Idle, Unaware
  <2> QED
    BY <1>2, <2>1, ForkTurns DEF Send, Resend
<1>3. CASE Stop
  BY <1>3, StopTurns
<1>4. CASE Connect
  <2>1. [Idle EXCEPT !.pc = "dispatch"].pc \in Unaware
    BY DEF Idle, Unaware
  <2> QED
    BY <1>4, <2>1, ForkTurns DEF Connect
<1>5. CASE Shutdown
  BY <1>5, ShutdownTurns
<1>6. CASE Crash
  BY <1>6, RebootTurns DEF Crash
<1>7. CASE OtherChatPays
  BY <1>7, StillHandlers DEF OtherChatPays
<1>8. ASSUME NEW i \in DOMAIN db.rows, SendNow(i) PROVE TurnInv'
  <2>1. PICK new : new = [Idle EXCEPT !.pc = "now", !.msg = db.rows[i].msg, !.via = "now",
                                      !.tid = active]
    OBVIOUS
  <2>2. new.pc = "now" /\ new.tid = active
    BY <2>1 DEF Idle
  <2>3. PICK s \in Slots : Become(s, new)
    BY <1>8, <2>1 DEF SendNow, Fork
  <2>4. active # 0 => Had(active)
    <3> SUFFICES ASSUME active # 0 PROVE Had(active)
      OBVIOUS
    <3>1. active \in 0..MaxTurns
      BY DEF MemoryOK
    <3>2. active \in TurnIds
      BY <3>1, TurnAssumption DEF TurnIds, TurnAssumption
    <3> QED
      BY <3>2 DEF TurnInv, TurnsFit, TurnFits
  <2>5. HandlerFits(new, turn, unsaved, finalizing) /\ ~Storing(new)
    BY <2>2, <2>4 DEF HandlerFits, Storing, Had
  <2>6. Still
    BY <1>8 DEF SendNow
  <2> QED
    BY <2>3, <2>5, <2>6, StillStep
<1> QED
  BY <1>1, <1>2, <1>3, <1>4, <1>5, <1>6, <1>7, <1>8
  DEF User, EditQueued, DeleteQueued, ReorderQueued, Erase

(* TurnInv is inductive, with the types and the slot held once.            *)
LEMMA TurnInvInductive == SlotInv /\ TurnInv /\ [Next]_vars => TurnInv'
<1> SUFFICES ASSUME SlotInv, TurnInv, [Next]_vars PROVE TurnInv'
  OBVIOUS
<1>1. TypeInv /\ SlotExclusive
  BY DEF SlotInv, TypeInv
<1>2. HandlersOK /\ TurnOK /\ MemoryOK
  BY <1>1, TypeParts
<1>3. ASSUME NEW s \in Slots, Step(s) PROVE TurnInv'
  BY <1>1, <1>2, <1>3, AdmissionTurns, GrantTurns, LaunchTurns, PreparationTurns, TailTurns,
     DispatchTurns DEF Step
<1>4. ASSUME NEW t \in TurnIds, Model(t) PROVE TurnInv'
  BY <1>2, <1>4, ModelTurns
<1>5. ASSUME NEW h \in holds, Settle(h) PROVE TurnInv'
  BY <1>2, <1>5, StillHandlers DEF Settle, Still, memory, handlers
<1>6. CASE User
  BY <1>2, <1>6, UserTurns
<1>7. CASE UNCHANGED vars
  BY <1>2, <1>7, StillHandlers DEF vars, Still, memory, handlers
<1> QED
  BY <1>3, <1>4, <1>5, <1>6, <1>7 DEF Next

(* A fresh server has no turn.                                             *)
LEMMA InitTurns == Init => TurnInv
<1> SUFFICES ASSUME Init PROVE TurnInv
  OBVIOUS
<1>1. ASSUME NEW t \in TurnIds PROVE TurnFits(t)
  <2>1. turn[t] = NoTurn /\ active = 0 /\ unsaved = {} /\ finalizing = {} /\ grants = {}
    BY DEF Init
  <2>2. t # 0
    BY DEF TurnIds
  <2> QED
    BY <2>1, <2>2 DEF TurnFits, Had, NoTurn
<1>2. \A s \in Slots : task[s] = Idle
  BY DEF Init
<1>3. Idle.pc \in Unaware
  BY DEF Idle, Unaware
<1>4. HandlersFit /\ OneStores
  BY <1>2, <1>3, UnawareFits DEF HandlersFit, OneStores
<1> QED
  BY <1>1, <1>4 DEF TurnInv, TurnsFit

(* What every step of the turn manager may rely on.                        *)
LEMMA TurnInvKept == Spec => [](SlotInv /\ TurnInv)
<1>1. Init => SlotInv
  <2>1. Init => SlotExclusive
    BY DEF Init, SlotExclusive, Preparing, At, Idle
  <2> QED
    BY <2>1, InitType DEF SlotInv, TypeInv
<1> QED
  BY <1>1, InitTurns, SlotInvInductive, TurnInvInductive, PTL DEF Spec

(* A turn is answered at most once, whether its end, the finalize of a     *)
(* stopping server or the text of a stopped turn stores the reply.         *)
THEOREM OneReplyKept == Spec => []OneReply
<1>1. TurnInv => OneReply
  BY DEF TurnInv, TurnsFit, TurnFits, OneReply
<1> QED
  BY <1>1, TurnInvKept, PTL

(* A finished turn has no tool tokens left, whoever finished it.           *)
THEOREM ToolsReleasedKept == Spec => []ToolsReleased
<1>1. SlotInv /\ TurnInv => ToolsReleased
  BY DEF SlotInv, TypeOK, TurnInv, TurnsFit, TurnFits, ToolsReleased
<1> QED
  BY <1>1, TurnInvKept, PTL

-----------------------------------------------------------------------------
(* The abstract slot.                                                      *)

SlotPhase == IF starting THEN "preparing" ELSE IF active # 0 THEN "running" ELSE "free"

HadTurns == {t \in TurnIds : turn[t].exec \notin {"free", "refused"}}

SlotStep == Slot!Next \/ UNCHANGED <<SlotPhase, active, HadTurns>>

(* No turn gets the slot.                                                  *)
NoneHad == \A t \in TurnIds : Had(t)' <=> Had(t)

(* A step that neither claims nor occupies the slot gives it up or leaves  *)
(* it as it is.                                                            *)
LEMMA SlotQuiet ==
  ASSUME SlotInv, NoneHad,
         starting' \in {starting, FALSE}, active' \in {active, 0}
  PROVE  SlotStep
<1>1. HadTurns' = HadTurns
  BY DEF HadTurns, NoneHad, Had
<1>2. starting \in BOOLEAN /\ (starting => active = 0)
  BY DEF SlotInv, TypeOK, SlotExclusive
<1>3. CASE starting /\ starting' = FALSE
  <2>1. SlotPhase = "preparing" /\ SlotPhase' = "free" /\ active' = active
    BY <1>2, <1>3 DEF SlotPhase
  <2>2. Slot!Abandon
    BY <1>1, <2>1 DEF Slot!Abandon, SlotPhase, HadTurns
  <2> QED
    BY <2>2 DEF SlotStep, Slot!Next
<1>4. CASE starting' = starting /\ active' = active
  BY <1>1, <1>4 DEF SlotStep, SlotPhase
<1>5. CASE ~starting /\ starting' = starting /\ active # 0 /\ active' = 0
  <2>1. SlotPhase = "running" /\ SlotPhase' = "free"
    BY <1>5 DEF SlotPhase
  <2>2. Slot!Release
    BY <1>1, <1>5, <2>1 DEF Slot!Release, SlotPhase, HadTurns
  <2> QED
    BY <2>2 DEF SlotStep, Slot!Next
<1> QED
  BY <1>2, <1>3, <1>4, <1>5

(* The turns and the memory of the slot as they are.                       *)
LEMMA SlotStill ==
  ASSUME SlotInv, UNCHANGED <<turn, starting, active>>
  PROVE  SlotStep
BY SlotQuiet DEF NoneHad, Had

(* The end of the process.                                                 *)
LEMMA SlotReboot ==
  ASSUME SlotInv, Reboot
  PROVE  SlotStep
<1>1. ASSUME NEW t \in TurnIds PROVE Had(t)' <=> Had(t)
  <2>1. turn[t] \in TurnState
    BY DEF SlotInv, TypeOK
  <2>2. turn'[t] = IF turn[t].exec \in {"new", "denied", "running"}
                   THEN [turn[t] EXCEPT !.exec = "stopped", !.done = TRUE] ELSE turn[t]
    BY DEF Reboot
  <2> QED
    BY <2>1, <2>2 DEF Had, TurnState
<1> QED
  BY <1>1, SlotQuiet DEF NoneHad, Reboot

(* A turn changes, but has not had the slot by it.                         *)
LEMMA SlotTurn ==
  ASSUME SlotInv, NEW t \in TurnIds, NEW new, turn' = [turn EXCEPT ![t] = new],
         new.exec \notin {"free", "refused"} <=> Had(t),
         starting' \in {starting, FALSE}, active' \in {active, 0}
  PROVE  SlotStep
<1>1. turn \in [TurnIds -> TurnState]
  BY DEF SlotInv, TypeOK
<1>2. ASSUME NEW u \in TurnIds PROVE Had(u)' <=> Had(u)
  BY <1>1 DEF Had
<1> QED
  BY <1>2, SlotQuiet DEF NoneHad

(* The end of a turn: what Finish, Stop and Merge do to it.                *)
LEMMA SlotEnds ==
  ASSUME SlotInv, NEW t \in TurnIds, NEW exec,
         turn' = [turn EXCEPT ![t].done = TRUE, ![t].exec = exec],
         exec \notin {"free", "refused"} <=> Had(t),
         starting' = starting, active' \in {active, 0}
  PROVE  SlotStep
<1>1. turn \in [TurnIds -> TurnState]
  BY DEF SlotInv, TypeOK
<1>2. turn'[t].exec = exec /\ \A u \in TurnIds \ {t} : turn'[u] = turn[u]
  BY <1>1, EndOf DEF TurnOK
<1>3. ASSUME NEW u \in TurnIds PROVE Had(u)' <=> Had(u)
  BY <1>2 DEF Had
<1> QED
  BY <1>3, SlotQuiet DEF NoneHad

(* A reply is stored, or not.                                              *)
LEMMA SlotReply ==
  ASSUME SlotInv, NEW t \in TurnIds, Reply(t) \/ UNCHANGED turn,
         UNCHANGED <<starting, active>>
  PROVE  SlotStep
<1>1. CASE Reply(t)
  <2>1. turn'[t].exec = turn[t].exec /\ \A u \in TurnIds \ {t} : turn'[u] = turn[u]
    BY <1>1, ReplyOf DEF SlotInv, TypeOK, TurnOK
  <2>2. ASSUME NEW u \in TurnIds PROVE Had(u)' <=> Had(u)
    BY <2>1 DEF Had
  <2> QED
    BY <2>2, SlotQuiet DEF NoneHad
<1> QED
  BY <1>1, SlotStill

(* start() throws.                                                         *)
LEMMA SlotThrow ==
  ASSUME SlotInv, NEW s \in Slots, Throw(s)
  PROVE  SlotStep
BY SlotReboot, SlotStill DEF Throw, memory

(* Admission claims a free slot.                                           *)
LEMMA SlotAdmission ==
  ASSUME SlotInv, NEW s \in Slots
  PROVE  /\ Issue(s) \/ Deny(s) \/ RefusePending(s) => SlotStep
         /\ FindBusy(s) => SlotStep
         /\ ClaimSlot(s) => SlotStep
         /\ Enqueue(s) \/ Prioritize(s) \/ SetPause(s) => SlotStep
<1>1. Issue(s) \/ Deny(s) \/ RefusePending(s) => SlotStep
  BY SlotStill DEF Issue, Deny, RefusePending, memory
<1>2. FindBusy(s) => SlotStep
  BY SlotStill DEF FindBusy, memory
<1>3. ClaimSlot(s) => SlotStep
  <2> SUFFICES ASSUME ClaimSlot(s) PROVE SlotStep
    OBVIOUS
  <2>1. /\ active = 0 /\ ~starting /\ starting' = TRUE /\ UNCHANGED <<active, turn>>
    BY DEF ClaimSlot, SlotFree
  <2>2. SlotPhase = "free" /\ SlotPhase' = "preparing" /\ HadTurns' = HadTurns
    BY <2>1 DEF SlotPhase, HadTurns
  <2>3. Slot!Claim
    BY <2>1, <2>2 DEF Slot!Claim, SlotPhase, HadTurns
  <2> QED
    BY <2>3 DEF SlotStep, Slot!Next
<1>4. Enqueue(s) => SlotStep
  BY SlotStill, SlotThrow DEF Enqueue, memory
<1>5. Prioritize(s) \/ SetPause(s) => SlotStep
  BY SlotStill DEF Prioritize, SetPause, memory
<1> QED
  BY <1>1, <1>2, <1>3, <1>4, <1>5

(* Preparation gives the slot up, or to a turn that never had it.          *)
LEMMA SlotPreparation ==
  ASSUME SlotInv, TurnInv, NEW s \in Slots
  PROVE  /\ RefusePreparation(s) \/ FailPreparation(s) \/ MachineOffline(s) => SlotStep
         /\ GrantTools(s) => SlotStep
         /\ Register(s) => SlotStep
         /\ Launch(s) => SlotStep
<1>0. HandlerFits(task[s], turn, unsaved, finalizing) /\ TurnOK
  BY DEF TurnInv, HandlersFit, SlotInv, TypeOK, TurnOK
<1>1. RefusePreparation(s) \/ FailPreparation(s) \/ MachineOffline(s) => SlotStep
  <2>1. RefusePreparation(s) \/ MachineOffline(s) => SlotStep
    BY SlotQuiet DEF RefusePreparation, MachineOffline, NoneHad, Had
  <2> QED
    BY <2>1, SlotThrow DEF FailPreparation
<1>2. GrantTools(s) => SlotStep
  <2> SUFFICES ASSUME GrantTools(s) PROVE SlotStep
    OBVIOUS
  <2>1. PICK t \in TurnIds :
          /\ turn[t].exec = "free"
          /\ turn' = [turn EXCEPT ![t] = [@ EXCEPT !.exec = "refused", !.msg = task[s].msg,
                                                   !.via = task[s].via]]
    BY DEF GrantTools
  <2>2. PICK new : new = [turn[t] EXCEPT !.exec = "refused", !.msg = task[s].msg,
                                         !.via = task[s].via]
    OBVIOUS
  <2>3. new.exec = "refused"
    BY <1>0, <2>2 DEF TurnOK, TurnState
  <2>4. turn' = [turn EXCEPT ![t] = new]
    BY <2>1, <2>2
  <2> QED
    BY <2>1, <2>3, <2>4, SlotTurn DEF GrantTools, Had
<1>3. Register(s) => SlotStep
  <2> SUFFICES ASSUME Register(s) PROVE SlotStep
    OBVIOUS
  <2>1. PICK t : t = task[s].tid
    OBVIOUS
  <2>2. t \in TurnIds /\ turn[t].exec = "refused" /\ t # 0
    BY <1>0, <2>1 DEF Register, At, HandlerFits, TurnIds
  <2>3. starting /\ starting' = FALSE /\ active' = t
    BY <2>1 DEF Register, Occupy, SlotInv, SlotExclusive, Preparing, At
  <2>4. PICK exec \in {"new", "denied", "running"} : turn' = [turn EXCEPT ![t].exec = exec]
    BY <2>1 DEF Register, Launched
  <2>5. turn'[t].exec = exec /\ \A u \in TurnIds \ {t} : turn'[u] = turn[u]
    BY <1>0, <2>2, <2>4, ExecOf
  <2>6. t \notin HadTurns /\ HadTurns' = HadTurns \cup {t}
    BY <2>2, <2>5 DEF HadTurns
  <2>7. SlotPhase = "preparing" /\ SlotPhase' = "running"
    BY <2>2, <2>3 DEF SlotPhase
  <2>8. Slot!Occupy(t)
    BY <2>3, <2>6, <2>7 DEF Slot!Occupy, SlotPhase, HadTurns
  <2> QED
    BY <2>2, <2>8 DEF SlotStep, Slot!Next
<1>4. Launch(s) => SlotStep
  <2> SUFFICES ASSUME Launch(s) PROVE SlotStep
    OBVIOUS
  <2>1. PICK t : t = task[s].tid
    OBVIOUS
  <2>2. t \in TurnIds /\ Had(t)
    BY <1>0, <2>1 DEF Launch, At, HandlerFits, Had
  <2>3. PICK exec \in {"denied", "running"} : turn' = [turn EXCEPT ![t].exec = exec]
    BY <2>1 DEF Launch, Launched
  <2>4. turn'[t].exec = exec /\ \A u \in TurnIds \ {t} : turn'[u] = turn[u]
    BY <1>0, <2>2, <2>3, ExecOf
  <2>5. ASSUME NEW u \in TurnIds PROVE Had(u)' <=> Had(u)
    BY <2>2, <2>4 DEF Had
  <2> QED
    BY <2>5, SlotQuiet DEF NoneHad, Launch, memory
<1> QED
  BY <1>1, <1>2, <1>3, <1>4

(* The tail of a turn and the handlers around the queue.                   *)
LEMMA SlotTail ==
  ASSUME SlotInv, TurnInv, NEW s \in Slots
  PROVE  /\ PutBack(s) \/ MarkFailed(s) => SlotStep
         /\ Save(s) => SlotStep
         /\ Insert(s) \/ SavePartial(s) => SlotStep
         /\ Dispatch(s) \/ Gate(s) \/ Take(s) => SlotStep
         /\ ChooseNow(s) \/ Restart(s) => SlotStep
         /\ Exit(s) => SlotStep
<1>0. HandlerFits(task[s], turn, unsaved, finalizing) /\ TurnOK
  BY DEF TurnInv, HandlersFit, SlotInv, TypeOK, TurnOK
<1>1. PutBack(s) \/ MarkFailed(s) => SlotStep
  BY SlotStill, SlotReboot DEF PutBack, MarkFailed, memory
<1>2. Save(s) => SlotStep
  <2> SUFFICES ASSUME Save(s) PROVE SlotStep
    OBVIOUS
  <2>1. PICK t : t = task[s].tid
    OBVIOUS
  <2>2. t \in TurnIds
    BY <1>0, <2>1 DEF Save, At, HandlerFits
  <2>3. UNCHANGED turn \/ turn' = [turn EXCEPT ![t].saved = TRUE]
    BY <2>1 DEF Save
  <2>4. ASSUME NEW u \in TurnIds PROVE Had(u)' <=> Had(u)
    BY <1>0, <2>2, <2>3 DEF Had, TurnOK, TurnState
  <2> QED
    BY <2>4, SlotQuiet DEF NoneHad, Save
<1>3. Insert(s) \/ SavePartial(s) => SlotStep
  <2> SUFFICES ASSUME Insert(s) \/ SavePartial(s) PROVE SlotStep
    OBVIOUS
  <2>1. task[s].tid \in TurnIds
    BY <1>0 DEF Insert, SavePartial, At, HandlerFits, Storing
  <2>2. Reply(task[s].tid) \/ UNCHANGED turn
    BY DEF Insert, SavePartial
  <2>3. UNCHANGED <<starting, active>>
    BY DEF Insert, SavePartial, memory
  <2> QED
    BY <2>1, <2>2, <2>3, SlotReply
<1>4. Dispatch(s) \/ Gate(s) \/ Take(s) => SlotStep
  BY SlotStill DEF Dispatch, Gate, Take, memory
<1>5. ChooseNow(s) \/ Restart(s) => SlotStep
  BY SlotStill DEF ChooseNow, Restart, memory
<1>6. Exit(s) => SlotStep
  BY SlotReboot DEF Exit
<1> QED
  BY <1>1, <1>2, <1>3, <1>4, <1>5, <1>6

(* A merge ends the remembered turn and frees the slot.                    *)
LEMMA SlotMerge ==
  ASSUME SlotInv, TurnInv, NEW s \in Slots, Merge(s)
  PROVE  SlotStep
<1>0. HandlerFits(task[s], turn, unsaved, finalizing) /\ task[s] \in Task
  BY DEF TurnInv, HandlersFit, SlotInv, TypeOK
<1>1. PICK t : t = task[s].tid
  OBVIOUS
<1>2. t \in TurnIds /\ Had(t)
  <2>1. t # 0 /\ turn[t].exec \notin {"free", "refused"}
    BY <1>0, <1>1 DEF Merge, Called, HandlerFits
  <2>2. t \in 0..MaxTurns
    BY <1>0, <1>1 DEF Task
  <2> QED
    BY <2>1, <2>2, TurnAssumption DEF TurnIds, TurnAssumption, Had
<1>3. starting' = starting /\ active' \in {active, 0}
  BY DEF Merge
<1>4. \/ UNCHANGED turn
      \/ turn' = [turn EXCEPT ![t].done = TRUE, ![t].exec = Cancelled(t)]
      \/ turn' = [turn EXCEPT ![t].done = TRUE]
  BY <1>1 DEF Merge
<1>5. CASE turn' = [turn EXCEPT ![t].done = TRUE, ![t].exec = Cancelled(t)]
  <2>1. PICK exec : exec = Cancelled(t)
    OBVIOUS
  <2>2. exec \notin {"free", "refused"}
    BY <1>2, <2>1, CancelledHad
  <2> QED
    BY <1>2, <1>3, <1>5, <2>1, <2>2, SlotEnds
<1>6. CASE UNCHANGED turn \/ turn' = [turn EXCEPT ![t].done = TRUE]
  <2>1. ASSUME NEW u \in TurnIds PROVE Had(u)' <=> Had(u)
    BY SMTT(20), <1>2, <1>6 DEF Had, SlotInv, TypeOK, TurnState
  <2> QED
    BY <1>3, <2>1, SlotQuiet DEF NoneHad
<1> QED
  BY <1>4, <1>5, <1>6

(* The model's callbacks.                                                  *)
LEMMA SlotModel ==
  ASSUME SlotInv, TurnInv, NEW t \in TurnIds, Model(t)
  PROVE  SlotStep
<1>0. TurnOK
  BY DEF SlotInv, TypeOK, TurnOK
<1>1. ASSUME NEW exec, exec \notin {"free", "refused"}, Had(t), Finish(t, exec),
             starting' = starting
      PROVE  SlotStep
  BY <1>1, SlotEnds DEF Finish
<1>2. CASE OnDone(t)
  BY <1>1, <1>2 DEF OnDone, Running, Had
<1>3. ASSUME NEW lost \in BOOLEAN, OnError(t, lost) PROVE SlotStep
  <2>1. PICK exec : exec \in {"ended", "failed"} /\ Finish(t, exec)
    BY <1>3 DEF OnError
  <2> QED
    BY <1>1, <1>3, <2>1 DEF OnError, Running, Had
<1>4. CASE OnDenied(t)
  BY <1>1, <1>4 DEF OnDenied, Had
<1>5. CASE EndUnheard(t)
  <2>1. Had(t) /\ turn' = [turn EXCEPT ![t].exec = "ended"] /\ UNCHANGED <<starting, active>>
    BY <1>5 DEF EndUnheard, Running, Had, memory
  <2>2. turn'[t].exec = "ended" /\ \A u \in TurnIds \ {t} : turn'[u] = turn[u]
    BY <1>0, <2>1, ExecOf
  <2>3. ASSUME NEW u \in TurnIds PROVE Had(u)' <=> Had(u)
    BY <2>1, <2>2 DEF Had
  <2> QED
    BY <2>1, <2>3, SlotQuiet DEF NoneHad
<1>6. CASE Finalize(t)
  BY <1>6, SlotReply DEF Finalize
<1> QED
  BY <1>2, <1>3, <1>4, <1>5, <1>6 DEF Model

(* The world outside.                                                      *)
LEMMA SlotUser ==
  ASSUME SlotInv, TurnInv, User
  PROVE  SlotStep
<1>1. ASSUME NEW kind, NEW stored, Manage(kind, stored) PROVE SlotStep
  BY <1>1, SlotStill DEF Manage, memory
<1>2. ASSUME NEW i \in Inputs, Send(i) \/ Resend(i) PROVE SlotStep
  BY <1>2, SlotStill DEF Send, Resend, memory
<1>3. CASE Stop
  <2>1. PICK t : t = active
    OBVIOUS
  <2>2. t \in TurnIds
    <3>1. t # 0 /\ t \in 0..MaxTurns
      BY <1>3, <2>1 DEF Stop, SlotInv, TypeOK
    <3> QED
      BY <3>1, TurnAssumption DEF TurnIds, TurnAssumption
  <2>3. Had(t)
    BY <2>1, <2>2 DEF TurnInv, TurnsFit, TurnFits
  <2>4. PICK exec : exec = Cancelled(t)
    OBVIOUS
  <2>5. exec \notin {"free", "refused"}
    BY <2>3, <2>4, CancelledHad
  <2>6. /\ turn' = [turn EXCEPT ![t].done = TRUE, ![t].exec = exec]
        /\ active' = 0 /\ starting' = starting
    BY <1>3, <2>1, <2>4 DEF Stop
  <2> QED
    BY <2>2, <2>3, <2>5, <2>6, SlotEnds
<1>4. CASE Shutdown
  <2>1. PICK a : a = active
    OBVIOUS
  <2>2. ASSUME NEW t \in TurnIds
        PROVE  turn'[t].exec = IF t = a THEN Cancelled(t) ELSE turn[t].exec
    BY <1>4, <2>1 DEF Shutdown, SlotInv, TypeOK, TurnState
  <2>3. a \in TurnIds => Had(a)
    BY <2>1 DEF TurnInv, TurnsFit, TurnFits
  <2>4. ASSUME NEW t \in TurnIds PROVE Had(t)' <=> Had(t)
    BY <2>2, <2>3, CancelledHad DEF Had
  <2> QED
    BY <1>4, <2>4, SlotQuiet DEF NoneHad, Shutdown
<1>5. CASE Connect \/ OtherChatPays
  BY <1>5, SlotStill DEF Connect, OtherChatPays, memory
<1>6. CASE Crash
  BY <1>6, SlotReboot DEF Crash
<1>7. ASSUME NEW i \in DOMAIN db.rows, SendNow(i) PROVE SlotStep
  BY <1>7, SlotStill DEF SendNow, memory
<1> QED
  BY <1>1, <1>2, <1>3, <1>4, <1>5, <1>6, <1>7
  DEF User, EditQueued, DeleteQueued, ReorderQueued, Erase

(* Every step of the turn manager is a step of the slot, or none.          *)
LEMMA SlotNext == SlotInv /\ TurnInv /\ [Next]_vars => SlotStep
<1> SUFFICES ASSUME SlotInv, TurnInv, [Next]_vars PROVE SlotStep
  OBVIOUS
<1>1. ASSUME NEW s \in Slots, Step(s) PROVE SlotStep
  BY <1>1, SlotAdmission, SlotPreparation, SlotTail, SlotMerge DEF Step
<1>2. ASSUME NEW h \in holds, Settle(h) PROVE SlotStep
  BY <1>2, SlotStill DEF Settle, memory
<1>3. CASE UNCHANGED vars
  BY <1>3, SlotStill DEF vars, memory
<1> QED
  BY <1>1, <1>2, <1>3, SlotModel, SlotUser DEF Next

(* The turn manager implements the slot: whatever the handlers, the model, *)
(* the user and restarts do, one turn follows the other, each is prepared  *)
(* while no other has the slot, and none has it twice.                     *)
THEOREM SlotImplemented == Spec => SlotSpec
<1>1. Init => Slot!Init
  BY DEF Init, Slot!Init, NoTurn
<1>2. SlotInv /\ TurnInv /\ [Next]_vars => [Slot!Next]_<<SlotPhase, active, HadTurns>>
  BY SlotNext DEF SlotStep
<1> QED
  BY <1>1, <1>2, TurnInvKept, PTL DEF Spec, SlotSpec, Slot!Spec, Slot!slotVars, SlotPhase, HadTurns

-----------------------------------------------------------------------------
(* One execution of a paid chat at a time.                                 *)

(* Who runs in a paid chat has the only unsettled accounting job.          *)
PaidInv ==
  Paid => /\ \A t \in TurnIds : Running(t) => t \in holds
          /\ \A h, k \in holds : h = k

(* Nobody begins to run and the jobs of those who still run stay.          *)
NoneLaunched ==
  /\ \A t \in TurnIds : Running(t)' => Running(t) /\ (t \in holds => t \in holds')
  /\ holds' \subseteq holds

(* Such a step keeps the one execution.                                    *)
LEMMA PaidQuiet ==
  ASSUME PaidInv, NoneLaunched
  PROVE  PaidInv'
BY DEF PaidInv, NoneLaunched

(* The same of the turns and the jobs as they are.                         *)
LEMMA PaidStill ==
  ASSUME PaidInv, UNCHANGED <<turn, holds>>
  PROVE  PaidInv'
BY DEF PaidInv, Running

(* The end of the process stops the executions; their jobs stay.           *)
LEMMA PaidReboot ==
  ASSUME TurnOK, PaidInv, Reboot, holds' = holds
  PROVE  PaidInv'
<1>1. ASSUME NEW t \in TurnIds PROVE ~Running(t)'
  <2>1. turn'[t] = IF turn[t].exec \in {"new", "denied", "running"}
                   THEN [turn[t] EXCEPT !.exec = "stopped", !.done = TRUE] ELSE turn[t]
    BY DEF Reboot
  <2> QED
    BY <2>1 DEF TurnOK, TurnState, Running
<1> QED
  BY <1>1 DEF PaidInv

(* start() throws.                                                         *)
LEMMA PaidThrow ==
  ASSUME TurnOK, PaidInv, NEW s \in Slots, Throw(s), holds' = holds
  PROVE  PaidInv'
BY PaidReboot, PaidStill DEF Throw

(* Only one turn changes, and it does not begin to run.                    *)
LEMMA PaidTurn ==
  ASSUME TurnOK, PaidInv, NEW t \in TurnIds, NEW exec, turn'[t].exec = exec,
         \A u \in TurnIds \ {t} : turn'[u] = turn[u],
         exec = "running" => Running(t), holds' = holds
  PROVE  PaidInv'
BY PaidQuiet DEF NoneLaunched, Running

(* A turn that does not run may settle.                                    *)
LEMMA PaidSettles ==
  ASSUME TurnOK, PaidInv, NEW t \in TurnIds, turn'[t].exec # "running",
         \A u \in TurnIds \ {t} : turn'[u] = turn[u], MaySettle(t)
  PROVE  PaidInv'
BY PaidQuiet DEF NoneLaunched, Running, MaySettle

(* client.send: Billing admits the execution when no job is open.          *)
LEMMA PaidLaunched ==
  ASSUME TurnOK, PaidInv, NEW t \in TurnIds, Launched(t)
  PROVE  PaidInv'
<1> SUFFICES ASSUME Paid PROVE PaidInv'
  BY DEF PaidInv
<1>1. CASE holds = {}
  <2>1. \A u \in TurnIds : ~Running(u)
    BY <1>1 DEF PaidInv
  <2>2. \A u \in TurnIds \ {t} : turn'[u] = turn[u]
    BY DEF Launched
  <2>3. holds' = {t}
    BY <1>1 DEF Launched
  <2> QED
    BY <2>1, <2>2, <2>3 DEF PaidInv, Running
<1>2. CASE holds # {}
  <2>1. turn' = [turn EXCEPT ![t].exec = "denied"] /\ holds' = holds
    BY <1>2 DEF Launched
  <2>2. turn'[t].exec = "denied" /\ \A u \in TurnIds \ {t} : turn'[u] = turn[u]
    BY <2>1, ExecOf
  <2> QED
    BY <2>1, <2>2, PaidTurn
<1> QED
  BY <1>1, <1>2

(* The handlers.                                                           *)
LEMMA PaidStep ==
  ASSUME SlotInv, TurnInv, PaidInv, NEW s \in Slots, Step(s)
  PROVE  PaidInv'
<1>0. /\ HandlerFits(task[s], turn, unsaved, finalizing) /\ TurnOK /\ task[s] \in Task
  BY DEF TurnInv, HandlersFit, SlotInv, TypeOK, TurnOK
<1> USE DEF memory, handlers
<1>1. CASE Issue(s) \/ Deny(s) \/ RefusePending(s) \/ FindBusy(s) \/ ClaimSlot(s)
  BY <1>1, PaidStill DEF Issue, Deny, RefusePending, FindBusy, ClaimSlot
<1>2. CASE Enqueue(s)
  BY <1>0, <1>2, PaidStill, PaidThrow DEF Enqueue
<1>3. CASE Prioritize(s) \/ SetPause(s) \/ RefusePreparation(s) \/ MachineOffline(s)
  BY <1>3, PaidStill DEF Prioritize, SetPause, RefusePreparation, MachineOffline
<1>4. CASE FailPreparation(s)
  BY <1>0, <1>4, PaidThrow DEF FailPreparation
<1>5. CASE GrantTools(s)
  <2>1. PICK t \in TurnIds :
          turn' = [turn EXCEPT ![t] = [@ EXCEPT !.exec = "refused", !.msg = task[s].msg,
                                                !.via = task[s].via]]
    BY <1>5 DEF GrantTools
  <2>2. turn'[t].exec = "refused" /\ \A u \in TurnIds \ {t} : turn'[u] = turn[u]
    BY <1>0, <2>1 DEF TurnOK, TurnState
  <2> QED
    BY <1>0, <1>5, <2>2, PaidTurn DEF GrantTools
<1>6. CASE Register(s)
  <2>1. PICK t : t = task[s].tid
    OBVIOUS
  <2>2. t \in TurnIds
    BY <1>0, <1>6, <2>1 DEF Register, At, HandlerFits
  <2>3. \/ Launched(t)
        \/ turn' = [turn EXCEPT ![t].exec = "new"] /\ holds' = holds
    BY <1>6, <2>1 DEF Register
  <2>4. CASE turn' = [turn EXCEPT ![t].exec = "new"] /\ holds' = holds
    <3>1. turn'[t].exec = "new" /\ \A u \in TurnIds \ {t} : turn'[u] = turn[u]
      BY <1>0, <2>2, <2>4, ExecOf
    <3> QED
      BY <1>0, <2>2, <2>4, <3>1, PaidTurn
  <2> QED
    BY <1>0, <2>2, <2>3, <2>4, PaidLaunched
<1>7. CASE Launch(s)
  BY <1>0, <1>7, PaidLaunched DEF Launch, At, HandlerFits
<1>8. CASE PutBack(s) \/ MarkFailed(s)
  BY <1>0, <1>8, PaidStill, PaidReboot DEF PutBack, MarkFailed
<1>9. CASE Save(s)
  <2>1. PICK t : t = task[s].tid
    OBVIOUS
  <2>2. t \in TurnIds
    BY <1>0, <1>9, <2>1 DEF Save, At, HandlerFits
  <2>3. UNCHANGED turn \/ turn' = [turn EXCEPT ![t].saved = TRUE]
    BY <1>9, <2>1 DEF Save
  <2>4. turn'[t].exec = turn[t].exec /\ \A u \in TurnIds \ {t} : turn'[u] = turn[u]
    BY <1>0, <2>2, <2>3 DEF TurnOK, TurnState
  <2> QED
    BY <1>0, <1>9, <2>2, <2>4, PaidTurn DEF Save, Running
<1>10. CASE Insert(s) \/ SavePartial(s)
  <2>1. PICK t : t = task[s].tid
    OBVIOUS
  <2>2. t \in TurnIds
    BY <1>0, <1>10, <2>1 DEF Insert, SavePartial, At, HandlerFits, Storing
  <2>3. (UNCHANGED turn \/ Reply(t)) /\ holds' = holds
    BY <1>10, <2>1 DEF Insert, SavePartial
  <2>4. CASE Reply(t)
    <3>1. turn'[t].exec = turn[t].exec /\ \A u \in TurnIds \ {t} : turn'[u] = turn[u]
      BY <1>0, <2>2, <2>4, ReplyOf
    <3> QED
      BY <1>0, <2>2, <2>3, <3>1, PaidTurn DEF Running
  <2> QED
    BY <2>3, <2>4, PaidStill
<1>11. CASE Dispatch(s) \/ Gate(s) \/ Take(s) \/ ChooseNow(s) \/ Restart(s)
  BY <1>11, PaidStill DEF Dispatch, Gate, Take, ChooseNow, Restart
<1>12. CASE Merge(s)
  <2>1. PICK t : t = task[s].tid
    OBVIOUS
  <2>2. t \in TurnIds
    <3>1. t # 0 /\ t \in 0..MaxTurns
      BY <1>0, <1>12, <2>1 DEF Merge, Called, HandlerFits, Task
    <3> QED
      BY <3>1, TurnAssumption DEF TurnIds, TurnAssumption
  <2>3. /\ holds' = holds
        /\ \/ UNCHANGED turn
           \/ turn' = [turn EXCEPT ![t].done = TRUE, ![t].exec = Cancelled(t)]
           \/ turn' = [turn EXCEPT ![t].done = TRUE]
    BY <1>12, <2>1 DEF Merge
  <2>4. turn'[t].exec \in {turn[t].exec, Cancelled(t)} /\ \A u \in TurnIds \ {t} : turn'[u] = turn[u]
    <3>1. PICK exec : exec = Cancelled(t)
      OBVIOUS
    <3> QED
      BY <1>0, <2>2, <2>3, <3>1 DEF TurnOK, TurnState
  <2>5. Cancelled(t) = "running" => Running(t)
    BY DEF Cancelled, Running
  <2> QED
    BY <1>0, <2>2, <2>3, <2>4, <2>5, PaidTurn DEF Running
<1>13. CASE Exit(s)
  BY <1>0, <1>13, PaidReboot DEF Exit
<1> QED
  BY <1>1, <1>2, <1>3, <1>4, <1>5, <1>6, <1>7, <1>8, <1>9, <1>10, <1>11, <1>12, <1>13 DEF Step

(* The model's callbacks: a job settles when its execution is over.        *)
LEMMA PaidModel ==
  ASSUME SlotInv, PaidInv, NEW t \in TurnIds, Model(t)
  PROVE  PaidInv'
<1>0. TurnOK
  BY DEF SlotInv, TypeOK, TurnOK
<1>1. ASSUME NEW exec, exec # "running", Finish(t, exec)
      PROVE  turn'[t].exec # "running" /\ \A u \in TurnIds \ {t} : turn'[u] = turn[u]
  BY <1>0, <1>1, EndOf DEF Finish
<1>2. CASE OnDone(t)
  BY <1>0, <1>1, <1>2, PaidSettles DEF OnDone
<1>3. ASSUME NEW lost \in BOOLEAN, OnError(t, lost) PROVE PaidInv'
  <2>1. PICK exec : exec \in {"ended", "failed"} /\ Finish(t, exec)
    BY <1>3 DEF OnError
  <2> QED
    BY <1>0, <1>1, <1>3, <2>1, PaidSettles DEF OnError
<1>4. CASE OnDenied(t)
  BY <1>0, <1>1, <1>4, PaidTurn DEF OnDenied
<1>5. CASE EndUnheard(t)
  <2>1. turn' = [turn EXCEPT ![t].exec = "ended"] /\ MaySettle(t)
    BY <1>5 DEF EndUnheard
  <2>2. turn'[t].exec = "ended" /\ \A u \in TurnIds \ {t} : turn'[u] = turn[u]
    BY <1>0, <2>1, ExecOf
  <2> QED
    BY <1>0, <2>1, <2>2, PaidSettles
<1>6. CASE Finalize(t)
  <2>1. Reply(t) /\ holds' = holds
    BY <1>6 DEF Finalize
  <2>2. turn'[t].exec = turn[t].exec /\ \A u \in TurnIds \ {t} : turn'[u] = turn[u]
    BY <1>0, <2>1, ReplyOf
  <2> QED
    BY <1>0, <2>1, <2>2, PaidTurn DEF Running
<1> QED
  BY <1>2, <1>3, <1>4, <1>5, <1>6 DEF Model

(* The world outside: another chat pays only when nobody runs.             *)
LEMMA PaidUser ==
  ASSUME SlotInv, PaidInv, User
  PROVE  PaidInv'
<1>0. TurnOK
  BY DEF SlotInv, TypeOK, TurnOK
<1>1. ASSUME NEW kind, NEW stored, Manage(kind, stored) PROVE PaidInv'
  BY <1>1, PaidStill DEF Manage
<1>2. ASSUME NEW i \in Inputs, Send(i) \/ Resend(i) PROVE PaidInv'
  BY <1>2, PaidStill DEF Send, Resend
<1>3. CASE Stop \/ Shutdown
  <2>1. PICK a : a = active
    OBVIOUS
  <2>2. Cancelled(a) = "running" => Running(a)
    BY DEF Cancelled, Running
  <2>3. ASSUME NEW t \in TurnIds
        PROVE  turn'[t].exec \in {turn[t].exec, IF t = a THEN Cancelled(a) ELSE turn[t].exec}
    <3>1. turn[t] \in TurnState
      BY <1>0 DEF TurnOK
    <3>2. PICK exec : exec = Cancelled(a)
      OBVIOUS
    <3>3. CASE Stop
      <4>1. turn' = [turn EXCEPT ![a].done = TRUE, ![a].exec = exec]
        BY <2>1, <3>2, <3>3 DEF Stop
      <4> QED
        BY <1>0, <3>1, <3>2, <4>1 DEF TurnOK, TurnState
    <3>4. CASE Shutdown
      BY <1>0, <2>1, <3>1, <3>4 DEF Shutdown, TurnState
    <3> QED
      BY <1>3, <3>3, <3>4
  <2>4. holds' = holds
    BY <1>3 DEF Stop, Shutdown
  <2> QED
    BY <2>2, <2>3, <2>4, PaidQuiet DEF NoneLaunched, Running
<1>4. CASE Connect
  BY <1>4, PaidStill DEF Connect
<1>5. CASE OtherChatPays
  BY <1>5 DEF OtherChatPays, PaidInv, Running
<1>6. CASE Crash
  BY <1>0, <1>6, PaidReboot DEF Crash
<1>7. ASSUME NEW i \in DOMAIN db.rows, SendNow(i) PROVE PaidInv'
  BY <1>7, PaidStill DEF SendNow
<1> QED
  BY <1>1, <1>2, <1>3, <1>4, <1>5, <1>6, <1>7
  DEF User, EditQueued, DeleteQueued, ReorderQueued, Erase

(* In a paid chat a stop leaves the execution to end in the background;    *)
(* accounting admission still lets no second one run, because only a job   *)
(* whose execution is over is settled.  A free chat has no such guard.     *)
THEOREM OneExecutionPaid == Paid => (Spec => []OneExecution)
<1> SUFFICES ASSUME Paid PROVE Spec => []OneExecution
  OBVIOUS
<1>1. Init => PaidInv
  BY DEF Init, PaidInv, Running, NoTurn
<1>2. SlotInv /\ TurnInv /\ PaidInv /\ [Next]_vars => PaidInv'
  <2> SUFFICES ASSUME SlotInv, TurnInv, PaidInv, [Next]_vars PROVE PaidInv'
    OBVIOUS
  <2>1. ASSUME NEW h \in holds, Settle(h) PROVE PaidInv'
    <3>1. \A t \in TurnIds : Running(t) => t # h
      <4>1. 0 \notin TurnIds
        BY DEF TurnIds
      <4> QED
        BY <2>1, <4>1 DEF Settle, Running
    <3>2. NoneLaunched
      BY <2>1, <3>1 DEF Settle, NoneLaunched, Running
    <3> QED
      BY <3>2, PaidQuiet
  <2>2. CASE UNCHANGED vars
    BY <2>2, PaidStill DEF vars
  <2> QED
    BY <2>1, <2>2, PaidStep, PaidModel, PaidUser DEF Next
<1>3. PaidInv => OneExecution
  BY DEF PaidInv, OneExecution
<1> QED
  BY <1>1, <1>2, <1>3, TurnInvKept, PTL DEF Spec

-----------------------------------------------------------------------------
(* No question is dropped.                                                 *)

(* Nothing is lost from outside: the process goes on, no preparation       *)
(* throws, "send now" is not used and no message is deleted over REST; if  *)
(* queued questions may be deleted, none is sent again.  Everything else   *)
(* may happen in any order and as often as the budgets say.                *)
Undisturbed ==
  \A b \in Budgets :
    /\ \A k \in {"crash", "shutdown", "fault", "erase", "now"} : b[k] = 0
    /\ b["drop"] = 0 \/ b["resend"] = 0

Quiet ==
  /\ \A k \in {"crash", "shutdown", "fault", "erase", "now"} : budget[k] = 0
  /\ budget["drop"] = 0 \/ budget["resend"] = 0

(* A handler with a question that is neither queued nor given to a turn.   *)
Bears(h) ==
  \/ h.pc \in {"check", "park", "restore", "prepare", "late", "requeue", "keep", "retry"}
  \/ h.pc = "setPause" /\ h.then = "prepare"

Carried(h) == Bears(h) \/ h.pc = "launch"

(* Nobody answers "send now" and the process does not stop.                *)
Ordinary(h) ==
  /\ h.pc \notin {"now", "merge", "restart", "exit"} /\ h.via # "flush"
  /\ h.pc = "setPause" => h.then # "restart"

(* A turn that may still put its question back.                            *)
Live(t) == Had(t) /\ ~turn[t].done

(* The questions that may have to be queued again are stored.              *)
BorneStored ==
  /\ \A s \in Slots : Bears(task[s]) /\ (task[s].pc = "check" => budget["drop"] > 0)
       => task[s].msg \in Stored(db)
  /\ \A t \in TurnIds : Live(t) => turn[t].msg \in Stored(db)

(* A turn is about the question of the handler that makes it.              *)
SameQuestion ==
  \A s \in Slots : task[s].pc \in {"late", "launch"} => turn[task[s].tid].msg = task[s].msg

(* A question is in one place: a row, a handler or a turn.  Whoever        *)
(* deletes a row then takes the message from nobody else.                  *)
Alone ==
  /\ \A s \in Slots : Bears(task[s]) => task[s].msg \notin Msgs(db.rows)
  /\ \A r, s \in Slots : Bears(task[r]) /\ Bears(task[s]) /\ task[r].msg = task[s].msg => r = s
  /\ \A t \in TurnIds : Live(t) => turn[t].msg \notin Msgs(db.rows)
  /\ \A t \in TurnIds, s \in Slots : Live(t) /\ Bears(task[s]) => turn[t].msg # task[s].msg
  /\ \A t, u \in TurnIds : Live(t) /\ Live(u) /\ turn[t].msg = turn[u].msg => t = u

(* A turn that answers for its question: it had the slot and did not fail. *)
Answers(t) == turn[t].exec \notin {"free", "refused", "failed"}

Answered(m) == \E t \in TurnIds : Answers(t) /\ turn[t].msg = m

Covered(m) ==
  \/ m \in Msgs(db.rows) \cup refused \/ Answered(m)
  \/ \E s \in Slots : Carried(task[s]) /\ task[s].msg = m

(* NothingDropped with what makes it inductive.                            *)
QuietInv ==
  /\ Quiet /\ (\A s \in Slots : Ordinary(task[s])) /\ BorneStored /\ SameQuestion
  /\ budget["drop"] > 0 => Alone
  /\ \A m \in Stored(db) : Covered(m)

(* Events only use the budget up.                                          *)
Spent == \A k \in Kinds : budget[k] \in Nat /\ budget'[k] \in Nat /\ budget'[k] <= budget[k]

(* An action with a budget could be taken and leaves less of it.           *)
LEMMA SpentBudget ==
  ASSUME budget \in [Kinds -> Nat]
  PROVE  /\ UNCHANGED budget => Spent
         /\ \A kind \in Kinds : Spend(kind) => Spent /\ budget[kind] > 0
<1>1. ASSUME NEW kind \in Kinds, Spend(kind) PROVE Spent /\ budget[kind] > 0
  <2>1. \A k \in Kinds : budget'[k] = IF k = kind THEN budget[k] - 1 ELSE budget[k]
    BY <1>1 DEF Spend
  <2>2. \A k \in Kinds : budget[k] \in Nat
    OBVIOUS
  <2>3. budget[kind] > 0
    BY <1>1 DEF Spend
  <2> QED
    BY <2>1, <2>2, <2>3 DEF Spent
<1>2. UNCHANGED budget => Spent
  BY DEF Spent
<1> QED
  BY <1>1, <1>2

(* What no step does to a turn: change its question, or let it have never  *)
(* had the slot.                                                           *)
TurnKept(t) ==
  /\ turn[t].exec # "free" => turn'[t].msg = turn[t].msg
  /\ Had(t) => Had(t)'

(* The steps that give nobody the slot.                                    *)
Ebbing == \A t \in TurnIds : TurnKept(t) /\ (Live(t)' => Live(t))

(* And those after which every turn answers for its question as before.    *)
Calmer == Ebbing /\ \A t \in TurnIds : Answers(t) => Answers(t)'

(* A step that touches no turn gives nobody the slot.                      *)
LEMMA CalmerStill == UNCHANGED turn => Calmer
BY DEF Calmer, Ebbing, TurnKept, Live, Had, Answers

(* Nor does the end of a turn that had it.                                 *)
LEMMA EbbingEnd ==
  ASSUME TurnOK, NEW t \in TurnIds, Had(t), NEW exec, exec \notin {"free", "refused"},
         turn' = [turn EXCEPT ![t].done = TRUE, ![t].exec = exec]
  PROVE  Ebbing /\ ~Live(t)' /\ \A u \in TurnIds \ {t} : Answers(u) => Answers(u)'
<1>1. /\ turn'[t].done = TRUE /\ turn'[t].exec = exec /\ turn'[t].msg = turn[t].msg
      /\ \A u \in TurnIds \ {t} : turn'[u] = turn[u]
  BY DEF TurnOK, TurnState
<1> QED
  BY <1>1 DEF Ebbing, TurnKept, Live, Had, Answers

(* Unless the turn failed it answers for its question after its end, too.  *)
LEMMA CalmerEnd ==
  ASSUME TurnOK, NEW t \in TurnIds, Had(t), NEW exec, exec \notin {"free", "refused"},
         Answers(t) => exec # "failed",
         turn' = [turn EXCEPT ![t].done = TRUE, ![t].exec = exec]
  PROVE  Calmer
<1>1. turn'[t].exec = exec
  BY DEF TurnOK, TurnState
<1> QED
  BY <1>1, EbbingEnd DEF Calmer, Answers

(* Nor does an execution that goes on or ends.                             *)
LEMMA CalmerExec ==
  ASSUME TurnOK, NEW t \in TurnIds, Had(t),
         NEW exec, exec \notin {"free", "refused", "failed"},
         turn' = [turn EXCEPT ![t].exec = exec]
  PROVE  Calmer
<1>1. /\ turn'[t].done = turn[t].done /\ turn'[t].exec = exec /\ turn'[t].msg = turn[t].msg
      /\ \A u \in TurnIds \ {t} : turn'[u] = turn[u]
  BY DEF TurnOK, TurnState
<1> QED
  BY <1>1 DEF Calmer, Ebbing, TurnKept, Live, Had, Answers

(* Nor do the reply of a turn and its last save.                           *)
LEMMA CalmerReply ==
  ASSUME TurnOK, NEW t \in TurnIds, Reply(t) \/ turn' = [turn EXCEPT ![t].saved = TRUE]
  PROVE  Calmer
<1>1. /\ turn'[t].done = turn[t].done /\ turn'[t].exec = turn[t].exec
      /\ turn'[t].msg = turn[t].msg
      /\ \A u \in TurnIds \ {t} : turn'[u] = turn[u]
  BY DEF TurnOK, TurnState, Reply
<1> QED
  BY <1>1 DEF Calmer, Ebbing, TurnKept, Live, Had, Answers

(* Quiet stays quiet.                                                      *)
LEMMA QuietSpent ==
  ASSUME QuietInv, Spent
  PROVE  Quiet' /\ (budget'["drop"] > 0 => budget["drop"] > 0)
<1>1. "drop" \in Kinds /\ "resend" \in Kinds
      /\ \A k \in {"crash", "shutdown", "fault", "erase", "now"} : k \in Kinds
  BY DEF Kinds
<1>2. \A k \in Kinds : budget[k] = 0 => budget'[k] = 0
  BY DEF Spent
<1>3. budget'["drop"] > 0 => budget["drop"] # 0
  BY <1>1, <1>2 DEF Spent
<1>4. budget["drop"] \in Nat
  BY <1>1 DEF Spent
<1> QED
  BY <1>1, <1>2, <1>3, <1>4 DEF Quiet, QuietInv

(* A handler that is not resumed still makes a turn of its own question.   *)
LEMMA QuestionKept ==
  ASSUME TurnInv, QuietInv, \A t \in TurnIds : TurnKept(t),
         NEW r \in Slots, task[r].pc \in {"late", "launch"}
  PROVE  turn'[task[r].tid].msg = task[r].msg
<1>1. task[r].tid \in TurnIds /\ turn[task[r].tid].exec # "free"
  BY DEF TurnInv, HandlersFit, HandlerFits
<1>2. turn'[task[r].tid].msg = turn[task[r].tid].msg
  BY <1>1 DEF TurnKept
<1> QED
  BY <1>2 DEF QuietInv, SameQuestion

(* One handler goes on as h.                                               *)
LEMMA QuietMove ==
  ASSUME HandlersOK, TurnInv, QuietInv, Spent, \A t \in TurnIds : TurnKept(t),
         NEW s \in Slots, NEW h, Become(s, h), Ordinary(h),
         \A t \in TurnIds : Answers(t) => Answers(t)' \/ (Carried(h) /\ h.msg = turn[t].msg),
         refused \subseteq refused', Stored(db) \subseteq Stored(db'),
         \A m \in Stored(db') \ Stored(db) : Carried(h) /\ h.msg = m,
         \A m \in Msgs(db.rows) \ Msgs(db'.rows) : Carried(h) /\ h.msg = m,
         Bears(h) => h.msg \in Stored(db') \/ (h.pc = "check" /\ budget["drop"] = 0),
         \A t \in TurnIds : Live(t)' => turn'[t].msg \in Stored(db'),
         h.pc \in {"late", "launch"} => turn'[h.tid].msg = h.msg,
         Carried(task[s]) => \/ task[s].msg \in Msgs(db'.rows) \cup refused'
                             \/ Carried(h) /\ h.msg = task[s].msg
                             \/ \E t \in TurnIds : Answers(t)' /\ turn'[t].msg = task[s].msg,
         budget["drop"] > 0 => Alone'
  PROVE  QuietInv'
<1>0. \A r \in Slots : task'[r] = IF r = s THEN h ELSE task[r]
  BY DEF Become, HandlersOK
<1>2. Quiet' /\ (budget'["drop"] > 0 => budget["drop"] > 0)
  BY QuietSpent
<1>3. \A r \in Slots : Ordinary(task'[r])
  BY <1>0 DEF QuietInv
<1>4. BorneStored'
  <2>1. \A r \in Slots : Bears(task'[r]) /\ (task'[r].pc = "check" => budget'["drop"] > 0)
          => task'[r].msg \in Stored(db')
    BY <1>0, <1>2 DEF QuietInv, BorneStored
  <2> QED
    BY <2>1 DEF BorneStored
<1>5. SameQuestion'
  <2>1. \A r \in Slots \ {s} : task[r].pc \in {"late", "launch"}
          => turn'[task[r].tid].msg = task[r].msg
    BY QuestionKept
  <2>2. \A r \in Slots : task'[r].pc \in {"late", "launch"} => turn'[task'[r].tid].msg = task'[r].msg
    BY <1>0, <2>1
  <2> QED
    BY <2>2 DEF SameQuestion
<1>6. ASSUME NEW m \in Stored(db') PROVE Covered(m)'
  <2>1. CASE Carried(h) /\ h.msg = m
    BY <1>0, <2>1 DEF Covered
  <2>2. CASE ~(Carried(h) /\ h.msg = m)
    <3>1. Covered(m) /\ (m \in Msgs(db.rows) => m \in Msgs(db'.rows))
      BY <2>2 DEF QuietInv
    <3>2. CASE Answered(m)
      <4>1. PICK t \in TurnIds : Answers(t) /\ turn[t].msg = m
        BY <3>2 DEF Answered
      <4>2. Answers(t)'
        BY <2>2, <4>1
      <4>3. turn'[t].msg = m
        BY <4>1 DEF TurnKept, Answers
      <4> QED
        BY <4>2, <4>3 DEF Covered, Answered
    <3>3. CASE \E r \in Slots : Carried(task[r]) /\ task[r].msg = m
      <4>1. PICK r \in Slots : Carried(task[r]) /\ task[r].msg = m
        BY <3>3
      <4>2. CASE r = s
        <5>1. \/ m \in Msgs(db'.rows) \cup refused'
              \/ \E t \in TurnIds : Answers(t)' /\ turn'[t].msg = m
          BY <2>2, <4>1, <4>2
        <5> QED
          BY <5>1 DEF Covered, Answered
      <4>3. CASE r # s
        BY <1>0, <4>1, <4>3 DEF Covered
      <4> QED
        BY <4>2, <4>3
    <3> QED
      BY <3>1, <3>2, <3>3 DEF Covered
  <2> QED
    BY <2>1, <2>2
<1> QED
  BY <1>2, <1>3, <1>4, <1>5, <1>6 DEF QuietInv

(* Nothing is in a place where it was not before.                          *)
LEMMA AloneFewer ==
  ASSUME HandlersOK, Alone, Calmer, NEW s \in Slots, NEW h, Become(s, h),
         Bears(h) => Bears(task[s]) /\ h.msg = task[s].msg,
         Msgs(db'.rows) \subseteq Msgs(db.rows)
  PROVE  Alone'
<1>0. \A r \in Slots : task'[r] = IF r = s THEN h ELSE task[r]
  BY DEF Become, HandlersOK
<1>1. \A t \in TurnIds : Live(t)' => Live(t) /\ turn'[t].msg = turn[t].msg
  BY DEF Calmer, Ebbing, TurnKept, Live, Had
<1>2. \A r \in Slots : Bears(task'[r]) => Bears(task[r]) /\ task'[r].msg = task[r].msg
  BY <1>0
<1> HIDE DEF Bears, Live
<1> QED
  BY <1>1, <1>2 DEF Alone

(* A handler goes on with its question, or is done with it.                *)
LEMMA QuietOn ==
  ASSUME HandlersOK, TurnInv, QuietInv, Spent, Calmer,
         NEW s \in Slots, NEW h, Become(s, h), Ordinary(h), refused \subseteq refused',
         Stored(db') = Stored(db), Msgs(db'.rows) = Msgs(db.rows),
         Bears(h) => /\ Bears(task[s]) /\ h.msg = task[s].msg /\ h.pc # "check"
                     /\ task[s].pc # "check" \/ h.msg \in Stored(db),
         h.pc \in {"late", "launch"} => turn'[h.tid].msg = h.msg,
         Carried(task[s]) => \/ task[s].msg \in refused'
                             \/ Carried(h) /\ h.msg = task[s].msg
                             \/ \E t \in TurnIds : Answers(t)' /\ turn'[t].msg = task[s].msg
  PROVE  QuietInv'
<1>1. \A t \in TurnIds : Live(t)' => turn'[t].msg \in Stored(db')
  BY DEF Calmer, Ebbing, TurnKept, Live, Had, QuietInv, BorneStored
<1>2. Bears(h) => h.msg \in Stored(db')
  BY DEF QuietInv, BorneStored
<1>3. budget["drop"] > 0 => Alone'
  BY AloneFewer DEF QuietInv
<1>4. /\ \A t \in TurnIds : TurnKept(t)
      /\ \A t \in TurnIds : Answers(t) => Answers(t)'
  BY DEF Calmer, Ebbing
<1> QED
  BY <1>1, <1>2, <1>3, <1>4, QuietMove

(* No handler goes on.  A deleted message is nobody's.                     *)
LEMMA QuietStill ==
  ASSUME HandlersOK, TurnInv, QuietInv, Spent, Calmer, UNCHANGED <<task, refused>>,
         Stored(db') \subseteq Stored(db), Msgs(db'.rows) \subseteq Msgs(db.rows),
         \A m \in Msgs(db.rows) \ Msgs(db'.rows) : m \notin Stored(db'),
         \A m \in Stored(db) \ Stored(db') :
           /\ \A s \in Slots : Bears(task[s]) => task[s].msg # m
           /\ \A t \in TurnIds : Live(t) => turn[t].msg # m
  PROVE  QuietInv'
<1>2. Quiet' /\ (budget'["drop"] > 0 => budget["drop"] > 0)
  BY QuietSpent
<1>3. \A t \in TurnIds : Live(t)' => Live(t) /\ turn'[t].msg = turn[t].msg
  BY DEF Calmer, Ebbing, TurnKept, Live, Had
<1>4. BorneStored'
  <2>1. \A s \in Slots : Bears(task[s]) /\ (task[s].pc = "check" => budget'["drop"] > 0)
          => task[s].msg \in Stored(db')
    BY <1>2 DEF QuietInv, BorneStored
  <2>2. \A t \in TurnIds : Live(t)' => turn'[t].msg \in Stored(db')
    BY <1>3 DEF QuietInv, BorneStored
  <2> QED
    BY <2>1, <2>2 DEF BorneStored
<1>5. SameQuestion'
  <2>1. \A t \in TurnIds : TurnKept(t)
    BY DEF Calmer, Ebbing
  <2>2. \A r \in Slots : task[r].pc \in {"late", "launch"}
          => turn'[task[r].tid].msg = task[r].msg
    BY <2>1, QuestionKept
  <2> QED
    BY <2>2 DEF SameQuestion
<1>6. budget'["drop"] > 0 => Alone'
  <2> SUFFICES ASSUME budget'["drop"] > 0 PROVE Alone'
    OBVIOUS
  <2>1. Alone
    BY <1>2 DEF QuietInv
  <2> QED
    BY <1>3, <2>1 DEF Alone
<1>7. ASSUME NEW m \in Stored(db') PROVE Covered(m)'
  <2>1. Covered(m) /\ (m \in Msgs(db.rows) => m \in Msgs(db'.rows))
    BY DEF QuietInv
  <2>2. Answered(m) => Answered(m)'
    BY DEF Answered, Answers, Calmer, Ebbing, TurnKept
  <2> QED
    BY <2>1, <2>2 DEF Covered
<1>8. \A s \in Slots : Ordinary(task'[s])
  BY DEF QuietInv
<1> QED
  BY <1>2, <1>4, <1>5, <1>6, <1>7, <1>8 DEF QuietInv

(* The record with which a handler goes on.                                *)
LEMMA ResumeAs ==
  ASSUME HandlersOK, NEW s \in Slots, NEW pc, Resume(s, pc)
  PROVE  \E h : /\ Become(s, h) /\ h.pc = pc
                /\ h.via \in {"ws", task[s].via}
                /\ pc # "idle" => /\ h.msg = task[s].msg /\ h.then = task[s].then
                                  /\ h.tid = task[s].tid
<1>1. CASE pc = "idle"
  <2>1. Become(s, Idle)
    BY <1>1 DEF Resume
  <2>2. Idle.pc = "idle" /\ Idle.via = "ws"
    BY DEF Idle
  <2> QED
    BY <1>1, <2>1, <2>2
<1>2. CASE pc # "idle"
  <2>1. PICK h : h = [task[s] EXCEPT !.pc = pc]
    OBVIOUS
  <2>2. Become(s, h)
    BY <1>2, <2>1 DEF Resume
  <2>3. /\ h.pc = pc /\ h.via = task[s].via /\ h.msg = task[s].msg
        /\ h.then = task[s].then /\ h.tid = task[s].tid
    BY <2>1 DEF HandlersOK, Task
  <2> QED
    BY <2>2, <2>3
<1> QED
  BY <1>1, <1>2

(* A handler that sets the pause carries on as the one it was.             *)
LEMMA PauseAs ==
  ASSUME HandlersOK, NEW s \in Slots, NEW value, NEW next, Pause(s, value, next)
  PROVE  \E h : /\ Become(s, h) /\ h.pc = "setPause" /\ h.then = next
                /\ h.via = task[s].via /\ h.msg = task[s].msg
<1>1. PICK h : h = [task[s] EXCEPT !.pc = "setPause", !.pause = value, !.then = next]
  OBVIOUS
<1>2. Become(s, h)
  BY <1>1 DEF Pause
<1>3. /\ h.pc = "setPause" /\ h.then = next
      /\ h.via = task[s].via /\ h.msg = task[s].msg
  BY <1>1 DEF HandlersOK, Task
<1> QED
  BY <1>2, <1>3

(* A handler goes on while the data and the turns stay as they are.        *)
LEMMA QuietHandler ==
  ASSUME HandlersOK, TurnInv, QuietInv, Spent, UNCHANGED turn,
         NEW s \in Slots, NEW h, Become(s, h), h.via # "flush", refused \subseteq refused',
         Stored(db') = Stored(db), Msgs(db'.rows) = Msgs(db.rows),
         h.pc \notin {"now", "merge", "restart", "exit", "late", "launch", "check"},
         h.pc = "setPause" => h.then # "restart",
         Bears(h) => /\ Bears(task[s]) /\ h.msg = task[s].msg
                     /\ task[s].pc # "check" \/ h.msg \in Stored(db),
         Carried(task[s]) => task[s].msg \in refused' \/ (Bears(h) /\ h.msg = task[s].msg)
  PROVE  QuietInv'
<1>1. Ordinary(h)
  BY DEF Ordinary
<1>2. Calmer
  BY CalmerStill
<1>3. Carried(task[s]) => task[s].msg \in refused' \/ (Carried(h) /\ h.msg = task[s].msg)
  BY DEF Carried
<1> QED
  BY <1>1, <1>2, <1>3, QuietOn

(* start(), admission: the question is refused aloud or carried on.        *)
LEMMA QuietAdmission ==
  ASSUME TypeInv, TurnInv, QuietInv, NEW s \in Slots,
         Deny(s) \/ RefusePending(s) \/ FindBusy(s) \/ ClaimSlot(s)
  PROVE  QuietInv'
<1>1. HandlersOK /\ budget \in [Kinds -> Nat]
  BY TypeParts DEF EnvironmentOK
<1>2. task[s].pc = "check" /\ UNCHANGED <<db, turn>>
  BY DEF Deny, RefusePending, FindBusy, ClaimSlot, Admissible, At, memory
<1>3. task[s].via # "flush"
  BY DEF QuietInv, Ordinary
<1>4. Spent
  <2>1. Spend("refuse") \/ UNCHANGED budget
    BY DEF Deny, RefusePending, FindBusy, ClaimSlot, history
  <2> QED
    BY <1>1, <2>1, SpentBudget DEF Kinds
<1>6. refused \subseteq refused'
  BY DEF Deny, RefusePending, FindBusy, ClaimSlot, Refuse, history
<1>7. CASE Deny(s) \/ RefusePending(s)
  <2>1. task[s].msg \in refused'
    BY <1>7 DEF Deny, RefusePending, Refuse
  <2>2. CASE Resume(s, "idle")
    <3>1. PICK h : Become(s, h) /\ h.pc = "idle" /\ h.via # "flush"
      BY <1>1, <1>3, <2>2, ResumeAs
    <3> QED
      BY <1>1, <1>2, <1>4, <1>6, <2>1, <3>1, QuietHandler DEF Bears
  <2>3. CASE /\ RefusePending(s)
             /\ Become(s, [task[s] EXCEPT !.pc = "restore", !.pause = TRUE, !.then = "idle"])
    <3>1. PICK h : h = [task[s] EXCEPT !.pc = "restore", !.pause = TRUE, !.then = "idle"]
      OBVIOUS
    <3>2. Become(s, h) /\ h.pc = "restore" /\ h.msg = task[s].msg /\ h.via = task[s].via
      BY <1>1, <2>3, <3>1 DEF HandlersOK, Task
    <3>3. task[s].msg \in Stored(db)
      BY <2>3 DEF RefusePending, Admissible, HasMessage, Stored
    <3> QED
      BY <1>1, <1>2, <1>3, <1>4, <1>6, <2>1, <3>2, <3>3, QuietHandler DEF Bears
  <2> QED
    BY <1>7, <2>2, <2>3 DEF Deny, RefusePending
<1>8. CASE FindBusy(s)
  <2>1. PICK h : Become(s, h) /\ h.pc = "park" /\ h.via # "flush" /\ h.msg = task[s].msg
    <3>1. Resume(s, "park")
      BY <1>8 DEF FindBusy
    <3> QED
      BY <1>1, <1>3, <3>1, ResumeAs
  <2>2. task[s].msg \in Stored(db)
    BY <1>8 DEF FindBusy, Admissible, HasMessage, Stored
  <2> QED
    BY <1>1, <1>2, <1>4, <1>6, <2>1, <2>2, QuietHandler DEF Bears
<1>9. CASE ClaimSlot(s)
  <2>1. PICK h : /\ Become(s, h) /\ h.pc = "setPause" /\ h.then = "prepare"
                 /\ h.via # "flush" /\ h.msg = task[s].msg
    <3>1. PICK value, next : Pause(s, value, next) /\ next = "prepare"
      BY <1>9 DEF ClaimSlot
    <3> QED
      BY <1>1, <1>3, <3>1, PauseAs
  <2>2. task[s].msg \in Stored(db)
    BY <1>9 DEF ClaimSlot, Admissible, HasMessage, Stored
  <2> QED
    BY <1>1, <1>2, <1>4, <1>6, <2>1, <2>2, QuietHandler DEF Bears
<1> QED
  BY <1>7, <1>8, <1>9

(* A question goes from its handler into the queue, or from the queue to a *)
(* handler: it is still in one place.                                      *)
LEMMA AloneQueued ==
  ASSUME HandlersOK, Alone, UNCHANGED turn, NEW s \in Slots, NEW h, Become(s, h),
         \/ Bears(task[s]) /\ ~Bears(h) /\ Msgs(db'.rows) = Msgs(db.rows) \cup {task[s].msg}
         \/ ~Bears(task[s]) /\ h.msg \in Msgs(db.rows)
            /\ Msgs(db'.rows) = Msgs(db.rows) \ {h.msg}
  PROVE  Alone'
<1>0. \A r \in Slots : task'[r] = IF r = s THEN h ELSE task[r]
  BY DEF Become, HandlersOK
<1>1. \A t \in TurnIds : (Live(t)' <=> Live(t)) /\ turn'[t].msg = turn[t].msg
  BY DEF Live, Had
<1> HIDE DEF Bears, Live
<1> QED
  BY <1>0, <1>1 DEF Alone

(* A handler that put its question into the queue lets go of it.           *)
LEMMA QuietQueued ==
  ASSUME TypeInv, StoreInv, TurnInv, QuietInv, Spent, UNCHANGED <<turn, refused>>,
         NEW s \in Slots, NEW h, Become(s, h), Bears(task[s]), task[s].pc # "check",
         h.via # "flush",
         h.pc \in {"idle", "prioritize", "markFailed", "dispatch"}
           \/ (h.pc = "setPause" /\ h.then \in {"idle", "dispatch"}),
         NEW hide \in BOOLEAN, db' = EnqueueTurn(db, task[s].msg, hide)
  PROVE  QuietInv'
<1>1. HandlersOK /\ db \in Store /\ RowsMatch(db) /\ task[s].msg \in Message
  BY TypeParts, TaskFields DEF StoreInv
<1>2. task[s].msg \in Stored(db)
  BY DEF QuietInv, BorneStored
<1>3. HasMessage(db, task[s].msg)
  BY <1>2 DEF HasMessage, Stored
<1>4. Stored(db') = Stored(db) /\ Msgs(db'.rows) = Msgs(db.rows) \cup {task[s].msg}
  BY <1>1, <1>3, EnqueueKeeps
<1>5. ~Carried(h) /\ Ordinary(h) /\ h.pc # "launch" /\ ~Bears(h)
  BY DEF Carried, Bears, Ordinary
<1>6. /\ \A t \in TurnIds : TurnKept(t)
      /\ \A t \in TurnIds : Answers(t) => Answers(t)'
  BY CalmerStill DEF Calmer, Ebbing
<1>7. \A t \in TurnIds : Live(t)' => turn'[t].msg \in Stored(db')
  BY <1>4 DEF Live, Had, QuietInv, BorneStored
<1>8. budget["drop"] > 0 => Alone'
  BY <1>1, <1>4, <1>5, AloneQueued DEF QuietInv
<1>9. h.pc \notin {"late", "launch"}
  OBVIOUS
<1> HIDE DEF Bears, Carried
<1> QED
  BY <1>1, <1>4, <1>5, <1>6, <1>7, <1>8, <1>9, QuietMove

(* The handlers' database calls.                                           *)
LEMMA QuietCall ==
  ASSUME TypeInv, StoreInv, TurnInv, QuietInv, NEW s \in Slots
  PROVE  /\ Enqueue(s) \/ Prioritize(s) \/ SetPause(s) => QuietInv'
         /\ PutBack(s) \/ MarkFailed(s) \/ Take(s) => QuietInv'
<1>1. HandlersOK /\ db \in Store /\ RowsMatch(db) /\ budget \in [Kinds -> Nat]
  BY TypeParts DEF StoreInv, EnvironmentOK
<1>2. task[s].via # "flush" /\ Flows(task[s]) /\ Ordinary(task[s])
  BY <1>1 DEF QuietInv, Ordinary, HandlersOK
<1>3. UNCHANGED budget => Spent
  BY <1>1, SpentBudget
<1>4. Bears(task[s]) /\ task[s].pc # "check" => HasMessage(db, task[s].msg)
  BY DEF QuietInv, BorneStored, HasMessage, Stored
<1>5. CASE Enqueue(s)
  <2>1. task[s].pc \in {"park", "restore"} /\ UNCHANGED <<refused, budget>>
    BY <1>5 DEF Enqueue, Called, history
  <2>2. Bears(task[s]) /\ task[s].pc # "check"
    BY <2>1 DEF Bears
  <2>3. /\ db' = EnqueueTurn(db, task[s].msg, TRUE) /\ UNCHANGED turn
        /\ Resume(s, IF At(s, "park") THEN "idle" ELSE "prioritize")
    BY <1>4, <1>5, <2>2 DEF Enqueue
  <2>4. PICK h : /\ Become(s, h) /\ h.pc \in {"idle", "prioritize"} /\ h.via # "flush"
    <3>1. PICK pc \in {"idle", "prioritize"} : Resume(s, pc)
      BY <2>3
    <3> QED
      BY <1>1, <1>2, <3>1, ResumeAs
  <2> QED
    BY <1>3, <2>1, <2>2, <2>3, <2>4, QuietQueued
<1>6. CASE PutBack(s)
  <2>1. task[s].pc \in {"requeue", "keep", "retry"} /\ UNCHANGED <<refused, budget>>
    BY <1>6 DEF PutBack, Called, history
  <2>2. Bears(task[s]) /\ task[s].pc # "check"
    BY <2>1 DEF Bears
  <2>3. /\ db' = EnqueueTurn(db, task[s].msg, FALSE) /\ UNCHANGED turn
        /\ Resume(s, CASE At(s, "requeue") -> "markFailed"
                       [] At(s, "keep") -> "setPause"
                       [] At(s, "retry") -> "dispatch")
    BY <1>4, <1>6, <2>2 DEF PutBack
  <2>4. \/ Resume(s, "markFailed") \/ Resume(s, "dispatch")
        \/ Resume(s, "setPause") /\ task[s].pc = "keep"
    <3>1. CASE task[s].pc = "requeue"
      BY <2>3, <3>1 DEF At
    <3>2. CASE task[s].pc = "keep"
      BY <2>3, <3>2 DEF At
    <3>3. CASE task[s].pc = "retry"
      BY <2>3, <3>3 DEF At
    <3> QED
      BY <2>1, <3>1, <3>2, <3>3
  <2>5. task[s].pc = "keep" => task[s].then \in {"idle", "dispatch"}
    BY <1>2 DEF Flows
  <2>6. PICK h : /\ Become(s, h) /\ h.via # "flush"
                 /\ h.pc \in {"markFailed", "dispatch"}
                    \/ (h.pc = "setPause" /\ h.then \in {"idle", "dispatch"})
    <3>1. CASE Resume(s, "markFailed")
      BY <1>1, <1>2, <3>1, ResumeAs
    <3>2. CASE Resume(s, "dispatch")
      BY <1>1, <1>2, <3>2, ResumeAs
    <3>3. CASE Resume(s, "setPause") /\ task[s].pc = "keep"
      BY <1>1, <1>2, <2>5, <3>3, ResumeAs
    <3> QED
      BY <2>4, <3>1, <3>2, <3>3
  <2> QED
    BY <1>3, <2>1, <2>2, <2>3, <2>6, QuietQueued
<1>7. CASE Prioritize(s) \/ MarkFailed(s)
  <2>1. /\ task[s].pc \in {"prioritize", "markFailed"}
        /\ UNCHANGED <<turn, refused, budget>> /\ Resume(s, "setPause")
    BY <1>7 DEF Prioritize, MarkFailed, Called, history
  <2>2. task[s].then \in {"idle", "dispatch"} /\ ~Carried(task[s])
    BY <1>2, <2>1 DEF Flows, Carried, Bears
  <2>3. PICK h : /\ Become(s, h) /\ h.via # "flush" /\ h.pc = "setPause"
                 /\ h.then \in {"idle", "dispatch"}
    BY <1>1, <1>2, <2>1, <2>2, ResumeAs
  <2>4. ~Bears(h)
    BY <2>3 DEF Bears
  <2>5. Stored(db') = Stored(db) /\ Msgs(db'.rows) = Msgs(db.rows)
    <3>1. CASE MarkFailed(s)
      BY <1>1, <3>1, MarkKeeps DEF MarkFailed
    <3>2. CASE Prioritize(s) /\ ~HasRow(db, task[s].msg)
      BY <3>2 DEF Prioritize
    <3>3. CASE Prioritize(s) /\ HasRow(db, task[s].msg)
      <4>1. PICK k \in DOMAIN db.rows : db' = PrioritizeQueuedTurn(db, k)
        BY <3>3 DEF Prioritize, HasRow
      <4> QED
        BY <1>1, <4>1, PrioritizeKeeps
    <3> QED
      BY <1>7, <3>1, <3>2, <3>3
  <2> QED
    BY <1>1, <1>3, <2>1, <2>2, <2>3, <2>4, <2>5, QuietHandler
<1>8. CASE SetPause(s)
  <2>1. /\ task[s].pc = "setPause" /\ db' = SetTurnQueuePaused(db, task[s].pause)
        /\ UNCHANGED <<turn, refused, budget>> /\ Resume(s, task[s].then)
    BY <1>8 DEF SetPause, Called, history
  <2>2. task[s].then \in {"idle", "dispatch", "prepare", "savePartial"}
    BY <1>2, <2>1 DEF Flows, Ordinary
  <2>3. PICK h : /\ Become(s, h) /\ h.via # "flush" /\ h.pc = task[s].then
                 /\ h.pc # "idle" => h.msg = task[s].msg
    BY <1>1, <1>2, <2>1, ResumeAs
  <2>4. /\ Bears(h) => Bears(task[s]) /\ h.msg = task[s].msg
        /\ Carried(task[s]) => Bears(h) /\ h.msg = task[s].msg
    BY <2>1, <2>2, <2>3 DEF Bears, Carried
  <2>5. Stored(db') = Stored(db) /\ Msgs(db'.rows) = Msgs(db.rows)
    BY <1>1, <2>1, PauseKeeps
  <2>6. /\ h.pc \notin {"now", "merge", "restart", "exit", "late", "launch", "check", "setPause"}
        /\ task[s].pc # "check"
    BY <2>1, <2>2, <2>3
  <2> QED
    BY <1>1, <1>3, <2>1, <2>3, <2>4, <2>5, <2>6, QuietHandler
<1>9. CASE Take(s)
  <2>1. task[s].pc = "take" /\ UNCHANGED <<turn, refused, budget>>
    BY <1>9 DEF Take, Called, history
  <2>2. ~Carried(task[s]) /\ ~Bears(task[s])
    BY <2>1 DEF Carried, Bears
  <2>3. CASE Waiting(db) = {}
    <3>1. Resume(s, "idle") /\ db' = db
      BY <1>9, <2>3 DEF Take
    <3>2. PICK h : Become(s, h) /\ h.via # "flush" /\ h.pc = "idle"
      BY <1>1, <1>2, <3>1, ResumeAs
    <3>3. ~Bears(h)
      BY <3>2 DEF Bears
    <3> QED
      BY <1>1, <1>3, <2>1, <2>2, <3>1, <3>2, <3>3, QuietHandler
  <2>4. CASE Waiting(db) # {}
    <3>1. PICK m : m = db.rows[NextRow(db)].msg
      OBVIOUS
    <3>2. PICK h : h = StartTask(m, "queue")
      OBVIOUS
    <3>3. Become(s, h) /\ db' = TakeQueuedTurn(db)
      BY <1>9, <2>4, <3>1, <3>2 DEF Take
    <3>4. h.pc = "check" /\ h.msg = m /\ h.via = "queue"
      BY <3>2 DEF StartTask, Idle
    <3>5. Stored(db') = Stored(db) /\ Msgs(db'.rows) = Msgs(db.rows) \ {m}
      BY <1>1, <2>4, <3>1, <3>3, TakeKeeps
    <3>6. m \in Msgs(db.rows) /\ m \in Stored(db)
      <4>1. NextRow(db) \in DOMAIN db.rows
        BY <1>1, <2>4, NextRowType
      <4>2. m \in Msgs(db.rows)
        BY <3>1, <4>1 DEF Msgs
      <4> QED
        BY <1>1, <4>2 DEF RowsMatch
    <3>7. Ordinary(h) /\ Bears(h) /\ Carried(h)
      BY <3>4 DEF Ordinary, Bears, Carried
    <3>8. budget["drop"] > 0 => Alone'
      BY <1>1, <2>1, <2>2, <3>3, <3>4, <3>5, <3>6, AloneQueued DEF QuietInv
    <3>9. /\ \A t \in TurnIds : TurnKept(t)
          /\ \A t \in TurnIds : Answers(t) => Answers(t)'
      BY <2>1, CalmerStill DEF Calmer, Ebbing
    <3>10. \A t \in TurnIds : Live(t)' => turn'[t].msg \in Stored(db')
      BY <2>1, <3>5 DEF Live, Had, QuietInv, BorneStored
    <3> QED
      BY <1>1, <1>3, <2>1, <2>2, <3>3, <3>4, <3>5, <3>6, <3>7, <3>8, <3>9, <3>10, QuietMove
  <2> QED
    BY <2>3, <2>4
<1> QED
  BY <1>5, <1>6, <1>7, <1>8, <1>9

(* A question goes from the handler that prepares to its turn.             *)
LEMMA AloneGiven ==
  ASSUME HandlersOK, Alone, NEW s \in Slots, NEW h, Become(s, h), Bears(task[s]), ~Bears(h),
         NEW t \in TurnIds, ~Live(t), turn'[t].msg = task[s].msg,
         \A u \in TurnIds \ {t} : turn'[u] = turn[u],
         db' = db
  PROVE  Alone'
<1>0. \A r \in Slots : task'[r] = IF r = s THEN h ELSE task[r]
  BY DEF Become, HandlersOK
<1>1. \A u \in TurnIds \ {t} : (Live(u)' <=> Live(u)) /\ turn'[u].msg = turn[u].msg
  BY DEF Live, Had
<1> HIDE DEF Bears, Live
<1> QED
  BY <1>0, <1>1 DEF Alone

(* No preparation throws.                                                  *)
LEMMA QuietNoFault ==
  ASSUME QuietInv, NEW s \in Slots
  PROVE  ~FailPreparation(s)
<1>1. ~Spend("fault")
  BY DEF Spend, QuietInv, Quiet
<1> QED
  BY <1>1 DEF FailPreparation

(* start(), preparation and launch.                                        *)
LEMMA QuietPreparation ==
  ASSUME TypeInv, TurnInv, QuietInv, NEW s \in Slots
  PROVE  /\ RefusePreparation(s) \/ MachineOffline(s) => QuietInv'
         /\ GrantTools(s) \/ Register(s) \/ Launch(s) => QuietInv'
<1>1. HandlersOK /\ TurnOK /\ budget \in [Kinds -> Nat]
  BY TypeParts DEF EnvironmentOK
<1>2. task[s].via # "flush" /\ HandlerFits(task[s], turn, unsaved, finalizing)
  BY DEF QuietInv, Ordinary, TurnInv, HandlersFit
<1>3. UNCHANGED budget => Spent
  BY <1>1, SpentBudget
<1>4. CASE RefusePreparation(s) \/ MachineOffline(s)
  <2>1. /\ Resume(s, "idle") /\ UNCHANGED <<db, turn>> /\ Spend("refuse")
        /\ refused' = refused \cup {task[s].msg}
    BY <1>4 DEF RefusePreparation, MachineOffline, Refuse
  <2>2. Spent
    BY <1>1, <2>1, SpentBudget DEF Kinds
  <2>3. PICK h : Become(s, h) /\ h.via # "flush" /\ h.pc = "idle"
    BY <1>1, <1>2, <2>1, ResumeAs
  <2>4. ~Bears(h)
    BY <2>3 DEF Bears
  <2>5. refused \subseteq refused' /\ task[s].msg \in refused'
    BY <2>1
  <2>6. Stored(db') = Stored(db) /\ Msgs(db'.rows) = Msgs(db.rows) /\ UNCHANGED turn
    BY <2>1
  <2> QED
    BY <1>1, <2>2, <2>3, <2>4, <2>5, <2>6, QuietHandler
<1>6. CASE GrantTools(s)
  <2>1. PICK t \in TurnIds :
          /\ turn[t].exec = "free"
          /\ turn' = [turn EXCEPT ![t] = [@ EXCEPT !.exec = "refused", !.msg = task[s].msg,
                                                   !.via = task[s].via]]
          /\ Become(s, [task[s] EXCEPT !.pc = "late", !.tid = t])
    BY <1>6 DEF GrantTools
  <2>2. task[s].pc = "prepare" /\ UNCHANGED <<db, refused, budget>>
    BY <1>6 DEF GrantTools, At, history
  <2>3. /\ turn'[t].exec = "refused" /\ turn'[t].msg = task[s].msg
        /\ \A u \in TurnIds \ {t} : turn'[u] = turn[u]
    BY <1>1, <2>1 DEF TurnOK, TurnState
  <2>4. Calmer
    BY <2>1, <2>3 DEF Calmer, Ebbing, TurnKept, Live, Had, Answers
  <2>5. PICK h : h = [task[s] EXCEPT !.pc = "late", !.tid = t]
    OBVIOUS
  <2>6. /\ h.pc = "late" /\ h.tid = t /\ h.msg = task[s].msg /\ h.via = task[s].via
        /\ Become(s, h)
    BY <1>1, <2>1, <2>5 DEF HandlersOK, Task
  <2>7. Ordinary(h) /\ Bears(h) /\ Carried(h) /\ Bears(task[s])
    BY <1>2, <2>2, <2>6 DEF Ordinary, Bears, Carried
  <2>8. /\ Stored(db') = Stored(db) /\ Msgs(db'.rows) = Msgs(db.rows)
        /\ refused \subseteq refused' /\ task[s].pc # "check" /\ Spent
    BY <1>3, <2>2
  <2>9. h.pc # "check" /\ turn'[h.tid].msg = h.msg
    BY <2>3, <2>6
  <2> QED
    BY <1>1, <2>4, <2>6, <2>7, <2>8, <2>9, QuietOn
<1>7. CASE Register(s)
  <2>1. PICK t : t = task[s].tid
    OBVIOUS
  <2>2. task[s].pc = "late" /\ UNCHANGED <<db, refused, budget>>
    BY <1>7 DEF Register, At, history
  <2>3. t \in TurnIds /\ turn[t].exec = "refused" /\ turn[t].msg = task[s].msg
    BY <1>2, <2>1, <2>2 DEF HandlerFits, QuietInv, SameQuestion
  <2>4. PICK exec \in {"new", "denied", "running"} : turn' = [turn EXCEPT ![t].exec = exec]
    BY <1>7, <2>1 DEF Register, Launched
  <2>5. /\ turn'[t].exec = exec /\ turn'[t].msg = task[s].msg
        /\ \A u \in TurnIds \ {t} : turn'[u] = turn[u]
    BY <1>1, <2>3, <2>4 DEF TurnOK, TurnState
  <2>6. /\ \A u \in TurnIds : TurnKept(u)
        /\ \A u \in TurnIds : Answers(u) => Answers(u)'
    BY <2>3, <2>5 DEF TurnKept, Had, Answers
  <2>7. PICK h : /\ Become(s, h) /\ h.via # "flush"
                 /\ h.pc = "idle" \/ (h.pc = "launch" /\ h.tid = t /\ h.msg = task[s].msg)
    <3>1. CASE Resume(s, "launch")
      BY <1>1, <1>2, <2>1, <3>1, ResumeAs
    <3>2. CASE Resume(s, "idle")
      BY <1>1, <1>2, <3>2, ResumeAs
    <3> QED
      BY <1>7, <3>1, <3>2 DEF Register
  <2>8. /\ Ordinary(h) /\ ~Bears(h) /\ Bears(task[s]) /\ task[s].pc # "check"
    BY <2>2, <2>7 DEF Ordinary, Bears
  <2>9. ~Live(t) /\ Had(t)'
    BY <2>3, <2>5 DEF Live, Had
  <2>10. budget["drop"] > 0 => Alone'
    BY <1>1, <2>2, <2>3, <2>5, <2>7, <2>8, <2>9, AloneGiven DEF QuietInv
  <2>11. \A u \in TurnIds : Live(u)' => turn'[u].msg \in Stored(db')
    <3>1. task[s].msg \in Stored(db)
      BY <2>8 DEF QuietInv, BorneStored
    <3>2. \A u \in TurnIds \ {t} : Live(u)' => turn'[u].msg \in Stored(db)
      BY <2>5 DEF Live, Had, QuietInv, BorneStored
    <3> QED
      BY <2>2, <2>5, <3>1, <3>2
  <2>12. h.pc \in {"late", "launch"} => turn'[h.tid].msg = h.msg
    BY <2>5, <2>7
  <2>13. /\ Stored(db') = Stored(db) /\ Msgs(db'.rows) = Msgs(db.rows)
         /\ refused \subseteq refused' /\ Spent
    BY <1>3, <2>2
  <2>14. \E u \in TurnIds : Answers(u)' /\ turn'[u].msg = task[s].msg
    BY <2>3, <2>5 DEF Answers
  <2> QED
    BY <1>1, <2>6, <2>7, <2>8, <2>10, <2>11, <2>12, <2>13, <2>14, QuietMove
<1>8. CASE Launch(s)
  <2>1. PICK t : t = task[s].tid
    OBVIOUS
  <2>2. task[s].pc = "launch" /\ UNCHANGED <<db, refused, budget>> /\ Resume(s, "idle")
    BY <1>8 DEF Launch, At, history
  <2>3. t \in TurnIds /\ Had(t) /\ turn[t].msg = task[s].msg
    BY <1>2, <2>1, <2>2 DEF HandlerFits, QuietInv, SameQuestion, Had
  <2>4. PICK exec \in {"denied", "running"} : turn' = [turn EXCEPT ![t].exec = exec]
    BY <1>8, <2>1 DEF Launch, Launched
  <2>5. Calmer
    BY <1>1, <2>3, <2>4, CalmerExec
  <2>6. Answers(t)' /\ turn'[t].msg = task[s].msg
    BY <1>1, <2>3, <2>4 DEF TurnOK, TurnState, Answers
  <2>7. PICK h : Become(s, h) /\ h.via # "flush" /\ h.pc = "idle"
    BY <1>1, <1>2, <2>2, ResumeAs
  <2>8. Ordinary(h) /\ ~Bears(h)
    BY <2>7 DEF Ordinary, Bears
  <2>9. /\ Stored(db') = Stored(db) /\ Msgs(db'.rows) = Msgs(db.rows)
        /\ refused \subseteq refused' /\ Spent
    BY <1>3, <2>2
  <2>10. \E u \in TurnIds : Answers(u)' /\ turn'[u].msg = task[s].msg
    BY <2>3, <2>6
  <2>11. h.pc \notin {"late", "launch"}
    BY <2>7
  <2> QED
    BY <1>1, <2>5, <2>7, <2>8, <2>9, <2>10, <2>11, QuietOn
<1> QED
  BY <1>4, <1>6, <1>7, <1>8

(* The tail of onDone, dispatchNext() and the end of a stopped turn.       *)
LEMMA QuietTail ==
  ASSUME TypeInv, TurnInv, QuietInv, NEW s \in Slots,
         Save(s) \/ Insert(s) \/ Dispatch(s) \/ Gate(s) \/ SavePartial(s)
  PROVE  QuietInv'
<1>1. HandlersOK /\ TurnOK /\ budget \in [Kinds -> Nat]
  BY TypeParts DEF EnvironmentOK
<1>2. task[s].via # "flush" /\ HandlerFits(task[s], turn, unsaved, finalizing)
  BY DEF QuietInv, Ordinary, TurnInv, HandlersFit
<1>3. /\ task[s].pc \in {"save", "insert", "dispatch", "gate", "savePartial"}
      /\ UNCHANGED <<db, refused, budget>>
  BY DEF Save, Insert, Dispatch, Gate, SavePartial, At, Called, history
<1>4. Spent
  BY <1>1, <1>3, SpentBudget
<1>5. ~Carried(task[s])
  BY <1>3 DEF Carried, Bears
<1>6. Calmer
  <2>1. CASE UNCHANGED turn
    BY <2>1, CalmerStill
  <2>2. PICK t : t = task[s].tid
    OBVIOUS
  <2>3. task[s].pc \in {"save", "insert", "savePartial"} => t \in TurnIds
    BY <1>2, <2>2 DEF HandlerFits, Storing
  <2>4. \/ UNCHANGED turn
        \/ task[s].pc \in {"save", "insert", "savePartial"}
           /\ (Reply(t) \/ turn' = [turn EXCEPT ![t].saved = TRUE])
    BY <2>2 DEF Save, Insert, Dispatch, Gate, SavePartial, At
  <2> QED
    BY <1>1, <2>1, <2>3, <2>4, CalmerReply
<1>7. PICK h : /\ Become(s, h) /\ h.via # "flush"
               /\ h.pc \in {"idle", "insert", "dispatch", "gate", "take"}
                  \/ (h.pc = "setPause" /\ h.then = "idle")
  <2>1. CASE \E value \in BOOLEAN : Pause(s, value, "idle")
    <3>1. PICK value, next : Pause(s, value, next) /\ next = "idle"
      BY <2>1
    <3> QED
      BY <1>1, <1>2, <3>1, PauseAs
  <2>2. CASE \E pc \in {"idle", "insert", "dispatch", "gate", "take"} : Resume(s, pc)
    BY <1>1, <1>2, <2>2, ResumeAs
  <2>3. CASE Save(s)
    BY <2>2, <2>3 DEF Save
  <2>4. CASE Insert(s)
    BY <2>2, <2>4 DEF Insert
  <2>5. CASE Dispatch(s)
    BY <2>2, <2>5 DEF Dispatch
  <2>6. CASE Gate(s)
    BY <2>1, <2>2, <2>6 DEF Gate
  <2>7. CASE SavePartial(s)
    BY <1>2, <2>2, <2>7 DEF SavePartial
  <2> QED
    BY <2>3, <2>4, <2>5, <2>6, <2>7
<1>8. Ordinary(h) /\ ~Bears(h)
  BY <1>7 DEF Ordinary, Bears
<1> QED
  BY <1>1, <1>3, <1>4, <1>5, <1>6, <1>7, <1>8, QuietOn

(* A question goes back from its turn to a handler.                        *)
LEMMA AloneReturned ==
  ASSUME HandlersOK, Alone, Ebbing, NEW s \in Slots, NEW h, Become(s, h),
         NEW t \in TurnIds, Live(t), ~Live(t)', h.msg = turn[t].msg, db' = db
  PROVE  Alone'
<1>0. \A r \in Slots : task'[r] = IF r = s THEN h ELSE task[r]
  BY DEF Become, HandlersOK
<1>1. \A u \in TurnIds : Live(u)' => Live(u) /\ u # t /\ turn'[u].msg = turn[u].msg
  BY DEF Ebbing, TurnKept, Live, Had
<1> HIDE DEF Bears, Live
<1> QED
  BY <1>0, <1>1 DEF Alone

(* A question that was not stored before is nobody's but its handler's.    *)
LEMMA AloneSent ==
  ASSUME HandlersOK, Alone, UNCHANGED turn, NEW s \in Slots, NEW h, Become(s, h),
         \A r \in Slots : Bears(task[r]) => task[r].msg # h.msg,
         \A t \in TurnIds : Live(t) => turn[t].msg # h.msg,
         h.msg \notin Msgs(db.rows), Msgs(db'.rows) = Msgs(db.rows)
  PROVE  Alone'
<1>0. \A r \in Slots : task'[r] = IF r = s THEN h ELSE task[r]
  BY DEF Become, HandlersOK
<1>1. \A t \in TurnIds : (Live(t)' <=> Live(t)) /\ turn'[t].msg = turn[t].msg
  BY DEF Live, Had
<1> HIDE DEF Bears, Live
<1> QED
  BY <1>0, <1>1 DEF Alone

(* onError and a refused admission: the question is to be queued again.    *)
LEMMA QuietReturned ==
  ASSUME HandlersOK, TurnInv, QuietInv, Spent, Ebbing, UNCHANGED <<db, refused>>,
         NEW t \in TurnIds, Live(t), ~Live(t)',
         \A u \in TurnIds \ {t} : Answers(u) => Answers(u)',
         NEW s \in Slots, task[s].pc = "idle", NEW h, Become(s, h), h.via = "ws",
         h.pc \in {"retry", "requeue", "keep", "restore"}, h.msg = turn[t].msg
  PROVE  QuietInv'
<1>1. Ordinary(h) /\ Bears(h) /\ ~Carried(task[s]) /\ h.pc \notin {"late", "launch"}
  BY DEF Ordinary, Bears, Carried
<1>2. h.msg \in Stored(db') /\ Stored(db') = Stored(db) /\ Msgs(db'.rows) = Msgs(db.rows)
  BY DEF QuietInv, BorneStored
<1>3. budget["drop"] > 0 => Alone'
  BY AloneReturned DEF QuietInv
<1>4. /\ \A u \in TurnIds : TurnKept(u)
      /\ \A u \in TurnIds : Answers(u) => Answers(u)' \/ (Carried(h) /\ h.msg = turn[u].msg)
  BY <1>1 DEF Ebbing, Carried
<1>5. \A u \in TurnIds : Live(u)' => turn'[u].msg \in Stored(db')
  BY <1>2 DEF Ebbing, TurnKept, Live, Had, QuietInv, BorneStored
<1> QED
  BY <1>1, <1>2, <1>3, <1>4, <1>5, QuietMove

(* The model's callbacks.                                                  *)
LEMMA QuietModel ==
  ASSUME TypeInv, TurnInv, QuietInv, NEW t \in TurnIds, Model(t)
  PROVE  QuietInv'
<1>1. HandlersOK /\ TurnOK /\ budget \in [Kinds -> Nat]
  BY TypeParts DEF EnvironmentOK
<1>2. UNCHANGED budget => Spent
  BY <1>1, SpentBudget
<1>3. CASE OnDone(t)
  <2>1. /\ turn' = [turn EXCEPT ![t].done = TRUE, ![t].exec = "ended"] /\ Had(t)
        /\ UNCHANGED <<db, refused, budget>>
    BY <1>3 DEF OnDone, Finish, Running, Had, history
  <2>2. Calmer
    <3>1. PICK exec \in {"ended"} : turn' = [turn EXCEPT ![t].done = TRUE, ![t].exec = exec]
      BY <2>1
    <3> QED
      BY <1>1, <2>1, <3>1, CalmerEnd
  <2>3. PICK h : h = [Idle EXCEPT !.pc = "save", !.tid = t]
    OBVIOUS
  <2>4. h.pc = "save" /\ h.via = "ws"
    BY <2>3 DEF Idle
  <2>5. PICK s \in Slots : task[s].pc = "idle" /\ Become(s, h)
    BY <1>3, <2>3 DEF OnDone, Fork, At
  <2>6. Ordinary(h) /\ ~Bears(h) /\ ~Carried(task[s])
    BY <2>4, <2>5 DEF Ordinary, Bears, Carried
  <2>7. Stored(db') = Stored(db) /\ Msgs(db'.rows) = Msgs(db.rows) /\ refused \subseteq refused'
    BY <2>1
  <2> QED
    BY <1>1, <1>2, <2>1, <2>2, <2>4, <2>5, <2>6, <2>7, QuietOn
<1>4. CASE OnDenied(t)
  <2>1. /\ turn' = [turn EXCEPT ![t].done = TRUE, ![t].exec = "failed"] /\ Live(t)
        /\ UNCHANGED <<db, refused, budget>>
    BY <1>4 DEF OnDenied, Finish, Live, Had, history
  <2>2. Ebbing /\ ~Live(t)' /\ \A u \in TurnIds \ {t} : Answers(u) => Answers(u)'
    <3>1. PICK exec \in {"failed"} : turn' = [turn EXCEPT ![t].done = TRUE, ![t].exec = exec]
      BY <2>1
    <3> QED
      BY <1>1, <2>1, <3>1, EbbingEnd DEF Live
  <2>3. PICK pc \in {"keep", "restore"} :
          Fork([Idle EXCEPT !.pc = pc, !.msg = turn[t].msg, !.pause = TRUE, !.then = "dispatch"])
    BY <1>4 DEF OnDenied
  <2>4. PICK h : h = [Idle EXCEPT !.pc = pc, !.msg = turn[t].msg, !.pause = TRUE,
                                  !.then = "dispatch"]
    OBVIOUS
  <2>5. h.pc = pc /\ h.via = "ws" /\ h.msg = turn[t].msg
    BY <2>4 DEF Idle
  <2>6. PICK s \in Slots : task[s].pc = "idle" /\ Become(s, h)
    BY <2>3, <2>4 DEF Fork, At
  <2> QED
    BY <1>1, <1>2, <2>1, <2>2, <2>5, <2>6, QuietReturned
<1>5. CASE EndUnheard(t)
  <2>1. /\ turn' = [turn EXCEPT ![t].exec = "ended"] /\ Had(t)
        /\ UNCHANGED <<db, refused, budget, task>>
    BY <1>5 DEF EndUnheard, Running, Had, history, handlers
  <2>2. Calmer
    <3>1. PICK exec \in {"ended"} : turn' = [turn EXCEPT ![t].exec = exec]
      BY <2>1
    <3> QED
      BY <1>1, <2>1, <3>1, CalmerExec
  <2> QED
    BY <1>1, <1>2, <2>1, <2>2, QuietStill
<1>6. CASE Finalize(t)
  <2>1. Reply(t) /\ UNCHANGED <<db, refused, budget, task>>
    BY <1>6 DEF Finalize, history, handlers
  <2>2. Calmer
    BY <1>1, <2>1, CalmerReply
  <2> QED
    BY <1>1, <1>2, <2>1, <2>2, QuietStill
<1>7. CASE \E lost \in BOOLEAN : OnError(t, lost)
  <2>1. PICK exec \in {"failed"} : turn' = [turn EXCEPT ![t].done = TRUE, ![t].exec = exec]
    BY <1>7 DEF OnError, Finish
  <2>2. Live(t) /\ Spend("error") /\ UNCHANGED <<db, refused>>
    BY <1>7 DEF OnError, Running, Live, Had, history
  <2>3. Ebbing /\ ~Live(t)' /\ \A u \in TurnIds \ {t} : Answers(u) => Answers(u)'
    BY <1>1, <2>1, <2>2, EbbingEnd DEF Live
  <2>8. Spent
    BY <1>1, <2>2, SpentBudget DEF Kinds
  <2>4. PICK pc \in {"retry", "requeue"} :
          Fork([Idle EXCEPT !.pc = pc, !.msg = turn[t].msg, !.pause = Paid, !.then = "dispatch"])
    BY <1>7 DEF OnError
  <2>5. PICK h : h = [Idle EXCEPT !.pc = pc, !.msg = turn[t].msg, !.pause = Paid,
                                  !.then = "dispatch"]
    OBVIOUS
  <2>6. h.pc = pc /\ h.via = "ws" /\ h.msg = turn[t].msg
    BY <2>5 DEF Idle
  <2>7. PICK s \in Slots : task[s].pc = "idle" /\ Become(s, h)
    BY <2>4, <2>5 DEF Fork, At
  <2> QED
    BY <1>1, <2>2, <2>3, <2>6, <2>7, <2>8, QuietReturned
<1> QED
  BY <1>3, <1>4, <1>5, <1>6, <1>7 DEF Model

(* What the user sends is carried by a handler.                            *)
LEMMA QuietSend ==
  ASSUME TypeInv, StoreInv, TurnInv, QuietInv, NEW i \in Inputs
  PROVE  Send(i) \/ Resend(i) => QuietInv'
<1>1. HandlersOK /\ budget \in [Kinds -> Nat] /\ db \in Store /\ RowsMatch(db)
  BY TypeParts DEF EnvironmentOK, StoreInv
<1>2. PICK m : m = <<i>>
  OBVIOUS
<1>3. PICK h : h = StartTask(m, "ws")
  OBVIOUS
<1>4. h.pc = "check" /\ h.msg = m /\ h.via = "ws"
  BY <1>3 DEF StartTask, Idle
<1>5. Ordinary(h) /\ Bears(h) /\ Carried(h) /\ h.pc \notin {"late", "launch"}
  BY <1>4 DEF Ordinary, Bears, Carried
<1>6. UNCHANGED turn => /\ \A t \in TurnIds : TurnKept(t) /\ (Live(t)' <=> Live(t))
                        /\ \A t \in TurnIds : Answers(t) => Answers(t)'
  BY DEF TurnKept, Live, Had, Answers
<1>7. CASE Send(i)
  <2>1. /\ i \in fresh /\ db' = AddMessage(db, m) /\ UNCHANGED <<turn, refused>> /\ Spend("send")
    BY <1>2, <1>7 DEF Send, memory
  <2>2. PICK s \in Slots : task[s].pc = "idle" /\ Become(s, h)
    BY <1>2, <1>3, <1>7 DEF Send, Fork, At
  <2>3. ~Carried(task[s])
    BY <2>2 DEF Carried, Bears
  <2>4. Spent
    BY <1>1, <2>1, SpentBudget DEF Kinds
  <2>5. m \notin Stored(db)
    BY <1>2, <2>1, ApartFresh DEF StoreInv
  <2>6. Stored(db') = Stored(db) \cup {m} /\ Msgs(db'.rows) = Msgs(db.rows)
    <3>1. m \notin db.hidden
      BY <2>5 DEF Stored
    <3> QED
      BY <1>1, <2>1, <3>1, AddKeeps
  <2>7. \A t \in TurnIds : Live(t) => turn[t].msg \in Stored(db)
    BY DEF QuietInv, BorneStored
  <2>8. budget["drop"] > 0 => Alone'
    <3> SUFFICES ASSUME budget["drop"] > 0 PROVE Alone'
      OBVIOUS
    <3>1. Alone /\ \A r \in Slots : Bears(task[r]) => task[r].msg \in Stored(db)
      BY DEF QuietInv, BorneStored
    <3>2. m \notin Msgs(db.rows)
      BY <1>1, <2>5 DEF RowsMatch
    <3> QED
      BY <1>1, <1>4, <2>1, <2>2, <2>5, <2>6, <2>7, <3>1, <3>2, AloneSent
  <2>9. \A t \in TurnIds : Live(t)' => turn'[t].msg \in Stored(db')
    BY <1>6, <2>1, <2>6, <2>7
  <2> QED
    BY <1>1, <1>4, <1>5, <1>6, <2>1, <2>2, <2>3, <2>4, <2>6, <2>8, <2>9, QuietMove
<1>8. CASE Resend(i)
  <2>1. UNCHANGED <<db, turn, refused>> /\ Spend("resend")
    BY <1>8 DEF Resend, memory, history
  <2>2. PICK s \in Slots : task[s].pc = "idle" /\ Become(s, h)
    BY <1>2, <1>3, <1>8 DEF Resend, Fork, At
  <2>3. ~Carried(task[s])
    BY <2>2 DEF Carried, Bears
  <2>4. Spent /\ budget["resend"] > 0
    BY <1>1, <2>1, SpentBudget DEF Kinds
  <2>5. budget["drop"] = 0
    BY <2>4 DEF QuietInv, Quiet
  <2>6. Stored(db') = Stored(db) /\ Msgs(db'.rows) = Msgs(db.rows)
    BY <2>1
  <2>7. \A t \in TurnIds : Live(t)' => turn'[t].msg \in Stored(db')
    BY <1>6, <2>1 DEF QuietInv, BorneStored
  <2> QED
    BY <1>1, <1>4, <1>5, <1>6, <2>1, <2>2, <2>3, <2>4, <2>5, <2>6, <2>7, QuietMove
<1> QED
  BY <1>7, <1>8

(* What cannot happen.                                                     *)
LEMMA QuietNever ==
  ASSUME QuietInv
  PROVE  /\ ~Shutdown /\ ~Crash
         /\ \A i \in DOMAIN db.rows : ~SendNow(i)
         /\ \A m \in db.shown : ~Erase(m)
<1>1. \A k \in {"crash", "shutdown", "erase", "now"} : ~Spend(k)
  BY DEF QuietInv, Quiet, Spend
<1> QED
  BY <1>1 DEF Shutdown, Crash, SendNow, Erase, Manage

(* The user's commands.                                                    *)
LEMMA QuietUser ==
  ASSUME TypeInv, StoreInv, TurnInv, QuietInv, User
  PROVE  QuietInv'
<1>1. HandlersOK /\ TurnOK /\ MemoryOK /\ budget \in [Kinds -> Nat] /\ db \in Store /\ RowsMatch(db)
  BY TypeParts DEF EnvironmentOK, StoreInv
<1>2. CASE Stop
  <2>1. PICK t : t = active
    OBVIOUS
  <2>2. t \in TurnIds
    <3>1. t # 0 /\ t \in 0..MaxTurns
      BY <1>1, <1>2, <2>1 DEF Stop, MemoryOK
    <3> QED
      BY <3>1, TurnAssumption DEF TurnIds, TurnAssumption
  <2>3. Had(t)
    BY <2>1, <2>2 DEF TurnInv, TurnsFit, TurnFits
  <2>4. PICK exec : exec = Cancelled(t)
    OBVIOUS
  <2>5. exec \notin {"free", "refused"} /\ (Answers(t) => exec # "failed")
    BY <2>3, <2>4, CancelledHad DEF Cancelled, Answers
  <2>6. /\ turn' = [turn EXCEPT ![t].done = TRUE, ![t].exec = exec]
        /\ UNCHANGED <<db, refused>> /\ Spend("stop")
    BY <1>2, <2>1, <2>4 DEF Stop, history
  <2>7. Calmer
    BY <1>1, <2>2, <2>3, <2>5, <2>6, CalmerEnd
  <2>8. PICK h : h = [Idle EXCEPT !.pc = "setPause", !.pause = Paid, !.then = "savePartial",
                                  !.tid = t]
    OBVIOUS
  <2>9. h.pc = "setPause" /\ h.then = "savePartial" /\ h.via = "ws"
    BY <2>8 DEF Idle
  <2>10. PICK s \in Slots : task[s].pc = "idle" /\ Become(s, h)
    BY <1>2, <2>1, <2>8 DEF Stop, Fork, At
  <2>11. Ordinary(h) /\ ~Bears(h) /\ ~Carried(task[s])
    BY <2>9, <2>10 DEF Ordinary, Bears, Carried
  <2>12. /\ Stored(db') = Stored(db) /\ Msgs(db'.rows) = Msgs(db.rows)
         /\ refused \subseteq refused' /\ Spent
    BY <1>1, <2>6, SpentBudget DEF Kinds
  <2> QED
    BY <1>1, <2>7, <2>9, <2>10, <2>11, <2>12, QuietOn
<1>3. CASE Connect
  <2>1. UNCHANGED <<db, turn, refused>> /\ Spend("connect")
    BY <1>3 DEF Connect, memory, history
  <2>2. PICK h : h = [Idle EXCEPT !.pc = "dispatch"]
    OBVIOUS
  <2>3. h.pc = "dispatch" /\ h.via = "ws"
    BY <2>2 DEF Idle
  <2>4. PICK s \in Slots : task[s].pc = "idle" /\ Become(s, h)
    BY <1>3, <2>2 DEF Connect, Fork, At
  <2>5. ~Bears(h) /\ ~Carried(task[s])
    BY <2>3, <2>4 DEF Bears, Carried
  <2>6. Spent
    BY <1>1, <2>1, SpentBudget DEF Kinds
  <2> QED
    BY <1>1, <2>1, <2>3, <2>4, <2>5, <2>6, QuietHandler
<1>4. CASE OtherChatPays
  <2>1. UNCHANGED <<db, turn, refused, task>> /\ Spend("foreign")
    BY <1>4 DEF OtherChatPays, memory, history, handlers
  <2>2. Spent
    BY <1>1, <2>1, SpentBudget DEF Kinds
  <2> QED
    BY <1>1, <2>1, <2>2, CalmerStill, QuietStill
<1>5. ASSUME NEW kind \in {"edit", "drop", "reorder"}, NEW stored, Manage(kind, stored)
      PROVE  /\ db' = stored /\ UNCHANGED <<turn, refused, task>> /\ Spent /\ budget[kind] > 0
  <2>1. Spend(kind) /\ kind \in Kinds
    BY <1>5 DEF Manage, Kinds
  <2> QED
    BY <1>1, <1>5, <2>1, SpentBudget DEF Manage, memory, history, handlers
<1>6. ASSUME NEW i \in DOMAIN db.rows, EditQueued(i) PROVE QuietInv'
  <2>1. /\ db' = UpdateQueuedTurn(db, i) /\ UNCHANGED <<turn, refused, task>> /\ Spent
    BY <1>5, <1>6 DEF EditQueued
  <2>2. Stored(db') = Stored(db) /\ Msgs(db'.rows) = Msgs(db.rows)
    BY <1>1, <2>1, UpdateKeeps
  <2> QED
    BY <1>1, <2>1, <2>2, CalmerStill, QuietStill
<1>7. ASSUME NEW i \in DOMAIN db.rows, DeleteQueued(i) PROVE QuietInv'
  <2>1. PICK m : m = db.rows[i].msg
    OBVIOUS
  <2>2. /\ db' = DeleteMessage(db, m) /\ UNCHANGED <<turn, refused, task>> /\ Spent
        /\ budget["drop"] > 0
    BY <1>5, <1>7, <2>1 DEF DeleteQueued, DeleteQueuedTurn
  <2>3. Stored(db') = Stored(db) \ {m} /\ Msgs(db'.rows) = Msgs(db.rows) \ {m}
    BY <1>1, <2>2, DeleteKeeps
  <2>4. m \in Msgs(db.rows)
    BY <2>1 DEF Msgs
  <2>5. /\ \A s \in Slots : Bears(task[s]) => task[s].msg # m
        /\ \A t \in TurnIds : Live(t) => turn[t].msg # m
    BY <2>2, <2>4 DEF QuietInv, Alone
  <2> QED
    BY <1>1, <2>2, <2>3, <2>5, CalmerStill, QuietStill
<1>8. ASSUME NEW i \in DOMAIN db.rows, NEW j \in DOMAIN db.rows, ReorderQueued(i, j)
      PROVE  QuietInv'
  <2> DEFINE p == [[k \in DOMAIN db.rows |-> k] EXCEPT ![i] = j, ![j] = i]
  <2>1. \A k \in DOMAIN db.rows : p[k] = IF k = j THEN i ELSE IF k = i THEN j ELSE k
    OBVIOUS
  <2>2. p \in [DOMAIN db.rows -> DOMAIN db.rows]
    OBVIOUS
  <2>3. db' = ReorderQueuedTurns(db, p) /\ UNCHANGED <<turn, refused, task>> /\ Spent
    BY <1>5, <1>8 DEF ReorderQueued
  <2> HIDE DEF p
  <2>4. \A k, l \in DOMAIN db.rows : p[k] = p[l] => k = l
    BY <2>1
  <2>5. \A l \in DOMAIN db.rows : \E k \in DOMAIN db.rows : p[k] = l
    BY <2>1
  <2>6. Stored(db') = Stored(db) /\ Msgs(db'.rows) = Msgs(db.rows)
    BY <1>1, <2>2, <2>3, <2>4, <2>5, ReorderKeeps
  <2> QED
    BY <1>1, <2>3, <2>6, CalmerStill, QuietStill
<1> QED
  BY <1>2, <1>3, <1>4, <1>6, <1>7, <1>8, QuietSend, QuietNever DEF User

(* QuietInv is inductive.                                                  *)
LEMMA QuietInductive ==
  SlotInv /\ StoreInv /\ TurnInv /\ QuietInv /\ [Next]_vars => QuietInv'
<1> SUFFICES ASSUME SlotInv, StoreInv, TurnInv, QuietInv, [Next]_vars PROVE QuietInv'
  OBVIOUS
<1>1. TypeInv
  BY DEF SlotInv, TypeInv
<1>2. HandlersOK /\ budget \in [Kinds -> Nat]
  BY <1>1, TypeParts DEF EnvironmentOK
<1>3. ASSUME NEW s \in Slots, Step(s) PROVE QuietInv'
  <2>1. task[s].pc \notin {"now", "merge", "restart", "exit"}
    BY DEF QuietInv, Ordinary
  <2>2. ~(ChooseNow(s) \/ Merge(s) \/ Restart(s) \/ Exit(s))
    BY <2>1 DEF ChooseNow, Merge, Restart, Exit, At, Called
  <2>3. CASE Issue(s)
    <3>1. UNCHANGED <<db, turn, task, refused, budget>>
      BY <2>3 DEF Issue, history
    <3> QED
      BY <1>2, <3>1, SpentBudget, CalmerStill, QuietStill
  <2> QED
    BY <1>1, <1>3, <2>2, <2>3, QuietAdmission, QuietCall, QuietNoFault, QuietPreparation,
       QuietTail DEF Step
<1>4. ASSUME NEW t \in TurnIds, Model(t) PROVE QuietInv'
  BY <1>1, <1>4, QuietModel
<1>5. ASSUME NEW h \in holds, Settle(h) PROVE QuietInv'
  <2>1. UNCHANGED <<db, turn, task, refused, budget>>
    BY <1>5 DEF Settle, history, handlers
  <2> QED
    BY <1>2, <2>1, SpentBudget, CalmerStill, QuietStill
<1>6. CASE UNCHANGED vars
  <2>1. UNCHANGED <<db, turn, task, refused, budget>>
    BY <1>6 DEF vars, history, handlers
  <2> QED
    BY <1>2, <2>1, SpentBudget, CalmerStill, QuietStill
<1> QED
  BY <1>1, <1>3, <1>4, <1>5, <1>6, QuietUser DEF Next

(* While nothing is lost from outside, a stored question is always queued, *)
(* in the hands of a handler, given to the model or refused aloud, however *)
(* starts, callbacks, stops, dispatches and commands interleave: none of   *)
(* the ways by which the turn manager passes a question on loses it.       *)
THEOREM NothingDroppedKept == Undisturbed => (Spec => []NothingDropped)
<1> SUFFICES ASSUME Undisturbed PROVE Spec => []NothingDropped
  OBVIOUS
<1>1. Init => StoreInv
  BY DEF Init, StoreInv, EmptyStore, RowsMatch, Apart, Stored, Msgs, Distinct
<1>2. Init => QuietInv
  <2> SUFFICES ASSUME Init PROVE QuietInv
    OBVIOUS
  <2>1. Quiet
    BY DEF Init, Undisturbed, Quiet
  <2>2. \A s \in Slots : task[s].pc = "idle" /\ task[s].via = "ws"
    BY DEF Init, Idle
  <2>3. \A t \in TurnIds : ~Had(t)
    BY DEF Init, NoTurn, Had
  <2>4. Stored(db) = {} /\ Msgs(db.rows) = {}
    BY DEF Init, EmptyStore, Stored, Msgs
  <2> QED
    BY <2>1, <2>2, <2>3, <2>4
    DEF QuietInv, Ordinary, BorneStored, SameQuestion, Alone, Bears, Live
<1>3. QuietInv => NothingDropped
  BY DEF QuietInv, NothingDropped, Covered, Carried, Bears, Carries, At, Answered, Answers,
     HasRow, Msgs, Stored
<1> QED
  BY <1>1, <1>2, <1>3, TurnInvKept, InitType, NextType, StoreInvInductive, QuietInductive, PTL
  DEF Spec

-----------------------------------------------------------------------------
(* One execution in a free chat.                                           *)

(* Nobody answers "send now" and no registered turn still awaits.          *)
Direct == \A s \in Slots : task[s].pc \notin {"now", "merge", "launch"}

(* A handler goes on at another await than these.                          *)
LEMMA DirectBecome ==
  ASSUME HandlersOK, Direct, NEW s \in Slots, NEW h, Become(s, h),
         h.pc \notin {"now", "merge", "launch"}
  PROVE  Direct'
<1>1. \A r \in Slots : task'[r] = IF r = s THEN h ELSE task[r]
  BY DEF Become, HandlersOK
<1> QED
  BY <1>1 DEF Direct

(* The same when only its await changes.                                   *)
LEMMA DirectResume ==
  ASSUME HandlersOK, Direct, NEW s \in Slots, NEW pc, Resume(s, pc),
         pc \notin {"now", "merge", "launch"}
  PROVE  Direct'
BY ResumeAs, DirectBecome

(* The same when it stores the pause.                                      *)
LEMMA DirectPause ==
  ASSUME HandlersOK, Direct, NEW s \in Slots, NEW value, NEW next, Pause(s, value, next)
  PROVE  Direct'
<1>1. PICK h : Become(s, h) /\ h.pc = "setPause"
  BY PauseAs
<1> QED
  BY <1>1, DirectBecome

(* The process ends.                                                       *)
LEMMA DirectReboot ==
  ASSUME Reboot
  PROVE  Direct'
BY DEF Reboot, Direct, Idle

(* start() throws.                                                         *)
LEMMA DirectThrow ==
  ASSUME HandlersOK, Direct, NEW s \in Slots, Throw(s)
  PROVE  Direct'
<1>1. CASE Become(s, [task[s] EXCEPT !.pc = "requeue", !.pause = TRUE, !.then = "idle"])
  <2>1. PICK h : h = [task[s] EXCEPT !.pc = "requeue", !.pause = TRUE, !.then = "idle"]
    OBVIOUS
  <2>2. Become(s, h) /\ h.pc = "requeue"
    BY <1>1, <2>1 DEF HandlersOK, Task
  <2> QED
    BY <2>2, DirectBecome
<1>2. CASE Resume(s, "idle")
  BY <1>2, DirectResume
<1> QED
  BY <1>1, <1>2, DirectReboot DEF Throw

(* start() begins.                                                         *)
LEMMA DirectStart ==
  ASSUME HandlersOK, Direct, NEW s \in Slots, NEW m, NEW via, Become(s, StartTask(m, via))
  PROVE  Direct'
<1>1. PICK h : h = StartTask(m, via)
  OBVIOUS
<1>2. h.pc = "check"
  BY <1>1 DEF StartTask, Idle
<1> QED
  BY <1>1, <1>2, DirectBecome

(* The handlers, when a turn is launched where it is registered.           *)
LEMMA DirectStep ==
  ASSUME HandlersOK, ~AsyncLaunch, Direct, NEW s \in Slots, Step(s)
  PROVE  Direct'
<1>0. task[s] \in Task /\ task[s].pc \notin {"now", "merge", "launch"}
  BY DEF HandlersOK, Direct
<1>1. CASE Issue(s)
  BY <1>1 DEF Issue, Direct
<1>2. CASE Deny(s) \/ FindBusy(s) \/ RefusePreparation(s) \/ MachineOffline(s) \/ Insert(s)
  BY <1>2, DirectResume
  DEF Deny, FindBusy, RefusePreparation, MachineOffline, Insert
<1>3. CASE RefusePending(s)
  <2>1. PICK h : h = [task[s] EXCEPT !.pc = "restore", !.pause = TRUE, !.then = "idle"]
    OBVIOUS
  <2>2. h.pc = "restore"
    BY <1>0, <2>1 DEF Task
  <2> QED
    BY <1>3, <2>1, <2>2, DirectResume, DirectBecome DEF RefusePending
<1>4. CASE ClaimSlot(s)
  BY <1>4, DirectPause DEF ClaimSlot
<1>5. CASE Enqueue(s)
  <2>1. CASE Throw(s)
    BY <2>1, DirectThrow
  <2>2. CASE \E pc \in {"idle", "prioritize"} : Resume(s, pc)
    BY <2>2, DirectResume
  <2> QED
    BY <1>5, <2>1, <2>2 DEF Enqueue
<1>6. CASE Prioritize(s) \/ MarkFailed(s)
  BY <1>6, DirectResume DEF Prioritize, MarkFailed
<1>7. CASE SetPause(s)
  <2>1. task[s].pc = "setPause" /\ Resume(s, task[s].then)
    BY <1>7 DEF SetPause, Called
  <2>2. task[s].then \in {"idle", "dispatch", "prepare", "savePartial", "restart"}
    BY <2>1 DEF HandlersOK, Flows
  <2> QED
    BY <2>1, <2>2, DirectResume
<1>8. CASE FailPreparation(s)
  BY <1>8, DirectThrow DEF FailPreparation
<1>9. CASE GrantTools(s)
  <2>1. PICK t : Become(s, [task[s] EXCEPT !.pc = "late", !.tid = t])
    BY <1>9 DEF GrantTools
  <2>2. PICK h : h = [task[s] EXCEPT !.pc = "late", !.tid = t]
    OBVIOUS
  <2>3. h.pc = "late"
    BY <1>0, <2>2 DEF Task
  <2> QED
    BY <2>1, <2>2, <2>3, DirectBecome
<1>10. CASE Register(s)
  BY <1>10, DirectResume DEF Register
<1>11. CASE PutBack(s)
  <2>1. \/ \E pc \in {"markFailed", "setPause", "dispatch", "idle"} : Resume(s, pc)
        \/ Reboot
    BY <1>11 DEF PutBack, Called, At
  <2> QED
    BY <2>1, DirectResume, DirectReboot
<1>12. CASE Save(s)
  <2>1. \E pc \in {"idle", "insert"} : Resume(s, pc)
    BY <1>12 DEF Save
  <2> QED
    BY <2>1, DirectResume
<1>13. CASE Dispatch(s)
  <2>1. \E pc \in {"idle", "gate", "take"} : Resume(s, pc)
    BY <1>13 DEF Dispatch
  <2> QED
    BY <2>1, DirectResume
<1>14. CASE Gate(s)
  BY <1>14, DirectResume, DirectPause DEF Gate
<1>15. CASE Take(s)
  BY <1>15, DirectResume, DirectStart DEF Take
<1>16. CASE SavePartial(s)
  <2>1. \E pc \in {"exit", "dispatch"} : Resume(s, pc)
    BY <1>16 DEF SavePartial
  <2> QED
    BY <2>1, DirectResume
<1>17. CASE Restart(s)
  BY <1>17, DirectStart DEF Restart
<1>18. CASE Exit(s)
  BY <1>18, DirectReboot DEF Exit
<1>19. ~Launch(s) /\ ~ChooseNow(s) /\ ~Merge(s)
  BY <1>0 DEF Launch, ChooseNow, Merge, At, Called
<1> QED
  BY <1>1, <1>2, <1>3, <1>4, <1>5, <1>6, <1>7, <1>8, <1>9, <1>10, <1>11, <1>12, <1>13, <1>14,
     <1>15, <1>16, <1>17, <1>18, <1>19 DEF Step

(* A new handler.                                                          *)
LEMMA DirectFork ==
  ASSUME HandlersOK, Direct, NEW new, Fork(new), new.pc \notin {"now", "merge", "launch"}
  PROVE  Direct'
BY DirectBecome DEF Fork

(* The model's callbacks.                                                  *)
LEMMA DirectModel ==
  ASSUME HandlersOK, Direct, NEW t \in TurnIds, Model(t)
  PROVE  Direct'
<1>1. CASE OnDone(t)
  <2>1. PICK h : h = [Idle EXCEPT !.pc = "save", !.tid = t]
    OBVIOUS
  <2>2. h.pc = "save" /\ Fork(h)
    BY <1>1, <2>1 DEF OnDone, Idle
  <2> QED
    BY <2>2, DirectFork
<1>2. ASSUME NEW lost \in BOOLEAN, OnError(t, lost) PROVE Direct'
  <2>1. PICK pc : pc = IF lost THEN "retry" ELSE "requeue"
    OBVIOUS
  <2>2. PICK h : h = [Idle EXCEPT !.pc = pc, !.msg = turn[t].msg, !.pause = Paid,
                                  !.then = "dispatch"]
    OBVIOUS
  <2>3. h.pc = pc /\ Fork(h)
    BY <1>2, <2>1, <2>2 DEF OnError, Idle
  <2> QED
    BY <2>1, <2>3, DirectFork
<1>3. CASE OnDenied(t)
  <2>1. PICK pc : pc = IF turn[t].via = "ws" THEN "keep" ELSE "restore"
    OBVIOUS
  <2>2. PICK h : h = [Idle EXCEPT !.pc = pc, !.msg = turn[t].msg, !.pause = TRUE,
                                  !.then = "dispatch"]
    OBVIOUS
  <2>3. h.pc = pc /\ Fork(h)
    BY <1>3, <2>1, <2>2 DEF OnDenied, Idle
  <2> QED
    BY <2>1, <2>3, DirectFork
<1>4. CASE EndUnheard(t) \/ Finalize(t)
  BY <1>4 DEF EndUnheard, Finalize, handlers, Direct
<1> QED
  BY <1>1, <1>2, <1>3, <1>4 DEF Model

(* The user's commands, "send now" excepted.                               *)
LEMMA DirectUser ==
  ASSUME HandlersOK, Direct, budget["now"] = 0, User
  PROVE  Direct'
<1>1. ASSUME NEW kind, NEW stored, Manage(kind, stored) PROVE Direct'
  BY <1>1 DEF Manage, handlers, Direct
<1>2. ASSUME NEW i \in Inputs, Send(i) \/ Resend(i) PROVE Direct'
  BY <1>2, DirectStart DEF Send, Resend, Fork
<1>3. CASE Stop
  <2>1. PICK h : h = [Idle EXCEPT !.pc = "setPause", !.pause = Paid, !.then = "savePartial",
                                  !.tid = active]
    OBVIOUS
  <2>2. h.pc = "setPause" /\ Fork(h)
    BY <1>3, <2>1 DEF Stop, Idle
  <2> QED
    BY <2>2, DirectFork
<1>4. CASE Shutdown
  <2>1. PICK h : h = IF active = 0 THEN [Idle EXCEPT !.pc = "exit", !.via = "flush"]
          ELSE [Idle EXCEPT !.pc = "setPause", !.via = "flush", !.pause = TRUE,
                            !.then = "savePartial", !.tid = active]
    OBVIOUS
  <2>2. Fork(h)
    BY <1>4, <2>1 DEF Shutdown
  <2>3. h.pc \in {"exit", "setPause"}
    BY <2>1 DEF Idle
  <2> QED
    BY <2>2, <2>3, DirectFork
<1>5. CASE Connect
  <2>1. PICK h : h = [Idle EXCEPT !.pc = "dispatch"]
    OBVIOUS
  <2>2. h.pc = "dispatch" /\ Fork(h)
    BY <1>5, <2>1 DEF Connect, Idle
  <2> QED
    BY <2>2, DirectFork
<1>6. CASE OtherChatPays
  BY <1>6 DEF OtherChatPays, handlers, Direct
<1>7. CASE Crash
  BY <1>7, DirectReboot DEF Crash
<1>8. \A i \in DOMAIN db.rows : ~SendNow(i)
  BY DEF SendNow, Spend
<1> QED
  BY <1>1, <1>2, <1>3, <1>4, <1>5, <1>6, <1>7, <1>8
  DEF User, EditQueued, DeleteQueued, ReorderQueued, Erase

(* Who runs in a free chat is the active turn.                             *)
RunsActive == \A t \in TurnIds : Running(t) => t = active

(* Nobody begins to run, and the active turn stays while one does.         *)
LEMMA RunsQuiet ==
  ASSUME RunsActive, \A t \in TurnIds : Running(t)' => Running(t) /\ active' = active
  PROVE  RunsActive'
BY DEF RunsActive

LEMMA RunsStill ==
  ASSUME RunsActive, UNCHANGED <<turn, active>>
  PROVE  RunsActive'
BY DEF RunsActive, Running

(* Only one turn changes, and it does not begin to run.                    *)
LEMMA RunsTurn ==
  ASSUME RunsActive, NEW t \in TurnIds, turn'[t].exec = "running" => Running(t),
         \A u \in TurnIds \ {t} : turn'[u] = turn[u], active' = active
  PROVE  RunsActive'
BY DEF RunsActive, Running

(* The end of the process stops the executions.                            *)
LEMMA RunsReboot ==
  ASSUME TurnOK, Reboot
  PROVE  RunsActive'
<1>1. ASSUME NEW t \in TurnIds PROVE ~Running(t)'
  <2>1. turn'[t] = IF turn[t].exec \in {"new", "denied", "running"}
                   THEN [turn[t] EXCEPT !.exec = "stopped", !.done = TRUE] ELSE turn[t]
    BY DEF Reboot
  <2> QED
    BY <2>1 DEF TurnOK, TurnState, Running
<1> QED
  BY <1>1 DEF RunsActive

(* The end of a turn, which is the active one if any turn runs.            *)
LEMMA RunsEnd ==
  ASSUME TurnOK, RunsActive, NEW t \in TurnIds, NEW exec, exec # "running", Finish(t, exec)
  PROVE  RunsActive'
<1>1. turn'[t].exec = exec /\ \A u \in TurnIds \ {t} : turn'[u] = turn[u]
  BY EndOf DEF Finish
<1>2. active' = IF active = t THEN 0 ELSE active
  BY DEF Finish
<1> QED
  BY <1>1, <1>2 DEF RunsActive, Running

(* The handlers: a turn is registered when no turn is active.              *)
LEMMA RunsStep ==
  ASSUME SlotInv, TurnInv, ~AsyncLaunch, Direct, RunsActive, NEW s \in Slots, Step(s)
  PROVE  RunsActive'
<1>0. /\ HandlerFits(task[s], turn, unsaved, finalizing) /\ TurnOK /\ task[s] \in Task
  BY DEF TurnInv, HandlersFit, SlotInv, TypeOK, TurnOK
<1> USE DEF memory, handlers
<1>1. CASE Issue(s) \/ Deny(s) \/ RefusePending(s) \/ FindBusy(s) \/ ClaimSlot(s)
  BY <1>1, RunsStill DEF Issue, Deny, RefusePending, FindBusy, ClaimSlot
<1>2. CASE Enqueue(s)
  BY <1>0, <1>2, RunsStill, RunsReboot DEF Enqueue, Throw
<1>3. CASE Prioritize(s) \/ SetPause(s) \/ RefusePreparation(s) \/ MachineOffline(s)
  BY <1>3, RunsStill DEF Prioritize, SetPause, RefusePreparation, MachineOffline
<1>4. CASE FailPreparation(s)
  BY <1>0, <1>4, RunsStill, RunsReboot DEF FailPreparation, Throw
<1>5. CASE GrantTools(s)
  <2>1. PICK t \in TurnIds :
          turn' = [turn EXCEPT ![t] = [@ EXCEPT !.exec = "refused", !.msg = task[s].msg,
                                                !.via = task[s].via]]
    BY <1>5 DEF GrantTools
  <2>2. turn'[t].exec = "refused" /\ \A u \in TurnIds \ {t} : turn'[u] = turn[u]
    BY <1>0, <2>1 DEF TurnOK, TurnState
  <2> QED
    BY <1>5, <2>2, RunsTurn DEF GrantTools
<1>6. CASE Register(s)
  <2>1. PICK t : t = task[s].tid
    OBVIOUS
  <2>2. t \in TurnIds
    BY <1>0, <1>6, <2>1 DEF Register, At, HandlerFits
  <2>3. Launched(t) /\ active' = t
    BY <1>6, <2>1 DEF Register, Occupy
  <2>4. active = 0
    BY <1>6 DEF SlotInv, SlotExclusive, Preparing, Register, At
  <2>5. \A u \in TurnIds : ~Running(u)
    BY <2>4, 0 \notin TurnIds DEF RunsActive, TurnIds
  <2>6. \A u \in TurnIds \ {t} : turn'[u] = turn[u]
    BY <2>3 DEF Launched
  <2> QED
    BY <2>3, <2>5, <2>6 DEF RunsActive, Running
<1>7. CASE PutBack(s) \/ MarkFailed(s)
  BY <1>0, <1>7, RunsStill, RunsReboot DEF PutBack, MarkFailed
<1>8. CASE Save(s)
  <2>1. PICK t : t = task[s].tid
    OBVIOUS
  <2>2. t \in TurnIds
    BY <1>0, <1>8, <2>1 DEF Save, At, HandlerFits
  <2>3. UNCHANGED turn \/ turn' = [turn EXCEPT ![t].saved = TRUE]
    BY <1>8, <2>1 DEF Save
  <2>4. turn'[t].exec = turn[t].exec /\ \A u \in TurnIds \ {t} : turn'[u] = turn[u]
    BY <1>0, <2>2, <2>3 DEF TurnOK, TurnState
  <2> QED
    BY <1>8, <2>2, <2>4, RunsTurn DEF Save, Running
<1>9. CASE Insert(s) \/ SavePartial(s)
  <2>1. PICK t : t = task[s].tid
    OBVIOUS
  <2>2. t \in TurnIds
    BY <1>0, <1>9, <2>1 DEF Insert, SavePartial, At, HandlerFits, Storing
  <2>3. (UNCHANGED turn \/ Reply(t)) /\ active' = active
    BY <1>9, <2>1 DEF Insert, SavePartial
  <2>4. CASE Reply(t)
    <3>1. turn'[t].exec = turn[t].exec /\ \A u \in TurnIds \ {t} : turn'[u] = turn[u]
      BY <1>0, <2>2, <2>4, ReplyOf
    <3> QED
      BY <2>2, <2>3, <3>1, RunsTurn DEF Running
  <2> QED
    BY <2>3, <2>4, RunsStill
<1>10. CASE Dispatch(s) \/ Gate(s) \/ Take(s) \/ Restart(s)
  BY <1>10, RunsStill DEF Dispatch, Gate, Take, Restart
<1>11. CASE Exit(s)
  BY <1>0, <1>11, RunsReboot DEF Exit
<1>12. ~Launch(s) /\ ~ChooseNow(s) /\ ~Merge(s)
  BY DEF Direct, Launch, ChooseNow, Merge, At, Called
<1> QED
  BY <1>1, <1>2, <1>3, <1>4, <1>5, <1>6, <1>7, <1>8, <1>9, <1>10, <1>11, <1>12 DEF Step

(* The model's callbacks.                                                  *)
LEMMA RunsModel ==
  ASSUME TurnOK, RunsActive, NEW t \in TurnIds, Model(t)
  PROVE  RunsActive'
<1>1. CASE OnDone(t)
  BY <1>1, RunsEnd DEF OnDone
<1>2. ASSUME NEW lost \in BOOLEAN, OnError(t, lost) PROVE RunsActive'
  <2>1. PICK exec : exec \in {"ended", "failed"} /\ Finish(t, exec)
    BY <1>2 DEF OnError
  <2> QED
    BY <2>1, RunsEnd
<1>3. CASE OnDenied(t)
  BY <1>3, RunsEnd DEF OnDenied
<1>4. CASE EndUnheard(t)
  <2>1. turn' = [turn EXCEPT ![t].exec = "ended"] /\ active' = active
    BY <1>4 DEF EndUnheard, memory
  <2>2. turn'[t].exec = "ended" /\ \A u \in TurnIds \ {t} : turn'[u] = turn[u]
    BY <2>1, ExecOf
  <2> QED
    BY <2>1, <2>2, RunsTurn
<1>5. CASE Finalize(t)
  <2>1. Reply(t) /\ active' = active
    BY <1>5 DEF Finalize
  <2>2. turn'[t].exec = turn[t].exec /\ \A u \in TurnIds \ {t} : turn'[u] = turn[u]
    BY <2>1, ReplyOf
  <2> QED
    BY <2>1, <2>2, RunsTurn DEF Running
<1> QED
  BY <1>1, <1>2, <1>3, <1>4, <1>5 DEF Model

(* The user's commands: a stop and a shutdown kill the active turn.        *)
LEMMA RunsUser ==
  ASSUME TurnOK, ~Paid, RunsActive, budget["now"] = 0, User
  PROVE  RunsActive'
<1> USE DEF memory
<1>1. ASSUME NEW kind, NEW stored, Manage(kind, stored) PROVE RunsActive'
  BY <1>1, RunsStill DEF Manage
<1>2. ASSUME NEW i \in Inputs, Send(i) \/ Resend(i) PROVE RunsActive'
  BY <1>2, RunsStill DEF Send, Resend
<1>3. CASE Stop \/ Shutdown
  <2>1. PICK a : a = active
    OBVIOUS
  <2>2. PICK exec : exec = Cancelled(a)
    OBVIOUS
  <2>3. exec # "running"
    BY <2>2 DEF Cancelled
  <2>4. ASSUME NEW t \in TurnIds PROVE turn'[t].exec = IF t = a THEN exec ELSE turn[t].exec
    <3>1. turn[t] \in TurnState
      BY DEF TurnOK
    <3>2. CASE Stop
      <4>1. turn' = [turn EXCEPT ![a].done = TRUE, ![a].exec = exec]
        BY <2>1, <2>2, <3>2 DEF Stop
      <4> QED
        BY <3>1, <4>1 DEF TurnOK, TurnState
    <3>3. CASE Shutdown
      BY <2>1, <2>2, <3>1, <3>3 DEF Shutdown, TurnState
    <3> QED
      BY <1>3, <3>2, <3>3
  <2>5. \A t \in TurnIds : ~Running(t)'
    BY <2>1, <2>3, <2>4 DEF RunsActive, Running
  <2> QED
    BY <2>5 DEF RunsActive
<1>4. CASE Connect \/ OtherChatPays
  BY <1>4, RunsStill DEF Connect, OtherChatPays
<1>5. CASE Crash
  BY <1>5, RunsReboot DEF Crash
<1>6. \A i \in DOMAIN db.rows : ~SendNow(i)
  BY DEF SendNow, Spend
<1> QED
  BY <1>1, <1>2, <1>3, <1>4, <1>5, <1>6
  DEF User, EditQueued, DeleteQueued, ReorderQueued, Erase

(* What is not in the budget does not come.                                *)
LEMMA NeverSpent ==
  ASSUME TypeInv, NEW kind \in Kinds, budget[kind] = 0, [Next]_vars
  PROVE  budget'[kind] = 0
<1>1. budget \in [Kinds -> Nat]
  BY TypeParts DEF EnvironmentOK
<1>2. UNCHANGED budget \/ \E k : Spend(k)
  BY ZenonT(60) DEF Next, Step, Model, User, vars, history, Issue, Deny, RefusePending, FindBusy,
     ClaimSlot, Enqueue, Prioritize, SetPause, RefusePreparation, FailPreparation, GrantTools,
     MachineOffline, Register, Launch, PutBack, MarkFailed, Save, Insert, Dispatch, Gate,
     Take, SavePartial, ChooseNow, Merge, Restart, Exit, OnDone, OnDenied, EndUnheard,
     Finalize, OnError, Send, Resend, Stop, Connect, Shutdown, Crash, OtherChatPays, SendNow,
     EditQueued, DeleteQueued, ReorderQueued, Erase, Manage, Settle
<1> QED
  BY <1>1, <1>2 DEF Spend

(* In a free chat that launches a turn where it registers it, one model    *)
(* process runs at a time, through stops, errors, lost threads, shutdowns  *)
(* and restarts, as long as "send now" is not used: a second one needs     *)
(* the awaits between turns.set and client.send, or a merge that empties   *)
(* the map entry of another turn.                                          *)
THEOREM OneExecutionFree ==
  ~Paid /\ ~AsyncLaunch /\ (\A b \in Budgets : b["now"] = 0) => (Spec => []OneExecution)
<1> SUFFICES ASSUME ~Paid, ~AsyncLaunch, \A b \in Budgets : b["now"] = 0
             PROVE  Spec => []OneExecution
  OBVIOUS
<1> DEFINE FreeInv == budget["now"] = 0 /\ Direct /\ RunsActive
<1>1. Init => FreeInv
  BY DEF Init, Direct, Idle, RunsActive, Running, NoTurn
<1>2. SlotInv /\ TurnInv /\ FreeInv /\ [Next]_vars => FreeInv'
  <2> SUFFICES ASSUME SlotInv, TurnInv, FreeInv, [Next]_vars PROVE FreeInv'
    OBVIOUS
  <2>0. TypeInv /\ HandlersOK /\ TurnOK
    BY TypeParts DEF SlotInv, TypeInv
  <2>1. budget'["now"] = 0
    BY <2>0, NeverSpent DEF Kinds
  <2>2. ASSUME NEW h \in holds, Settle(h) PROVE Direct' /\ RunsActive'
    BY <2>2, RunsStill DEF Settle, handlers, memory, Direct
  <2>3. CASE UNCHANGED vars
    BY <2>3, RunsStill DEF vars, handlers, memory, Direct
  <2>4. ASSUME NEW s \in Slots, Step(s) PROVE Direct' /\ RunsActive'
    BY <2>0, <2>4, DirectStep, RunsStep
  <2>5. ASSUME NEW t \in TurnIds, Model(t) PROVE Direct' /\ RunsActive'
    BY <2>0, <2>5, DirectModel, RunsModel
  <2>6. CASE User
    BY <2>0, <2>1, <2>6, DirectUser, RunsUser
  <2> QED
    BY <2>1, <2>2, <2>3, <2>4, <2>5, <2>6 DEF Next
<1>3. FreeInv => OneExecution
  BY DEF RunsActive, OneExecution
<1> QED
  BY <1>1, <1>2, <1>3, TurnInvKept, PTL DEF Spec

-----------------------------------------------------------------------------
(* No question is dropped by "send now".                                   *)

(* The conversation is not accounted, no execution fails, nothing is sent  *)
(* twice and nothing is lost from outside.                                 *)
Enduring ==
  \A k \in {"crash", "shutdown", "fault", "erase", "error", "resend"} : budget[k] = 0

(* A handler whose question no turn has got yet.                           *)
Brings(h) ==
  \/ h.pc \in {"check", "park", "prepare", "late", "restart"}
  \/ h.pc = "setPause" /\ h.then \in {"prepare", "restart"}

(* Nobody puts a question back and the process does not stop.              *)
Onwards(h) ==
  h.pc \notin {"restore", "requeue", "keep", "retry", "markFailed", "exit"} /\ h.via # "flush"

(* A question that is brought is stored, and in no other place.            *)
BroughtOnce ==
  /\ \A s \in Slots : Brings(task[s]) =>
       task[s].msg \in Stored(db) /\ task[s].msg \notin Msgs(db.rows)
  /\ \A r, s \in Slots :
       Brings(task[r]) /\ Brings(task[s]) /\ task[r].msg = task[s].msg => r = s

(* What a turn was given nobody gives to another one, and what became of   *)
(* it since is in one message.                                             *)
GivenOnce ==
  \A t \in TurnIds : Had(t) =>
    /\ turn[t].msg \notin Msgs(db.rows)
    /\ \A s \in Slots : Brings(task[s]) => task[s].msg # turn[t].msg
    /\ ToSet(turn[t].msg) \cap fresh = {}
    /\ \A n \in Stored(db) :
         ToSet(turn[t].msg) \cap ToSet(n) # {} => ToSet(turn[t].msg) \subseteq ToSet(n)

Given(m) == \E t \in TurnIds : Had(t) /\ turn[t].msg = m

Kept(m) ==
  \/ m \in Msgs(db.rows) \cup refused \/ Given(m)
  \/ \E s \in Slots : Brings(task[s]) /\ task[s].msg = m

NobodyFails == \A t \in TurnIds : turn[t].exec \notin {"denied", "failed"}

(* NothingDropped with what makes it inductive while messages are merged.  *)
MergingInv ==
  /\ Enduring /\ (\A s \in Slots : Onwards(task[s])) /\ NobodyFails /\ SameQuestion
  /\ BroughtOnce /\ GivenOnce
  /\ \A m \in Stored(db) : Kept(m)

(* A turn keeps its question, nobody gets the slot, and nobody fails.      *)
GoesOn(t) ==
  /\ TurnKept(t) /\ (Had(t)' => Had(t))
  /\ turn'[t].exec \in {"denied", "failed"} => turn[t].exec \in {"denied", "failed"}

(* Untouched turns go on.                                                  *)
LEMMA UntouchedGoes == \A t : UNCHANGED turn => GoesOn(t)
BY DEF GoesOn, TurnKept, Had

(* One turn that had the slot goes on or ends.                             *)
LEMMA OneGoes ==
  ASSUME TurnOK, NEW t \in TurnIds, Had(t),
         NEW exec \in {"new", "running", "stopped", "ended", turn[t].exec},
         \/ turn' = [turn EXCEPT ![t].done = TRUE, ![t].exec = exec]
         \/ turn' = [turn EXCEPT ![t].exec = exec]
         \/ turn' = [turn EXCEPT ![t].done = TRUE]
         \/ turn' = [turn EXCEPT ![t].saved = TRUE]
         \/ Reply(t)
  PROVE  \A u \in TurnIds : GoesOn(u)
<1>1. /\ turn'[t].msg = turn[t].msg /\ turn'[t].exec \in {exec, turn[t].exec}
      /\ \A u \in TurnIds \ {t} : turn'[u] = turn[u]
  BY DEF TurnOK, TurnState, Reply
<1>2. GoesOn(t)
  BY <1>1 DEF GoesOn, TurnKept, Had
<1>3. \A u \in TurnIds \ {t} : GoesOn(u)
  BY <1>1 DEF GoesOn, TurnKept, Had
<1> QED
  BY <1>2, <1>3

(* What the budget does not allow it does not allow later.                 *)
LEMMA EnduringSpent ==
  ASSUME Enduring, Spent
  PROVE  Enduring'
<1>1. \A k \in {"crash", "shutdown", "fault", "erase", "error", "resend"} : k \in Kinds
  BY DEF Kinds
<1>2. \A k \in Kinds : budget[k] = 0 => budget'[k] = 0
  BY DEF Spent
<1> QED
  BY <1>1, <1>2 DEF Enduring

(* A handler that is not resumed still makes a turn of its own question.   *)
LEMMA OwnQuestion ==
  ASSUME TurnInv, SameQuestion, \A t \in TurnIds : TurnKept(t),
         NEW r \in Slots, task[r].pc \in {"late", "launch"}
  PROVE  turn'[task[r].tid].msg = task[r].msg
<1>1. task[r].tid \in TurnIds /\ turn[task[r].tid].exec # "free"
  BY DEF TurnInv, HandlersFit, HandlerFits
<1>2. turn'[task[r].tid].msg = turn[task[r].tid].msg
  BY <1>1 DEF TurnKept
<1> QED
  BY <1>2 DEF SameQuestion

(* One handler goes on as h: what is kept of the questions.                *)
LEMMA KeptMove ==
  ASSUME HandlersOK, \A m \in Stored(db) : Kept(m), \A t \in TurnIds : TurnKept(t),
         NEW s \in Slots, NEW h, Become(s, h), refused \subseteq refused',
         \A m \in Stored(db') : \/ m \in Stored(db) /\ (m \in Msgs(db.rows) => m \in Msgs(db'.rows))
                                \/ Brings(h) /\ h.msg = m,
         Brings(task[s]) => \/ task[s].msg \in Msgs(db'.rows) \cup refused'
                            \/ Brings(h) /\ h.msg = task[s].msg
                            \/ \E t \in TurnIds : Had(t)' /\ turn'[t].msg = task[s].msg
  PROVE  \A m \in Stored(db') : Kept(m)'
<1>0. \A r \in Slots : task'[r] = IF r = s THEN h ELSE task[r]
  BY DEF Become, HandlersOK
<1> SUFFICES ASSUME NEW m \in Stored(db') PROVE Kept(m)'
  OBVIOUS
<1>1. CASE Brings(h) /\ h.msg = m
  BY <1>0, <1>1 DEF Kept
<1>2. CASE m \in Stored(db) /\ (m \in Msgs(db.rows) => m \in Msgs(db'.rows))
  <2>1. Kept(m)
    BY <1>2
  <2>2. CASE Given(m)
    <3>1. PICK t \in TurnIds : Had(t) /\ turn[t].msg = m
      BY <2>2 DEF Given
    <3>2. Had(t)' /\ turn'[t].msg = m
      BY <3>1 DEF TurnKept, Had
    <3> QED
      BY <3>2 DEF Kept, Given
  <2>3. CASE \E r \in Slots : Brings(task[r]) /\ task[r].msg = m
    <3>1. PICK r \in Slots : Brings(task[r]) /\ task[r].msg = m
      BY <2>3
    <3>2. CASE r = s
      <4>1. \/ m \in Msgs(db'.rows) \cup refused'
            \/ Brings(h) /\ h.msg = m
            \/ \E t \in TurnIds : Had(t)' /\ turn'[t].msg = m
        BY <3>1, <3>2
      <4> QED
        BY <1>1, <4>1 DEF Kept, Given
    <3>3. CASE r # s
      BY <1>0, <3>1, <3>3 DEF Kept
    <3> QED
      BY <3>2, <3>3
  <2>4. CASE m \in Msgs(db.rows) \cup refused
    BY <1>2, <2>4 DEF Kept
  <2> QED
    BY <2>1, <2>2, <2>3, <2>4 DEF Kept
<1> QED
  BY <1>1, <1>2

(* One handler goes on as h: what it and the others bring.                 *)
LEMMA BroughtMove ==
  ASSUME HandlersOK, BroughtOnce, NEW s \in Slots, NEW h, Become(s, h),
         Brings(h) => /\ h.msg \in Stored(db') /\ h.msg \notin Msgs(db'.rows)
                      /\ \A r \in Slots \ {s} : Brings(task[r]) => task[r].msg # h.msg,
         \A r \in Slots \ {s} : Brings(task[r]) =>
           task[r].msg \in Stored(db') /\ task[r].msg \notin Msgs(db'.rows)
  PROVE  BroughtOnce'
<1>0. \A r \in Slots : task'[r] = IF r = s THEN h ELSE task[r]
  BY DEF Become, HandlersOK
<1> HIDE DEF Brings
<1>1. \A r \in Slots : Brings(task'[r]) =>
        task'[r].msg \in Stored(db') /\ task'[r].msg \notin Msgs(db'.rows)
  BY <1>0
<1>2. \A q, r \in Slots :
        Brings(task'[q]) /\ Brings(task'[r]) /\ task'[q].msg = task'[r].msg => q = r
  BY <1>0 DEF BroughtOnce
<1> QED
  BY <1>1, <1>2 DEF BroughtOnce

(* One handler goes on as h: what the turns were given.                    *)
LEMMA GivenMove ==
  ASSUME HandlersOK, GivenOnce, NEW s \in Slots, NEW h, Become(s, h),
         \A t \in TurnIds : GoesOn(t), fresh' \subseteq fresh,
         \A t \in TurnIds : Had(t) =>
           /\ turn[t].msg \notin Msgs(db'.rows) \ Msgs(db.rows)
           /\ Brings(h) => h.msg # turn[t].msg
           /\ \A n \in Stored(db') \ Stored(db) :
                ToSet(turn[t].msg) \cap ToSet(n) # {} => ToSet(turn[t].msg) \subseteq ToSet(n)
  PROVE  GivenOnce'
<1>0. \A r \in Slots : task'[r] = IF r = s THEN h ELSE task[r]
  BY DEF Become, HandlersOK
<1> SUFFICES ASSUME NEW t \in TurnIds, Had(t)'
             PROVE  /\ turn'[t].msg \notin Msgs(db'.rows)
                    /\ \A r \in Slots : Brings(task'[r]) => task'[r].msg # turn'[t].msg
                    /\ ToSet(turn'[t].msg) \cap fresh' = {}
                    /\ \A n \in Stored(db') : ToSet(turn'[t].msg) \cap ToSet(n) # {}
                         => ToSet(turn'[t].msg) \subseteq ToSet(n)
  BY DEF GivenOnce
<1>1. Had(t) /\ turn'[t].msg = turn[t].msg
  BY DEF GoesOn, TurnKept, Had
<1> HIDE DEF Brings, Had
<1>2. turn[t].msg \notin Msgs(db'.rows) /\ ToSet(turn[t].msg) \cap fresh' = {}
  BY <1>1 DEF GivenOnce
<1>3. \A r \in Slots : Brings(task'[r]) => task'[r].msg # turn[t].msg
  BY <1>0, <1>1 DEF GivenOnce
<1>4. \A n \in Stored(db') :
        ToSet(turn[t].msg) \cap ToSet(n) # {} => ToSet(turn[t].msg) \subseteq ToSet(n)
  BY <1>1 DEF GivenOnce
<1> QED
  BY <1>1, <1>2, <1>3, <1>4

(* One handler goes on as h.                                               *)
LEMMA MergingMove ==
  ASSUME HandlersOK, TurnInv, MergingInv, Spent, \A t \in TurnIds : TurnKept(t),
         NobodyFails', NEW s \in Slots, NEW h, Become(s, h), Onwards(h),
         h.pc \in {"late", "launch"} => turn'[h.tid].msg = h.msg,
         BroughtOnce', GivenOnce', \A m \in Stored(db') : Kept(m)'
  PROVE  MergingInv'
<1>0. \A r \in Slots : task'[r] = IF r = s THEN h ELSE task[r]
  BY DEF Become, HandlersOK
<1>1. Enduring'
  BY EnduringSpent DEF MergingInv
<1>2. \A r \in Slots : Onwards(task'[r])
  BY <1>0 DEF MergingInv
<1>3. SameQuestion'
  <2>1. \A r \in Slots \ {s} : task[r].pc \in {"late", "launch"}
          => turn'[task[r].tid].msg = task[r].msg
    BY OwnQuestion DEF MergingInv
  <2>2. \A r \in Slots : task'[r].pc \in {"late", "launch"} => turn'[task'[r].tid].msg = task'[r].msg
    BY <1>0, <2>1
  <2> QED
    BY <2>2 DEF SameQuestion
<1> QED
  BY <1>1, <1>2, <1>3 DEF MergingInv

(* A handler goes on with its question, or is done with it.                *)
LEMMA MergingOn ==
  ASSUME HandlersOK, TurnInv, MergingInv, Spent, \A t \in TurnIds : GoesOn(t),
         NEW s \in Slots, NEW h, Become(s, h), Onwards(h),
         refused \subseteq refused', fresh' = fresh,
         Stored(db') = Stored(db), Msgs(db'.rows) = Msgs(db.rows),
         Brings(h) => Brings(task[s]) /\ h.msg = task[s].msg,
         h.pc \in {"late", "launch"} => turn'[h.tid].msg = h.msg,
         Brings(task[s]) => \/ task[s].msg \in refused'
                            \/ Brings(h) /\ h.msg = task[s].msg
  PROVE  MergingInv'
<1>1. (\A t \in TurnIds : TurnKept(t)) /\ NobodyFails'
  BY DEF GoesOn, MergingInv, NobodyFails
<1>2. BroughtOnce /\ GivenOnce /\ \A m \in Stored(db) : Kept(m)
  BY DEF MergingInv
<1> HIDE DEF Brings
<1>3. BroughtOnce'
  <2>1. /\ Brings(h) => /\ h.msg \in Stored(db') /\ h.msg \notin Msgs(db'.rows)
                        /\ \A r \in Slots \ {s} : Brings(task[r]) => task[r].msg # h.msg
        /\ \A r \in Slots \ {s} : Brings(task[r]) =>
             task[r].msg \in Stored(db') /\ task[r].msg \notin Msgs(db'.rows)
    BY <1>2 DEF BroughtOnce
  <2> QED
    BY <1>2, <2>1, BroughtMove
<1>4. GivenOnce'
  <2>1. \A t \in TurnIds : Had(t) => (Brings(h) => h.msg # turn[t].msg)
    BY <1>2 DEF GivenOnce
  <2> QED
    BY <1>2, <2>1, GivenMove
<1>5. \A m \in Stored(db') : Kept(m)'
  BY <1>1, <1>2, KeptMove
<1> QED
  BY <1>1, <1>3, <1>4, <1>5, MergingMove

(* No handler goes on.  What is deleted was a row.                         *)
LEMMA MergingRest ==
  ASSUME HandlersOK, TurnInv, MergingInv, Spent, \A t \in TurnIds : GoesOn(t),
         UNCHANGED <<task, refused, fresh>>,
         Stored(db') \subseteq Stored(db), Msgs(db'.rows) \subseteq Msgs(db.rows),
         Msgs(db.rows) \ Msgs(db'.rows) = Stored(db) \ Stored(db')
  PROVE  MergingInv'
<1>1. \A t \in TurnIds : TurnKept(t) /\ (Had(t)' <=> Had(t))
                         /\ (Had(t) => turn'[t].msg = turn[t].msg)
  BY DEF GoesOn, TurnKept, Had
<1>2. Enduring' /\ NobodyFails' /\ \A r \in Slots : Onwards(task'[r])
  BY EnduringSpent DEF MergingInv, NobodyFails, GoesOn
<1>3. SameQuestion'
  <2>1. \A r \in Slots : task[r].pc \in {"late", "launch"} => turn'[task[r].tid].msg = task[r].msg
    BY <1>1, OwnQuestion DEF MergingInv
  <2> QED
    BY <2>1 DEF SameQuestion
<1>4. BroughtOnce /\ GivenOnce /\ \A m \in Stored(db) : Kept(m)
  BY DEF MergingInv
<1> HIDE DEF Brings, Had
<1>5. BroughtOnce'
  BY <1>4 DEF BroughtOnce
<1>6. GivenOnce'
  <2>1. \A t \in TurnIds : Had(t) =>
          /\ turn[t].msg \notin Msgs(db'.rows)
          /\ \A s \in Slots : Brings(task[s]) => task[s].msg # turn[t].msg
          /\ ToSet(turn[t].msg) \cap fresh' = {}
          /\ \A n \in Stored(db') :
               ToSet(turn[t].msg) \cap ToSet(n) # {} => ToSet(turn[t].msg) \subseteq ToSet(n)
    BY <1>4 DEF GivenOnce
  <2> QED
    BY <1>1, <2>1 DEF GivenOnce
<1>7. ASSUME NEW m \in Stored(db') PROVE Kept(m)'
  <2>1. Kept(m) /\ (m \in Msgs(db.rows) => m \in Msgs(db'.rows))
    BY <1>4
  <2>2. Given(m) => Given(m)'
    BY <1>1 DEF Given
  <2> QED
    BY <2>1, <2>2 DEF Kept
<1> QED
  BY <1>2, <1>3, <1>5, <1>6, <1>7 DEF MergingInv

(* A handler that brings nothing goes on while the turns are untouched.    *)
LEMMA MergingIdle ==
  ASSUME HandlersOK, TurnInv, MergingInv, Spent, UNCHANGED <<turn, fresh>>,
         NEW s \in Slots, NEW h, Become(s, h), Onwards(h), ~Brings(h),
         h.pc \notin {"late", "launch"}, refused \subseteq refused',
         Stored(db') = Stored(db), Msgs(db'.rows) = Msgs(db.rows),
         Brings(task[s]) => task[s].msg \in refused'
  PROVE  MergingInv'
<1>1. \A t \in TurnIds : GoesOn(t)
  BY UntouchedGoes
<1> QED
  BY <1>1, MergingOn

(* start(), admission: the question is refused aloud or brought on.        *)
LEMMA MergingAdmission ==
  ASSUME ~Paid, TypeInv, TurnInv, MergingInv, NEW s \in Slots,
         Deny(s) \/ RefusePending(s) \/ FindBusy(s) \/ ClaimSlot(s)
  PROVE  MergingInv'
<1>1. HandlersOK /\ budget \in [Kinds -> Nat]
  BY TypeParts DEF EnvironmentOK
<1>2. task[s].pc = "check" /\ UNCHANGED <<db, turn, fresh>>
  BY DEF Deny, RefusePending, FindBusy, ClaimSlot, Admissible, At, memory, Refuse, history
<1>3. task[s].via # "flush" /\ Brings(task[s])
  BY <1>2 DEF MergingInv, Onwards, Brings
<1>4. Spent
  <2>1. Spend("refuse") \/ UNCHANGED budget
    BY DEF Deny, RefusePending, FindBusy, ClaimSlot, history
  <2> QED
    BY <1>1, <2>1, SpentBudget DEF Kinds
<1>5. ~RefusePending(s)
  BY DEF RefusePending, AccountingPending
<1>6. CASE Deny(s)
  <2>1. Resume(s, "idle") /\ refused' = refused \cup {task[s].msg}
    BY <1>6 DEF Deny, Refuse
  <2>2. PICK h : Become(s, h) /\ h.pc = "idle" /\ h.via # "flush"
    BY <1>1, <1>3, <2>1, ResumeAs
  <2>3. Onwards(h) /\ ~Brings(h)
    BY <2>2 DEF Onwards, Brings
  <2>4. refused \subseteq refused' /\ task[s].msg \in refused'
    BY <2>1
  <2> QED
    BY <1>1, <1>2, <1>4, <2>2, <2>3, <2>4, MergingIdle
<1>7. CASE FindBusy(s) \/ ClaimSlot(s)
  <2>1. PICK h : /\ Become(s, h) /\ h.via # "flush" /\ h.msg = task[s].msg
                 /\ h.pc = "park" \/ (h.pc = "setPause" /\ h.then = "prepare")
    <3>1. CASE FindBusy(s)
      <4>1. Resume(s, "park")
        BY <3>1 DEF FindBusy
      <4> QED
        BY <1>1, <1>3, <4>1, ResumeAs
    <3>2. CASE ClaimSlot(s)
      <4>1. PICK value, next : Pause(s, value, next) /\ next = "prepare"
        BY <3>2 DEF ClaimSlot
      <4> QED
        BY <1>1, <1>3, <4>1, PauseAs
    <3> QED
      BY <1>7, <3>1, <3>2
  <2>2. Onwards(h) /\ Brings(h) /\ h.pc \notin {"late", "launch"}
    BY <2>1 DEF Onwards, Brings
  <2>3. refused \subseteq refused'
    BY <1>7 DEF FindBusy, ClaimSlot, history
  <2> QED
    BY <1>1, <1>2, <1>3, <1>4, <2>1, <2>2, <2>3, UntouchedGoes, MergingOn
<1> QED
  BY <1>5, <1>6, <1>7

(* A handler puts its question into the queue.                             *)
LEMMA MergingQueued ==
  ASSUME TypeInv, StoreInv, TurnInv, MergingInv, Spent, UNCHANGED <<turn, refused, fresh>>,
         NEW s \in Slots, Brings(task[s]), NEW h, Become(s, h), h.pc = "idle", h.via # "flush",
         db' = EnqueueTurn(db, task[s].msg, TRUE)
  PROVE  MergingInv'
<1>1. HandlersOK /\ db \in Store /\ RowsMatch(db) /\ task[s].msg \in Message
  BY TypeParts, TaskFields DEF StoreInv
<1>2. BroughtOnce /\ GivenOnce /\ (\A m \in Stored(db) : Kept(m)) /\ NobodyFails
  BY DEF MergingInv
<1>3. Onwards(h) /\ ~Brings(h) /\ h.pc \notin {"late", "launch"}
  BY DEF Onwards, Brings
<1>4. HasMessage(db, task[s].msg)
  BY <1>2 DEF BroughtOnce, HasMessage, Stored
<1>5. Stored(db') = Stored(db) /\ Msgs(db'.rows) = Msgs(db.rows) \cup {task[s].msg}
  BY <1>1, <1>4, EnqueueKeeps
<1>6. \A t \in TurnIds : TurnKept(t) /\ GoesOn(t)
  BY UntouchedGoes DEF GoesOn
<1> HIDE DEF Brings
<1>7. \A r \in Slots \ {s} : Brings(task[r]) =>
        task[r].msg \in Stored(db') /\ task[r].msg \notin Msgs(db'.rows)
  BY <1>2, <1>5 DEF BroughtOnce
<1>8. \A t \in TurnIds : Had(t) => turn[t].msg # task[s].msg
  BY <1>2 DEF GivenOnce
<1>9. BroughtOnce'
  BY <1>1, <1>2, <1>3, <1>7, BroughtMove
<1>10. GivenOnce'
  BY <1>1, <1>2, <1>3, <1>5, <1>6, <1>8, GivenMove
<1>11. \A m \in Stored(db') : Kept(m)'
  BY <1>1, <1>2, <1>5, <1>6, KeptMove
<1>12. NobodyFails'
  BY <1>2 DEF NobodyFails
<1> QED
  BY <1>1, <1>3, <1>6, <1>9, <1>10, <1>11, <1>12, MergingMove

(* A handler takes a question out of the queue.                            *)
LEMMA MergingTaken ==
  ASSUME TypeInv, StoreInv, TurnInv, MergingInv, Spent, UNCHANGED <<turn, refused, fresh>>,
         NEW s \in Slots, ~Brings(task[s]), Waiting(db) # {}, db' = TakeQueuedTurn(db),
         NEW h, Become(s, h), h.pc = "check", h.via = "queue", h.msg = db.rows[NextRow(db)].msg
  PROVE  MergingInv'
<1>1. HandlersOK /\ db \in Store /\ RowsMatch(db)
  BY TypeParts DEF StoreInv
<1>2. BroughtOnce /\ GivenOnce /\ (\A m \in Stored(db) : Kept(m)) /\ NobodyFails
  BY DEF MergingInv
<1>3. Onwards(h) /\ Brings(h) /\ h.pc \notin {"late", "launch"}
  BY DEF Onwards, Brings
<1>4. Stored(db') = Stored(db) /\ Msgs(db'.rows) = Msgs(db.rows) \ {h.msg}
  BY <1>1, TakeKeeps
<1>5. h.msg \in Msgs(db.rows) /\ h.msg \in Stored(db)
  <2>1. NextRow(db) \in DOMAIN db.rows
    BY <1>1, NextRowType
  <2>2. h.msg \in Msgs(db.rows)
    BY <2>1 DEF Msgs
  <2> QED
    BY <1>1, <2>2 DEF RowsMatch
<1>6. \A t \in TurnIds : TurnKept(t) /\ GoesOn(t)
  BY UntouchedGoes DEF GoesOn
<1> HIDE DEF Brings
<1>7. \A r \in Slots : Brings(task[r]) =>
        /\ task[r].msg # h.msg
        /\ task[r].msg \in Stored(db') /\ task[r].msg \notin Msgs(db'.rows)
  BY <1>2, <1>4, <1>5 DEF BroughtOnce
<1>8. \A t \in TurnIds : Had(t) => turn[t].msg # h.msg
  BY <1>2, <1>5 DEF GivenOnce
<1>9. BroughtOnce'
  BY <1>1, <1>2, <1>4, <1>5, <1>7, BroughtMove
<1>10. GivenOnce'
  BY <1>1, <1>2, <1>4, <1>6, <1>8, GivenMove
<1>11. \A m \in Stored(db') : Kept(m)'
  BY <1>1, <1>2, <1>3, <1>4, <1>6, KeptMove
<1>12. NobodyFails'
  BY <1>2 DEF NobodyFails
<1> QED
  BY <1>1, <1>3, <1>6, <1>9, <1>10, <1>11, <1>12, MergingMove

(* What cannot happen.                                                     *)
LEMMA MergingNever ==
  ASSUME ~Paid, MergingInv
  PROVE  /\ \A s \in Slots : ~PutBack(s) /\ ~MarkFailed(s) /\ ~Exit(s) /\ ~FailPreparation(s)
         /\ \A t \in TurnIds : ~OnDenied(t) /\ \A lost \in BOOLEAN : ~OnError(t, lost)
         /\ ~Shutdown /\ ~Crash /\ ~OtherChatPays
         /\ \A i \in Inputs : ~Resend(i)
         /\ \A m \in db.shown : ~Erase(m)
<1>1. \A k \in {"crash", "shutdown", "fault", "erase", "error", "resend"} : ~Spend(k)
  BY DEF MergingInv, Enduring, Spend
<1>2. \A s \in Slots :
        task[s].pc \notin {"restore", "requeue", "keep", "retry", "markFailed", "exit"}
  BY DEF MergingInv, Onwards
<1>3. \A s \in Slots : ~PutBack(s) /\ ~MarkFailed(s) /\ ~Exit(s)
  BY <1>2 DEF PutBack, MarkFailed, Exit, Called, At
<1>4. \A t \in TurnIds : ~OnDenied(t)
  BY DEF MergingInv, NobodyFails, OnDenied
<1> QED
  BY <1>1, <1>3, <1>4
  DEF FailPreparation, OnError, Shutdown, Crash, OtherChatPays, Resend, Erase, Manage

(* The handlers' database calls but the merge.                             *)
LEMMA MergingCall ==
  ASSUME TypeInv, StoreInv, TurnInv, MergingInv, NEW s \in Slots
  PROVE  Enqueue(s) \/ Prioritize(s) \/ SetPause(s) \/ Take(s) => MergingInv'
<1>1. HandlersOK /\ db \in Store /\ RowsMatch(db) /\ budget \in [Kinds -> Nat]
  BY TypeParts DEF StoreInv, EnvironmentOK
<1>2. task[s].via # "flush" /\ Flows(task[s]) /\ Onwards(task[s])
  BY <1>1 DEF MergingInv, Onwards, HandlersOK
<1>3. UNCHANGED budget => Spent
  BY <1>1, SpentBudget
<1>5. CASE Enqueue(s)
  <2>1. task[s].pc = "park" /\ UNCHANGED <<refused, fresh, budget>>
    BY <1>2, <1>5 DEF Enqueue, Called, history, Onwards
  <2>2. Brings(task[s])
    BY <2>1 DEF Brings
  <2>3. HasMessage(db, task[s].msg)
    BY <2>2 DEF MergingInv, BroughtOnce, HasMessage, Stored
  <2>4. db' = EnqueueTurn(db, task[s].msg, TRUE) /\ UNCHANGED turn /\ Resume(s, "idle")
    BY <1>5, <2>1, <2>3 DEF Enqueue, At
  <2>5. PICK h : Become(s, h) /\ h.pc = "idle" /\ h.via # "flush"
    BY <1>1, <1>2, <2>4, ResumeAs
  <2> QED
    BY <1>3, <2>1, <2>2, <2>4, <2>5, MergingQueued
<1>6. CASE Prioritize(s)
  <2>1. /\ task[s].pc = "prioritize" /\ UNCHANGED <<turn, refused, fresh, budget>>
        /\ Resume(s, "setPause")
    BY <1>6 DEF Prioritize, Called, history
  <2>2. task[s].then \in {"idle", "dispatch"} /\ ~Brings(task[s])
    BY <1>2, <2>1 DEF Flows, Brings
  <2>3. PICK h : /\ Become(s, h) /\ h.via # "flush" /\ h.pc = "setPause"
                 /\ h.then \in {"idle", "dispatch"}
    BY <1>1, <1>2, <2>1, <2>2, ResumeAs
  <2>4. ~Brings(h) /\ Onwards(h) /\ h.pc \notin {"late", "launch"}
    BY <2>3 DEF Brings, Onwards
  <2>5. Stored(db') = Stored(db) /\ Msgs(db'.rows) = Msgs(db.rows)
    <3>1. CASE ~HasRow(db, task[s].msg)
      BY <1>6, <3>1 DEF Prioritize
    <3>2. CASE HasRow(db, task[s].msg)
      <4>1. PICK k \in DOMAIN db.rows : db' = PrioritizeQueuedTurn(db, k)
        BY <1>6, <3>2 DEF Prioritize, HasRow
      <4> QED
        BY <1>1, <4>1, PrioritizeKeeps
    <3> QED
      BY <3>1, <3>2
  <2>6. refused \subseteq refused' /\ UNCHANGED <<turn, fresh>>
    BY <2>1
  <2> QED
    BY <1>1, <1>3, <2>1, <2>2, <2>3, <2>4, <2>5, <2>6, MergingIdle
<1>7. CASE SetPause(s)
  <2>1. /\ task[s].pc = "setPause" /\ db' = SetTurnQueuePaused(db, task[s].pause)
        /\ UNCHANGED <<turn, refused, fresh, budget>> /\ Resume(s, task[s].then)
    BY <1>7 DEF SetPause, Called, history
  <2>2. task[s].then \in {"idle", "dispatch", "prepare", "savePartial", "restart"}
    BY <1>2, <2>1 DEF Flows
  <2>3. PICK h : /\ Become(s, h) /\ h.via # "flush" /\ h.pc = task[s].then
                 /\ h.pc # "idle" => h.msg = task[s].msg
    BY <1>1, <1>2, <2>1, ResumeAs
  <2>4. /\ Brings(h) => Brings(task[s]) /\ h.msg = task[s].msg
        /\ Brings(task[s]) => Brings(h) /\ h.msg = task[s].msg
    BY <2>1, <2>2, <2>3 DEF Brings
  <2>5. Stored(db') = Stored(db) /\ Msgs(db'.rows) = Msgs(db.rows)
    BY <1>1, <2>1, PauseKeeps
  <2>6. Onwards(h) /\ h.pc \notin {"late", "launch"}
    BY <2>2, <2>3 DEF Onwards
  <2>7. refused \subseteq refused' /\ UNCHANGED turn /\ fresh' = fresh
    BY <2>1
  <2> QED
    BY <1>1, <1>3, <2>1, <2>3, <2>4, <2>5, <2>6, <2>7, UntouchedGoes, MergingOn
<1>8. CASE Take(s)
  <2>1. task[s].pc = "take" /\ UNCHANGED <<turn, refused, fresh, budget>>
    BY <1>8 DEF Take, Called, history
  <2>2. ~Brings(task[s])
    BY <2>1 DEF Brings
  <2>3. CASE Waiting(db) = {}
    <3>1. Resume(s, "idle") /\ db' = db
      BY <1>8, <2>3 DEF Take
    <3>2. PICK h : Become(s, h) /\ h.via # "flush" /\ h.pc = "idle"
      BY <1>1, <1>2, <3>1, ResumeAs
    <3>3. ~Brings(h) /\ Onwards(h) /\ h.pc \notin {"late", "launch"}
      BY <3>2 DEF Brings, Onwards
    <3>4. /\ Stored(db') = Stored(db) /\ Msgs(db'.rows) = Msgs(db.rows)
          /\ refused \subseteq refused'
      BY <2>1, <3>1
    <3> QED
      BY <1>1, <1>3, <2>1, <2>2, <3>2, <3>3, <3>4, MergingIdle
  <2>4. CASE Waiting(db) # {}
    <3>1. PICK h : h = StartTask(db.rows[NextRow(db)].msg, "queue")
      OBVIOUS
    <3>2. Become(s, h) /\ db' = TakeQueuedTurn(db)
      BY <1>8, <2>4, <3>1 DEF Take
    <3>3. h.pc = "check" /\ h.msg = db.rows[NextRow(db)].msg /\ h.via = "queue"
      BY <3>1 DEF StartTask, Idle
    <3> QED
      BY <1>3, <2>1, <2>2, <2>4, <3>2, <3>3, MergingTaken
  <2> QED
    BY <2>3, <2>4
<1> QED
  BY <1>5, <1>6, <1>7, <1>8

(* A handler gives its question to the turn that it registers.             *)
LEMMA MergingGiven ==
  ASSUME TypeInv, StoreInv, TurnInv, MergingInv, Spent, UNCHANGED <<db, refused, fresh>>,
         NEW s \in Slots, task[s].pc = "late", NEW t \in TurnIds, t = task[s].tid,
         NEW exec \in {"new", "running"}, turn' = [turn EXCEPT ![t].exec = exec],
         NEW h, Become(s, h), h.via # "flush",
         h.pc = "idle" \/ (h.pc = "launch" /\ h.tid = t /\ h.msg = task[s].msg)
  PROVE  MergingInv'
<1>1. HandlersOK /\ TurnOK /\ Apart(Stored(db), fresh)
  BY TypeParts DEF StoreInv
<1>2. /\ BroughtOnce /\ GivenOnce /\ (\A m \in Stored(db) : Kept(m)) /\ NobodyFails
      /\ SameQuestion
  BY DEF MergingInv
<1>3. Onwards(h) /\ ~Brings(h) /\ Brings(task[s])
  BY DEF Onwards, Brings
<1>4. turn[t].exec = "refused" /\ turn[t].msg = task[s].msg
  BY <1>2 DEF TurnInv, HandlersFit, HandlerFits, SameQuestion
<1>5. /\ turn'[t].exec = exec /\ turn'[t].msg = task[s].msg
      /\ \A u \in TurnIds \ {t} : turn'[u] = turn[u]
  BY <1>1, <1>4 DEF TurnOK, TurnState
<1>6. \A u \in TurnIds : TurnKept(u)
  BY <1>4, <1>5 DEF TurnKept, Had
<1>7. NobodyFails'
  BY <1>2, <1>5 DEF NobodyFails
<1>8. Had(t)' /\ \A u \in TurnIds \ {t} : Had(u)' <=> Had(u)
  BY <1>5 DEF Had
<1>9. h.pc \in {"late", "launch"} => turn'[h.tid].msg = h.msg
  BY <1>5
<1>10. \A r \in Slots : task'[r] = IF r = s THEN h ELSE task[r]
  BY <1>1 DEF Become, HandlersOK
<1> HIDE DEF Brings, Had
<1>11. BroughtOnce'
  <2>1. \A r \in Slots \ {s} : Brings(task[r]) =>
          task[r].msg \in Stored(db') /\ task[r].msg \notin Msgs(db'.rows)
    BY <1>2 DEF BroughtOnce
  <2> QED
    BY <1>1, <1>2, <1>3, <2>1, BroughtMove
<1>12. \A r \in Slots : Brings(task'[r]) => Brings(task[r]) /\ task'[r].msg = task[r].msg
                                            /\ task'[r].msg # task[s].msg
  BY <1>2, <1>3, <1>10 DEF BroughtOnce
<1>13. GivenOnce'
  <2>1. ASSUME NEW u \in TurnIds \ {t}, Had(u)
        PROVE  /\ turn[u].msg \notin Msgs(db.rows)
               /\ \A r \in Slots : Brings(task'[r]) => task'[r].msg # turn[u].msg
               /\ ToSet(turn[u].msg) \cap fresh = {}
               /\ \A n \in Stored(db) :
                    ToSet(turn[u].msg) \cap ToSet(n) # {} => ToSet(turn[u].msg) \subseteq ToSet(n)
    BY <1>2, <1>12, <2>1 DEF GivenOnce
  <2>2. task[s].msg \in Stored(db) /\ task[s].msg \notin Msgs(db.rows)
    BY <1>2, <1>3 DEF BroughtOnce
  <2>3. /\ ToSet(task[s].msg) \cap fresh = {}
        /\ \A n \in Stored(db) : ToSet(task[s].msg) \cap ToSet(n) # {}
             => ToSet(task[s].msg) \subseteq ToSet(n)
    BY <1>1, <2>2 DEF Apart
  <2>4. ASSUME NEW u \in TurnIds, Had(u)'
        PROVE  /\ turn'[u].msg \notin Msgs(db'.rows)
               /\ \A r \in Slots : Brings(task'[r]) => task'[r].msg # turn'[u].msg
               /\ ToSet(turn'[u].msg) \cap fresh' = {}
               /\ \A n \in Stored(db') : ToSet(turn'[u].msg) \cap ToSet(n) # {}
                    => ToSet(turn'[u].msg) \subseteq ToSet(n)
    <3>1. CASE u = t
      BY <1>5, <1>12, <2>2, <2>3, <3>1
    <3>2. CASE u # t
      <4>1. Had(u) /\ turn'[u].msg = turn[u].msg
        BY <1>5, <1>8, <2>4, <3>2
      <4> QED
        BY <2>1, <3>2, <4>1
    <3> QED
      BY <3>1, <3>2
  <2> QED
    BY <2>4 DEF GivenOnce
<1>14. \A m \in Stored(db') : Kept(m)'
  <2>1. \E u \in TurnIds : Had(u)' /\ turn'[u].msg = task[s].msg
    BY <1>5, <1>8
  <2> QED
    BY <1>1, <1>2, <1>6, <2>1, KeptMove
<1> QED
  BY <1>1, <1>3, <1>6, <1>7, <1>9, <1>11, <1>13, <1>14, MergingMove

(* start(), preparation and launch.                                        *)
LEMMA MergingPreparation ==
  ASSUME ~Paid, TypeInv, StoreInv, TurnInv, MergingInv, NEW s \in Slots
  PROVE  /\ RefusePreparation(s) \/ MachineOffline(s) => MergingInv'
         /\ GrantTools(s) \/ Register(s) \/ Launch(s) => MergingInv'
<1>1. HandlersOK /\ TurnOK /\ budget \in [Kinds -> Nat]
  BY TypeParts DEF EnvironmentOK
<1>2. /\ task[s].via # "flush" /\ HandlerFits(task[s], turn, unsaved, finalizing)
      /\ SameQuestion
  BY DEF MergingInv, Onwards, TurnInv, HandlersFit
<1>3. UNCHANGED budget => Spent
  BY <1>1, SpentBudget
<1>4. CASE RefusePreparation(s) \/ MachineOffline(s)
  <2>1. /\ Resume(s, "idle") /\ UNCHANGED <<db, turn, fresh>> /\ Spend("refuse")
        /\ refused' = refused \cup {task[s].msg}
    BY <1>4 DEF RefusePreparation, MachineOffline, Refuse
  <2>2. Spent
    BY <1>1, <2>1, SpentBudget DEF Kinds
  <2>3. PICK h : Become(s, h) /\ h.via # "flush" /\ h.pc = "idle"
    BY <1>1, <1>2, <2>1, ResumeAs
  <2>4. ~Brings(h) /\ Onwards(h) /\ h.pc \notin {"late", "launch"}
    BY <2>3 DEF Brings, Onwards
  <2>5. refused \subseteq refused' /\ task[s].msg \in refused'
    BY <2>1
  <2>6. Stored(db') = Stored(db) /\ Msgs(db'.rows) = Msgs(db.rows) /\ UNCHANGED <<turn, fresh>>
    BY <2>1
  <2> QED
    BY <1>1, <2>2, <2>3, <2>4, <2>5, <2>6, MergingIdle
<1>6. CASE GrantTools(s)
  <2>1. PICK t \in TurnIds :
          /\ turn[t].exec = "free"
          /\ turn' = [turn EXCEPT ![t] = [@ EXCEPT !.exec = "refused", !.msg = task[s].msg,
                                                   !.via = task[s].via]]
          /\ Become(s, [task[s] EXCEPT !.pc = "late", !.tid = t])
    BY <1>6 DEF GrantTools
  <2>2. task[s].pc = "prepare" /\ UNCHANGED <<db, refused, fresh, budget>>
    BY <1>6 DEF GrantTools, At, history
  <2>3. /\ turn'[t].exec = "refused" /\ turn'[t].msg = task[s].msg
        /\ \A u \in TurnIds \ {t} : turn'[u] = turn[u]
    BY <1>1, <2>1 DEF TurnOK, TurnState
  <2>4. \A u \in TurnIds : GoesOn(u)
    BY <2>1, <2>3 DEF GoesOn, TurnKept, Had
  <2>5. PICK h : h = [task[s] EXCEPT !.pc = "late", !.tid = t]
    OBVIOUS
  <2>6. /\ h.pc = "late" /\ h.tid = t /\ h.msg = task[s].msg /\ h.via = task[s].via
        /\ Become(s, h)
    BY <1>1, <2>1, <2>5 DEF HandlersOK, Task
  <2>7. Onwards(h) /\ Brings(h) /\ Brings(task[s])
    BY <1>2, <2>2, <2>6 DEF Onwards, Brings
  <2>8. /\ Stored(db') = Stored(db) /\ Msgs(db'.rows) = Msgs(db.rows)
        /\ refused \subseteq refused' /\ fresh' = fresh /\ Spent
    BY <1>3, <2>2
  <2>9. turn'[h.tid].msg = h.msg
    BY <2>3, <2>6
  <2> QED
    BY <1>1, <2>4, <2>6, <2>7, <2>8, <2>9, MergingOn
<1>7. CASE Register(s)
  <2>1. PICK t : t = task[s].tid
    OBVIOUS
  <2>2. task[s].pc = "late" /\ UNCHANGED <<db, refused, fresh, budget>>
    BY <1>7 DEF Register, At, history
  <2>3. t \in TurnIds
    BY <1>2, <2>1, <2>2 DEF HandlerFits
  <2>4. PICK exec \in {"new", "running"} : turn' = [turn EXCEPT ![t].exec = exec]
    BY <1>7, <2>1 DEF Register, Launched
  <2>5. PICK h : /\ Become(s, h) /\ h.via # "flush"
                 /\ h.pc = "idle" \/ (h.pc = "launch" /\ h.tid = t /\ h.msg = task[s].msg)
    <3>1. CASE Resume(s, "launch")
      BY <1>1, <1>2, <2>1, <3>1, ResumeAs
    <3>2. CASE Resume(s, "idle")
      BY <1>1, <1>2, <3>2, ResumeAs
    <3> QED
      BY <1>7, <3>1, <3>2 DEF Register
  <2> QED
    BY <1>3, <2>1, <2>2, <2>3, <2>4, <2>5, MergingGiven
<1>8. CASE Launch(s)
  <2>1. PICK t : t = task[s].tid
    OBVIOUS
  <2>2. /\ task[s].pc = "launch" /\ UNCHANGED <<db, refused, fresh, budget>>
        /\ Resume(s, "idle")
    BY <1>8 DEF Launch, At, history
  <2>3. t \in TurnIds /\ Had(t)
    BY <1>2, <2>1, <2>2 DEF HandlerFits, Had
  <2>4. turn' = [turn EXCEPT ![t].exec = "running"]
    BY <1>8, <2>1 DEF Launch, Launched
  <2>5. \A u \in TurnIds : GoesOn(u)
    <3>1. PICK exec \in {"running"} : turn' = [turn EXCEPT ![t].exec = exec]
      BY <2>4
    <3> QED
      BY <1>1, <2>3, <3>1, OneGoes
  <2>6. PICK h : Become(s, h) /\ h.via # "flush" /\ h.pc = "idle"
    BY <1>1, <1>2, <2>2, ResumeAs
  <2>7. ~Brings(h) /\ Onwards(h) /\ h.pc \notin {"late", "launch"} /\ ~Brings(task[s])
    BY <2>2, <2>6 DEF Brings, Onwards
  <2>8. /\ Stored(db') = Stored(db) /\ Msgs(db'.rows) = Msgs(db.rows)
        /\ refused \subseteq refused' /\ fresh' = fresh /\ Spent
    BY <1>3, <2>2
  <2> QED
    BY <1>1, <2>5, <2>6, <2>7, <2>8, MergingOn
<1> QED
  BY <1>4, <1>6, <1>7, <1>8

(* The tail of onDone, dispatchNext() and the end of a stopped turn.       *)
LEMMA MergingTail ==
  ASSUME TypeInv, TurnInv, MergingInv, NEW s \in Slots,
         Save(s) \/ Insert(s) \/ Dispatch(s) \/ Gate(s) \/ SavePartial(s)
  PROVE  MergingInv'
<1>1. HandlersOK /\ TurnOK /\ budget \in [Kinds -> Nat]
  BY TypeParts DEF EnvironmentOK
<1>2. task[s].via # "flush" /\ HandlerFits(task[s], turn, unsaved, finalizing)
  BY DEF MergingInv, Onwards, TurnInv, HandlersFit
<1>3. /\ task[s].pc \in {"save", "insert", "dispatch", "gate", "savePartial"}
      /\ UNCHANGED <<db, refused, fresh, budget>>
  BY DEF Save, Insert, Dispatch, Gate, SavePartial, At, Called, history
<1>4. Spent
  BY <1>1, <1>3, SpentBudget
<1>5. ~Brings(task[s])
  BY <1>3 DEF Brings
<1>6. \A u \in TurnIds : GoesOn(u)
  <2>1. CASE UNCHANGED turn
    BY <2>1, UntouchedGoes
  <2>2. PICK t : t = task[s].tid
    OBVIOUS
  <2>3. task[s].pc \in {"save", "insert", "savePartial"} => t \in TurnIds /\ turn[t].done
    BY <1>2, <2>2 DEF HandlerFits, Storing
  <2>4. \/ UNCHANGED turn
        \/ task[s].pc \in {"save", "insert", "savePartial"}
           /\ (Reply(t) \/ turn' = [turn EXCEPT ![t].saved = TRUE])
    BY <2>2 DEF Save, Insert, Dispatch, Gate, SavePartial, At
  <2>5. task[s].pc \in {"save", "insert", "savePartial"} => t \in TurnIds /\ Had(t)
    BY <2>3 DEF TurnInv, TurnsFit, TurnFits
  <2> QED
    BY <1>1, <2>1, <2>4, <2>5, OneGoes
<1>7. PICK h : /\ Become(s, h) /\ h.via # "flush"
               /\ h.pc \in {"idle", "insert", "dispatch", "gate", "take"}
                  \/ (h.pc = "setPause" /\ h.then = "idle")
  <2>1. CASE \E value \in BOOLEAN : Pause(s, value, "idle")
    <3>1. PICK value, next : Pause(s, value, next) /\ next = "idle"
      BY <2>1
    <3> QED
      BY <1>1, <1>2, <3>1, PauseAs
  <2>2. CASE \E pc \in {"idle", "insert", "dispatch", "gate", "take"} : Resume(s, pc)
    BY <1>1, <1>2, <2>2, ResumeAs
  <2>3. CASE Save(s)
    BY <2>2, <2>3 DEF Save
  <2>4. CASE Insert(s)
    BY <2>2, <2>4 DEF Insert
  <2>5. CASE Dispatch(s)
    BY <2>2, <2>5 DEF Dispatch
  <2>6. CASE Gate(s)
    BY <2>1, <2>2, <2>6 DEF Gate
  <2>7. CASE SavePartial(s)
    BY <1>2, <2>2, <2>7 DEF SavePartial
  <2> QED
    BY <2>3, <2>4, <2>5, <2>6, <2>7
<1>8. Onwards(h) /\ ~Brings(h) /\ h.pc \notin {"late", "launch"}
  BY <1>7 DEF Onwards, Brings
<1>9. /\ Stored(db') = Stored(db) /\ Msgs(db'.rows) = Msgs(db.rows)
      /\ refused \subseteq refused' /\ fresh' = fresh
  BY <1>3
<1> QED
  BY <1>1, <1>4, <1>5, <1>6, <1>7, <1>8, <1>9, MergingOn

(* What a merge does to the messages and the rows.                         *)
LEMMA MergeEffect ==
  ASSUME NEW d \in Store, RowsMatch(d), NEW unsent, Apart(Stored(d), unsent),
         NEW i \in DOMAIN d.rows, NEW a \in Stored(d)
  PROVE  LET e == MergeQueuedTurnIntoMessage(d, i, a)
             m == d.rows[i].msg
         IN  /\ Stored(e) = (Stored(d) \ {m, a}) \cup {a \o m}
             /\ Msgs(e.rows) = Msgs(d.rows) \ {m, a}
             /\ a \o m \notin Stored(d) \ {m, a}
<1> DEFINE m == d.rows[i].msg
           f == DeleteMessage(d, m)
           g == DeleteMessage(f, a)
           c == a \o m
           e == AddMessage(g, c)
<1>1. m \in Msgs(d.rows)
  BY DEF Msgs
<1>2. m \in Stored(d) /\ Stored(d) \subseteq Message
  BY <1>1, StoreFields DEF RowsMatch, Stored
<1>3. /\ f \in Store /\ RowsMatch(f) /\ Stored(f) = Stored(d) \ {m}
      /\ Msgs(f.rows) = Msgs(d.rows) \ {m}
  BY DeleteKeeps, DeleteMessageType
<1> HIDE DEF f
<1>4. /\ g \in Store /\ RowsMatch(g) /\ Stored(g) = Stored(f) \ {a}
      /\ Msgs(g.rows) = Msgs(f.rows) \ {a}
  BY <1>3, DeleteKeeps, DeleteMessageType
<1> HIDE DEF g, m
<1>5. Stored(g) = Stored(d) \ {m, a} /\ Msgs(g.rows) = Msgs(d.rows) \ {m, a}
  BY <1>3, <1>4
<1>6. c \notin Stored(g)
  BY <1>2, <1>5, ApartMerge
<1> HIDE DEF c
<1>7. Stored(e) = Stored(g) \cup {c} /\ e.rows = g.rows
  BY <1>4, <1>6, AddKeeps DEF Stored
<1>8. e = MergeQueuedTurnIntoMessage(d, i, a)
  BY DEF MergeQueuedTurnIntoMessage, c, e, f, g, m
<1> HIDE DEF e
<1>9. /\ Stored(e) = (Stored(d) \ {m, a}) \cup {c}
      /\ Msgs(e.rows) = Msgs(d.rows) \ {m, a} /\ c \notin Stored(d) \ {m, a}
  BY <1>5, <1>6, <1>7
<1> QED
  BY <1>8, <1>9 DEF c, m

(* The message of a turn and a queued one become the question of a         *)
(* handler: nobody was given both, so nobody was given what they become.   *)
LEMMA MergingMerged ==
  ASSUME TypeInv, StoreInv, TurnInv, MergingInv, Spent, UNCHANGED <<refused, fresh>>,
         NEW t \in TurnIds, Had(t), \A u \in TurnIds : GoesOn(u),
         NEW own, own = turn[t].msg, own \in Stored(db),
         NEW s \in Slots, task[s].pc = "merge", NEW i \in DOMAIN db.rows,
         db.rows[i].msg = task[s].msg, own # task[s].msg,
         db' = MergeQueuedTurnIntoMessage(db, i, own),
         NEW h, Become(s, h), h.pc = "setPause", h.then = "restart", h.via # "flush",
         h.msg = own \o task[s].msg
  PROVE  MergingInv'
<1>1. HandlersOK /\ db \in Store /\ RowsMatch(db) /\ Apart(Stored(db), fresh)
  BY TypeParts DEF StoreInv
<1>2. BroughtOnce /\ GivenOnce /\ (\A m \in Stored(db) : Kept(m)) /\ NobodyFails
  BY DEF MergingInv
<1>3. Onwards(h) /\ Brings(h) /\ h.pc \notin {"late", "launch"} /\ ~Brings(task[s])
  BY DEF Onwards, Brings
<1>4. (\A u \in TurnIds : TurnKept(u)) /\ NobodyFails'
  BY <1>2 DEF GoesOn, NobodyFails
<1>5. PICK q : q = task[s].msg
  OBVIOUS
<1>6. PICK m : m = own \o q
  OBVIOUS
<1>7. q \in Msgs(db.rows) /\ q \in Stored(db) /\ own # q /\ h.msg = m
  <2>1. q \in Msgs(db.rows)
    BY <1>5 DEF Msgs
  <2> QED
    BY <1>1, <1>5, <1>6, <2>1 DEF RowsMatch
<1>8. own \notin Msgs(db.rows)
  BY <1>2 DEF GivenOnce
<1>9. /\ Stored(db') = (Stored(db) \ {q, own}) \cup {m}
      /\ Msgs(db'.rows) = Msgs(db.rows) \ {q}
      /\ m \notin Stored(db) \ {q, own}
  <2>1. /\ Stored(db') = (Stored(db) \ {db.rows[i].msg, own}) \cup {own \o db.rows[i].msg}
        /\ Msgs(db'.rows) = Msgs(db.rows) \ {db.rows[i].msg, own}
        /\ own \o db.rows[i].msg \notin Stored(db) \ {db.rows[i].msg, own}
    BY ZenonT(60), <1>1, MergeEffect
  <2>2. db.rows[i].msg = q /\ own \o db.rows[i].msg = m
    BY <1>5, <1>6
  <2>3. /\ Stored(db') = (Stored(db) \ {q, own}) \cup {m}
        /\ Msgs(db'.rows) = Msgs(db.rows) \ {q, own}
        /\ m \notin Stored(db) \ {q, own}
    BY <2>1, <2>2
  <2> QED
    BY <1>8, <2>3
<1>10. Msgs(db'.rows) \subseteq Stored(db) \ {q, own}
  BY <1>1, <1>8, <1>9 DEF RowsMatch
<1>11. ToSet(m) = ToSet(own) \cup ToSet(q)
  <2>1. own \in Message /\ q \in Message
    BY <1>1, <1>7, StoreFields DEF Stored
  <2> QED
    BY <1>6, <2>1, ConcatSet DEF Message
<1>12. ASSUME NEW n \in Stored(db) PROVE ToSet(n) # {}
  <2>1. n \in Seq(Inputs) /\ n # <<>>
    BY <1>1, StoreFields DEF Apart, Message, Stored
  <2>2. Len(n) \in Nat /\ DOMAIN n = 1..Len(n) /\ Len(n) # 0
    BY <2>1, LenProperties, EmptySeq
  <2>3. n[1] \in ToSet(n)
    BY <2>2 DEF ToSet
  <2> QED
    BY <2>3
<1>13. ToSet(own) \cap ToSet(q) = {} /\ ToSet(own) # {} /\ ToSet(q) # {}
  BY <1>1, <1>7, <1>12 DEF Apart
<1> HIDE DEF Brings, Had
<1>14. BroughtOnce'
  <2>1. ASSUME NEW r \in Slots, Brings(task[r])
        PROVE  task[r].msg \in Stored(db) \ {q, own} /\ task[r].msg \notin Msgs(db.rows)
    BY <1>2, <1>7, <2>1 DEF BroughtOnce, GivenOnce
  <2>2. \A r \in Slots \ {s} : Brings(task[r]) =>
          /\ task[r].msg \in Stored(db') /\ task[r].msg \notin Msgs(db'.rows)
          /\ task[r].msg # h.msg
    BY <1>7, <1>9, <2>1
  <2>3. h.msg \in Stored(db') /\ h.msg \notin Msgs(db'.rows)
    BY <1>7, <1>9, <1>10
  <2> QED
    BY <1>1, <1>2, <2>2, <2>3, BroughtMove
<1>15. GivenOnce'
  <2>1. ASSUME NEW u \in TurnIds, Had(u)
        PROVE  /\ turn[u].msg \notin Msgs(db'.rows) \ Msgs(db.rows)
               /\ h.msg # turn[u].msg
               /\ \A n \in Stored(db') \ Stored(db) :
                    ToSet(turn[u].msg) \cap ToSet(n) # {} => ToSet(turn[u].msg) \subseteq ToSet(n)
    <3>1. PICK given : given = turn[u].msg
      OBVIOUS
    <3>2. \A n \in {own, q} : ToSet(given) \cap ToSet(n) # {} => ToSet(given) \subseteq ToSet(n)
      BY <1>2, <1>7, <2>1, <3>1 DEF GivenOnce
    <3>3. given # m
      BY <1>11, <1>13, <3>2
    <3>4. ToSet(given) \cap ToSet(m) # {} => ToSet(given) \subseteq ToSet(m)
      BY <1>11, <3>2
    <3>5. \A n \in Stored(db') \ Stored(db) : n = m
      BY <1>9
    <3> QED
      BY <1>7, <1>9, <3>1, <3>3, <3>4, <3>5
  <2> QED
    BY <1>1, <1>2, <2>1, GivenMove
<1>16. \A n \in Stored(db') : Kept(n)'
  <2>1. \A n \in Stored(db') : \/ n \in Stored(db) /\ (n \in Msgs(db.rows) => n \in Msgs(db'.rows))
                               \/ Brings(h) /\ h.msg = n
    BY <1>3, <1>7, <1>9
  <2> QED
    BY <1>1, <1>2, <1>3, <1>4, <2>1, KeptMove
<1> QED
  BY <1>1, <1>3, <1>4, <1>14, <1>15, <1>16, MergingMove

(* sendQueuedNow().                                                        *)
LEMMA MergingSendsNow ==
  ASSUME ~Paid, TypeInv, StoreInv, TurnInv, MergingInv, NEW s \in Slots
  PROVE  ChooseNow(s) \/ Merge(s) \/ Restart(s) => MergingInv'
<1>1. HandlersOK /\ TurnOK /\ budget \in [Kinds -> Nat] /\ db \in Store /\ MemoryOK
  BY TypeParts DEF EnvironmentOK
<1>2. task[s].via # "flush" /\ HandlerFits(task[s], turn, unsaved, finalizing)
  BY DEF MergingInv, Onwards, TurnInv, HandlersFit
<1>3. UNCHANGED budget => Spent
  BY <1>1, SpentBudget
<1>4. CASE ChooseNow(s)
  <2>1. task[s].pc = "now" /\ UNCHANGED <<db, turn, refused, fresh, budget>>
    BY <1>4 DEF ChooseNow, At, history
  <2>2. PICK h : Become(s, h) /\ h.via # "flush" /\ h.pc \in {"idle", "merge", "prioritize"}
    <3>1. CASE Resume(s, "idle")
      BY <1>1, <1>2, <3>1, ResumeAs
    <3>2. CASE Resume(s, "merge")
      BY <1>1, <1>2, <3>2, ResumeAs
    <3>3. CASE Become(s, [task[s] EXCEPT !.pc = "prioritize", !.pause = FALSE,
                                         !.then = "dispatch"])
      <4>1. PICK h : h = [task[s] EXCEPT !.pc = "prioritize", !.pause = FALSE,
                                         !.then = "dispatch"]
        OBVIOUS
      <4>2. Become(s, h) /\ h.pc = "prioritize" /\ h.via = task[s].via
        BY <1>1, <3>3, <4>1 DEF HandlersOK, Task
      <4> QED
        BY <1>2, <4>2
    <3> QED
      BY <1>4, <3>1, <3>2, <3>3 DEF ChooseNow
  <2>3. ~Brings(h) /\ Onwards(h) /\ h.pc \notin {"late", "launch"} /\ ~Brings(task[s])
    BY <2>1, <2>2 DEF Brings, Onwards
  <2>4. /\ Stored(db') = Stored(db) /\ Msgs(db'.rows) = Msgs(db.rows)
        /\ refused \subseteq refused' /\ UNCHANGED <<turn, fresh>> /\ Spent
    BY <1>3, <2>1
  <2> QED
    BY <1>1, <2>2, <2>3, <2>4, MergingIdle
<1>5. CASE Merge(s)
  <2>1. PICK t : t = task[s].tid
    OBVIOUS
  <2>2. PICK own : own = turn[t].msg
    OBVIOUS
  <2>3. task[s].pc = "merge" /\ UNCHANGED <<refused, fresh>>
    BY <1>5 DEF Merge, Called, history
  <2>4. t \in TurnIds /\ Had(t)
    <3>1. t # 0 /\ task[s].tid \in 0..MaxTurns
      BY <1>1, <1>2, <2>1, <2>3 DEF HandlerFits, HandlersOK, Task
    <3>2. t \in TurnIds
      BY <2>1, <3>1, TurnAssumption DEF TurnIds, TurnAssumption
    <3> QED
      BY <1>2, <2>1, <2>3, <3>1, <3>2 DEF HandlerFits, Had
  <2>5. CASE HasRow(db, task[s].msg) /\ own \in db.shown /\ own # task[s].msg
    <3>1. PICK i \in DOMAIN db.rows : /\ db.rows[i].msg = task[s].msg
                                      /\ db' = MergeQueuedTurnIntoMessage(db, i, own)
      <4>1. PICK i : i = CHOOSE k \in DOMAIN db.rows : db.rows[k].msg = task[s].msg
        OBVIOUS
      <4>2. i \in DOMAIN db.rows /\ db.rows[i].msg = task[s].msg
        BY <2>5, <4>1 DEF HasRow
      <4>3. db' = MergeQueuedTurnIntoMessage(db, i, own)
        BY <1>5, <2>1, <2>2, <2>5, <4>1 DEF Merge
      <4> QED
        BY <4>2, <4>3
    <3>2. PICK exec : exec = Cancelled(t)
      OBVIOUS
    <3>3. ~Spend("fault")
      BY DEF Spend, MergingInv, Enduring
    <3>4. PICK h : h = [task[s] EXCEPT !.pc = "setPause", !.msg = own \o task[s].msg,
                                       !.pause = FALSE, !.then = "restart"]
      OBVIOUS
    <3>5. /\ turn' = [turn EXCEPT ![t].done = TRUE, ![t].exec = exec]
          /\ Become(s, h) /\ UNCHANGED budget
      BY <1>5, <2>1, <2>2, <2>5, <3>2, <3>3, <3>4 DEF Merge
    <3>6. /\ h.pc = "setPause" /\ h.then = "restart" /\ h.via = task[s].via
          /\ h.msg = own \o task[s].msg
      BY <1>1, <3>4 DEF HandlersOK, Task
    <3>7. exec \in {"stopped", "ended", turn[t].exec}
      BY <3>2 DEF Cancelled
    <3>8. \A u \in TurnIds : GoesOn(u)
      BY <1>1, <2>4, <3>5, <3>7, OneGoes
    <3>9. own \in Stored(db)
      BY <2>5 DEF Stored
    <3> QED
      BY <1>2, <1>3, <2>2, <2>3, <2>4, <2>5, <3>1, <3>5, <3>6, <3>8, <3>9, MergingMerged
  <2>6. CASE ~(HasRow(db, task[s].msg) /\ own \in db.shown /\ own # task[s].msg)
    <3>1. Resume(s, "idle") /\ UNCHANGED <<db, turn, budget>>
      BY <1>5, <2>1, <2>2, <2>6 DEF Merge
    <3>2. PICK h : Become(s, h) /\ h.via # "flush" /\ h.pc = "idle"
      BY <1>1, <1>2, <3>1, ResumeAs
    <3>3. ~Brings(h) /\ Onwards(h) /\ h.pc \notin {"late", "launch"} /\ ~Brings(task[s])
      BY <2>3, <3>2 DEF Brings, Onwards
    <3>4. /\ Stored(db') = Stored(db) /\ Msgs(db'.rows) = Msgs(db.rows)
          /\ refused \subseteq refused' /\ UNCHANGED <<turn, fresh>> /\ Spent
      BY <1>3, <2>3, <3>1
    <3> QED
      BY <1>1, <3>2, <3>3, <3>4, MergingIdle
  <2> QED
    BY <2>5, <2>6
<1>6. CASE Restart(s)
  <2>1. task[s].pc = "restart" /\ UNCHANGED <<db, turn, refused, fresh, budget>>
    BY <1>6 DEF Restart, At, history
  <2>2. PICK h : h = StartTask(task[s].msg, "now")
    OBVIOUS
  <2>3. Become(s, h) /\ h.pc = "check" /\ h.msg = task[s].msg /\ h.via = "now"
    BY <1>6, <2>2 DEF Restart, StartTask, Idle
  <2>4. Brings(h) /\ Onwards(h) /\ h.pc \notin {"late", "launch"} /\ Brings(task[s])
    BY <2>1, <2>3 DEF Brings, Onwards
  <2>5. /\ Stored(db') = Stored(db) /\ Msgs(db'.rows) = Msgs(db.rows)
        /\ refused \subseteq refused' /\ UNCHANGED turn /\ fresh' = fresh /\ Spent
    BY <1>3, <2>1
  <2> QED
    BY <1>1, <2>3, <2>4, <2>5, UntouchedGoes, MergingOn
<1> QED
  BY <1>4, <1>5, <1>6

(* The model's callbacks.                                                  *)
LEMMA MergingModel ==
  ASSUME ~Paid, TypeInv, TurnInv, MergingInv, NEW t \in TurnIds, Model(t)
  PROVE  MergingInv'
<1>1. HandlersOK /\ TurnOK /\ budget \in [Kinds -> Nat]
  BY TypeParts DEF EnvironmentOK
<1>2. UNCHANGED budget => Spent
  BY <1>1, SpentBudget
<1>3. CASE OnDone(t)
  <2>1. /\ turn' = [turn EXCEPT ![t].done = TRUE, ![t].exec = "ended"] /\ Had(t)
        /\ UNCHANGED <<db, refused, fresh, budget>>
    BY <1>3 DEF OnDone, Finish, Running, Had, history
  <2>2. \A u \in TurnIds : GoesOn(u)
    <3>1. PICK exec \in {"ended"} : turn' = [turn EXCEPT ![t].done = TRUE, ![t].exec = exec]
      BY <2>1
    <3> QED
      BY <1>1, <2>1, <3>1, OneGoes
  <2>3. PICK h : h = [Idle EXCEPT !.pc = "save", !.tid = t]
    OBVIOUS
  <2>4. h.pc = "save" /\ h.via = "ws"
    BY <2>3 DEF Idle
  <2>5. PICK s \in Slots : task[s].pc = "idle" /\ Become(s, h)
    BY <1>3, <2>3 DEF OnDone, Fork, At
  <2>6. Onwards(h) /\ ~Brings(h) /\ ~Brings(task[s]) /\ h.pc \notin {"late", "launch"}
    BY <2>4, <2>5 DEF Onwards, Brings
  <2>7. /\ Stored(db') = Stored(db) /\ Msgs(db'.rows) = Msgs(db.rows)
        /\ refused \subseteq refused' /\ fresh' = fresh /\ Spent
    BY <1>2, <2>1
  <2> QED
    BY <1>1, <2>2, <2>5, <2>6, <2>7, MergingOn
<1>4. CASE EndUnheard(t) \/ Finalize(t)
  <2>1. UNCHANGED <<db, task, refused, fresh, budget>>
    BY <1>4 DEF EndUnheard, Finalize, history, handlers
  <2>2. \A u \in TurnIds : GoesOn(u)
    <3>1. CASE EndUnheard(t)
      <4>1. PICK exec \in {"ended"} : turn' = [turn EXCEPT ![t].exec = exec]
        BY <3>1 DEF EndUnheard
      <4>2. Had(t)
        BY <3>1 DEF EndUnheard, Running, Had
      <4> QED
        BY <1>1, <4>1, <4>2, OneGoes
    <3>2. CASE Finalize(t)
      <4>1. Reply(t) /\ t \in finalizing
        BY <3>2 DEF Finalize
      <4>2. Had(t)
        BY <4>1 DEF TurnInv, TurnsFit, TurnFits
      <4> QED
        BY <1>1, <4>1, <4>2, OneGoes
    <3> QED
      BY <1>4, <3>1, <3>2
  <2> QED
    BY <1>1, <1>2, <2>1, <2>2, MergingRest
<1> QED
  BY <1>3, <1>4, MergingNever DEF Model

(* What the user sends is brought by a handler.                            *)
LEMMA MergingSend ==
  ASSUME TypeInv, StoreInv, TurnInv, MergingInv, NEW i \in Inputs, Send(i)
  PROVE  MergingInv'
<1>1. /\ HandlersOK /\ budget \in [Kinds -> Nat] /\ db \in Store /\ RowsMatch(db)
      /\ Apart(Stored(db), fresh)
  BY TypeParts DEF EnvironmentOK, StoreInv
<1>2. BroughtOnce /\ GivenOnce /\ (\A m \in Stored(db) : Kept(m)) /\ NobodyFails
  BY DEF MergingInv
<1>3. PICK m : m = <<i>>
  OBVIOUS
<1>4. PICK h : h = StartTask(m, "ws")
  OBVIOUS
<1>5. h.pc = "check" /\ h.msg = m /\ h.via = "ws"
  BY <1>4 DEF StartTask, Idle
<1>6. Onwards(h) /\ Brings(h) /\ h.pc \notin {"late", "launch"}
  BY <1>5 DEF Onwards, Brings
<1>7. /\ i \in fresh /\ db' = AddMessage(db, m) /\ UNCHANGED <<turn, refused>>
      /\ fresh' = fresh \ {i} /\ Spend("send")
  BY <1>3 DEF Send, memory
<1>8. PICK s \in Slots : task[s].pc = "idle" /\ Become(s, h)
  BY <1>3, <1>4 DEF Send, Fork, At
<1>9. ~Brings(task[s])
  BY <1>8 DEF Brings
<1>10. Spent
  BY <1>1, <1>7, SpentBudget DEF Kinds
<1>11. m \notin Stored(db) /\ m \notin Msgs(db.rows)
  <2>1. m \notin Stored(db)
    BY <1>1, <1>3, <1>7, ApartFresh
  <2> QED
    BY <1>1, <2>1 DEF RowsMatch
<1>12. Stored(db') = Stored(db) \cup {m} /\ Msgs(db'.rows) = Msgs(db.rows)
  <2>1. m \notin db.hidden
    BY <1>11 DEF Stored
  <2> QED
    BY <1>1, <1>7, <2>1, AddKeeps
<1>13. \A t \in TurnIds : TurnKept(t) /\ GoesOn(t)
  BY <1>7, UntouchedGoes DEF GoesOn
<1>14. i \in ToSet(m) /\ ToSet(m) \subseteq fresh
  BY <1>3, <1>7 DEF ToSet
<1> HIDE DEF Brings, Had
<1>15. BroughtOnce'
  <2>1. \A r \in Slots : Brings(task[r]) =>
          /\ task[r].msg \in Stored(db') /\ task[r].msg \notin Msgs(db'.rows)
          /\ task[r].msg # h.msg
    BY <1>2, <1>5, <1>11, <1>12 DEF BroughtOnce
  <2> QED
    BY <1>1, <1>2, <1>5, <1>8, <1>11, <1>12, <2>1, BroughtMove
<1>16. GivenOnce'
  <2>1. ASSUME NEW t \in TurnIds, Had(t)
        PROVE  h.msg # turn[t].msg /\ ToSet(turn[t].msg) \cap ToSet(m) = {}
    BY <1>2, <1>5, <1>14, <2>1 DEF GivenOnce
  <2>2. fresh' \subseteq fresh /\ \A n \in Stored(db') \ Stored(db) : n = m
    BY <1>7, <1>12
  <2> QED
    BY <1>1, <1>2, <1>8, <1>12, <1>13, <2>1, <2>2, GivenMove
<1>17. \A n \in Stored(db') : Kept(n)'
  BY <1>1, <1>2, <1>5, <1>6, <1>7, <1>8, <1>9, <1>12, <1>13, KeptMove
<1>18. NobodyFails'
  BY <1>2, <1>7 DEF NobodyFails
<1> QED
  BY <1>1, <1>6, <1>8, <1>10, <1>13, <1>15, <1>16, <1>17, <1>18, MergingMove

(* The user's commands.                                                    *)
LEMMA MergingUser ==
  ASSUME ~Paid, TypeInv, StoreInv, TurnInv, MergingInv, User
  PROVE  MergingInv'
<1>1. HandlersOK /\ TurnOK /\ MemoryOK /\ budget \in [Kinds -> Nat] /\ db \in Store /\ RowsMatch(db)
  BY TypeParts DEF EnvironmentOK, StoreInv
<1>2. CASE Stop
  <2>1. PICK t : t = active
    OBVIOUS
  <2>2. t \in TurnIds
    <3>1. t # 0 /\ t \in 0..MaxTurns
      BY <1>1, <1>2, <2>1 DEF Stop, MemoryOK
    <3> QED
      BY <3>1, TurnAssumption DEF TurnIds, TurnAssumption
  <2>3. Had(t)
    BY <2>1, <2>2 DEF TurnInv, TurnsFit, TurnFits
  <2>4. PICK exec : exec = Cancelled(t)
    OBVIOUS
  <2>5. exec \in {"stopped", "ended", turn[t].exec}
    BY <2>4 DEF Cancelled
  <2>6. /\ turn' = [turn EXCEPT ![t].done = TRUE, ![t].exec = exec]
        /\ UNCHANGED <<db, refused, fresh>> /\ Spend("stop")
    BY <1>2, <2>1, <2>4 DEF Stop, history
  <2>7. \A u \in TurnIds : GoesOn(u)
    BY <1>1, <2>2, <2>3, <2>5, <2>6, OneGoes
  <2>8. PICK h : h = [Idle EXCEPT !.pc = "setPause", !.pause = Paid, !.then = "savePartial",
                                  !.tid = t]
    OBVIOUS
  <2>9. h.pc = "setPause" /\ h.then = "savePartial" /\ h.via = "ws"
    BY <2>8 DEF Idle
  <2>10. PICK s \in Slots : task[s].pc = "idle" /\ Become(s, h)
    BY <1>2, <2>1, <2>8 DEF Stop, Fork, At
  <2>11. Onwards(h) /\ ~Brings(h) /\ ~Brings(task[s]) /\ h.pc \notin {"late", "launch"}
    BY <2>9, <2>10 DEF Onwards, Brings
  <2>12. /\ Stored(db') = Stored(db) /\ Msgs(db'.rows) = Msgs(db.rows)
         /\ refused \subseteq refused' /\ fresh' = fresh /\ Spent
    BY <1>1, <2>6, SpentBudget DEF Kinds
  <2> QED
    BY <1>1, <2>7, <2>10, <2>11, <2>12, MergingOn
<1>3. CASE Connect \/ \E i \in DOMAIN db.rows : SendNow(i)
  <2>1. UNCHANGED <<db, turn, refused, fresh>> /\ (Spend("connect") \/ Spend("now"))
    BY <1>3 DEF Connect, SendNow, memory, history
  <2>2. PICK h : h.pc \in {"dispatch", "now"} /\ h.via # "flush" /\ Fork(h)
    <3>1. CASE Connect
      <4>1. PICK h : h = [Idle EXCEPT !.pc = "dispatch"]
        OBVIOUS
      <4>2. h.pc = "dispatch" /\ h.via = "ws"
        BY <4>1 DEF Idle
      <4>3. Fork(h)
        BY <3>1, <4>1 DEF Connect
      <4> QED
        BY <4>2, <4>3
    <3>2. ASSUME NEW i \in DOMAIN db.rows, SendNow(i)
          PROVE  \E h : h.pc \in {"dispatch", "now"} /\ h.via # "flush" /\ Fork(h)
      <4>1. PICK h : h = [Idle EXCEPT !.pc = "now", !.msg = db.rows[i].msg, !.via = "now",
                                      !.tid = active]
        OBVIOUS
      <4>2. h.pc = "now" /\ h.via = "now"
        BY <4>1 DEF Idle
      <4>3. Fork(h)
        BY <3>2, <4>1 DEF SendNow
      <4> QED
        BY <4>2, <4>3
    <3> QED
      BY <1>3, <3>1, <3>2
  <2>3. PICK s \in Slots : task[s].pc = "idle" /\ Become(s, h)
    BY <2>2 DEF Fork, At
  <2>4. Onwards(h) /\ ~Brings(h) /\ ~Brings(task[s]) /\ h.pc \notin {"late", "launch"}
    BY <2>2, <2>3 DEF Onwards, Brings
  <2>5. /\ Stored(db') = Stored(db) /\ Msgs(db'.rows) = Msgs(db.rows)
        /\ refused \subseteq refused' /\ Spent
    BY <1>1, <2>1, SpentBudget DEF Kinds
  <2> QED
    BY <1>1, <2>1, <2>3, <2>4, <2>5, MergingIdle
<1>4. ASSUME NEW kind \in {"edit", "drop", "reorder"}, NEW stored, Manage(kind, stored)
      PROVE  db' = stored /\ UNCHANGED <<turn, refused, fresh, task>> /\ Spent
  <2>1. Spend(kind) /\ kind \in Kinds
    BY <1>4 DEF Manage, Kinds
  <2> QED
    BY <1>1, <1>4, <2>1, SpentBudget DEF Manage, memory, history, handlers
<1>5. ASSUME NEW i \in DOMAIN db.rows, EditQueued(i) PROVE MergingInv'
  <2>1. db' = UpdateQueuedTurn(db, i) /\ UNCHANGED <<turn, refused, fresh, task>> /\ Spent
    BY <1>4, <1>5 DEF EditQueued
  <2>2. Stored(db') = Stored(db) /\ Msgs(db'.rows) = Msgs(db.rows)
    BY <1>1, <2>1, UpdateKeeps
  <2> QED
    BY <1>1, <2>1, <2>2, UntouchedGoes, MergingRest
<1>6. ASSUME NEW i \in DOMAIN db.rows, DeleteQueued(i) PROVE MergingInv'
  <2>1. PICK m : m = db.rows[i].msg
    OBVIOUS
  <2>2. db' = DeleteMessage(db, m) /\ UNCHANGED <<turn, refused, fresh, task>> /\ Spent
    BY <1>4, <1>6, <2>1 DEF DeleteQueued, DeleteQueuedTurn
  <2>3. Stored(db') = Stored(db) \ {m} /\ Msgs(db'.rows) = Msgs(db.rows) \ {m}
    BY <1>1, <2>2, DeleteKeeps
  <2>4. m \in Msgs(db.rows) /\ m \in Stored(db)
    <3>1. m \in Msgs(db.rows)
      BY <2>1 DEF Msgs
    <3> QED
      BY <1>1, <3>1 DEF RowsMatch
  <2>5. Msgs(db.rows) \ Msgs(db'.rows) = Stored(db) \ Stored(db')
    BY <2>3, <2>4
  <2>6. Stored(db') \subseteq Stored(db) /\ Msgs(db'.rows) \subseteq Msgs(db.rows)
    BY <2>3
  <2> QED
    BY <1>1, <2>2, <2>5, <2>6, UntouchedGoes, MergingRest
<1>7. ASSUME NEW i \in DOMAIN db.rows, NEW j \in DOMAIN db.rows, ReorderQueued(i, j)
      PROVE  MergingInv'
  <2> DEFINE p == [[k \in DOMAIN db.rows |-> k] EXCEPT ![i] = j, ![j] = i]
  <2>1. \A k \in DOMAIN db.rows : p[k] = IF k = j THEN i ELSE IF k = i THEN j ELSE k
    OBVIOUS
  <2>2. p \in [DOMAIN db.rows -> DOMAIN db.rows]
    OBVIOUS
  <2>3. db' = ReorderQueuedTurns(db, p) /\ UNCHANGED <<turn, refused, fresh, task>> /\ Spent
    BY <1>4, <1>7 DEF ReorderQueued
  <2> HIDE DEF p
  <2>4. \A k, l \in DOMAIN db.rows : p[k] = p[l] => k = l
    BY <2>1
  <2>5. \A l \in DOMAIN db.rows : \E k \in DOMAIN db.rows : p[k] = l
    BY <2>1
  <2>6. Stored(db') = Stored(db) /\ Msgs(db'.rows) = Msgs(db.rows)
    BY <1>1, <2>2, <2>3, <2>4, <2>5, ReorderKeeps
  <2> QED
    BY <1>1, <2>3, <2>6, UntouchedGoes, MergingRest
<1> QED
  BY <1>2, <1>3, <1>5, <1>6, <1>7, MergingSend, MergingNever DEF User

(* MergingInv is inductive.                                                *)
LEMMA MergingInductive ==
  ~Paid /\ SlotInv /\ StoreInv /\ TurnInv /\ MergingInv /\ [Next]_vars => MergingInv'
<1> SUFFICES ASSUME ~Paid, SlotInv, StoreInv, TurnInv, MergingInv, [Next]_vars
             PROVE  MergingInv'
  OBVIOUS
<1>1. TypeInv
  BY DEF SlotInv, TypeInv
<1>2. HandlersOK /\ budget \in [Kinds -> Nat]
  BY <1>1, TypeParts DEF EnvironmentOK
<1>3. UNCHANGED <<db, turn, task, refused, fresh, budget>> => MergingInv'
  BY <1>2, SpentBudget, UntouchedGoes, MergingRest
<1>4. ASSUME NEW s \in Slots, Step(s) PROVE MergingInv'
  <2>1. Issue(s) => MergingInv'
    BY <1>3 DEF Issue, history
  <2> QED
    BY <1>1, <1>4, <2>1, MergingNever, MergingAdmission, MergingCall, MergingPreparation,
       MergingTail, MergingSendsNow DEF Step
<1>5. ASSUME NEW t \in TurnIds, Model(t) PROVE MergingInv'
  BY <1>1, <1>5, MergingModel
<1>6. ASSUME NEW h \in holds, Settle(h) PROVE MergingInv'
  BY <1>3, <1>6 DEF Settle, history, handlers
<1>7. CASE UNCHANGED vars
  BY <1>3, <1>7 DEF vars, history, handlers
<1> QED
  BY <1>1, <1>4, <1>5, <1>6, <1>7, MergingUser DEF Next

(* The budgets of Enduring.                                                *)
NothingFails ==
  \A b \in Budgets :
    \A k \in {"crash", "shutdown", "fault", "erase", "error", "resend"} : b[k] = 0

(* "Send now" drops no question of a chat without accounting while nothing *)
(* fails: whatever gives way to a merged message - turns that are running, *)
(* that end meanwhile or that were stopped -, and whatever becomes of the  *)
(* row while the command waits (taken, deleted, reordered, merged by a     *)
(* second command), each stored question is queued, brought by a handler,  *)
(* given to the model or refused aloud.                                    *)
THEOREM NothingDroppedNow == ~Paid /\ NothingFails => (Spec => []NothingDropped)
<1> SUFFICES ASSUME ~Paid, NothingFails PROVE Spec => []NothingDropped
  OBVIOUS
<1>1. Init => StoreInv
  BY DEF Init, StoreInv, EmptyStore, RowsMatch, Apart, Stored, Msgs, Distinct
<1>2. Init => MergingInv
  <2> SUFFICES ASSUME Init PROVE MergingInv
    OBVIOUS
  <2>1. Enduring
    BY DEF Init, NothingFails, Enduring
  <2>2. \A s \in Slots : task[s].pc = "idle" /\ task[s].via = "ws"
    BY DEF Init, Idle
  <2>3. \A t \in TurnIds : turn[t].exec = "free"
    BY DEF Init, NoTurn
  <2>4. Stored(db) = {} /\ Msgs(db.rows) = {}
    BY DEF Init, EmptyStore, Stored, Msgs
  <2> QED
    BY <2>1, <2>2, <2>3, <2>4
    DEF MergingInv, Onwards, NobodyFails, BroughtOnce, GivenOnce, SameQuestion, Brings, Had
<1>3. MergingInv => NothingDropped
  BY DEF MergingInv, NothingDropped, NobodyFails, Kept, Brings, Carries, At, Given, Had, HasRow,
     Msgs, Stored
<1> QED
  BY <1>1, <1>2, <1>3, TurnInvKept, InitType, NextType, StoreInvInductive, MergingInductive, PTL
  DEF Spec
=============================================================================
