---------------------------- MODULE TurnQueueStore ----------------------------
(***************************************************************************)
(* The durable side of one conversation's turn queue: the tables           *)
(* conversation_turn_queue, conversation_turn_control and the state column *)
(* of messages, and the repository methods of db/repos/chat.ts that the    *)
(* turn manager calls.  Each method is one database transaction, so each   *)
(* is an operator from the stored state to the next stored state.          *)
(*                                                                         *)
(* A user message is identified by its content: the nonempty sequence of   *)
(* user inputs it is made of.  A fresh message is <<i>>; "send now"        *)
(* replaces two messages by one with both contents.  A queue row is        *)
(* identified by its message (message_id is UNIQUE) and its place in the   *)
(* sequence stands for the position column.                                *)
(***************************************************************************)
EXTENDS Naturals, Sequences, SequencesExt

CONSTANT Inputs

Message == Seq(Inputs)

Row == [msg : Message, failed : BOOLEAN]

(* rows: the queue in position order; shown / hidden: the user messages in *)
(* state 'published' / 'queued'; paused: conversation_turn_control.        *)
Store == [rows : Seq(Row), shown : SUBSET Message,
          hidden : SUBSET Message, paused : BOOLEAN]

EmptyStore == [rows |-> <<>>, shown |-> {}, hidden |-> {}, paused |-> FALSE]

-----------------------------------------------------------------------------
HasMessage(d, m) == m \in d.shown \cup d.hidden

HasRow(d, m) == \E i \in DOMAIN d.rows : d.rows[i].msg = m

Waiting(d) == {i \in DOMAIN d.rows : ~d.rows[i].failed}

NextRow(d) == CHOOSE i \in Waiting(d) : \A j \in Waiting(d) : i <= j

AddMessage(d, m) == [d EXCEPT !.shown = @ \cup {m}]

(* Mutation: the foreign key does not cascade.                             *)
DeleteMessageOnly(d, m) == [d EXCEPT !.shown = @ \ {m}, !.hidden = @ \ {m}]

(* Deleting a message deletes its queue row with it (ON DELETE CASCADE).   *)
DeleteMessage(d, m) ==
  [d EXCEPT !.shown = @ \ {m}, !.hidden = @ \ {m},
            !.rows = IF HasRow(d, m)
                     THEN RemoveAt(@, CHOOSE i \in DOMAIN @ : @[i].msg = m)
                     ELSE @]

SetTurnQueuePaused(d, p) == [d EXCEPT !.paused = p]

(* INSERT OR IGNORE at the tail; the message is hidden only by the insert. *)
EnqueueTurn(d, m, hide) ==
  IF HasRow(d, m) THEN d
  ELSE [d EXCEPT !.rows = Append(@, [msg |-> m, failed |-> FALSE]),
                 !.shown = IF hide THEN @ \ {m} ELSE @,
                 !.hidden = IF hide THEN @ \cup {m} ELSE @]

MarkQueuedTurnFailed(d, m) ==
  [d EXCEPT !.rows = [i \in DOMAIN @ |->
     IF @[i].msg = m THEN [@[i] EXCEPT !.failed = TRUE] ELSE @[i]]]

(* Publishes the first row that is not failed and removes it.              *)
TakeQueuedTurn(d) ==
  LET m == d.rows[NextRow(d)].msg
  IN  [d EXCEPT !.rows = RemoveAt(@, NextRow(d)),
                !.shown = @ \cup {m}, !.hidden = @ \ {m}]

UpdateQueuedTurn(d, i) == [d EXCEPT !.rows[i].failed = FALSE]

DeleteQueuedTurn(d, i) == DeleteMessage(d, d.rows[i].msg)

(* The early return for a row that is already first also keeps its status. *)
PrioritizeQueuedTurn(d, i) ==
  IF i = 1 THEN d
  ELSE [d EXCEPT !.rows = <<[msg |-> @[i].msg, failed |-> FALSE]>> \o RemoveAt(@, i)]

ReorderQueuedTurns(d, p) ==
  [d EXCEPT !.rows = [i \in DOMAIN @ |-> [msg |-> @[p[i]].msg, failed |-> FALSE]]]

(* Mutation: the active message stays beside the merged one.               *)
MergeBeside(d, i, active) ==
  LET m == d.rows[i].msg
  IN  AddMessage(DeleteMessage(d, m), active \o m)

(* Replaces the active message and the queued one by a published message   *)
(* with both contents; the rows of both go with them.                      *)
MergeQueuedTurnIntoMessage(d, i, active) ==
  LET m == d.rows[i].msg
  IN  AddMessage(DeleteMessage(DeleteMessage(d, m), active), active \o m)
=============================================================================
