---------------------------- MODULE SyncSession ----------------------------
(***************************************************************************)
(* One side of a sync session of the automerge library (version 0.4.1), as *)
(* client/src/ws.rs and hyper_app use it on both ends of a web socket.     *)
(* A document is the set of the changes it holds: heads, that the library  *)
(* compares, name such a set.  The library's Bloom filter, which may only  *)
(* delay a change by a round, is taken to be exact.                        *)
(***************************************************************************)
EXTENDS Integers, Sequences, FiniteSets

(* A message of the library, and the two others of the channels: a binary  *)
(* message without content, and None, by which a task nudges another one.  *)
SyncMessage(Change) ==
  [kind : {"sync"}, heads : SUBSET Change, changes : SUBSET Change]
Empty == [kind |-> "empty", heads |-> {}, changes |-> {}]
Nudge == [kind |-> "nudge", heads |-> {}, changes |-> {}]

(* what a side remembers: whether it knows the document of the other, which *)
(* one, the document when it last sent, what it sent that is not known to   *)
(* have arrived, and whether its last message has had no answer            *)
State(Change) ==
  [known : BOOLEAN, theirs : SUBSET Change, last : SUBSET Change,
   sent : SUBSET Change, in_flight : BOOLEAN]
State_new == [known |-> FALSE, theirs |-> {}, last |-> {}, sent |-> {}, in_flight |-> FALSE]

to_send(doc, s) == IF s.known THEN (doc \ s.theirs) \ s.sent ELSE {}

(* generate_sync_message(s) is None *)
nothing_to_say(doc, s) ==
  /\ s.last = doc
  /\ \/ s.in_flight
     \/ s.known /\ s.theirs = doc /\ to_send(doc, s) = {}

sync_message(doc, s) == [kind |-> "sync", heads |-> doc, changes |-> to_send(doc, s)]

after_message(doc, s) ==
  [s EXCEPT !.last = doc, !.sent = @ \cup to_send(doc, s), !.in_flight = TRUE]

(* receive_sync_message(s, m): the state, the document becomes doc \cup     *)
(* m.changes                                                               *)
after_receive(doc, s, m) ==
  [known |-> TRUE, theirs |-> m.heads, in_flight |-> FALSE,
   sent |-> IF m.heads = {} THEN {} ELSE s.sent \ m.heads,
   last |-> IF m.heads = {} \/ (m.changes = {} /\ m.heads = doc) THEN m.heads ELSE s.last]
=============================================================================
