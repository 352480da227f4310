------------------------------ MODULE DocsDb ------------------------------
(***************************************************************************)
(* The list of the shared documents: the connections to it                 *)
(* (handle_socket_db of client/src/ws.rs) and the view that each client    *)
(* builds of it (db_update_handler of hyper_app/src/app/single_repo.rs).   *)
(*                                                                         *)
(* A connection subscribes to the broadcast of the new documents, waits    *)
(* for the name of its user, sends all the documents there are, and then   *)
(* forwards the broadcast.  Creating a document and broadcasting it are    *)
(* two steps, the second out of the lock on the documents.                 *)
(***************************************************************************)
EXTENDS Integers, Sequences, FiniteSets

CONSTANTS
  Conn,
  Backlog,    \* what the broadcast keeps for a receiver that lags (50 in the code)
  MaxDocs     \* bounds the documents created

ASSUME DbAssumption == Backlog \in Nat \ {0} /\ MaxDocs \in Nat

VARIABLES
  docs,       \* how many documents there are, their ids are 0 .. docs - 1
  announced,  \* the ids in the order they were broadcast
  state,      \* where each connection is
  receiver,   \* the broadcast ids it has not forwarded
  creating,   \* the documents created by its user and not broadcast
  wire,       \* the messages to its client
  view        \* what its client knows: at id + 1, whether it lists the document

vars == <<docs, announced, state, receiver, creating, wire, view>>

Reset(all) == [kind |-> "Reset", all |-> all]
Add(id) == [kind |-> "Add", all |-> id]

Init ==
  /\ docs = 0
  /\ announced = <<>>
  /\ state = [c \in Conn |-> "out"]
  /\ receiver = [c \in Conn |-> <<>>]
  /\ creating = [c \in Conn |-> <<>>]
  /\ wire = [c \in Conn |-> <<>>]
  /\ view = [c \in Conn |-> <<>>]

goto(c, s) == state' = [state EXCEPT ![c] = s]
-----------------------------------------------------------------------------
Subscribe(c) ==
  /\ state[c] = "out"
  /\ goto(c, "subscribed")
  /\ UNCHANGED <<docs, announced, receiver, creating, wire, view>>

(* The name of the user came: the documents are listed under their lock, *)
Snapshot(c) ==
  /\ state[c] = "subscribed"
  /\ goto(c, "listing")
  /\ wire' = [wire EXCEPT ![c] = Append(@, Reset(docs))]
  /\ UNCHANGED <<docs, announced, receiver, creating, view>>

(* and once they are sent the two tasks are spawned. *)
Spawn(c) ==
  /\ state[c] = "listing"
  /\ goto(c, "live")
  /\ UNCHANGED <<docs, announced, receiver, creating, wire, view>>

(* (variant: numbered once the new one is in) *)
new_id_after == docs + 1

new_id == docs
Create(c) ==
  /\ state[c] = "live" /\ creating[c] = <<>> /\ docs < MaxDocs
  /\ docs' = docs + 1
  /\ creating' = [creating EXCEPT ![c] = <<new_id>>]
  /\ UNCHANGED <<announced, state, receiver, wire, view>>

(* (variant: the receiver is made with the tasks) *)
receiving_late(c) == state[c] = "live"

receiving(c) == state[c] \in {"subscribed", "listing", "live"}

Broadcast(c) ==
  /\ state[c] = "live" /\ creating[c] # <<>>
  /\ announced' = announced \o creating[c]
  /\ receiver' = [d \in Conn |-> IF receiving(d) THEN receiver[d] \o creating[c] ELSE receiver[d]]
  /\ creating' = [creating EXCEPT ![c] = <<>>]
  /\ UNCHANGED <<docs, state, wire, view>>

(* The sending task forwards, or ends when the broadcast dropped messages    *)
(* that it had not received; the other task is aborted, at an await.        *)
Forward(c) ==
  /\ state[c] = "live" /\ receiver[c] # <<>>
  /\ \/ /\ Len(receiver[c]) <= Backlog
        /\ wire' = [wire EXCEPT ![c] = Append(@, Add(Head(receiver[c])))]
        /\ receiver' = [receiver EXCEPT ![c] = Tail(@)]
        /\ UNCHANGED state
     \/ /\ Len(receiver[c]) > Backlog /\ creating[c] = <<>>
        /\ goto(c, "lagged")
        /\ receiver' = [receiver EXCEPT ![c] = <<>>]
        /\ UNCHANGED wire
  /\ UNCHANGED <<docs, announced, creating, view>>

(* resize(len, None), that may also cut *)
resize(v, len) == [i \in 1 .. len |-> i <= Len(v) /\ v[i]]

Update(c) ==
  /\ wire[c] # <<>>
  /\ LET m == Head(wire[c]) IN
       view' = [view EXCEPT ![c] =
                  IF m.kind = "Reset" THEN [i \in 1 .. m.all |-> TRUE]
                  ELSE [resize(@, m.all + 1) EXCEPT ![m.all + 1] = TRUE]]
  /\ wire' = [wire EXCEPT ![c] = Tail(@)]
  /\ UNCHANGED <<docs, announced, state, receiver, creating>>

Next ==
  \E c \in Conn :
    \/ Subscribe(c) \/ Snapshot(c) \/ Spawn(c) \/ Create(c)
    \/ Broadcast(c) \/ Forward(c) \/ Update(c)

Spec == Init /\ [][Next]_vars
-----------------------------------------------------------------------------
Ids == 0 .. docs - 1

(* The variables have their types, and every id names a document. *)
TypeOK ==
  /\ docs \in 0 .. MaxDocs
  /\ announced \in Seq(Ids)
  /\ state \in [Conn -> {"out", "subscribed", "listing", "live", "lagged"}]
  /\ receiver \in [Conn -> Seq(Ids)]
  /\ creating \in [Conn -> Seq(Ids)]
  /\ wire \in [Conn -> Seq([kind : {"Reset"}, all : 0 .. docs] \cup [kind : {"Add"}, all : Ids])]
  /\ view \in [Conn -> Seq(BOOLEAN)]
  /\ \A c \in Conn : Len(view[c]) <= docs

lists(c, id) == id + 1 \in DOMAIN view[c] /\ view[c][id + 1]
position(id) == CHOOSE i \in DOMAIN announced : announced[i] = id

(***************************************************************************)
(* A connected client that has received all there is misses a document     *)
(* only when one of a lower id was broadcast after it, by another          *)
(* connection: whose message then cuts the list.  In particular no         *)
(* document falls between the subscription and the snapshot.               *)
(***************************************************************************)
at_rest(c) ==
  /\ state[c] = "live" /\ receiver[c] = <<>> /\ wire[c] = <<>>
  /\ \A d \in Conn : creating[d] = <<>>

MissesOnlyOvertaken ==
  \A c \in Conn : at_rest(c) =>
    \A id \in Ids : ~lists(c, id) => \E low \in 0 .. id - 1 : position(low) > position(id)
=============================================================================
