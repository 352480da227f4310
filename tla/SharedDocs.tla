---------------------------- MODULE SharedDocs ----------------------------
(***************************************************************************)
(* One shared document, the connections to it (client/src/ws.rs) and the   *)
(* editors at their other end (hyper_app: crdt_over_ws.rs, update_handler  *)
(* and timed_updater of single_repo.rs).                                   *)
(*                                                                         *)
(* A connection has a task that receives from its web socket and one that  *)
(* answers; a bounded channel leads from the first to the second, and the  *)
(* answering tasks of the others put nudges into it.  Each client makes at *)
(* most one edit, that is the change that bears its name.                  *)
(***************************************************************************)
EXTENDS SyncSession

CONSTANTS
  Conn,       \* the connections, and the changes of their clients
  Room,       \* what a channel holds (50 in the code)
  Settings    \* the code that all the connections run, the clients that
              \* connect, and those that edit or leave

ASSUME RoomAssumption == Room \in Nat \ {0}
ASSUME SettingsAssumption ==
  Settings \subseteq
    [handler : {"handle_socket", "handle_socket_automerge_sync"},
     clients : SUBSET Conn, editors : SUBSET Conn, leavers : SUBSET Conn]

VARIABLES
  setting,    \* one of Settings
  doc,        \* the document of the server
  members,    \* the connections in the order their channels were pushed
  position,   \* where each of them thinks its channel is
  channel,    \* the messages a connection's channel holds
  server,     \* the sync state of each connection
  task,       \* where the answering task is: its label, and the loop's i and len
  reading,    \* the connections whose receiving task runs
  client,     \* document, sync state and progress of the client
  edit,       \* "none", "typed", "changed" (in the document) or "overwritten"
  up, down    \* messages sent over the web socket, not yet received

vars == <<setting, doc, members, position, channel, server, task, reading,
          client, edit, up, down>>

None == -1
At(pc) == [pc |-> pc, i |-> 0, len |-> 0]

Init ==
  /\ setting \in Settings
  /\ doc = {}
  /\ members = <<>>
  /\ position = [c \in Conn |-> None]
  /\ channel = [c \in Conn |-> <<>>]
  /\ server = [c \in Conn |-> State_new]
  /\ task = [c \in Conn |-> At("connect")]
  /\ reading = {}
  /\ client = [c \in Conn |-> [doc |-> {}, sync |-> State_new, open |-> TRUE,
                               greeted |-> FALSE, spoke |-> FALSE]]
  /\ edit = [c \in Conn |-> "none"]
  /\ up = [c \in Conn |-> <<>>]
  /\ down = [c \in Conn |-> <<>>]

goto(c, pc) == task' = [task EXCEPT ![c] = At(pc)]
send_down(c, m) == down' = [down EXCEPT ![c] = Append(@, m)]
-----------------------------------------------------------------------------
(***************************************************************************)
(* A connection joins: the place and the push are one step under the lock  *)
(* of the document in handle_socket, two in handle_socket_automerge_sync.  *)
(***************************************************************************)
Join(c) ==
  /\ setting.handler = "handle_socket" /\ task[c].pc = "connect" /\ c \in setting.clients
  /\ position' = [position EXCEPT ![c] = Len(members)]
  /\ members' = Append(members, c)
  /\ reading' = reading \cup {c}
  /\ goto(c, "greet")
  /\ UNCHANGED <<setting, doc, channel, server, client, edit, up, down>>

TakePosition(c) ==
  /\ setting.handler = "handle_socket_automerge_sync"
  /\ task[c].pc = "connect" /\ c \in setting.clients
  /\ position' = [position EXCEPT ![c] = Len(members)]
  /\ goto(c, "push")
  /\ UNCHANGED <<setting, doc, members, channel, server, reading, client, edit, up, down>>

Push(c) ==
  /\ task[c].pc = "push"
  /\ members' = Append(members, c)
  /\ reading' = reading \cup {c}
  /\ goto(c, "greet")
  /\ UNCHANGED <<setting, doc, position, channel, server, client, edit, up, down>>

(* The first message to the client; that it could not be sent is ignored. *)
Greet(c) ==
  /\ task[c].pc = "greet"
  /\ server' = [server EXCEPT ![c] = after_message(doc, @)]
  /\ IF client[c].open THEN send_down(c, sync_message(doc, server[c])) ELSE UNCHANGED down
  /\ goto(c, "recv")
  /\ UNCHANGED <<setting, doc, members, position, channel, reading, client, edit, up>>

(* The answering task takes a message and gives its content to the library. *)
Receive(c) ==
  /\ task[c].pc = "recv" /\ channel[c] # <<>>
  /\ LET m == Head(channel[c]) IN
       /\ channel' = [channel EXCEPT ![c] = Tail(@)]
       /\ goto(c, IF m = Nudge THEN "answer_nudge" ELSE "answer")
       /\ IF m.kind = "sync"
          THEN /\ server' = [server EXCEPT ![c] = after_receive(doc, @, m)]
               /\ doc' = doc \cup m.changes
          ELSE UNCHANGED <<server, doc>>
  /\ UNCHANGED <<setting, members, position, reading, client, edit, up, down>>

(* The answer goes to its own client; a send that fails ends the task, and *)
(* the other one with it.                                                  *)
Answer(c) ==
  /\ task[c].pc \in {"answer", "answer_nudge"}
  /\ ~nothing_to_say(doc, server[c])
  /\ server' = [server EXCEPT ![c] = after_message(doc, @)]
  /\ IF client[c].open
     THEN /\ send_down(c, sync_message(doc, server[c]))
          /\ goto(c, "recv")
          /\ UNCHANGED <<channel, reading>>
     ELSE /\ goto(c, "ended")
          /\ channel' = [channel EXCEPT ![c] = <<>>]
          /\ reading' = reading \ {c}
          /\ UNCHANGED down
  /\ UNCHANGED <<setting, doc, members, position, client, edit, up>>

(* (variant: the others are told even by who was nudged) *)
NoAnswer_changed(c) ==
  /\ task[c].pc \in {"answer", "answer_nudge"}
  /\ nothing_to_say(doc, server[c])
  /\ task' = [task EXCEPT ![c] = [pc |-> "notify", i |-> 0, len |-> Len(members)]]
  /\ UNCHANGED <<setting, doc, members, position, channel, server, reading, client, edit, up, down>>

(* With nothing to say to a client that sent something, the others are told. *)
NoAnswer(c) ==
  /\ task[c].pc \in {"answer", "answer_nudge"}
  /\ nothing_to_say(doc, server[c])
  /\ task' = [task EXCEPT ![c] =
                IF @.pc = "answer_nudge" THEN At("recv")
                ELSE [pc |-> "notify", i |-> 0, len |-> Len(members)]]
  /\ UNCHANGED <<setting, doc, members, position, channel, server, reading, client, edit, up, down>>

(* One turn of the loop that nudges the others: the send waits for room in *)
(* the channel of the member, and is given up when its task has ended.     *)
(* handle_socket looks for a member at i until there is none, the other    *)
(* handler counts the members once.                                        *)
end_of_members(c) ==
  IF setting.handler = "handle_socket" THEN Len(members) ELSE task[c].len
nudged(c) == members[task[c].i + 1]
Notify(c) ==
  /\ task[c].pc = "notify"
  /\ \/ /\ task[c].i # position[c] /\ task[c].i >= end_of_members(c)
        /\ goto(c, "recv")
        /\ UNCHANGED channel
     \/ /\ task[c].i = position[c]
        /\ task' = [task EXCEPT ![c].i = @ + 1]
        /\ UNCHANGED channel
     \/ /\ task[c].i # position[c] /\ task[c].i < end_of_members(c)
        /\ \/ task[nudged(c)].pc = "ended" /\ UNCHANGED channel
           \/ /\ task[nudged(c)].pc # "ended" /\ Len(channel[nudged(c)]) < Room
              /\ channel' = [channel EXCEPT ![nudged(c)] = Append(@, Nudge)]
        /\ task' = [task EXCEPT ![c].i = @ + 1]
  /\ UNCHANGED <<setting, doc, members, position, server, reading, client, edit, up, down>>

(* (variant: whether there is room or not) *)
Forward_anyway(c, i) ==
  /\ c \in reading
  /\ channel' = [channel EXCEPT ![c] = Append(@, up[c][i])]
  /\ up' = [up EXCEPT ![c] = SubSeq(@, 1, i - 1) \o SubSeq(@, i + 1, Len(@))]
  /\ UNCHANGED <<setting, doc, members, position, server, task, reading, client, edit, down>>

(* The receiving task forwards a message of the web socket, with room in    *)
(* the channel.  Each was sent by a task of its own: they come in any order. *)
Forward(c, i) ==
  /\ c \in reading /\ Len(channel[c]) < Room
  /\ channel' = [channel EXCEPT ![c] = Append(@, up[c][i])]
  /\ up' = [up EXCEPT ![c] = SubSeq(@, 1, i - 1) \o SubSeq(@, i + 1, Len(@))]
  /\ UNCHANGED <<setting, doc, members, position, server, task, reading, client, edit, down>>

(* The receiving task sees the end of the web socket; it does not abort the *)
(* answering one, whose channel is never closed: members holds its sender.  *)
EndReading(c) ==
  /\ c \in reading /\ ~client[c].open
  /\ reading' = reading \ {c}
  /\ up' = [up EXCEPT ![c] = <<>>]
  /\ UNCHANGED <<setting, doc, members, position, channel, server, task, client, edit, down>>
-----------------------------------------------------------------------------
(***************************************************************************)
(* The client.  A received message overwrites the text of the editor with  *)
(* that of the document, if it has one, whatever was typed since.          *)
(***************************************************************************)
hydrated(c, d) == IF d # {} /\ edit[c] = "typed" THEN "overwritten" ELSE edit[c]

(* the first message has no reply *)
Greeted(c) ==
  /\ client[c].open /\ ~client[c].greeted /\ down[c] # <<>>
  /\ LET m == Head(down[c])
         d == client[c].doc \cup m.changes IN
       /\ client' = [client EXCEPT ![c].doc = d, ![c].greeted = TRUE,
                                   ![c].sync = after_receive(client[c].doc, @, m)]
       /\ edit' = [edit EXCEPT ![c] = hydrated(c, d)]
  /\ down' = [down EXCEPT ![c] = Tail(@)]
  /\ UNCHANGED <<setting, doc, members, position, channel, server, task, reading, up>>

(* the others have one, with no content when there is nothing to say *)
replied(c, m, silence) ==
  LET d == client[c].doc \cup m.changes
      s == after_receive(client[c].doc, client[c].sync, m) IN
  /\ client' = [client EXCEPT ![c].doc = d, ![c].spoke = TRUE,
                  ![c].sync = IF nothing_to_say(d, s) THEN s ELSE after_message(d, s)]
  /\ up' = [up EXCEPT ![c] =
              @ \o IF nothing_to_say(d, s) THEN silence ELSE <<sync_message(d, s)>>]
  /\ edit' = [edit EXCEPT ![c] = hydrated(c, d)]

(* (variant: no reply when there is nothing to say) *)
reply_only_news(c, m) == replied(c, m, <<>>)

reply(c, m) == replied(c, m, <<Empty>>)

Reply(c) ==
  /\ client[c].open /\ client[c].greeted /\ down[c] # <<>>
  /\ reply(c, Head(down[c]))
  /\ down' = [down EXCEPT ![c] = Tail(@)]
  /\ UNCHANGED <<setting, doc, members, position, channel, server, task, reading>>

(* The user types.  The timer then brings the text into the document, that  *)
(* is news for the server; it is not sent when there is no connection yet.  *)
Type(c) ==
  /\ c \in setting.editors /\ client[c].open /\ edit[c] = "none"
  /\ edit' = [edit EXCEPT ![c] = "typed"]
  /\ UNCHANGED <<setting, doc, members, position, channel, server, task, reading, client, up, down>>

Changed(c) ==
  /\ client[c].open /\ edit[c] = "typed"
  /\ edit' = [edit EXCEPT ![c] = "changed"]
  /\ LET d == client[c].doc \cup {c}
         s == client[c].sync IN
       IF task[c].pc = "connect"
       THEN client' = [client EXCEPT ![c].doc = d] /\ UNCHANGED up
       ELSE /\ client' = [client EXCEPT ![c].doc = d, ![c].spoke = TRUE,
                                        ![c].sync = after_message(d, s)]
            /\ up' = [up EXCEPT ![c] = Append(@, sync_message(d, s))]
  /\ UNCHANGED <<setting, doc, members, position, channel, server, task, reading, down>>

Leave(c) ==
  /\ c \in setting.leavers /\ client[c].open /\ task[c].pc # "connect"
  /\ client' = [client EXCEPT ![c].open = FALSE]
  /\ down' = [down EXCEPT ![c] = <<>>]
  /\ UNCHANGED <<setting, doc, members, position, channel, server, task, reading, edit, up>>
-----------------------------------------------------------------------------
(* the tasks of the server, those of the client, and what the users do *)
Connecting(c) == TakePosition(c) \/ Push(c) \/ Greet(c)
Answering(c) == Receive(c) \/ Answer(c) \/ NoAnswer(c) \/ Notify(c)
Reading(c) == EndReading(c) \/ \E i \in DOMAIN up[c] : Forward(c, i)
Client(c) == Greeted(c) \/ Reply(c)
Work(c) == Connecting(c) \/ Answering(c) \/ Reading(c) \/ Client(c) \/ Changed(c)
User(c) == Join(c) \/ Type(c) \/ Leave(c)

Next == \E c \in Conn : Work(c) \/ User(c)

(* Every task runs.  No message is overtaken for ever: the senders that wait *)
(* for room in a channel get it in turn.                                    *)
Fairness ==
  \A c \in Conn :
    /\ WF_vars(Connecting(c)) /\ WF_vars(Answering(c)) /\ WF_vars(EndReading(c))
    /\ WF_vars(Client(c)) /\ WF_vars(Changed(c))
    /\ SF_vars(up[c] # <<>> /\ Forward(c, 1))

Spec == Init /\ [][Next]_vars /\ Fairness
-----------------------------------------------------------------------------
(* The variables have their types, and no channel holds more than its room. *)
Messages == SyncMessage(Conn) \cup {Empty}

TypeOK ==
  /\ setting \in Settings
  /\ doc \subseteq setting.editors
  /\ members \in Seq(Conn)
  /\ position \in [Conn -> Int]
  /\ channel \in [Conn -> Seq(Messages \cup {Nudge})]
  /\ server \in [Conn -> State(Conn)]
  /\ task \in [Conn -> [pc : {"connect", "push", "greet", "recv", "answer", "answer_nudge",
                              "notify", "ended"}, i : Nat, len : Nat]]
  /\ reading \subseteq Conn
  /\ client \in [Conn -> [doc : SUBSET Conn, sync : State(Conn), open : BOOLEAN,
                          greeted : BOOLEAN, spoke : BOOLEAN]]
  /\ edit \in [Conn -> {"none", "typed", "changed", "overwritten"}]
  /\ up \in [Conn -> Seq(Messages)]
  /\ down \in [Conn -> Seq(SyncMessage(Conn))]
  /\ \A c \in Conn : Len(channel[c]) <= Room

Left == {c \in Conn : ~client[c].open}
Stopped == \A c \in Conn : ~ENABLED Work(c)

(* c waits for room in the channel of another connection *)
waiting(c) ==
  /\ task[c].pc = "notify" /\ task[c].i # position[c] /\ task[c].i < end_of_members(c)
  /\ Len(channel[nudged(c)]) = Room
Circle == \E S \in SUBSET Conn \ {{}} : \A c \in S : waiting(c) /\ nudged(c) \in S

has_twin(c) == \E d \in Conn \ {c} : position[d] = position[c]

(* Once nothing moves, and no connections wait for each other's full        *)
(* channels, the clients that spoke to the server hold its document.  The   *)
(* exceptions are how the code is: what a client wrote and left is not      *)
(* announced when it did not stay for the answer; who got the position of   *)
(* another one may never be told; a client that only received the first     *)
(* message, that it does not reply to, has nothing.                         *)
StopsInSync ==
  Stopped /\ ~Circle =>
    \A c \in Conn \ Left : client[c].spoke /\ ~has_twin(c) =>
      /\ client[c].doc \subseteq doc
      /\ doc \subseteq client[c].doc \cup Left

(* The messages that replies, empty replies and nudges cause die out: when  *)
(* the users are done, the tasks all come to wait.                         *)
ComesToRest == <>[]Stopped
=============================================================================
