---------------------------- MODULE FetchQueue ----------------------------
(***************************************************************************)
(* How the user interface fetches the nodes it shows from the server       *)
(* (hyper_app: FetchedHyperAST of tree_view.rs and the fetches of          *)
(* code_aspects.rs).  Labels, and their locks, are left out.               *)
(*                                                                         *)
(* The thread that draws looks a node up in the store; when it is missing  *)
(* and in no pending set it is put in the waiting one.  About once per     *)
(* second the waiting set is moved behind the pending ones and requested.  *)
(* Answers come on other threads, in any order, and each removes the first *)
(* pending set before it brings its own nodes into the store.              *)
(*                                                                         *)
(* A node of a kind that is serialised is not opened but printed, with all *)
(* that is below it: once to have its text, in the thread that draws, and  *)
(* once to lay it out, in a thread of its own.  Both take the store, the   *)
(* pending and the waiting sets together, and put what they miss in the    *)
(* waiting set.  Both results are kept until the store has grown.  Which   *)
(* kinds are serialised does not change during a run.                      *)
(*                                                                         *)
(* The lock of the store is held for reading while a node is drawn, its    *)
(* children included (all but the root's), so it is taken again under      *)
(* itself.  Whether a reader passes a writer that waits is left open by    *)
(* the lock's documentation and does not change during a run.              *)
(***************************************************************************)
EXTENDS Integers, FiniteSets, Sequences, SequencesExt

CONSTANTS
  NodeIdentifier,
  order,          \* the nodes of the tree, in the order of a drawing
  path,           \* the nodes from the root to each node, itself left out
  Printable,      \* the nodes of a form that is printed if its kind is chosen
  MaxFailures,    \* how many requests fail or have an answer that does not parse
  MaxFlight,      \* bounds the requests at once; nothing does in the code
  MaxLayouts      \* bounds the layouts at once; nothing does in the code

ASSUME TreeAssumption ==
  /\ order \in Seq(NodeIdentifier)
  /\ path \in [NodeIdentifier -> Seq(NodeIdentifier)]
  /\ Printable \subseteq NodeIdentifier
ASSUME BoundsAssumption ==
  MaxFailures \in Nat /\ MaxFlight \in Nat \ {0} /\ MaxLayouts \in Nat \ {0}

VARIABLES
  node_store,     \* the nodes fetched
  nodes_waiting,  \* the nodes to request next
  flushing,       \* the waiting set taken, with its lock, to be requested
  nodes_pending,  \* the queue of the sets said to be in flight
  flight,         \* the requests, each with its ids and how far it is
  overtaken,      \* whether an answer came before that of an earlier request
  failures,
  expanded,       \* the nodes that are open
  serialised,     \* the nodes whose kind is to be printed
  drawing,        \* where in the order the frame is; 0 between frames
  look,           \* what is to be done at the node there
  cached,         \* the texts and layouts kept for the size of the store
  layouts,        \* the threads that lay out a node, and how far each is
  writer_first    \* whether a writer that waits keeps readers out

requests == <<nodes_pending, flight, overtaken, failures>>
view == <<expanded, serialised>>
frame == <<drawing, look>>
printing == <<cached, layouts>>
vars == <<node_store, nodes_waiting, flushing, requests, view, frame, printing,
          writer_first>>

(* A view is made when its root has come, by a request of its own. *)
Init ==
  /\ node_store = {id \in NodeIdentifier : path[id] = <<>>}
  /\ nodes_waiting = {} /\ flushing = {}
  /\ nodes_pending = <<>> /\ flight = <<>>
  /\ overtaken = FALSE /\ failures = 0
  /\ expanded = {} /\ serialised \in SUBSET Printable
  /\ drawing = 0 /\ look = "resolve"
  /\ cached = {} /\ layouts = {}
  /\ writer_first \in BOOLEAN

shown(id) == \A i \in DOMAIN path[id] : path[id][i] \in expanded \ serialised

(* the nodes printed with s: those below it that the store gives the way to *)
printed(s) ==
  {id \in NodeIdentifier :
     \E i \in DOMAIN path[id] :
       path[id][i] = s /\ \A j \in i .. Len(path[id]) : path[id][j] \in node_store}

(* drawing goes from place i of the order to the next node that is shown *)
goes_on(i) ==
  LET later == {j \in DOMAIN order : j > i /\ shown(order[j])} IN
  \/ later = {} /\ drawing' = 0
  \/ drawing' \in later /\ \A j \in later : drawing' <= j

current == order[drawing]
idle == drawing = 0 /\ flushing = {}

(* Whether the thread that draws has a guard of the store: those of the     *)
(* nodes above the one it is at, the root aside, the one under which it     *)
(* was found missing, and the one under which it is printed.               *)
guarded ==
  drawing # 0 /\ \/ Len(path[current]) > 1
                 \/ look = "absent"
                 \/ look \in {"print", "lay_out"} /\ path[current] # <<>>

at(k, state) == flight[k].state = state
writing == \E k \in DOMAIN flight : at(k, "writing")
readable == ~(writer_first /\ writing)

(* whether the lock of the pending sets is free *)
unlocked == \A l \in layouts : l.state # "locked"

(* A missing node is looked for in the pending sets, under their lock. *)
pending(id) == \E i \in DOMAIN nodes_pending : id \in nodes_pending[i]
to_fetch(ids) == {id \in ids \ node_store : ~pending(id)}
-----------------------------------------------------------------------------
(* The user opens and closes nodes. *)
Expand(id) ==
  /\ idle /\ id \in node_store \ serialised /\ shown(id)
  /\ \E c \in NodeIdentifier : path[c] # <<>> /\ Last(path[c]) = id
  /\ expanded' = expanded \cup {id}
  /\ UNCHANGED <<node_store, nodes_waiting, flushing, requests, serialised, frame,
                 printing, writer_first>>

Collapse(id) ==
  /\ idle
  /\ expanded' = expanded \ {id}
  /\ UNCHANGED <<node_store, nodes_waiting, flushing, requests, serialised, frame,
                 printing, writer_first>>

unfetched == <<node_store, flushing, requests, view, writer_first>>

(* A frame draws what is shown, one node after the other. *)
Draw ==
  /\ idle /\ goes_on(0) /\ drawing' # 0
  /\ UNCHANGED <<nodes_waiting, look, printing, unfetched>>

Resolve ==
  /\ drawing # 0 /\ look = "resolve" /\ readable
  /\ \/ /\ current \notin node_store
        /\ look' = "absent" /\ UNCHANGED drawing
     \/ /\ current \in node_store \cap serialised
        /\ look' = "print" /\ UNCHANGED drawing
     \/ /\ current \in node_store \ serialised
        /\ goes_on(drawing) /\ UNCHANGED look
  /\ UNCHANGED <<nodes_waiting, printing, unfetched>>

(* (variant: whether the node is pending or not) *)
PutWaiting_pending ==
  /\ drawing # 0 /\ look = "absent" /\ unlocked
  /\ nodes_waiting' = nodes_waiting \cup {current}
  /\ look' = "resolve" /\ goes_on(drawing)
  /\ UNCHANGED <<printing, unfetched>>

PutWaiting ==
  /\ drawing # 0 /\ look = "absent" /\ unlocked
  /\ nodes_waiting' = nodes_waiting \cup {id \in {current} : ~pending(id)}
  /\ look' = "resolve" /\ goes_on(drawing)
  /\ UNCHANGED <<printing, unfetched>>

(* The text of a node is the one that is kept, or is made anew. *)
MakeText ==
  /\ drawing # 0 /\ look = "print" /\ readable
  /\ \/ <<"text", current>> \in cached /\ UNCHANGED <<nodes_waiting, cached>>
     \/ /\ <<"text", current>> \notin cached /\ unlocked
        /\ nodes_waiting' = nodes_waiting \cup to_fetch(printed(current))
        /\ cached' = (cached \ {<<"layout", current>>}) \cup {<<"text", current>>}
  /\ look' = "lay_out"
  /\ UNCHANGED <<drawing, layouts, unfetched>>

(* So is its layout; one that is made anew is not waited for. *)
LayOut ==
  /\ drawing # 0 /\ look = "lay_out" /\ readable
  /\ \/ <<"layout", current>> \in cached /\ UNCHANGED printing
     \/ /\ <<"layout", current>> \notin cached /\ Cardinality(layouts) < MaxLayouts
        /\ cached' = cached \cup {<<"layout", current>>}
        /\ layouts' = layouts \cup {[of |-> current, state |-> "spawned"]}
  /\ look' = "resolve" /\ goes_on(drawing)
  /\ UNCHANGED <<nodes_waiting, unfetched>>

(* The text and the layout of a node not shown for fifty frames are dropped. *)
Forget(s) ==
  /\ idle /\ ~shown(s)
  /\ cached' = cached \ {<<"text", s>>, <<"layout", s>>}
  /\ UNCHANGED <<node_store, nodes_waiting, flushing, requests, view, frame,
                 layouts, writer_first>>

(* A layout takes the store and the pending sets, then the waiting one.     *)
(* (It has the store before the pending sets, which nobody who has them     *)
(* asks for; threads that lay out one node and are as far are one.)         *)
Layout == [of : Printable, state : {"spawned", "locked"}]

LayoutStep(l) ==
  /\ l \in layouts
  /\ \/ /\ l.state = "spawned" /\ readable /\ unlocked
        /\ layouts' = (layouts \ {l}) \cup {[l EXCEPT !.state = "locked"]}
        /\ UNCHANGED nodes_waiting
     \/ /\ l.state = "locked" /\ flushing = {}
        /\ nodes_waiting' = nodes_waiting \cup to_fetch(printed(l.of))
        /\ layouts' = layouts \ {l}
  /\ UNCHANGED <<node_store, flushing, requests, view, frame, cached, writer_first>>

(* (variant: the set is taken but stays) *)
TakeWaiting_kept ==
  /\ idle /\ nodes_waiting # {} /\ Len(flight) < MaxFlight
  /\ flushing' = nodes_waiting
  /\ UNCHANGED <<nodes_waiting, node_store, requests, view, frame, printing, writer_first>>

(* Between frames, when the timer is due: the waiting set is taken, and     *)
(* requested, its lock held until the request is sent.                     *)
TakeWaiting ==
  /\ idle /\ nodes_waiting # {} /\ Len(flight) < MaxFlight
  /\ flushing' = nodes_waiting
  /\ nodes_waiting' = {}
  /\ UNCHANGED <<node_store, requests, view, frame, printing, writer_first>>

Flush ==
  /\ flushing # {} /\ unlocked
  /\ nodes_pending' = Append(nodes_pending, flushing)
  /\ flight' = Append(flight, [ids |-> flushing, state |-> "sent"])
  /\ flushing' = {}
  /\ UNCHANGED <<node_store, nodes_waiting, overtaken, failures, view, frame,
                 printing, writer_first>>

(* (variant: only the answers that parse remove a set) *)
pop_parsed(q, parses) == IF parses THEN Tail(q) ELSE q

(* An answer removes the first pending set, whatever request it answers. *)
pop_front(q, parses) == Tail(q)
Answered(k, parses) ==
  /\ at(k, "sent") /\ unlocked
  /\ nodes_pending' = pop_front(nodes_pending, parses)
  /\ overtaken' = (overtaken \/ \E j \in 1 .. k - 1 : at(j, "sent"))
  /\ UNCHANGED <<node_store, nodes_waiting, flushing, view, frame, printing, writer_first>>

Answer(k) ==
  /\ Answered(k, TRUE)
  /\ flight' = [flight EXCEPT ![k].state = "answered"]
  /\ UNCHANGED failures

(* A failed request, or an answer that panics where it is parsed, leaves no *)
(* trace but the removal.                                                  *)
Fail(k) ==
  /\ failures < MaxFailures
  /\ Answered(k, FALSE)
  /\ flight' = RemoveAt(flight, k)
  /\ failures' = failures + 1

(* What came with an answer that parses is brought into the store, once     *)
(* nobody has a guard of it.  A store that grew makes texts and layouts     *)
(* obsolete, which are kept by its size.                                   *)
Write(k) ==
  /\ at(k, "answered")
  /\ flight' = [flight EXCEPT ![k].state = "writing"]
  /\ UNCHANGED <<node_store, nodes_waiting, flushing, nodes_pending, overtaken, failures,
                 view, frame, printing, writer_first>>

Extend(k) ==
  /\ at(k, "writing") /\ ~guarded
  /\ unlocked
  /\ node_store' = node_store \cup flight[k].ids
  /\ cached' = {c \in cached : flight[k].ids \subseteq node_store}
  /\ flight' = RemoveAt(flight, k)
  /\ UNCHANGED <<nodes_waiting, flushing, nodes_pending, overtaken, failures, view, frame,
                 layouts, writer_first>>

Requests == \E k \in DOMAIN flight : Answer(k) \/ Fail(k) \/ Write(k) \/ Extend(k)

Layouts == \E l \in Layout : LayoutStep(l)

(* what the thread that draws has begun and goes on with *)
GoesOn == Resolve \/ PutWaiting \/ MakeText \/ LayOut \/ Flush

Next ==
  \/ \E id \in NodeIdentifier : Expand(id) \/ Collapse(id)
  \/ \E s \in Printable : Forget(s)
  \/ Draw \/ TakeWaiting \/ GoesOn
  \/ Layouts \/ Requests

(* There is a frame at least every five seconds, and time for whoever waits *)
(* after it; the timer comes due again and again; every request ends.      *)
Fairness ==
  /\ SF_vars(Draw) /\ SF_vars(TakeWaiting) /\ WF_vars(GoesOn)
  /\ SF_vars(Layouts) /\ SF_vars(Requests)

Spec == Init /\ [][Next]_vars /\ Fairness
-----------------------------------------------------------------------------
(* The variables have their types, no request is without ids, what is looked *)
(* for or printed is being drawn, and while a set is taken to be requested   *)
(* nothing is drawn and nothing waits.                                     *)
Request == [ids : (SUBSET NodeIdentifier) \ {{}}, state : {"sent", "answered", "writing"}]

TypeOK ==
  /\ node_store \subseteq NodeIdentifier
  /\ nodes_waiting \subseteq NodeIdentifier
  /\ flushing \subseteq NodeIdentifier
  /\ nodes_pending \in Seq((SUBSET NodeIdentifier) \ {{}})
  /\ flight \in Seq(Request)
  /\ overtaken \in BOOLEAN
  /\ failures \in 0 .. MaxFailures
  /\ expanded \subseteq NodeIdentifier
  /\ serialised \subseteq Printable
  /\ drawing \in {0} \cup DOMAIN order
  /\ look \in {"resolve", "absent", "print", "lay_out"}
  /\ look # "resolve" => drawing # 0
  /\ look \in {"print", "lay_out"} => current \in node_store \cap serialised
  /\ cached \subseteq {"text", "layout"} \X Printable
  /\ layouts \subseteq Layout
  /\ flushing # {} => drawing = 0 /\ nodes_waiting = {}
  /\ writer_first \in BOOLEAN

(* the requests that have no answer, by their place in flight *)
unanswered == {k \in DOMAIN flight : at(k, "sent")}

(* request names the unanswered requests, in their order *)
InOrder(request) ==
  /\ \A i, j \in DOMAIN nodes_pending : i < j => request[i] < request[j]
  /\ \A k \in unanswered : \E i \in DOMAIN nodes_pending : request[i] = k

(***************************************************************************)
(* "pending ie. nodes in flight" (tree_view.rs:118): there is one pending  *)
(* set for each request without an answer, which leaves no node pending    *)
(* for ever.  Until an answer overtakes another, the pending sets are also *)
(* those of these requests, in their order, and no node is in flight       *)
(* twice, or in flight and waiting or about to be requested.               *)
(***************************************************************************)
PendingIsInFlight ==
  /\ \E request \in [DOMAIN nodes_pending -> unanswered] :
       /\ InOrder(request)
       /\ ~overtaken =>
            \A i \in DOMAIN nodes_pending : nodes_pending[i] = flight[request[i]].ids
  /\ ~overtaken =>
       /\ \A i, j \in DOMAIN nodes_pending :
            i # j => nodes_pending[i] \cap nodes_pending[j] = {}
       /\ \A i \in DOMAIN nodes_pending :
            (nodes_waiting \cup flushing) \cap nodes_pending[i] = {}

(* The thread that draws stops for ever behind a writer that waits for the   *)
(* guard it has, or with the waiting set taken, behind a layout that has the *)
(* pending ones and waits for it.                                          *)
StuckBehindWriter == writer_first /\ writing /\ guarded /\ look # "absent"
StuckInCircle == flushing # {} /\ ~unlocked
Stuck == StuckBehindWriter \/ StuckInCircle

(* what is to be shown: opened, or printed while no request has failed *)
on_paper(id) == \E s \in serialised \cap node_store : shown(s) /\ id \in printed(s)
wanted(id) == shown(id) \/ (failures = 0 /\ on_paper(id))

(***************************************************************************)
(* What stays shown is there in the end, whatever answers overtook others  *)
(* or failed, if only so many fail, and so is what stays printed, if none  *)
(* fails: a text that misses a node is kept, and the node not asked for    *)
(* again, while the store does not grow.  All this unless the thread that  *)
(* draws stops in one of the two ways that the locks allow.                *)
(***************************************************************************)
ShownIsFetched ==
  \A id \in {c \in NodeIdentifier : path[c] # <<>>} :
    wanted(id) ~> ~wanted(id) \/ id \in node_store \/ Stuck
=============================================================================
