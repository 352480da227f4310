------------------------- MODULE FetchQueue_proofs -------------------------
(***************************************************************************)
(* The pending sets stand for the requests without an answer, however many *)
(* of them there are, and in whatever order the answers come.              *)
(***************************************************************************)
EXTENDS FetchQueue, SequenceTheorems, TLAPS

(* What is left of a sequence when the element at a place is removed. *)
LEMMA RemoveAtFacts ==
  ASSUME NEW S, NEW s \in Seq(S), NEW k \in 1 .. Len(s)
  PROVE  /\ RemoveAt(s, k) \in Seq(S)
         /\ Len(RemoveAt(s, k)) = Len(s) - 1
         /\ \A i \in 1 .. Len(s) - 1 : RemoveAt(s, k)[i] = IF i < k THEN s[i] ELSE s[i + 1]
<1> DEFINE left == SubSeq(s, 1, k - 1)
           right == SubSeq(s, k + 1, Len(s))
<1>1. Len(s) \in Nat /\ k \in Nat /\ k - 1 \in 0 .. Len(s) /\ k + 1 \in 1 .. Len(s) + 1
  BY LenProperties
<1>2. /\ left \in Seq(S) /\ Len(left) = k - 1
      /\ \A i \in 1 .. k - 1 : left[i] = s[i]
  BY <1>1
<1>3. /\ right \in Seq(S) /\ Len(right) = Len(s) - k
      /\ \A i \in 1 .. Len(s) - k : right[i] = s[k + i]
  BY <1>1
<1>4. RemoveAt(s, k) = left \o right
  BY DEF RemoveAt
<1> HIDE DEF left, right
<1>5. /\ left \o right \in Seq(S) /\ Len(left \o right) = Len(s) - 1
      /\ \A i \in 1 .. Len(s) - 1 :
           (left \o right)[i] = IF i <= k - 1 THEN left[i] ELSE right[i - (k - 1)]
  <2>1. /\ left \o right \in Seq(S) /\ Len(left \o right) = Len(left) + Len(right)
        /\ \A i \in 1 .. Len(left) + Len(right) :
             (left \o right)[i] = IF i <= Len(left) THEN left[i] ELSE right[i - Len(left)]
    BY <1>2, <1>3, ConcatProperties
  <2>2. Len(left) = k - 1 /\ Len(left) + Len(right) = Len(s) - 1
    BY <1>1, <1>2, <1>3
  <2> QED
    BY <2>1, <2>2
<1>6. ASSUME NEW i \in 1 .. Len(s) - 1
      PROVE  (left \o right)[i] = IF i < k THEN s[i] ELSE s[i + 1]
  <2>1. CASE i < k
    BY <1>1, <1>2, <1>5, <2>1
  <2>2. CASE ~(i < k)
    <3>1. i - (k - 1) \in 1 .. Len(s) - k /\ k + (i - (k - 1)) = i + 1
      BY <1>1, <2>2
    <3> QED
      BY <1>1, <1>3, <1>5, <2>2, <3>1
  <2> QED
    BY <2>1, <2>2
<1> QED
  BY <1>4, <1>5, <1>6

(* The places that follow k move down by one when k is removed. *)
Moved(k, j) == IF j < k THEN j ELSE j - 1

(* the invariant *)
Inv == TypeOK /\ PendingIsInFlight

(* what a map of the queue sets onto the requests K has to satisfy *)
Names(request, sets, K) ==
  /\ request \in [DOMAIN sets -> K]
  /\ \A i, j \in DOMAIN sets : i < j => request[i] < request[j]
  /\ \A k \in K : \E i \in DOMAIN sets : request[i] = k

(* what is in flight, or waiting, is so once *)
Apart(sets, waiting) ==
  /\ \A i, j \in DOMAIN sets : i # j => sets[i] \cap sets[j] = {}
  /\ \A i \in DOMAIN sets : waiting \cap sets[i] = {}

(* PendingIsInFlight, in these terms. *)
LEMMA PendingNamed ==
  PendingIsInFlight <=>
    /\ \E request : /\ Names(request, nodes_pending, unanswered)
                    /\ ~overtaken => \A i \in DOMAIN nodes_pending :
                                       nodes_pending[i] = flight[request[i]].ids
    /\ ~overtaken => Apart(nodes_pending, nodes_waiting \cup flushing)
BY DEF PendingIsInFlight, InOrder, Names, Apart

(* Nothing is in flight at the start. *)
LEMMA InvInit == Init => Inv
<1> SUFFICES ASSUME Init PROVE Inv
  OBVIOUS
<1>1. /\ nodes_pending = <<>> /\ flight = <<>>
      /\ DOMAIN nodes_pending = {} /\ DOMAIN flight = {}
  BY DEF Init
<1>2. TypeOK
  <2>1. nodes_pending \in Seq((SUBSET NodeIdentifier) \ {{}}) /\ flight \in Seq(Request)
    BY <1>1
  <2>2. failures \in 0 .. MaxFailures
    BY BoundsAssumption DEF Init
  <2> QED
    BY <2>1, <2>2 DEF Init, TypeOK
<1>3. unanswered = {}
  BY <1>1 DEF unanswered
<1>4. Names(<<>>, nodes_pending, unanswered) /\ Apart(nodes_pending, nodes_waiting \cup flushing)
  BY <1>1, <1>3 DEF Names, Apart
<1>5. PendingIsInFlight
  BY <1>1, <1>4, PendingNamed
<1> QED
  BY <1>2, <1>5 DEF Inv

(* The next place of the order to draw is one. *)
LEMMA NextPlace == \A i : goes_on(i) => drawing' \in {0} \cup DOMAIN order
BY DEF goes_on

(* While nothing is taken to be requested, what is drawn is a node. *)
LEMMA CurrentFacts ==
  ASSUME TypeOK, drawing # 0
  PROVE  current \in NodeIdentifier /\ flushing = {}
<1>1. drawing \in DOMAIN order /\ flushing = {}
  BY DEF TypeOK
<1> QED
  BY <1>1, TreeAssumption DEF current

(* Steps that leave the requests alone may add nodes to the waiting set,   *)
(* those that no pending set has.                                          *)
LEMMA WaitingGrows ==
  ASSUME PendingIsInFlight, UNCHANGED <<nodes_pending, flight, overtaken>>,
         \A id \in nodes_waiting' \cup flushing' :
           id \in nodes_waiting \cup flushing \/ ~pending(id)
  PROVE  PendingIsInFlight'
<1>1. /\ nodes_pending' = nodes_pending /\ flight' = flight
      /\ overtaken' = overtaken /\ unanswered' = unanswered
  BY DEF unanswered, at
<1> DEFINE waiting == nodes_waiting \cup flushing
<1>2. Apart(nodes_pending, waiting) => Apart(nodes_pending', waiting')
  <2> DEFINE later == waiting'
  <2>1. \A id \in later : id \in waiting \/ \A i \in DOMAIN nodes_pending : id \notin nodes_pending[i]
    BY DEF pending
  <2> HIDE DEF waiting, later
  <2>2. Apart(nodes_pending, waiting) => Apart(nodes_pending, later)
    BY <2>1 DEF Apart
  <2> QED
    BY <1>1, <2>2 DEF later
<1>3. ~overtaken => Apart(nodes_pending', waiting')
  BY <1>2, PendingNamed
<1> DEFINE later == waiting'
<1>4. ~overtaken =>
        /\ \A i, j \in DOMAIN nodes_pending : i # j => nodes_pending[i] \cap nodes_pending[j] = {}
        /\ \A i \in DOMAIN nodes_pending : later \cap nodes_pending[i] = {}
  <2> HIDE DEF later
  <2> QED
    BY <1>1, <1>3 DEF Apart, later
<1>5. \E request \in [DOMAIN nodes_pending -> unanswered] :
        /\ InOrder(request)
        /\ ~overtaken =>
             \A i \in DOMAIN nodes_pending : nodes_pending[i] = flight[request[i]].ids
  BY DEF PendingIsInFlight
<1>6. (\E request \in [DOMAIN nodes_pending -> unanswered] :
         /\ InOrder(request)
         /\ ~overtaken =>
              \A i \in DOMAIN nodes_pending : nodes_pending[i] = flight[request[i]].ids)'
  BY <1>1, <1>5 DEF InOrder
<1> QED
  BY <1>1, <1>4, <1>6 DEF PendingIsInFlight

(* The user, and the frames that keep what they made. *)
LEMMA InvView ==
  ASSUME Inv,
         \/ \E id \in NodeIdentifier : Expand(id) \/ Collapse(id)
         \/ \E s \in Printable : Forget(s)
         \/ UNCHANGED vars
  PROVE  Inv'
<1>1. /\ nodes_pending' = nodes_pending /\ flight' = flight /\ overtaken' = overtaken
      /\ nodes_waiting' = nodes_waiting /\ flushing' = flushing
      /\ node_store' = node_store /\ failures' = failures /\ serialised' = serialised
      /\ drawing' = drawing /\ look' = look /\ layouts' = layouts
      /\ writer_first' = writer_first
  BY DEF Expand, Collapse, Forget, requests, view, frame, printing, vars
<1>2. PendingIsInFlight'
  BY <1>1, WaitingGrows DEF Inv
<1>3. expanded' \subseteq NodeIdentifier /\ cached' \subseteq {"text", "layout"} \X Printable
  <2>1. expanded \subseteq NodeIdentifier /\ cached \subseteq {"text", "layout"} \X Printable
    BY DEF Inv, TypeOK
  <2> QED
    BY <2>1 DEF Expand, Collapse, Forget, view, frame, printing, vars
<1>4. TypeOK'
  BY <1>1, <1>3 DEF Inv, TypeOK, current
<1> QED
  BY <1>2, <1>4 DEF Inv

(* A frame begins, and goes on with what it looks up. *)
LEMMA InvDraw == Inv /\ (Draw \/ Resolve) => Inv'
<1> SUFFICES ASSUME Inv, Draw \/ Resolve PROVE Inv'
  OBVIOUS
<1>1. /\ nodes_pending' = nodes_pending /\ flight' = flight /\ overtaken' = overtaken
      /\ nodes_waiting' = nodes_waiting /\ flushing' = flushing
      /\ node_store' = node_store /\ failures' = failures /\ expanded' = expanded
      /\ serialised' = serialised /\ cached' = cached /\ layouts' = layouts
      /\ writer_first' = writer_first
  BY DEF Draw, Resolve, unfetched, requests, view, printing
<1>2. PendingIsInFlight'
  BY <1>1, WaitingGrows DEF Inv
<1>3. flushing = {} /\ look = "resolve"
  BY DEF Inv, TypeOK, Draw, Resolve, idle
<1>4. /\ drawing' \in {0} \cup DOMAIN order
      /\ look' \in {"resolve", "absent", "print"}
      /\ look' # "resolve" => drawing' # 0
      /\ look' = "print" => (current \in node_store \cap serialised)'
  <2>1. CASE Draw
    BY <1>3, <2>1, NextPlace DEF Draw
  <2>2. CASE Resolve /\ current \notin node_store \cap serialised
    <3>1. drawing \in DOMAIN order
      BY <2>2 DEF Inv, TypeOK, Resolve
    <3> QED
      BY <1>3, <2>2, <3>1, NextPlace DEF Resolve
  <2>3. CASE Resolve /\ current \in node_store \cap serialised
    <3>1. drawing' = drawing /\ look' = "print" /\ drawing \in DOMAIN order /\ drawing # 0
      BY <2>3 DEF Resolve, Inv, TypeOK
    <3>2. current' = current
      BY <3>1 DEF current
    <3> QED
      BY <1>1, <2>3, <3>1, <3>2
  <2> QED
    BY <2>1, <2>2, <2>3
<1>5. TypeOK'
  BY <1>1, <1>3, <1>4 DEF Inv, TypeOK
<1> QED
  BY <1>2, <1>5 DEF Inv

(* A node is put in the waiting set only when no pending set has it. *)
LEMMA InvPutWaiting == Inv /\ PutWaiting => Inv'
<1> SUFFICES ASSUME Inv, PutWaiting PROVE Inv'
  OBVIOUS
<1>1. /\ nodes_pending' = nodes_pending /\ flight' = flight /\ overtaken' = overtaken
      /\ nodes_waiting' = nodes_waiting \cup {id \in {current} : ~pending(id)}
      /\ flushing' = flushing /\ drawing # 0 /\ look' = "resolve"
  BY DEF PutWaiting, unfetched, requests
<1>2. current \in NodeIdentifier /\ flushing = {}
  BY <1>1, CurrentFacts DEF Inv
<1>3. nodes_waiting' \subseteq NodeIdentifier /\ drawing' \in {0} \cup DOMAIN order
  BY <1>1, <1>2, NextPlace DEF Inv, TypeOK, PutWaiting
<1>4. TypeOK'
  BY <1>1, <1>2, <1>3 DEF Inv, TypeOK, PutWaiting, unfetched, requests, view, printing
<1>5. PendingIsInFlight'
  BY <1>1, WaitingGrows DEF Inv
<1> QED
  BY <1>4, <1>5 DEF Inv

(* So it is with what is missing below a node that is printed. *)
LEMMA ToFetchFacts ==
  ASSUME NEW s
  PROVE  /\ to_fetch(printed(s)) \subseteq NodeIdentifier
         /\ \A id \in to_fetch(printed(s)) : ~pending(id)
BY DEF to_fetch, printed

LEMMA InvPrint == Inv /\ (MakeText \/ LayOut) => Inv'
<1> SUFFICES ASSUME Inv, MakeText \/ LayOut PROVE Inv'
  OBVIOUS
<1>1. /\ nodes_pending' = nodes_pending /\ flight' = flight /\ overtaken' = overtaken
      /\ flushing' = flushing /\ node_store' = node_store /\ failures' = failures
      /\ expanded' = expanded /\ serialised' = serialised
      /\ writer_first' = writer_first
      /\ drawing # 0 /\ look \in {"print", "lay_out"}
      /\ \/ nodes_waiting' = nodes_waiting
         \/ nodes_waiting' = nodes_waiting \cup to_fetch(printed(current))
  BY DEF MakeText, LayOut, unfetched, requests, view
<1>2. PendingIsInFlight'
  BY <1>1, ToFetchFacts, WaitingGrows DEF Inv
<1>3. /\ flushing = {} /\ current \in node_store \cap serialised
      /\ current \in Printable /\ drawing \in DOMAIN order
  BY <1>1 DEF Inv, TypeOK
<1>4. nodes_waiting' \subseteq NodeIdentifier
  BY <1>1, ToFetchFacts DEF Inv, TypeOK
<1>5. cached' \subseteq {"text", "layout"} \X Printable /\ layouts' \subseteq Layout
  <2>1. /\ cached \subseteq {"text", "layout"} \X Printable /\ layouts \subseteq Layout
        /\ <<"text", current>> \in {"text", "layout"} \X Printable
        /\ <<"layout", current>> \in {"text", "layout"} \X Printable
    BY <1>3 DEF Inv, TypeOK
  <2>2. [of |-> current, state |-> "spawned"] \in Layout
    BY <1>3 DEF Layout
  <2> QED
    BY <2>1, <2>2 DEF MakeText, LayOut, printing
<1>6. /\ drawing' \in {0} \cup DOMAIN order /\ look' \in {"resolve", "lay_out"}
      /\ look' = "lay_out" => drawing' = drawing
  BY <1>3, NextPlace DEF MakeText, LayOut
<1>7. look' = "lay_out" => (current \in node_store \cap serialised)'
  BY <1>1, <1>3, <1>6 DEF current
<1>8. TypeOK'
  BY <1>1, <1>3, <1>4, <1>5, <1>6, <1>7 DEF Inv, TypeOK
<1> QED
  BY <1>2, <1>8 DEF Inv

LEMMA InvLayout == ASSUME Inv, NEW l, LayoutStep(l) PROVE Inv'
<1>1. /\ nodes_pending' = nodes_pending /\ flight' = flight /\ overtaken' = overtaken
      /\ flushing' = flushing /\ node_store' = node_store /\ failures' = failures
      /\ expanded' = expanded /\ serialised' = serialised /\ cached' = cached
      /\ drawing' = drawing /\ look' = look /\ writer_first' = writer_first
      /\ \/ nodes_waiting' = nodes_waiting
         \/ flushing = {} /\ nodes_waiting' = nodes_waiting \cup to_fetch(printed(l.of))
  BY DEF LayoutStep, requests, view, frame
<1>2. PendingIsInFlight'
  BY <1>1, ToFetchFacts, WaitingGrows DEF Inv
<1>3. nodes_waiting' \subseteq NodeIdentifier
  BY <1>1, ToFetchFacts DEF Inv, TypeOK
<1>4. layouts' \subseteq Layout
  <2>1. layouts \subseteq Layout /\ l \in layouts
    BY DEF Inv, TypeOK, LayoutStep
  <2>2. [l EXCEPT !.state = "locked"] \in Layout
    BY <2>1 DEF Layout
  <2> QED
    BY <2>1, <2>2 DEF LayoutStep
<1>5. flushing' # {} => drawing' = 0 /\ nodes_waiting' = {}
  BY <1>1 DEF Inv, TypeOK
<1>6. TypeOK'
  BY <1>1, <1>3, <1>4, <1>5 DEF Inv, TypeOK, current
<1> QED
  BY <1>2, <1>6 DEF Inv

(* The waiting set is taken. *)
LEMMA InvTakeWaiting == Inv /\ TakeWaiting => Inv'
<1> SUFFICES ASSUME Inv, TakeWaiting PROVE Inv'
  OBVIOUS
<1>1. /\ nodes_pending' = nodes_pending /\ flight' = flight /\ overtaken' = overtaken
      /\ flushing' = nodes_waiting /\ nodes_waiting' = {} /\ drawing = 0
      /\ node_store' = node_store /\ failures' = failures
      /\ expanded' = expanded /\ serialised' = serialised
      /\ cached' = cached /\ layouts' = layouts
      /\ drawing' = drawing /\ look' = look /\ writer_first' = writer_first
  BY DEF TakeWaiting, idle, requests, view, frame, printing
<1>2. PendingIsInFlight'
  BY <1>1, WaitingGrows DEF Inv
<1>3. TypeOK'
  BY <1>1 DEF Inv, TypeOK, current
<1> QED
  BY <1>2, <1>3 DEF Inv

(* A request is sent for the set taken, which goes behind the pending ones. *)
LEMMA InvFlush == Inv /\ Flush => Inv'
<1> SUFFICES ASSUME Inv, Flush PROVE Inv'
  OBVIOUS
<1> DEFINE n == Len(nodes_pending)
           l == Len(flight)
           new == [ids |-> flushing, state |-> "sent"]
           S == (SUBSET NodeIdentifier) \ {{}}
<1>1. /\ nodes_pending' = Append(nodes_pending, flushing)
      /\ flight' = Append(flight, new) /\ flushing' = {} /\ flushing # {}
      /\ overtaken' = overtaken
      /\ nodes_waiting' = nodes_waiting /\ nodes_waiting = {}
  BY DEF Flush, Inv, TypeOK
<1>2. /\ nodes_pending \in Seq(S) /\ flushing \in S
      /\ flight \in Seq(Request) /\ new \in Request
  BY <1>1 DEF Inv, TypeOK, Request
<1>3. TypeOK'
  BY <1>1, <1>2, AppendProperties DEF Inv, TypeOK, Flush, view, frame, printing, current
<1>4. /\ n \in Nat /\ DOMAIN nodes_pending = 1 .. n /\ DOMAIN nodes_pending' = 1 .. n + 1
      /\ \A i \in 1 .. n : nodes_pending'[i] = nodes_pending[i]
      /\ nodes_pending'[n + 1] = flushing
  BY <1>1, <1>2
<1>5. /\ l \in Nat /\ DOMAIN flight = 1 .. l /\ DOMAIN flight' = 1 .. l + 1
      /\ \A k \in 1 .. l : flight'[k] = flight[k]
      /\ flight'[l + 1] = new
  BY <1>1, <1>2
<1> HIDE DEF n, l
<1>6. unanswered' = unanswered \cup {l + 1} /\ unanswered \subseteq 1 .. l
  BY <1>5 DEF unanswered, at
<1>7. PICK request : /\ Names(request, nodes_pending, unanswered)
                     /\ ~overtaken => \A i \in DOMAIN nodes_pending :
                                        nodes_pending[i] = flight[request[i]].ids
  BY PendingNamed DEF Inv
<1> DEFINE longer == [i \in 1 .. n + 1 |-> IF i <= n THEN request[i] ELSE l + 1]
<1>8. Names(longer, nodes_pending', unanswered')
  <2>1. longer \in [1 .. n + 1 -> unanswered']
    BY <1>4, <1>6, <1>7 DEF Names
  <2>2. \A i \in 1 .. n : longer[i] = request[i] /\ request[i] \in 1 .. l /\ request[i] < l + 1
    <3> SUFFICES ASSUME NEW i \in 1 .. n
                 PROVE  longer[i] = request[i] /\ request[i] \in 1 .. l /\ request[i] < l + 1
      OBVIOUS
    <3>1. request[i] \in 1 .. l
      BY <1>4, <1>6, <1>7 DEF Names
    <3>2. i \in 1 .. n + 1 /\ i <= n
      BY <1>4
    <3> QED
      BY <1>5, <3>1, <3>2
  <2>3. longer[n + 1] = l + 1
    BY <1>4
  <2> HIDE DEF longer
  <2>4. \A i, j \in 1 .. n + 1 : i < j => longer[i] < longer[j]
    <3> SUFFICES ASSUME NEW i \in 1 .. n + 1, NEW j \in 1 .. n + 1, i < j
                 PROVE  longer[i] < longer[j]
      OBVIOUS
    <3>1. i \in 1 .. n
      BY <1>4
    <3>2. CASE j \in 1 .. n
      BY <1>4, <1>7, <2>2, <3>1, <3>2 DEF Names
    <3>3. CASE j = n + 1
      BY <2>2, <2>3, <3>1, <3>3
    <3> QED
      BY <1>4, <3>2, <3>3
  <2>5. \A k \in unanswered' : \E i \in 1 .. n + 1 : longer[i] = k
    <3> SUFFICES ASSUME NEW k \in unanswered' PROVE \E i \in 1 .. n + 1 : longer[i] = k
      OBVIOUS
    <3>1. CASE k = l + 1
      BY <1>4, <2>3, <3>1
    <3>2. CASE k \in unanswered
      <4>1. PICK i \in 1 .. n : request[i] = k
        BY <1>4, <1>7, <3>2 DEF Names
      <4> QED
        BY <1>4, <2>2, <4>1
    <3> QED
      BY <1>6, <3>1, <3>2
  <2> QED
    BY <1>4, <2>1, <2>4, <2>5 DEF Names
<1>9. ~overtaken => \A i \in DOMAIN nodes_pending' : nodes_pending'[i] = flight'[longer[i]].ids
  <2> SUFFICES ASSUME ~overtaken, NEW i \in 1 .. n + 1
               PROVE  nodes_pending'[i] = flight'[longer[i]].ids
    BY <1>4
  <2>1. CASE i <= n
    <3>1. i \in 1 .. n /\ longer[i] = request[i] /\ request[i] \in 1 .. l
      <4>1. i \in 1 .. n /\ longer[i] = request[i]
        BY <1>4, <2>1
      <4>2. request \in [1 .. n -> unanswered]
        BY <1>4, <1>7 DEF Names
      <4>3. request[i] \in 1 .. l
        BY <1>6, <4>1, <4>2
      <4> QED
        BY <4>1, <4>3
    <3>2. nodes_pending[i] = flight[request[i]].ids
      <4>1. i \in DOMAIN nodes_pending
        BY <1>4, <3>1
      <4>2. \A j \in DOMAIN nodes_pending : nodes_pending[j] = flight[request[j]].ids
        BY <1>7, Zenon
      <4> QED
        BY <4>1, <4>2, Zenon
    <3>3. nodes_pending'[i] = nodes_pending[i] /\ flight'[request[i]] = flight[request[i]]
      BY <1>4, <1>5, <3>1
    <3> QED
      BY <3>1, <3>2, <3>3
  <2>2. CASE ~(i <= n)
    <3>1. i = n + 1 /\ longer[i] = l + 1
      BY <1>4, <2>2
    <3> QED
      BY <1>4, <1>5, <3>1
  <2> QED
    BY <2>1, <2>2
<1> HIDE DEF longer
<1>10. Apart(nodes_pending, nodes_waiting \cup flushing)
         => Apart(nodes_pending', (nodes_waiting \cup flushing)')
  BY <1>1, <1>4 DEF Apart
<1>11. PendingIsInFlight'
  BY <1>1, <1>8, <1>9, <1>10, PendingNamed DEF Inv, PendingIsInFlight, InOrder, Names, Apart
<1> QED
  BY <1>3, <1>11 DEF Inv

(***************************************************************************)
(* An answer takes the first pending set, whatever request it answers: the *)
(* queue still names the others in their order, and with their own ids if  *)
(* the answered request was the first.                                     *)
(***************************************************************************)
LEMMA AnswerNames ==
  ASSUME Inv, NEW k \in DOMAIN flight, at(k, "sent")
  PROVE  /\ nodes_pending # <<>>
         /\ Tail(nodes_pending) \in Seq((SUBSET NodeIdentifier) \ {{}})
         /\ \E request : /\ Names(request, Tail(nodes_pending), unanswered \ {k})
                         /\ ~(overtaken \/ \E j \in 1 .. k - 1 : at(j, "sent")) =>
                              \A i \in DOMAIN Tail(nodes_pending) :
                                Tail(nodes_pending)[i] = flight[request[i]].ids
         /\ ~overtaken => Apart(Tail(nodes_pending), nodes_waiting \cup flushing)
<1> DEFINE queue == Tail(nodes_pending)
           n == Len(nodes_pending)
           S == (SUBSET NodeIdentifier) \ {{}}
<1>1. /\ nodes_pending \in Seq(S) /\ n \in Nat /\ DOMAIN nodes_pending = 1 .. n
      /\ unanswered \subseteq Int /\ k \in unanswered
  BY DEF Inv, TypeOK, unanswered
<1>2. PICK request : /\ Names(request, nodes_pending, unanswered)
                     /\ ~overtaken => \A i \in DOMAIN nodes_pending :
                                        nodes_pending[i] = flight[request[i]].ids
  BY PendingNamed DEF Inv
<1>3. PICK m \in 1 .. n : request[m] = k
  BY <1>1, <1>2 DEF Names
<1>4. nodes_pending # <<>> /\ n >= 1
  BY <1>1, <1>3
<1>5. /\ queue \in Seq(S) /\ DOMAIN queue = 1 .. n - 1
      /\ \A i \in 1 .. n - 1 : queue[i] = nodes_pending[i + 1]
  BY <1>1, <1>4, HeadTailProperties, LenProperties
<1> DEFINE fewer == [i \in 1 .. n - 1 |-> IF i < m THEN request[i] ELSE request[i + 1]]
<1> HIDE DEF n, queue
<1>6. /\ \A i \in 1 .. n : request[i] \in unanswered /\ request[i] \in Int
      /\ \A i, j \in 1 .. n : i < j => request[i] < request[j]
      /\ \A j \in unanswered : \E i \in 1 .. n : request[i] = j
  BY <1>1, <1>2 DEF Names
<1>7. ASSUME NEW i \in 1 .. n - 1
      PROVE  /\ i \in 1 .. n /\ i + 1 \in 1 .. n /\ i < i + 1
             /\ fewer[i] = IF i < m THEN request[i] ELSE request[i + 1]
  BY <1>1
<1> HIDE DEF fewer
<1>8. ASSUME NEW i \in 1 .. n - 1 PROVE fewer[i] \in unanswered \ {k}
  <2>1. CASE i < m
    <3>1. request[i] < request[m]
      BY <1>6, <1>7, <2>1
    <3> QED
      BY <1>3, <1>6, <1>7, <2>1, <3>1
  <2>2. CASE ~(i < m)
    <3>1. m < i + 1
      BY <1>1, <2>2
    <3>2. request[m] < request[i + 1]
      BY <1>6, <1>7, <3>1
    <3> QED
      BY <1>3, <1>6, <1>7, <2>2, <3>2
  <2> QED
    BY <2>1, <2>2
<1>9. ASSUME NEW i \in 1 .. n - 1, NEW j \in 1 .. n - 1, i < j PROVE fewer[i] < fewer[j]
  <2>1. /\ i \in 1 .. n /\ i + 1 \in 1 .. n /\ j \in 1 .. n /\ j + 1 \in 1 .. n
        /\ i < j /\ i < j + 1 /\ i + 1 < j + 1 /\ (j < m => i < m)
    BY <1>1, <1>7, <1>9
  <2> QED
    BY <1>6, <1>7, <2>1
<1>10. ASSUME NEW j \in unanswered \ {k} PROVE \E i \in 1 .. n - 1 : fewer[i] = j
  <2>1. PICK i \in 1 .. n : request[i] = j
    BY <1>6
  <2>2. i # m
    BY <1>3, <2>1
  <2>3. CASE i < m
    <3>1. i \in 1 .. n - 1
      BY <1>1, <2>3
    <3> QED
      BY <1>7, <2>1, <2>3, <3>1
  <2>4. CASE ~(i < m)
    <3>1. i - 1 \in 1 .. n - 1 /\ ~(i - 1 < m) /\ (i - 1) + 1 = i
      BY <1>1, <2>2, <2>4
    <3> QED
      BY <1>7, <2>1, <3>1
  <2> QED
    BY <2>3, <2>4
<1>11. fewer = [i \in 1 .. n - 1 |-> fewer[i]]
  BY DEF fewer
<1>12. Names(fewer, queue, unanswered \ {k})
  <2>1. fewer \in [DOMAIN queue -> unanswered \ {k}]
    BY <1>5, <1>8, <1>11
  <2> QED
    BY <1>5, <1>9, <1>10, <2>1 DEF Names
<1>13. ASSUME ~overtaken, ~\E j \in 1 .. k - 1 : at(j, "sent"), NEW i \in 1 .. n - 1
       PROVE  queue[i] = flight[fewer[i]].ids
  <2>1. m = 1
    <3> SUFFICES ASSUME m # 1 PROVE FALSE
      OBVIOUS
    <3>1. 1 \in 1 .. n /\ 1 < m
      BY <1>1, <1>4
    <3>2. request[1] < k /\ request[1] \in unanswered
      BY <1>3, <1>6, <3>1
    <3>3. request[1] \in DOMAIN flight /\ at(request[1], "sent")
      BY <3>2 DEF unanswered
    <3>4. DOMAIN flight = 1 .. Len(flight) /\ Len(flight) \in Nat
      BY DEF Inv, TypeOK
    <3>5. request[1] \in 1 .. k - 1
      BY <3>2, <3>3, <3>4
    <3> QED
      BY <1>13, <3>3, <3>5
  <2>2. fewer[i] = request[i + 1]
    BY <1>7, <2>1
  <2> QED
    BY <1>1, <1>2, <1>5, <1>7, <1>13, <2>2
<1>14. ~overtaken => Apart(queue, nodes_waiting \cup flushing)
  <2>1. ~overtaken => Apart(nodes_pending, nodes_waiting \cup flushing)
    BY PendingNamed DEF Inv
  <2>2. \A i, j \in 1 .. n - 1 : i # j => i + 1 # j + 1
    BY <1>1
  <2>3. ASSUME ~overtaken, NEW i \in 1 .. n - 1, NEW j \in 1 .. n - 1, i # j
        PROVE  queue[i] \cap queue[j] = {}
    <3>1. nodes_pending[i + 1] \cap nodes_pending[j + 1] = {}
      BY <1>1, <1>7, <2>1, <2>2, <2>3 DEF Apart
    <3> QED
      BY <1>5, <3>1
  <2>4. ASSUME ~overtaken, NEW i \in 1 .. n - 1
        PROVE  (nodes_waiting \cup flushing) \cap queue[i] = {}
    <3>1. (nodes_waiting \cup flushing) \cap nodes_pending[i + 1] = {}
      BY <1>1, <1>7, <2>1, <2>4 DEF Apart
    <3> QED
      BY <1>5, <3>1
  <2> QED
    BY <1>5, <2>3, <2>4 DEF Apart
<1> QED
  BY <1>4, <1>5, <1>12, <1>13, <1>14 DEF queue

(* An answer that parses. *)
LEMMA InvAnswer == ASSUME Inv, NEW k \in DOMAIN flight, Answer(k) PROVE Inv'
<1>1. /\ at(k, "sent") /\ nodes_pending' = Tail(nodes_pending)
      /\ flight' = [flight EXCEPT ![k].state = "answered"]
      /\ overtaken' = (overtaken \/ \E j \in 1 .. k - 1 : at(j, "sent"))
      /\ nodes_waiting' = nodes_waiting /\ flushing' = flushing
  BY DEF Answer, Answered, pop_front
<1>2. nodes_pending' \in Seq((SUBSET NodeIdentifier) \ {{}})
  BY <1>1, AnswerNames
<1>3. /\ flight \in Seq(Request) /\ flight[k] \in Request
  BY DEF Inv, TypeOK
<1>4. /\ flight' \in Seq(Request) /\ DOMAIN flight' = DOMAIN flight
      /\ \A j \in DOMAIN flight : /\ flight'[j].ids = flight[j].ids
                                  /\ j # k => flight'[j] = flight[j]
      /\ flight'[k].state = "answered"
  <2> DEFINE new == [flight[k] EXCEPT !.state = "answered"]
  <2>1. new \in Request /\ new.ids = flight[k].ids /\ new.state = "answered"
    BY <1>3 DEF Request
  <2>2. flight' = [flight EXCEPT ![k] = new]
    BY <1>1
  <2> HIDE DEF new
  <2> QED
    BY <1>3, <2>1, <2>2, ExceptSeq
<1>5. unanswered' = unanswered \ {k}
  BY <1>4 DEF unanswered, at
<1>6. TypeOK'
  BY <1>2, <1>4 DEF Inv, TypeOK, Answer, Answered, view, frame, printing, current
<1>7. PICK request : /\ Names(request, nodes_pending', unanswered')
                     /\ ~overtaken' => \A i \in DOMAIN nodes_pending' :
                                         nodes_pending'[i] = flight[request[i]].ids
  <2>1. PICK request :
          /\ Names(request, Tail(nodes_pending), unanswered \ {k})
          /\ ~(overtaken \/ \E j \in 1 .. k - 1 : at(j, "sent")) =>
               \A i \in DOMAIN Tail(nodes_pending) :
                 Tail(nodes_pending)[i] = flight[request[i]].ids
    BY <1>1, AnswerNames
  <2> QED
    BY <1>1, <1>5, <2>1
<1>8. \A i \in DOMAIN nodes_pending' : request[i] \in DOMAIN flight
  BY <1>5, <1>7 DEF Names, unanswered
<1>9. ~overtaken' => Apart(nodes_pending', (nodes_waiting \cup flushing)')
  BY <1>1, AnswerNames
<1>10. PendingIsInFlight'
  BY <1>4, <1>7, <1>8, <1>9, SMTT(30) DEF PendingIsInFlight, InOrder, Names, Apart
<1> QED
  BY <1>6, <1>10 DEF Inv

(* What a removal leaves of the requests, and where. *)
LEMMA RemovalMoves ==
  ASSUME TypeOK, NEW k \in DOMAIN flight, flight' = RemoveAt(flight, k)
  PROVE  /\ flight' \in Seq(Request)
         /\ DOMAIN flight \subseteq Int /\ k \in Int
         /\ \A j \in DOMAIN flight \ {k} : Moved(k, j) \in DOMAIN flight' /\ flight'[Moved(k, j)] = flight[j]
         /\ \A j \in DOMAIN flight' : \E h \in DOMAIN flight \ {k} : Moved(k, h) = j
         /\ \A i, j \in DOMAIN flight \ {k} : i < j => Moved(k, i) < Moved(k, j)
<1> DEFINE l == Len(flight)
<1>1. flight \in Seq(Request) /\ l \in Nat /\ DOMAIN flight = 1 .. l /\ k \in 1 .. l
  BY DEF TypeOK
<1>2. /\ flight' \in Seq(Request) /\ Len(flight') = l - 1
      /\ \A i \in 1 .. l - 1 : flight'[i] = IF i < k THEN flight[i] ELSE flight[i + 1]
  BY <1>1, RemoveAtFacts
<1>3. DOMAIN flight' = 1 .. l - 1
  BY <1>2
<1> HIDE DEF l
<1>4. ASSUME NEW j \in 1 .. l, j # k
      PROVE  Moved(k, j) \in 1 .. l - 1 /\ flight'[Moved(k, j)] = flight[j]
  <2>1. CASE j < k
    BY <1>1, <1>2, <2>1 DEF Moved
  <2>2. CASE ~(j < k)
    <3>1. Moved(k, j) = j - 1 /\ j - 1 \in 1 .. l - 1 /\ ~(j - 1 < k) /\ (j - 1) + 1 = j
      BY <1>1, <1>4, <2>2 DEF Moved
    <3> QED
      BY <1>2, <3>1
  <2> QED
    BY <2>1, <2>2
<1>5. ASSUME NEW j \in 1 .. l - 1 PROVE \E h \in 1 .. l : h # k /\ Moved(k, h) = j
  <2>1. CASE j < k
    BY <1>1, <2>1 DEF Moved
  <2>2. CASE ~(j < k)
    <3>1. j + 1 \in 1 .. l /\ j + 1 # k /\ Moved(k, j + 1) = j
      BY <1>1, <2>2 DEF Moved
    <3> QED
      BY <3>1
  <2> QED
    BY <2>1, <2>2
<1>6. ASSUME NEW i \in 1 .. l, NEW j \in 1 .. l, i # k, j # k, i < j
      PROVE  Moved(k, i) < Moved(k, j)
  BY <1>1, <1>6 DEF Moved
<1>7. DOMAIN flight \subseteq Int /\ k \in Int
  BY <1>1
<1>8. /\ \A j \in DOMAIN flight \ {k} : j \in 1 .. l /\ j # k
      /\ \A j \in 1 .. l : j # k => j \in DOMAIN flight \ {k}
  BY <1>1
<1>9. \A j \in DOMAIN flight \ {k} : Moved(k, j) \in DOMAIN flight' /\ flight'[Moved(k, j)] = flight[j]
  BY <1>3, <1>4, <1>8
<1>10. \A j \in DOMAIN flight' : \E h \in DOMAIN flight \ {k} : Moved(k, h) = j
  BY <1>3, <1>5, <1>8
<1>11. \A i, j \in DOMAIN flight \ {k} : i < j => Moved(k, i) < Moved(k, j)
  BY <1>6, <1>8
<1> QED
  BY <1>2, <1>7, <1>9, <1>10, <1>11

(* A request that is removed leaves a queue that names the others named. *)
LEMMA RemovalNames ==
  ASSUME TypeOK, NEW k \in DOMAIN flight, flight' = RemoveAt(flight, k),
         NEW queue, NEW request, Names(request, queue, unanswered \ {k})
  PROVE  \E moved : /\ Names(moved, queue, unanswered')
                    /\ \A i \in DOMAIN queue : flight'[moved[i]] = flight[request[i]]
<1> DEFINE moved == [i \in DOMAIN queue |-> Moved(k, request[i])]
<1>1. /\ \A j \in DOMAIN flight \ {k} : Moved(k, j) \in DOMAIN flight' /\ flight'[Moved(k, j)] = flight[j]
      /\ \A j \in DOMAIN flight' : \E h \in DOMAIN flight \ {k} : Moved(k, h) = j
      /\ \A i, j \in DOMAIN flight \ {k} : i < j => Moved(k, i) < Moved(k, j)
  BY RemovalMoves
<1>2. /\ \A i \in DOMAIN queue : request[i] \in DOMAIN flight \ {k} /\ flight[request[i]].state = "sent"
      /\ \A i, j \in DOMAIN queue : i < j => request[i] < request[j]
      /\ \A j \in DOMAIN flight \ {k} : flight[j].state = "sent" => \E i \in DOMAIN queue : request[i] = j
  BY DEF Names, unanswered, at
<1>3. unanswered' = {j \in DOMAIN flight' : flight'[j].state = "sent"}
  BY DEF unanswered, at
<1>4. moved \in [DOMAIN queue -> unanswered']
  BY <1>1, <1>2, <1>3
<1>5. \A i \in DOMAIN queue : moved[i] = Moved(k, request[i])
  OBVIOUS
<1> HIDE DEF moved
<1>6. \A i, j \in DOMAIN queue : i < j => moved[i] < moved[j]
  BY <1>1, <1>2, <1>5
<1>7. ASSUME NEW j \in unanswered' PROVE \E i \in DOMAIN queue : moved[i] = j
  <2>1. PICK h \in DOMAIN flight \ {k} : Moved(k, h) = j
    BY <1>1, <1>3
  <2>2. flight[h].state = "sent"
    BY <1>1, <1>3, <2>1
  <2> QED
    BY <1>2, <1>5, <2>1, <2>2
<1>8. Names(moved, queue, unanswered')
  BY <1>4, <1>6, <1>7 DEF Names
<1> QED
  BY <1>1, <1>2, <1>5, <1>8

(* A request that fails, or an answer that does not parse. *)
LEMMA InvFail == ASSUME Inv, NEW k \in DOMAIN flight, Fail(k) PROVE Inv'
<1>1. /\ at(k, "sent") /\ nodes_pending' = Tail(nodes_pending)
      /\ flight' = RemoveAt(flight, k)
      /\ overtaken' = (overtaken \/ \E j \in 1 .. k - 1 : at(j, "sent"))
      /\ nodes_waiting' = nodes_waiting /\ flushing' = flushing
  BY DEF Fail, Answered, pop_front
<1>2. PICK request :
        /\ Names(request, Tail(nodes_pending), unanswered \ {k})
        /\ ~(overtaken \/ \E j \in 1 .. k - 1 : at(j, "sent")) =>
             \A i \in DOMAIN Tail(nodes_pending) :
               Tail(nodes_pending)[i] = flight[request[i]].ids
  BY <1>1, AnswerNames
<1> DEFINE queue == Tail(nodes_pending)
<1> HIDE DEF queue
<1>3. PICK moved : /\ Names(moved, queue, unanswered')
                   /\ \A i \in DOMAIN queue : flight'[moved[i]] = flight[request[i]]
  <2>1. TypeOK /\ Names(request, queue, unanswered \ {k})
    BY <1>2 DEF queue, Inv
  <2> QED
    BY <1>1, <2>1, RemovalNames
<1>4. nodes_pending' = queue
  BY <1>1 DEF queue
<1>5. ~overtaken' => \A i \in DOMAIN nodes_pending' : nodes_pending'[i] = flight'[moved[i]].ids
  BY <1>1, <1>2, <1>3, <1>4 DEF queue
<1>6. ~overtaken' => Apart(nodes_pending', (nodes_waiting \cup flushing)')
  BY <1>1, AnswerNames
<1>7. PendingIsInFlight'
  BY <1>3, <1>4, <1>5, <1>6 DEF PendingIsInFlight, InOrder, Names, Apart
<1>8. TypeOK'
  <2>1. nodes_pending' \in Seq((SUBSET NodeIdentifier) \ {{}})
    BY <1>1, AnswerNames
  <2>2. flight' \in Seq(Request)
    BY <1>1, RemovalMoves DEF Inv
  <2>3. failures' \in 0 .. MaxFailures
    BY BoundsAssumption DEF Inv, TypeOK, Fail
  <2> QED
    BY <2>1, <2>2, <2>3 DEF Inv, TypeOK, Fail, Answered, view, frame, printing, current
<1> QED
  BY <1>7, <1>8 DEF Inv

(* The queue is not concerned by what happens to an answer. *)
LEMMA InvWrite == ASSUME Inv, NEW k \in DOMAIN flight, Write(k) PROVE Inv'
<1>1. /\ at(k, "answered") /\ nodes_pending' = nodes_pending
      /\ flight' = [flight EXCEPT ![k].state = "writing"]
      /\ overtaken' = overtaken /\ nodes_waiting' = nodes_waiting /\ flushing' = flushing
  BY DEF Write
<1>2. flight \in Seq(Request) /\ flight[k] \in Request
  BY DEF Inv, TypeOK
<1>3. /\ flight' \in Seq(Request) /\ DOMAIN flight' = DOMAIN flight
      /\ \A j \in DOMAIN flight : /\ flight'[j].ids = flight[j].ids
                                  /\ j # k => flight'[j] = flight[j]
      /\ flight'[k].state = "writing"
  <2> DEFINE new == [flight[k] EXCEPT !.state = "writing"]
  <2>1. new \in Request /\ new.ids = flight[k].ids /\ new.state = "writing"
    BY <1>2 DEF Request
  <2>2. flight' = [flight EXCEPT ![k] = new]
    BY <1>1
  <2> HIDE DEF new
  <2> QED
    BY <1>2, <2>1, <2>2, ExceptSeq
<1>4. unanswered' = unanswered
  BY <1>1, <1>3 DEF unanswered, at
<1>5. TypeOK'
  BY <1>3 DEF Inv, TypeOK, Write, view, frame, printing, current
<1>6. PICK request : /\ Names(request, nodes_pending, unanswered)
                     /\ ~overtaken => \A i \in DOMAIN nodes_pending :
                                        nodes_pending[i] = flight[request[i]].ids
  BY PendingNamed DEF Inv
<1>7. \A i \in DOMAIN nodes_pending : request[i] \in DOMAIN flight
  BY <1>6 DEF Names, unanswered
<1>8. ~overtaken => Apart(nodes_pending, nodes_waiting \cup flushing)
  BY PendingNamed DEF Inv
<1>9. PendingIsInFlight'
  BY <1>1, <1>3, <1>4, <1>6, <1>7, <1>8, SMTT(30) DEF PendingIsInFlight, InOrder, Names, Apart
<1> QED
  BY <1>5, <1>9 DEF Inv

(* The nodes of an answer are in the store, and the request is over. *)
LEMMA InvExtend == ASSUME Inv, NEW k \in DOMAIN flight, Extend(k) PROVE Inv'
<1>1. /\ at(k, "writing") /\ nodes_pending' = nodes_pending
      /\ flight' = RemoveAt(flight, k)
      /\ overtaken' = overtaken /\ nodes_waiting' = nodes_waiting /\ flushing' = flushing
      /\ node_store' = node_store \cup flight[k].ids
  BY DEF Extend
<1>2. unanswered \ {k} = unanswered
  BY <1>1 DEF unanswered, at
<1>3. PICK request : /\ Names(request, nodes_pending, unanswered)
                     /\ ~overtaken => \A i \in DOMAIN nodes_pending :
                                        nodes_pending[i] = flight[request[i]].ids
  BY PendingNamed DEF Inv
<1>4. PICK moved : /\ Names(moved, nodes_pending, unanswered')
                   /\ \A i \in DOMAIN nodes_pending : flight'[moved[i]] = flight[request[i]]
  <2> DEFINE queue == nodes_pending
  <2>1. Names(request, queue, unanswered \ {k})
    BY <1>2, <1>3
  <2> HIDE DEF queue
  <2>2. \E moved : /\ Names(moved, queue, unanswered')
                   /\ \A i \in DOMAIN queue : flight'[moved[i]] = flight[request[i]]
    BY <1>1, <2>1, RemovalNames DEF Inv
  <2> QED
    BY <2>2 DEF queue
<1>5. ~overtaken => Apart(nodes_pending, nodes_waiting \cup flushing)
  BY PendingNamed DEF Inv
<1>6. PendingIsInFlight'
  BY <1>1, <1>3, <1>4, <1>5 DEF PendingIsInFlight, InOrder, Names, Apart
<1>7. TypeOK'
  <2>1. flight' \in Seq(Request)
    BY <1>1, RemovalMoves DEF Inv
  <2>2. node_store' \subseteq NodeIdentifier
    <3>1. flight[k] \in Request
      BY DEF Inv, TypeOK
    <3> QED
      BY <1>1, <3>1 DEF Inv, TypeOK, Request
  <2> QED
    BY <2>1, <2>2 DEF Inv, TypeOK, Extend, view, frame, current
<1> QED
  BY <1>6, <1>7 DEF Inv

(* Every step keeps the invariant. *)
LEMMA InvStep == Inv /\ [Next]_vars => Inv'
BY InvView, InvDraw, InvPutWaiting, InvPrint, InvLayout, InvTakeWaiting, InvFlush,
   InvAnswer, InvFail, InvWrite, InvExtend DEF Next, GoesOn, Layouts, Requests

(* The invariant holds for good, whatever is fair. *)
LEMMA InvAlways == Spec => []Inv
BY InvInit, InvStep, PTL DEF Spec

(* Every variable has its type: an answer always finds a set to remove. *)
THEOREM TypeCorrect == Spec => []TypeOK
<1>1. Inv => TypeOK
  BY DEF Inv
<1> QED
  BY <1>1, InvAlways, PTL

(***************************************************************************)
(* For any number of nodes and of requests at once: there are as many      *)
(* pending sets as requests without an answer, and they are the same until *)
(* an answer overtakes another.                                            *)
(***************************************************************************)
THEOREM PendingStaysInFlight == Spec => []PendingIsInFlight
<1>1. Inv => PendingIsInFlight
  BY DEF Inv
<1> QED
  BY <1>1, InvAlways, PTL
=============================================================================
