--------------------------- MODULE DocsDb_proofs ---------------------------
(***************************************************************************)
(* Proofs about the list of the shared documents, for any connections, any *)
(* backlog and any number of documents: the types, and that a client       *)
(* misses a document only when one of a lower id was broadcast after it.   *)
(***************************************************************************)
EXTENDS DocsDb, SequenceTheorems, TLAPS

Below(n) == 0 .. n - 1
Messages(n) == [kind : {"Reset"}, all : 0 .. n] \cup [kind : {"Add"}, all : Below(n)]

(* The types of what a connection has, with n documents. *)
TypesOf(c, n) ==
  /\ receiver[c] \in Seq(Below(n))
  /\ creating[c] \in Seq(Below(n))
  /\ wire[c] \in Seq(Messages(n))
  /\ view[c] \in Seq(BOOLEAN)
  /\ Len(view[c]) <= n

(* A connection keeps its types when a document is added. *)
LEMMA TypesGrow ==
  ASSUME TypeOK, NEW c \in Conn
  PROVE  TypesOf(c, docs) /\ TypesOf(c, docs + 1)
<1>1. TypesOf(c, docs)
  BY DEF TypeOK, TypesOf, Ids, Messages, Below
<1>2. docs \in Nat /\ Below(docs) \subseteq Below(docs + 1) /\ Messages(docs) \subseteq Messages(docs + 1)
  BY DbAssumption DEF TypeOK, Messages, Below
<1>3. Len(view[c]) \in Nat
  BY <1>1 DEF TypesOf
<1>4. /\ receiver[c] \in Seq(Below(docs + 1))
      /\ creating[c] \in Seq(Below(docs + 1))
      /\ wire[c] \in Seq(Messages(docs + 1))
  <2>1. /\ receiver[c] \in Seq(Below(docs))
        /\ creating[c] \in Seq(Below(docs))
        /\ wire[c] \in Seq(Messages(docs))
    BY <1>1 DEF TypesOf
  <2>2. receiver[c] \in Seq(Below(docs + 1))
    BY <2>1, <1>2, SeqMonotonic, Zenon
  <2>3. creating[c] \in Seq(Below(docs + 1))
    BY <2>1, <1>2, SeqMonotonic, Zenon
  <2>4. wire[c] \in Seq(Messages(docs + 1))
    BY <2>1, <1>2, SeqMonotonic, Zenon
  <2> QED
    BY <2>2, <2>3, <2>4
<1>5. Len(view[c]) <= docs + 1
  BY <1>1, <1>2, <1>3 DEF TypesOf
<1> QED
  BY <1>1, <1>4, <1>5, Zenon DEF TypesOf

(* A function on 1 .. n is a sequence of length n. *)
LEMMA FunctionIsSeq ==
  ASSUME NEW S, NEW n \in Nat, NEW f \in [1 .. n -> S]
  PROVE  f \in Seq(S) /\ Len(f) = n
OBVIOUS

(* What an Add does to a view. *)
LEMMA AddToView ==
  ASSUME NEW v \in Seq(BOOLEAN), NEW id \in Nat
  PROVE  LET w == [resize(v, id + 1) EXCEPT ![id + 1] = TRUE] IN
         /\ w \in Seq(BOOLEAN)
         /\ Len(w) = id + 1
         /\ w[id + 1] = TRUE
         /\ \A i \in 1 .. id : i \in DOMAIN v => w[i] = v[i]
<1> DEFINE r == resize(v, id + 1)
           w == [r EXCEPT ![id + 1] = TRUE]
<1>1. r = [i \in 1 .. id + 1 |-> i <= Len(v) /\ v[i]]
  BY DEF resize
<1>2. w = [i \in 1 .. id + 1 |-> IF i = id + 1 THEN TRUE ELSE r[i]]
  BY <1>1
<1>3. ASSUME NEW i \in 1 .. id + 1 PROVE r[i] \in BOOLEAN /\ (i \in DOMAIN v => r[i] = v[i])
  <2>1. i \in Nat /\ Len(v) \in Nat /\ DOMAIN v = 1 .. Len(v) /\ v \in [1 .. Len(v) -> BOOLEAN]
    BY LenProperties
  <2>2. r[i] = (i <= Len(v) /\ v[i])
    BY <1>1
  <2>3. CASE i \in DOMAIN v
    <3>1. v[i] \in BOOLEAN /\ i <= Len(v)
      BY <2>1, <2>3
    <3> QED
      BY <2>2, <3>1, Zenon
  <2>4. CASE i \notin DOMAIN v
    <3>1. ~(i <= Len(v))
      BY <2>1, <2>4
    <3> QED
      BY <2>2, <2>4, <3>1, Zenon
  <2> QED
    BY <2>3, <2>4
<1> HIDE DEF r
<1>4. w \in [1 .. id + 1 -> BOOLEAN]
  BY <1>2, <1>3, Zenon
<1>5. id + 1 \in Nat
  OBVIOUS
<1>6. w \in Seq(BOOLEAN) /\ Len(w) = id + 1
  BY <1>4, <1>5, FunctionIsSeq, Zenon
<1>7. w[id + 1] = TRUE
  BY <1>2
<1>8. ASSUME NEW i \in 1 .. id, i \in DOMAIN v PROVE w[i] = v[i]
  <2>1. i \in 1 .. id + 1 /\ i # id + 1
    OBVIOUS
  <2> QED
    BY <2>1, <1>2, <1>3, <1>8, Zenon
<1> QED
  BY <1>6, <1>7, <1>8, Zenon DEF r

(* The variables keep their types. *)
LEMMA TypeInit == Init => TypeOK
<1> SUFFICES ASSUME Init PROVE TypeOK
  OBVIOUS
<1>1. /\ docs \in 0 .. MaxDocs
      /\ announced \in Seq(Ids)
      /\ state \in [Conn -> {"out", "subscribed", "listing", "live", "lagged"}]
  BY DbAssumption DEF Init
<1>2. /\ receiver \in [Conn -> Seq(Ids)]
      /\ creating \in [Conn -> Seq(Ids)]
      /\ wire \in [Conn -> Seq([kind : {"Reset"}, all : 0 .. docs] \cup [kind : {"Add"}, all : Ids])]
      /\ view \in [Conn -> Seq(BOOLEAN)]
      /\ \A c \in Conn : Len(view[c]) <= docs
  BY DbAssumption DEF Init
<1> QED
  BY <1>1, <1>2 DEF TypeOK

(* Every step keeps the types. *)
LEMMA TypeStep == TypeOK /\ [Next]_vars => TypeOK'
<1> SUFFICES ASSUME TypeOK, [Next]_vars PROVE TypeOK'
  OBVIOUS
<1> USE DEF TypeOK
<1>0. /\ docs \in Nat /\ MaxDocs \in Nat
      /\ \A c \in Conn : TypesOf(c, docs) /\ TypesOf(c, docs + 1)
  BY DbAssumption, TypesGrow
<1>1. CASE UNCHANGED vars
  BY <1>1, Zenon DEF vars, Ids
<1> SUFFICES ASSUME NEW c \in Conn,
               \/ Subscribe(c) \/ Snapshot(c) \/ Spawn(c) \/ Create(c)
               \/ Broadcast(c) \/ Forward(c) \/ Update(c)
             PROVE TypeOK'
  BY <1>1 DEF Next
<1> DEFINE M == [kind : {"Reset"}, all : 0 .. docs] \cup [kind : {"Add"}, all : Ids]
<1>2. CASE Subscribe(c)
  BY <1>2 DEF Subscribe, goto, Ids
<1>3. CASE Spawn(c)
  BY <1>3 DEF Spawn, goto, Ids
<1>4. CASE Snapshot(c)
  <2>1. Append(wire[c], Reset(docs)) \in Seq(M)
    <3>1. Reset(docs) \in M
      BY <1>0 DEF Reset
    <3> QED
      BY <3>1, AppendProperties, Zenon
  <2>2. wire' \in [Conn -> Seq(M)]
    BY <1>4, <2>1, Zenon DEF Snapshot
  <2> QED
    BY <1>4, <2>2 DEF Snapshot, goto, Ids
<1>5. CASE Create(c)
  <2>1. docs' = docs + 1 /\ docs' \in 0 .. MaxDocs /\ Ids' = Below(docs + 1)
    BY <1>5, <1>0 DEF Create, Ids, Below
  <2>2. announced' \in Seq(Ids')
    <3>1. Ids \subseteq Ids'
      BY <2>1, <1>0 DEF Ids, Below
    <3> QED
      BY <3>1, <1>5, SeqMonotonic, Zenon DEF Create
  <2>3. creating' \in [Conn -> Seq(Ids')]
    <3>1. <<new_id>> \in Seq(Ids')
      BY <2>1, <1>0 DEF new_id, Below
    <3>2. \A d \in Conn : creating[d] \in Seq(Ids')
      BY <1>0, <2>1, Zenon DEF TypesOf
    <3> QED
      BY <3>1, <3>2, <1>5, Zenon DEF Create
  <2>4. /\ receiver' \in [Conn -> Seq(Ids')]
        /\ wire' \in [Conn -> Seq([kind : {"Reset"}, all : 0 .. docs'] \cup [kind : {"Add"}, all : Ids'])]
    <3>1. \A d \in Conn : receiver[d] \in Seq(Ids')
      BY <1>0, <2>1, Zenon DEF TypesOf
    <3>2. \A d \in Conn : wire[d] \in Seq([kind : {"Reset"}, all : 0 .. docs'] \cup [kind : {"Add"}, all : Ids'])
      BY <1>0, <2>1, Zenon DEF TypesOf, Messages
    <3> QED
      BY <3>1, <3>2, <1>5, Zenon DEF Create
  <2>5. view' \in [Conn -> Seq(BOOLEAN)] /\ \A d \in Conn : Len(view'[d]) <= docs'
    BY <1>0, <1>5, <2>1, Zenon DEF Create, TypesOf
  <2>6. state' = state
    BY <1>5 DEF Create
  <2> QED
    BY <2>1, <2>2, <2>3, <2>4, <2>5, <2>6, Zenon
<1>6. CASE Broadcast(c)
  <2>1. announced' \in Seq(Ids)
    BY <1>6, ConcatProperties DEF Broadcast
  <2>2. receiver' \in [Conn -> Seq(Ids)]
    BY <1>6, ConcatProperties DEF Broadcast
  <2>3. creating' \in [Conn -> Seq(Ids)]
    BY <1>6, EmptySeq DEF Broadcast
  <2> QED
    BY <1>6, <2>1, <2>2, <2>3, Zenon DEF Broadcast, Ids
<1>7. CASE Forward(c)
  <2>0. receiver[c] # <<>> /\ Head(receiver[c]) \in Ids /\ Tail(receiver[c]) \in Seq(Ids)
    BY <1>7, HeadTailProperties DEF Forward
  <2>1. Append(wire[c], Add(Head(receiver[c]))) \in Seq(M)
    <3>1. Add(Head(receiver[c])) \in M
      BY <2>0 DEF Add
    <3> QED
      BY <3>1, AppendProperties, Zenon
  <2>2. wire' \in [Conn -> Seq(M)]
    BY <1>7, <2>1, Zenon DEF Forward
  <2>3. receiver' \in [Conn -> Seq(Ids)]
    BY <1>7, <2>0, EmptySeq, Zenon DEF Forward
  <2>4. state' \in [Conn -> {"out", "subscribed", "listing", "live", "lagged"}]
    BY <1>7 DEF Forward, goto
  <2> QED
    BY <1>7, <2>2, <2>3, <2>4, Zenon DEF Forward, Ids
<1>8. CASE Update(c)
  <2> DEFINE m == Head(wire[c])
             v == IF m.kind = "Reset" THEN [i \in 1 .. m.all |-> TRUE]
                  ELSE [resize(view[c], m.all + 1) EXCEPT ![m.all + 1] = TRUE]
  <2>1. m \in M /\ Tail(wire[c]) \in Seq(M)
    <3>1. wire[c] \in Seq(M) /\ wire[c] # <<>>
      BY <1>8 DEF Update
    <3> HIDE DEF M
    <3> QED
      BY <3>1, HeadTailProperties, Zenon
  <2>2. v \in Seq(BOOLEAN) /\ Len(v) <= docs
    <3>1. CASE m.kind = "Reset"
      <4>1. m.all \in Nat /\ m.all <= docs
        BY <2>1, <3>1, <1>0 DEF Ids
      <4>2. v = [i \in 1 .. m.all |-> TRUE]
        BY <3>1
      <4> HIDE DEF v, m, M
      <4>3. v \in [1 .. m.all -> BOOLEAN]
        BY <4>2
      <4>4. v \in Seq(BOOLEAN) /\ Len(v) = m.all
        BY <4>1, <4>3, FunctionIsSeq
      <4> QED
        BY <4>1, <4>4
    <3>2. CASE m.kind # "Reset"
      <4>1. m.all \in Nat /\ m.all + 1 <= docs
        BY <2>1, <3>2, <1>0 DEF Ids
      <4>2. v \in Seq(BOOLEAN) /\ Len(v) = m.all + 1
        BY <3>2, <4>1, AddToView, Zenon
      <4> QED
        BY <4>1, <4>2
    <3> QED
      BY <3>1, <3>2
  <2>3. view' = [view EXCEPT ![c] = v]
    BY <1>8, Zenon DEF Update
  <2> HIDE DEF v, m
  <2>4. view' \in [Conn -> Seq(BOOLEAN)] /\ \A d \in Conn : Len(view'[d]) <= docs
    BY <2>2, <2>3, Zenon
  <2>5. wire' \in [Conn -> Seq(M)]
    BY <1>8, <2>1, Zenon DEF Update
  <2> QED
    BY <1>8, <2>4, <2>5, Zenon DEF Update, Ids
<1> QED
  BY <1>2, <1>3, <1>4, <1>5, <1>6, <1>7, <1>8

(* The types hold in every behaviour. *)
THEOREM TypeCorrect == Spec => []TypeOK
<1> QED
  BY TypeInit, TypeStep, PTL DEF Spec
-----------------------------------------------------------------------------
(***************************************************************************)
(* The invariant.  What a connection has still to tell its client is a     *)
(* Reset, if it is on the wire, and the last of the broadcast ids; done    *)
(* counts the others.  Each of those is listed, or in that Reset, or has a *)
(* lower one broadcast after it.  A client lists nothing before its Reset, *)
(* which therefore loses nothing.                                          *)
(***************************************************************************)
has_reset(c) == wire[c] # <<>> /\ wire[c][1].kind = "Reset"
adds_from(c) == IF has_reset(c) THEN 1 ELSE 0
done(c) == Len(announced) - Len(receiver[c]) - (Len(wire[c]) - adds_from(c))

(* No document is broadcast twice, each is broadcast or about to be. *)
IdsOnce ==
  /\ \A i, j \in DOMAIN announced : announced[i] = announced[j] => i = j
  /\ \A c \in Conn : Len(creating[c]) <= 1
  /\ \A c, d \in Conn : creating[c] # <<>> /\ creating[d] # <<>> /\ creating[c][1] = creating[d][1] => c = d
  /\ \A c \in Conn : creating[c] # <<>> => \A i \in DOMAIN announced : announced[i] # creating[c][1]
  /\ \A id \in Ids :
       \/ \E i \in DOMAIN announced : announced[i] = id
       \/ \E c \in Conn : creating[c] # <<>> /\ creating[c][1] = id

(* The queues of a connection end the sequence of the broadcast ids. *)
Queues(c) ==
  /\ done(c) >= 0
  /\ \A i \in 1 .. Len(wire[c]) : i > adds_from(c) =>
       wire[c][i].kind = "Add" /\ wire[c][i].all = announced[done(c) + (i - adds_from(c))]
  /\ \A i \in 1 .. Len(receiver[c]) :
       receiver[c][i] = announced[Len(announced) - Len(receiver[c]) + i]

overtaken(i) == \E k \in i + 1 .. Len(announced) : announced[k] < announced[i]
Told(c) ==
  \A i \in 1 .. done(c) :
    \/ lists(c, announced[i])
    \/ has_reset(c) /\ announced[i] < wire[c][1].all
    \/ overtaken(i)

Following(c) ==
  /\ state[c] = "out" => receiver[c] = <<>>
  /\ state[c] \in {"out", "subscribed"} => wire[c] = <<>>
  /\ state[c] \in {"out", "subscribed"} \/ (has_reset(c) /\ state[c] # "lagged") => view[c] = <<>>
  /\ state[c] # "lagged" /\ state[c] # "out" => Queues(c)
  /\ state[c] \in {"listing", "live"} => Told(c)

IndInv == TypeOK /\ IdsOnce /\ \A c \in Conn : Following(c)

(* What a connection of its types looks like, in arithmetic. *)
LEMMA Lengths ==
  ASSUME TypeOK, NEW c \in Conn
  PROVE  /\ Len(announced) \in Nat /\ DOMAIN announced = 1 .. Len(announced)
         /\ \A i \in 1 .. Len(announced) : announced[i] \in Ids /\ announced[i] \in Nat
         /\ Len(receiver[c]) \in Nat /\ Len(wire[c]) \in Nat /\ Len(view[c]) \in Nat
         /\ DOMAIN view[c] = 1 .. Len(view[c])
         /\ wire[c] # <<>> => Len(wire[c]) > 0
         /\ wire[c] = <<>> <=> Len(wire[c]) = 0
         /\ adds_from(c) \in {0, 1} /\ adds_from(c) <= Len(wire[c])
         /\ done(c) \in Int
<1>1. /\ Len(announced) \in Nat /\ DOMAIN announced = 1 .. Len(announced)
      /\ \A i \in 1 .. Len(announced) : announced[i] \in Ids /\ announced[i] \in Nat
  BY DEF TypeOK, Ids
<1>2. Len(receiver[c]) \in Nat /\ Len(view[c]) \in Nat /\ DOMAIN view[c] = 1 .. Len(view[c])
  BY LenProperties DEF TypeOK
<1>3. wire[c] \in Seq([kind : {"Reset"}, all : 0 .. docs] \cup [kind : {"Add"}, all : Ids])
  BY DEF TypeOK
<1>4. /\ Len(wire[c]) \in Nat
      /\ wire[c] # <<>> => Len(wire[c]) > 0
      /\ wire[c] = <<>> <=> Len(wire[c]) = 0
  BY <1>3, EmptySeq
<1>5. adds_from(c) \in {0, 1} /\ adds_from(c) <= Len(wire[c])
  BY <1>4 DEF adds_from, has_reset
<1> QED
  BY <1>1, <1>2, <1>4, <1>5 DEF done

(* The invariant implies the property. *)
LEMMA IndInvImplies == IndInv => MissesOnlyOvertaken
<1> SUFFICES ASSUME IndInv, NEW c \in Conn, at_rest(c), NEW id \in Ids, ~lists(c, id)
             PROVE  \E low \in 0 .. id - 1 : position(low) > position(id)
  BY DEF MissesOnlyOvertaken
<1>0. TypeOK /\ IdsOnce /\ Following(c)
  BY DEF IndInv
<1>1. done(c) = Len(announced) /\ ~has_reset(c) /\ Told(c)
  BY <1>0, Lengths DEF Following, at_rest, done, adds_from, has_reset
<1>2. PICK i \in DOMAIN announced : announced[i] = id
  BY <1>0 DEF at_rest, IdsOnce
<1>3. overtaken(i)
  BY <1>0, <1>1, <1>2, Lengths DEF Told
<1>4. PICK k \in i + 1 .. Len(announced) : announced[k] < announced[i]
  BY <1>3 DEF overtaken
<1>5. k \in DOMAIN announced /\ k > i /\ announced[k] \in 0 .. id - 1
  BY <1>0, <1>2, <1>4, Lengths DEF Ids
<1>6. \A j \in DOMAIN announced : position(announced[j]) = j
  BY <1>0 DEF IdsOnce, position
<1> QED
  BY <1>2, <1>5, <1>6

(* The invariant holds at the start. *)
LEMMA IndInit == Init => IndInv
<1> SUFFICES ASSUME Init PROVE IndInv
  OBVIOUS
<1>1. TypeOK
  BY TypeInit
<1>2. IdsOnce
  BY DEF Init, IdsOnce, Ids
<1>3. ASSUME NEW c \in Conn PROVE Following(c)
  BY DEF Init, Following
<1> QED
  BY <1>1, <1>2, <1>3 DEF IndInv

(* What a broadcast appends is one new id. *)
LEMMA OneMore ==
  ASSUME TypeOK, IdsOnce, NEW c \in Conn, Broadcast(c)
  PROVE  /\ creating[c] # <<>> /\ creating[c][1] \in Ids
         /\ Len(announced') = Len(announced) + 1
         /\ announced'[Len(announced) + 1] = creating[c][1]
         /\ \A i \in 1 .. Len(announced) : announced'[i] = announced[i]
         /\ \A d \in Conn : receiving(d) =>
              /\ Len(receiver'[d]) = Len(receiver[d]) + 1
              /\ receiver'[d][Len(receiver[d]) + 1] = creating[c][1]
              /\ \A i \in 1 .. Len(receiver[d]) : receiver'[d][i] = receiver[d][i]
<1>1. /\ creating[c] \in Seq(Ids) /\ creating[c] # <<>> /\ Len(creating[c]) = 1
      /\ creating[c][1] \in Ids
  <2>1. creating[c] \in Seq(Ids) /\ creating[c] # <<>> /\ Len(creating[c]) <= 1
    BY DEF TypeOK, IdsOnce, Broadcast
  <2>2. Len(creating[c]) \in Nat \ {0}
    BY <2>1, EmptySeq, Zenon
  <2>3. Len(creating[c]) = 1
    <3>1. Len(creating[c]) <= 1
      BY DEF IdsOnce
    <3> DEFINE n == Len(creating[c])
    <3>2. n <= 1 /\ n \in Nat \ {0}
      BY <3>1, <2>2
    <3> HIDE DEF n
    <3>3. n = 1
      BY <3>2
    <3> QED
      BY <3>3 DEF n
  <2>4. creating[c][1] \in Ids
    BY <2>1, <2>3, LenProperties
  <2> QED
    BY <2>1, <2>3, <2>4
<1>2. ASSUME NEW q \in Seq(Ids)
      PROVE  /\ Len(q \o creating[c]) = Len(q) + 1
             /\ (q \o creating[c])[Len(q) + 1] = creating[c][1]
             /\ \A i \in 1 .. Len(q) : (q \o creating[c])[i] = q[i]
  <2>1. /\ Len(q \o creating[c]) = Len(q) + Len(creating[c])
        /\ \A i \in 1 .. Len(q) + Len(creating[c]) :
             (q \o creating[c])[i] = IF i <= Len(q) THEN q[i] ELSE creating[c][i - Len(q)]
    BY <1>1, ConcatProperties, Zenon
  <2>2. Len(q) \in Nat
    BY LenProperties
  <2> QED
    BY <1>1, <2>1, <2>2
<1>3. announced' = announced \o creating[c]
  BY DEF Broadcast
<1>4. \A d \in Conn : receiving(d) => receiver'[d] = receiver[d] \o creating[c]
  BY DEF Broadcast
<1>5. announced \in Seq(Ids) /\ \A d \in Conn : receiver[d] \in Seq(Ids)
  BY DEF TypeOK
<1>6. /\ Len(announced') = Len(announced) + 1
      /\ announced'[Len(announced) + 1] = creating[c][1]
      /\ \A i \in 1 .. Len(announced) : announced'[i] = announced[i]
  BY <1>2, <1>3, <1>5, Zenon
<1>7. ASSUME NEW d \in Conn, receiving(d)
      PROVE  /\ Len(receiver'[d]) = Len(receiver[d]) + 1
             /\ receiver'[d][Len(receiver[d]) + 1] = creating[c][1]
             /\ \A i \in 1 .. Len(receiver[d]) : receiver'[d][i] = receiver[d][i]
  <2>1. receiver'[d] = receiver[d] \o creating[c] /\ receiver[d] \in Seq(Ids)
    BY <1>4, <1>5, <1>7
  <2> QED
    BY <1>2, <2>1, Zenon
<1> QED
  BY <1>1, <1>6, <1>7, Zenon

(* A step keeps the ids apart: a document is broadcast once, by its creator. *)
LEMMA IdsOnceStep ==
  ASSUME TypeOK, IdsOnce, [Next]_vars
  PROVE  IdsOnce'
<1>0. /\ Len(announced) \in Nat /\ DOMAIN announced = 1 .. Len(announced)
      /\ \A i \in 1 .. Len(announced) : announced[i] \in Ids
  BY DEF TypeOK
<1>1. CASE UNCHANGED <<docs, announced, creating>>
  BY <1>1 DEF IdsOnce, Ids
<1>2. ASSUME NEW c \in Conn, Create(c) PROVE IdsOnce'
  <2>1. /\ docs \in Nat /\ docs' = docs + 1 /\ announced' = announced
        /\ creating[c] = <<>> /\ creating' = [creating EXCEPT ![c] = <<docs>>]
    BY <1>2, DbAssumption DEF TypeOK, Create, new_id
  <2>2. /\ creating'[c] = <<docs>> /\ creating'[c] # <<>> /\ Len(creating'[c]) = 1
        /\ creating'[c][1] = docs
        /\ \A d \in Conn \ {c} : creating'[d] = creating[d]
    BY <2>1 DEF TypeOK
  <2>3. \A d \in Conn : creating[d] # <<>> => creating[d][1] \in Ids
    BY EmptySeq DEF TypeOK
  <2>4. docs \notin Ids /\ Ids' = Ids \cup {docs}
    BY <2>1 DEF Ids
  <2>5. \A i, j \in DOMAIN announced' : announced'[i] = announced'[j] => i = j
    BY <2>1 DEF IdsOnce
  <2>6. \A d \in Conn : Len(creating'[d]) <= 1
    <3>1. Len(creating'[c]) <= 1
      BY <2>2
    <3> QED
      BY <2>2, <3>1, Zenon DEF IdsOnce
  <2>7. \A d, e \in Conn : creating'[d] # <<>> /\ creating'[e] # <<>>
                             /\ creating'[d][1] = creating'[e][1] => d = e
    BY <2>2, <2>3, <2>4 DEF IdsOnce
  <2>8. \A d \in Conn : creating'[d] # <<>> =>
          \A i \in DOMAIN announced' : announced'[i] # creating'[d][1]
    BY <1>0, <2>1, <2>2, <2>4 DEF IdsOnce
  <2>9. ASSUME NEW id \in Ids'
        PROVE  \/ \E i \in DOMAIN announced' : announced'[i] = id
               \/ \E d \in Conn : creating'[d] # <<>> /\ creating'[d][1] = id
    <3>1. CASE id = docs
      BY <2>2, <3>1
    <3>2. CASE id \in Ids
      BY <2>1, <2>2, <3>2 DEF IdsOnce
    <3> QED
      BY <2>4, <3>1, <3>2
  <2> QED
    BY <2>5, <2>6, <2>7, <2>8, <2>9 DEF IdsOnce
<1>3. ASSUME NEW c \in Conn, Broadcast(c) PROVE IdsOnce'
  <2>1. /\ creating[c] # <<>>
        /\ Len(announced') = Len(announced) + 1
        /\ announced'[Len(announced) + 1] = creating[c][1]
        /\ \A i \in 1 .. Len(announced) : announced'[i] = announced[i]
    BY <1>3, OneMore
  <2>2. /\ Ids' = Ids /\ creating'[c] = <<>> /\ Len(creating'[c]) = 0
        /\ \A d \in Conn \ {c} : creating'[d] = creating[d]
    BY <1>3 DEF Broadcast, TypeOK, Ids
  <2>3. DOMAIN announced' = 1 .. Len(announced) + 1
    <3>1. announced' \in Seq(Ids)
      BY <1>3, ConcatProperties DEF Broadcast, TypeOK
    <3> QED
      BY <2>1, <3>1
  <2>4. \A i, j \in DOMAIN announced' : announced'[i] = announced'[j] => i = j
    BY <1>0, <2>1, <2>3 DEF IdsOnce
  <2>5. \A d \in Conn : Len(creating'[d]) <= 1
    BY <2>2 DEF IdsOnce
  <2>6. \A d, e \in Conn : creating'[d] # <<>> /\ creating'[e] # <<>>
                             /\ creating'[d][1] = creating'[e][1] => d = e
    BY <2>2 DEF IdsOnce
  <2>7. \A d \in Conn : creating'[d] # <<>> =>
          \A i \in DOMAIN announced' : announced'[i] # creating'[d][1]
    BY <1>0, <2>1, <2>2, <2>3 DEF IdsOnce
  <2>8. ASSUME NEW id \in Ids'
        PROVE  \/ \E i \in DOMAIN announced' : announced'[i] = id
               \/ \E d \in Conn : creating'[d] # <<>> /\ creating'[d][1] = id
    <3>1. CASE \E i \in DOMAIN announced : announced[i] = id
      BY <1>0, <2>1, <2>3, <3>1
    <3>2. CASE id = creating[c][1]
      BY <1>0, <2>1, <2>3, <3>2
    <3>3. CASE \E d \in Conn \ {c} : creating[d] # <<>> /\ creating[d][1] = id
      BY <2>2, <3>3
    <3> QED
      BY <2>2, <3>1, <3>2, <3>3 DEF IdsOnce
  <2> QED
    BY <2>4, <2>5, <2>6, <2>7, <2>8 DEF IdsOnce
<1>4. ASSUME NEW c \in Conn, Subscribe(c) \/ Snapshot(c) \/ Spawn(c) \/ Forward(c) \/ Update(c)
      PROVE  IdsOnce'
  BY <1>1, <1>4 DEF Subscribe, Snapshot, Spawn, Forward, Update
<1> QED
  BY <1>1, <1>2, <1>3, <1>4 DEF Next, vars

(* A connection that a step does not concern is as it was. *)
LEMMA FollowingKept ==
  ASSUME NEW d \in Conn, Following(d), announced' = announced, state'[d] = state[d],
         receiver'[d] = receiver[d], wire'[d] = wire[d], view'[d] = view[d]
  PROVE  Following(d)'
<1>1. has_reset(d)' = has_reset(d) /\ adds_from(d)' = adds_from(d) /\ done(d)' = done(d)
  BY DEF has_reset, adds_from, done
<1>2. Queues(d) => Queues(d)'
  BY <1>1 DEF Queues
<1>3. Told(d) => Told(d)'
  BY <1>1 DEF Told, lists, overtaken
<1> QED
  BY <1>1, <1>2, <1>3 DEF Following

(* What is broadcast joins the ids that a connection has to pass on. *)
LEMMA FollowingBroadcast ==
  ASSUME TypeOK, TypeOK', IdsOnce, NEW c \in Conn, Broadcast(c), NEW d \in Conn, Following(d)
  PROVE  Following(d)'
<1>1. /\ Len(announced) \in Nat /\ Len(announced') = Len(announced) + 1
      /\ announced'[Len(announced) + 1] = creating[c][1]
      /\ \A i \in 1 .. Len(announced) : announced'[i] = announced[i]
  BY OneMore, Lengths, Zenon
<1>2. state' = state /\ wire' = wire /\ view' = view
  BY DEF Broadcast
<1>3. CASE ~receiving(d)
  <2>1. receiver'[d] = receiver[d] /\ state[d] \in {"out", "lagged"}
    BY <1>3 DEF Broadcast, TypeOK, receiving
  <2> QED
    BY <2>1, <1>2 DEF Following, has_reset
<1>4. CASE receiving(d)
  <2> DEFINE n == Len(announced)
             m == Len(receiver[d])
             l == Len(wire[d])
             a == adds_from(d)
  <2>1. /\ Len(receiver'[d]) = m + 1
        /\ receiver'[d][m + 1] = creating[c][1]
        /\ \A i \in 1 .. m : receiver'[d][i] = receiver[d][i]
    BY <1>4, OneMore
  <2>2. n \in Nat /\ m \in Nat /\ l \in Nat /\ a \in {0, 1} /\ a <= l
    BY Lengths
  <2>3. has_reset(d)' = has_reset(d) /\ adds_from(d)' = a /\ done(d) = n - m - (l - a)
    BY <1>2 DEF has_reset, adds_from, done
  <2>12. /\ Len(announced') = n + 1 /\ announced'[n + 1] = creating[c][1]
         /\ \A i \in 1 .. n : announced'[i] = announced[i]
         /\ Len(wire'[d]) = l /\ Len(wire[d]) = l /\ Len(receiver[d]) = m
         /\ Len(announced) = n /\ adds_from(d) = a
    BY <1>1, <1>2
  <2>4. done(d)' = (n + 1) - (m + 1) - (l - a)
    BY <1>1, <1>2, <2>1, <2>3 DEF done
  <2> HIDE DEF n, m, l, a
  <2>5. done(d)' = done(d) /\ done(d) \in Int
    BY <2>2, <2>3, <2>4
  <2>6. Queues(d)
    BY <1>4 DEF Following, receiving
  <2>7. done(d) >= 0 /\ done(d) + (l - a) <= n /\ m <= n /\ done(d) <= n
    BY <2>2, <2>3, <2>6, <2>12 DEF Queues
  <2>8. ASSUME NEW i \in 1 .. Len(wire'[d]), i > adds_from(d)'
        PROVE  /\ wire'[d][i].kind = "Add"
               /\ wire'[d][i].all = announced'[done(d)' + (i - adds_from(d)')]
    <3>1. i \in 1 .. l /\ i > a
      BY <2>3, <2>8, <2>12
    <3>2. done(d) + (i - a) \in 1 .. n
      BY <3>1, <2>2, <2>5, <2>7
    <3> QED
      BY <1>2, <2>3, <2>5, <2>6, <2>12, <3>1, <3>2 DEF Queues
  <2>9. ASSUME NEW i \in 1 .. Len(receiver'[d])
        PROVE  receiver'[d][i] = announced'[Len(announced') - Len(receiver'[d]) + i]
    <3>1. Len(announced') - Len(receiver'[d]) + i = n - m + i
      BY <2>1, <2>2, <2>12
    <3>2. CASE i = m + 1
      BY <2>1, <2>2, <2>12, <3>1, <3>2
    <3>3. CASE i \in 1 .. m
      <4>1. n - m + i \in 1 .. n
        BY <3>3, <2>2, <2>7
      <4> QED
        BY <2>1, <2>6, <2>12, <3>1, <3>3, <4>1 DEF Queues
    <3> QED
      BY <2>1, <2>2, <3>2, <3>3
  <2>10. Queues(d)'
    BY <2>5, <2>7, <2>8, <2>9 DEF Queues
  <2>11. ASSUME Told(d) PROVE Told(d)'
    <3> SUFFICES ASSUME NEW i \in 1 .. done(d)'
                 PROVE  \/ lists(d, announced[i])'
                        \/ (has_reset(d) /\ announced[i] < wire[d][1].all)'
                        \/ overtaken(i)'
      BY DEF Told
    <3>1. i \in 1 .. done(d) /\ i \in 1 .. n /\ announced'[i] = announced[i]
      BY <2>2, <2>5, <2>7, <2>12
    <3>2. overtaken(i) => overtaken(i)'
      <4> SUFFICES ASSUME NEW k \in i + 1 .. n, announced[k] < announced[i]
                   PROVE  overtaken(i)'
        BY <2>12 DEF overtaken
      <4>1. k \in 1 .. n /\ k \in i + 1 .. Len(announced')
        BY <2>2, <2>12, <3>1
      <4> QED
        BY <2>12, <3>1, <4>1 DEF overtaken
    <3>3. lists(d, announced[i]) => lists(d, announced[i])'
      BY <1>2, <3>1 DEF lists
    <3> QED
      BY <1>2, <2>3, <2>11, <3>1, <3>2, <3>3 DEF Told
  <2> QED
    BY <1>2, <1>4, <2>3, <2>10, <2>11 DEF Following, receiving
<1> QED
  BY <1>3, <1>4

(* The first of the ids to pass on becomes the last message on the wire. *)
LEMMA FollowingForward ==
  ASSUME TypeOK, TypeOK', NEW c \in Conn, Forward(c), Following(c)
  PROVE  Following(c)'
<1>1. CASE state'[c] = "lagged"
  BY <1>1 DEF Following
<1>2. CASE state'[c] # "lagged"
  <2> DEFINE n == Len(announced)
             m == Len(receiver[c])
             l == Len(wire[c])
             a == adds_from(c)
             e == Add(Head(receiver[c]))
  <2>1. /\ announced' = announced /\ view' = view /\ state'[c] = "live" /\ state[c] = "live"
        /\ receiver[c] # <<>> /\ receiver'[c] = Tail(receiver[c])
        /\ wire'[c] = Append(wire[c], e)
    BY <1>2 DEF Forward, goto, TypeOK
  <2>2. n \in Nat /\ m \in Nat /\ l \in Nat /\ a \in {0, 1} /\ a <= l
    BY Lengths
  <2>3. /\ Len(receiver'[c]) = m - 1 /\ m > 0 /\ Head(receiver[c]) = receiver[c][1]
        /\ \A i \in 1 .. m - 1 : receiver'[c][i] = receiver[c][i + 1]
    <3>1. receiver[c] \in Seq(Ids) /\ receiver[c] # <<>>
      BY <2>1 DEF TypeOK
    <3>2. m > 0 /\ Head(receiver[c]) = receiver[c][1]
      BY <3>1
    <3>3. /\ Len(Tail(receiver[c])) = m - 1
          /\ \A i \in 1 .. Len(Tail(receiver[c])) : Tail(receiver[c])[i] = receiver[c][i + 1]
      BY <3>1, HeadTailProperties, Zenon
    <3> QED
      BY <2>1, <3>2, <3>3
  <2>4. /\ Len(wire'[c]) = l + 1 /\ wire'[c][l + 1] = e
        /\ \A i \in 1 .. l : wire'[c][i] = wire[c][i]
    <3> DEFINE S == [kind : {"Reset"}, all : 0 .. docs] \cup [kind : {"Add"}, all : Ids]
    <3>1. Head(receiver[c]) \in Ids
      BY <2>1, HeadTailProperties DEF TypeOK
    <3>2. e \in S
      BY <3>1 DEF Add
    <3>3. wire[c] \in Seq(S)
      BY DEF TypeOK
    <3> HIDE DEF S, e
    <3> DEFINE q == wire[c]
    <3>4. /\ q \in Seq(S)
          /\ Len(Append(q, e)) = Len(q) + 1 /\ Append(q, e)[Len(q) + 1] = e
          /\ \A i \in 1 .. Len(q) : Append(q, e)[i] = q[i]
      <4>1. q \in Seq(S)
        BY <3>3
      <4> HIDE DEF q
      <4> QED
        BY <3>2, <4>1, AppendProperties, SMTT(20)
    <3> QED
      BY <2>1, <3>4, Zenon
  <2>5. e.kind = "Add" /\ e.all = receiver[c][1]
    BY <2>3 DEF Add
  <2>6. (wire[c] = <<>> <=> l = 0) /\ wire'[c] # <<>>
    BY <2>2, <2>4, Lengths, EmptySeq
  <2>7. has_reset(c)' = has_reset(c) /\ adds_from(c)' = a /\ (has_reset(c) => wire'[c][1] = wire[c][1])
    <3>1. CASE l = 0
      BY <2>4, <2>5, <2>6, <3>1 DEF has_reset, adds_from
    <3>2. CASE l > 0
      <4>1. wire'[c][1] = wire[c][1]
        BY <2>2, <2>4, <3>2
      <4> QED
        BY <2>6, <3>2, <4>1 DEF has_reset, adds_from
    <3> QED
      BY <2>2, <3>1, <3>2
  <2>8. done(c) = n - m - (l - a) /\ adds_from(c) = a /\ Len(wire[c]) = l /\ Len(receiver[c]) = m /\ Len(announced) = n
    BY DEF done
  <2>9. done(c)' = n - (m - 1) - ((l + 1) - a)
    BY <2>1, <2>3, <2>4, <2>7 DEF done
  <2>10. Queues(c) /\ Told(c)
    BY <2>1 DEF Following
  <2> HIDE DEF n, m, l, a, e
  <2>11. done(c)' = done(c) /\ done(c) >= 0 /\ done(c) \in Int
    BY <2>2, <2>8, <2>9, <2>10 DEF Queues
  <2>12. ASSUME NEW i \in 1 .. Len(wire'[c]), i > adds_from(c)'
         PROVE  /\ wire'[c][i].kind = "Add"
                /\ wire'[c][i].all = announced'[done(c)' + (i - adds_from(c)')]
    <3>1. CASE i = l + 1
      <4>1. done(c)' + (i - a) = n - m + 1
        BY <2>2, <2>8, <2>11, <3>1
      <4>2. receiver[c][1] = announced[n - m + 1]
        BY <2>2, <2>3, <2>8, <2>10 DEF Queues
      <4> QED
        BY <2>1, <2>4, <2>5, <2>7, <3>1, <4>1, <4>2
    <3>2. CASE i \in 1 .. l
      BY <2>1, <2>4, <2>7, <2>8, <2>10, <2>11, <2>12, <3>2 DEF Queues
    <3> QED
      BY <2>2, <2>4, <3>1, <3>2
  <2>13. ASSUME NEW i \in 1 .. Len(receiver'[c])
         PROVE  receiver'[c][i] = announced'[Len(announced') - Len(receiver'[c]) + i]
    <3>1. i \in 1 .. m - 1 /\ i + 1 \in 1 .. m
      BY <2>2, <2>3
    <3>2. receiver[c][i + 1] = announced[n - m + (i + 1)]
      BY <2>8, <2>10, <3>1 DEF Queues
    <3>3. Len(announced') - Len(receiver'[c]) + i = n - m + (i + 1)
      <4>1. Len(announced') = n /\ Len(receiver'[c]) = m - 1
        BY <2>1, <2>3, <2>8
      <4>2. i \in Int
        BY <3>1
      <4> QED
        BY <2>2, <4>1, <4>2
    <3> QED
      BY <2>1, <2>3, <3>1, <3>2, <3>3
  <2>14. Queues(c)'
    BY <2>11, <2>12, <2>13 DEF Queues
  <2>15. Told(c)'
    BY <2>1, <2>7, <2>10, <2>11 DEF Told, lists, overtaken
  <2> QED
    BY <2>1, <2>7, <2>14, <2>15 DEF Following
<1> QED
  BY <1>1, <1>2

(* The client takes a message: what an Add cuts from its list has a higher  *)
(* id, and that Add was broadcast after it or is still to come.            *)
LEMMA FollowingUpdate ==
  ASSUME TypeOK, TypeOK', NEW c \in Conn, Update(c), Following(c)
  PROVE  Following(c)'
<1> DEFINE S == [kind : {"Reset"}, all : 0 .. docs] \cup [kind : {"Add"}, all : Ids]
           n == Len(announced)
           m == Len(receiver[c])
           l == Len(wire[c])
           a == adds_from(c)
           e == wire[c][1]
           v == IF e.kind = "Reset" THEN [i \in 1 .. e.all |-> TRUE]
                ELSE [resize(view[c], e.all + 1) EXCEPT ![e.all + 1] = TRUE]
<1>1. wire[c] \in Seq(S) /\ wire[c] # <<>> /\ wire'[c] = Tail(wire[c])
  BY DEF Update, TypeOK
<1>2. e \in S /\ Head(wire[c]) = e
  BY <1>1
<1>3. /\ Len(wire'[c]) = l - 1
      /\ \A i \in 1 .. l - 1 : wire'[c][i] = wire[c][i + 1]
  <2>1. /\ Len(Tail(wire[c])) = l - 1
        /\ \A i \in 1 .. Len(Tail(wire[c])) : Tail(wire[c])[i] = wire[c][i + 1]
    <3> HIDE DEF S
    <3> QED
      BY <1>1, HeadTailProperties, Zenon
  <2> QED
    BY <1>1, <2>1
<1>4. /\ announced' = announced /\ state' = state /\ receiver' = receiver
      /\ view'[c] = v
  BY <1>2 DEF Update, TypeOK
<1>5. n \in Nat /\ m \in Nat /\ l \in Nat /\ l > 0 /\ a \in {0, 1} /\ a <= l
  BY <1>1, Lengths
<1>6. /\ done(c) = n - m - (l - a) /\ adds_from(c) = a /\ Len(wire[c]) = l
      /\ Len(receiver[c]) = m /\ Len(announced) = n /\ wire[c][1] = e
  BY DEF done
<1>7. a = IF e.kind = "Reset" THEN 1 ELSE 0
  BY <1>1 DEF adds_from, has_reset
<1>8. /\ e.kind = "Reset" => e.all \in Nat
      /\ e.kind # "Reset" => e.kind = "Add" /\ e.all \in Ids /\ e.all \in Nat
  BY <1>2 DEF Ids
<1>9. CASE state[c] = "lagged"
  BY <1>4, <1>9 DEF Following
<1>10. CASE state[c] # "lagged"
  <2>1. Queues(c) /\ Told(c) /\ state[c] \in {"listing", "live"}
    BY <1>1, <1>10 DEF Following, TypeOK
  <2>2. wire'[c] # <<>> => Len(wire'[c]) > 0
    <3>1. wire'[c] \in Seq(S)
      BY <1>1, HeadTailProperties
    <3> QED
      BY <3>1, EmptySeq
  <2>3. ~has_reset(c)'
    <3> SUFFICES ASSUME wire'[c] # <<>> PROVE wire'[c][1].kind = "Add"
      BY DEF has_reset
    <3> HIDE DEF S, n, m, l, a, e, v
    <3>1. 2 \in 1 .. l /\ 2 > a /\ wire'[c][1] = wire[c][2]
      BY <1>3, <1>5, <2>2
    <3> QED
      BY <1>6, <2>1, <3>1 DEF Queues
  <2>4. adds_from(c)' = 0 /\ done(c)' = n - m - (l - 1)
    BY <1>3, <1>4, <2>3 DEF adds_from, done
  <2>5. v \in Seq(BOOLEAN) /\ DOMAIN v = 1 .. Len(v)
    <3>1. view'[c] \in Seq(BOOLEAN)
      BY DEF TypeOK
    <3> HIDE DEF v
    <3> QED
      BY <1>4, <3>1, LenProperties
  <2>6. CASE e.kind = "Reset"
    <3>1. v = [i \in 1 .. e.all |-> TRUE]
      BY <2>6
    <3> HIDE DEF S, n, m, l, a, e, v
    <3>2. done(c)' = done(c) /\ a = 1 /\ done(c) \in Int /\ done(c) >= 0 /\ done(c) <= n
      BY <1>5, <1>6, <1>7, <2>1, <2>4, <2>6 DEF Queues
    <3>3. Queues(c)'
      <4>1. ASSUME NEW i \in 1 .. Len(wire'[c]), i > adds_from(c)'
            PROVE  wire'[c][i].kind = "Add" /\ wire'[c][i].all = announced'[done(c)' + (i - adds_from(c)')]
        <5>1. i + 1 \in 1 .. l /\ i + 1 > a /\ wire'[c][i] = wire[c][i + 1]
          BY <1>3, <1>5, <3>2
        <5>2. (i + 1) - a = i - adds_from(c)'
          BY <2>4, <3>2
        <5> QED
          BY <1>4, <1>6, <2>1, <3>2, <5>1, <5>2 DEF Queues
      <4>2. \A i \in 1 .. Len(receiver'[c]) :
              receiver'[c][i] = announced'[Len(announced') - Len(receiver'[c]) + i]
        BY <1>4, <2>1 DEF Queues
      <4> QED
        BY <3>2, <4>1, <4>2 DEF Queues
    <3>4. ASSUME NEW i \in 1 .. done(c)
          PROVE  lists(c, announced[i])' \/ overtaken(i)'
      <4>1. announced[i] \in Nat
        BY <1>6, <3>2, Lengths
      <4>2. overtaken(i) => overtaken(i)'
        BY <1>4 DEF overtaken
      <4>3. ~lists(c, announced[i])
        BY <1>1, <1>6, <1>10, <2>6 DEF Following, has_reset, lists
      <4>4. CASE announced[i] < e.all
        <5>1. announced[i] + 1 \in 1 .. e.all
          BY <1>8, <2>6, <4>1, <4>4
        <5> QED
          BY <1>4, <3>1, <5>1 DEF lists
      <4> QED
        BY <1>6, <2>1, <4>2, <4>3, <4>4 DEF Told
    <3> QED
      BY <1>4, <2>1, <2>3, <3>2, <3>3, <3>4 DEF Following, Told
  <2>7. CASE e.kind # "Reset"
    <3>1. /\ v \in Seq(BOOLEAN) /\ Len(v) = e.all + 1 /\ v[e.all + 1] = TRUE
          /\ \A i \in 1 .. e.all : i \in DOMAIN view[c] => v[i] = view[c][i]
      <4>1. view[c] \in Seq(BOOLEAN) /\ e.all \in Nat
        BY <1>8, <2>7 DEF TypeOK
      <4>2. v = [resize(view[c], e.all + 1) EXCEPT ![e.all + 1] = TRUE]
        BY <2>7
      <4> HIDE DEF v
      <4> QED
        BY <4>1, <4>2, AddToView, ZenonT(40)
    <3> DEFINE p == done(c)
    <3> HIDE DEF S, n, m, l, a, e, v
    <3>2. /\ a = 0 /\ done(c)' = p + 1 /\ p \in Int /\ p >= 0 /\ p + 1 <= n
          /\ p = n - m - (l - a)
      BY <1>5, <1>6, <1>7, <2>1, <2>4, <2>7 DEF Queues
    <3>3. e.all = announced[p + 1] /\ e.all \in Nat
      <4>1. 1 \in 1 .. l /\ 1 > a /\ p + (1 - a) = p + 1
        BY <1>5, <3>2
      <4> QED
        BY <1>6, <1>8, <2>1, <2>7, <4>1 DEF Queues
    <3>4. Queues(c)'
      <4>1. ASSUME NEW i \in 1 .. Len(wire'[c]), i > adds_from(c)'
            PROVE  wire'[c][i].kind = "Add" /\ wire'[c][i].all = announced'[done(c)' + (i - adds_from(c)')]
        <5>1. i + 1 \in 1 .. l /\ i + 1 > a /\ wire'[c][i] = wire[c][i + 1]
          BY <1>3, <1>5, <3>2, SMTT(30)
        <5>2. p + ((i + 1) - a) = done(c)' + (i - adds_from(c)')
          BY <2>4, <3>2, <5>1
        <5> QED
          BY <1>4, <1>6, <2>1, <5>1, <5>2 DEF Queues
      <4>2. \A i \in 1 .. Len(receiver'[c]) :
              receiver'[c][i] = announced'[Len(announced') - Len(receiver'[c]) + i]
        BY <1>4, <2>1 DEF Queues
      <4>3. done(c)' >= 0
        BY <3>2
      <4> QED
        BY <4>1, <4>2, <4>3 DEF Queues
    <3>5. ASSUME NEW i \in 1 .. p + 1
          PROVE  lists(c, announced[i])' \/ overtaken(i)'
      <4>1. announced[i] \in Nat /\ i \in 1 .. n
        BY <1>6, <3>2, Lengths
      <4>2. overtaken(i) => overtaken(i)'
        BY <1>4 DEF overtaken
      <4>3. CASE i = p + 1
        <5>1. e.all + 1 \in 1 .. Len(v)
          BY <3>1, <3>3
        <5> QED
          BY <1>4, <2>5, <3>1, <3>3, <4>3, <5>1 DEF lists
      <4>4. CASE i \in 1 .. p /\ announced[i] > e.all
        <5>1. p + 1 \in i + 1 .. n
          BY <3>2, <4>4
        <5> QED
          BY <1>4, <1>6, <3>3, <4>4, <5>1 DEF overtaken
      <4>5. CASE i \in 1 .. p /\ announced[i] <= e.all
        <5>1. lists(c, announced[i]) \/ overtaken(i)
          BY <1>1, <1>6, <2>1, <2>7, <4>5 DEF Told, has_reset
        <5>2. CASE announced[i] = e.all
          <6>1. e.all + 1 \in 1 .. Len(v)
            BY <3>1, <3>3
          <6> QED
            BY <1>4, <2>5, <3>1, <5>2, <6>1 DEF lists
        <5>3. CASE announced[i] < e.all /\ lists(c, announced[i])
          <6> DEFINE q == announced[i]
          <6>1. q \in Nat /\ q < e.all /\ lists(c, q)
            BY <4>1, <5>3
          <6>2. lists(c, q)' <=> q + 1 \in DOMAIN view'[c] /\ view'[c][q + 1]
            BY <1>4 DEF lists
          <6> HIDE DEF q
          <6>3. q + 1 \in 1 .. e.all /\ q + 1 \in 1 .. Len(v)
            BY <3>1, <3>3, <6>1
          <6>4. q + 1 \in DOMAIN view[c] /\ view[c][q + 1]
            BY <6>1 DEF lists
          <6>5. v[q + 1]
            BY <3>1, <6>3, <6>4, Zenon
          <6>6. lists(c, q)'
            BY <1>4, <2>5, <6>2, <6>3, <6>5, Zenon
          <6> QED
            BY <6>6 DEF q
        <5> QED
          BY <3>3, <4>1, <4>2, <4>5, <5>1, <5>2, <5>3
      <4> QED
        BY <3>2, <3>3, <4>1, <4>3, <4>4, <4>5
    <3>6. Told(c)'
      <4>1. announced' = announced /\ done(c)' = p + 1
        BY <1>4, <3>2
      <4> QED
        BY <3>5, <4>1 DEF Told
    <3> QED
      BY <1>4, <2>1, <2>3, <3>4, <3>6 DEF Following
  <2> QED
    BY <2>6, <2>7
<1> QED
  BY <1>9, <1>10

(* The snapshot holds every document broadcast so far, whatever else it holds. *)
LEMMA FollowingSnapshot ==
  ASSUME TypeOK, NEW c \in Conn, Snapshot(c), Following(c)
  PROVE  Following(c)'
<1>1. /\ announced' = announced /\ receiver' = receiver /\ view' = view /\ docs' = docs
      /\ state[c] = "subscribed" /\ state'[c] = "listing" /\ wire[c] = <<>> /\ view[c] = <<>>
      /\ wire'[c] = <<Reset(docs)>>
  BY DEF Snapshot, goto, TypeOK, Following
<1>2. has_reset(c)' /\ adds_from(c)' = 1 /\ ~has_reset(c) /\ adds_from(c) = 0 /\ wire'[c][1].all = docs
      /\ Len(wire'[c]) = 1 /\ Len(wire[c]) = 0
  BY <1>1 DEF has_reset, adds_from, Reset
<1>3. /\ done(c)' = done(c) /\ done(c) >= 0 /\ Queues(c) /\ done(c) \in Int
      /\ done(c) <= Len(announced)
  <2>1. done(c) = Len(announced) - Len(receiver[c]) /\ done(c)' = Len(announced) - Len(receiver[c])
    <3>1. /\ Len(announced) \in Nat /\ Len(receiver[c]) \in Nat /\ Len(announced') = Len(announced)
          /\ Len(receiver'[c]) = Len(receiver[c])
      BY <1>1, Lengths
    <3> QED
      BY <1>2, <3>1 DEF done
  <2>2. Queues(c)
    BY <1>1 DEF Following
  <2>3. done(c) >= 0
    BY <2>2 DEF Queues
  <2>4. Len(announced) \in Nat /\ Len(receiver[c]) \in Nat
    BY Lengths
  <2> QED
    BY <2>1, <2>2, <2>3, <2>4
<1>4. Queues(c)'
  <2>1. \A i \in 1 .. Len(wire'[c]) : ~(i > adds_from(c)')
    BY <1>2
  <2>2. \A i \in 1 .. Len(receiver'[c]) :
          receiver'[c][i] = announced'[Len(announced') - Len(receiver'[c]) + i]
    BY <1>1, <1>3 DEF Queues
  <2> QED
    BY <1>3, <2>1, <2>2 DEF Queues
<1>5. Told(c)'
  <2> SUFFICES ASSUME NEW i \in 1 .. done(c) PROVE announced[i] < docs
    BY <1>1, <1>2, <1>3 DEF Told
  <2>1. announced[i] \in Ids
    BY <1>3, Lengths
  <2> QED
    BY <2>1 DEF Ids, TypeOK
<1> QED
  BY <1>1, <1>4, <1>5 DEF Following

(* The invariant is inductive. *)
LEMMA IndStep == IndInv /\ [Next]_vars => IndInv'
<1> SUFFICES ASSUME IndInv, [Next]_vars PROVE IndInv'
  OBVIOUS
<1>0. TypeOK /\ TypeOK' /\ IdsOnce /\ IdsOnce' /\ \A c \in Conn : Following(c)
  BY TypeStep, IdsOnceStep DEF IndInv
<1> SUFFICES ASSUME NEW d \in Conn PROVE Following(d)'
  BY <1>0 DEF IndInv
<1>1. CASE UNCHANGED vars
  BY <1>0, <1>1, FollowingKept DEF vars
<1>2. ASSUME NEW c \in Conn, Broadcast(c) PROVE Following(d)'
  BY <1>0, <1>2, FollowingBroadcast
<1>3. ASSUME NEW c \in Conn, Create(c) PROVE Following(d)'
  BY <1>0, <1>3, FollowingKept DEF Create
<1>4. ASSUME NEW c \in Conn, Subscribe(c) \/ Snapshot(c) \/ Spawn(c) \/ Forward(c) \/ Update(c), c # d
      PROVE  Following(d)'
  <2>1. /\ announced' = announced /\ state'[d] = state[d]
        /\ receiver'[d] = receiver[d] /\ wire'[d] = wire[d] /\ view'[d] = view[d]
    <3>1. /\ announced' = announced
          /\ DOMAIN state = Conn /\ DOMAIN receiver = Conn /\ DOMAIN wire = Conn /\ DOMAIN view = Conn
      <4>1. announced' = announced
        BY <1>4 DEF Subscribe, Snapshot, Spawn, Forward, Update
      <4> QED
        BY <1>0, <4>1 DEF TypeOK
    <3>2. state'[d] = state[d]
      BY <1>4, <3>1 DEF Subscribe, Snapshot, Spawn, Forward, Update, goto
    <3>3. receiver'[d] = receiver[d]
      BY <1>4, <3>1 DEF Subscribe, Snapshot, Spawn, Forward, Update
    <3>4. wire'[d] = wire[d]
      BY <1>4, <3>1 DEF Subscribe, Snapshot, Spawn, Forward, Update
    <3>5. view'[d] = view[d]
      <4>1. CASE Update(c)
        BY <1>4, <3>1, <4>1, Zenon DEF Update
      <4> QED
        BY <1>4, <4>1 DEF Subscribe, Snapshot, Spawn, Forward
    <3> QED
      BY <3>1, <3>2, <3>3, <3>4, <3>5
  <2> QED
    BY <1>0, <2>1, FollowingKept
<1>5. ASSUME Subscribe(d) PROVE Following(d)'
  <2>1. /\ announced' = announced /\ state[d] = "out" /\ state'[d] = "subscribed"
        /\ receiver' = receiver /\ wire' = wire /\ view' = view
        /\ receiver[d] = <<>> /\ wire[d] = <<>> /\ view[d] = <<>>
    BY <1>0, <1>5 DEF Subscribe, goto, TypeOK, Following
  <2>2. done(d)' = Len(announced) /\ ~has_reset(d)'
    BY <1>0, <2>1, Lengths DEF done, has_reset, adds_from
  <2>3. Queues(d)'
    BY <1>0, <2>1, <2>2, Lengths DEF Queues
  <2> QED
    BY <2>1, <2>3 DEF Following
<1>6. ASSUME Snapshot(d) PROVE Following(d)'
  BY <1>0, <1>6, FollowingSnapshot
<1>7. ASSUME Spawn(d) PROVE Following(d)'
  <2>1. /\ announced' = announced /\ state[d] = "listing" /\ state'[d] = "live"
        /\ receiver' = receiver /\ wire' = wire /\ view' = view
    BY <1>0, <1>7 DEF Spawn, goto, TypeOK
  <2>2. has_reset(d)' = has_reset(d) /\ adds_from(d)' = adds_from(d) /\ done(d)' = done(d)
    BY <2>1 DEF has_reset, adds_from, done
  <2>3. Queues(d)' /\ Told(d)'
    BY <1>0, <2>1, <2>2 DEF Following, Queues, Told, lists, overtaken
  <2> QED
    BY <1>0, <2>1, <2>2, <2>3 DEF Following
<1>8. ASSUME Forward(d) PROVE Following(d)'
  BY <1>0, <1>8, FollowingForward
<1>9. ASSUME Update(d) PROVE Following(d)'
  BY <1>0, <1>9, FollowingUpdate
<1> QED
  BY <1>1, <1>2, <1>3, <1>4, <1>5, <1>6, <1>7, <1>8, <1>9 DEF Next

(* A client that has received all there is misses a document only when one *)
(* of a lower id was broadcast after it.                                   *)
THEOREM NothingFallsBetween == Spec => []MissesOnlyOvertaken
<1> QED
  BY IndInit, IndStep, IndInvImplies, PTL DEF Spec
=============================================================================
