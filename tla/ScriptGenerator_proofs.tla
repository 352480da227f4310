----------------------- MODULE ScriptGenerator_proofs -----------------------
(***************************************************************************)
(* The script generator, for all pairs of versions and all the stores that *)
(* the matchers may leave (Matched).  First what the operators on lists,   *)
(* trees and copies return; then the inductive invariant Inv; one lemma or *)
(* more per action; the theorems that follow from it; and last what the    *)
(* copy is at the end.                                                     *)
(***************************************************************************)
EXTENDS ScriptGenerator, PostOrderTree_proofs, SequenceTheorems, FiniteSetTheorems, TLAPS

(* q has the elements of S, each once, and in the order before *)
Sorted(q, S, before) ==
  /\ q \in [1 .. Cardinality(S) -> S]
  /\ \A i, j \in 1 .. Cardinality(S) : i < j <=> <<q[i], q[j]>> \in before
  /\ \A i, j \in 1 .. Cardinality(S) : q[i] = q[j] => i = j
  /\ \A x \in S : \E i \in 1 .. Cardinality(S) : q[i] = x

(* Every finite set with an order can be sorted: the place of an element   *)
(* is the number of those before it.                                       *)
LEMMA SortedIsSorted ==
  ASSUME NEW S, IsFiniteSet(S), NEW before, Order(S, before)
  PROVE  Sorted(sorted(S, before), S, before)
<1> DEFINE n == Cardinality(S)
           place == [x \in S |-> Cardinality({y \in S : <<y, x>> \in before}) + 1]
<1>1. n \in Nat
  BY FS_CardinalityType
<1>0. place = [x \in S |-> Cardinality({y \in S : <<y, x>> \in before}) + 1]
  OBVIOUS
<1> HIDE DEF place
<1>2. /\ place \in [S -> 1 .. n]
      /\ \A x, y \in S : <<x, y>> \in before => place[x] < place[y]
      /\ \A i \in 1 .. n : \E x \in S : place[x] = i
  <2>1. /\ place \in [S -> 1 .. Cardinality(S)]
        /\ \A x, y \in S : <<x, y>> \in before => place[x] < place[y]
        /\ \A x, y \in S : place[x] = place[y] => x = y
        /\ \A i \in 1 .. Cardinality(S) : \E x \in S : place[x] = i
    BY <1>0, Placed
  <2> QED
    BY <2>1
<1>5. \A x, y \in S : <<x, y>> \in before => place[x] < place[y]
  BY <1>2
<1>9. IsFiniteSet(1 .. n) /\ Cardinality(1 .. n) = n
  BY <1>1, FS_Interval
<1>11. \A i \in 1 .. n : \E x \in S : place[x] = i
  BY <1>2
<1> HIDE DEF place, n
<1> DEFINE good(q) == \A i, j \in DOMAIN q : i < j => <<q[i], q[j]>> \in before
           f == [i \in 1 .. n |-> CHOOSE x \in S : place[x] = i]
<1>12. \A i \in 1 .. n : f[i] \in S /\ place[f[i]] = i
  BY <1>11
<1>13. f \in [1 .. n -> S] /\ DOMAIN f = 1 .. n
  BY <1>12
<1> HIDE DEF f
<1>14. good(f)
  <2> SUFFICES ASSUME NEW i \in 1 .. n, NEW j \in 1 .. n, i < j
               PROVE  <<f[i], f[j]>> \in before
    BY <1>13
  <2>1. f[i] # f[j] /\ ~(place[f[j]] < place[f[i]])
    BY <1>1, <1>12
  <2> QED
    BY <2>1, <1>5, <1>12 DEF Order
<1> DEFINE q == CHOOSE q \in [1 .. n -> S] : good(q)
<1>15. q \in [1 .. n -> S] /\ good(q)
  <2>1. \E g \in [1 .. n -> S] : good(g)
    BY <1>13, <1>14
  <2> QED
    BY <2>1
<1>16. q = sorted(S, before)
  BY DEF sorted, n
<1> HIDE DEF q
<1>17. DOMAIN q = 1 .. n /\ \A i \in 1 .. n : q[i] \in S
  BY <1>15
<1>18. \A i, j \in 1 .. n : i < j => <<q[i], q[j]>> \in before
  BY <1>15, <1>17
<1>19. \A i, j \in 1 .. n : i # j => i < j \/ j < i
  BY <1>1
<1>20. \A i, j \in 1 .. n : q[i] = q[j] => i = j
  BY <1>17, <1>18, <1>19 DEF Order
<1>21. \A i, j \in 1 .. n : <<q[i], q[j]>> \in before => i < j
  <2> SUFFICES ASSUME NEW i \in 1 .. n, NEW j \in 1 .. n, <<q[i], q[j]>> \in before, ~(i < j)
               PROVE  FALSE
    OBVIOUS
  <2>1. i = j \/ j < i
    BY <1>1
  <2> QED
    BY <2>1, <1>17, <1>18 DEF Order
<1>22. q \in Surjection(1 .. n, S)
  <2>1. q \in Injection(1 .. n, S)
    BY <1>15, <1>17, <1>20 DEF Injection, IsInjective
  <2> QED
    BY <2>1, <1>9, FS_Injection DEF n
<1>23. \A x \in S : \E i \in 1 .. n : q[i] = x
  BY <1>22 DEF Surjection
<1> QED
  BY <1>15, <1>16, <1>18, <1>20, <1>21, <1>23 DEF Sorted, n

(* The nodes of a tree are a finite set of numbers, and so is any part of  *)
(* them; so are the places of a sequence.                                  *)
LEMMA NumbersOrdered ==
  ASSUME NEW n \in Nat, NEW S, S \subseteq 0 .. n
  PROVE  /\ IsFiniteSet(S)
         /\ Order(S, {p \in S \X S : p[1] < p[2]})
<1>1. IsFiniteSet(0 .. n)
  BY FS_Interval
<1>2. IsFiniteSet(S)
  BY <1>1, FS_Subset
<1> DEFINE before == {p \in S \X S : p[1] < p[2]}
<1>3. \A x, y \in S : <<x, y>> \in before <=> x < y
  OBVIOUS
<1>4. \A x \in S : x \in Int
  OBVIOUS
<1> HIDE DEF before
<1>5. Order(S, before)
  <2>1. \A x \in S : <<x, x>> \notin before
    BY <1>3, <1>4
  <2>2. \A x, y \in S : x # y => <<x, y>> \in before \/ <<y, x>> \in before
    BY <1>3, <1>4
  <2>3. \A x, y, z \in S : <<x, y>> \in before /\ <<y, z>> \in before => <<x, z>> \in before
    BY <1>3, <1>4
  <2> QED
    BY <2>1, <2>2, <2>3 DEF Order
<1> QED
  BY <1>2, <1>5 DEF before

(* a sequence of the elements of S, each once *)
Listed(q, S) ==
  /\ q \in Seq(S) /\ ToSet(q) = S
  /\ \A i, j \in 1 .. Len(q) : q[i] = q[j] => i = j

(* What is sorted is a list of the elements, in the given order. *)
LEMMA SortedListed ==
  ASSUME NEW S, IsFiniteSet(S), NEW before, NEW q, Sorted(q, S, before)
  PROVE  /\ Listed(q, S) /\ Len(q) = Cardinality(S)
         /\ \A i, j \in 1 .. Len(q) : i < j <=> <<q[i], q[j]>> \in before
<1>1. Cardinality(S) \in Nat
  BY FS_CardinalityType
<1>2. q \in Seq(S) /\ Len(q) = Cardinality(S) /\ DOMAIN q = 1 .. Len(q)
  BY <1>1 DEF Sorted
<1> QED
  BY <1>2 DEF Sorted, Listed, ToSet

(* A set of numbers in increasing order. *)
LEMMA Increasing ==
  ASSUME NEW n \in Nat, NEW S, S \subseteq 0 .. n
  PROVE  /\ Listed(increasing(S), S) /\ Len(increasing(S)) = Cardinality(S)
         /\ \A i, j \in 1 .. Len(increasing(S)) : i < j <=> increasing(S)[i] < increasing(S)[j]
<1> DEFINE before == {p \in S \X S : p[1] < p[2]}
           q == increasing(S)
<1>1. IsFiniteSet(S) /\ Order(S, before)
  BY NumbersOrdered
<1>2. q = sorted(S, before)
  BY DEF increasing
<1>3. \A x, y \in S : <<x, y>> \in before <=> x < y
  OBVIOUS
<1> HIDE DEF before, q
<1>4. /\ Listed(q, S) /\ Len(q) = Cardinality(S)
      /\ \A i, j \in 1 .. Len(q) : i < j <=> <<q[i], q[j]>> \in before
  BY <1>1, <1>2, SortedIsSorted, SortedListed
<1>5. \A i \in 1 .. Len(q) : q[i] \in S
  BY <1>4 DEF Listed
<1>6. \A i, j \in 1 .. Len(q) : i < j <=> q[i] < q[j]
  BY <1>3, <1>4, <1>5
<1> QED
  BY <1>4, <1>6 DEF q

(* only keeps, in their order, the elements of seq that are in S *)
LEMMA OnlyKeeps ==
  ASSUME NEW T, NEW seq \in Seq(T), NEW S
  PROVE  /\ only(seq, S) \in Seq(S \cap ToSet(seq))
         /\ ToSet(only(seq, S)) = S \cap ToSet(seq)
         /\ IsInjective(seq) => IsInjective(only(seq, S))
<1> DEFINE at == {i \in DOMAIN seq : seq[i] \in S}
           places == increasing(at)
           r == only(seq, S)
<1>1. Len(seq) \in Nat /\ DOMAIN seq = 1 .. Len(seq)
  OBVIOUS
<1>2. at \subseteq 0 .. Len(seq)
  BY <1>1
<1>3. r = [i \in DOMAIN places |-> seq[places[i]]]
  BY DEF only
<1>4. \A i \in at : i \in DOMAIN seq /\ seq[i] \in S
  OBVIOUS
<1>5. \A i \in DOMAIN seq : seq[i] \in S => i \in at
  OBVIOUS
<1> HIDE DEF at
<1>6. Listed(places, at)
  BY <1>1, <1>2, Increasing
<1> HIDE DEF places
<1>7. DOMAIN places = 1 .. Len(places) /\ Len(places) \in Nat
  BY <1>6 DEF Listed
<1>8. \A i \in 1 .. Len(places) : places[i] \in at
  BY <1>6 DEF Listed
<1>9. \A k \in at : \E i \in 1 .. Len(places) : places[i] = k
  BY <1>6, <1>7 DEF Listed, ToSet
<1> HIDE DEF r
<1>10. DOMAIN r = 1 .. Len(places) /\ \A i \in 1 .. Len(places) : r[i] = seq[places[i]]
  BY <1>3, <1>7
<1>11. \A i \in 1 .. Len(places) : r[i] \in S \cap ToSet(seq)
  BY <1>4, <1>8, <1>10 DEF ToSet
<1>12. r \in Seq(S \cap ToSet(seq))
  <2>1. r = [i \in 1 .. Len(places) |-> r[i]]
    BY <1>3, <1>7, <1>10
  <2>2. r \in [1 .. Len(places) -> S \cap ToSet(seq)]
    BY <1>11, <2>1
  <2> QED
    BY <1>7, <2>2
<1>13. ToSet(r) = S \cap ToSet(seq)
  <2>1. ToSet(r) \subseteq S \cap ToSet(seq)
    BY <1>10, <1>11 DEF ToSet
  <2>2. ASSUME NEW e \in S \cap ToSet(seq) PROVE e \in ToSet(r)
    <3>1. PICK k \in DOMAIN seq : seq[k] = e
      BY DEF ToSet
    <3>2. PICK i \in 1 .. Len(places) : places[i] = k
      BY <1>5, <1>9, <3>1
    <3> QED
      BY <1>10, <3>1, <3>2 DEF ToSet
  <2> QED
    BY <2>1, <2>2
<1>14. ASSUME IsInjective(seq) PROVE IsInjective(r)
  <2> SUFFICES ASSUME NEW i \in 1 .. Len(places), NEW j \in 1 .. Len(places), r[i] = r[j]
               PROVE  i = j
    BY <1>10 DEF IsInjective
  <2>1. places[i] = places[j]
    BY <1>4, <1>8, <1>10, <1>14 DEF IsInjective
  <2> QED
    BY <1>6, <2>1 DEF Listed
<1> QED
  BY <1>12, <1>13, <1>14 DEF r

(* The children of a node, as the copy begins with them. *)
LEMMA ChildSeqListed ==
  ASSUME NEW t, IsTree(t), NEW x \in nodes(t)
  PROVE  Listed(ChildSeq(t, x), children(t, x))
<1>1. children(t, x) \subseteq 0 .. root(t) /\ root(t) \in Nat
  <2>1. \A c \in children(t, x) : c \in nodes(t)
    BY ChildSubtree
  <2>2. root(t) \in nodes(t) /\ root(t) \in Nat
    BY RootIsNode, NodeTypes
  <2> QED
    BY <2>1, <2>2 DEF nodes
<1> QED
  BY <1>1, Increasing DEF ChildSeq

(* A node is deeper than its parent, and the root is not deep at all. *)
LEMMA Depths ==
  ASSUME NEW t, IsTree(t)
  PROVE  /\ \A x \in nodes(t) : depth(t, x) \in Nat
         /\ \A x \in nodes(t) \ {root(t)} :
              depth(t, parent(t, x)) < depth(t, x) /\ depth(t, root(t)) < depth(t, x)
<1>1. root(t) \in nodes(t) /\ root(t) \in Nat /\ nodes(t) = 0 .. root(t)
  BY RootIsNode, NodeTypes DEF nodes
<1>2. ASSUME NEW x \in nodes(t)
      PROVE  IsFiniteSet(Ancestors(t, x)) /\ depth(t, x) \in Nat
  <2>1. IsFiniteSet(nodes(t))
    BY <1>1, FS_Interval
  <2>2. Ancestors(t, x) \subseteq nodes(t)
    BY DEF Ancestors
  <2>3. IsFiniteSet(Ancestors(t, x))
    BY <2>1, <2>2, FS_Subset
  <2> QED
    BY <2>3, FS_CardinalityType DEF depth
<1>3. depth(t, root(t)) = 0
  <2>1. Ancestors(t, root(t)) = {}
    BY <1>1, ParentFacts DEF Ancestors
  <2> QED
    BY <2>1, FS_EmptySet DEF depth
<1>4. ASSUME NEW x \in nodes(t) \ {root(t)}
      PROVE  depth(t, parent(t, x)) < depth(t, x)
  <2> DEFINE p == parent(t, x)
  <2>1. /\ p \in nodes(t) /\ is_descendant(t, x, p)
        /\ \A y \in nodes(t) : is_descendant(t, p, y) => is_descendant(t, x, y)
    BY ParentFacts
  <2>2. ~is_descendant(t, p, p)
    BY <2>1, NodeTypes DEF is_descendant
  <2>3. Ancestors(t, p) \in SUBSET Ancestors(t, x) /\ Ancestors(t, p) # Ancestors(t, x)
    BY <2>1, <2>2 DEF Ancestors
  <2>4. /\ Cardinality(Ancestors(t, p)) <= Cardinality(Ancestors(t, x))
        /\ Cardinality(Ancestors(t, x)) = Cardinality(Ancestors(t, p)) => Ancestors(t, x) = Ancestors(t, p)
    BY <1>2, <2>3, FS_Subset
  <2>5. depth(t, p) \in Nat /\ depth(t, x) \in Nat
    BY <1>2, <2>1
  <2> QED
    BY <2>3, <2>4, <2>5 DEF depth
<1>5. ASSUME NEW x \in nodes(t) \ {root(t)}
      PROVE  depth(t, root(t)) < depth(t, x)
  <2>1. depth(t, parent(t, x)) \in Nat /\ depth(t, x) \in Nat
    BY <1>2, ParentFacts
  <2> QED
    BY <1>3, <1>4, <2>1
<1> QED
  BY <1>2, <1>4, <1>5

(* no node comes after a node that it is the parent of *)
ParentsFirst(t, q) == \A i, j \in 1 .. Len(q) : i <= j => q[j] # parent(t, q[i])

(* The nodes in breadth-first order: the root, then none before its parent. *)
LEMMA BreadthFirst ==
  ASSUME NEW t, IsTree(t)
  PROVE  /\ Listed(iter_bf(t), nodes(t)) /\ iter_bf(t) # <<>>
         /\ Head(iter_bf(t)) = root(t)
         /\ ParentsFirst(t, iter_bf(t))
<1> DEFINE q == iter_bf(t)
<1>1. root(t) \in nodes(t) /\ root(t) \in Nat /\ nodes(t) = 0 .. root(t)
  BY RootIsNode, NodeTypes DEF nodes
<1>2. IsFiniteSet(nodes(t)) /\ \A x \in nodes(t) : x \in Int /\ depth(t, x) \in Int
  BY <1>1, FS_Interval, Depths
<1>3. \A x, y \in nodes(t) : <<x, y>> \in shallower(t) <=>
        depth(t, x) < depth(t, y) \/ (depth(t, x) = depth(t, y) /\ x < y)
  BY DEF shallower
<1>4. Order(nodes(t), shallower(t))
  <2>1. \A x \in nodes(t) : <<x, x>> \notin shallower(t)
    BY <1>2, <1>3
  <2>2. \A x, y \in nodes(t) : x # y => <<x, y>> \in shallower(t) \/ <<y, x>> \in shallower(t)
    BY <1>2, <1>3
  <2>3. \A x, y, z \in nodes(t) :
           <<x, y>> \in shallower(t) /\ <<y, z>> \in shallower(t) => <<x, z>> \in shallower(t)
    BY <1>2, <1>3
  <2> QED
    BY <2>1, <2>2, <2>3 DEF Order
<1>5. /\ Listed(q, nodes(t))
      /\ \A i, j \in 1 .. Len(q) : i < j <=> <<q[i], q[j]>> \in shallower(t)
  <2>1. Sorted(q, nodes(t), shallower(t))
    BY <1>2, <1>4, SortedIsSorted DEF iter_bf
  <2> HIDE DEF q
  <2> QED
    BY <1>2, <2>1, SortedListed
<1> HIDE DEF q
<1>6. /\ q \in Seq(nodes(t)) /\ Len(q) \in Nat /\ DOMAIN q = 1 .. Len(q)
      /\ \A i \in 1 .. Len(q) : q[i] \in nodes(t)
  BY <1>5 DEF Listed
<1>7. PICK k \in 1 .. Len(q) : q[k] = root(t)
  BY <1>1, <1>5, <1>6 DEF Listed, ToSet
<1>8. \A x \in nodes(t) : <<x, root(t)>> \notin shallower(t)
  <2> SUFFICES ASSUME NEW x \in nodes(t), <<x, root(t)>> \in shallower(t) PROVE FALSE
    OBVIOUS
  <2>1. x # root(t)
    BY <1>1, <1>4 DEF Order
  <2>2. depth(t, root(t)) < depth(t, x)
    BY <2>1, Depths
  <2> QED
    BY <1>1, <1>2, <1>3, <2>2
<1>9. k = 1
  <2>1. 1 \in 1 .. Len(q) /\ k \in Int /\ 1 <= k
    BY <1>6, <1>7
  <2>2. 1 < k => <<q[1], q[k]>> \in shallower(t)
    BY <1>5, <1>7, <2>1
  <2>3. ~(1 < k)
    BY <1>6, <1>7, <1>8, <2>1, <2>2
  <2> QED
    BY <2>1, <2>3
<1>10. q # <<>> /\ Head(q) = root(t)
  BY <1>6, <1>7, <1>9
<1>11. ParentsFirst(t, q)
  <2> SUFFICES ASSUME NEW i \in 1 .. Len(q), NEW j \in 1 .. Len(q), i <= j,
                      q[j] = parent(t, q[i])
               PROVE  FALSE
    BY DEF ParentsFirst
  <2>1. q[i] \in nodes(t) /\ q[j] \in nodes(t)
    BY <1>6
  <2>2. q[i] # root(t)
    BY <2>1, ParentFacts
  <2>3. depth(t, q[j]) < depth(t, q[i])
    BY <2>1, <2>2, Depths
  <2>4. <<q[j], q[i]>> \in shallower(t)
    BY <1>3, <2>1, <2>3
  <2> QED
    BY <1>5, <2>4
<1> QED
  BY <1>5, <1>10, <1>11 DEF q

(* Two sequences, one after the other. *)
LEMMA Joined ==
  ASSUME NEW S, NEW a \in Seq(S), NEW b \in Seq(S)
  PROVE  /\ a \o b \in Seq(S) /\ Len(a \o b) = Len(a) + Len(b)
         /\ Len(a) \in Nat /\ Len(b) \in Nat /\ DOMAIN (a \o b) = 1 .. Len(a) + Len(b)
         /\ \A i \in 1 .. Len(a) + Len(b) :
              (a \o b)[i] = IF i <= Len(a) THEN a[i] ELSE b[i - Len(a)]
<1>1. a \o b \in Seq(S) /\ Len(a \o b) = Len(a) + Len(b) /\ Len(a) \in Nat /\ Len(b) \in Nat
  OBVIOUS
<1>2. DOMAIN (a \o b) = 1 .. Len(a) + Len(b)
  BY <1>1
<1>3. \A i \in 1 .. Len(a) + Len(b) :
        (a \o b)[i] = IF i <= Len(a) THEN a[i] ELSE b[i - Len(a)]
  OBVIOUS
<1> QED
  BY <1>1, <1>2, <1>3

(* InsertAt puts one element in between. *)
LEMMA InsertAtPlaces ==
  ASSUME NEW S, NEW s \in Seq(S), NEW e \in S, NEW k \in 1 .. Len(s) + 1
  PROVE  /\ InsertAt(s, k, e) \in Seq(S) /\ Len(InsertAt(s, k, e)) = Len(s) + 1
         /\ \A i \in 1 .. k - 1 : InsertAt(s, k, e)[i] = s[i]
         /\ InsertAt(s, k, e)[k] = e
         /\ \A i \in k + 1 .. Len(s) + 1 : InsertAt(s, k, e)[i] = s[i - 1]
<1> DEFINE left == SubSeq(s, 1, k - 1)
           right == SubSeq(s, k, Len(s))
           mid_part == <<e>>
           r == InsertAt(s, k, e)
           n == Len(s)
<1>1. n \in Nat /\ k \in Nat /\ k - 1 \in 0 .. n /\ k \in 1 .. n + 1 /\ DOMAIN s = 1 .. n
  BY LenProperties
<1>2. /\ left \in Seq(S) /\ Len(left) = k - 1
      /\ \A i \in 1 .. k - 1 : left[i] = s[i]
  BY <1>1
<1>3. /\ right \in Seq(S) /\ Len(right) = n - k + 1
      /\ \A i \in 1 .. n - k + 1 : right[i] = s[k + i - 1]
  BY <1>1
<1>4. mid_part \in Seq(S) /\ Len(mid_part) = 1 /\ mid_part[1] = e
  OBVIOUS
<1>5. r = left \o mid_part \o right
  BY DEF InsertAt
<1> HIDE DEF left, right, mid_part, r, n
<1> DEFINE before == left \o mid_part
<1>6. /\ before \in Seq(S) /\ Len(before) = k
      /\ \A i \in 1 .. k - 1 : before[i] = left[i]
      /\ before[k] = e
  <2>1. /\ before \in Seq(S) /\ Len(before) = Len(left) + Len(mid_part)
        /\ \A i \in 1 .. Len(left) + Len(mid_part) :
             before[i] = IF i <= Len(left) THEN left[i] ELSE mid_part[i - Len(left)]
    BY <1>2, <1>4, Joined
  <2>2. Len(left) + Len(mid_part) = k /\ k - Len(left) = 1 /\ k \in 1 .. k /\ ~(k <= Len(left))
    BY <1>1, <1>2, <1>4
  <2> HIDE DEF before
  <2>3. \A i \in 1 .. k - 1 : i \in 1 .. k /\ i <= Len(left)
    BY <1>1, <1>2
  <2> QED
    BY <1>4, <2>1, <2>2, <2>3
<1>7. /\ r \in Seq(S) /\ Len(r) = n + 1
      /\ \A i \in 1 .. k : r[i] = before[i]
      /\ \A i \in k + 1 .. n + 1 : r[i] = right[i - k]
  <2>0. r = before \o right
    BY <1>5
  <2> HIDE DEF before
  <2>1. /\ r \in Seq(S) /\ Len(r) = Len(before) + Len(right)
        /\ \A i \in 1 .. Len(before) + Len(right) :
             r[i] = IF i <= Len(before) THEN before[i] ELSE right[i - Len(before)]
    BY <1>3, <1>6, <2>0, Joined
  <2>2. Len(before) + Len(right) = n + 1
    BY <1>1, <1>3, <1>6
  <2>3. /\ \A i \in 1 .. k : i \in 1 .. n + 1 /\ i <= k
        /\ \A i \in k + 1 .. n + 1 : i \in 1 .. n + 1 /\ ~(i <= k)
    BY <1>1
  <2> QED
    BY <1>6, <2>1, <2>2, <2>3
<1> HIDE DEF before
<1>8. /\ \A i \in 1 .. k - 1 : r[i] = s[i]
      /\ r[k] = e
      /\ \A i \in k + 1 .. n + 1 : r[i] = s[i - 1]
  <2>1. \A i \in 1 .. k - 1 : r[i] = s[i]
    <3>1. \A i \in 1 .. k - 1 : i \in 1 .. k
      BY <1>1
    <3> QED
      BY <1>2, <1>6, <1>7, <3>1
  <2>2. r[k] = e
    BY <1>1, <1>6, <1>7
  <2>3. ASSUME NEW i \in k + 1 .. n + 1 PROVE r[i] = s[i - 1]
    <3>1. i - k \in 1 .. n - k + 1 /\ k + (i - k) - 1 = i - 1
      BY <1>1
    <3> QED
      BY <1>3, <1>7, <3>1
  <2> QED
    BY <2>1, <2>2, <2>3
<1> QED
  BY <1>7, <1>8 DEF r, n

(* An element more, that was not there. *)
LEMMA InsertAtFacts ==
  ASSUME NEW S, NEW s \in Seq(S), NEW e \in S, NEW k \in 1 .. Len(s) + 1
  PROVE  /\ InsertAt(s, k, e) \in Seq(S)
         /\ ToSet(InsertAt(s, k, e)) = ToSet(s) \cup {e}
         /\ IsInjective(s) /\ e \notin ToSet(s) => IsInjective(InsertAt(s, k, e))
<1> DEFINE r == InsertAt(s, k, e)
           n == Len(s)
<1>1. n \in Nat /\ k \in Nat /\ k - 1 \in 0 .. n /\ k \in 1 .. n + 1 /\ DOMAIN s = 1 .. n
  BY LenProperties
<1>2. r \in Seq(S) /\ Len(r) = n + 1
  BY InsertAtPlaces
<1>3. /\ \A i \in 1 .. k - 1 : r[i] = s[i]
      /\ r[k] = e
      /\ \A i \in k + 1 .. n + 1 : r[i] = s[i - 1]
  BY InsertAtPlaces
<1> HIDE DEF r, n
<1>4. DOMAIN r = 1 .. n + 1
  BY <1>2
<1>5. ToSet(r) = ToSet(s) \cup {e}
  <2>1. ASSUME NEW i \in 1 .. n + 1 PROVE r[i] \in ToSet(s) \cup {e}
    <3>1. CASE i < k
      BY <1>1, <1>3, <3>1 DEF ToSet
    <3>2. CASE i = k
      BY <1>3, <3>2
    <3>3. CASE i > k
      <4>1. i \in k + 1 .. n + 1 /\ i - 1 \in 1 .. n
        BY <1>1, <3>3
      <4> QED
        BY <1>1, <1>3, <4>1 DEF ToSet
    <3> QED
      BY <1>1, <3>1, <3>2, <3>3
  <2>2. ASSUME NEW i \in 1 .. n PROVE s[i] \in ToSet(r)
    <3>1. CASE i < k
      <4>1. i \in 1 .. k - 1 /\ i \in 1 .. n + 1
        BY <1>1, <3>1
      <4> QED
        BY <1>3, <1>4, <4>1 DEF ToSet
    <3>2. CASE i >= k
      <4>1. i + 1 \in k + 1 .. n + 1 /\ i + 1 \in 1 .. n + 1 /\ i + 1 - 1 = i
        BY <1>1, <3>2
      <4>2. r[i + 1] = s[i]
        BY <1>3, <4>1
      <4> QED
        BY <1>4, <4>1, <4>2 DEF ToSet
    <3> QED
      BY <1>1, <3>1, <3>2
  <2>3. e \in ToSet(r)
    BY <1>1, <1>3, <1>4 DEF ToSet
  <2>4. ToSet(r) \subseteq ToSet(s) \cup {e}
    BY <1>4, <2>1 DEF ToSet
  <2>5. ToSet(s) \subseteq ToSet(r)
    BY <1>1, <2>2 DEF ToSet
  <2> QED
    BY <2>3, <2>4, <2>5
<1>6. ASSUME IsInjective(s), e \notin ToSet(s) PROVE IsInjective(r)
  <2> DEFINE back(i) == IF i < k THEN i ELSE i - 1
  <2>1. ASSUME NEW i \in 1 .. n + 1, i # k
        PROVE  back(i) \in 1 .. n /\ r[i] = s[back(i)] /\ r[i] # e
    <3>1. CASE i < k
      <4>1. i \in 1 .. k - 1 /\ i \in 1 .. n
        BY <1>1, <3>1
      <4> QED
        BY <1>1, <1>3, <1>6, <3>1, <4>1 DEF ToSet
    <3>2. CASE i > k
      <4>1. i \in k + 1 .. n + 1 /\ i - 1 \in 1 .. n /\ ~(i < k)
        BY <1>1, <3>2
      <4> QED
        BY <1>1, <1>3, <1>6, <4>1 DEF ToSet
    <3> QED
      BY <1>1, <2>1, <3>1, <3>2
  <2> SUFFICES ASSUME NEW i \in 1 .. n + 1, NEW j \in 1 .. n + 1, r[i] = r[j] PROVE i = j
    BY <1>4 DEF IsInjective
  <2>2. CASE i = k \/ j = k
    BY <1>3, <2>1, <2>2
  <2>3. CASE i # k /\ j # k
    <3>1. back(i) \in 1 .. n /\ back(j) \in 1 .. n /\ s[back(i)] = s[back(j)]
      BY <2>1, <2>3
    <3>2. back(i) = back(j)
      BY <1>1, <1>6, <3>1 DEF IsInjective
    <3> QED
      BY <1>1, <2>3, <3>2
  <2> QED
    BY <2>2, <2>3
<1> QED
  BY <1>2, <1>5, <1>6 DEF r

(* index_of finds an element that is there, and never more than the last. *)
LEMMA IndexOf ==
  ASSUME NEW S, NEW s \in Seq(S), NEW e
  PROVE  /\ index_of(s, e) + 1 \in 0 .. Len(s) /\ index_of(s, e) \in Int
         /\ e \in ToSet(s) => /\ index_of(s, e) + 1 \in 1 .. Len(s)
                              /\ s[index_of(s, e) + 1] = e
<1> DEFINE I == {i \in 1 .. Len(s) : s[i] = e}
           found == IF I # {} THEN Min(I) ELSE 0
<1>1. index_of(s, e) = found - 1
  BY DEF index_of, SelectInSeq
<1>2. Len(s) \in Nat /\ DOMAIN s = 1 .. Len(s)
  OBVIOUS
<1>3. I # {} => Min(I) \in I
  <2> SUFFICES ASSUME I # {} PROVE Min(I) \in I
    OBVIOUS
  <2>1. I \subseteq Nat
    BY <1>2
  <2>2. \E m \in I : \A n \in I : m <= n
    BY <2>1, NatMinExists
  <2> QED
    BY <2>2 DEF Min
<1>4. I = {} => found = 0
  OBVIOUS
<1>5. I # {} => found \in 1 .. Len(s) /\ s[found] = e
  BY <1>3
<1>6. e \in ToSet(s) => I # {}
  BY <1>2 DEF ToSet
<1> HIDE DEF I, found
<1>7. found \in 0 .. Len(s) /\ found - 1 + 1 = found
  BY <1>2, <1>4, <1>5
<1>8. index_of(s, e) + 1 = found /\ index_of(s, e) \in Int
  BY <1>1, <1>2, <1>7
<1> QED
  BY <1>5, <1>6, <1>7, <1>8

(* The first e is taken out, and what follows it moves down. *)
Without(s, e) == RemoveAt(s, index_of(s, e) + 1)

(* Taking out an element closes the gap it leaves, and keeps the order. *)
LEMMA WithoutFacts ==
  ASSUME NEW S, NEW s \in Seq(S), IsInjective(s), NEW e \in ToSet(s)
  PROVE  /\ Without(s, e) \in Seq(S) /\ Len(Without(s, e)) = Len(s) - 1
         /\ ToSet(Without(s, e)) = ToSet(s) \ {e}
         /\ IsInjective(Without(s, e))
         /\ \A i \in 1 .. Len(s) - 1 :
              Without(s, e)[i] = IF i < index_of(s, e) + 1 THEN s[i] ELSE s[i + 1]
<1> DEFINE k == index_of(s, e) + 1
           left == SubSeq(s, 1, k - 1)
           right == SubSeq(s, k + 1, Len(s))
           r == Without(s, e)
           n == Len(s)
           from(i) == IF i < k THEN i ELSE i + 1
<1>1. k \in 1 .. n /\ s[k] = e /\ n \in Nat /\ DOMAIN s = 1 .. n
  BY IndexOf
<1> HIDE DEF k
<1>2. k \in Nat /\ k - 1 \in 0 .. n /\ k + 1 \in 1 .. n + 1
  BY <1>1
<1>3. /\ left \in Seq(S) /\ Len(left) = k - 1
      /\ \A i \in 1 .. k - 1 : left[i] = s[i]
  BY <1>1, <1>2
<1>4. right \in Seq(S) /\ Len(right) = n - k
  <2>1. k + 1 \in Int /\ Len(s) \in Int /\ \A i \in k + 1 .. Len(s) : s[i] \in S
    BY <1>1, <1>2
  <2>2. /\ SubSeq(s, k + 1, Len(s)) \in Seq(S)
        /\ Len(SubSeq(s, k + 1, Len(s)))
             = IF k + 1 <= Len(s) THEN Len(s) - (k + 1) + 1 ELSE 0
    BY <2>1, SubSeqProperties
  <2>3. ASSUME NEW a \in Nat, NEW b \in 1 .. a
        PROVE  (IF b + 1 <= a THEN a - (b + 1) + 1 ELSE 0) = a - b
    OBVIOUS
  <2>4. (IF k + 1 <= Len(s) THEN Len(s) - (k + 1) + 1 ELSE 0) = Len(s) - k
    BY ONLY <1>1, <2>3
  <2> QED
    BY ONLY <2>2, <2>4
<1>5. \A i \in 1 .. n - k : right[i] = s[k + i]
  <2>1. ASSUME NEW i \in 1 .. Len(s) - k PROVE right[i] = s[k + i]
    BY <1>1, <1>2, <2>1
  <2> QED
    BY <2>1
<1>6. r = left \o right
  BY DEF Without, RemoveAt, k
<1> HIDE DEF left, right, r, n
<1>7. Len(left) + Len(right) = n - 1
  BY <1>1, <1>2, <1>3, <1>4
<1>14. /\ r \in Seq(S) /\ Len(r) = n - 1 /\ DOMAIN r = 1 .. n - 1
       /\ \A i \in 1 .. n - 1 : r[i] = IF i <= Len(left) THEN left[i] ELSE right[i - Len(left)]
  <2>1. left \in Seq(S) /\ right \in Seq(S)
    BY <1>3, <1>4
  <2>2. /\ left \o right \in Seq(S) /\ Len(left \o right) = n - 1
        /\ DOMAIN (left \o right) = 1 .. n - 1
        /\ \A i \in 1 .. n - 1 :
             (left \o right)[i] = IF i <= Len(left) THEN left[i] ELSE right[i - Len(left)]
    BY <1>7, <2>1, Joined
  <2> QED
    BY <1>6, <2>2
<1>8. \A i \in 1 .. n - 1 : r[i] = s[from(i)] /\ from(i) \in 1 .. n /\ from(i) # k
  <2> SUFFICES ASSUME NEW i \in 1 .. n - 1
               PROVE  r[i] = s[from(i)] /\ from(i) \in 1 .. n /\ from(i) # k
    OBVIOUS
  <2>1. CASE i < k
    <3>1. i \in 1 .. k - 1 /\ i <= Len(left) /\ i \in 1 .. n
      BY <1>1, <1>2, <1>3, <2>1
    <3> QED
      BY <1>2, <1>3, <1>14, <2>1, <3>1
  <2>2. CASE ~(i < k)
    <3>1. /\ i - (k - 1) \in 1 .. n - k /\ k + (i - (k - 1)) = i + 1
          /\ ~(i <= Len(left)) /\ i + 1 \in 1 .. n /\ i + 1 # k
      BY <1>1, <1>2, <1>3, <2>2
    <3>2. r[i] = right[i - (k - 1)]
      BY <1>3, <1>14, <3>1
    <3> QED
      BY <1>5, <2>2, <3>1, <3>2
  <2> QED
    BY <2>1, <2>2
<1>9. \A j \in 1 .. n : j # k => \E i \in 1 .. n - 1 : from(i) = j
  <2> SUFFICES ASSUME NEW j \in 1 .. n, j # k PROVE \E i \in 1 .. n - 1 : from(i) = j
    OBVIOUS
  <2>1. CASE j < k
    <3>1. j \in 1 .. n - 1 /\ from(j) = j
      BY <1>1, <1>2, <2>1
    <3> QED
      BY <3>1
  <2>2. CASE j > k
    <3>1. j - 1 \in 1 .. n - 1 /\ from(j - 1) = j
      BY <1>1, <1>2, <2>2
    <3> QED
      BY <3>1
  <2> QED
    BY <1>1, <1>2, <2>1, <2>2
<1>10. \A i, j \in 1 .. n - 1 : from(i) = from(j) => i = j
  BY <1>1, <1>2
<1> HIDE DEF from
<1>11. ToSet(r) = ToSet(s) \ {e}
  <2>1. ASSUME NEW i \in 1 .. n - 1 PROVE r[i] \in ToSet(s) /\ r[i] # e
    <3>1. r[i] = s[from(i)] /\ from(i) \in 1 .. n /\ from(i) # k
      BY <1>8
    <3> QED
      BY <1>1, <3>1 DEF ToSet, IsInjective
  <2>2. ASSUME NEW j \in 1 .. n, s[j] # e PROVE s[j] \in ToSet(r)
    <3>1. PICK i \in 1 .. n - 1 : from(i) = j
      BY <1>1, <1>9, <2>2
    <3> QED
      BY <1>14, <1>8, <3>1 DEF ToSet
  <2>3. ToSet(r) \subseteq ToSet(s) \ {e}
    BY <1>14, <2>1 DEF ToSet
  <2>4. ToSet(s) \ {e} \subseteq ToSet(r)
    BY <1>1, <2>2 DEF ToSet
  <2> QED
    BY <2>3, <2>4
<1>12. IsInjective(r)
  <2> SUFFICES ASSUME NEW i \in 1 .. n - 1, NEW j \in 1 .. n - 1, r[i] = r[j] PROVE i = j
    BY <1>14 DEF IsInjective
  <2>1. from(i) = from(j)
    BY <1>1, <1>8 DEF IsInjective
  <2> QED
    BY <1>10, <2>1
<1>13. \A i \in 1 .. n - 1 : r[i] = IF i < k THEN s[i] ELSE s[i + 1]
  BY <1>8 DEF from
<1> QED
  BY <1>14, <1>11, <1>12, <1>13 DEF r, k, n

-----------------------------------------------------------------------------
(***************************************************************************)
(* The walks up.  They are recursive functions on an arena that might have *)
(* cycles; what obeys their recursion is read off the nodes that can be    *)
(* reached, which are the least set that is closed under parents.          *)
(***************************************************************************)
Closed(arena, C) == \A a \in C : arena[a].parent \in C
Reach(arena, u) ==
  {v \in DOMAIN arena : \A C \in SUBSET DOMAIN arena : u \in C /\ Closed(arena, C) => v \in C}

(* The nodes that are reached from u are u and those reached from its parent. *)
LEMMA ReachUp ==
  ASSUME NEW arena, NEW u \in DOMAIN arena, Closed(arena, DOMAIN arena)
  PROVE  /\ arena[u].parent = u => Reach(arena, u) = {u}
         /\ Reach(arena, u) = {u} \cup Reach(arena, arena[u].parent)
<1> DEFINE p == arena[u].parent
           D == DOMAIN arena
<1>1. p \in D
  BY DEF Closed
<1>2. ASSUME p = u PROVE Reach(arena, u) = {u}
  <2>1. {u} \in SUBSET D /\ Closed(arena, {u})
    BY <1>2 DEF Closed
  <2>2. Reach(arena, u) \subseteq {u}
    BY <2>1 DEF Reach
  <2> QED
    BY <2>2 DEF Reach
<1>3. Reach(arena, u) \subseteq {u} \cup Reach(arena, p)
  <2> DEFINE R == {u} \cup Reach(arena, p)
  <2>1. R \in SUBSET D
    BY DEF Reach
  <2>2. ASSUME NEW a \in Reach(arena, p) PROVE arena[a].parent \in Reach(arena, p)
    <3>1. a \in D
      BY <2>2 DEF Reach
    <3>2. arena[a].parent \in D
      BY <3>1 DEF Closed
    <3>3. ASSUME NEW C \in SUBSET D, p \in C, Closed(arena, C) PROVE arena[a].parent \in C
      BY <2>2, <3>3 DEF Reach, Closed
    <3> QED
      BY <3>2, <3>3 DEF Reach
  <2>3. p \in Reach(arena, p)
    BY <1>1 DEF Reach
  <2>4. Closed(arena, R)
    BY <2>2, <2>3 DEF Closed
  <2> QED
    BY <2>1, <2>4 DEF Reach
<1>4. {u} \cup Reach(arena, p) \subseteq Reach(arena, u)
  <2>1. u \in Reach(arena, u)
    BY DEF Reach
  <2>2. ASSUME NEW v \in Reach(arena, p) PROVE v \in Reach(arena, u)
    <3>1. ASSUME NEW C \in SUBSET D, u \in C, Closed(arena, C) PROVE v \in C
      <4>1. p \in C
        BY <3>1 DEF Closed
      <4> QED
        BY <2>2, <3>1, <4>1 DEF Reach
    <3> QED
      BY <2>2, <3>1 DEF Reach
  <2> QED
    BY <2>1, <2>2
<1> QED
  BY <1>2, <1>3, <1>4

(* climb obeys its recursion. *)
LEMMA ClimbUp ==
  ASSUME NEW arena, Closed(arena, DOMAIN arena), NEW u \in DOMAIN arena
  PROVE  climb(arena, u) = IF arena[u].parent = u THEN {}
                           ELSE {u} \cup climb(arena, arena[u].parent)
<1> DEFINE Up(f) == f = [v \in DOMAIN arena |->
                           IF arena[v].parent = v THEN {} ELSE {v} \cup f[arena[v].parent]]
           g == [v \in DOMAIN arena |-> {a \in Reach(arena, v) : arena[a].parent # a}]
           up == CHOOSE f : Up(f)
<1>1. \A v \in DOMAIN arena : arena[v].parent \in DOMAIN arena
  BY DEF Closed
<1>2. ASSUME NEW v \in DOMAIN arena
      PROVE  g[v] = IF arena[v].parent = v THEN {} ELSE {v} \cup g[arena[v].parent]
  <2>1. /\ arena[v].parent = v => Reach(arena, v) = {v}
        /\ Reach(arena, v) = {v} \cup Reach(arena, arena[v].parent)
    BY ReachUp
  <2>2. g[v] = {a \in Reach(arena, v) : arena[a].parent # a}
    OBVIOUS
  <2>3. g[arena[v].parent] = {a \in Reach(arena, arena[v].parent) : arena[a].parent # a}
    BY <1>1
  <2> HIDE DEF g
  <2>4. CASE arena[v].parent = v
    BY <2>1, <2>2, <2>4
  <2>5. CASE arena[v].parent # v
    BY <2>1, <2>2, <2>3, <2>5
  <2> QED
    BY <2>4, <2>5
<1>3. g = [v \in DOMAIN arena |-> g[v]]
  OBVIOUS
<1> HIDE DEF g
<1>4. Up(g)
  BY <1>2, <1>3
<1>5. Up(up)
  BY <1>4
<1>6. \A v \in DOMAIN arena : climb(arena, v) = up[v]
  BY DEF climb
<1> HIDE DEF up
<1>7. up[u] = IF arena[u].parent = u THEN {} ELSE {u} \cup up[arena[u].parent]
  BY <1>5
<1> QED
  BY <1>1, <1>6, <1>7

(* top obeys its recursion. *)
LEMMA TopUp ==
  ASSUME NEW arena, Closed(arena, DOMAIN arena), NEW u \in DOMAIN arena
  PROVE  top(arena, u) = IF arena[u].parent = u THEN u ELSE top(arena, arena[u].parent)
<1> DEFINE Up(f) == f = [v \in DOMAIN arena |->
                           IF arena[v].parent = v THEN v ELSE f[arena[v].parent]]
           roots(v) == {a \in Reach(arena, v) : arena[a].parent = a}
           g == [v \in DOMAIN arena |-> CHOOSE a : a \in roots(v)]
           up == CHOOSE f : Up(f)
<1>1. \A v \in DOMAIN arena : arena[v].parent \in DOMAIN arena
  BY DEF Closed
<1>2. ASSUME NEW v \in DOMAIN arena
      PROVE  g[v] = IF arena[v].parent = v THEN v ELSE g[arena[v].parent]
  <2>1. /\ arena[v].parent = v => Reach(arena, v) = {v}
        /\ Reach(arena, v) = {v} \cup Reach(arena, arena[v].parent)
    BY ReachUp
  <2>2. CASE arena[v].parent = v
    <3>1. roots(v) = {v}
      BY <2>1, <2>2
    <3> HIDE DEF roots
    <3> QED
      BY <2>2, <3>1
  <2>3. CASE arena[v].parent # v
    <3>1. roots(v) = roots(arena[v].parent)
      BY <2>1, <2>3
    <3> HIDE DEF roots
    <3> QED
      BY <1>1, <2>3, <3>1
  <2> QED
    BY <2>2, <2>3
<1>3. g = [v \in DOMAIN arena |-> g[v]]
  OBVIOUS
<1> HIDE DEF g
<1>4. Up(g)
  BY <1>2, <1>3
<1>5. Up(up)
  BY <1>4
<1>6. \A v \in DOMAIN arena : top(arena, v) = up[v]
  BY DEF top
<1> HIDE DEF up
<1>7. up[u] = IF arena[u].parent = u THEN u ELSE up[arena[u].parent]
  BY <1>5
<1> QED
  BY <1>1, <1>6, <1>7

-----------------------------------------------------------------------------
(***************************************************************************)
(* The two tables of longest_common_subsequence.  A table whose cells are  *)
(* computed from the three cells before them exists: it is filled one      *)
(* diagonal after the other.                                               *)
(***************************************************************************)
Cells(a, b) == (0 .. a) \X (0 .. b)
Filled(t, a, b, base, G, n) ==
  \A i \in 0 .. a, j \in 0 .. b : i + j <= n =>
    t[<<i, j>>] = IF i = 0 \/ j = 0 THEN base
                  ELSE G[<<i, j, t[<<i - 1, j - 1>>], t[<<i, j - 1>>], t[<<i - 1, j>>]>>]

(* A table whose cells depend on three neighbours before them can be filled. *)
LEMMA TableExists ==
  ASSUME NEW a \in Nat, NEW b \in Nat, NEW V, NEW base \in V,
         NEW G \in [(0 .. a) \X (0 .. b) \X V \X V \X V -> V]
  PROVE  \E t \in [Cells(a, b) -> V] : Filled(t, a, b, base, G, a + b)
<1> DEFINE P(n) == \E t \in [Cells(a, b) -> V] : Filled(t, a, b, base, G, n)
           bad == {n \in Nat : ~P(n)}
<1>1. ASSUME bad # {} PROVE FALSE
  <2>1. PICK n \in bad : \A m \in bad : n <= m
    BY <1>1, NatMinExists
  <2>2. n \in Nat /\ ~P(n)
    BY <2>1
  <2>3. \A m \in Nat : m < n => P(m)
    BY <2>1
  <2>4. \E t \in [Cells(a, b) -> V] : n > 0 => Filled(t, a, b, base, G, n - 1)
    <3>1. CASE n = 0
      <4>1. [p \in Cells(a, b) |-> base] \in [Cells(a, b) -> V]
        OBVIOUS
      <4>2. ~(n > 0)
        BY <3>1
      <4> QED
        BY <4>1, <4>2
    <3>2. CASE n > 0
      <4>1. n - 1 \in Nat /\ n - 1 < n
        BY <2>2, <3>2
      <4> QED
        BY <2>3, <4>1
    <3> QED
      BY <2>2, <3>1, <3>2
  <2>5. PICK t \in [Cells(a, b) -> V] : n > 0 => Filled(t, a, b, base, G, n - 1)
    BY <2>4
  <2> DEFINE next(i, j) ==
               IF i = 0 \/ j = 0 THEN base
               ELSE G[<<i, j, t[<<i - 1, j - 1>>], t[<<i, j - 1>>], t[<<i - 1, j>>]>>]
             u == [p \in Cells(a, b) |-> IF p[1] + p[2] = n THEN next(p[1], p[2]) ELSE t[p]]
  <2>6. ASSUME NEW i \in 0 .. a, NEW j \in 0 .. b PROVE next(i, j) \in V
    <3>1. CASE i = 0 \/ j = 0
      BY <3>1
    <3>2. CASE ~(i = 0 \/ j = 0)
      <4>1. /\ <<i - 1, j - 1>> \in Cells(a, b) /\ <<i, j - 1>> \in Cells(a, b)
            /\ <<i - 1, j>> \in Cells(a, b)
        BY <3>2 DEF Cells
      <4>2. /\ t[<<i - 1, j - 1>>] \in V /\ t[<<i, j - 1>>] \in V /\ t[<<i - 1, j>>] \in V
        BY <2>5, <4>1
      <4> QED
        BY <3>2, <4>2
    <3> QED
      BY <3>1, <3>2
  <2> HIDE DEF next
  <2>7. u \in [Cells(a, b) -> V]
    <3>1. ASSUME NEW p \in Cells(a, b) PROVE u[p] \in V
      <4>1. p[1] \in 0 .. a /\ p[2] \in 0 .. b
        BY DEF Cells
      <4> QED
        BY <2>5, <2>6, <4>1
    <3> QED
      BY <3>1
  <2>8. ASSUME NEW i \in 0 .. a, NEW j \in 0 .. b
        PROVE  /\ i + j = n => u[<<i, j>>] = next(i, j)
               /\ i + j # n => u[<<i, j>>] = t[<<i, j>>]
    <3>1. <<i, j>> \in Cells(a, b) /\ <<i, j>>[1] = i /\ <<i, j>>[2] = j
      BY DEF Cells
    <3> QED
      BY <3>1
  <2> HIDE DEF u
  <2>9. ASSUME NEW i \in 0 .. a, NEW j \in 0 .. b, i + j <= n
        PROVE  u[<<i, j>>] =
                 IF i = 0 \/ j = 0 THEN base
                 ELSE G[<<i, j, u[<<i - 1, j - 1>>], u[<<i, j - 1>>], u[<<i - 1, j>>]>>]
    <3>1. u[<<i, j>>] = next(i, j)
      <4>1. CASE i + j = n
        BY <2>8, <4>1
      <4>2. CASE i + j # n
        <5>1. n > 0 /\ i + j <= n - 1
          BY <2>2, <2>9, <4>2
        <5>2. t[<<i, j>>] = next(i, j)
          BY <2>5, <5>1 DEF Filled, next
        <5> QED
          BY <2>8, <4>2, <5>2
      <4> QED
        BY <4>1, <4>2
    <3>2. CASE i = 0 \/ j = 0
      BY <3>1, <3>2 DEF next
    <3>3. CASE ~(i = 0 \/ j = 0)
      <4>1. /\ i - 1 \in 0 .. a /\ j - 1 \in 0 .. b
            /\ i - 1 + (j - 1) # n /\ i + (j - 1) # n /\ i - 1 + j # n
        BY <2>2, <2>9, <3>3
      <4>2. /\ u[<<i - 1, j - 1>>] = t[<<i - 1, j - 1>>] /\ u[<<i, j - 1>>] = t[<<i, j - 1>>]
            /\ u[<<i - 1, j>>] = t[<<i - 1, j>>]
        BY <2>8, <4>1
      <4> QED
        BY <3>1, <3>3, <4>2 DEF next
    <3> QED
      BY <3>2, <3>3
  <2>10. Filled(u, a, b, base, G, n)
    BY <2>9 DEF Filled
  <2> QED
    BY <2>2, <2>7, <2>10
<1>2. a + b \in Nat
  OBVIOUS
<1> QED
  BY <1>1, <1>2

(* The walk back of longest_common_subsequence: a cell repeats the one     *)
(* above or the one on the left, or adds a pair of equal elements to the   *)
(* cell before both.                                                       *)
WalkedBack(f, s0, s1, equal) ==
  \A i \in 0 .. Len(s0), j \in 0 .. Len(s1) :
    \/ f[<<i, j>>] = <<>>
    \/ /\ i # 0 /\ j # 0
       /\ \/ f[<<i, j>>] = f[<<i - 1, j>>] \/ f[<<i, j>>] = f[<<i, j - 1>>]
          \/ /\ <<s0[i], s1[j]>> \in equal
             /\ f[<<i, j>>] = Append(f[<<i - 1, j - 1>>], <<s0[i], s1[j]>>)

LEMMA LcsTable ==
  ASSUME NEW S, NEW T, NEW s0 \in Seq(S), NEW s1 \in Seq(T), NEW equal
  PROVE  \E f \in [Cells(Len(s0), Len(s1)) -> Seq(equal)] :
           /\ longest_common_subsequence(s0, s1, equal) = f[<<Len(s0), Len(s1)>>]
           /\ WalkedBack(f, s0, s1, equal)
<1> DEFINE a == Len(s0)
           b == Len(s1)
           cells == (0 .. Len(s0)) \X (0 .. Len(s1))
           lensAt(f, c) ==
             LET i == c[1]
                 j == c[2]
             IN  IF i = 0 \/ j = 0 THEN 0
                 ELSE IF <<s0[i], s1[j]>> \in equal THEN f[<<i - 1, j - 1>>] + 1
                 ELSE IF f[<<i, j - 1>>] > f[<<i - 1, j>>] THEN f[<<i, j - 1>>]
                 ELSE f[<<i - 1, j>>]
           isLens(f) == f = [c \in cells |-> lensAt(f, c)]
           lens == CHOOSE f : isLens(f)
           indexesAt(f, c) ==
             LET i == c[1]
                 j == c[2]
             IN  IF i = 0 \/ j = 0 THEN <<>>
                 ELSE IF lens[c] = lens[<<i - 1, j>>] THEN f[<<i - 1, j>>]
                 ELSE IF lens[c] = lens[<<i, j - 1>>] THEN f[<<i, j - 1>>]
                 ELSE Append(f[<<i - 1, j - 1>>], <<s0[i], s1[j]>>)
           isIndexes(f) == f = [c \in cells |-> indexesAt(f, c)]
           indexes == CHOOSE f : isIndexes(f)
<1>1. longest_common_subsequence(s0, s1, equal) = indexes[<<a, b>>]
  BY DEF longest_common_subsequence
<1>2. a \in Nat /\ b \in Nat /\ cells = Cells(a, b)
  BY DEF Cells
<1> HIDE DEF a, b, cells
<1>3. /\ \A i \in 0 .. a, j \in 0 .. b : <<i, j>> \in cells
      /\ \A c \in cells : c[1] \in 0 .. a /\ c[2] \in 0 .. b /\ c = <<c[1], c[2]>>
      /\ \A i \in 0 .. a, j \in 0 .. b : i # 0 /\ j # 0 =>
           /\ <<i - 1, j - 1>> \in cells /\ <<i, j - 1>> \in cells /\ <<i - 1, j>> \in cells
  <2>1. cells = (0 .. a) \X (0 .. b)
    BY <1>2 DEF Cells
  <2>2. \A i \in 0 .. a, j \in 0 .. b : <<i, j>> \in cells
    BY <2>1
  <2>3. \A c \in cells : c[1] \in 0 .. a /\ c[2] \in 0 .. b /\ c = <<c[1], c[2]>>
    BY <2>1
  <2>4. /\ \A i \in 0 .. a : i # 0 => i - 1 \in 0 .. a
        /\ \A j \in 0 .. b : j # 0 => j - 1 \in 0 .. b
    BY <1>2
  <2> QED
    BY <2>2, <2>3, <2>4
<1>4. isLens(lens)
  <2> DEFINE G == [p \in (0 .. a) \X (0 .. b) \X Nat \X Nat \X Nat |->
                     IF <<s0[p[1]], s1[p[2]]>> \in equal THEN p[3] + 1
                     ELSE IF p[4] > p[5] THEN p[4] ELSE p[5]]
  <2>1. G \in [(0 .. a) \X (0 .. b) \X Nat \X Nat \X Nat -> Nat]
    OBVIOUS
  <2>2. PICK t \in [Cells(a, b) -> Nat] : Filled(t, a, b, 0, G, a + b)
    <3> HIDE DEF G
    <3> QED
      BY <1>2, <2>1, TableExists
  <2>3. ASSUME NEW c \in cells PROVE t[c] = lensAt(t, c)
    <3> DEFINE i == c[1]
               j == c[2]
    <3>1. i \in 0 .. a /\ j \in 0 .. b /\ i + j <= a + b /\ c = <<i, j>>
      BY <1>2, <1>3
    <3>2. t[c] = IF i = 0 \/ j = 0 THEN 0
                 ELSE G[<<i, j, t[<<i - 1, j - 1>>], t[<<i, j - 1>>], t[<<i - 1, j>>]>>]
      <4> HIDE DEF i, j, G
      <4> QED
        BY <2>2, <3>1 DEF Filled
    <3>3. CASE i = 0 \/ j = 0
      BY <3>2, <3>3
    <3>4. CASE ~(i = 0 \/ j = 0)
      <4> HIDE DEF i, j
      <4>1. /\ t[<<i - 1, j - 1>>] \in Nat /\ t[<<i, j - 1>>] \in Nat /\ t[<<i - 1, j>>] \in Nat
        BY <1>2, <1>3, <2>2, <3>1, <3>4
      <4>2. G[<<i, j, t[<<i - 1, j - 1>>], t[<<i, j - 1>>], t[<<i - 1, j>>]>>] =
              IF <<s0[i], s1[j]>> \in equal THEN t[<<i - 1, j - 1>>] + 1
              ELSE IF t[<<i, j - 1>>] > t[<<i - 1, j>>] THEN t[<<i, j - 1>>]
              ELSE t[<<i - 1, j>>]
        BY <3>1, <4>1
      <4> HIDE DEF G
      <4> QED
        BY <3>2, <3>4, <4>2 DEF i, j
    <3> QED
      BY <3>3, <3>4
  <2> HIDE DEF lensAt
  <2>4. isLens(t)
    BY <1>2, <2>2, <2>3
  <2> QED
    BY <2>4
<1>5. \A c \in cells : lens[c] = lensAt(lens, c)
  <2> HIDE DEF lens, lensAt
  <2> QED
    BY <1>4
<1> HIDE DEF lens
<1>6. ASSUME NEW c \in cells, c[1] # 0, c[2] # 0,
             lens[c] # lens[<<c[1] - 1, c[2]>>], lens[c] # lens[<<c[1], c[2] - 1>>]
      PROVE  <<s0[c[1]], s1[c[2]]>> \in equal
  BY <1>5, <1>6
<1> DEFINE V == Seq(equal)
           G == [p \in (0 .. a) \X (0 .. b) \X V \X V \X V |->
                   IF p[1] = 0 \/ p[2] = 0 THEN <<>>
                   ELSE IF lens[<<p[1], p[2]>>] = lens[<<p[1] - 1, p[2]>>] THEN p[5]
                   ELSE IF lens[<<p[1], p[2]>>] = lens[<<p[1], p[2] - 1>>] THEN p[4]
                   ELSE Append(p[3], <<s0[p[1]], s1[p[2]]>>)]
<1>7. <<>> \in V
  OBVIOUS
<1>8. ASSUME NEW i \in 0 .. a, NEW j \in 0 .. b, NEW x \in V, NEW y \in V, NEW z \in V
      PROVE  /\ G[<<i, j, x, y, z>>] = IF i = 0 \/ j = 0 THEN <<>>
                  ELSE IF lens[<<i, j>>] = lens[<<i - 1, j>>] THEN z
                  ELSE IF lens[<<i, j>>] = lens[<<i, j - 1>>] THEN y
                  ELSE Append(x, <<s0[i], s1[j]>>)
             /\ G[<<i, j, x, y, z>>] \in V
  <2>1. G[<<i, j, x, y, z>>] = IF i = 0 \/ j = 0 THEN <<>>
                  ELSE IF lens[<<i, j>>] = lens[<<i - 1, j>>] THEN z
                  ELSE IF lens[<<i, j>>] = lens[<<i, j - 1>>] THEN y
                  ELSE Append(x, <<s0[i], s1[j]>>)
    <3> HIDE DEF V
    <3> QED
      BY <1>8
  <2> HIDE DEF G
  <2>2. CASE /\ i # 0 /\ j # 0 /\ lens[<<i, j>>] # lens[<<i - 1, j>>]
             /\ lens[<<i, j>>] # lens[<<i, j - 1>>]
    <3>1. <<i, j>> \in cells /\ <<i, j>>[1] = i /\ <<i, j>>[2] = j
      BY <1>3
    <3>2. <<s0[i], s1[j]>> \in equal
      BY <1>6, <2>2, <3>1
    <3>3. Append(x, <<s0[i], s1[j]>>) \in V
      BY <1>8, <3>2
    <3> QED
      BY <2>1, <2>2, <3>3
  <2>3. CASE ~(/\ i # 0 /\ j # 0 /\ lens[<<i, j>>] # lens[<<i - 1, j>>]
               /\ lens[<<i, j>>] # lens[<<i, j - 1>>])
    BY <1>7, <1>8, <2>1, <2>3
  <2> QED
    BY <2>1, <2>2, <2>3
<1> HIDE DEF V
<1>9. G \in [(0 .. a) \X (0 .. b) \X V \X V \X V -> V]
  <2>1. G = [p \in (0 .. a) \X (0 .. b) \X V \X V \X V |-> G[p]]
    OBVIOUS
  <2> HIDE DEF G
  <2>2. ASSUME NEW p \in (0 .. a) \X (0 .. b) \X V \X V \X V PROVE G[p] \in V
    <3>1. /\ p = <<p[1], p[2], p[3], p[4], p[5]>> /\ p[1] \in 0 .. a /\ p[2] \in 0 .. b
          /\ p[3] \in V /\ p[4] \in V /\ p[5] \in V
      BY <2>2
    <3>2. G[<<p[1], p[2], p[3], p[4], p[5]>>] \in V
      BY <1>8, <3>1
    <3> QED
      BY <3>1, <3>2
  <2> QED
    BY <2>1, <2>2
<1> HIDE DEF G
<1>10. PICK t \in [Cells(a, b) -> V] : Filled(t, a, b, <<>>, G, a + b)
  BY <1>2, <1>7, <1>9, TableExists
<1>11. isIndexes(t)
  <2>1. ASSUME NEW c \in cells PROVE t[c] = indexesAt(t, c)
    <3> DEFINE i == c[1]
               j == c[2]
    <3>1. i \in 0 .. a /\ j \in 0 .. b /\ i + j <= a + b /\ c = <<i, j>>
      BY <1>2, <1>3
    <3>2. t[c] = IF i = 0 \/ j = 0 THEN <<>>
                 ELSE G[<<i, j, t[<<i - 1, j - 1>>], t[<<i, j - 1>>], t[<<i - 1, j>>]>>]
      <4> HIDE DEF i, j
      <4> QED
        BY <1>10, <3>1 DEF Filled
    <3>3. CASE i = 0 \/ j = 0
      BY <3>2, <3>3
    <3>4. CASE ~(i = 0 \/ j = 0)
      <4> HIDE DEF i, j
      <4>1. /\ t[<<i - 1, j - 1>>] \in V /\ t[<<i, j - 1>>] \in V /\ t[<<i - 1, j>>] \in V
        BY <1>2, <1>3, <1>10, <3>1, <3>4
      <4>2. G[<<i, j, t[<<i - 1, j - 1>>], t[<<i, j - 1>>], t[<<i - 1, j>>]>>] =
              IF lens[<<i, j>>] = lens[<<i - 1, j>>] THEN t[<<i - 1, j>>]
              ELSE IF lens[<<i, j>>] = lens[<<i, j - 1>>] THEN t[<<i, j - 1>>]
              ELSE Append(t[<<i - 1, j - 1>>], <<s0[i], s1[j]>>)
        <5>1. PICK x \in V, y \in V, z \in V :
                x = t[<<i - 1, j - 1>>] /\ y = t[<<i, j - 1>>] /\ z = t[<<i - 1, j>>]
          BY <4>1
        <5>2. i \in 0 .. a /\ j \in 0 .. b
          BY <3>1
        <5>3. /\ G[<<i, j, x, y, z>>] = IF i = 0 \/ j = 0 THEN <<>>
                  ELSE IF lens[<<i, j>>] = lens[<<i - 1, j>>] THEN z
                  ELSE IF lens[<<i, j>>] = lens[<<i, j - 1>>] THEN y
                  ELSE Append(x, <<s0[i], s1[j]>>)
              /\ G[<<i, j, x, y, z>>] \in V
          BY <1>8, <5>2, Zenon
        <5> QED
          BY <3>4, <5>1, <5>3
      <4> QED
        BY <3>1, <3>2, <3>4, <4>2 DEF i, j
    <3> QED
      BY <3>3, <3>4
  <2> HIDE DEF indexesAt
  <2> QED
    BY <1>2, <1>10, <2>1
<1>12. isIndexes(indexes)
  <2> HIDE DEF indexesAt
  <2> QED
    BY <1>11
<1> HIDE DEF indexes
<1>13. \A c \in cells : indexes[c] = indexesAt(indexes, c)
  <2> HIDE DEF indexesAt
  <2> QED
    BY <1>12
<1>14. ASSUME NEW i \in 0 .. a, NEW j \in 0 .. b,
              i # 0 /\ j # 0 => /\ indexes[<<i - 1, j - 1>>] \in V
                                /\ indexes[<<i, j - 1>>] \in V /\ indexes[<<i - 1, j>>] \in V
       PROVE  indexes[<<i, j>>] \in V
  <2>1. <<i, j>> \in cells /\ <<i, j>>[1] = i /\ <<i, j>>[2] = j
    BY <1>3
  <2>2. indexes[<<i, j>>] =
          IF i = 0 \/ j = 0 THEN <<>>
          ELSE IF lens[<<i, j>>] = lens[<<i - 1, j>>] THEN indexes[<<i - 1, j>>]
          ELSE IF lens[<<i, j>>] = lens[<<i, j - 1>>] THEN indexes[<<i, j - 1>>]
          ELSE Append(indexes[<<i - 1, j - 1>>], <<s0[i], s1[j]>>)
    BY <1>13, <2>1
  <2>3. CASE i = 0 \/ j = 0
    BY <1>7, <2>2, <2>3
  <2>4. CASE i # 0 /\ j # 0
    <3>1. PICK x \in V, y \in V, z \in V :
            /\ x = indexes[<<i - 1, j - 1>>] /\ y = indexes[<<i, j - 1>>]
            /\ z = indexes[<<i - 1, j>>]
      BY <1>14, <2>4
    <3>2. /\ G[<<i, j, x, y, z>>] = IF i = 0 \/ j = 0 THEN <<>>
                  ELSE IF lens[<<i, j>>] = lens[<<i - 1, j>>] THEN z
                  ELSE IF lens[<<i, j>>] = lens[<<i, j - 1>>] THEN y
                  ELSE Append(x, <<s0[i], s1[j]>>)
          /\ G[<<i, j, x, y, z>>] \in V
      BY <1>8
    <3> QED
      BY <2>2, <3>1, <3>2
  <2> QED
    BY <2>3, <2>4
<1> DEFINE P(n) == \A i \in 0 .. a, j \in 0 .. b : i + j = n => indexes[<<i, j>>] \in V
           bad == {n \in Nat : ~P(n)}
<1>15. ASSUME bad # {} PROVE FALSE
  <2>1. PICK n \in bad : \A m \in bad : n <= m
    BY <1>15, NatMinExists
  <2> HIDE DEF P
  <2>2. n \in Nat /\ ~P(n)
    BY <2>1
  <2>3. \A m \in Nat : m < n => P(m)
    BY <2>1
  <2> USE DEF P
  <2>4. PICK i \in 0 .. a, j \in 0 .. b : i + j = n /\ indexes[<<i, j>>] \notin V
    BY <2>2
  <2>5. ASSUME i # 0, j # 0
        PROVE  /\ indexes[<<i - 1, j - 1>>] \in V
               /\ indexes[<<i, j - 1>>] \in V /\ indexes[<<i - 1, j>>] \in V
    <3>1. /\ i - 1 \in 0 .. a /\ j - 1 \in 0 .. b
          /\ i - 1 + (j - 1) \in Nat /\ i - 1 + (j - 1) < n
          /\ i + (j - 1) \in Nat /\ i + (j - 1) < n /\ i - 1 + j \in Nat /\ i - 1 + j < n
      BY <1>2, <2>4, <2>5
    <3> QED
      BY <2>3, <3>1
  <2> QED
    BY <1>14, <2>4, <2>5
<1>16. \A i \in 0 .. a, j \in 0 .. b : indexes[<<i, j>>] \in V
  <2> TAKE i \in 0 .. a, j \in 0 .. b
  <2>1. i + j \in Nat
    BY <1>2
  <2>2. P(i + j)
    <3> HIDE DEF P
    <3> QED
      BY <1>15, <2>1
  <2> QED
    BY <2>2
<1>17. indexes \in [Cells(a, b) -> V]
  <2>1. indexes = [c \in cells |-> indexesAt(indexes, c)]
    <3> HIDE DEF indexesAt
    <3> QED
      BY <1>12
  <2> HIDE DEF indexesAt
  <2>2. \A c \in cells : indexes[c] \in V
    BY <1>3, <1>16
  <2>3. DOMAIN indexes = cells /\ indexes = [c \in cells |-> indexes[c]]
    BY <2>1
  <2> QED
    BY <1>2, <2>2, <2>3
<1>18. ASSUME NEW i \in 0 .. a, NEW j \in 0 .. b
       PROVE  \/ indexes[<<i, j>>] = <<>>
              \/ /\ i # 0 /\ j # 0
                 /\ \/ indexes[<<i, j>>] = indexes[<<i - 1, j>>] \/ indexes[<<i, j>>] = indexes[<<i, j - 1>>]
                    \/ /\ <<s0[i], s1[j]>> \in equal
                       /\ indexes[<<i, j>>] = Append(indexes[<<i - 1, j - 1>>], <<s0[i], s1[j]>>)
  <2>1. <<i, j>> \in cells /\ <<i, j>>[1] = i /\ <<i, j>>[2] = j
    BY <1>3
  <2>2. indexes[<<i, j>>] =
          IF i = 0 \/ j = 0 THEN <<>>
          ELSE IF lens[<<i, j>>] = lens[<<i - 1, j>>] THEN indexes[<<i - 1, j>>]
          ELSE IF lens[<<i, j>>] = lens[<<i, j - 1>>] THEN indexes[<<i, j - 1>>]
          ELSE Append(indexes[<<i - 1, j - 1>>], <<s0[i], s1[j]>>)
    BY <1>13, <2>1
  <2>3. CASE /\ i # 0 /\ j # 0 /\ lens[<<i, j>>] # lens[<<i - 1, j>>]
             /\ lens[<<i, j>>] # lens[<<i, j - 1>>]
    <3>1. <<s0[i], s1[j]>> \in equal
      BY <1>6, <2>1, <2>3
    <3> QED
      BY <2>2, <2>3, <3>1
  <2>4. CASE ~(/\ i # 0 /\ j # 0 /\ lens[<<i, j>>] # lens[<<i - 1, j>>]
               /\ lens[<<i, j>>] # lens[<<i, j - 1>>])
    BY <2>2, <2>4
  <2> QED
    BY <2>3, <2>4
<1>19. WalkedBack(indexes, s0, s1, equal)
  <2> HIDE DEF indexes
  <2> QED
    BY <1>18 DEF WalkedBack, a, b
<1> HIDE DEF P
<1> QED
  BY <1>1, <1>17, <1>19 DEF V, a, b

(* The pairs that longest_common_subsequence returns are equal ones. *)
LEMMA LcsEqual ==
  ASSUME NEW S, NEW T, NEW s0 \in Seq(S), NEW s1 \in Seq(T), NEW equal
  PROVE  longest_common_subsequence(s0, s1, equal) \in Seq(equal)
<1>1. PICK f \in [Cells(Len(s0), Len(s1)) -> Seq(equal)] :
        longest_common_subsequence(s0, s1, equal) = f[<<Len(s0), Len(s1)>>]
  BY LcsTable
<1>2. <<Len(s0), Len(s1)>> \in Cells(Len(s0), Len(s1))
  BY LenProperties DEF Cells
<1> QED
  BY <1>1, <1>2

(* The two halves of the pairs come in the order of the two sequences. *)
Before(s, u, v) == \E i, j \in 1 .. Len(s) : i < j /\ s[i] = u /\ s[j] = v
LEMMA LcsOrdered ==
  ASSUME NEW S, NEW T, NEW s0 \in Seq(S), NEW s1 \in Seq(T), NEW equal, NEW q,
         q = longest_common_subsequence(s0, s1, equal)
  PROVE  \A m, n \in 1 .. Len(q) : m < n =>
           Before(s0, q[m][1], q[n][1]) /\ Before(s1, q[m][2], q[n][2])
<1> DEFINE a == Len(s0)
           b == Len(s1)
<1>1. PICK f \in [Cells(a, b) -> Seq(equal)] :
        q = f[<<a, b>>] /\ WalkedBack(f, s0, s1, equal)
  BY LcsTable
<1>2. a \in Nat /\ b \in Nat
  BY LenProperties
<1> HIDE DEF a, b
<1> DEFINE From(c, i, j) == \A m \in 1 .. Len(c) : \E k \in 1 .. i, l \in 1 .. j : c[m] = <<s0[k], s1[l]>>
           Rising(c) == \A m, n \in 1 .. Len(c) : m < n =>
                          Before(s0, c[m][1], c[n][1]) /\ Before(s1, c[m][2], c[n][2])
           Good(c, i, j) == From(c, i, j) /\ Rising(c)
           P(n) == \A i \in 0 .. a, j \in 0 .. b : i + j = n => Good(f[<<i, j>>], i, j)
           bad == {n \in Nat : ~P(n)}
<1>3. ASSUME NEW c, NEW i \in 0 .. a, NEW j \in 0 .. b, NEW k \in 0 .. i, NEW l \in 0 .. j,
             Good(c, k, l)
      PROVE  Good(c, i, j)
  <2>1. 1 .. k \subseteq 1 .. i /\ 1 .. l \subseteq 1 .. j
    BY <1>2
  <2> QED
    BY <1>3, <2>1
<1>4. ASSUME NEW i \in 1 .. a, NEW j \in 1 .. b, NEW c \in Seq(equal),
             <<s0[i], s1[j]>> \in equal, Good(c, i - 1, j - 1)
      PROVE  Good(Append(c, <<s0[i], s1[j]>>), i, j)
  <2> DEFINE e == <<s0[i], s1[j]>>
             r == Append(c, e)
             l == Len(c)
  <2>1. l \in Nat /\ Len(r) = l + 1 /\ r[l + 1] = e /\ \A m \in 1 .. l : r[m] = c[m]
    BY <1>4, AppendProperties, LenProperties
  <2>2. e[1] = s0[i] /\ e[2] = s1[j] /\ e = <<s0[i], s1[j]>>
    OBVIOUS
  <2> HIDE DEF e, r, l
  <2>3. ASSUME NEW m \in 1 .. l
        PROVE  \E x \in 1 .. i - 1, y \in 1 .. j - 1 : c[m] = <<s0[x], s1[y]>>
    BY <1>4 DEF l
  <2>4. From(r, i, j)
    <3> SUFFICES ASSUME NEW m \in 1 .. l + 1
                 PROVE  \E x \in 1 .. i, y \in 1 .. j : r[m] = <<s0[x], s1[y]>>
      BY <2>1
    <3>1. CASE m = l + 1
      BY <1>2, <2>1, <2>2, <3>1
    <3>2. CASE m # l + 1
      <4>1. m \in 1 .. l
        BY <2>1, <3>2
      <4>2. PICK x \in 1 .. i - 1, y \in 1 .. j - 1 : c[m] = <<s0[x], s1[y]>>
        BY <2>3, <4>1
      <4>3. x \in 1 .. i /\ y \in 1 .. j
        BY <1>2
      <4> QED
        BY <2>1, <4>1, <4>2, <4>3
    <3> QED
      BY <3>1, <3>2
  <2>5. Rising(r)
    <3> SUFFICES ASSUME NEW m \in 1 .. l + 1, NEW n \in 1 .. l + 1, m < n
                 PROVE  Before(s0, r[m][1], r[n][1]) /\ Before(s1, r[m][2], r[n][2])
      BY <2>1
    <3>1. m \in 1 .. l
      BY <2>1
    <3>2. CASE n = l + 1
      <4>1. PICK x \in 1 .. i - 1, y \in 1 .. j - 1 : c[m] = <<s0[x], s1[y]>>
        BY <2>3, <3>1
      <4>2. r[m][1] = s0[x] /\ r[m][2] = s1[y] /\ r[n][1] = s0[i] /\ r[n][2] = s1[j]
        BY <2>1, <2>2, <3>1, <3>2, <4>1
      <4>3. /\ x \in 1 .. Len(s0) /\ i \in 1 .. Len(s0) /\ x < i
            /\ y \in 1 .. Len(s1) /\ j \in 1 .. Len(s1) /\ y < j
        BY <1>2 DEF a, b
      <4> QED
        BY <4>2, <4>3 DEF Before
    <3>3. CASE n # l + 1
      <4>1. n \in 1 .. l
        BY <2>1, <3>3
      <4>2. Before(s0, c[m][1], c[n][1]) /\ Before(s1, c[m][2], c[n][2])
        BY <1>4, <3>1, <4>1 DEF l
      <4> QED
        BY <2>1, <3>1, <4>1, <4>2
    <3> QED
      BY <3>2, <3>3
  <2> QED
    BY <2>4, <2>5 DEF r, e
<1> HIDE DEF Good
<1>5. Good(<<>>, 0, 0)
  BY DEF Good
<1>6. ASSUME bad # {} PROVE FALSE
  <2>1. PICK n \in bad : \A m \in bad : n <= m
    BY <1>6, NatMinExists
  <2> HIDE DEF P
  <2>2. n \in Nat /\ ~P(n)
    BY <2>1
  <2>3. \A m \in Nat : m < n => P(m)
    BY <2>1
  <2> USE DEF P
  <2>4. PICK i \in 0 .. a, j \in 0 .. b : i + j = n /\ ~Good(f[<<i, j>>], i, j)
    BY <2>2
  <2>5. f[<<i, j>>] # <<>>
    <3>1. 0 \in 0 .. i /\ 0 \in 0 .. j
      BY <1>2
    <3> QED
      BY <1>3, <1>5, <2>4, <3>1
  <2>6. i \in 1 .. a /\ j \in 1 .. b
    <3>1. i # 0 /\ j # 0
      BY <1>1, <2>5 DEF WalkedBack, a, b
    <3> QED
      BY <1>2, <3>1
  <2>7. /\ i - 1 \in 0 .. a /\ j - 1 \in 0 .. b
        /\ i - 1 \in 0 .. i /\ j - 1 \in 0 .. j /\ i \in 0 .. i /\ j \in 0 .. j
        /\ i - 1 + (j - 1) \in Nat /\ i - 1 + (j - 1) < n
        /\ i + (j - 1) \in Nat /\ i + (j - 1) < n /\ i - 1 + j \in Nat /\ i - 1 + j < n
    BY <1>2, <2>4, <2>6
  <2>8. /\ Good(f[<<i - 1, j - 1>>], i - 1, j - 1) /\ Good(f[<<i, j - 1>>], i, j - 1)
        /\ Good(f[<<i - 1, j>>], i - 1, j)
    BY <2>3, <2>7
  <2>9. f[<<i - 1, j - 1>>] \in Seq(equal)
    BY <1>1, <2>7 DEF Cells
  <2>10. CASE f[<<i, j>>] = f[<<i - 1, j>>] \/ f[<<i, j>>] = f[<<i, j - 1>>]
    BY <1>3, <2>4, <2>7, <2>8, <2>10
  <2>11. CASE /\ <<s0[i], s1[j]>> \in equal
              /\ f[<<i, j>>] = Append(f[<<i - 1, j - 1>>], <<s0[i], s1[j]>>)
    BY <1>4, <2>4, <2>6, <2>8, <2>9, <2>11
  <2> QED
    BY <1>1, <2>5, <2>10, <2>11 DEF WalkedBack, a, b
<1>7. Good(q, a, b)
  <2>1. a + b \in Nat /\ a \in 0 .. a /\ b \in 0 .. b
    BY <1>2
  <2>2. P(a + b)
    <3> HIDE DEF P
    <3> QED
      BY <1>6, <2>1
  <2> QED
    BY <1>1, <2>1, <2>2
<1> QED
  BY <1>7 DEF Good

-----------------------------------------------------------------------------
(***************************************************************************)
(* The edits of the mid arena.  In a forest a node is in the list of a     *)
(* node only if that is its parent, once; in a placed one it is there.     *)
(***************************************************************************)
Arenas(I, C) == [I -> [parent : I, kids : Seq(I), compressed : C]]
Forest(arena) ==
  \A w \in DOMAIN arena :
    /\ IsInjective(arena[w].kids)
    /\ \A c \in ToSet(arena[w].kids) : c \in DOMAIN arena /\ arena[c].parent = w /\ c # w
PlacedIn(arena, u) == arena[u].parent # u => u \in ToSet(arena[arena[u].parent].kids)

(* The fields of an entry. *)
LEMMA EntryFields ==
  ASSUME NEW I, NEW C, NEW arena \in Arenas(I, C), NEW u \in I
  PROVE  /\ DOMAIN arena = I /\ arena[u].parent \in I /\ arena[u].kids \in Seq(I)
         /\ arena[u].compressed \in C /\ ToSet(arena[u].kids) \subseteq I
         /\ arena[u] = [parent |-> arena[u].parent, kids |-> arena[u].kids,
                        compressed |-> arena[u].compressed]
<1>1. /\ DOMAIN arena = I /\ arena[u].parent \in I /\ arena[u].kids \in Seq(I)
      /\ arena[u].compressed \in C
      /\ arena[u] = [parent |-> arena[u].parent, kids |-> arena[u].kids,
                     compressed |-> arena[u].compressed]
  BY DEF Arenas
<1>2. ToSet(arena[u].kids) \subseteq I
  BY <1>1 DEF ToSet
<1> QED
  BY <1>1, <1>2

(* The field parent of an entry is set. *)
LEMMA ParentSet ==
  ASSUME NEW I, NEW C, NEW arena \in Arenas(I, C), NEW w \in I, NEW p \in I
  PROVE  /\ [arena EXCEPT ![w].parent = p] \in Arenas(I, C)
         /\ \A u \in I :
              /\ [arena EXCEPT ![w].parent = p][u].parent = IF u = w THEN p ELSE arena[u].parent
              /\ [arena EXCEPT ![w].parent = p][u].kids = arena[u].kids
              /\ [arena EXCEPT ![w].parent = p][u].compressed = arena[u].compressed
BY DEF Arenas

(* The field kids of an entry is set. *)
LEMMA KidsSet ==
  ASSUME NEW I, NEW C, NEW arena \in Arenas(I, C), NEW w \in I, NEW s \in Seq(I)
  PROVE  /\ [arena EXCEPT ![w].kids = s] \in Arenas(I, C)
         /\ \A u \in I :
              /\ [arena EXCEPT ![w].kids = s][u].parent = arena[u].parent
              /\ [arena EXCEPT ![w].kids = s][u].kids = IF u = w THEN s ELSE arena[u].kids
              /\ [arena EXCEPT ![w].kids = s][u].compressed = arena[u].compressed
<1> DEFINE S == Seq(I)
<1>1. s \in S /\ arena \in [I -> [parent : I, kids : S, compressed : C]]
  BY DEF Arenas
<1> HIDE DEF S
<1>2. [arena EXCEPT ![w].kids = s] \in [I -> [parent : I, kids : S, compressed : C]]
  BY <1>1
<1>3. ASSUME NEW u \in I
      PROVE  /\ [arena EXCEPT ![w].kids = s][u].parent = arena[u].parent
             /\ [arena EXCEPT ![w].kids = s][u].kids = IF u = w THEN s ELSE arena[u].kids
             /\ [arena EXCEPT ![w].kids = s][u].compressed = arena[u].compressed
  BY <1>1
<1> QED
  BY <1>2, <1>3 DEF Arenas, S

(* The field compressed of an entry is set. *)
LEMMA CompressedSet ==
  ASSUME NEW I, NEW C, NEW arena \in Arenas(I, C), NEW w \in I, NEW c \in C
  PROVE  /\ [arena EXCEPT ![w].compressed = c] \in Arenas(I, C)
         /\ \A u \in I :
              /\ [arena EXCEPT ![w].compressed = c][u].parent = arena[u].parent
              /\ [arena EXCEPT ![w].compressed = c][u].kids = arena[u].kids
              /\ [arena EXCEPT ![w].compressed = c][u].compressed = IF u = w THEN c ELSE arena[u].compressed
BY DEF Arenas

(* An inserted node has its parent, which has it among its children. *)
LEMMA InsertKid ==
  ASSUME NEW I, NEW C, NEW arena \in Arenas(I, C), NEW z \in I, NEW w \in I,
         NEW k \in 0 .. Len(arena[z].kids)
  PROVE  /\ insert_kid(arena, z, k, w) \in Arenas(I, C)
         /\ \A u \in I :
              /\ insert_kid(arena, z, k, w)[u].parent = IF u = w THEN z ELSE arena[u].parent
              /\ insert_kid(arena, z, k, w)[u].kids =
                   IF u = z THEN InsertAt(arena[z].kids, k + 1, w) ELSE arena[u].kids
              /\ insert_kid(arena, z, k, w)[u].compressed = arena[u].compressed
<1> DEFINE b == insert_kid(arena, z, k, w)
           s == InsertAt(arena[z].kids, k + 1, w)
           a == [arena EXCEPT ![z].kids = s]
<1>1. b = [a EXCEPT ![w].parent = z]
  BY DEF insert_kid
<1>2. arena[z].kids \in Seq(I) /\ Len(arena[z].kids) \in Nat
  <2>1. arena[z].kids \in Seq(I)
    BY EntryFields
  <2> QED
    BY <2>1, LenProperties
<1>3. k + 1 \in 1 .. Len(arena[z].kids) + 1
  BY <1>2
<1>4. s \in Seq(I)
  BY <1>2, <1>3, InsertAtFacts
<1> HIDE DEF s
<1>5. /\ a \in Arenas(I, C)
      /\ \A u \in I : /\ a[u].parent = arena[u].parent
                      /\ a[u].kids = IF u = z THEN s ELSE arena[u].kids
                      /\ a[u].compressed = arena[u].compressed
  BY <1>4, KidsSet
<1> HIDE DEF a, b
<1>6. /\ b \in Arenas(I, C)
      /\ \A u \in I : /\ b[u].parent = IF u = w THEN z ELSE a[u].parent
                      /\ b[u].kids = a[u].kids
                      /\ b[u].compressed = a[u].compressed
  <2> DEFINE c == [a EXCEPT ![w].parent = z]
  <2>1. /\ c \in Arenas(I, C)
        /\ \A u \in I : /\ c[u].parent = IF u = w THEN z ELSE a[u].parent
                        /\ c[u].kids = a[u].kids
                        /\ c[u].compressed = a[u].compressed
    BY <1>5, ParentSet
  <2> HIDE DEF c
  <2>2. b = c
    BY <1>1 DEF c
  <2> QED
    BY <2>1, <2>2
<1> QED
  BY <1>5, <1>6 DEF b, s

(* A removed node stays in the arena, but its parent has it no more. *)
LEMMA RemoveKid ==
  ASSUME NEW I, NEW C, NEW arena \in Arenas(I, C), Forest(arena), NEW w \in I,
         w \in ToSet(arena[arena[w].parent].kids)
  PROVE  /\ remove_kid(arena, w) \in Arenas(I, C)
         /\ \A u \in I :
              /\ remove_kid(arena, w)[u].parent = arena[u].parent
              /\ remove_kid(arena, w)[u].kids =
                   IF u = arena[w].parent THEN Without(arena[u].kids, w) ELSE arena[u].kids
              /\ remove_kid(arena, w)[u].compressed = arena[u].compressed
<1> DEFINE b == remove_kid(arena, w)
           p == arena[w].parent
<1>1. b = [arena EXCEPT ![p].kids = Without(arena[p].kids, w)]
  BY DEF remove_kid, rank, Without
<1>2. p \in I /\ arena[p].kids \in Seq(I) /\ IsInjective(arena[p].kids)
  <2>1. DOMAIN arena = I /\ p \in I
    BY EntryFields
  <2> HIDE DEF p
  <2>2. arena[p].kids \in Seq(I)
    BY <2>1, EntryFields
  <2>3. IsInjective(arena[p].kids)
    BY <2>1 DEF Forest
  <2> QED
    BY <2>1, <2>2, <2>3
<1>3. Without(arena[p].kids, w) \in Seq(I)
  BY <1>2, WithoutFacts
<1> HIDE DEF b, p
<1>4. /\ b \in Arenas(I, C)
      /\ \A u \in I : /\ b[u].parent = arena[u].parent
                      /\ b[u].kids = IF u = p THEN Without(arena[p].kids, w) ELSE arena[u].kids
                      /\ b[u].compressed = arena[u].compressed
  <2> DEFINE s == Without(arena[p].kids, w)
             c == [arena EXCEPT ![p].kids = s]
  <2>1. p \in I /\ s \in Seq(I)
    BY <1>2, <1>3
  <2> HIDE DEF s
  <2>2. /\ c \in Arenas(I, C)
        /\ \A u \in I : /\ c[u].parent = arena[u].parent
                        /\ c[u].kids = IF u = p THEN s ELSE arena[u].kids
                        /\ c[u].compressed = arena[u].compressed
    BY <2>1, KidsSet
  <2> HIDE DEF c
  <2>3. b = c
    BY <1>1 DEF c, s
  <2> QED
    BY <2>2, <2>3 DEF s
<1> QED
  BY <1>4 DEF b, p

(* A renaming leaves the shape as it is. *)
LEMMA Renamed ==
  ASSUME NEW I, NEW C, NEW arena \in Arenas(I, C), NEW w \in I, NEW x, compressed(dst, x) \in C
  PROVE  /\ renamed(arena, w, x) \in Arenas(I, C)
         /\ \A u \in I :
              /\ renamed(arena, w, x)[u].parent = arena[u].parent
              /\ renamed(arena, w, x)[u].kids = arena[u].kids
              /\ renamed(arena, w, x)[u].compressed =
                   IF u = w /\ renames(w, x) THEN compressed(dst, x) ELSE arena[u].compressed
<1> DEFINE b == [arena EXCEPT ![w].compressed = compressed(dst, x)]
<1>1. renamed(arena, w, x) = IF renames(w, x) THEN b ELSE arena
  BY DEF renamed
<1>2. /\ b \in Arenas(I, C)
      /\ \A u \in I : /\ b[u].parent = arena[u].parent
                      /\ b[u].kids = arena[u].kids
                      /\ b[u].compressed = IF u = w THEN compressed(dst, x) ELSE arena[u].compressed
  BY CompressedSet
<1> HIDE DEF b
<1> QED
  BY <1>1, <1>2

(***************************************************************************)
(* What an insertion, a move or an alignment does to the shape: w is put   *)
(* under z, and nothing else changes.                                      *)
(***************************************************************************)
Relocated(a, b, w, z) ==
  /\ DOMAIN b = DOMAIN a
  /\ \A u \in DOMAIN a :
       /\ b[u].parent = IF u = w THEN z ELSE a[u].parent
       /\ ToSet(b[u].kids) = (ToSet(a[u].kids) \ {w}) \cup (IF u = z THEN {w} ELSE {})
       /\ IsInjective(b[u].kids)

(* Then the copy is a forest again, and every node is at its place. *)
LEMMA RelocatedForest ==
  ASSUME NEW a, NEW b, NEW w \in DOMAIN a, NEW z \in DOMAIN a, w # z,
         Forest(a), Closed(a, DOMAIN a), \A u \in DOMAIN a : u # w => PlacedIn(a, u),
         Relocated(a, b, w, z)
  PROVE  Forest(b) /\ Closed(b, DOMAIN b) /\ \A u \in DOMAIN b : PlacedIn(b, u)
<1>1. Closed(b, DOMAIN b)
  BY DEF Closed, Relocated
<1>2. Forest(b)
  <2> SUFFICES ASSUME NEW u \in DOMAIN b
               PROVE  /\ IsInjective(b[u].kids)
                      /\ \A c \in ToSet(b[u].kids) :
                           c \in DOMAIN b /\ b[c].parent = u /\ c # u
    BY DEF Forest
  <2>1. u \in DOMAIN a /\ IsInjective(b[u].kids)
    BY DEF Relocated
  <2>2. ASSUME NEW c \in ToSet(b[u].kids) PROVE c \in DOMAIN b /\ b[c].parent = u /\ c # u
    <3>1. CASE c = w
      BY <2>1, <3>1 DEF Relocated
    <3>2. CASE c # w
      <4>1. c \in ToSet(a[u].kids)
        BY <2>1, <3>2 DEF Relocated
      <4>2. c \in DOMAIN a /\ a[c].parent = u /\ c # u
        BY <2>1, <4>1 DEF Forest
      <4> QED
        BY <3>2, <4>2 DEF Relocated
    <3> QED
      BY <3>1, <3>2
  <2> QED
    BY <2>1, <2>2
<1>3. ASSUME NEW u \in DOMAIN b PROVE PlacedIn(b, u)
  <2>1. u \in DOMAIN a /\ a[u].parent \in DOMAIN a
    BY DEF Relocated, Closed
  <2>2. CASE u = w
    BY <2>1, <2>2 DEF Relocated, PlacedIn
  <2>3. CASE u # w
    <3>1. b[u].parent = a[u].parent
      BY <2>1, <2>3 DEF Relocated
    <3>2. a[u].parent # u => u \in ToSet(a[a[u].parent].kids)
      BY <2>1, <2>3 DEF PlacedIn
    <3>3. a[u].parent # u => u \in ToSet(b[a[u].parent].kids)
      BY <2>1, <2>3, <3>2 DEF Relocated
    <3> QED
      BY <3>1, <3>3 DEF PlacedIn
  <2> QED
    BY <2>2, <2>3
<1> QED
  BY <1>1, <1>2, <1>3

(* A node is taken out of the list it is in, if there is one. *)
Cut(a, b, w) ==
  \A u \in DOMAIN a :
    /\ b[u].parent = a[u].parent
    /\ ToSet(b[u].kids) = ToSet(a[u].kids) \ {w}
    /\ IsInjective(b[u].kids)

(* remove_kid takes a node out of the only list it is in. *)
LEMMA CutOut ==
  ASSUME NEW I, NEW C, NEW arena \in Arenas(I, C), Forest(arena), NEW w \in I,
         w \in ToSet(arena[arena[w].parent].kids)
  PROVE  remove_kid(arena, w) \in Arenas(I, C) /\ Cut(arena, remove_kid(arena, w), w)
<1> DEFINE b == remove_kid(arena, w)
           p == arena[w].parent
<1>1. /\ b \in Arenas(I, C)
      /\ \A u \in I : /\ b[u].parent = arena[u].parent
                      /\ b[u].kids = IF u = p THEN Without(arena[u].kids, w) ELSE arena[u].kids
  BY RemoveKid
<1> HIDE DEF b
<1>2. ASSUME NEW u \in I
      PROVE  ToSet(b[u].kids) = ToSet(arena[u].kids) \ {w} /\ IsInjective(b[u].kids)
  <2>1. arena[u].kids \in Seq(I) /\ DOMAIN arena = I
    BY EntryFields
  <2>2. IsInjective(arena[u].kids) /\ (w \in ToSet(arena[u].kids) => u = p)
    BY <2>1 DEF Forest
  <2>3. CASE u = p
    <3>1. w \in ToSet(arena[u].kids) /\ b[u].kids = Without(arena[u].kids, w)
      BY <1>1, <2>3
    <3> QED
      BY <2>1, <2>2, <3>1, WithoutFacts
  <2>4. CASE u # p
    BY <1>1, <2>2, <2>4
  <2> QED
    BY <2>3, <2>4
<1>3. DOMAIN arena = I
  BY DEF Arenas
<1>4. Cut(arena, b, w)
  BY <1>1, <1>2, <1>3 DEF Cut
<1> QED
  BY <1>1, <1>4 DEF b

(* What was taken out is put under z. *)
LEMMA PutIn ==
  ASSUME NEW I, NEW C, NEW a \in Arenas(I, C), NEW b \in Arenas(I, C), NEW w \in I, NEW z \in I,
         Cut(a, b, w), NEW k \in 0 .. Len(b[z].kids)
  PROVE  /\ insert_kid(b, z, k, w) \in Arenas(I, C)
         /\ Relocated(a, insert_kid(b, z, k, w), w, z)
         /\ \A u \in I : insert_kid(b, z, k, w)[u].compressed = b[u].compressed
<1> DEFINE r == insert_kid(b, z, k, w)
<1>1. /\ r \in Arenas(I, C)
      /\ \A u \in I : /\ r[u].parent = IF u = w THEN z ELSE b[u].parent
                      /\ r[u].kids = IF u = z THEN InsertAt(b[z].kids, k + 1, w) ELSE b[u].kids
                      /\ r[u].compressed = b[u].compressed
  BY InsertKid
<1> HIDE DEF r
<1>2. DOMAIN a = I /\ DOMAIN r = I
  BY <1>1 DEF Arenas
<1>3. b[z].kids \in Seq(I) /\ k + 1 \in 1 .. Len(b[z].kids) + 1
  <2>1. b[z].kids \in Seq(I)
    BY EntryFields
  <2>2. Len(b[z].kids) \in Nat
    BY <2>1, LenProperties
  <2> QED
    BY <2>1, <2>2
<1>4. w \notin ToSet(b[z].kids) /\ IsInjective(b[z].kids)
  BY <1>2 DEF Cut
<1>5. /\ ToSet(InsertAt(b[z].kids, k + 1, w)) = ToSet(b[z].kids) \cup {w}
      /\ IsInjective(InsertAt(b[z].kids, k + 1, w))
  <2> DEFINE s == b[z].kids
             j == k + 1
  <2> HIDE DEF s, j
  <2>1. s \in Seq(I) /\ j \in 1 .. Len(s) + 1 /\ w \notin ToSet(s) /\ IsInjective(s)
    BY <1>3, <1>4 DEF s, j
  <2>2. /\ ToSet(InsertAt(s, j, w)) = ToSet(s) \cup {w}
        /\ IsInjective(InsertAt(s, j, w))
    BY <2>1, InsertAtFacts
  <2> QED
    BY <2>2 DEF s, j
<1>6. ASSUME NEW u \in I
      PROVE  /\ r[u].parent = IF u = w THEN z ELSE a[u].parent
             /\ ToSet(r[u].kids) = (ToSet(a[u].kids) \ {w}) \cup (IF u = z THEN {w} ELSE {})
             /\ IsInjective(r[u].kids)
  <2>1. /\ b[u].parent = a[u].parent /\ ToSet(b[u].kids) = ToSet(a[u].kids) \ {w}
        /\ IsInjective(b[u].kids)
    BY <1>2 DEF Cut
  <2>2. CASE u = z
    BY <1>1, <1>5, <2>1, <2>2
  <2>3. CASE u # z
    BY <1>1, <2>1, <2>3
  <2> QED
    BY <2>2, <2>3
<1>7. Relocated(a, r, w, z)
  BY <1>2, <1>6 DEF Relocated
<1> QED
  BY <1>1, <1>7 DEF r

(* The copy of src is a forest of one tree. *)
LEMMA CopyFacts ==
  ASSUME NEW t, IsTree(t), NEW C, \A x \in nodes(t) : compressed(t, x) \in C
  PROVE  /\ copy(t) \in Arenas(nodes(t), C) /\ Forest(copy(t))
         /\ \A x \in nodes(t) : /\ PlacedIn(copy(t), x)
                                /\ copy(t)[x].parent = x <=> x = root(t)
                                /\ copy(t)[x].compressed = compressed(t, x)
<1> DEFINE a == copy(t)
<1>1. ASSUME NEW x \in nodes(t)
      PROVE  /\ a[x].parent = IF x = root(t) THEN x ELSE parent(t, x)
             /\ a[x].kids = ChildSeq(t, x) /\ a[x].compressed = compressed(t, x)
  BY DEF copy
<1>2. DOMAIN a = nodes(t)
  BY DEF copy
<1>3. ASSUME NEW x \in nodes(t)
      PROVE  /\ ChildSeq(t, x) \in Seq(nodes(t)) /\ IsInjective(ChildSeq(t, x))
             /\ ToSet(ChildSeq(t, x)) = children(t, x)
             /\ \A c \in children(t, x) : c \in nodes(t) /\ c # root(t) /\ c # x /\ parent(t, c) = x
  <2>1. /\ ChildSeq(t, x) \in Seq(children(t, x)) /\ IsInjective(ChildSeq(t, x))
        /\ ToSet(ChildSeq(t, x)) = children(t, x)
    <3>1. Listed(ChildSeq(t, x), children(t, x))
      BY ChildSeqListed
    <3>2. DOMAIN ChildSeq(t, x) = 1 .. Len(ChildSeq(t, x))
      BY <3>1 DEF Listed
    <3> QED
      BY <3>1, <3>2 DEF Listed, IsInjective
  <2>2. ASSUME NEW c \in children(t, x)
        PROVE  c \in nodes(t) /\ c # root(t) /\ c # x /\ parent(t, c) = x
    <3>1. c \in nodes(t) /\ c < x
      BY ChildSubtree
    <3>2. x \in Int /\ x <= root(t) /\ c \in Int
      BY <3>1, NodeTypes
    <3>3. parent(t, c) = x
      BY DEF children, parent
    <3>4. root(t) \in Int
      BY RootIsNode, NodeTypes
    <3> QED
      BY <3>1, <3>2, <3>3, <3>4
  <2>3. children(t, x) \subseteq nodes(t)
    BY <2>2
  <2>4. ChildSeq(t, x) \in Seq(nodes(t))
    BY <2>1, <2>3
  <2> QED
    BY <2>1, <2>2, <2>4
<1>4. ASSUME NEW x \in nodes(t), x # root(t)
      PROVE  parent(t, x) \in nodes(t) /\ parent(t, x) # x /\ x \in children(t, parent(t, x))
  <2>1. parent(t, x) \in nodes(t) /\ x < parent(t, x) /\ x \in children(t, parent(t, x))
    BY <1>4, ParentFacts
  <2>2. x \in Int
    BY NodeTypes
  <2> QED
    BY <2>1, <2>2
<1>5. a \in Arenas(nodes(t), C)
  <2>1. ASSUME NEW x \in nodes(t)
        PROVE  [parent |-> IF x = root(t) THEN x ELSE parent(t, x),
                kids |-> ChildSeq(t, x), compressed |-> compressed(t, x)]
                 \in [parent : nodes(t), kids : Seq(nodes(t)), compressed : C]
    BY <1>3, <1>4
  <2> QED
    BY <2>1 DEF copy, Arenas
<1> HIDE DEF a
<1>6. Forest(a)
  <2> SUFFICES ASSUME NEW x \in nodes(t)
               PROVE  /\ IsInjective(a[x].kids)
                      /\ \A c \in ToSet(a[x].kids) : c \in nodes(t) /\ a[c].parent = x /\ c # x
    BY <1>2 DEF Forest
  <2> QED
    BY <1>1, <1>3
<1>7. ASSUME NEW x \in nodes(t)
      PROVE  PlacedIn(a, x) /\ (a[x].parent = x <=> x = root(t))
  <2>1. CASE x = root(t)
    BY <1>1, <2>1 DEF PlacedIn
  <2>2. CASE x # root(t)
    <3>1. a[x].parent = parent(t, x)
      BY <1>1, <2>2
    <3>2. parent(t, x) \in nodes(t) /\ parent(t, x) # x /\ x \in children(t, parent(t, x))
      BY <1>4, <2>2
    <3>3. ToSet(a[parent(t, x)].kids) = children(t, parent(t, x))
      BY <1>1, <1>3, <3>2
    <3> QED
      BY <2>2, <3>1, <3>2, <3>3 DEF PlacedIn
  <2> QED
    BY <2>1, <2>2
<1> QED
  BY <1>1, <1>5, <1>6, <1>7 DEF a

-----------------------------------------------------------------------------
(***************************************************************************)
(* The invariant.  Edits: the arena, the store and the cursors are of      *)
(* their kinds.                                                            *)
(***************************************************************************)
N == Cardinality(Ids)
Contents == {compressed(src, x) : x \in nodes(src)} \cup {compressed(dst, x) : x \in nodes(dst)}
visited == nodes(dst) \ ToSet(unvisited)
partner(d) == get_src_unchecked(cpy_mappings, d)

ArenaTyped ==
  /\ N \in Nat /\ Ids = 0 .. N - 1 /\ src.len <= N
  /\ mid_arena \in Arenas(Ids, Contents)
  /\ mid_root \in Seq(Ids) /\ mid_root # <<>>
StoreTyped ==
  /\ cpy_mappings.src_to_dst \in [0 .. N -> 0 .. dst.len]
  /\ cpy_mappings.dst_to_src \in [0 .. dst.len + (N - src.len) -> 0 .. N]
CursorsTyped ==
  /\ dst_in_order \subseteq nodes(dst)
  /\ unvisited \in Seq(nodes(dst)) /\ IsInjective(unvisited) /\ ParentsFirst(dst, unvisited)
  /\ to_move \in Seq(nodes(src)) /\ IsInjective(to_move)
Typed ==
  /\ Matched(src, dst, ori_mappings)
  /\ ArenaTyped /\ StoreTyped /\ CursorsTyped
  /\ pc \in {"ins_mov_upd", "del", "done"} \cup Failures

(* The copy of the mappings keeps them, and knows every inserted node. *)
Extends ==
  /\ \A s \in nodes(src) : cpy_mappings.src_to_dst[s] = ori_mappings.src_to_dst[s]
  /\ \A d \in nodes(dst) : is_dst(ori_mappings, d) \/ d \in ToSet(unvisited) =>
       cpy_mappings.dst_to_src[d] = ori_mappings.dst_to_src[d]
  /\ \A w \in Ids \ nodes(src) : \E d \in visited : has(cpy_mappings, w, d)

(* The mid arena is a forest, in which only what del removed is nowhere. *)
Shape ==
  /\ Forest(mid_arena)
  /\ \A u \in Ids : PlacedIn(mid_arena, u) \/ (pc \in {"del", "done"} /\ ~is_src(cpy_mappings, u))

(* Before the first turn everything is as in src; after it, the last root  *)
(* is the partner of the root of dst.                                      *)
Roots ==
  /\ root(dst) \in ToSet(unvisited) =>
       /\ unvisited = iter_bf(dst) /\ mid_arena = copy(src)
       /\ mid_root = <<root(src)>> /\ to_move = <<>>
  /\ root(dst) \in visited => Last(mid_root) = partner(root(dst))

(* The partner of d is under the partner of its parent, which is visited. *)
AtPlace(d) ==
  /\ partner(d) \in Ids /\ has(cpy_mappings, partner(d), d)
  /\ mid_parent(partner(d)) = wanted_parent(d)
  /\ d # root(dst) => parent(dst, d) \in visited
Settled ==
  \A y \in visited :
    /\ AtPlace(y)
    /\ mid_arena[partner(y)].compressed.label = dst.label[y]
    /\ y # root(dst) /\ partner(y) # root(src) =>
         mid_arena[partner(y)].compressed.type = dst.type[y]
Untouched ==
  \A w \in nodes(src) :
    mid_arena[w].compressed = compressed(src, w) \/ \E y \in visited : has(cpy_mappings, w, y)
InOrder == \A c \in dst_in_order : AtPlace(c)

(* A node is moved to the place of its partner, and stays there. *)
Moves == {i \in DOMAIN actions : actions[i].by \in {"move", "align"}}
MovedToPlace ==
  \A i \in Moves : \E d \in nodes(dst) \ {root(dst)} :
    actions[i].node = partner(d) /\ AtPlace(d)
ToMove ==
  /\ to_move # <<>> => pc = "ins_mov_upd"
  /\ \A c \in ToSet(to_move) :
       /\ \E d \in ToSet(unvisited) : has(ori_mappings, c, d) /\ d # root(dst) /\ AtPlace(d)
       /\ \A i \in Moves : actions[i].node # c

(* del goes down from the last root, and what it has left is mapped. *)
Phases ==
  /\ pc \in {"del", "done"} => unvisited = <<>> /\ to_move = <<>>
  /\ stack # <<>> => pc = "del"
Stacked ==
  /\ stack \in Seq([id : Ids, idx : Nat])
  /\ stack # <<>> => stack[1].id = Last(mid_root)
  /\ \A i \in 1 .. Len(stack) :
       /\ stack[i].idx <= Len(kids_of(stack[i]))
       /\ i < Len(stack) => stack[i].idx > 0 /\ stack[i + 1].id = kids_of(stack[i])[stack[i].idx]
       /\ \A j \in 1 .. stack[i].idx :
            j < stack[i].idx \/ i = Len(stack) => is_src(cpy_mappings, kids_of(stack[i])[j])
       /\ \A j \in 1 .. Len(stack) : stack[i].id = stack[j].id => i = j

-----------------------------------------------------------------------------
(* What is left of a list without its head. *)
LEMMA HeadTail ==
  ASSUME NEW S, NEW q \in Seq(S), q # <<>>, IsInjective(q)
  PROVE  /\ Head(q) \in S /\ Head(q) \in ToSet(q) /\ Head(q) = q[1]
         /\ Tail(q) \in Seq(S) /\ IsInjective(Tail(q))
         /\ ToSet(Tail(q)) = ToSet(q) \ {Head(q)}
         /\ Len(q) \in Nat /\ Len(q) > 0 /\ Len(Tail(q)) = Len(q) - 1
         /\ \A i \in 1 .. Len(q) - 1 : Tail(q)[i] = q[i + 1]
<1> DEFINE n == Len(q)
           t == Tail(q)
<1>1. n \in Nat /\ n > 0 /\ DOMAIN q = 1 .. n
  BY EmptySeq, LenProperties
<1>2. /\ t \in Seq(S) /\ Len(t) = n - 1
      /\ \A i \in 1 .. n - 1 : t[i] = q[i + 1]
  BY HeadTailProperties
<1>3. Head(q) = q[1] /\ q[1] \in S
  BY <1>1, HeadTailProperties
<1> HIDE DEF n, t
<1>4. DOMAIN t = 1 .. n - 1
  BY <1>1, <1>2, LenProperties
<1>5. IsInjective(t)
  <2> SUFFICES ASSUME NEW i \in 1 .. n - 1, NEW j \in 1 .. n - 1, t[i] = t[j] PROVE i = j
    BY <1>4 DEF IsInjective
  <2>1. i + 1 \in 1 .. n /\ j + 1 \in 1 .. n /\ q[i + 1] = q[j + 1]
    BY <1>1, <1>2
  <2>2. i + 1 = j + 1
    BY <1>1, <2>1 DEF IsInjective
  <2> QED
    BY <1>1, <2>2
<1>6. ToSet(t) = ToSet(q) \ {q[1]}
  <2>1. ASSUME NEW i \in 1 .. n - 1 PROVE t[i] \in ToSet(q) \ {q[1]}
    <3>1. i + 1 \in 1 .. n /\ 1 \in 1 .. n /\ i + 1 # 1 /\ t[i] = q[i + 1]
      BY <1>1, <1>2
    <3> QED
      BY <1>1, <3>1 DEF ToSet, IsInjective
  <2>2. ASSUME NEW j \in 1 .. n, q[j] # q[1] PROVE q[j] \in ToSet(t)
    <3>1. j - 1 \in 1 .. n - 1 /\ (j - 1) + 1 = j
      BY <1>1, <2>2
    <3>2. t[j - 1] = q[j]
      BY <1>2, <3>1
    <3> QED
      BY <1>4, <3>1, <3>2 DEF ToSet
  <2>3. ToSet(t) \subseteq ToSet(q) \ {q[1]}
    BY <1>4, <2>1 DEF ToSet
  <2>4. ToSet(q) \ {q[1]} \subseteq ToSet(t)
    BY <1>1, <2>2 DEF ToSet
  <2> QED
    BY <2>3, <2>4
<1>7. Head(q) \in ToSet(q)
  BY <1>1, <1>3 DEF ToSet
<1> QED
  BY <1>1, <1>2, <1>3, <1>5, <1>6, <1>7 DEF n, t

(* The two trees and the store between them. *)
LEMMA TreeFacts ==
  ASSUME Typed
  PROVE  /\ IsTree(src) /\ IsTree(dst) /\ root(src) \in nodes(src) /\ root(dst) \in nodes(dst)
         /\ src.len \in Nat /\ nodes(src) = 0 .. src.len - 1
         /\ dst.len \in Nat /\ nodes(dst) = 0 .. dst.len - 1
         /\ nodes(src) \subseteq Ids /\ Ids \subseteq Nat /\ NoNode \notin Ids
         /\ ori_mappings.src_to_dst \in [0 .. src.len -> 0 .. dst.len]
         /\ ori_mappings.dst_to_src \in [0 .. dst.len -> 0 .. src.len]
<1>1. IsTree(src) /\ IsTree(dst) /\ ori_mappings \in Stores(src.len, dst.len)
  BY DEF Typed, Matched
<1>2. root(src) \in nodes(src) /\ root(dst) \in nodes(dst)
  BY <1>1, RootIsNode
<1>3. src.len \in Nat /\ dst.len \in Nat
  BY <1>1 DEF IsTree, TreeShape
<1>4. nodes(src) = 0 .. src.len - 1 /\ nodes(dst) = 0 .. dst.len - 1
  BY DEF nodes, root
<1>5. N \in Nat /\ Ids = 0 .. N - 1 /\ src.len <= N
  BY DEF Typed, ArenaTyped
<1>6. nodes(src) \subseteq Ids /\ Ids \subseteq Nat /\ NoNode \notin Ids
  BY <1>3, <1>4, <1>5 DEF NoNode
<1>7. /\ ori_mappings.src_to_dst \in [0 .. src.len -> 0 .. dst.len]
      /\ ori_mappings.dst_to_src \in [0 .. dst.len -> 0 .. src.len]
  BY <1>1 DEF Stores
<1> QED
  BY <1>1, <1>2, <1>3, <1>4, <1>6, <1>7

(* The node of a turn is the next of dst, and its parent had its turn. *)
LEMMA VisitFacts ==
  ASSUME Typed, NEW x, Visiting(x)
  PROVE  /\ x \in nodes(dst) /\ x \in ToSet(unvisited) /\ x \notin visited
         /\ x # root(dst) => /\ parent(dst, x) \in nodes(dst) /\ parent(dst, x) \in visited
                             /\ parent(dst, x) # x
         /\ \A c \in children(dst, x) : /\ c \in nodes(dst) /\ c # x /\ c # root(dst)
                                        /\ parent(dst, c) = x
         /\ pc = "ins_mov_upd" /\ to_move = <<>>
<1>1. /\ unvisited \in Seq(nodes(dst)) /\ IsInjective(unvisited) /\ unvisited # <<>>
      /\ ParentsFirst(dst, unvisited) /\ x = Head(unvisited)
  BY DEF Visiting, Typed, CursorsTyped
<1>2. /\ x \in nodes(dst) /\ x \in ToSet(unvisited) /\ x = unvisited[1]
      /\ Len(unvisited) \in Nat /\ Len(unvisited) > 0
  BY <1>1, HeadTail
<1>3. IsTree(dst)
  BY TreeFacts
<1>4. ASSUME x # root(dst)
      PROVE  parent(dst, x) \in nodes(dst) /\ parent(dst, x) \in visited /\ parent(dst, x) # x
  <2>1. parent(dst, x) \in nodes(dst) /\ x < parent(dst, x) /\ x \in Int
    BY <1>2, <1>3, <1>4, ParentFacts, NodeTypes
  <2>2. \A j \in 1 .. Len(unvisited) : unvisited[j] # parent(dst, x)
    <3>1. ASSUME NEW j \in 1 .. Len(unvisited) PROVE unvisited[j] # parent(dst, unvisited[1])
      <4>1. 1 \in 1 .. Len(unvisited) /\ 1 <= j
        BY <1>2
      <4> QED
        BY <1>1, <4>1 DEF ParentsFirst
    <3> QED
      BY <1>2, <3>1
  <2>3. parent(dst, x) \notin ToSet(unvisited)
    BY <1>1, <2>2 DEF ToSet
  <2> QED
    BY <2>1, <2>3 DEF visited
<1>5. ASSUME NEW c \in children(dst, x)
      PROVE  c \in nodes(dst) /\ c # x /\ c # root(dst) /\ parent(dst, c) = x
  <2>1. c \in nodes(dst) /\ c < x
    BY <1>2, <1>3, ChildSubtree
  <2>2. x \in Int /\ c \in Int /\ x <= root(dst) /\ root(dst) \in Int
    BY <1>2, <1>3, <2>1, NodeTypes, RootIsNode
  <2>3. parent(dst, c) = x
    BY DEF children, parent
  <2> QED
    BY <2>1, <2>2, <2>3
<1> QED
  BY <1>2, <1>4, <1>5 DEF visited, Visiting

(***************************************************************************)
(* The end of a turn.  A child of x that is in order then, and one that is *)
(* to be moved, is the partner of a child of w.                            *)
(***************************************************************************)
LEMMA EndTurnFacts ==
  ASSUME Typed, NEW x, Visiting(x), NEW I, I \subseteq Nat, NEW C, NEW arena \in Arenas(I, C),
         NEW w \in I, IsInjective(arena[w].kids), NEW ms, EndTurn(arena, ms, w, x)
  PROVE  /\ mid_arena' = arena /\ cpy_mappings' = ms
         /\ src' = src /\ dst' = dst /\ ori_mappings' = ori_mappings
         /\ stack' = stack /\ pc' = pc
         /\ unvisited' \in Seq(nodes(dst)) /\ IsInjective(unvisited')
         /\ ParentsFirst(dst, unvisited') /\ ToSet(unvisited') = ToSet(unvisited) \ {x}
         /\ visited' = visited \cup {x}
         /\ \A c \in dst_in_order' :
              \/ c = x \/ c \in dst_in_order
              \/ c \in children(dst, x) /\ \E a \in ToSet(arena[w].kids) : has(ms, a, c)
         /\ to_move' \in Seq(nodes(src)) /\ IsInjective(to_move')
         /\ \A c \in ToSet(to_move') :
              /\ c \in ToSet(arena[w].kids)
              /\ \E d \in children(dst, x) : has(ori_mappings, c, d)
<1>1. /\ mid_arena' = arena /\ cpy_mappings' = ms
      /\ src' = src /\ dst' = dst /\ ori_mappings' = ori_mappings
      /\ stack' = stack /\ pc' = pc /\ unvisited' = Tail(unvisited)
  BY DEF EndTurn, given
<1>2. /\ unvisited \in Seq(nodes(dst)) /\ IsInjective(unvisited) /\ unvisited # <<>>
      /\ ParentsFirst(dst, unvisited) /\ x = Head(unvisited)
  BY DEF Visiting, Typed, CursorsTyped
<1>3. /\ unvisited' \in Seq(nodes(dst)) /\ IsInjective(unvisited')
      /\ ToSet(unvisited') = ToSet(unvisited) \ {x}
      /\ Len(unvisited) \in Nat /\ Len(unvisited') = Len(unvisited) - 1
      /\ \A i \in 1 .. Len(unvisited) - 1 : unvisited'[i] = unvisited[i + 1]
  BY <1>1, <1>2, HeadTail
<1>4. ParentsFirst(dst, unvisited')
  <2> SUFFICES ASSUME NEW i \in 1 .. Len(unvisited) - 1, NEW j \in 1 .. Len(unvisited) - 1, i <= j
               PROVE  unvisited'[j] # parent(dst, unvisited'[i])
    BY <1>3 DEF ParentsFirst
  <2>1. i + 1 \in 1 .. Len(unvisited) /\ j + 1 \in 1 .. Len(unvisited) /\ i + 1 <= j + 1
    BY <1>3
  <2>2. unvisited[j + 1] # parent(dst, unvisited[i + 1])
    BY <1>2, <2>1 DEF ParentsFirst
  <2> QED
    BY <1>3, <2>2
<1>5. visited' = visited \cup {x}
  <2>1. x \in nodes(dst) /\ x \in ToSet(unvisited)
    BY VisitFacts
  <2> QED
    BY <1>1, <1>3, <2>1 DEF visited
<1> DEFINE s1 == kept_src(arena, ms, w, x)
           s2 == kept_dst(arena, ms, w, x)
           common == lcs(ms, s1, s2)
           kids == arena[w].kids
<1>6. /\ dst_in_order' = in_order_after(x, common)
      /\ to_move' = misplaced(kids, s1, s2, common)
  BY DEF EndTurn
<1>7. kids \in Seq(I) /\ IsInjective(kids)
  BY EntryFields
<1>8. s1 \in Seq(ToSet(kids)) /\ ToSet(s1) \subseteq ToSet(kids) /\ IsInjective(s1)
  <2> DEFINE S == {c \in ToSet(kids) :
                     is_src(ms, c) /\ get_dst_unchecked(ms, c) \in children(dst, x)}
  <2>1. s1 = only(kids, S)
    BY DEF kept_src
  <2> HIDE DEF s1, kids
  <2>2. /\ only(kids, S) \in Seq(S \cap ToSet(kids)) /\ ToSet(only(kids, S)) = S \cap ToSet(kids)
        /\ IsInjective(only(kids, S))
    BY <1>7, OnlyKeeps
  <2>3. S \cap ToSet(kids) \subseteq ToSet(kids)
    OBVIOUS
  <2> HIDE DEF S
  <2>4. Seq(S \cap ToSet(kids)) \subseteq Seq(ToSet(kids))
    BY <2>3
  <2> QED
    BY <2>1, <2>2, <2>3, <2>4
<1>9. s2 \in Seq(children(dst, x)) /\ ToSet(s2) \subseteq children(dst, x)
  <2> DEFINE S == {c \in children(dst, x) :
                     is_dst(ms, c) /\ get_src_unchecked(ms, c) \in ToSet(kids)}
  <2>1. s2 = increasing(S)
    BY DEF kept_dst
  <2> HIDE DEF s2
  <2>2. S \subseteq 0 .. dst.len /\ dst.len \in Nat
    <3>1. dst.len \in Nat /\ nodes(dst) = 0 .. dst.len - 1
      BY TreeFacts
    <3>2. \A c \in children(dst, x) : c \in nodes(dst)
      BY VisitFacts
    <3> QED
      BY <3>1, <3>2
  <2>3. Listed(increasing(S), S)
    <3> HIDE DEF S
    <3> QED
      BY <2>2, Increasing
  <2>4. S \subseteq children(dst, x)
    OBVIOUS
  <2> HIDE DEF S
  <2>5. increasing(S) \in Seq(S) /\ ToSet(increasing(S)) = S
    BY <2>3 DEF Listed
  <2>6. Seq(S) \subseteq Seq(children(dst, x))
    BY <2>4
  <2> QED
    BY <2>1, <2>4, <2>5, <2>6
<1> HIDE DEF s1, s2, kids
<1> DEFINE equal == {p \in ToSet(s1) \X ToSet(s2) : has(ms, p[1], p[2])}
<1>10. common \in Seq(equal)
  <2>1. common = longest_common_subsequence(s1, s2, equal)
    BY DEF lcs
  <2> HIDE DEF equal, common
  <2> QED
    BY <1>8, <1>9, <2>1, LcsEqual
<1>11. \A m \in ToSet(common) : m \in equal
  <2> HIDE DEF common, equal
  <2> QED
    BY <1>10 DEF ToSet
<1> HIDE DEF common
<1>12. \A c \in dst_in_order' :
              \/ c = x \/ c \in dst_in_order
              \/ c \in children(dst, x) /\ \E a \in ToSet(arena[w].kids) : has(ms, a, c)
  <2> SUFFICES ASSUME NEW c \in dst_in_order', c # x, c \notin dst_in_order
               PROVE  c \in children(dst, x) /\ \E a \in ToSet(arena[w].kids) : has(ms, a, c)
    OBVIOUS
  <2>1. PICK m \in ToSet(common) : c = m[2]
    BY <1>6 DEF in_order_after
  <2>2. m[1] \in ToSet(s1) /\ m[2] \in ToSet(s2) /\ has(ms, m[1], m[2])
    BY <1>11
  <2> QED
    BY <1>8, <1>9, <2>1, <2>2 DEF kids
<1> DEFINE out == {a \in ToSet(s1) :
              LET b == get_dst_unchecked(ori_mappings, a)
              IN  /\ has(ori_mappings, a, b) /\ b \in ToSet(s2)
                  /\ <<a, b>> \notin ToSet(common)}
<1>13. to_move' = only(s1, out)
  BY <1>6 DEF misplaced
<1>14. /\ only(s1, out) \in Seq(out \cap ToSet(s1)) /\ ToSet(only(s1, out)) = out \cap ToSet(s1)
       /\ IsInjective(only(s1, out))
  <2> HIDE DEF out
  <2> QED
    BY <1>8, OnlyKeeps
<1>15. ASSUME NEW c \in out
       PROVE  /\ c \in ToSet(kids) /\ c \in nodes(src)
              /\ \E d \in children(dst, x) : has(ori_mappings, c, d)
  <2> DEFINE b == get_dst_unchecked(ori_mappings, c)
  <2>1. c \in ToSet(s1) /\ has(ori_mappings, c, b) /\ b \in ToSet(s2)
    OBVIOUS
  <2> HIDE DEF b
  <2>2. b \in children(dst, x) /\ b \in nodes(dst)
    BY <1>9, <2>1, VisitFacts
  <2>3. ori_mappings.dst_to_src[b] = c + 1 /\ ori_mappings.dst_to_src[b] \in 0 .. src.len
    <3>1. ori_mappings.dst_to_src[b] = c + 1
      BY <2>1 DEF has
    <3>2. b \in 0 .. dst.len
      BY <2>2, TreeFacts
    <3>3. ori_mappings.dst_to_src \in [0 .. dst.len -> 0 .. src.len]
      BY TreeFacts
    <3>4. ori_mappings.dst_to_src[b] \in 0 .. src.len
      BY <3>2, <3>3, Zenon
    <3> QED
      BY <3>1, <3>4
  <2>4. c \in ToSet(kids)
    BY <1>8, <2>1
  <2>5. c \in nodes(src)
    <3>1. src.len \in Nat /\ nodes(src) = 0 .. src.len - 1
      BY TreeFacts
    <3>2. c \in Nat
      BY <2>4, EntryFields DEF kids
    <3> QED
      BY <2>3, <3>1, <3>2
  <2> QED
    BY <2>1, <2>2, <2>4, <2>5
<1> HIDE DEF out
<1>16. /\ to_move' \in Seq(nodes(src)) /\ IsInjective(to_move')
       /\ \A c \in ToSet(to_move') : c \in out
  <2>1. out \cap ToSet(s1) \subseteq nodes(src)
    BY <1>15
  <2>2. Seq(out \cap ToSet(s1)) \subseteq Seq(nodes(src))
    BY <2>1
  <2> QED
    BY <1>13, <1>14, <2>2
<1> QED
  BY <1>1, <1>3, <1>4, <1>5, <1>12, <1>15, <1>16 DEF kids

-----------------------------------------------------------------------------
Inv ==
  /\ Typed /\ Extends /\ Shape /\ Roots
  /\ Settled /\ Untouched /\ InOrder
  /\ MovedToPlace /\ MovesOnce /\ ToMove /\ (\E S : actions \in Seq(S))
  /\ Phases /\ Stacked

(***************************************************************************)
(* What the turns have in common: w becomes, or already is, the partner of *)
(* x, it is put under the partner of the parent of x, and at most the last *)
(* of the emitted actions moves it there.                                  *)
(***************************************************************************)
Turn(x, w, acts) ==
  /\ Visiting(x) /\ EndTurn(mid_arena', cpy_mappings', w, x)
  /\ ArenaTyped' /\ StoreTyped' /\ Ids' = Ids \cup {w}
  /\ \A u \in Ids \ {w} : /\ mid_arena'[u].parent = mid_arena[u].parent
                          /\ mid_arena'[u].compressed = mid_arena[u].compressed
                          /\ cpy_mappings'.src_to_dst[u] = cpy_mappings.src_to_dst[u]
  /\ \A d \in nodes(dst) \ {x} : cpy_mappings'.dst_to_src[d] = cpy_mappings.dst_to_src[d]
  /\ has(cpy_mappings', w, x)
  /\ IF w \in Ids THEN has(cpy_mappings, w, x) /\ cpy_mappings' = cpy_mappings
     ELSE ~is_dst(cpy_mappings, x)
  /\ mid_arena'[w].parent = IF x = root(dst) THEN w ELSE partner(parent(dst, x))
  /\ mid_arena'[w].compressed.label = dst.label[x]
  /\ x # root(dst) /\ w # root(src) => mid_arena'[w].compressed.type = dst.type[x]
  /\ Forest(mid_arena') /\ \A u \in Ids' : PlacedIn(mid_arena', u)
  /\ IF x = root(dst) THEN Last(mid_root') = w ELSE mid_root' = mid_root
  /\ actions' = actions \o acts /\ \E S : acts \in Seq(S)
  /\ \A i \in DOMAIN acts : acts[i].by \in {"move", "align"} =>
       i = Len(acts) /\ acts[i].node = w /\ x # root(dst) /\ ~AtPlace(x)

(* The cursors after a turn. *)
LEMMA TurnFacts ==
  ASSUME Typed, NEW x, NEW w, NEW acts, Turn(x, w, acts)
  PROVE  /\ src' = src /\ dst' = dst /\ ori_mappings' = ori_mappings
         /\ stack' = stack /\ pc' = pc
         /\ unvisited' \in Seq(nodes(dst)) /\ IsInjective(unvisited')
         /\ ParentsFirst(dst, unvisited') /\ ToSet(unvisited') = ToSet(unvisited) \ {x}
         /\ visited' = visited \cup {x}
         /\ \A c \in dst_in_order' :
              \/ c = x \/ c \in dst_in_order
              \/ c \in children(dst, x) /\ \E a \in ToSet(mid_arena'[w].kids) : has(cpy_mappings', a, c)
         /\ to_move' \in Seq(nodes(src)) /\ IsInjective(to_move')
         /\ \A c \in ToSet(to_move') :
              /\ c \in ToSet(mid_arena'[w].kids)
              /\ \E d \in children(dst, x) : has(ori_mappings, c, d)
         /\ w \in Ids' /\ Ids' \subseteq Nat
<1> DEFINE I == Ids'
           arena == mid_arena'
           ms == cpy_mappings'
<1>1. Visiting(x) /\ EndTurn(arena, ms, w, x)
  BY DEF Turn
<1>2. w \in I /\ I \subseteq Nat /\ arena \in Arenas(I, Contents')
  <2>1. w \in I /\ ArenaTyped'
    BY DEF Turn
  <2>2. N' \in Nat /\ I = 0 .. N' - 1 /\ arena \in Arenas(I, Contents')
    BY <2>1 DEF ArenaTyped
  <2> DEFINE M == N'
  <2> HIDE DEF I, arena, M
  <2>3. M \in Nat /\ I = 0 .. M - 1
    BY <2>2 DEF M
  <2>4. I \subseteq Nat
    BY <2>3
  <2> QED
    BY <2>1, <2>2, <2>4
<1>3. IsInjective(arena[w].kids)
  <2>1. Forest(mid_arena') /\ w \in DOMAIN mid_arena'
    BY DEF Turn, Ids
  <2> QED
    BY <2>1 DEF Forest
<1> DEFINE C == Contents'
<1>4. w \in I /\ I \subseteq Nat /\ arena \in Arenas(I, C)
  BY <1>2
<1> HIDE DEF I, C, arena, ms
<1>5. /\ src' = src /\ dst' = dst /\ ori_mappings' = ori_mappings
      /\ stack' = stack /\ pc' = pc
      /\ unvisited' \in Seq(nodes(dst)) /\ IsInjective(unvisited')
      /\ ParentsFirst(dst, unvisited') /\ ToSet(unvisited') = ToSet(unvisited) \ {x}
      /\ visited' = visited \cup {x}
      /\ \A c \in dst_in_order' :
           \/ c = x \/ c \in dst_in_order
           \/ c \in children(dst, x) /\ \E a \in ToSet(arena[w].kids) : has(ms, a, c)
      /\ to_move' \in Seq(nodes(src)) /\ IsInjective(to_move')
      /\ \A c \in ToSet(to_move') :
           /\ c \in ToSet(arena[w].kids)
           /\ \E d \in children(dst, x) : has(ori_mappings, c, d)
  BY <1>1, <1>3, <1>4, EndTurnFacts
<1> QED
  BY <1>4, <1>5 DEF I, arena, ms

(* Who is at its place stays there, x comes to its place, and so do the    *)
(* children of x whose partners are children of w.                         *)
LEMMA TurnPlaces ==
  ASSUME Inv, NEW x, NEW w, NEW acts, Turn(x, w, acts)
  PROVE  /\ \A d \in nodes(dst) : AtPlace(d) => AtPlace(d)'
         /\ AtPlace(x)'
         /\ \A c \in children(dst, x), a \in ToSet(mid_arena'[w].kids) :
              has(cpy_mappings', a, c) => AtPlace(c)' /\ partner(c)' = a
         /\ \A d \in nodes(dst), u \in Ids : has(cpy_mappings, u, d) /\ d # x => u # w
<1>1. Typed /\ Settled /\ Visiting(x)
  BY DEF Inv, Turn
<1>2. /\ dst' = dst /\ visited' = visited \cup {x} /\ w \in Ids' /\ Ids \subseteq Ids'
      /\ Ids' \subseteq Nat
  BY <1>1, TurnFacts, SMTT(20) DEF Turn
<1>3. /\ x \in nodes(dst) /\ x \notin visited
      /\ x # root(dst) => /\ parent(dst, x) \in nodes(dst) /\ parent(dst, x) \in visited
                          /\ parent(dst, x) # x
      /\ \A c \in children(dst, x) : /\ c \in nodes(dst) /\ c # x /\ c # root(dst)
                                     /\ parent(dst, c) = x
  BY <1>1, VisitFacts
<1>4. Ids \subseteq Nat /\ NoNode \notin Ids /\ nodes(dst) \subseteq Int
  <2>1. nodes(dst) = 0 .. dst.len - 1 /\ Ids \subseteq Nat /\ NoNode \notin Ids
    BY <1>1, TreeFacts
  <2> QED
    BY <2>1
<1>5. ASSUME NEW d \in nodes(dst), NEW u \in Ids, has(cpy_mappings, u, d), d # x PROVE u # w
  <2> SUFFICES ASSUME u = w PROVE FALSE
    OBVIOUS
  <2>1. has(cpy_mappings, w, x)
    BY DEF Turn
  <2>2. cpy_mappings.src_to_dst[w] = d + 1 /\ cpy_mappings.src_to_dst[w] = x + 1
    BY <1>5, <2>1 DEF has
  <2> QED
    BY <1>3, <1>4, <1>5, <2>2
<1>6. ASSUME NEW d \in nodes(dst), AtPlace(d), d # x PROVE AtPlace(d)'
  <2> DEFINE p == partner(d)
  <2>1. /\ p \in Ids /\ has(cpy_mappings, p, d) /\ mid_parent(p) = wanted_parent(d)
        /\ d # root(dst) => parent(dst, d) \in visited
    BY <1>6 DEF AtPlace
  <2>2. p # w
    BY <1>5, <1>6, <2>1
  <2>3. cpy_mappings'.dst_to_src[d] = cpy_mappings.dst_to_src[d]
    BY <1>6 DEF Turn
  <2>4. partner(d)' = p
    BY <2>3 DEF partner, get_src_unchecked
  <2>5. has(cpy_mappings', p, d)
    BY <2>1, <2>2, <2>3 DEF has, Turn
  <2> HIDE DEF p
  <2>6. mid_arena'[p].parent = mid_arena[p].parent
    BY <2>1, <2>2 DEF Turn
  <2>7. wanted_parent(d)' = wanted_parent(d)
    <3>1. CASE d = root(dst)
      BY <1>2, <3>1 DEF wanted_parent
    <3>2. CASE d # root(dst)
      <4>1. parent(dst, d) \in nodes(dst) \ {x}
        BY <1>3, <2>1, <3>2 DEF visited
      <4>2. cpy_mappings'.dst_to_src[parent(dst, d)] = cpy_mappings.dst_to_src[parent(dst, d)]
        BY <4>1 DEF Turn
      <4> QED
        BY <1>2, <3>2, <4>2 DEF wanted_parent, get_src_unchecked
    <3> QED
      BY <3>1, <3>2
  <2>8. /\ partner(d)' = p /\ p \in Ids' /\ has(cpy_mappings', p, d)
        /\ (IF mid_arena'[p].parent = p THEN NoNode ELSE mid_arena'[p].parent) = wanted_parent(d)'
        /\ d # root(dst') => parent(dst', d) \in visited'
    BY <1>2, <2>1, <2>4, <2>5, <2>6, <2>7 DEF mid_parent
  <2> QED
    BY <2>8 DEF AtPlace, mid_parent
<1>7. AtPlace(x)'
  <2>1. has(cpy_mappings', w, x)
    BY DEF Turn
  <2>2. partner(x)' = w
    <3>1. cpy_mappings'.dst_to_src[x] = w + 1 /\ w \in Int
      BY <1>2, <2>1 DEF has
    <3> QED
      BY <3>1 DEF partner, get_src_unchecked
  <2>3. mid_arena'[w].parent = IF x = root(dst) THEN w ELSE partner(parent(dst, x))
    BY DEF Turn
  <2>4. (IF mid_arena'[w].parent = w THEN NoNode ELSE mid_arena'[w].parent) = wanted_parent(x)'
    <3>1. CASE x = root(dst)
      BY <1>2, <2>3, <3>1 DEF wanted_parent
    <3>2. CASE x # root(dst)
      <4> DEFINE y == parent(dst, x)
      <4>1. y \in nodes(dst) /\ y \in visited /\ y # x
        BY <1>3, <3>2
      <4>2. AtPlace(y)
        BY <1>1, <4>1 DEF Settled
      <4>3. partner(y) \in Ids /\ has(cpy_mappings, partner(y), y)
        BY <4>2 DEF AtPlace
      <4>4. partner(y) # w
        BY <1>5, <4>1, <4>3
      <4>5. cpy_mappings'.dst_to_src[y] = cpy_mappings.dst_to_src[y]
        BY <4>1 DEF Turn
      <4>6. wanted_parent(x)' = partner(y)
        BY <1>2, <3>2, <4>5 DEF wanted_parent, partner, get_src_unchecked
      <4> QED
        BY <2>3, <3>2, <4>4, <4>6
    <3> QED
      BY <3>1, <3>2
  <2>5. /\ partner(x)' = w /\ w \in Ids' /\ has(cpy_mappings', w, x)
        /\ (IF mid_arena'[w].parent = w THEN NoNode ELSE mid_arena'[w].parent) = wanted_parent(x)'
        /\ x # root(dst') => parent(dst', x) \in visited'
    BY <1>2, <1>3, <2>1, <2>2, <2>4
  <2> QED
    BY <2>5 DEF AtPlace, mid_parent
<1>8. ASSUME NEW c \in children(dst, x), NEW a \in ToSet(mid_arena'[w].kids),
             has(cpy_mappings', a, c)
      PROVE  AtPlace(c)' /\ partner(c)' = a
  <2>1. a \in Ids' /\ mid_arena'[a].parent = w /\ a # w
    <3>1. Forest(mid_arena') /\ w \in DOMAIN mid_arena'
      BY <1>2 DEF Turn, Ids
    <3> QED
      BY <3>1 DEF Forest, Ids
  <2>2. partner(c)' = a
    <3>1. cpy_mappings'.dst_to_src[c] = a + 1 /\ a \in Int
      BY <1>2, <1>8, <2>1 DEF has
    <3> QED
      BY <3>1 DEF partner, get_src_unchecked
  <2>3. wanted_parent(c)' = w
    <3>1. c # root(dst) /\ parent(dst, c) = x
      BY <1>3
    <3>2. cpy_mappings'.dst_to_src[x] = w + 1 /\ w \in Int
      BY <1>2 DEF has, Turn
    <3> QED
      BY <1>2, <3>1, <3>2 DEF wanted_parent, get_src_unchecked
  <2>4. /\ partner(c)' = a /\ a \in Ids' /\ has(cpy_mappings', a, c)
        /\ (IF mid_arena'[a].parent = a THEN NoNode ELSE mid_arena'[a].parent) = wanted_parent(c)'
        /\ c # root(dst') => parent(dst', c) \in visited'
    BY <1>2, <1>3, <1>8, <2>1, <2>2, <2>3
  <2> QED
    BY <2>2, <2>4 DEF AtPlace, mid_parent
<1>9. \A d \in nodes(dst) : AtPlace(d) => AtPlace(d)'
  BY <1>6, <1>7
<1> QED
  BY <1>5, <1>7, <1>8, <1>9

(* A turn leaves what it was given to the kinds of values there are. *)
LEMMA TurnTyped ==
  ASSUME Inv, NEW x, NEW w, NEW acts, Turn(x, w, acts)
  PROVE  Typed' /\ Extends' /\ Shape' /\ Roots'
<1>1. Typed /\ Extends /\ Roots /\ Visiting(x)
  BY DEF Inv, Turn
<1>2. /\ src' = src /\ dst' = dst /\ ori_mappings' = ori_mappings /\ pc' = pc
      /\ unvisited' \in Seq(nodes(dst)) /\ IsInjective(unvisited')
      /\ ParentsFirst(dst, unvisited') /\ ToSet(unvisited') = ToSet(unvisited) \ {x}
      /\ visited' = visited \cup {x}
      /\ to_move' \in Seq(nodes(src)) /\ IsInjective(to_move')
      /\ w \in Ids' /\ Ids' \subseteq Nat
  BY <1>1, TurnFacts
<1>3. /\ x \in nodes(dst) /\ x \in ToSet(unvisited) /\ x \notin visited
      /\ \A c \in children(dst, x) : c \in nodes(dst)
  BY <1>1, VisitFacts
<1>4. /\ nodes(src) \subseteq Ids /\ root(dst) \in nodes(dst) /\ IsTree(dst)
  BY <1>1, TreeFacts
<1>5. dst_in_order' \subseteq nodes(dst)
  <2>1. dst_in_order \subseteq nodes(dst)
    BY <1>1 DEF Typed, CursorsTyped
  <2>2. \A c \in dst_in_order' : c = x \/ c \in dst_in_order \/ c \in children(dst, x)
    BY <1>1, TurnFacts
  <2> QED
    BY <1>3, <2>1, <2>2
<1>6. Typed'
  <2>1. CursorsTyped'
    BY <1>2, <1>5 DEF CursorsTyped
  <2>2. ArenaTyped' /\ StoreTyped'
    BY DEF Turn
  <2>3. Matched(src, dst, ori_mappings)'
    BY <1>1, <1>2 DEF Typed
  <2>4. (pc \in {"ins_mov_upd", "del", "done"} \cup Failures)'
    BY <1>1, <1>2 DEF Typed, Failures
  <2> QED
    BY <2>1, <2>2, <2>3, <2>4 DEF Typed
<1>7. Extends'
  <2>1. ASSUME NEW s \in nodes(src)
        PROVE  cpy_mappings'.src_to_dst[s] = ori_mappings.src_to_dst[s]
    <3>1. cpy_mappings.src_to_dst[s] = ori_mappings.src_to_dst[s]
      BY <1>1 DEF Extends
    <3>2. CASE s = w
      <4>1. cpy_mappings' = cpy_mappings
        BY <1>4, <3>2 DEF Turn
      <4> QED
        BY <3>1, <4>1
    <3>3. CASE s # w
      BY <1>4, <3>1, <3>3 DEF Turn
    <3> QED
      BY <3>2, <3>3
  <2>2. ASSUME NEW d \in nodes(dst), is_dst(ori_mappings, d) \/ d \in ToSet(unvisited')
        PROVE  cpy_mappings'.dst_to_src[d] = ori_mappings.dst_to_src[d]
    <3>1. cpy_mappings.dst_to_src[d] = ori_mappings.dst_to_src[d]
      BY <1>1, <1>2, <2>2 DEF Extends
    <3>2. CASE d # x
      BY <3>1, <3>2 DEF Turn
    <3>3. CASE d = x
      <4>1. is_dst(cpy_mappings, x)
        BY <1>2, <2>2, <3>1, <3>3 DEF is_dst
      <4>2. cpy_mappings' = cpy_mappings
        BY <4>1 DEF Turn
      <4> QED
        BY <3>1, <4>2
    <3> QED
      BY <3>2, <3>3
  <2>3. ASSUME NEW u \in Ids' \ nodes(src)
        PROVE  \E d \in visited' : has(cpy_mappings', u, d)
    <3>1. CASE u = w
      BY <1>2, <3>1 DEF Turn
    <3>2. CASE u # w
      <4>1. u \in Ids \ {w}
        BY <3>2 DEF Turn
      <4>2. PICK d \in visited : has(cpy_mappings, u, d)
        BY <1>1, <2>3, <4>1 DEF Extends
      <4>3. d \in nodes(dst) \ {x}
        BY <1>3 DEF visited
      <4>4. has(cpy_mappings', u, d)
        BY <4>1, <4>2, <4>3 DEF Turn, has
      <4> QED
        BY <1>2, <4>4
    <3> QED
      BY <3>1, <3>2
  <2> QED
    BY <1>2, <2>1, <2>2, <2>3 DEF Extends
<1>8. Shape'
  BY DEF Turn, Shape
<1>9. root(dst) \notin ToSet(unvisited')
  <2> SUFFICES ASSUME root(dst) \in ToSet(unvisited) PROVE root(dst) = x
    BY <1>2
  <2>1. unvisited = iter_bf(dst)
    BY <1>1 DEF Roots
  <2>2. Head(unvisited) = root(dst)
    BY <1>4, <2>1, BreadthFirst
  <2> QED
    BY <1>1, <2>2 DEF Visiting
<1>10. Last(mid_root') = partner(root(dst))'
  <2>1. CASE x = root(dst)
    <3>1. Last(mid_root') = w /\ cpy_mappings'.dst_to_src[x] = w + 1
      BY <2>1 DEF Turn, has
    <3> QED
      BY <1>2, <2>1, <3>1 DEF partner, get_src_unchecked
  <2>2. CASE x # root(dst)
    <3>1. root(dst) \in visited
      BY <1>2, <1>4, <1>9, <2>2 DEF visited
    <3>2. Last(mid_root) = partner(root(dst)) /\ mid_root' = mid_root
      BY <1>1, <2>2, <3>1 DEF Roots, Turn
    <3>3. cpy_mappings'.dst_to_src[root(dst)] = cpy_mappings.dst_to_src[root(dst)]
      BY <1>4, <2>2 DEF Turn
    <3> QED
      BY <1>2, <3>2, <3>3 DEF partner, get_src_unchecked
  <2> QED
    BY <2>1, <2>2
<1>11. Roots'
  BY <1>2, <1>9, <1>10 DEF Roots
<1> QED
  BY <1>6, <1>7, <1>8, <1>11

(* Visited nodes stay settled; the others are still as in src. *)
LEMMA TurnSettled ==
  ASSUME Inv, NEW x, NEW w, NEW acts, Turn(x, w, acts)
  PROVE  Settled' /\ Untouched' /\ InOrder'
<1>1. Typed /\ Extends /\ Settled /\ Untouched /\ InOrder /\ Visiting(x)
  BY DEF Inv, Turn
<1>2. /\ src' = src /\ dst' = dst /\ visited' = visited \cup {x}
      /\ w \in Ids' /\ Ids' \subseteq Nat
  BY <1>1, TurnFacts
<1>3. x \in nodes(dst) /\ x \notin visited /\ \A c \in children(dst, x) : c \in nodes(dst)
  BY <1>1, VisitFacts
<1>4. nodes(src) \subseteq Ids
  BY <1>1, TreeFacts
<1>5. /\ \A d \in nodes(dst) : AtPlace(d) => AtPlace(d)'
      /\ AtPlace(x)'
      /\ \A c \in children(dst, x), a \in ToSet(mid_arena'[w].kids) :
           has(cpy_mappings', a, c) => AtPlace(c)'
      /\ \A d \in nodes(dst), u \in Ids : has(cpy_mappings, u, d) /\ d # x => u # w
  BY TurnPlaces
<1>6. ASSUME NEW y \in visited'
      PROVE  /\ AtPlace(y)'
             /\ mid_arena'[partner(y)'].compressed.label = dst.label[y]
             /\ y # root(dst) /\ partner(y)' # root(src) =>
                  mid_arena'[partner(y)'].compressed.type = dst.type[y]
  <2>1. CASE y = x
    <3>1. cpy_mappings'.dst_to_src[x] = w + 1
      BY DEF Turn, has
    <3>2. partner(y)' = w
      BY <1>2, <2>1, <3>1 DEF partner, get_src_unchecked
    <3> QED
      BY <1>5, <2>1, <3>2 DEF Turn
  <2>2. CASE y # x
    <3>1. y \in visited /\ y \in nodes(dst)
      BY <1>2, <2>2 DEF visited
    <3>2. /\ AtPlace(y)
          /\ mid_arena[partner(y)].compressed.label = dst.label[y]
          /\ y # root(dst) /\ partner(y) # root(src) =>
               mid_arena[partner(y)].compressed.type = dst.type[y]
      BY <1>1, <3>1 DEF Settled
    <3>3. partner(y) \in Ids /\ partner(y) # w
      BY <1>5, <2>2, <3>1, <3>2 DEF AtPlace
    <3>4. mid_arena'[partner(y)].compressed = mid_arena[partner(y)].compressed
      BY <3>3 DEF Turn
    <3>5. cpy_mappings'.dst_to_src[y] = cpy_mappings.dst_to_src[y]
      BY <2>2, <3>1 DEF Turn
    <3>6. partner(y)' = partner(y)
      BY <3>5 DEF partner, get_src_unchecked
    <3>7. AtPlace(y)'
      BY <1>5, <3>1, <3>2
    <3> QED
      BY <3>2, <3>4, <3>6, <3>7
  <2> QED
    BY <2>1, <2>2
<1>7. Settled'
  BY <1>2, <1>6 DEF Settled
<1>8. ASSUME NEW u \in nodes(src)
      PROVE  \/ mid_arena'[u].compressed = compressed(src, u)
             \/ \E y \in visited' : has(cpy_mappings', u, y)
  <2>1. CASE u = w
    BY <1>2, <2>1 DEF Turn
  <2>2. CASE u # w
    <3>1. u \in Ids \ {w}
      BY <1>4, <2>2
    <3>2. CASE mid_arena[u].compressed = compressed(src, u)
      BY <3>1, <3>2 DEF Turn
    <3>3. CASE \E y \in visited : has(cpy_mappings, u, y)
      <4>1. PICK y \in visited : has(cpy_mappings, u, y)
        BY <3>3
      <4>2. y \in nodes(dst) \ {x}
        BY <1>3 DEF visited
      <4>3. has(cpy_mappings', u, y)
        BY <3>1, <4>1, <4>2 DEF Turn, has
      <4> QED
        BY <1>2, <4>3
    <3> QED
      BY <1>1, <3>2, <3>3 DEF Untouched
  <2> QED
    BY <2>1, <2>2
<1>9. Untouched'
  BY <1>2, <1>8 DEF Untouched, compressed
<1>10. ASSUME NEW c \in dst_in_order' PROVE AtPlace(c)'
  <2>1. \/ c = x \/ c \in dst_in_order
        \/ c \in children(dst, x) /\ \E a \in ToSet(mid_arena'[w].kids) : has(cpy_mappings', a, c)
    BY <1>1, TurnFacts
  <2>2. c \in dst_in_order => AtPlace(c)'
    <3>1. c \in dst_in_order => c \in nodes(dst) /\ AtPlace(c)
      BY <1>1 DEF InOrder, Typed, CursorsTyped
    <3> QED
      BY <1>5, <3>1
  <2> QED
    BY <1>5, <2>1, <2>2
<1>11. InOrder'
  BY <1>10 DEF InOrder
<1> QED
  BY <1>7, <1>9, <1>11

(* Emitted actions come after those there are. *)
LEMMA Emitted ==
  ASSUME NEW S, actions \in Seq(S), NEW T, NEW acts \in Seq(T), actions' = actions \o acts
  PROVE  /\ actions' \in Seq(S \cup T)
         /\ \A i \in DOMAIN actions' :
              \/ i \in DOMAIN actions /\ actions'[i] = actions[i]
              \/ \E j \in DOMAIN acts : i = Len(actions) + j /\ actions'[i] = acts[j]
<1>1. actions \in Seq(S \cup T) /\ acts \in Seq(S \cup T)
  OBVIOUS
<1>2. /\ actions \o acts \in Seq(S \cup T) /\ Len(actions) \in Nat /\ Len(acts) \in Nat
      /\ DOMAIN (actions \o acts) = 1 .. Len(actions) + Len(acts)
      /\ \A i \in 1 .. Len(actions) + Len(acts) :
           (actions \o acts)[i] = IF i <= Len(actions) THEN actions[i] ELSE acts[i - Len(actions)]
  BY <1>1, Joined
<1>3. DOMAIN actions = 1 .. Len(actions) /\ DOMAIN acts = 1 .. Len(acts)
  BY LenProperties
<1>4. ASSUME NEW i \in DOMAIN actions'
      PROVE  \/ i \in DOMAIN actions /\ actions'[i] = actions[i]
             \/ \E j \in DOMAIN acts : i = Len(actions) + j /\ actions'[i] = acts[j]
  <2>1. i \in 1 .. Len(actions) + Len(acts)
    BY <1>2
  <2>2. CASE i <= Len(actions)
    BY <1>2, <1>3, <2>1, <2>2
  <2>3. CASE ~(i <= Len(actions))
    <3>1. i - Len(actions) \in DOMAIN acts /\ i = Len(actions) + (i - Len(actions))
      BY <1>2, <1>3, <2>1, <2>3
    <3>2. actions'[i] = acts[i - Len(actions)]
      BY <1>2, <2>1, <2>3
    <3> QED
      BY <3>1, <3>2
  <2> QED
    BY <2>2, <2>3
<1> QED
  BY <1>2, <1>4

(* A turn moves w to its place, once; del has not started. *)
LEMMA TurnMoves ==
  ASSUME Inv, NEW x, NEW w, NEW acts, Turn(x, w, acts)
  PROVE  /\ MovedToPlace' /\ MovesOnce' /\ ToMove' /\ (\E S : actions \in Seq(S))'
         /\ Phases' /\ Stacked'
<1>1. /\ Typed /\ Extends /\ Settled /\ Visiting(x)
      /\ MovedToPlace /\ MovesOnce /\ Phases /\ Stacked
  BY DEF Inv, Turn
<1>2. /\ src' = src /\ dst' = dst /\ ori_mappings' = ori_mappings
      /\ ToSet(unvisited') = ToSet(unvisited) \ {x} /\ visited' = visited \cup {x}
      /\ w \in Ids' /\ Ids' \subseteq Nat /\ stack' = stack /\ pc' = pc
      /\ to_move' \in Seq(nodes(src))
      /\ \A c \in ToSet(to_move') :
           /\ c \in ToSet(mid_arena'[w].kids)
           /\ \E d \in children(dst, x) : has(ori_mappings, c, d)
  BY <1>1, TurnFacts
<1>3. /\ x \in nodes(dst) /\ x \notin visited /\ pc = "ins_mov_upd" /\ to_move = <<>>
      /\ \A c \in children(dst, x) : /\ c \in nodes(dst) /\ c # x /\ c # root(dst)
                                     /\ parent(dst, c) = x
  BY <1>1, VisitFacts
<1>4. /\ \A d \in nodes(dst) : AtPlace(d) => AtPlace(d)'
      /\ AtPlace(x)'
      /\ \A c \in children(dst, x), a \in ToSet(mid_arena'[w].kids) :
           has(cpy_mappings', a, c) => AtPlace(c)' /\ partner(c)' = a
      /\ \A d \in nodes(dst), u \in Ids : has(cpy_mappings, u, d) /\ d # x => u # w
  BY TurnPlaces
<1>5. Ids \subseteq Nat /\ nodes(dst) \subseteq Nat /\ nodes(src) \subseteq Ids
  <2>1. nodes(dst) = 0 .. dst.len - 1 /\ Ids \subseteq Nat /\ nodes(src) \subseteq Ids
    BY <1>1, TreeFacts
  <2> QED
    BY <2>1
<1>6. PICK S : actions \in Seq(S)
  BY DEF Inv
<1>7. PICK T : acts \in Seq(T)
  BY DEF Turn
<1>8. /\ actions' \in Seq(S \cup T)
      /\ \A i \in DOMAIN actions' :
           \/ i \in DOMAIN actions /\ actions'[i] = actions[i]
           \/ \E j \in DOMAIN acts : i = Len(actions) + j /\ actions'[i] = acts[j]
  BY <1>6, <1>7, Emitted DEF Turn
<1>9. ASSUME NEW i \in DOMAIN actions', actions'[i].by \in {"move", "align"}
      PROVE  \/ i \in Moves /\ actions'[i] = actions[i]
             \/ /\ i = Len(actions) + Len(acts) /\ actions'[i].node = w
                /\ x # root(dst) /\ ~AtPlace(x)
  <2>1. CASE i \in DOMAIN actions /\ actions'[i] = actions[i]
    BY <1>9, <2>1 DEF Moves
  <2>2. CASE \E j \in DOMAIN acts : i = Len(actions) + j /\ actions'[i] = acts[j]
    <3>1. PICK j \in DOMAIN acts : i = Len(actions) + j /\ actions'[i] = acts[j]
      BY <2>2
    <3>2. /\ j = Len(acts) /\ acts[j].node = w /\ x # root(dst) /\ ~AtPlace(x)
      BY <1>9, <3>1 DEF Turn
    <3> QED
      BY <3>1, <3>2
  <2> QED
    BY <1>8, <2>1, <2>2
<1>10. partner(x)' = w
  <2>1. cpy_mappings'.dst_to_src[x] = w + 1
    BY DEF Turn, has
  <2> QED
    BY <1>2, <2>1 DEF partner, get_src_unchecked
<1>11. ASSUME NEW d \in nodes(dst), AtPlace(d) PROVE partner(d)' = partner(d)
  <2>1. CASE d # x
    <3>1. cpy_mappings'.dst_to_src[d] = cpy_mappings.dst_to_src[d]
      BY <2>1 DEF Turn
    <3> QED
      BY <3>1 DEF partner, get_src_unchecked
  <2>2. CASE d = x
    <3>1. cpy_mappings.dst_to_src[x] = partner(x) + 1 /\ partner(x) \in Nat
      BY <1>5, <1>11, <2>2 DEF AtPlace, has
    <3>2. is_dst(cpy_mappings, x)
      BY <3>1 DEF is_dst
    <3>3. cpy_mappings' = cpy_mappings
      BY <3>2 DEF Turn
    <3> QED
      BY <3>3 DEF partner, get_src_unchecked
  <2> QED
    BY <2>1, <2>2
<1>12. ASSUME NEW i \in Moves
       PROVE  \E d \in nodes(dst) \ {root(dst)} :
                /\ actions[i].node = partner(d) /\ AtPlace(d)
                /\ partner(d) \in Ids /\ has(cpy_mappings, partner(d), d)
                /\ parent(dst, d) \in visited
  BY <1>1 DEF MovedToPlace, AtPlace
<1>13. MovedToPlace'
  <2> SUFFICES ASSUME NEW i \in DOMAIN actions', actions'[i].by \in {"move", "align"}
               PROVE  \E d \in nodes(dst) \ {root(dst)} :
                        actions'[i].node = partner(d)' /\ AtPlace(d)'
    BY <1>2 DEF MovedToPlace, Moves
  <2>1. CASE i \in Moves /\ actions'[i] = actions[i]
    <3>1. PICK d \in nodes(dst) \ {root(dst)} : actions[i].node = partner(d) /\ AtPlace(d)
      BY <1>12, <2>1
    <3> QED
      BY <1>4, <1>11, <2>1, <3>1
  <2>2. CASE actions'[i].node = w /\ x # root(dst)
    BY <1>3, <1>4, <1>10, <2>2
  <2> QED
    BY <1>9, <2>1, <2>2
<1>14. ASSUME NEW i \in Moves, actions[i].node = w, ~AtPlace(x) PROVE FALSE
  <2>1. PICK d \in nodes(dst) \ {root(dst)} :
          actions[i].node = partner(d) /\ AtPlace(d) /\ partner(d) \in Ids
          /\ has(cpy_mappings, partner(d), d)
    BY <1>12
  <2>2. d = x
    BY <1>4, <1>14, <2>1
  <2> QED
    BY <1>14, <2>1, <2>2
<1>15. MovesOnce'
  <2> SUFFICES ASSUME NEW i \in DOMAIN actions', NEW j \in DOMAIN actions',
                      actions'[i].by \in {"move", "align"}, actions'[j].by \in {"move", "align"},
                      actions'[i].node = actions'[j].node
               PROVE  i = j
    BY DEF MovesOnce
  <2>1. CASE i \in Moves /\ actions'[i] = actions[i] /\ j \in Moves /\ actions'[j] = actions[j]
    BY <1>1, <2>1 DEF MovesOnce, Moves
  <2>2. CASE ~AtPlace(x)
    BY <1>9, <1>14, <2>1, <2>2
  <2> QED
    BY <1>9, <2>1, <2>2
<1>16. ToMove'
  <2>1. to_move' # <<>> => pc' = "ins_mov_upd"
    BY <1>2, <1>3
  <2>2. Extends' /\ Forest(mid_arena') /\ w \in DOMAIN mid_arena'
    <3>1. Extends'
      BY <1>2, TurnTyped
    <3>2. Forest(mid_arena') /\ w \in DOMAIN mid_arena'
      BY DEF Turn, Ids
    <3> QED
      BY <3>1, <3>2
  <2>3. ASSUME NEW c \in ToSet(to_move')
        PROVE  /\ \E d \in ToSet(unvisited') :
                    has(ori_mappings, c, d) /\ d # root(dst) /\ AtPlace(d)'
               /\ \A i \in DOMAIN actions' :
                    actions'[i].by \in {"move", "align"} => actions'[i].node # c
    <3>1. PICK d \in children(dst, x) : has(ori_mappings, c, d)
      BY <1>2
    <3>2. d \in nodes(dst) /\ d # x /\ d # root(dst) /\ parent(dst, d) = x
      BY <1>3
    <3>3. ~AtPlace(d)
      BY <1>3, <3>2 DEF AtPlace
    <3>4. d \in ToSet(unvisited')
      <4>1. d \notin visited
        BY <1>1, <3>3 DEF Settled
      <4> QED
        BY <1>2, <3>2, <4>1 DEF visited
    <3>5. c \in nodes(src)
      BY <1>2 DEF ToSet
    <3>6. has(cpy_mappings', c, d)
      BY <1>2, <2>2, <3>1, <3>2, <3>4, <3>5 DEF Extends, has
    <3>7. c \in ToSet(mid_arena'[w].kids) /\ c # w
      BY <1>2, <2>2 DEF Forest
    <3>8. AtPlace(d)'
      BY <1>4, <3>6, <3>7
    <3>9. ASSUME NEW i \in DOMAIN actions', actions'[i].by \in {"move", "align"}
          PROVE  actions'[i].node # c
      <4>1. CASE i \in Moves /\ actions'[i] = actions[i]
        <5>1. PICK e \in nodes(dst) : /\ actions[i].node = partner(e) /\ AtPlace(e)
                                      /\ has(cpy_mappings, partner(e), e)
          BY <1>12, <4>1
        <5> SUFFICES ASSUME partner(e) = c PROVE FALSE
          BY <4>1, <5>1
        <5>2. cpy_mappings.src_to_dst[c] = e + 1
          BY <5>1 DEF has
        <5>3. ori_mappings.src_to_dst[c] = e + 1 /\ ori_mappings.src_to_dst[c] = d + 1
          BY <1>1, <3>1, <3>5, <5>2 DEF Extends, has
        <5>4. e = d
          BY <1>5, <3>2, <5>3
        <5> QED
          BY <3>3, <5>1, <5>4
      <4>2. CASE actions'[i].node = w
        BY <3>7, <4>2
      <4> QED
        BY <1>9, <3>9, <4>1, <4>2
    <3> QED
      BY <3>1, <3>2, <3>4, <3>8, <3>9
  <2> QED
    BY <1>2, <2>1, <2>3 DEF ToMove, Moves
<1>17. stack' = <<>>
  BY <1>1, <1>2, <1>3 DEF Phases
<1>18. Phases'
  BY <1>2, <1>3, <1>17 DEF Phases
<1>19. Stacked'
  <2>1. Len(stack') = 0 /\ 1 .. Len(stack') = {} /\ stack' \in Seq([id : Ids', idx : Nat])
    BY <1>17
  <2> QED
    BY <1>17, <2>1 DEF Stacked
<1>20. (\E R : actions \in Seq(R))'
  BY <1>8
<1> QED
  BY <1>13, <1>15, <1>16, <1>18, <1>19, <1>20

(* So a turn preserves the invariant. *)
LEMMA TurnKeepsInv ==
  ASSUME Inv, NEW x, NEW w, NEW acts, Turn(x, w, acts)
  PROVE  Inv'
<1>1. Typed' /\ Extends' /\ Shape' /\ Roots'
  BY TurnTyped
<1>2. Settled' /\ Untouched' /\ InOrder'
  BY TurnSettled
<1>3. /\ MovedToPlace' /\ MovesOnce' /\ ToMove' /\ (\E S : actions \in Seq(S))'
      /\ Phases' /\ Stacked'
  BY TurnMoves
<1> QED
  BY <1>1, <1>2, <1>3 DEF Inv

-----------------------------------------------------------------------------
(* The place of x among the children of z, the partner of its parent. *)
LEMMA FindPos ==
  ASSUME Typed, InOrder, NEW x \in nodes(dst), x # root(dst), NEW z \in Ids,
         z = partner(parent(dst, x)), NEW C, NEW arena \in Arenas(Ids, C),
         \A u \in Ids : arena[u].parent = mid_arena[u].parent
  PROVE  find_pos(arena, x) \in 0 .. Len(arena[z].kids)
<1> DEFINE lefts == {c \in children(dst, parent(dst, x)) : c < x /\ c \in dst_in_order}
           m == Max(lefts)
           p == partner(m)
<1>1. find_pos(arena, x) = IF lefts = {} THEN 0 ELSE rank(arena, p) + 1
  BY DEF find_pos, partner
<1>2. arena[z].kids \in Seq(Ids) /\ Len(arena[z].kids) \in Nat
  <2>1. arena[z].kids \in Seq(Ids)
    BY EntryFields
  <2> QED
    BY <2>1, LenProperties
<1>3. IsTree(dst) /\ parent(dst, x) \in nodes(dst) /\ root(dst) \in Int
  BY TreeFacts, ParentFacts, NodeTypes
<1>4. ASSUME lefts # {}
      PROVE  m \in children(dst, parent(dst, x)) /\ m \in dst_in_order
  <2>1. lefts \subseteq Nat /\ \A n \in lefts : n <= x
    <3>1. \A c \in children(dst, parent(dst, x)) : c \in nodes(dst)
      BY <1>3, ChildSubtree
    <3>2. \A c \in nodes(dst) : c \in Nat
      BY <1>3, NodeTypes
    <3> QED
      BY <3>1, <3>2
  <2>2. x \in Nat
    BY <1>3, NodeTypes
  <2> HIDE DEF lefts
  <2>3. m \in lefts
    BY <1>4, <2>1, <2>2, MaxOfBounded
  <2> QED
    BY <2>3 DEF lefts
<1> HIDE DEF m
<1>5. ASSUME lefts # {} PROVE rank(arena, p) + 1 \in 0 .. Len(arena[z].kids)
  <2>1. AtPlace(m)
    BY <1>4, <1>5 DEF InOrder
  <2>2. m \in nodes(dst) /\ m # root(dst) /\ parent(dst, m) = parent(dst, x)
    <3>1. m \in nodes(dst) /\ m < parent(dst, x)
      BY <1>3, <1>4, <1>5, ChildSubtree
    <3>2. parent(dst, x) <= root(dst) /\ parent(dst, x) \in Int /\ m \in Int
      BY <1>3, <3>1, NodeTypes
    <3>3. parent(dst, m) = parent(dst, x)
      BY <1>4, <1>5 DEF children, parent
    <3> QED
      BY <1>3, <3>1, <3>2, <3>3
  <2>3. wanted_parent(m) = z
    BY <2>2 DEF wanted_parent, partner
  <2>4. p \in Ids /\ mid_parent(p) = z
    BY <2>1, <2>3 DEF AtPlace
  <2>5. NoNode \notin Ids
    BY TreeFacts
  <2>6. mid_arena[p].parent = z
    BY <2>4, <2>5 DEF mid_parent
  <2>7. rank(arena, p) = index_of(arena[z].kids, p)
    BY <2>4, <2>6 DEF rank
  <2> QED
    BY <1>2, <2>7, IndexOf
<1> QED
  BY <1>1, <1>2, <1>5

(* One id more. *)
LEMMA OneMore ==
  ASSUME ArenaTyped
  PROVE  /\ next_id = N /\ N \notin Ids /\ Ids \cup {N} = 0 .. N
         /\ Cardinality(Ids \cup {N}) = N + 1 /\ Ids \cup {N} \subseteq Nat
<1>1. N \in Nat /\ Ids = 0 .. N - 1
  BY DEF ArenaTyped
<1>2. next_id = N
  BY DEF next_id, N, Ids
<1> HIDE DEF N
<1>3. Ids \cup {N} = 0 .. N /\ N \notin Ids
  BY <1>1
<1>4. Cardinality(0 .. N) = N + 1
  <2>1. Cardinality(0 .. N) = IF 0 > N THEN 0 ELSE N - 0 + 1
    BY <1>1, FS_Interval
  <2> QED
    BY <1>1, <2>1
<1>5. 0 .. N \subseteq Nat
  BY <1>1
<1> QED
  BY <1>2, <1>3, <1>4, <1>5

(* The arena with the new node, before a list has it. *)
LEMMA InsertedFacts ==
  ASSUME ArenaTyped, Forest(mid_arena), \A u \in Ids : PlacedIn(mid_arena, u),
         NEW x \in nodes(dst), NEW p \in Ids \cup {N}
  PROVE  /\ inserted(N, x, p) \in Arenas(Ids \cup {N}, Contents)
         /\ Forest(inserted(N, x, p)) /\ Closed(inserted(N, x, p), Ids \cup {N})
         /\ \A u \in Ids : /\ inserted(N, x, p)[u] = mid_arena[u]
                           /\ PlacedIn(inserted(N, x, p), u)
         /\ inserted(N, x, p)[N] =
              [parent |-> p, kids |-> <<>>, compressed |-> compressed(dst, x)]
         /\ \A u \in Ids \cup {N} : N \notin ToSet(inserted(N, x, p)[u].kids)
<1> DEFINE b == inserted(N, x, p)
           I == Ids \cup {N}
<1>1. N \notin Ids /\ DOMAIN mid_arena = Ids
  BY OneMore DEF Ids
<1>2. /\ b = [u \in I |-> b[u]] /\ \A u \in Ids : b[u] = mid_arena[u]
      /\ b[N] = [parent |-> p, kids |-> <<>>, compressed |-> compressed(dst, x)]
  BY <1>1 DEF inserted, Ids
<1> HIDE DEF b
<1>3. ASSUME NEW u \in Ids
      PROVE  /\ mid_arena[u].parent \in Ids /\ mid_arena[u].kids \in Seq(Ids)
             /\ mid_arena[u].compressed \in Contents /\ ToSet(mid_arena[u].kids) \subseteq Ids
             /\ mid_arena[u] = [parent |-> mid_arena[u].parent, kids |-> mid_arena[u].kids,
                                compressed |-> mid_arena[u].compressed]
  <2>1. mid_arena \in Arenas(Ids, Contents)
    BY DEF ArenaTyped
  <2> QED
    BY <2>1, EntryFields
<1>4. ASSUME NEW u \in I PROVE b[u] \in [parent : I, kids : Seq(I), compressed : Contents]
  <2>1. CASE u \in Ids
    <3>1. Ids \subseteq I
      OBVIOUS
    <3> HIDE DEF I
    <3>2. mid_arena[u].kids \in Seq(I) /\ mid_arena[u].parent \in I
      <4> DEFINE q == mid_arena[u].kids
      <4>1. q \in Seq(Ids) /\ mid_arena[u].parent \in Ids
        BY <1>3, <2>1
      <4> HIDE DEF q
      <4>2. q \in Seq(I)
        BY <3>1, <4>1
      <4> QED
        BY <3>1, <4>1, <4>2 DEF q
    <3>3. [parent |-> mid_arena[u].parent, kids |-> mid_arena[u].kids,
           compressed |-> mid_arena[u].compressed] \in [parent : I, kids : Seq(I), compressed : Contents]
      BY <1>3, <2>1, <3>2
    <3> QED
      BY <1>2, <1>3, <2>1, <3>3
  <2>2. CASE u = N
    <3>1. compressed(dst, x) \in Contents
      BY DEF Contents
    <3>2. p \in I /\ <<>> \in Seq(I)
      OBVIOUS
    <3> HIDE DEF I
    <3>3. [parent |-> p, kids |-> <<>>, compressed |-> compressed(dst, x)]
            \in [parent : I, kids : Seq(I), compressed : Contents]
      BY <3>1, <3>2
    <3> QED
      BY <1>2, <2>2, <3>3
  <2> QED
    BY <2>1, <2>2
<1>5. b \in Arenas(I, Contents)
  BY <1>2, <1>4 DEF Arenas
<1>6. DOMAIN b = I /\ b[N].kids = <<>> /\ ToSet(<<>>) = {} /\ b[N].parent = p
  BY <1>2 DEF ToSet
<1>7. Forest(b)
  <2> SUFFICES ASSUME NEW u \in I
               PROVE  /\ IsInjective(b[u].kids)
                      /\ \A c \in ToSet(b[u].kids) : c \in I /\ b[c].parent = u /\ c # u
    BY <1>6 DEF Forest
  <2>1. CASE u \in Ids
    <3>1. /\ IsInjective(mid_arena[u].kids)
          /\ \A c \in ToSet(mid_arena[u].kids) : c \in Ids /\ mid_arena[c].parent = u /\ c # u
      BY <1>1, <2>1 DEF Forest
    <3> QED
      BY <1>2, <2>1, <3>1
  <2>2. CASE u = N
    BY <1>6, <2>2 DEF IsInjective
  <2> QED
    BY <2>1, <2>2
<1>8. Closed(b, I)
  BY <1>2, <1>3, <1>6 DEF Closed
<1>9. ASSUME NEW u \in Ids PROVE PlacedIn(b, u)
  BY <1>2, <1>3 DEF PlacedIn
<1>10. ASSUME NEW u \in I PROVE N \notin ToSet(b[u].kids)
  BY <1>1, <1>2, <1>3, <1>6
<1> QED
  BY <1>2, <1>5, <1>7, <1>8, <1>9, <1>10 DEF b

(* A slot more on one side of the store. *)
LEMMA SlotAdded ==
  ASSUME NEW n \in Nat, NEW V, 0 \in V, NEW v \in [0 .. n -> V]
  PROVE  /\ slot_added(v) \in [0 .. n + 1 -> V]
         /\ \A i \in 0 .. n : slot_added(v)[i] = v[i]
<1>1. Cardinality(0 .. n) = n + 1
  <2>1. Cardinality(0 .. n) = IF 0 > n THEN 0 ELSE n - 0 + 1
    BY FS_Interval
  <2> QED
    BY <2>1
<1>2. slot_added(v) = [i \in 0 .. n + 1 |-> IF i \in 0 .. n THEN v[i] ELSE 0]
  BY <1>1 DEF slot_added
<1> QED
  BY <1>2

(* (for a context where the provers lose the arithmetic) *)
LEMMA OneLess ==
  ASSUME NEW m \in Nat, NEW k, k = m + 1
  PROVE  k - 1 = m
OBVIOUS

(* The store with the new node and its partner x. *)
LEMMA GrownFacts ==
  ASSUME Typed, NEW x \in nodes(dst)
  PROVE  LET ms == with_inserted(N, x) IN
         /\ ms.src_to_dst \in [0 .. N + 1 -> 0 .. dst.len]
         /\ ms.dst_to_src \in [0 .. dst.len + (N + 1 - src.len) -> 0 .. N + 1]
         /\ has(ms, N, x)
         /\ \A u \in Ids : ms.src_to_dst[u] = cpy_mappings.src_to_dst[u]
         /\ \A d \in nodes(dst) \ {x} : ms.dst_to_src[d] = cpy_mappings.dst_to_src[d]
<1> DEFINE ms == with_inserted(N, x)
           s == cpy_mappings.src_to_dst
           d == cpy_mappings.dst_to_src
           n == dst.len + (N - src.len)
<1>1. /\ N \in Nat /\ src.len \in Nat /\ dst.len \in Nat /\ src.len <= N /\ Ids = 0 .. N - 1
      /\ nodes(dst) = 0 .. dst.len - 1
  BY TreeFacts DEF Typed, ArenaTyped
<1>2. s \in [0 .. N -> 0 .. dst.len] /\ d \in [0 .. n -> 0 .. N]
  BY DEF Typed, StoreTyped
<1>3. /\ ms.src_to_dst = [slot_added(s) EXCEPT ![N] = x + 1]
      /\ ms.dst_to_src = [slot_added(d) EXCEPT ![x] = N + 1]
  BY DEF with_inserted, link
<1> HIDE DEF ms, s, d
<1>4. n \in Nat /\ n + 1 = dst.len + (N + 1 - src.len) /\ x \in 0 .. n
  BY <1>1, SMTT(30)
<1> HIDE DEF n
<1>5. slot_added(s) \in [0 .. N + 1 -> 0 .. dst.len] /\ \A i \in 0 .. N : slot_added(s)[i] = s[i]
  <2> DEFINE V == 0 .. dst.len
  <2>1. 0 \in V /\ N \in Nat /\ s \in [0 .. N -> V]
    BY <1>1, <1>2
  <2> HIDE DEF V
  <2>2. slot_added(s) \in [0 .. N + 1 -> V] /\ \A i \in 0 .. N : slot_added(s)[i] = s[i]
    BY <2>1, SlotAdded
  <2> QED
    BY <2>2 DEF V
<1>6. slot_added(d) \in [0 .. n + 1 -> 0 .. N] /\ \A i \in 0 .. n : slot_added(d)[i] = d[i]
  <2> DEFINE V == 0 .. N
  <2>1. 0 \in V /\ d \in [0 .. n -> V]
    BY <1>1, <1>2
  <2> HIDE DEF V
  <2>2. slot_added(d) \in [0 .. n + 1 -> V] /\ \A i \in 0 .. n : slot_added(d)[i] = d[i]
    BY <1>4, <2>1, SlotAdded
  <2> QED
    BY <2>2 DEF V
<1>7. /\ ms.src_to_dst \in [0 .. N + 1 -> 0 .. dst.len] /\ ms.src_to_dst[N] = x + 1
      /\ \A u \in Ids : ms.src_to_dst[u] = s[u]
  <2> DEFINE V == 0 .. dst.len
             v == slot_added(s)
  <2>1. x + 1 \in V /\ N \in 0 .. N + 1
    BY <1>1
  <2>2. \A u \in Ids : u \in 0 .. N /\ u \in 0 .. N + 1 /\ u # N
    BY <1>1
  <2>3. v \in [0 .. N + 1 -> V] /\ (\A i \in 0 .. N : v[i] = s[i])
    BY <1>5
  <2>4. ms.src_to_dst = [v EXCEPT ![N] = x + 1]
    BY <1>3
  <2> HIDE DEF V, v, Ids
  <2>5. ms.src_to_dst \in [0 .. N + 1 -> V]
    BY <2>1, <2>3, <2>4
  <2>6. ms.src_to_dst[N] = x + 1
    BY <2>1, <2>3, <2>4
  <2>7. \A u \in Ids : ms.src_to_dst[u] = s[u]
    BY <2>2, <2>3, <2>4
  <2> QED
    BY <2>5, <2>6, <2>7 DEF V
<1>8. /\ ms.dst_to_src \in [0 .. n + 1 -> 0 .. N + 1] /\ ms.dst_to_src[x] = N + 1
      /\ \A e \in nodes(dst) \ {x} : ms.dst_to_src[e] = d[e]
  <2>1. slot_added(d) \in [0 .. n + 1 -> 0 .. N + 1] /\ N + 1 \in 0 .. N + 1 /\ x \in 0 .. n + 1
    <3>1. 0 .. N \subseteq 0 .. N + 1
      BY <1>1
    <3>2. N + 1 \in 0 .. N + 1
      BY <1>1
    <3>3. 0 .. n \subseteq 0 .. n + 1
      <4>1. n \in Nat
        BY <1>4
      <4> QED
        BY <4>1
    <3>4. x \in 0 .. n + 1
      BY <1>4, <3>3
    <3> QED
      BY <1>6, <3>1, <3>2, <3>4
  <2>2. \A e \in nodes(dst) : e \in 0 .. n /\ e \in 0 .. n + 1
    BY <1>1, <1>4, SMTT(20) DEF n
  <2> QED
    BY <1>3, <1>6, <2>1, <2>2
<1> QED
  BY <1>4, <1>7, <1>8 DEF has, ms, s, d, n

(***************************************************************************)
(* The state after a turn that inserts a node: its typing, and the same    *)
(* ids with one more.                                                      *)
(***************************************************************************)
LEMMA Grown ==
  ASSUME Inv, NEW x, Visiting(x), NEW p \in Ids \cup {N}, NEW b,
         b \in Arenas(Ids \cup {N}, Contents),
         \A u \in Ids \cup {N} : b[u].compressed = inserted(N, x, p)[u].compressed,
         EndTurn(b, with_inserted(N, x), N, x),
         mid_root' = mid_root \/ mid_root' = Append(mid_root, N)
  PROVE  /\ src' = src /\ dst' = dst /\ mid_arena' = b /\ cpy_mappings' = with_inserted(N, x)
         /\ EndTurn(mid_arena', cpy_mappings', N, x)
         /\ ArenaTyped' /\ StoreTyped' /\ Ids' = Ids \cup {N} /\ N \notin Ids /\ N \in Nat
         /\ mid_arena'[N].compressed = compressed(dst, x)
         /\ \A u \in Ids : /\ mid_arena'[u].compressed = mid_arena[u].compressed
                           /\ cpy_mappings'.src_to_dst[u] = cpy_mappings.src_to_dst[u]
         /\ \A d \in nodes(dst) \ {x} : cpy_mappings'.dst_to_src[d] = cpy_mappings.dst_to_src[d]
         /\ has(cpy_mappings', N, x)
<1> DEFINE I == Ids \cup {N}
           ms == with_inserted(N, x)
<1>1. Typed /\ Shape /\ x \in nodes(dst) /\ pc = "ins_mov_upd"
  BY VisitFacts DEF Inv
<1>2. /\ N \in Nat /\ src.len <= N /\ mid_arena \in Arenas(Ids, Contents)
      /\ mid_root \in Seq(Ids) /\ mid_root # <<>> /\ ArenaTyped
  BY <1>1 DEF Typed, ArenaTyped
<1>3. N \notin Ids /\ I = 0 .. N /\ Cardinality(I) = N + 1
  BY <1>2, OneMore
<1>4. src' = src /\ dst' = dst /\ mid_arena' = b /\ cpy_mappings' = ms
  BY DEF EndTurn, given
<1>5. DOMAIN b = I
  BY DEF Arenas
<1>6. Ids' = I
  BY <1>4, <1>5 DEF Ids
<1>7. N' = N + 1
  BY <1>3, <1>6 DEF N
<1>8. Contents' = Contents
  BY <1>4 DEF Contents, compressed
<1>9. mid_root' \in Seq(I) /\ mid_root' # <<>>
  <2>1. mid_root \in Seq(I) /\ N \in I
    BY <1>2
  <2> HIDE DEF I
  <2>2. Append(mid_root, N) \in Seq(I) /\ Append(mid_root, N) # <<>>
    BY <2>1
  <2> QED
    BY <1>2, <2>1, <2>2
<1>10. ArenaTyped'
  <2>1. N' \in Nat /\ Ids' = 0 .. N' - 1 /\ src'.len <= N'
    <3>1. src.len \in Nat
      BY <1>1, TreeFacts
    <3>2. N + 1 - 1 = N /\ N + 1 \in Nat /\ src.len <= N + 1
      BY <1>2, <3>1
    <3>3. N' - 1 = N
      BY <1>2, <1>7, OneLess
    <3>4. Ids' = 0 .. N
      BY <1>3, <1>6
    <3>5. Ids' = 0 .. N' - 1
      BY <3>3, <3>4
    <3> HIDE DEF I
    <3> QED
      BY <1>4, <1>7, <3>2, <3>5
  <2>2. mid_arena' \in Arenas(Ids', Contents')
    BY <1>4, <1>6, <1>8
  <2>3. mid_root' \in Seq(Ids') /\ mid_root' # <<>>
    BY <1>6, <1>9
  <2> QED
    BY <2>1, <2>2, <2>3 DEF ArenaTyped
<1>11. /\ ms.src_to_dst \in [0 .. N + 1 -> 0 .. dst.len]
       /\ ms.dst_to_src \in [0 .. dst.len + (N + 1 - src.len) -> 0 .. N + 1]
       /\ has(ms, N, x)
       /\ \A u \in Ids : ms.src_to_dst[u] = cpy_mappings.src_to_dst[u]
       /\ \A d \in nodes(dst) \ {x} : ms.dst_to_src[d] = cpy_mappings.dst_to_src[d]
  BY <1>1, GrownFacts
<1>12. StoreTyped'
  <2>1. /\ cpy_mappings'.src_to_dst \in [0 .. N' -> 0 .. dst'.len]
        /\ cpy_mappings'.dst_to_src \in [0 .. dst'.len + (N' - src'.len) -> 0 .. N']
    <3>1. /\ ms.src_to_dst \in [0 .. N' -> 0 .. dst'.len]
          /\ ms.dst_to_src \in [0 .. dst'.len + (N' - src'.len) -> 0 .. N']
      <4>1. src' = src /\ dst' = dst /\ N' = N + 1
        BY <1>4, <1>7
      <4> HIDE DEF ms
      <4> DEFINE M == N'
                 t == src'
                 u == dst'
      <4>2. t = src /\ u = dst /\ M = N + 1
        BY <4>1
      <4> HIDE DEF M, t, u
      <4>3. /\ ms.src_to_dst \in [0 .. M -> 0 .. u.len]
            /\ ms.dst_to_src \in [0 .. u.len + (M - t.len) -> 0 .. M]
        <5>1. N \in Nat /\ src.len \in Nat /\ dst.len \in Nat
          BY <1>1, <1>2, TreeFacts
        <5>2. M - t.len = N + 1 - src.len
          BY <4>2, <5>1
        <5> QED
          BY <1>11, <4>2, <5>2
      <4> QED
        BY <4>3 DEF M, t, u
    <3>2. cpy_mappings' = ms
      BY <1>4
    <3> HIDE DEF ms
    <3> QED
      BY <3>1, <3>2
  <2> QED
    BY <2>1 DEF StoreTyped
<1>13. /\ b[N].compressed = compressed(dst, x)
       /\ \A u \in Ids : b[u].compressed = mid_arena[u].compressed
  <2>1. /\ inserted(N, x, p)[N].compressed = compressed(dst, x)
        /\ \A u \in Ids : inserted(N, x, p)[u] = mid_arena[u]
    <3>1. Forest(mid_arena) /\ \A u \in Ids : PlacedIn(mid_arena, u)
      BY <1>1 DEF Shape
    <3> DEFINE a == inserted(N, x, p)
    <3>2. /\ \A u \in Ids : a[u] = mid_arena[u] /\ PlacedIn(a, u)
          /\ a[N] = [parent |-> p, kids |-> <<>>, compressed |-> compressed(dst, x)]
      BY <1>1, <1>2, <3>1, InsertedFacts
    <3> HIDE DEF a
    <3>3. a[N].compressed = compressed(dst, x) /\ \A u \in Ids : a[u] = mid_arena[u]
      BY <3>2
    <3> QED
      BY <3>3 DEF a
  <2> QED
    BY <2>1
<1>14. EndTurn(mid_arena', cpy_mappings', N, x)
  BY <1>4
<1> QED
  BY <1>2, <1>3, <1>4, <1>6, <1>10, <1>11, <1>12, <1>13, <1>14

(* An insertion is a turn. *)
LEMMA InsertTurn ==
  ASSUME Inv, NEW x, Insert(x)
  PROVE  \E acts : Turn(x, N, acts)
<1> DEFINE z == get_src_unchecked(cpy_mappings, parent(dst, x))
           k == find_pos(mid_arena, x)
           a == inserted(N, x, z)
           b == insert_kid(a, z, k, N)
           act == InsertAct(N, x, Append(path(mid_arena, z), k))
           I == Ids \cup {N}
<1>1. /\ Typed /\ Shape /\ Settled /\ InOrder /\ Visiting(x) /\ ArenaTyped
      /\ ~is_dst(cpy_mappings, x) /\ x # root(dst)
  BY DEF Inv, Insert, Typed
<1>2. next_id = N /\ N \notin Ids
  BY <1>1, OneMore
<1>3. /\ actions' = actions \o <<act>> /\ mid_root' = mid_root
      /\ EndTurn(b, with_inserted(N, x), N, x)
  BY <1>2 DEF Insert, emit
<1>4. /\ x \in nodes(dst) /\ pc = "ins_mov_upd" /\ parent(dst, x) \in visited
  BY <1>1, VisitFacts
<1>5. z = partner(parent(dst, x)) /\ z \in Ids /\ z # N
  <2>1. AtPlace(parent(dst, x))
    BY <1>1, <1>4 DEF Settled
  <2> QED
    BY <1>2, <2>1 DEF AtPlace, partner
<1> HIDE DEF z
<1>6. Forest(mid_arena) /\ (\A u \in Ids : PlacedIn(mid_arena, u)) /\ mid_arena \in Arenas(Ids, Contents)
  BY <1>1, <1>4 DEF Shape, ArenaTyped
<1>7. k \in 0 .. Len(mid_arena[z].kids)
  BY <1>1, <1>4, <1>5, <1>6, FindPos
<1> HIDE DEF k
<1>8. /\ a \in Arenas(I, Contents) /\ Forest(a) /\ Closed(a, I)
      /\ \A u \in Ids : a[u] = mid_arena[u] /\ PlacedIn(a, u)
      /\ \A u \in I : N \notin ToSet(a[u].kids)
  BY <1>1, <1>4, <1>5, <1>6, InsertedFacts
<1>9. N \in I /\ z \in I /\ DOMAIN a = I
  BY <1>5, <1>8 DEF Arenas
<1> HIDE DEF a
<1>10. Cut(a, a, N)
  BY <1>8, <1>9 DEF Cut, Forest
<1>11. k \in 0 .. Len(a[z].kids)
  BY <1>5, <1>7, <1>8
<1>12. /\ b \in Arenas(I, Contents) /\ Relocated(a, b, N, z)
       /\ \A u \in I : b[u].compressed = a[u].compressed
  <2> HIDE DEF I
  <2> QED
    BY <1>8, <1>9, <1>10, <1>11, PutIn
<1> HIDE DEF b
<1>13. Forest(b) /\ \A u \in I : PlacedIn(b, u)
  <2>1. \A u \in DOMAIN a : u # N => PlacedIn(a, u)
    BY <1>8, <1>9
  <2>2. DOMAIN b = I
    BY <1>9, <1>12 DEF Relocated
  <2> HIDE DEF I
  <2> QED
    BY <1>5, <1>8, <1>9, <1>12, <2>1, <2>2, RelocatedForest
<1>14. /\ dst' = dst /\ mid_arena' = b
       /\ EndTurn(mid_arena', cpy_mappings', N, x)
       /\ ArenaTyped' /\ StoreTyped' /\ Ids' = I
       /\ mid_arena'[N].compressed = compressed(dst, x)
       /\ \A u \in Ids : /\ mid_arena'[u].compressed = mid_arena[u].compressed
                         /\ cpy_mappings'.src_to_dst[u] = cpy_mappings.src_to_dst[u]
       /\ \A d \in nodes(dst) \ {x} : cpy_mappings'.dst_to_src[d] = cpy_mappings.dst_to_src[d]
       /\ has(cpy_mappings', N, x)
  <2>1. /\ z \in Ids \cup {N} /\ b \in Arenas(Ids \cup {N}, Contents)
        /\ \A u \in Ids \cup {N} : b[u].compressed = inserted(N, x, z)[u].compressed
    BY <1>9, <1>12 DEF a
  <2>2. mid_root' = mid_root \/ mid_root' = Append(mid_root, N)
    BY <1>3
  <2>3. Visiting(x) /\ EndTurn(b, with_inserted(N, x), N, x)
    BY <1>1, <1>3
  <2>4. /\ src' = src /\ dst' = dst /\ mid_arena' = b /\ cpy_mappings' = with_inserted(N, x)
        /\ EndTurn(mid_arena', cpy_mappings', N, x)
        /\ ArenaTyped' /\ StoreTyped' /\ Ids' = Ids \cup {N} /\ N \notin Ids /\ N \in Nat
        /\ mid_arena'[N].compressed = compressed(dst, x)
        /\ \A u \in Ids : /\ mid_arena'[u].compressed = mid_arena[u].compressed
                          /\ cpy_mappings'.src_to_dst[u] = cpy_mappings.src_to_dst[u]
        /\ \A d \in nodes(dst) \ {x} : cpy_mappings'.dst_to_src[d] = cpy_mappings.dst_to_src[d]
        /\ has(cpy_mappings', N, x)
    BY <2>1, <2>2, <2>3, Grown, Zenon
  <2> QED
    BY <2>4
<1>15. /\ \A u \in Ids \ {N} : mid_arena'[u].parent = mid_arena[u].parent
       /\ mid_arena'[N].parent = z
  BY <1>8, <1>9, <1>12, <1>14 DEF Relocated
<1>16. /\ mid_arena'[N].compressed.label = dst.label[x]
       /\ mid_arena'[N].compressed.type = dst.type[x]
  BY <1>14 DEF compressed
<1>17. /\ <<act>> \in Seq({act}) /\ DOMAIN <<act>> = {1} /\ <<act>>[1].by = "insert"
  BY DEF InsertAct
<1> HIDE DEF act
<1>18. Turn(x, N, <<act>>)
  BY <1>1, <1>2, <1>3, <1>5, <1>13, <1>14, <1>15, <1>16, <1>17 DEF Turn
<1> QED
  BY <1>18

(* The insertion of the root is a turn. *)
LEMMA InsertRootTurn ==
  ASSUME Inv, NEW x, InsertRoot(x)
  PROVE  \E acts : Turn(x, N, acts)
<1> DEFINE b == inserted(N, x, N)
           act == InsertAct(N, x, <<1>>)
           I == Ids \cup {N}
<1>1. /\ Typed /\ Shape /\ Visiting(x) /\ ArenaTyped
      /\ ~is_dst(cpy_mappings, x) /\ x = root(dst)
  BY DEF Inv, InsertRoot, Typed
<1>2. next_id = N /\ N \notin Ids
  BY <1>1, OneMore
<1>3. /\ actions' = actions \o <<act>> /\ mid_root' = Append(mid_root, N)
      /\ EndTurn(b, with_inserted(N, x), N, x)
  BY <1>2 DEF InsertRoot, emit
<1>4. x \in nodes(dst) /\ pc = "ins_mov_upd"
  BY <1>1, VisitFacts
<1>5. Forest(mid_arena) /\ (\A u \in Ids : PlacedIn(mid_arena, u)) /\ mid_root \in Seq(Ids)
  BY <1>1, <1>4 DEF Shape, ArenaTyped
<1>6. /\ b \in Arenas(I, Contents) /\ Forest(b)
      /\ \A u \in Ids : b[u] = mid_arena[u] /\ PlacedIn(b, u)
      /\ b[N] = [parent |-> N, kids |-> <<>>, compressed |-> compressed(dst, x)]
  BY <1>1, <1>4, <1>5, InsertedFacts
<1>7. \A u \in I : PlacedIn(b, u)
  BY <1>6 DEF PlacedIn
<1>8. /\ src' = src /\ dst' = dst /\ mid_arena' = b /\ cpy_mappings' = with_inserted(N, x)
      /\ EndTurn(mid_arena', cpy_mappings', N, x)
      /\ ArenaTyped' /\ StoreTyped' /\ Ids' = Ids \cup {N} /\ N \notin Ids /\ N \in Nat
      /\ mid_arena'[N].compressed = compressed(dst, x)
      /\ \A u \in Ids : /\ mid_arena'[u].compressed = mid_arena[u].compressed
                        /\ cpy_mappings'.src_to_dst[u] = cpy_mappings.src_to_dst[u]
      /\ \A d \in nodes(dst) \ {x} : cpy_mappings'.dst_to_src[d] = cpy_mappings.dst_to_src[d]
      /\ has(cpy_mappings', N, x)
  <2>1. N \in Ids \cup {N} /\ b \in Arenas(Ids \cup {N}, Contents)
    BY <1>6
  <2>2. \A u \in Ids \cup {N} : b[u].compressed = inserted(N, x, N)[u].compressed
    OBVIOUS
  <2>3. mid_root' = mid_root \/ mid_root' = Append(mid_root, N)
    BY <1>3
  <2>4. Visiting(x) /\ EndTurn(b, with_inserted(N, x), N, x)
    BY <1>1, <1>3
  <2> HIDE DEF b
  <2> QED
    BY <2>1, <2>2, <2>3, <2>4, Grown, Zenon
<1>9. /\ \A u \in Ids \ {N} : mid_arena'[u].parent = mid_arena[u].parent
      /\ mid_arena'[N].parent = N
  BY <1>6, <1>8
<1>10. Last(mid_root') = N
  BY <1>3, <1>5 DEF Last
<1>11. /\ mid_arena'[N].compressed.label = dst.label[x]
       /\ mid_arena'[N].compressed.type = dst.type[x]
  BY <1>8 DEF compressed
<1>12. /\ <<act>> \in Seq({act}) /\ DOMAIN <<act>> = {1} /\ <<act>>[1].by = "insert"
  BY DEF InsertAct
<1> HIDE DEF act, b
<1>13. Turn(x, N, <<act>>)
  BY <1>1, <1>2, <1>3, <1>6, <1>7, <1>8, <1>9, <1>10, <1>11, <1>12 DEF Turn
<1> QED
  BY <1>13

(***************************************************************************)
(* The walk up from the partner of a visited node meets the partners of    *)
(* its ancestors in dst, which are all visited, and nothing else; it ends  *)
(* at the partner of the root.                                             *)
(***************************************************************************)
UpFrom(y) == {y} \cup Ancestors(dst, y)
Chained(y) ==
  /\ \A a \in UpFrom(y) :
       /\ a \in visited
       /\ a = root(dst) \/ partner(a) \in climb(mid_arena, partner(y))
  /\ climb(mid_arena, partner(y)) \subseteq {partner(a) : a \in UpFrom(y) \ {root(dst)}}
  /\ top(mid_arena, partner(y)) = partner(root(dst)) /\ root(dst) \in UpFrom(y)

(* It is so of the partner of every visited node. *)
LEMMA Chain ==
  ASSUME Typed, Settled, NEW y \in visited
  PROVE  Chained(y)
<1> DEFINE bad == {k \in Nat : \E z \in visited : k = root(dst) - z /\ ~Chained(z)}
<1>1. /\ IsTree(dst) /\ root(dst) \in nodes(dst) /\ root(dst) \in Nat /\ nodes(dst) = 0 .. root(dst)
      /\ NoNode \notin Ids
  <2>1. IsTree(dst) /\ root(dst) \in nodes(dst) /\ NoNode \notin Ids
    BY TreeFacts
  <2> QED
    BY <2>1, NodeTypes DEF nodes
<1>2. Closed(mid_arena, DOMAIN mid_arena) /\ Ids = DOMAIN mid_arena
  <2>1. mid_arena \in Arenas(Ids, Contents)
    BY DEF Typed, ArenaTyped
  <2> QED
    BY <2>1, EntryFields DEF Closed, Ids
<1>3. SUFFICES ASSUME bad # {} PROVE FALSE
  <2> SUFFICES ASSUME ~Chained(y) PROVE bad # {}
    OBVIOUS
  <2>1. root(dst) - y \in Nat
    BY <1>1 DEF visited
  <2> HIDE DEF Chained
  <2> QED
    BY <2>1
<1>4. PICK m \in bad : \A n \in bad : m <= n
  <2>1. bad \subseteq Nat
    OBVIOUS
  <2> HIDE DEF bad
  <2> QED
    BY <1>3, <2>1, NatMinExists
<1>5. PICK z \in visited : m = root(dst) - z /\ ~Chained(z)
  BY <1>4
<1>6. /\ z \in nodes(dst) /\ AtPlace(z)
      /\ partner(z) \in Ids /\ mid_parent(partner(z)) = wanted_parent(z)
  BY DEF Settled, AtPlace, visited
<1> DEFINE w == partner(z)
<1>7. /\ climb(mid_arena, w) = IF mid_arena[w].parent = w THEN {}
                               ELSE {w} \cup climb(mid_arena, mid_arena[w].parent)
      /\ top(mid_arena, w) = IF mid_arena[w].parent = w THEN w
                             ELSE top(mid_arena, mid_arena[w].parent)
  BY <1>2, <1>6, ClimbUp, TopUp
<1>8. CASE z = root(dst)
  <2>1. mid_arena[w].parent = w
    <3>1. mid_parent(w) = NoNode
      BY <1>6, <1>8 DEF wanted_parent
    <3>2. mid_arena[w].parent \in Ids
      BY <1>2, <1>6 DEF Closed
    <3> QED
      BY <1>1, <3>1, <3>2 DEF mid_parent
  <2>2. UpFrom(z) = {z}
    BY <1>1, <1>8, ParentFacts DEF UpFrom, Ancestors
  <2>3. climb(mid_arena, w) = {} /\ top(mid_arena, w) = w
    BY <1>7, <2>1
  <2> HIDE DEF w
  <2>4. climb(mid_arena, partner(z)) = {} /\ top(mid_arena, partner(z)) = partner(root(dst))
    BY <1>8, <2>3 DEF w
  <2> QED
    BY <1>5, <1>8, <2>2, <2>4 DEF Chained
<1>9. CASE z # root(dst)
  <2> DEFINE p == parent(dst, z)
  <2>1. /\ p \in nodes(dst) /\ z < p /\ is_descendant(dst, z, p)
        /\ \A a \in nodes(dst) : is_descendant(dst, z, a) => a = p \/ is_descendant(dst, p, a)
        /\ \A a \in nodes(dst) : is_descendant(dst, p, a) => is_descendant(dst, z, a)
    BY <1>1, <1>6, <1>9, ParentFacts
  <2>2. p \in visited
    BY <1>6, <1>9 DEF AtPlace
  <2>3. Chained(p)
    <3> SUFFICES ASSUME ~Chained(p) PROVE FALSE
      OBVIOUS
    <3>1. p \in Int /\ z \in Int /\ root(dst) - p \in Nat /\ root(dst) - p < root(dst) - z
      BY <1>1, <1>6, <2>1
    <3> HIDE DEF p, Chained
    <3>2. root(dst) - p \in bad
      BY <2>2, <3>1
    <3> HIDE DEF bad
    <3>3. m <= root(dst) - p
      BY <1>4, <3>2
    <3> QED
      BY <1>1, <1>5, <3>1, <3>3
  <2>4. UpFrom(z) = {z} \cup UpFrom(p)
    BY <2>1 DEF UpFrom, Ancestors
  <2>5. mid_arena[w].parent = partner(p) /\ mid_arena[w].parent # w
    <3>1. mid_parent(w) = partner(p)
      BY <1>6, <1>9 DEF wanted_parent, partner
    <3>2. partner(p) \in Ids
      BY <2>2 DEF Settled, AtPlace
    <3> QED
      BY <1>1, <3>1, <3>2 DEF mid_parent
  <2>6. /\ climb(mid_arena, w) = {w} \cup climb(mid_arena, partner(p))
        /\ top(mid_arena, w) = top(mid_arena, partner(p))
    BY <1>7, <2>5
  <2> HIDE DEF p
  <2>7. /\ climb(mid_arena, partner(z)) = {partner(z)} \cup climb(mid_arena, partner(p))
        /\ top(mid_arena, partner(z)) = top(mid_arena, partner(p))
    BY <2>6
  <2> QED
    BY <1>5, <1>9, <2>3, <2>4, <2>7 DEF Chained
<1> QED
  BY <1>8, <1>9

(* An edit of the entries leaves the arena and the store typed. *)
LEMMA StillTyped ==
  ASSUME Typed, NEW b \in Arenas(Ids, Contents), mid_arena' = b, mid_root' = mid_root,
         cpy_mappings' = cpy_mappings, src' = src, dst' = dst
  PROVE  ArenaTyped' /\ StoreTyped' /\ Ids' = Ids /\ N' = N /\ Contents' = Contents
<1>1. DOMAIN b = Ids
  BY DEF Arenas
<1>2. Ids' = Ids
  BY <1>1 DEF Ids
<1>3. N' = N
  BY <1>2 DEF N
<1>4. Contents' = Contents
  BY DEF Contents, compressed
<1>5. ArenaTyped'
  BY <1>2, <1>3, <1>4 DEF Typed, ArenaTyped
<1>6. StoreTyped'
  BY <1>3 DEF Typed, StoreTyped
<1> QED
  BY <1>2, <1>3, <1>4, <1>5, <1>6

(***************************************************************************)
(* A mapped node of dst in its turn: its partner is a node of src, which   *)
(* is mapped to it, or to a node above it that took it.                    *)
(***************************************************************************)
LEMMA MappedFacts ==
  ASSUME Inv, NEW x, NEW w, Mapped(x, w)
  PROVE  /\ Visiting(x) /\ x \in nodes(dst) /\ x \notin visited
         /\ w = partner(x) /\ w \in nodes(src) /\ w \in Ids
         /\ \/ has(cpy_mappings, w, x) /\ has(ori_mappings, w, x)
            \/ /\ x # root(dst) /\ parent(dst, x) \in visited
               /\ \E a \in UpFrom(parent(dst, x)) : a \in visited /\ partner(a) = w
<1>1. /\ Typed /\ Extends /\ Settled /\ Visiting(x) /\ is_dst(cpy_mappings, x)
      /\ w = partner(x)
  BY DEF Inv, Mapped, partner
<1>2. /\ x \in nodes(dst) /\ x \in ToSet(unvisited) /\ x \notin visited
      /\ x # root(dst) => parent(dst, x) \in nodes(dst) /\ parent(dst, x) \in visited
  BY <1>1, VisitFacts
<1>3. /\ IsTree(dst) /\ root(dst) \in nodes(dst)
      /\ src.len \in Nat /\ nodes(src) = 0 .. src.len - 1
      /\ dst.len \in Nat /\ nodes(dst) = 0 .. dst.len - 1 /\ nodes(src) \subseteq Ids
      /\ ori_mappings.src_to_dst \in [0 .. src.len -> 0 .. dst.len]
      /\ ori_mappings.dst_to_src \in [0 .. dst.len -> 0 .. src.len]
  BY <1>1, TreeFacts
<1>4. /\ cpy_mappings.dst_to_src[x] = ori_mappings.dst_to_src[x]
      /\ ori_mappings.dst_to_src[x] # 0
  BY <1>1, <1>2 DEF Extends, is_dst
<1>5. w = ori_mappings.dst_to_src[x] - 1
  BY <1>1, <1>4 DEF partner, get_src_unchecked
<1>6. w \in nodes(src) /\ w \in Int /\ w \in 0 .. src.len
  <2>1. x \in 0 .. dst.len
    BY <1>2, <1>3
  <2>2. ori_mappings.dst_to_src[x] \in 0 .. src.len
    BY <1>3, <2>1
  <2> DEFINE slot == ori_mappings.dst_to_src[x]
             n == src.len
  <2>3. slot \in 0 .. n /\ slot # 0 /\ w = slot - 1 /\ n \in Nat /\ nodes(src) = 0 .. n - 1
    BY <1>3, <1>4, <1>5, <2>2
  <2> HIDE DEF slot, n
  <2>4. w \in 0 .. n - 1 /\ w \in Int /\ w \in 0 .. n
    BY <2>3
  <2> QED
    BY <2>3, <2>4 DEF n
<1> DEFINE taker == get_dst_unchecked(ori_mappings, w)
<1>7. has(ori_mappings, w, taker) /\ (taker = x \/ is_descendant(dst, x, taker))
  <2>1. is_dst(ori_mappings, x) /\ get_src_unchecked(ori_mappings, x) = w
    BY <1>4, <1>5 DEF is_dst, get_src_unchecked
  <2> QED
    BY <1>1, <1>2, <2>1 DEF Typed, Matched
<1>8. taker \in Int
  BY <1>3, <1>6 DEF get_dst_unchecked
<1> HIDE DEF taker
<1>9. CASE taker = x
  <2>1. has(ori_mappings, w, x)
    BY <1>7, <1>9
  <2>2. has(cpy_mappings, w, x)
    BY <1>1, <1>4, <1>6, <2>1 DEF has, Extends
  <2> QED
    BY <1>1, <1>2, <1>3, <1>6, <2>1, <2>2
<1>10. CASE is_descendant(dst, x, taker)
  <2>1. taker \in nodes(dst)
    <3>1. x < taker
      BY <1>10 DEF is_descendant
    <3>2. taker + 1 = ori_mappings.src_to_dst[w]
      BY <1>7 DEF has
    <3>3. ori_mappings.src_to_dst[w] \in 0 .. dst.len
      BY <1>3, <1>6
    <3> QED
      BY <1>2, <1>3, <1>8, <3>1, <3>2, <3>3
  <2>2. x # root(dst) /\ taker \in UpFrom(parent(dst, x))
    <3>1. x # root(dst)
      BY <1>3, <1>10, <2>1, ParentFacts
    <3>2. taker = parent(dst, x) \/ is_descendant(dst, parent(dst, x), taker)
      BY <1>2, <1>3, <1>10, <2>1, <3>1, ParentFacts
    <3> QED
      BY <2>1, <3>1, <3>2 DEF UpFrom, Ancestors
  <2>3. taker \in visited
    <3>1. Chained(parent(dst, x))
      BY <1>1, <1>2, <2>2, Chain
    <3> QED
      BY <2>2, <3>1 DEF Chained
  <2>4. partner(taker) = w
    <3> DEFINE slot == ori_mappings.dst_to_src[taker]
    <3>1. slot = w + 1
      BY <1>7 DEF has
    <3> HIDE DEF slot
    <3>2. slot # 0 /\ slot - 1 = w
      BY <1>3, <1>6, <3>1
    <3>3. cpy_mappings.dst_to_src[taker] = slot
      BY <1>1, <2>1, <3>2 DEF Extends, is_dst, slot
    <3> QED
      BY <3>2, <3>3 DEF partner, get_src_unchecked
  <2> QED
    BY <1>1, <1>2, <1>3, <1>6, <2>2, <2>3, <2>4
<1> QED
  BY <1>7, <1>9, <1>10

(* After its turn, the entry of a partner says what the node of dst does. *)
LEMMA RenamedRight ==
  ASSUME Inv, NEW x, NEW w, Mapped(x, w), has(cpy_mappings, w, x), NEW c,
         c = IF renames(w, x) THEN compressed(dst, x) ELSE mid_arena[w].compressed
  PROVE  /\ c.label = dst.label[x]
         /\ x # root(dst) /\ w # root(src) => c.type = dst.type[x]
<1>1. Typed /\ Extends /\ Untouched /\ x \in nodes(dst) /\ x \notin visited /\ w \in nodes(src)
  BY MappedFacts DEF Inv
<1>2. CASE renames(w, x)
  BY <1>2 DEF compressed
<1>3. CASE ~renames(w, x)
  <2>1. c = mid_arena[w].compressed /\ c.label = dst.label[x]
    BY <1>3 DEF renames
  <2>2. c = compressed(src, w)
    <3> SUFFICES ASSUME NEW y \in visited, has(cpy_mappings, w, y) PROVE FALSE
      BY <1>1, <2>1 DEF Untouched
    <3>1. y \in nodes(dst) /\ \A d \in nodes(dst) : d \in Int
      BY <1>1, TreeFacts DEF visited
    <3>2. y = x
      BY <1>1, <3>1 DEF has
    <3> QED
      BY <1>1, <3>2
  <2>3. has(ori_mappings, w, x)
    <3>1. x \in ToSet(unvisited)
      BY <1>1 DEF visited
    <3> QED
      BY <1>1, <3>1 DEF has, Extends
  <2>4. x # root(dst) /\ w # root(src) => src.type[w] = dst.type[x]
    BY <1>1, <2>3 DEF Typed, Matched
  <2> QED
    BY <2>1, <2>2, <2>4 DEF compressed
<1> QED
  BY <1>2, <1>3

(* A mapped node with the parent it should have is not a lost one. *)
LEMMA InPlaceTurn ==
  ASSUME Inv, NEW x, NEW w, InPlace(x, w)
  PROVE  \E acts : Turn(x, w, acts)
<1> DEFINE b == renamed(mid_arena, w, x)
           acts == IF renames(w, x) THEN <<UpdateAct("update", w, x, path(mid_arena, w))>> ELSE <<>>
<1>1. /\ Mapped(x, w) /\ wanted_parent(x) = mid_parent(w)
      /\ actions' = actions \o acts /\ EndTurn(b, cpy_mappings, w, x) /\ mid_root' = mid_root
  BY DEF InPlace, emit
<1>2. /\ Visiting(x) /\ x \in nodes(dst) /\ w \in nodes(src) /\ w \in Ids /\ w = partner(x)
      /\ x \notin visited /\ pc = "ins_mov_upd"
  BY <1>1, MappedFacts DEF Visiting
<1>3. Typed /\ Shape /\ Settled /\ Roots /\ mid_arena \in Arenas(Ids, Contents) /\ NoNode \notin Ids
  BY TreeFacts DEF Inv, Typed, ArenaTyped
<1>4. IsTree(dst) /\ root(dst) \in nodes(dst)
  BY <1>3, TreeFacts
<1>5. x # root(dst) => /\ parent(dst, x) \in nodes(dst) /\ parent(dst, x) \in visited
                       /\ AtPlace(parent(dst, x)) /\ partner(parent(dst, x)) \in Ids
                       /\ wanted_parent(x) = partner(parent(dst, x))
  BY <1>2, <1>3, VisitFacts DEF Settled, AtPlace, wanted_parent, partner
(* the taker is above x, and so would be its parent *)
<1>6. has(cpy_mappings, w, x)
  <2> SUFFICES ASSUME x # root(dst), NEW a \in UpFrom(parent(dst, x)), a \in visited, partner(a) = w
               PROVE  FALSE
    BY <1>1, MappedFacts
  <2> DEFINE p == parent(dst, x)
  <2>1. AtPlace(a) /\ mid_parent(w) = wanted_parent(a) /\ a \in nodes(dst)
    BY <1>3 DEF Settled, AtPlace, visited
  <2>2. wanted_parent(a) = partner(p) /\ partner(p) \in Ids
    BY <1>1, <1>5, <2>1
  <2>3. a # root(dst)
    BY <1>3, <2>2 DEF wanted_parent
  <2> DEFINE q == parent(dst, a)
  <2>4. q \in nodes(dst) /\ a < q
    BY <1>4, <2>1, <2>3, ParentFacts
  <2>5. q \in visited /\ partner(q) = partner(p)
    BY <2>1, <2>2, <2>3 DEF AtPlace, wanted_parent, partner
  <2>6. AtPlace(q) /\ AtPlace(p) /\ p \in nodes(dst)
    BY <1>3, <1>5, <2>5 DEF Settled
  <2>7. p \in Int /\ q \in Int /\ a \in Int
    BY <1>4, <2>1, <2>4, <2>6, NodeTypes
  <2>8. p <= a
    <3>1. a = p \/ is_descendant(dst, p, a)
      BY DEF UpFrom, Ancestors
    <3> QED
      BY <2>7, <3>1 DEF is_descendant
  <2>9. has(cpy_mappings, partner(p), p) /\ has(cpy_mappings, partner(p), q)
    BY <2>5, <2>6 DEF AtPlace
  <2>10. p + 1 = q + 1
    BY <2>9 DEF has
  <2> HIDE DEF p, q
  <2> QED
    BY <2>4, <2>7, <2>8, <2>10
<1>7. /\ b \in Arenas(Ids, Contents)
      /\ \A u \in Ids : /\ b[u].parent = mid_arena[u].parent /\ b[u].kids = mid_arena[u].kids
                        /\ b[u].compressed = IF u = w /\ renames(w, x) THEN compressed(dst, x)
                                             ELSE mid_arena[u].compressed
  <2>1. compressed(dst, x) \in Contents
    BY <1>2 DEF Contents
  <2> QED
    BY <1>2, <1>3, <2>1, Renamed
<1> HIDE DEF b
<1>8. DOMAIN b = Ids /\ DOMAIN mid_arena = Ids
  BY <1>3, <1>7 DEF Arenas
<1>9. Forest(b) /\ \A u \in Ids : PlacedIn(b, u)
  <2>1. Forest(mid_arena) /\ \A u \in Ids : PlacedIn(mid_arena, u) /\ mid_arena[u].parent \in Ids
    BY <1>2, <1>3, EntryFields DEF Shape
  <2>2. Forest(b)
    BY <1>7, <1>8, <2>1 DEF Forest
  <2>3. \A u \in Ids : PlacedIn(b, u)
    BY <1>7, <2>1 DEF PlacedIn
  <2> QED
    BY <2>2, <2>3
<1>10. /\ mid_arena' = b /\ cpy_mappings' = cpy_mappings /\ src' = src /\ dst' = dst
       /\ EndTurn(mid_arena', cpy_mappings', w, x)
  BY <1>1 DEF EndTurn, given
<1>11. ArenaTyped' /\ StoreTyped' /\ Ids' = Ids
  BY <1>1, <1>3, <1>7, <1>10, StillTyped
<1>12. /\ b[w].compressed.label = dst.label[x]
       /\ x # root(dst) /\ w # root(src) => b[w].compressed.type = dst.type[x]
  BY <1>1, <1>2, <1>6, <1>7, RenamedRight
<1>13. b[w].parent = IF x = root(dst) THEN w ELSE partner(parent(dst, x))
  <2>1. b[w].parent = mid_arena[w].parent /\ mid_arena[w].parent \in Ids
    BY <1>2, <1>3, <1>7, EntryFields
  <2>2. CASE x = root(dst)
    <3>1. mid_parent(w) = NoNode
      BY <1>1, <2>2 DEF wanted_parent
    <3> QED
      BY <1>3, <2>1, <2>2, <3>1 DEF mid_parent
  <2>3. CASE x # root(dst)
    <3>1. mid_parent(w) = partner(parent(dst, x)) /\ mid_parent(w) # NoNode
      BY <1>1, <1>3, <1>5, <2>3
    <3> QED
      BY <2>1, <2>3, <3>1 DEF mid_parent
  <2> QED
    BY <2>2, <2>3
<1>14. x = root(dst) => Last(mid_root) = w
  <2> SUFFICES ASSUME x = root(dst) PROVE Last(mid_root) = w
    OBVIOUS
  <2>1. mid_arena = copy(src) /\ mid_root = <<root(src)>>
    <3>1. root(dst) \in ToSet(unvisited)
      BY <1>2, <1>3, VisitFacts
    <3> QED
      BY <1>3, <3>1 DEF Roots
  <2>2. mid_arena[w].parent = w
    BY <1>2, <1>7, <1>13
  <2>3. IsTree(src) /\ \A u \in nodes(src) : compressed(src, u) \in Contents
    BY <1>3, TreeFacts DEF Contents
  <2>4. w = root(src)
    BY <1>2, <2>1, <2>2, <2>3, CopyFacts
  <2> QED
    BY <2>1, <2>4 DEF Last
<1>15. /\ \E S : acts \in Seq(S)
       /\ \A i \in DOMAIN acts : acts[i].by = "update"
  <2>1. CASE renames(w, x)
    <3> DEFINE upd == UpdateAct("update", w, x, path(mid_arena, w))
    <3>1. upd.by = "update"
      BY DEF UpdateAct
    <3> HIDE DEF upd
    <3>2. acts = <<upd>>
      BY <2>1 DEF upd
    <3>3. <<upd>> \in Seq({upd}) /\ DOMAIN <<upd>> = {1} /\ <<upd>>[1] = upd
      OBVIOUS
    <3> HIDE DEF acts
    <3>4. acts \in Seq({upd}) /\ DOMAIN acts = {1} /\ acts[1] = upd
      BY <3>2, <3>3
    <3> QED
      BY <3>1, <3>4
  <2>2. CASE ~renames(w, x)
    <3>1. acts = <<>> /\ <<>> \in Seq({}) /\ DOMAIN <<>> = {}
      BY <2>2
    <3> HIDE DEF acts
    <3> QED
      BY <3>1
  <2> QED
    BY <2>1, <2>2
<1> HIDE DEF acts
<1>16. Turn(x, w, acts)
  BY <1>1, <1>2, <1>6, <1>7, <1>9, <1>10, <1>11, <1>12, <1>13, <1>14, <1>15 DEF Turn
<1> QED
  BY <1>16

(* A walk up begins at its node. *)
LEMMA WalkStarts ==
  ASSUME Typed, NEW z \in Ids
  PROVE  z \in climb(mid_arena, z) \/ z = top(mid_arena, z)
<1>1. Closed(mid_arena, DOMAIN mid_arena) /\ Ids = DOMAIN mid_arena
  <2>1. mid_arena \in Arenas(Ids, Contents)
    BY DEF Typed, ArenaTyped
  <2> QED
    BY <2>1, EntryFields DEF Closed, Ids
<1> QED
  BY <1>1, ClimbUp, TopUp

(***************************************************************************)
(* A move is a turn.  A node whose partner was taken by one above it does  *)
(* not get here: the taker would be met on the walk up.                    *)
(***************************************************************************)
LEMMA MoveTurn ==
  ASSUME Inv, NEW x, NEW w, Move(x, w)
  PROVE  \E acts : Turn(x, w, acts)
<1> DEFINE z == wanted_parent(x)
           without == IF mid_parent(w) = NoNode THEN mid_arena ELSE remove_kid(mid_arena, w)
           k == find_pos(without, x)
           to == target(without, z, k)
           r == renamed(without, w, x)
           b == insert_kid(r, z, k, w)
           upd == UpdateAct("move_update", w, x, to)
           mv == [by |-> "move", node |-> w, from |-> path(mid_arena, w), to |-> to]
           first == IF renames(w, x) THEN <<upd>> ELSE <<>>
           acts == first \o <<mv>>
<1>1. /\ Mapped(x, w) /\ z # mid_parent(w) /\ z # NoNode
      /\ w \notin climb(mid_arena, z) /\ w # top(mid_arena, z)
      /\ actions' = actions \o acts /\ EndTurn(b, cpy_mappings, w, x) /\ mid_root' = mid_root
  BY DEF Move, emit
<1>2. /\ Visiting(x) /\ x \in nodes(dst) /\ w \in nodes(src) /\ w \in Ids /\ w = partner(x)
      /\ x \notin visited /\ pc = "ins_mov_upd"
  BY <1>1, MappedFacts DEF Visiting
<1>3. /\ Typed /\ Shape /\ Settled /\ InOrder /\ mid_arena \in Arenas(Ids, Contents)
      /\ NoNode \notin Ids
  BY TreeFacts DEF Inv, Typed, ArenaTyped
<1>4. /\ x # root(dst) /\ parent(dst, x) \in visited
      /\ z = partner(parent(dst, x)) /\ z \in Ids
  <2>1. x # root(dst)
    BY <1>1 DEF wanted_parent
  <2>2. parent(dst, x) \in visited
    BY <1>2, <1>3, <2>1, VisitFacts
  <2>3. AtPlace(parent(dst, x)) /\ z = partner(parent(dst, x))
    BY <1>3, <2>1, <2>2 DEF Settled, wanted_parent, partner
  <2> QED
    BY <2>1, <2>2, <2>3 DEF AtPlace
<1>5. has(cpy_mappings, w, x)
  <2> SUFFICES ASSUME NEW a \in UpFrom(parent(dst, x)), partner(a) = w
               PROVE  FALSE
    BY <1>1, MappedFacts
  <2>1. Chained(parent(dst, x))
    BY <1>3, <1>4, Chain
  <2>2. a = root(dst) \/ partner(a) \in climb(mid_arena, z)
    BY <1>4, <2>1 DEF Chained
  <2>3. top(mid_arena, z) = partner(root(dst))
    BY <1>4, <2>1 DEF Chained
  <2> QED
    BY <1>1, <2>2, <2>3
<1> HIDE DEF z
<1>6. w # z
  BY <1>1, <1>3, <1>4, WalkStarts
<1>7. Forest(mid_arena) /\ \A u \in Ids : PlacedIn(mid_arena, u)
  BY <1>2, <1>3 DEF Shape
<1>8. DOMAIN mid_arena = Ids
  BY DEF Ids
<1>9. /\ without \in Arenas(Ids, Contents) /\ Cut(mid_arena, without, w)
      /\ \A u \in Ids : without[u].compressed = mid_arena[u].compressed
  <2>1. CASE mid_parent(w) = NoNode
    <3>1. without = mid_arena
      BY <2>1
    <3>2. mid_arena[w].parent = w
      <4>1. mid_arena[w].parent \in Ids
        BY <1>2, <1>3, EntryFields
      <4> QED
        BY <1>3, <2>1, <4>1 DEF mid_parent
    <3>3. \A u \in Ids : w \notin ToSet(mid_arena[u].kids)
      BY <1>7, <1>8, <3>2 DEF Forest
    <3>4. Cut(mid_arena, mid_arena, w)
      BY <1>7, <1>8, <3>3 DEF Cut, Forest
    <3> HIDE DEF without
    <3> QED
      BY <1>3, <3>1, <3>4
  <2>2. CASE mid_parent(w) # NoNode
    <3>1. without = remove_kid(mid_arena, w)
      BY <2>2
    <3>2. w \in ToSet(mid_arena[mid_arena[w].parent].kids)
      BY <1>2, <1>7, <2>2 DEF mid_parent, PlacedIn
    <3>3. remove_kid(mid_arena, w) \in Arenas(Ids, Contents) /\ Cut(mid_arena, remove_kid(mid_arena, w), w)
      BY <1>2, <1>3, <1>7, <3>2, CutOut
    <3>4. \A u \in Ids : remove_kid(mid_arena, w)[u].compressed = mid_arena[u].compressed
      BY <1>2, <1>3, <1>7, <3>2, RemoveKid
    <3> HIDE DEF without
    <3> QED
      BY <3>1, <3>3, <3>4
  <2> QED
    BY <2>1, <2>2
<1> HIDE DEF without
<1>10. k \in 0 .. Len(without[z].kids)
  <2>1. \A u \in Ids : without[u].parent = mid_arena[u].parent
    BY <1>8, <1>9 DEF Cut
  <2> QED
    BY <1>2, <1>3, <1>4, <1>9, <2>1, FindPos
<1> HIDE DEF k
<1>11. /\ r \in Arenas(Ids, Contents)
       /\ \A u \in Ids : /\ r[u].parent = without[u].parent /\ r[u].kids = without[u].kids
                         /\ r[u].compressed = IF u = w /\ renames(w, x) THEN compressed(dst, x)
                                              ELSE without[u].compressed
  <2>1. compressed(dst, x) \in Contents
    BY <1>2 DEF Contents
  <2> QED
    BY <1>2, <1>9, <2>1, Renamed
<1> HIDE DEF r
<1>12. Cut(mid_arena, r, w)
  BY <1>8, <1>9, <1>11 DEF Cut
<1>13. /\ b \in Arenas(Ids, Contents) /\ Relocated(mid_arena, b, w, z)
       /\ \A u \in Ids : b[u].compressed = r[u].compressed
  <2>1. k \in 0 .. Len(r[z].kids)
    BY <1>4, <1>10, <1>11
  <2> QED
    BY <1>2, <1>3, <1>4, <1>11, <1>12, <2>1, PutIn
<1> HIDE DEF b
<1>14. Forest(b) /\ \A u \in Ids : PlacedIn(b, u)
  <2>1. Closed(mid_arena, DOMAIN mid_arena)
    BY <1>3, <1>8, EntryFields DEF Closed
  <2>2. DOMAIN b = Ids
    BY <1>8, <1>13 DEF Relocated
  <2> QED
    BY <1>2, <1>4, <1>6, <1>7, <1>8, <1>13, <2>1, <2>2, RelocatedForest
<1>15. /\ mid_arena' = b /\ cpy_mappings' = cpy_mappings /\ src' = src /\ dst' = dst
       /\ EndTurn(mid_arena', cpy_mappings', w, x)
  BY <1>1 DEF EndTurn, given
<1>16. ArenaTyped' /\ StoreTyped' /\ Ids' = Ids
  BY <1>1, <1>3, <1>13, <1>15, StillTyped
<1>17. /\ b[w].compressed.label = dst.label[x]
       /\ x # root(dst) /\ w # root(src) => b[w].compressed.type = dst.type[x]
  <2>1. b[w].compressed = IF renames(w, x) THEN compressed(dst, x) ELSE mid_arena[w].compressed
    BY <1>2, <1>9, <1>11, <1>13
  <2> QED
    BY <1>1, <1>5, <2>1, RenamedRight
<1>18. /\ b[w].parent = z
       /\ \A u \in Ids \ {w} : /\ b[u].parent = mid_arena[u].parent
                               /\ b[u].compressed = mid_arena[u].compressed
  BY <1>2, <1>8, <1>9, <1>11, <1>13 DEF Relocated
<1>19. ~AtPlace(x)
  BY <1>1, <1>2 DEF AtPlace, z
<1>20. /\ \E S : acts \in Seq(S)
       /\ \A i \in DOMAIN acts : acts[i].by \in {"move", "align"} => i = Len(acts) /\ acts[i].node = w
  <2> DEFINE S == {upd, mv}
  <2>1. upd.by = "move_update" /\ mv.by = "move" /\ mv.node = w
    BY DEF UpdateAct
  <2>2. upd \in S /\ mv \in S
    OBVIOUS
  <2> HIDE DEF upd, mv, S
  <2>3. <<mv>> \in Seq(S) /\ Len(<<mv>>) = 1 /\ <<mv>>[1] = mv
    BY <2>2
  <2>4. first \in Seq(S) /\ Len(first) \in Nat /\ \A i \in 1 .. Len(first) : first[i] = upd
    <3>1. <<upd>> \in Seq(S) /\ Len(<<upd>>) = 1 /\ <<upd>>[1] = upd
      BY <2>2
    <3>2. <<>> \in Seq(S) /\ Len(<<>>) = 0
      OBVIOUS
    <3> QED
      BY <3>1, <3>2
  <2> HIDE DEF first
  <2> DEFINE last == <<mv>>
  <2>5. last \in Seq(S) /\ Len(last) = 1 /\ last[1] = mv /\ acts = first \o last
    BY <2>3
  <2> HIDE DEF acts, last
  <2>6. /\ acts \in Seq(S) /\ Len(acts) = Len(first) + 1 /\ DOMAIN acts = 1 .. Len(first) + 1
        /\ \A i \in 1 .. Len(first) + 1 : acts[i] = IF i <= Len(first) THEN first[i] ELSE last[i - Len(first)]
    BY <2>4, <2>5, Joined
  <2>7. ASSUME NEW i \in DOMAIN acts, acts[i].by \in {"move", "align"}
        PROVE  i = Len(acts) /\ acts[i].node = w
    <3>1. CASE i <= Len(first)
      <4>1. acts[i] = upd
        BY <2>4, <2>6, <3>1
      <4> QED
        BY <2>1, <2>7, <4>1
    <3>2. CASE ~(i <= Len(first))
      <4>1. i = Len(first) + 1 /\ i - Len(first) = 1
        BY <2>4, <2>6, <3>2
      <4>2. acts[i] = mv
        BY <2>5, <2>6, <3>2, <4>1
      <4> QED
        BY <2>1, <2>6, <4>1, <4>2
    <3> QED
      BY <3>1, <3>2
  <2> QED
    BY <2>6, <2>7
<1> HIDE DEF acts
<1>21. Turn(x, w, acts)
  BY <1>1, <1>2, <1>4, <1>5, <1>14, <1>15, <1>16, <1>17, <1>18, <1>19, <1>20 DEF Turn
<1> QED
  BY <1>21

(***************************************************************************)
(* An edit that changes neither a parent nor the contents of a node: only  *)
(* the lists.                                                              *)
(***************************************************************************)
Relisted(b) ==
  /\ b \in Arenas(Ids, Contents)
  /\ \A u \in Ids : /\ b[u].parent = mid_arena[u].parent
                    /\ b[u].compressed = mid_arena[u].compressed
  /\ mid_arena' = b /\ src' = src /\ dst' = dst /\ ori_mappings' = ori_mappings
  /\ mid_root' = mid_root /\ cpy_mappings' = cpy_mappings /\ unvisited' = unvisited

(* Such an edit moves nothing: what was at its place still is. *)
LEMMA RelistedFacts ==
  ASSUME Typed, NEW b, Relisted(b)
  PROVE  /\ ArenaTyped' /\ StoreTyped' /\ Ids' = Ids /\ visited' = visited
         /\ \A d \in nodes(dst) : partner(d)' = partner(d) /\ (AtPlace(d)' <=> AtPlace(d))
<1>1. /\ b \in Arenas(Ids, Contents) /\ mid_arena' = b /\ src' = src /\ dst' = dst
      /\ mid_root' = mid_root /\ cpy_mappings' = cpy_mappings /\ unvisited' = unvisited
      /\ \A u \in Ids : b[u].parent = mid_arena[u].parent
  BY DEF Relisted
<1>2. ArenaTyped' /\ StoreTyped' /\ Ids' = Ids
  BY <1>1, StillTyped
<1>3. visited' = visited
  BY <1>1 DEF visited
<1>4. \A d \in nodes(dst) : partner(d)' = partner(d)
  BY <1>1 DEF partner
<1>5. ASSUME NEW d \in nodes(dst) PROVE AtPlace(d)' <=> AtPlace(d)
  <2>1. wanted_parent(d)' = wanted_parent(d)
    BY <1>1 DEF wanted_parent
  <2>2. ASSUME partner(d) \in Ids PROVE mid_parent(partner(d))' = mid_parent(partner(d))
    <3>1. mid_arena'[partner(d)].parent = mid_arena[partner(d)].parent
      BY <1>1, <2>2
    <3>2. partner(d)' = partner(d)
      BY <1>4
    <3> QED
      BY <3>1, <3>2 DEF mid_parent
  <2> QED
    BY <1>1, <1>2, <1>3, <1>4, <2>1, <2>2 DEF AtPlace
<1> QED
  BY <1>2, <1>3, <1>4, <1>5

(* The settled partners stay settled: their places are read off the parents. *)
LEMMA RelistedKeeps ==
  ASSUME Inv, NEW b, Relisted(b), root(dst) \in visited
  PROVE  Extends' /\ Roots' /\ Settled' /\ Untouched'
<1>1. Typed /\ Extends /\ Roots /\ Settled /\ Untouched
  BY DEF Inv
<1>2. /\ Ids' = Ids /\ visited' = visited
      /\ \A d \in nodes(dst) : partner(d)' = partner(d) /\ (AtPlace(d)' <=> AtPlace(d))
  BY <1>1, RelistedFacts
<1>3. /\ src' = src /\ dst' = dst /\ ori_mappings' = ori_mappings /\ mid_root' = mid_root
      /\ cpy_mappings' = cpy_mappings /\ unvisited' = unvisited
      /\ \A u \in Ids : mid_arena'[u].compressed = mid_arena[u].compressed
  BY DEF Relisted
<1>4. Extends'
  BY <1>1, <1>2, <1>3 DEF Extends
<1>5. Roots'
  <2>1. root(dst) \in nodes(dst) /\ root(dst) \notin ToSet(unvisited)
    BY DEF visited
  <2>2. Last(mid_root) = partner(root(dst))
    BY <1>1 DEF Roots
  <2>3. Last(mid_root') = partner(root(dst))'
    BY <1>3, <2>2 DEF partner
  <2> QED
    BY <1>3, <2>1, <2>3 DEF Roots
<1>6. Settled'
  <2> SUFFICES ASSUME NEW y \in visited
               PROVE  /\ AtPlace(y)'
                      /\ mid_arena'[partner(y)'].compressed.label = dst.label[y]
                      /\ y # root(dst) /\ partner(y)' # root(src) =>
                           mid_arena'[partner(y)'].compressed.type = dst.type[y]
    BY <1>2, <1>3 DEF Settled
  <2>1. AtPlace(y) /\ partner(y) \in Ids /\ y \in nodes(dst)
    BY <1>1 DEF Settled, AtPlace, visited
  <2>2. mid_arena'[partner(y)].compressed = mid_arena[partner(y)].compressed
    BY <1>3, <2>1
  <2> QED
    BY <1>1, <1>2, <2>1, <2>2 DEF Settled
<1>7. Untouched'
  <2>1. nodes(src) \subseteq Ids
    BY <1>1, TreeFacts
  <2> QED
    BY <1>1, <1>2, <1>3, <2>1 DEF Untouched, compressed
<1> QED
  BY <1>4, <1>5, <1>6, <1>7

(* A child that is moved among its siblings was at its place already. *)
LEMMA AlignKeepsInv ==
  ASSUME Inv, AlignMove
  PROVE  LET c == Head(to_move) w == mid_arena[c].parent
             d == get_dst_unchecked(ori_mappings, c)
         IN  /\ Inv' /\ \A u \in Ids : mid_arena'[u].parent = mid_arena[u].parent
             /\ d \in nodes(dst) /\ d # root(dst) /\ AtPlace(d) /\ partner(d) = c
             /\ w = partner(parent(dst, d)) /\ w \in Ids /\ parent(dst, d) \in visited
             /\ ToSet(to_move') = ToSet(to_move) \ {c} /\ Relisted(mid_arena')
             /\ \A u \in Ids \ {w} : mid_arena'[u].kids = mid_arena[u].kids
<1> DEFINE c == Head(to_move)
           w == mid_arena[c].parent
           d == get_dst_unchecked(ori_mappings, c)
           k == find_pos(mid_arena, d)
           without == remove_kid(mid_arena, c)
           last == Len(without[w].kids)
           at == IF k < last THEN k ELSE last
           b == insert_kid(without, w, at, c)
           act == [by |-> "align", node |-> c, from |-> path(mid_arena, c), to |-> path(mid_arena, w)]
<1>1. /\ pc = "ins_mov_upd" /\ to_move # <<>> /\ actions' = actions \o <<act>> /\ mid_arena' = b
      /\ dst_in_order' = dst_in_order \cup {d} /\ to_move' = Tail(to_move)
      /\ src' = src /\ dst' = dst /\ ori_mappings' = ori_mappings
      /\ mid_root' = mid_root /\ cpy_mappings' = cpy_mappings /\ unvisited' = unvisited
      /\ stack' = stack /\ pc' = pc
  BY DEF AlignMove, emit, given
<1>2. /\ Typed /\ Extends /\ Shape /\ Roots /\ Settled /\ InOrder /\ MovedToPlace /\ MovesOnce
      /\ ToMove /\ Phases /\ Stacked
  BY DEF Inv
<1>3. /\ c \in nodes(src) /\ c \in ToSet(to_move)
      /\ to_move' \in Seq(nodes(src)) /\ IsInjective(to_move')
      /\ ToSet(to_move') = ToSet(to_move) \ {c}
  <2>1. to_move \in Seq(nodes(src)) /\ IsInjective(to_move) /\ to_move # <<>>
    BY <1>1, <1>2 DEF Typed, CursorsTyped
  <2> QED
    BY <1>1, <2>1, HeadTail
<1> HIDE DEF c
<1>4. /\ d \in ToSet(unvisited) /\ has(ori_mappings, c, d) /\ d # root(dst) /\ AtPlace(d)
      /\ \A i \in Moves : actions[i].node # c
  <2>1. PICK e \in ToSet(unvisited) : has(ori_mappings, c, e) /\ e # root(dst) /\ AtPlace(e)
    BY <1>2, <1>3 DEF ToMove
  <2>2. e \in Int
    <3>1. e \in nodes(dst)
      BY <1>2, <2>1 DEF Typed, CursorsTyped, ToSet
    <3> QED
      BY <1>2, <3>1, TreeFacts
  <2>3. d = e
    BY <2>1, <2>2 DEF has, get_dst_unchecked
  <2> HIDE DEF d
  <2> QED
    BY <1>2, <1>3, <2>1, <2>3 DEF ToMove
<1> HIDE DEF d
<1>5. d \in nodes(dst) /\ c \in Ids /\ Ids \subseteq Nat /\ NoNode \notin Ids /\ mid_arena \in Arenas(Ids, Contents)
  <2>1. d \in nodes(dst)
    BY <1>2, <1>4 DEF Typed, CursorsTyped, ToSet
  <2> QED
    BY <1>2, <1>3, <2>1, TreeFacts DEF Typed, ArenaTyped
<1>6. partner(d) = c
  <2> DEFINE slot == ori_mappings.dst_to_src[d]
  <2>1. slot = c + 1
    BY <1>4 DEF has
  <2>2. cpy_mappings.dst_to_src[d] = slot
    BY <1>2, <1>4, <1>5 DEF Extends
  <2> HIDE DEF slot
  <2>3. slot - 1 = c
    BY <1>5, <2>1
  <2> QED
    BY <2>2, <2>3 DEF partner, get_src_unchecked
<1>7. /\ w = partner(parent(dst, d)) /\ w \in Ids /\ w # c /\ parent(dst, d) \in visited
  <2>1. mid_parent(c) = wanted_parent(d) /\ parent(dst, d) \in visited
    BY <1>4, <1>6 DEF AtPlace
  <2>2. AtPlace(parent(dst, d)) /\ wanted_parent(d) = partner(parent(dst, d))
    BY <1>2, <1>4, <2>1 DEF Settled, wanted_parent, partner
  <2>3. partner(parent(dst, d)) \in Ids
    BY <2>2 DEF AtPlace
  <2> QED
    BY <1>5, <2>1, <2>2, <2>3 DEF mid_parent
<1>8. Forest(mid_arena) /\ (\A u \in Ids : PlacedIn(mid_arena, u)) /\ DOMAIN mid_arena = Ids
  BY <1>1, <1>2 DEF Shape, Ids
<1>9. /\ without \in Arenas(Ids, Contents) /\ Cut(mid_arena, without, c)
      /\ \A u \in Ids : without[u].compressed = mid_arena[u].compressed
      /\ \A u \in Ids \ {w} : without[u].kids = mid_arena[u].kids
  <2>1. c \in ToSet(mid_arena[mid_arena[c].parent].kids)
    BY <1>5, <1>7, <1>8 DEF PlacedIn
  <2> QED
    BY <1>5, <1>8, <2>1, CutOut, RemoveKid
<1>10. k \in Nat
  <2>1. k \in 0 .. Len(mid_arena[w].kids)
    BY <1>2, <1>4, <1>5, <1>7, FindPos
  <2> HIDE DEF k
  <2> QED
    BY <2>1
<1> HIDE DEF without, k
<1>11. at \in 0 .. Len(without[w].kids)
  <2>1. without[w].kids \in Seq(Ids)
    <3> HIDE DEF w
    <3> QED
      BY <1>7, <1>9, EntryFields
  <2>2. Len(without[w].kids) \in Nat
    BY <2>1, LenProperties
  <2> QED
    BY <1>10, <2>2
<1> HIDE DEF at
<1>12. /\ b \in Arenas(Ids, Contents) /\ Relocated(mid_arena, b, c, w)
       /\ \A u \in Ids : b[u].compressed = without[u].compressed
       /\ \A u \in Ids \ {w} : b[u].kids = without[u].kids
  BY <1>5, <1>7, <1>9, <1>11, PutIn, InsertKid
<1> HIDE DEF b
<1>13. Forest(b) /\ \A u \in Ids : PlacedIn(b, u)
  <2>1. Closed(mid_arena, DOMAIN mid_arena)
    BY <1>5, <1>8, EntryFields DEF Closed
  <2>2. DOMAIN b = Ids
    BY <1>8, <1>12 DEF Relocated
  <2> HIDE DEF w
  <2> QED
    BY <1>5, <1>7, <1>8, <1>12, <2>1, <2>2, RelocatedForest
<1>14. Relisted(b)
  BY <1>1, <1>8, <1>9, <1>12 DEF Relisted, Relocated
<1>15. root(dst) \in visited
  <2> SUFFICES ASSUME root(dst) \in ToSet(unvisited) PROVE FALSE
    BY <1>2, TreeFacts DEF visited
  <2> QED
    BY <1>1, <1>2 DEF Roots
<1>16. Extends' /\ Roots' /\ Settled' /\ Untouched'
  BY <1>14, <1>15, RelistedKeeps
<1>17. /\ ArenaTyped' /\ StoreTyped' /\ Ids' = Ids /\ visited' = visited
       /\ \A e \in nodes(dst) : partner(e)' = partner(e) /\ (AtPlace(e)' <=> AtPlace(e))
  BY <1>2, <1>14, RelistedFacts
<1>18. Typed'
  <2>1. CursorsTyped'
    BY <1>1, <1>2, <1>3, <1>5 DEF Typed, CursorsTyped
  <2> QED
    BY <1>1, <1>2, <1>17, <2>1 DEF Typed
<1>19. Shape'
  BY <1>1, <1>13, <1>17 DEF Shape
<1>20. InOrder'
  <2>1. dst_in_order \subseteq nodes(dst)
    BY <1>2 DEF Typed, CursorsTyped
  <2> QED
    BY <1>1, <1>2, <1>4, <1>5, <1>17, <2>1 DEF InOrder
<1>21. PICK S : actions \in Seq(S)
  BY DEF Inv
<1>22. /\ actions' \in Seq(S \cup {act})
       /\ \A i \in DOMAIN actions' :
            \/ i \in DOMAIN actions /\ actions'[i] = actions[i]
            \/ i = Len(actions) + 1 /\ actions'[i] = act
  <2> DEFINE acts == <<act>>
  <2>1. acts \in Seq({act}) /\ DOMAIN acts = {1} /\ acts[1] = act
    OBVIOUS
  <2> HIDE DEF acts
  <2>2. /\ actions' \in Seq(S \cup {act})
        /\ \A i \in DOMAIN actions' :
             \/ i \in DOMAIN actions /\ actions'[i] = actions[i]
             \/ \E j \in DOMAIN acts : i = Len(actions) + j /\ actions'[i] = acts[j]
    <3>1. actions' = actions \o acts
      BY <1>1 DEF acts
    <3> QED
      BY <1>21, <2>1, <3>1, Emitted
  <2> QED
    BY <2>1, <2>2
<1>23. act.node = c
  OBVIOUS
<1> HIDE DEF act
<1>24. MovedToPlace'
  <2> SUFFICES ASSUME NEW i \in DOMAIN actions', actions'[i].by \in {"move", "align"}
               PROVE  \E e \in nodes(dst) \ {root(dst)} :
                        actions'[i].node = partner(e)' /\ AtPlace(e)'
    BY <1>1 DEF MovedToPlace, Moves
  <2>1. CASE i \in DOMAIN actions /\ actions'[i] = actions[i]
    <3>1. i \in Moves
      BY <2>1 DEF Moves
    <3>2. PICK e \in nodes(dst) \ {root(dst)} : actions[i].node = partner(e) /\ AtPlace(e)
      BY <1>2, <3>1 DEF MovedToPlace
    <3> QED
      BY <1>17, <2>1, <3>2
  <2>2. CASE actions'[i] = act
    BY <1>4, <1>5, <1>6, <1>17, <1>23, <2>2
  <2> QED
    BY <1>22, <2>1, <2>2
<1>25. MovesOnce'
  <2> SUFFICES ASSUME NEW i \in DOMAIN actions', NEW j \in DOMAIN actions',
                      actions'[i].by \in {"move", "align"}, actions'[j].by \in {"move", "align"},
                      actions'[i].node = actions'[j].node
               PROVE  i = j
    BY DEF MovesOnce
  <2>1. ASSUME NEW h \in DOMAIN actions', actions'[h].by \in {"move", "align"}
        PROVE  \/ h \in Moves /\ actions'[h] = actions[h] /\ actions'[h].node # c
               \/ h = Len(actions) + 1 /\ actions'[h].node = c
    <3>1. CASE h \in DOMAIN actions /\ actions'[h] = actions[h]
      <4>1. h \in Moves
        BY <2>1, <3>1 DEF Moves
      <4> QED
        BY <1>4, <3>1, <4>1
    <3>2. CASE h = Len(actions) + 1 /\ actions'[h] = act
      BY <1>23, <3>2
    <3> QED
      BY <1>22, <3>1, <3>2
  <2>2. CASE i \in Moves /\ actions'[i] = actions[i] /\ j \in Moves /\ actions'[j] = actions[j]
    BY <1>2, <2>2 DEF MovesOnce, Moves
  <2> QED
    BY <2>1, <2>2
<1>26. ToMove'
  <2>1. ASSUME NEW e \in ToSet(to_move')
        PROVE  /\ \E f \in ToSet(unvisited') :
                    has(ori_mappings', e, f) /\ f # root(dst)' /\ AtPlace(f)'
               /\ \A i \in DOMAIN actions' :
                    actions'[i].by \in {"move", "align"} => actions'[i].node # e
    <3>1. e \in ToSet(to_move) /\ e # c
      BY <1>3
    <3>2. PICK f \in ToSet(unvisited) : has(ori_mappings, e, f) /\ f # root(dst) /\ AtPlace(f)
      BY <1>2, <3>1 DEF ToMove
    <3>3. f \in nodes(dst)
      BY <1>2, <3>2 DEF Typed, CursorsTyped, ToSet
    <3>4. ASSUME NEW i \in DOMAIN actions', actions'[i].by \in {"move", "align"}
          PROVE  actions'[i].node # e
      <4>1. CASE i \in DOMAIN actions /\ actions'[i] = actions[i]
        <5>1. i \in Moves
          BY <3>4, <4>1 DEF Moves
        <5> QED
          BY <1>2, <3>1, <4>1, <5>1 DEF ToMove
      <4>2. CASE actions'[i] = act
        BY <1>23, <3>1, <4>2
      <4> QED
        BY <1>22, <4>1, <4>2
    <3> QED
      BY <1>1, <1>17, <3>2, <3>3, <3>4
  <2> QED
    BY <1>1, <2>1 DEF ToMove, Moves
<1>27. stack' = <<>>
  BY <1>1, <1>2 DEF Phases
<1>28. Phases'
  BY <1>1, <1>27 DEF Phases
<1>29. Stacked'
  <2>1. Len(stack') = 0 /\ 1 .. Len(stack') = {} /\ stack' \in Seq([id : Ids', idx : Nat])
    BY <1>27
  <2> QED
    BY <1>27, <2>1 DEF Stacked
<1> QED
  <2>1. Inv'
    BY <1>16, <1>18, <1>19, <1>20, <1>22, <1>24, <1>25, <1>26, <1>28, <1>29 DEF Inv
  <2>2. /\ \A u \in Ids : mid_arena'[u].parent = mid_arena[u].parent
        /\ \A u \in Ids \ {w} : mid_arena'[u].kids = mid_arena[u].kids
        /\ Relisted(mid_arena')
    BY <1>1, <1>9, <1>12, <1>14 DEF Relisted
  <2> QED
    BY <1>3, <1>4, <1>5, <1>6, <1>7, <2>1, <2>2 DEF c, d

(***************************************************************************)
(* The steps that edit nothing.                                            *)
(***************************************************************************)
LEMMA Unedited ==
  ASSUME Inv, UNCHANGED <<given, mid, cursors, actions>>,
         pc' \in {"ins_mov_upd", "del", "done"} \cup Failures,
         pc \in {"del", "done"} => pc' \in {"del", "done"},
         to_move # <<>> => pc' = "ins_mov_upd",
         Phases', Stacked'
  PROVE  Inv'
<1>1. /\ src' = src /\ dst' = dst /\ ori_mappings' = ori_mappings
      /\ mid_arena' = mid_arena /\ mid_root' = mid_root /\ cpy_mappings' = cpy_mappings
      /\ dst_in_order' = dst_in_order /\ unvisited' = unvisited /\ to_move' = to_move
      /\ actions' = actions
  BY DEF given, mid, cursors
<1>2. /\ Typed /\ Extends /\ Shape /\ Roots /\ Settled /\ Untouched /\ InOrder
      /\ MovedToPlace /\ MovesOnce /\ ToMove
  BY DEF Inv
<1>3. Ids' = Ids /\ visited' = visited /\ Moves' = Moves
  BY <1>1 DEF Ids, visited, Moves
<1>4. N' = N /\ Contents' = Contents
  BY <1>1, <1>3 DEF N, Contents
<1>5. ASSUME NEW d PROVE partner(d)' = partner(d) /\ AtPlace(d)' = AtPlace(d)
  <2>1. partner(d)' = partner(d) /\ wanted_parent(d)' = wanted_parent(d)
    BY <1>1 DEF partner, wanted_parent
  <2>2. mid_parent(partner(d))' = mid_parent(partner(d))
    BY <1>1, <2>1 DEF mid_parent
  <2> QED
    BY <1>1, <1>3, <2>1, <2>2 DEF AtPlace
<1>6. Typed'
  <2>1. ArenaTyped' /\ StoreTyped' /\ CursorsTyped'
    BY <1>1, <1>2, <1>3, <1>4 DEF Typed, ArenaTyped, StoreTyped, CursorsTyped
  <2> QED
    BY <1>1, <1>2, <2>1 DEF Typed
<1>7. Extends' /\ Roots'
  BY <1>1, <1>2, <1>3 DEF Extends, Roots, partner
<1>8. Shape'
  BY <1>1, <1>2, <1>3 DEF Shape
<1>9. Settled' /\ Untouched' /\ InOrder'
  BY <1>1, <1>2, <1>3, <1>5 DEF Settled, Untouched, InOrder
<1>10. MovedToPlace' /\ MovesOnce' /\ ToMove'
  BY <1>1, <1>2, <1>3, <1>5 DEF MovedToPlace, MovesOnce, ToMove
<1>11. (\E S : actions \in Seq(S))'
  BY <1>1 DEF Inv
<1> QED
  BY <1>6, <1>7, <1>8, <1>9, <1>10, <1>11 DEF Inv

(* A move or a rename that fails leaves everything as it is. *)
LEMMA FailKeepsInv ==
  ASSUME Inv, NEW x, NEW w, FailMove(x, w) \/ FailRename(x, w)
  PROVE  Inv'
<1>1. /\ UNCHANGED <<given, mid, cursors, stack, actions>> /\ pc' \in Failures
      /\ pc = "ins_mov_upd" /\ to_move = <<>>
  BY DEF FailMove, FailRename, Mapped, Visiting, Failures
<1>2. stack = <<>> /\ stack' = <<>> /\ pc' \notin {"del", "done"}
  BY <1>1 DEF Inv, Phases, Failures
<1>3. Phases'
  BY <1>2 DEF Phases
<1>4. Stacked'
  <2>1. Len(stack') = 0 /\ 1 .. Len(stack') = {} /\ stack' \in Seq([id : Ids', idx : Nat])
    BY <1>2
  <2> QED
    BY <1>2, <2>1 DEF Stacked
<1> QED
  BY <1>1, <1>3, <1>4, Unedited

(* del starts from the last root, which all the turns have left in place. *)
LEMMA StartDelKeepsInv ==
  ASSUME Inv, StartDel
  PROVE  Inv'
<1> DEFINE e == [id |-> Last(mid_root), idx |-> 0]
<1>1. /\ UNCHANGED <<given, mid, cursors, actions>> /\ pc' = "del" /\ stack' = <<e>>
      /\ pc = "ins_mov_upd" /\ unvisited = <<>> /\ to_move = <<>>
      /\ mid_root' = mid_root /\ mid_arena' = mid_arena /\ unvisited' = unvisited /\ to_move' = to_move
      /\ cpy_mappings' = cpy_mappings
  BY DEF StartDel, mid, cursors
<1>2. Ids' = Ids
  BY <1>1 DEF Ids
<1>3. Last(mid_root) \in Ids
  <2>1. mid_root \in Seq(Ids) /\ mid_root # <<>>
    BY DEF Inv, Typed, ArenaTyped
  <2>2. Len(mid_root) \in 1 .. Len(mid_root)
    BY <2>1
  <2> QED
    BY <2>1, <2>2, ElementOfSeq DEF Last
<1>4. e \in [id : Ids, idx : Nat] /\ e.idx = 0 /\ e.id = Last(mid_root)
  BY <1>3
<1>5. mid_arena[e.id].kids \in Seq(Ids)
  <2>1. mid_arena \in Arenas(Ids, Contents)
    BY DEF Inv, Typed, ArenaTyped
  <2> QED
    BY <1>3, <1>4, <2>1, EntryFields
<1> HIDE DEF e
<1>6. stack' \in Seq([id : Ids, idx : Nat]) /\ Len(stack') = 1 /\ stack'[1] = e
  <2> DEFINE S == [id : Ids, idx : Nat]
  <2>1. e \in S
    BY <1>4
  <2> HIDE DEF S
  <2>2. <<e>> \in Seq(S) /\ Len(<<e>>) = 1 /\ <<e>>[1] = e
    BY <2>1
  <2> QED
    BY <1>1, <2>2 DEF S
<1>7. Stacked'
  <2>1. 1 .. 1 = {1} /\ 1 .. 0 = {} /\ Len(mid_arena[e.id].kids) \in Nat
    BY <1>5, LenProperties
  <2>2. \A i \in 1 .. Len(stack') :
          /\ i = 1 /\ stack'[i] = e
          /\ stack'[i].idx <= Len(mid_arena'[stack'[i].id].kids)
          /\ 1 .. stack'[i].idx = {}
    BY <1>1, <1>4, <1>6, <2>1
  <2> QED
    BY <1>1, <1>2, <1>4, <1>6, <2>2 DEF Stacked, kids_of
<1>8. Phases'
  BY <1>1 DEF Phases
<1> QED
  BY <1>1, <1>7, <1>8, Unedited

(* del stops when its stack is empty. *)
LEMMA EndDelKeepsInv ==
  ASSUME Inv, EndDel
  PROVE  Inv'
<1>1. /\ UNCHANGED <<given, mid, cursors, actions>> /\ pc' = "done" /\ stack' = <<>>
      /\ pc = "del" /\ unvisited' = unvisited /\ to_move' = to_move
  BY DEF EndDel, cursors
<1>2. unvisited = <<>> /\ to_move = <<>>
  BY <1>1 DEF Inv, Phases
<1>3. Stacked'
  <2>1. Len(stack') = 0 /\ 1 .. Len(stack') = {} /\ stack' \in Seq([id : Ids', idx : Nat])
    BY <1>1
  <2> QED
    BY <1>1, <2>1 DEF Stacked
<1>4. Phases'
  BY <1>1, <1>2 DEF Phases
<1> QED
  BY <1>1, <1>2, <1>3, <1>4, Unedited

(* Nothing changes. *)
LEMMA StutterKeepsInv ==
  ASSUME Inv, UNCHANGED vars
  PROVE  Inv'
<1>1. /\ UNCHANGED <<given, mid, cursors, stack, actions>> /\ pc' = pc
      /\ mid_arena' = mid_arena /\ mid_root' = mid_root /\ cpy_mappings' = cpy_mappings
      /\ unvisited' = unvisited /\ to_move' = to_move /\ stack' = stack
  BY DEF vars, mid, cursors
<1>2. Typed /\ Phases /\ Stacked /\ ToMove
  BY DEF Inv
<1>3. Phases'
  BY <1>1, <1>2 DEF Phases
<1>4. Stacked'
  <2>1. Ids' = Ids
    BY <1>1 DEF Ids
  <2> QED
    BY <1>1, <1>2, <2>1 DEF Stacked, kids_of
<1>5. pc \in {"ins_mov_upd", "del", "done"} \cup Failures /\ (to_move # <<>> => pc = "ins_mov_upd")
  BY <1>2 DEF Typed, ToMove
<1> QED
  BY <1>1, <1>3, <1>4, <1>5, Unedited

(***************************************************************************)
(* The stack of del.                                                       *)
(***************************************************************************)
Entries(I) == [id : I, idx : Nat]

(* The entries of a stack but the last, and the last. *)
LEMMA FrontFacts ==
  ASSUME NEW S, NEW s \in Seq(S), s # <<>>
  PROVE  /\ Len(s) \in Nat /\ Len(s) > 0 /\ Last(s) = s[Len(s)] /\ Last(s) \in S
         /\ Front(s) \in Seq(S) /\ Len(Front(s)) = Len(s) - 1
         /\ \A i \in 1 .. Len(s) - 1 : Front(s)[i] = s[i]
<1> DEFINE n == Len(s)
<1>1. n \in Nat /\ n > 0
  BY LenProperties, EmptySeq
<1>2. Last(s) = s[n] /\ s[n] \in S
  BY <1>1, ElementOfSeq DEF Last
<1>3. Front(s) = SubSeq(s, 1, n - 1)
  BY DEF Front
<1> HIDE DEF n
<1>4. n - 1 \in Int /\ n - 1 >= 0 /\ 1 \in Int
  BY <1>1
<1> DEFINE h == n - 1
<1>5. h \in Nat /\ h <= n /\ h = n - 1
  BY <1>1
<1> HIDE DEF h
<1>6. \A i \in 1 .. h : s[i] \in S
  BY <1>1, <1>5, ElementOfSeq DEF n
<1>7. SubSeq(s, 1, h) = [i \in 1 .. h |-> s[i]]
  BY <1>5
<1>8. SubSeq(s, 1, h) \in Seq(S) /\ Len(SubSeq(s, 1, h)) = h
  BY <1>5, <1>6, <1>7
<1> QED
  BY <1>1, <1>2, <1>3, <1>5, <1>7, <1>8 DEF n

(* The cursor of the last entry moves. *)
LEMMA MovedOn ==
  ASSUME NEW I, NEW s \in Seq(Entries(I)), s # <<>>, NEW by \in Int, Last(s).idx + by \in Nat
  PROVE  /\ moved_on(s, by) \in Seq(Entries(I)) /\ Len(moved_on(s, by)) = Len(s)
         /\ \A i \in 1 .. Len(s) : i # Len(s) => moved_on(s, by)[i] = s[i]
         /\ moved_on(s, by)[Len(s)].id = Last(s).id
         /\ moved_on(s, by)[Len(s)].idx = Last(s).idx + by
         /\ moved_on(s, by) # <<>>
<1> DEFINE S == Entries(I)
           e == [Last(s) EXCEPT !.idx = @ + by]
           n == Len(s)
           r == moved_on(s, by)
           last == <<e>>
<1>1. /\ n \in Nat /\ n > 0 /\ Last(s) \in S
      /\ Front(s) \in Seq(S) /\ Len(Front(s)) = n - 1
      /\ \A i \in 1 .. n - 1 : Front(s)[i] = s[i]
  BY FrontFacts
<1>2. e \in S /\ e.id = Last(s).id /\ e.idx = Last(s).idx + by
  BY <1>1 DEF Entries
<1> HIDE DEF e
<1>3. last \in Seq(S) /\ Len(last) = 1 /\ last[1] = e
  BY <1>2
<1>4. r = Front(s) \o last
  BY DEF moved_on, e
<1> HIDE DEF S, r, last, n
<1> DEFINE f == Front(s)
<1>5. f \in Seq(S) /\ Len(f) = n - 1 /\ r = f \o last
  BY <1>1, <1>4
<1> HIDE DEF f
<1>6. /\ r \in Seq(S) /\ Len(r) = Len(f) + Len(last)
      /\ \A i \in 1 .. Len(f) + Len(last) : r[i] = IF i <= Len(f) THEN f[i] ELSE last[i - Len(f)]
  BY <1>3, <1>5, Joined
<1>7. Len(r) = n
  BY <1>1, <1>3, <1>5, <1>6
<1>8. ASSUME NEW i \in 1 .. n, i # n PROVE r[i] = s[i]
  <2>1. i <= Len(f) /\ i \in 1 .. n - 1 /\ i \in 1 .. Len(f) + Len(last)
    BY <1>1, <1>3, <1>5, <1>8
  <2> QED
    BY <1>1, <1>6, <2>1 DEF f
<1>9. r[n] = e
  <2>1. n \in 1 .. Len(f) + Len(last) /\ ~(n <= Len(f)) /\ n - Len(f) = 1
    BY <1>1, <1>3, <1>5
  <2> QED
    BY <1>3, <1>6, <2>1
<1>10. r # <<>>
  BY <1>1, <1>7
<1> QED
  BY <1>2, <1>6, <1>7, <1>8, <1>9, <1>10 DEF S, r, n

(***************************************************************************)
(* Each entry is a child of the one before, the first a root of the mid    *)
(* arena: the partner of the root of dst.                                  *)
(***************************************************************************)
LEMMA StackFacts ==
  ASSUME Inv, pc = "del", stack # <<>>
  PROVE  /\ Len(stack) \in Nat /\ Len(stack) > 0 /\ stack \in Seq(Entries(Ids))
         /\ \A i \in 1 .. Len(stack) :
              /\ stack[i].id \in Ids /\ stack[i].idx \in Nat /\ stack[i] \in Entries(Ids)
              /\ kids_of(stack[i]) = mid_arena[stack[i].id].kids
              /\ kids_of(stack[i]) \in Seq(Ids) /\ Len(kids_of(stack[i])) \in Nat
              /\ IsInjective(kids_of(stack[i]))
              /\ i > 1 => /\ mid_arena[stack[i].id].parent = stack[i - 1].id
                          /\ stack[i].id # stack[i - 1].id
                          /\ stack[i].id \in ToSet(mid_arena[stack[i - 1].id].kids)
         /\ mid_arena[stack[1].id].parent = stack[1].id /\ is_src(cpy_mappings, stack[1].id)
         /\ root(dst) \in visited
<1>1. Typed /\ Shape /\ Roots /\ Settled /\ Phases /\ Stacked
  BY DEF Inv
<1>2. /\ mid_arena \in Arenas(Ids, Contents) /\ DOMAIN mid_arena = Ids /\ Forest(mid_arena)
      /\ NoNode \notin Ids /\ Ids \subseteq Nat
  BY <1>1, TreeFacts DEF Typed, ArenaTyped, Shape, Ids
<1>3. \A u \in Ids : mid_arena[u].parent \in Ids /\ mid_arena[u].kids \in Seq(Ids)
  <2> SUFFICES ASSUME NEW u \in Ids
               PROVE  mid_arena[u].parent \in Ids /\ mid_arena[u].kids \in Seq(Ids)
    OBVIOUS
  <2>1. mid_arena \in Arenas(Ids, Contents)
    BY <1>2
  <2> HIDE DEF Ids, Contents
  <2> QED
    BY <2>1, EntryFields
<1>4. stack \in Seq(Entries(Ids)) /\ Len(stack) \in Nat /\ Len(stack) > 0
  <2>1. stack \in Seq(Entries(Ids))
    BY <1>1 DEF Stacked, Entries
  <2> QED
    BY <2>1, FrontFacts
<1>5. ASSUME NEW i \in 1 .. Len(stack)
      PROVE  /\ stack[i].id \in Ids /\ stack[i].idx \in Nat /\ stack[i] \in Entries(Ids)
             /\ kids_of(stack[i]) = mid_arena[stack[i].id].kids
             /\ kids_of(stack[i]) \in Seq(Ids) /\ Len(kids_of(stack[i])) \in Nat
             /\ IsInjective(kids_of(stack[i]))
  <2>1. stack[i] \in Entries(Ids)
    BY <1>4, ElementOfSeq
  <2>2. stack[i].id \in Ids /\ stack[i].idx \in Nat
    BY <2>1 DEF Entries
  <2>3. kids_of(stack[i]) = mid_arena[stack[i].id].kids
    BY DEF kids_of
  <2>4. mid_arena[stack[i].id].kids \in Seq(Ids)
    BY <1>3, <2>2
  <2>5. IsInjective(mid_arena[stack[i].id].kids)
    BY <1>2, <2>2 DEF Forest
  <2> QED
    BY <2>1, <2>2, <2>3, <2>4, <2>5, LenProperties
<1>6. ASSUME NEW i \in 1 .. Len(stack), i > 1
      PROVE  /\ mid_arena[stack[i].id].parent = stack[i - 1].id
             /\ stack[i].id # stack[i - 1].id
             /\ stack[i].id \in ToSet(mid_arena[stack[i - 1].id].kids)
  <2> DEFINE h == i - 1
  <2>1. h \in 1 .. Len(stack) /\ h < Len(stack) /\ h + 1 = i
    BY <1>4, <1>6
  <2> HIDE DEF h
  <2>2. /\ stack[h].idx <= Len(kids_of(stack[h])) /\ stack[h].idx > 0
        /\ stack[i].id = kids_of(stack[h])[stack[h].idx]
    BY <1>1, <2>1 DEF Stacked
  <2> DEFINE q == kids_of(stack[h])
             j == stack[h].idx
  <2>3. q \in Seq(Ids) /\ j \in Nat /\ j <= Len(q) /\ j > 0 /\ q[j] = stack[i].id
        /\ q = mid_arena[stack[h].id].kids /\ stack[h].id \in Ids
    BY <1>5, <2>1, <2>2
  <2> HIDE DEF q, j
  <2>4. stack[i].id \in ToSet(q)
    <3>1. j \in 1 .. Len(q)
      BY <2>3
    <3> QED
      BY <2>3, <3>1 DEF ToSet
  <2> QED
    BY <1>2, <2>3, <2>4 DEF Forest, h
<1>7. root(dst) \in visited
  <2>1. root(dst) \in nodes(dst) /\ unvisited = <<>> /\ ToSet(<<>>) = {}
    BY <1>1, TreeFacts DEF Phases, ToSet
  <2> QED
    BY <2>1 DEF visited
<1>8. stack[1].id = partner(root(dst))
  BY <1>1, <1>7, TreeFacts DEF Stacked, Roots
<1>9. AtPlace(root(dst))
  BY <1>1, <1>7 DEF Settled
<1>10. mid_arena[stack[1].id].parent = stack[1].id
  <2>1. mid_parent(stack[1].id) = NoNode /\ stack[1].id \in Ids
    BY <1>8, <1>9 DEF AtPlace, wanted_parent
  <2>2. mid_arena[stack[1].id].parent \in Ids
    BY <1>3, <2>1
  <2> QED
    BY <1>2, <2>1, <2>2 DEF mid_parent
<1>11. is_src(cpy_mappings, stack[1].id)
  <2>1. cpy_mappings.src_to_dst[stack[1].id] = root(dst) + 1 /\ root(dst) \in Nat
    <3>1. root(dst) \in nodes(dst) /\ IsTree(dst)
      BY <1>1, TreeFacts
    <3> QED
      BY <1>8, <1>9, <3>1, NodeTypes DEF AtPlace, has
  <2> QED
    BY <2>1 DEF is_src
<1> QED
  BY <1>4, <1>5, <1>6, <1>7, <1>10, <1>11

(* A child is put on the stack when those before it are kept.              *)
LEMMA DelDownKeepsInv ==
  ASSUME Inv, DelDown
  PROVE  Inv'
<1> DEFINE n == Len(stack)
           e == Last(stack)
           q == kids_of(e)
           w == q[e.idx + 1]
           m == moved_on(stack, 1)
           entry == [id |-> w, idx |-> 0]
<1>1. /\ pc = "del" /\ stack # <<>> /\ e.idx < Len(q) /\ stack' = Append(m, entry)
      /\ UNCHANGED <<given, mid, cursors, actions>> /\ pc' = pc
      /\ mid_arena' = mid_arena /\ mid_root' = mid_root /\ cpy_mappings' = cpy_mappings
      /\ unvisited' = unvisited /\ to_move' = to_move /\ Ids' = Ids
  BY DEF DelDown, mid, cursors, Ids
<1>2. Typed /\ Shape /\ Phases /\ Stacked
  BY DEF Inv
<1>3. /\ n \in Nat /\ n > 0 /\ stack \in Seq(Entries(Ids))
      /\ \A i \in 1 .. n :
           /\ stack[i].id \in Ids /\ stack[i].idx \in Nat
           /\ i > 1 => mid_arena[stack[i].id].parent = stack[i - 1].id
      /\ mid_arena[stack[1].id].parent = stack[1].id
  BY <1>1, StackFacts
<1>4. /\ \A i \in 1 .. n :
           /\ stack[i].idx <= Len(mid_arena[stack[i].id].kids)
           /\ i < n => /\ stack[i].idx > 0
                       /\ stack[i + 1].id = mid_arena[stack[i].id].kids[stack[i].idx]
           /\ \A j \in 1 .. stack[i].idx :
                j < stack[i].idx \/ i = n => is_src(cpy_mappings, mid_arena[stack[i].id].kids[j])
           /\ \A j \in 1 .. n : stack[i].id = stack[j].id => i = j
      /\ stack[1].id = Last(mid_root)
  BY <1>1, <1>2 DEF Stacked, kids_of
<1>5. /\ e = stack[n] /\ n \in 1 .. n /\ e.id = stack[n].id /\ e.idx = stack[n].idx
      /\ e.id \in Ids /\ e.idx \in Nat
      /\ q = mid_arena[e.id].kids /\ q \in Seq(Ids) /\ Len(q) \in Nat
  <2>1. n \in 1 .. n
    BY <1>3
  <2>2. e = stack[n]
    <3>1. Last(stack) = stack[Len(stack)]
      BY <1>1, <1>3, FrontFacts
    <3> QED
      BY <3>1
  <2> QED
    BY <1>1, <2>1, <2>2, StackFacts
<1> HIDE DEF e, q
<1>6. w \in Ids /\ mid_arena[w].parent = e.id /\ w # e.id
  <2> DEFINE h == e.idx + 1
  <2>1. h \in 1 .. Len(q)
    BY <1>1, <1>5
  <2> HIDE DEF h
  <2>2. q[h] \in ToSet(q) /\ q[h] \in Ids
    BY <1>5, <2>1 DEF ToSet
  <2>3. mid_arena[q[h]].parent = e.id /\ q[h] # e.id
    BY <1>2, <1>5, <2>2 DEF Shape, Forest, Ids
  <2> QED
    BY <2>2, <2>3 DEF h
<1>7. e.idx + 1 \in Nat /\ e.idx + 1 <= Len(q) /\ e.idx + 1 > 0 /\ q[e.idx + 1] = w
      /\ \A j \in 1 .. e.idx + 1 : j < e.idx + 1 => j \in 1 .. e.idx
  BY <1>1, <1>5
<1> HIDE DEF w
<1>8. /\ m \in Seq(Entries(Ids)) /\ Len(m) = n
      /\ \A i \in 1 .. n : i # n => m[i] = stack[i]
      /\ m[n].id = e.id /\ m[n].idx = e.idx + 1
  <2>1. 1 \in Int /\ e.idx + 1 \in Nat
    BY <1>7
  <2>2. stack \in Seq(Entries(Ids)) /\ stack # <<>>
    BY <1>1, <1>3
  <2> QED
    BY <2>1, <2>2, MovedOn DEF e
<1>9. entry \in Entries(Ids) /\ entry.id = w /\ entry.idx = 0
  BY <1>6 DEF Entries
<1> HIDE DEF m, entry
<1>10. /\ stack' \in Seq(Entries(Ids)) /\ Len(stack') = n + 1 /\ stack'[n + 1] = entry
       /\ \A i \in 1 .. n : stack'[i] = m[i]
  <2> DEFINE S == Entries(Ids)
  <2>1. m \in Seq(S) /\ entry \in S
    BY <1>8, <1>9
  <2> HIDE DEF S
  <2>2. Append(m, entry) \in Seq(S) /\ Len(Append(m, entry)) = n + 1
    BY <1>8, <2>1
  <2>3. Append(m, entry)[n + 1] = entry /\ \A i \in 1 .. n : Append(m, entry)[i] = m[i]
    BY <1>3, <1>8, <2>1
  <2> QED
    BY <1>1, <2>2, <2>3 DEF S
<1>11. /\ \A i \in 1 .. n : /\ stack'[i].id = stack[i].id
                            /\ stack'[i].idx = IF i = n THEN e.idx + 1 ELSE stack[i].idx
       /\ stack'[n + 1].id = w /\ stack'[n + 1].idx = 0 /\ stack'[n].idx = e.idx + 1
  BY <1>5, <1>8, <1>9, <1>10
<1>12. \A i \in 1 .. n : stack[i].id # w
  <2> SUFFICES ASSUME NEW i \in 1 .. n, stack[i].id = w PROVE FALSE
    OBVIOUS
  <2>1. i > 1 /\ i \in Int /\ n \in Int
    BY <1>3, <1>6
  <2> DEFINE h == i - 1
  <2>2. h \in 1 .. n /\ h # n
    BY <2>1
  <2>3. stack[h].id = stack[n].id
    BY <1>3, <1>5, <1>6, <2>1
  <2> HIDE DEF h
  <2> QED
    BY <1>4, <1>5, <2>2, <2>3
<1>13. \A i \in 1 .. n + 1 : i \in 1 .. n \/ i = n + 1
  BY <1>3
<1>14. Stacked'
  <2>1. ASSUME NEW i \in 1 .. n + 1
        PROVE  /\ stack'[i].idx <= Len(mid_arena[stack'[i].id].kids)
               /\ i < n + 1 => /\ stack'[i].idx > 0
                               /\ stack'[i + 1].id = mid_arena[stack'[i].id].kids[stack'[i].idx]
               /\ \A j \in 1 .. stack'[i].idx :
                    j < stack'[i].idx \/ i = n + 1 =>
                      is_src(cpy_mappings, mid_arena[stack'[i].id].kids[j])
               /\ \A j \in 1 .. n + 1 : stack'[i].id = stack'[j].id => i = j
    <3>1. CASE i = n + 1
      <4>1. Len(mid_arena[w].kids) >= 0
        <5>1. mid_arena[w].kids \in Seq(Ids)
          <6>1. mid_arena \in Arenas(Ids, Contents)
            BY <1>2 DEF Typed, ArenaTyped
          <6> HIDE DEF Ids, Contents
          <6> QED
            BY <1>6, <6>1, EntryFields
        <5> QED
          BY <5>1, LenProperties
      <4>2. 1 .. 0 = {} /\ ~(n + 1 < n + 1)
        BY <1>3
      <4>3. \A j \in 1 .. n + 1 : stack'[j].id = w => j = n + 1
        BY <1>11, <1>12, <1>13
      <4> QED
        BY <1>11, <3>1, <4>1, <4>2, <4>3
    <3>2. CASE i = n
      <4>1. stack'[i].id = e.id /\ stack'[i].idx = e.idx + 1
        BY <1>5, <1>11, <3>2
      <4>2. n # n + 1
        BY <1>3
      <4>3. \A j \in 1 .. e.idx : is_src(cpy_mappings, q[j])
        BY <1>4, <1>5
      <4>4. \A j \in 1 .. n + 1 : stack'[j].id = e.id => j = n
        BY <1>4, <1>5, <1>6, <1>11, <1>13
      <4> QED
        BY <1>5, <1>7, <1>11, <3>2, <4>1, <4>2, <4>3, <4>4
    <3>3. CASE i # n + 1 /\ i # n
      <4>1. i \in 1 .. n /\ i < n /\ i + 1 \in 1 .. n
        BY <1>3, <1>13, <3>3
      <4>2. stack'[i].id = stack[i].id /\ stack'[i].idx = stack[i].idx
        BY <1>11, <3>3, <4>1
      <4>3. stack'[i + 1].id = stack[i + 1].id
        BY <1>11, <4>1
      <4>4. \A j \in 1 .. n + 1 : stack'[j].id = stack[i].id => j = i
        BY <1>4, <1>11, <1>12, <1>13, <4>1
      <4>5. /\ stack[i].idx <= Len(mid_arena[stack[i].id].kids)
            /\ stack[i].idx > 0
            /\ stack[i + 1].id = mid_arena[stack[i].id].kids[stack[i].idx]
            /\ \A j \in 1 .. stack[i].idx :
                 j < stack[i].idx => is_src(cpy_mappings, mid_arena[stack[i].id].kids[j])
        BY <1>4, <4>1
      <4> QED
        BY <3>3, <4>2, <4>3, <4>4, <4>5
    <3> QED
      BY <3>1, <3>2, <3>3
  <2>2. stack'[1].id = Last(mid_root') /\ stack' \in Seq([id : Ids', idx : Nat])
    <3>1. 1 \in 1 .. n
      BY <1>3
    <3> QED
      BY <1>1, <1>4, <1>10, <1>11, <3>1 DEF Entries
  <2> QED
    BY <1>1, <1>10, <2>1, <2>2, SMTT(30) DEF Stacked, kids_of
<1>15. Phases'
  BY <1>1, <1>2 DEF Phases
<1> QED
  BY <1>1, <1>2, <1>14, <1>15, Unedited DEF Phases

(* A kept node leaves the stack, and its parent goes on.                   *)
LEMMA DelKeepKeepsInv ==
  ASSUME Inv, DelKeep
  PROVE  Inv'
<1> DEFINE n == Len(stack)
           e == Last(stack)
<1>1. /\ pc = "del" /\ stack # <<>> /\ is_src(cpy_mappings, e.id) /\ stack' = Front(stack)
      /\ UNCHANGED <<given, mid, cursors, actions>> /\ pc' = pc
      /\ mid_arena' = mid_arena /\ mid_root' = mid_root /\ cpy_mappings' = cpy_mappings
      /\ unvisited' = unvisited /\ to_move' = to_move /\ Ids' = Ids
  BY DEF DelKeep, after_keep, mid, cursors, Ids
<1>2. Typed /\ Phases /\ Stacked
  BY DEF Inv
<1>3. n \in Nat /\ n > 0 /\ stack \in Seq(Entries(Ids))
  BY <1>1, StackFacts
<1>4. /\ e = stack[n] /\ stack' \in Seq(Entries(Ids)) /\ Len(stack') = n - 1
      /\ \A i \in 1 .. n - 1 : stack'[i] = stack[i]
  BY <1>1, <1>3, FrontFacts
<1> HIDE DEF e
<1>5. /\ \A i \in 1 .. n :
           /\ stack[i].idx <= Len(mid_arena[stack[i].id].kids)
           /\ i < n => /\ stack[i].idx > 0
                       /\ stack[i + 1].id = mid_arena[stack[i].id].kids[stack[i].idx]
           /\ \A j \in 1 .. stack[i].idx :
                j < stack[i].idx \/ i = n => is_src(cpy_mappings, mid_arena[stack[i].id].kids[j])
           /\ \A j \in 1 .. n : stack[i].id = stack[j].id => i = j
      /\ stack[1].id = Last(mid_root)
      /\ \A i \in 1 .. n : stack[i].idx \in Nat
  BY <1>1, <1>2, StackFacts DEF Stacked, kids_of
<1>6. Stacked'
  <2>1. ASSUME NEW i \in 1 .. n - 1
        PROVE  /\ stack'[i].idx <= Len(mid_arena[stack'[i].id].kids)
               /\ i < n - 1 => /\ stack'[i].idx > 0
                               /\ stack'[i + 1].id = mid_arena[stack'[i].id].kids[stack'[i].idx]
               /\ \A j \in 1 .. stack'[i].idx :
                    j < stack'[i].idx \/ i = n - 1 =>
                      is_src(cpy_mappings, mid_arena[stack'[i].id].kids[j])
               /\ \A j \in 1 .. n - 1 : stack'[i].id = stack'[j].id => i = j
    <3>1. i \in 1 .. n /\ i < n /\ stack'[i] = stack[i] /\ i \in Int
          /\ (i < n - 1 => i + 1 \in 1 .. n - 1) /\ (i = n - 1 => i + 1 = n)
          /\ \A j \in 1 .. n - 1 : j \in 1 .. n
      BY <1>3, <1>4
    <3>2. i < n - 1 => stack'[i + 1] = stack[i + 1]
      BY <1>4, <3>1
    <3>3. /\ stack[i].idx <= Len(mid_arena[stack[i].id].kids)
          /\ stack[i].idx > 0 /\ stack[i].idx \in Nat
          /\ stack[i + 1].id = mid_arena[stack[i].id].kids[stack[i].idx]
          /\ \A j \in 1 .. stack[i].idx :
                 j < stack[i].idx => is_src(cpy_mappings, mid_arena[stack[i].id].kids[j])
      BY <1>5, <3>1
    <3>4. \A j \in 1 .. n - 1 : stack'[i].id = stack'[j].id => i = j
      BY <1>4, <1>5, <3>1
    <3>5. i = n - 1 => is_src(cpy_mappings, mid_arena[stack[i].id].kids[stack[i].idx])
      BY <1>1, <1>4, <3>1, <3>3
    <3>6. \A j \in 1 .. stack[i].idx : j < stack[i].idx \/ j = stack[i].idx
      BY <3>3
    <3> QED
      BY <3>1, <3>2, <3>3, <3>4, <3>5, <3>6
  <2>2. stack' # <<>> => stack'[1].id = Last(mid_root')
    <3> SUFFICES ASSUME stack' # <<>> PROVE stack'[1] = stack[1]
      BY <1>1, <1>5
    <3>1. Len(stack') > 0
      BY <1>4, FrontFacts
    <3>2. 1 \in 1 .. n - 1
      BY <1>3, <1>4, <3>1
    <3> QED
      BY <1>4, <3>2
  <2>3. stack' \in Seq([id : Ids', idx : Nat])
    BY <1>1, <1>4 DEF Entries
  <2> HIDE DEF n
  <2> QED
    BY <1>1, <1>4, <2>1, <2>2, <2>3 DEF Stacked, kids_of
<1>7. Phases'
  BY <1>1, <1>2 DEF Phases
<1> QED
  BY <1>1, <1>2, <1>6, <1>7, Unedited DEF Phases

(***************************************************************************)
(* A node that is deleted is the one that its parent, below it on the      *)
(* stack, went down to last: the list loses that place, and the cursor     *)
(* steps back.                                                             *)
(***************************************************************************)
LEMMA DeleteFacts ==
  ASSUME Inv, Delete
  PROVE  LET n == Len(stack) w == stack[n].id p == stack[n - 1].id q == mid_arena[p].kids
             b == remove_kid(mid_arena, w) IN
         /\ pc = "del" /\ n \in Nat /\ n > 1 /\ w \in Ids /\ p \in Ids /\ mid_arena[w].parent = p
         /\ ~is_src(cpy_mappings, w) /\ w # p
         /\ \A j \in 1 .. Len(mid_arena[w].kids) : is_src(cpy_mappings, mid_arena[w].kids[j])
         /\ mid_arena[w].kids \in Seq(Ids)
         /\ stack' = moved_on(Front(stack), -1)
         /\ q \in Seq(Ids) /\ Len(q) \in Nat /\ stack[n - 1].idx \in 1 .. Len(q)
         /\ b \in Arenas(Ids, Contents) /\ Cut(mid_arena, b, w) /\ Relisted(b)
         /\ IsInjective(q) /\ w \in ToSet(q) /\ b[p].kids = Without(q, w)
         /\ Len(b[p].kids) = Len(q) - 1
         /\ \A j \in 1 .. stack[n - 1].idx - 1 : b[p].kids[j] = q[j]
         /\ \A j \in stack[n - 1].idx + 1 .. Len(q) : b[p].kids[j - 1] = q[j]
         /\ \A u \in Ids \ {p} : b[u].kids = mid_arena[u].kids
         /\ root(dst) \in visited
<1> DEFINE n == Len(stack)
           w == stack[n].id
           h == n - 1
           p == stack[h].id
           q == mid_arena[p].kids
           t == stack[h].idx
           b == remove_kid(mid_arena, w)
<1>1. /\ pc = "del" /\ stack # <<>> /\ children_done(Last(stack))
      /\ ~is_src(cpy_mappings, Last(stack).id) /\ stack' = moved_on(Front(stack), -1)
      /\ mid_arena' = remove_kid(mid_arena, Last(stack).id)
      /\ src' = src /\ dst' = dst /\ ori_mappings' = ori_mappings
      /\ mid_root' = mid_root /\ cpy_mappings' = cpy_mappings /\ unvisited' = unvisited
  BY DEF Delete, given, cursors
<1>2. Typed /\ Shape /\ Stacked
  BY DEF Inv
<1>3. /\ n \in Nat /\ n > 0 /\ stack \in Seq(Entries(Ids))
      /\ \A i \in 1 .. n :
           /\ stack[i].id \in Ids /\ stack[i].idx \in Nat
           /\ mid_arena[stack[i].id].kids \in Seq(Ids)
           /\ Len(mid_arena[stack[i].id].kids) \in Nat
           /\ IsInjective(mid_arena[stack[i].id].kids)
           /\ i > 1 => /\ mid_arena[stack[i].id].parent = stack[i - 1].id
                       /\ stack[i].id # stack[i - 1].id
                       /\ stack[i].id \in ToSet(mid_arena[stack[i - 1].id].kids)
      /\ is_src(cpy_mappings, stack[1].id) /\ root(dst) \in visited
  BY <1>1, StackFacts DEF kids_of
<1>4. Last(stack) = stack[n] /\ n \in 1 .. n
  <2>1. Last(stack) = stack[Len(stack)]
    BY <1>1, <1>3, FrontFacts
  <2> QED
    BY <1>3, <2>1
<1>5. /\ mid_arena' = b /\ ~is_src(cpy_mappings, w)
      /\ stack[n].idx = Len(mid_arena[w].kids)
  BY <1>1, <1>4 DEF children_done, kids_of
<1>6. n > 1
  BY <1>3, <1>5
<1>7. h \in 1 .. n /\ h < n /\ h + 1 = n /\ h \in Nat
  BY <1>3, <1>6
<1> HIDE DEF h
<1>8. /\ w \in Ids /\ p \in Ids /\ mid_arena[w].parent = p /\ w # p /\ w \in ToSet(q)
      /\ q \in Seq(Ids) /\ Len(q) \in Nat /\ IsInjective(q) /\ t \in Nat
      /\ mid_arena[w].kids \in Seq(Ids)
  BY <1>3, <1>4, <1>6, <1>7 DEF h
<1>9. /\ \A j \in 1 .. stack[n].idx : is_src(cpy_mappings, mid_arena[w].kids[j])
      /\ t <= Len(q) /\ t > 0 /\ w = q[t]
  BY <1>2, <1>4, <1>7 DEF Stacked, kids_of
<1> HIDE DEF n, w, p, q, t, b
<1>10. mid_arena \in Arenas(Ids, Contents) /\ Forest(mid_arena)
  BY <1>2 DEF Typed, ArenaTyped, Shape
<1>11. /\ b \in Arenas(Ids, Contents) /\ Cut(mid_arena, b, w)
       /\ \A u \in Ids : /\ b[u].parent = mid_arena[u].parent
                         /\ b[u].compressed = mid_arena[u].compressed
                         /\ b[u].kids = IF u = p THEN Without(mid_arena[u].kids, w) ELSE mid_arena[u].kids
  <2>1. w \in ToSet(mid_arena[mid_arena[w].parent].kids)
    BY <1>8 DEF q
  <2> QED
    BY <1>8, <1>10, <2>1, CutOut, RemoveKid DEF b
<1>12. b[p].kids = Without(q, w) /\ \A u \in Ids \ {p} : b[u].kids = mid_arena[u].kids
  BY <1>8, <1>11 DEF q
<1> DEFINE a == index_of(q, w) + 1
<1>13. a \in 1 .. Len(q) /\ q[a] = w
  BY <1>8, IndexOf
<1>14. /\ Len(Without(q, w)) = Len(q) - 1
       /\ \A i \in 1 .. Len(q) - 1 : Without(q, w)[i] = IF i < a THEN q[i] ELSE q[i + 1]
  BY <1>8, WithoutFacts
<1> HIDE DEF a
<1>15. t \in 1 .. Len(q)
  BY <1>8, <1>9
<1>16. a = t
  BY <1>8, <1>9, <1>13, <1>15 DEF IsInjective
<1>17. \A j \in 1 .. t - 1 : b[p].kids[j] = q[j]
  <2> SUFFICES ASSUME NEW j \in 1 .. t - 1 PROVE Without(q, w)[j] = q[j]
    BY <1>12
  <2>1. j \in 1 .. Len(q) - 1 /\ j < a
    BY <1>8, <1>15, <1>16
  <2> QED
    BY <1>14, <2>1
<1>18. \A j \in t + 1 .. Len(q) : b[p].kids[j - 1] = q[j]
  <2> SUFFICES ASSUME NEW j \in t + 1 .. Len(q) PROVE Without(q, w)[j - 1] = q[j]
    BY <1>12
  <2>1. j - 1 \in 1 .. Len(q) - 1 /\ ~(j - 1 < a) /\ (j - 1) + 1 = j
    BY <1>8, <1>15, <1>16
  <2> QED
    BY <1>14, <2>1
<1>19. Relisted(b)
  BY <1>1, <1>5, <1>11 DEF Relisted
<1> QED
  BY <1>1, <1>3, <1>5, <1>6, <1>8, <1>9, <1>11, <1>12, <1>14, <1>15, <1>17, <1>18, <1>19
     DEF n, w, p, q, t, b, h

(* A deletion keeps the rest of the mid arena, and of the stack, right.    *)
LEMMA DeleteKeepsInv ==
  ASSUME Inv, Delete
  PROVE  Inv'
<1> DEFINE n == Len(stack)
           h == n - 1
           w == stack[n].id
           p == stack[h].id
           q == mid_arena[p].kids
           t == stack[h].idx
           b == remove_kid(mid_arena, w)
           act == [by |-> "delete", node |-> Last(stack).id, to |-> path(mid_arena, Last(stack).id)]
<1>1. /\ actions' = actions \o <<act>>
      /\ src' = src /\ dst' = dst /\ ori_mappings' = ori_mappings
      /\ mid_root' = mid_root /\ cpy_mappings' = cpy_mappings
      /\ dst_in_order' = dst_in_order /\ unvisited' = unvisited /\ to_move' = to_move
      /\ pc' = pc
  BY DEF Delete, emit, given, cursors
<1>2. /\ Typed /\ Shape /\ InOrder /\ MovedToPlace /\ MovesOnce /\ Phases /\ Stacked
  BY DEF Inv
<1>3. /\ pc = "del" /\ n \in Nat /\ n > 1 /\ w \in Ids /\ p \in Ids /\ mid_arena[w].parent = p
      /\ ~is_src(cpy_mappings, w) /\ w # p
      /\ stack' = moved_on(Front(stack), -1)
      /\ q \in Seq(Ids) /\ Len(q) \in Nat /\ t \in 1 .. Len(q)
      /\ b \in Arenas(Ids, Contents) /\ Cut(mid_arena, b, w) /\ Relisted(b)
      /\ Len(b[p].kids) = Len(q) - 1
      /\ \A j \in 1 .. t - 1 : b[p].kids[j] = q[j]
      /\ \A u \in Ids \ {p} : b[u].kids = mid_arena[u].kids
      /\ root(dst) \in visited
  BY DeleteFacts, Zenon
<1>4. /\ stack \in Seq(Entries(Ids)) /\ stack # <<>>
      /\ \A i \in 1 .. n : stack[i].id \in Ids /\ stack[i].idx \in Nat
  <2>1. stack # <<>>
    <3>1. n > 1
      BY <1>3
    <3>2. Len(<<>>) = 0
      OBVIOUS
    <3> QED
      BY <3>1, <3>2
  <2>2. pc = "del"
    BY <1>3
  <2> QED
    BY <2>1, <2>2, StackFacts
<1>5. /\ \A i \in 1 .. n :
           /\ stack[i].idx <= Len(mid_arena[stack[i].id].kids)
           /\ i < n => /\ stack[i].idx > 0
                       /\ stack[i + 1].id = mid_arena[stack[i].id].kids[stack[i].idx]
           /\ \A j \in 1 .. stack[i].idx :
                j < stack[i].idx => is_src(cpy_mappings, mid_arena[stack[i].id].kids[j])
           /\ \A j \in 1 .. n : stack[i].id = stack[j].id => i = j
      /\ stack[1].id = Last(mid_root)
  BY <1>2, <1>4 DEF Stacked, kids_of
<1>6. h \in 1 .. n /\ h < n /\ h + 1 = n /\ h \in Nat /\ h > 0
  BY <1>3, SMTT(20)
<1>7. mid_arena' = b
  BY <1>3 DEF Relisted
<1>8. /\ ArenaTyped' /\ StoreTyped' /\ Ids' = Ids /\ visited' = visited
      /\ \A e \in nodes(dst) : partner(e)' = partner(e) /\ (AtPlace(e)' <=> AtPlace(e))
  BY <1>2, <1>3, RelistedFacts
<1>9. Extends' /\ Roots' /\ Settled' /\ Untouched'
  BY <1>3, RelistedKeeps
<1>10. Typed'
  <2>1. CursorsTyped'
    BY <1>1, <1>2 DEF Typed, CursorsTyped
  <2> QED
    BY <1>1, <1>2, <1>8, <2>1 DEF Typed
<1> HIDE DEF h, n
<1> DEFINE f == Front(stack)
<1>11. /\ f \in Seq(Entries(Ids)) /\ Len(f) = h /\ f # <<>> /\ Last(f) = stack[h]
       /\ \A i \in 1 .. h : f[i] = stack[i]
  <2>1. f \in Seq(Entries(Ids)) /\ Len(f) = h /\ \A i \in 1 .. h : f[i] = stack[i]
    BY <1>4, FrontFacts DEF h, n
  <2>2. f # <<>> /\ h \in 1 .. h
    BY <1>6, <2>1
  <2> HIDE DEF f
  <2>3. Last(f) = f[Len(f)]
    BY <2>1, <2>2, FrontFacts
  <2> QED
    BY <2>1, <2>2, <2>3
<1> HIDE DEF f
<1> DEFINE i0 == t - 1
<1>12. i0 \in Nat /\ t + -1 = i0 /\ i0 <= Len(q) - 1
  BY <1>3, SMTT(30)
<1>13. /\ stack' \in Seq(Entries(Ids)) /\ Len(stack') = h /\ stack' # <<>>
       /\ \A i \in 1 .. h : i # h => stack'[i] = stack[i]
       /\ stack'[h].id = p /\ stack'[h].idx = i0
  <2>1. stack' = moved_on(f, -1) /\ -1 \in Int /\ Last(f).idx + -1 = i0 /\ Last(f).id = p
    <3>1. stack' = moved_on(f, -1)
      BY <1>3 DEF f
    <3>2. Last(f).idx = t /\ Last(f).id = p
      BY <1>11
    <3> HIDE DEF i0, p, t
    <3> QED
      BY <1>12, <3>1, <3>2
  <2> HIDE DEF i0, p, t
  <2>2. /\ moved_on(f, -1) \in Seq(Entries(Ids)) /\ Len(moved_on(f, -1)) = Len(f)
        /\ \A i \in 1 .. Len(f) : i # Len(f) => moved_on(f, -1)[i] = f[i]
        /\ moved_on(f, -1)[Len(f)].id = Last(f).id
        /\ moved_on(f, -1)[Len(f)].idx = Last(f).idx + -1
        /\ moved_on(f, -1) # <<>>
    BY <1>11, <1>12, <2>1, MovedOn
  <2> QED
    BY <1>11, <2>1, <2>2
<1>14. p = stack[h].id /\ q = mid_arena[p].kids /\ t = stack[h].idx /\ i0 = t - 1
  OBVIOUS
<1> HIDE DEF w, b, p, q, t, i0
<1>15. Shape'
  <2>1. mid_arena \in Arenas(Ids, Contents) /\ Forest(mid_arena)
    BY <1>2 DEF Typed, ArenaTyped, Shape
  <2>2. Forest(b) /\ DOMAIN b = Ids
    <3>1. DOMAIN b = Ids /\ DOMAIN mid_arena = Ids
      BY <1>3, <2>1 DEF Arenas
    <3>2. ASSUME NEW u \in Ids
          PROVE  /\ IsInjective(b[u].kids)
                 /\ \A c \in ToSet(b[u].kids) : c \in Ids /\ b[c].parent = u /\ c # u
      <4>1. /\ IsInjective(b[u].kids) /\ ToSet(b[u].kids) \subseteq ToSet(mid_arena[u].kids)
            /\ \A c \in Ids : b[c].parent = mid_arena[c].parent
        BY <1>3, <3>1 DEF Cut
      <4>2. \A c \in ToSet(mid_arena[u].kids) : c \in Ids /\ mid_arena[c].parent = u /\ c # u
        BY <2>1, <3>1 DEF Forest
      <4> QED
        BY <4>1, <4>2
    <3> HIDE DEF Ids
    <3> QED
      BY <3>1, <3>2 DEF Forest
  <2>3. ASSUME NEW u \in Ids
        PROVE  PlacedIn(b, u) \/ ~is_src(cpy_mappings, u)
    <3>1. CASE u = w
      BY <1>3, <3>1
    <3>2. CASE u # w /\ PlacedIn(mid_arena, u)
      <4>1. mid_arena[u].parent \in Ids
        <5> HIDE DEF Ids, Contents
        <5> QED
          BY <2>1, EntryFields
      <4>2. DOMAIN mid_arena = Ids
        BY <2>1 DEF Arenas
      <4> QED
        BY <1>3, <3>2, <4>1, <4>2 DEF PlacedIn, Cut
    <3> QED
      BY <1>2, <3>1, <3>2 DEF Shape
  <2> QED
    BY <1>1, <1>3, <1>7, <1>8, <2>2, <2>3 DEF Shape
<1>16. InOrder'
  <2>1. dst_in_order \subseteq nodes(dst)
    BY <1>2 DEF Typed, CursorsTyped
  <2> QED
    BY <1>1, <1>2, <1>8, <2>1 DEF InOrder
<1>17. PICK S : actions \in Seq(S)
  BY DEF Inv
<1>18. /\ actions' \in Seq(S \cup {act})
       /\ \A i \in DOMAIN actions' :
            \/ i \in DOMAIN actions /\ actions'[i] = actions[i]
            \/ actions'[i] = act
  <2> DEFINE acts == <<act>>
  <2>1. acts \in Seq({act}) /\ DOMAIN acts = {1} /\ acts[1] = act
    OBVIOUS
  <2> HIDE DEF acts
  <2>2. /\ actions' \in Seq(S \cup {act})
        /\ \A i \in DOMAIN actions' :
             \/ i \in DOMAIN actions /\ actions'[i] = actions[i]
             \/ \E j \in DOMAIN acts : i = Len(actions) + j /\ actions'[i] = acts[j]
    <3>1. actions' = actions \o acts
      BY <1>1 DEF acts
    <3> QED
      BY <1>17, <2>1, <3>1, Emitted
  <2> QED
    BY <2>1, <2>2
<1>19. act.by = "delete"
  OBVIOUS
<1> HIDE DEF act
<1>20. \A i \in DOMAIN actions' : actions'[i].by \in {"move", "align"} =>
         i \in Moves /\ actions'[i] = actions[i]
  BY <1>18, <1>19 DEF Moves
<1>21. MovedToPlace'
  <2> SUFFICES ASSUME NEW i \in DOMAIN actions', actions'[i].by \in {"move", "align"}
               PROVE  \E e \in nodes(dst) \ {root(dst)} :
                        actions'[i].node = partner(e)' /\ AtPlace(e)'
    BY <1>1 DEF MovedToPlace, Moves
  <2>1. i \in Moves /\ actions'[i] = actions[i]
    BY <1>20
  <2>2. PICK e \in nodes(dst) \ {root(dst)} : actions[i].node = partner(e) /\ AtPlace(e)
    BY <1>2, <2>1 DEF MovedToPlace
  <2> QED
    BY <1>8, <2>1, <2>2
<1>22. MovesOnce'
  <2> SUFFICES ASSUME NEW i \in DOMAIN actions', NEW j \in DOMAIN actions',
                      actions'[i].by \in {"move", "align"}, actions'[j].by \in {"move", "align"},
                      actions'[i].node = actions'[j].node
               PROVE  i = j
    BY DEF MovesOnce
  <2>1. i \in Moves /\ actions'[i] = actions[i] /\ j \in Moves /\ actions'[j] = actions[j]
    BY <1>20
  <2> QED
    BY <1>2, <2>1 DEF MovesOnce, Moves
<1>23. Phases' /\ ToMove'
  <2>1. unvisited' = <<>> /\ to_move' = <<>> /\ ToSet(<<>>) = {}
    BY <1>1, <1>2, <1>3 DEF Phases, ToSet
  <2> QED
    BY <1>1, <1>3, <2>1 DEF Phases, ToMove
<1>24. Stacked'
  <2>1. ASSUME NEW i \in 1 .. h
        PROVE  /\ stack'[i].idx <= Len(b[stack'[i].id].kids)
               /\ i < h => /\ stack'[i].idx > 0
                           /\ stack'[i + 1].id = b[stack'[i].id].kids[stack'[i].idx]
               /\ \A j \in 1 .. stack'[i].idx :
                    j < stack'[i].idx \/ i = h =>
                      is_src(cpy_mappings, b[stack'[i].id].kids[j])
               /\ \A j \in 1 .. h : stack'[i].id = stack'[j].id => i = j
    <3>1. \A j \in 1 .. h : j \in 1 .. n /\ stack'[j].id = stack[j].id
      BY <1>6, <1>13, <1>14
    <3>2. \A j \in 1 .. h : stack'[i].id = stack'[j].id => i = j
      BY <1>5, <3>1
    <3>3. CASE i = h
      <4>1. stack'[i].id = p /\ stack'[i].idx = i0 /\ ~(i < h)
        BY <1>6, <1>13, <3>3
      <4>2. \A j \in 1 .. i0 : j \in 1 .. t /\ j < t /\ j \in 1 .. t - 1
        BY <1>3, <1>14
      <4>3. \A j \in 1 .. i0 : is_src(cpy_mappings, b[p].kids[j])
        <5>1. \A j \in 1 .. t : j < t => is_src(cpy_mappings, q[j])
          BY <1>5, <1>6, <1>14
        <5> QED
          BY <1>3, <4>2, <5>1
      <4> QED
        BY <1>3, <1>12, <3>2, <4>1, <4>3
    <3>4. CASE i # h
      <4>1. i \in 1 .. n /\ i < n /\ i < h /\ i + 1 \in 1 .. h /\ stack'[i] = stack[i]
        BY <1>6, <1>13, <3>4
      <4>2. stack[i].id # p /\ stack[i].id \in Ids
        BY <1>4, <1>5, <1>6, <1>14, <3>4, <4>1
      <4>3. b[stack[i].id].kids = mid_arena[stack[i].id].kids
        BY <1>3, <4>2
      <4>4. stack'[i + 1].id = stack[i + 1].id
        BY <3>1, <4>1
      <4>5. /\ stack[i].idx <= Len(mid_arena[stack[i].id].kids)
            /\ stack[i].idx > 0
            /\ stack[i + 1].id = mid_arena[stack[i].id].kids[stack[i].idx]
            /\ \A j \in 1 .. stack[i].idx :
                 j < stack[i].idx => is_src(cpy_mappings, mid_arena[stack[i].id].kids[j])
        BY <1>5, <4>1
      <4> QED
        BY <3>2, <3>4, <4>1, <4>3, <4>4, <4>5
    <3> QED
      BY <3>3, <3>4
  <2>2. stack'[1].id = Last(mid_root') /\ stack' \in Seq([id : Ids', idx : Nat])
    <3>1. 1 \in 1 .. h
      BY <1>6
    <3>2. stack'[1].id = stack[1].id
      BY <1>13, <1>14, <3>1
    <3> QED
      BY <1>1, <1>5, <1>8, <1>13, <3>2 DEF Entries
  <2> QED
    BY <1>1, <1>7, <1>13, <2>1, <2>2 DEF Stacked, kids_of
<1>25. (\E T : actions \in Seq(T))'
  BY <1>18
<1> QED
  BY <1>9, <1>10, <1>15, <1>16, <1>21, <1>22, <1>23, <1>24, <1>25 DEF Inv

-----------------------------------------------------------------------------
(* The invariant holds of the copy, before the first turn.                 *)
LEMMA InitInv ==
  ASSUME Init
  PROVE  Inv
<1>1. PICK i \in Inputs : src = i.src /\ dst = i.dst /\ ori_mappings = i.mappings
  BY DEF Init
<1>2. /\ mid_arena = copy(src) /\ mid_root = <<root(src)>> /\ dst_in_order = {}
      /\ unvisited = iter_bf(dst) /\ to_move = <<>> /\ stack = <<>> /\ actions = <<>>
      /\ cpy_mappings = ori_mappings /\ pc = "ins_mov_upd"
  BY DEF Init, new
<1>3. Matched(src, dst, ori_mappings)
  BY <1>1, InputsAssumption
<1>4. IsTree(src) /\ IsTree(dst) /\ ori_mappings \in Stores(src.len, dst.len)
  BY <1>3 DEF Matched
<1>5. /\ root(src) \in nodes(src) /\ root(dst) \in nodes(dst)
      /\ src.len \in Nat /\ src.len > 0 /\ nodes(src) = 0 .. src.len - 1
      /\ dst.len \in Nat /\ nodes(dst) = 0 .. dst.len - 1
  BY <1>4, RootIsNode, NodeTypes DEF nodes, IsTree, TreeShape, root
<1>6. \A x \in nodes(src) : compressed(src, x) \in Contents
  BY DEF Contents
<1>7. /\ mid_arena \in Arenas(nodes(src), Contents) /\ Forest(mid_arena)
      /\ \A x \in nodes(src) : /\ PlacedIn(mid_arena, x)
                               /\ mid_arena[x].compressed = compressed(src, x)
  BY <1>2, <1>4, <1>6, CopyFacts
<1>8. Ids = nodes(src)
  BY <1>7 DEF Ids, Arenas
<1>9. N = src.len
  <2> DEFINE last == src.len - 1
  <2>1. last \in Int /\ 0 <= last /\ last - 0 + 1 = src.len
    BY <1>5
  <2> HIDE DEF last
  <2>2. Cardinality(0 .. last) = last - 0 + 1
    BY <2>1, FS_Interval
  <2> QED
    BY <1>5, <1>8, <2>1, <2>2 DEF N, last
<1>10. /\ unvisited \in Seq(nodes(dst)) /\ ToSet(unvisited) = nodes(dst)
       /\ IsInjective(unvisited) /\ ParentsFirst(dst, unvisited)
  <2>1. Listed(unvisited, nodes(dst)) /\ ParentsFirst(dst, unvisited)
    BY <1>2, <1>4, BreadthFirst
  <2> QED
    BY <2>1 DEF Listed, IsInjective
<1>11. visited = {}
  BY <1>10 DEF visited
<1>12. Typed
  <2>1. ArenaTyped
    <3>1. mid_root \in Seq(Ids) /\ mid_root # <<>>
      BY <1>2, <1>5, <1>8
    <3> QED
      BY <1>5, <1>7, <1>8, <1>9, <3>1 DEF ArenaTyped
  <2>2. StoreTyped
    <3>1. dst.len + (N - src.len) = dst.len
      BY <1>5, <1>9
    <3> QED
      BY <1>2, <1>4, <1>9, <3>1 DEF StoreTyped, Stores
  <2>3. CursorsTyped
    BY <1>2, <1>10 DEF CursorsTyped, IsInjective
  <2> QED
    BY <1>2, <1>3, <2>1, <2>2, <2>3 DEF Typed
<1>13. Extends
  BY <1>2, <1>8 DEF Extends
<1>14. Shape
  BY <1>7, <1>8 DEF Shape
<1>15. Roots
  BY <1>2, <1>11 DEF Roots
<1>16. Settled /\ Untouched /\ InOrder
  BY <1>2, <1>7, <1>11 DEF Settled, Untouched, InOrder
<1>17. Moves = {} /\ ToSet(to_move) = {}
  BY <1>2 DEF Moves, ToSet
<1>18. MovedToPlace /\ MovesOnce /\ ToMove
  BY <1>2, <1>17 DEF MovedToPlace, MovesOnce, ToMove
<1>19. \E S : actions \in Seq(S)
  <2>1. <<>> \in Seq({})
    OBVIOUS
  <2> QED
    BY <1>2, <2>1
<1>20. Phases
  BY <1>2 DEF Phases
<1>21. Stacked
  <2>1. Len(stack) = 0 /\ 1 .. Len(stack) = {} /\ stack \in Seq([id : Ids, idx : Nat])
    BY <1>2
  <2> QED
    BY <1>2, <2>1 DEF Stacked
<1> QED
  BY <1>12, <1>13, <1>14, <1>15, <1>16, <1>18, <1>19, <1>20, <1>21 DEF Inv

(* A turn of ins_mov_upd is one of four, or fails.                         *)
LEMMA VisitKeepsInv ==
  ASSUME Inv, NEW x, Visit(x)
  PROVE  Inv'
<1>1. CASE Insert(x)
  BY <1>1, InsertTurn, TurnKeepsInv
<1>2. CASE InsertRoot(x)
  BY <1>2, InsertRootTurn, TurnKeepsInv
<1>3. ASSUME NEW w \in DOMAIN mid_arena,
             InPlace(x, w) \/ Move(x, w) \/ FailMove(x, w) \/ FailRename(x, w)
      PROVE  Inv'
  <2>1. CASE InPlace(x, w)
    BY <2>1, InPlaceTurn, TurnKeepsInv
  <2>2. CASE Move(x, w)
    BY <2>2, MoveTurn, TurnKeepsInv
  <2>3. CASE FailMove(x, w) \/ FailRename(x, w)
    BY <2>3, FailKeepsInv
  <2> QED
    BY <1>3, <2>1, <2>2, <2>3
<1> QED
  BY <1>1, <1>2, <1>3 DEF Visit

(* Every step keeps the invariant.                                         *)
LEMMA StepKeepsInv ==
  ASSUME Inv, [Next \/ Stopped]_vars
  PROVE  Inv'
<1>1. CASE \E x \in nodes(dst) : Visit(x)
  BY <1>1, VisitKeepsInv
<1>2. CASE AlignMove
  BY <1>2, AlignKeepsInv
<1>3. CASE StartDel
  BY <1>3, StartDelKeepsInv
<1>4. CASE DelDown
  BY <1>4, DelDownKeepsInv
<1>5. CASE DelKeep
  BY <1>5, DelKeepKeepsInv
<1>6. CASE Delete
  BY <1>6, DeleteKeepsInv
<1>7. CASE EndDel
  BY <1>7, EndDelKeepsInv
<1>8. CASE UNCHANGED vars
  BY <1>8, StutterKeepsInv
<1> QED
  BY <1>1, <1>2, <1>3, <1>4, <1>5, <1>6, <1>7, <1>8 DEF Next, Stopped

(* The inductive invariant holds of all the states of the generation.      *)
LEMMA InvAlways == Spec => []Inv
<1>1. Init => Inv
  BY InitInv
<1>2. Inv /\ [Next \/ Stopped]_vars => Inv'
  BY StepKeepsInv
<1> QED
  BY <1>1, <1>2, PTL DEF Spec

-----------------------------------------------------------------------------
(***************************************************************************)
(* Every variable of the generator always holds values of its kind, and    *)
(* the cursors of del stay in the lists they go through.                   *)
(***************************************************************************)
THEOREM TypeCorrect == Spec => []TypeOK
<1>1. Inv => TypeOK
  <2> SUFFICES ASSUME Inv PROVE TypeOK
    OBVIOUS
  <2>1. /\ ArenaTyped /\ CursorsTyped /\ Stacked
        /\ pc \in {"ins_mov_upd", "del", "done"} \cup Failures
    BY DEF Inv, Typed
  <2>2. Ids = 0 .. Cardinality(Ids) - 1 /\ mid_arena \in Arenas(Ids, Contents)
    BY <2>1 DEF ArenaTyped, N
  <2>3. ASSUME NEW u \in Ids
        PROVE  /\ mid_arena[u].parent \in Ids /\ ToSet(mid_arena[u].kids) \subseteq Ids
               /\ mid_arena[u].kids \in Seq(Ids)
    <3> HIDE DEF Ids, Contents
    <3> QED
      BY <2>2, EntryFields
  <2>4. ToSet(mid_root) \subseteq Ids
    BY <2>1 DEF ArenaTyped, ToSet
  <2>5. /\ dst_in_order \subseteq nodes(dst) /\ ToSet(unvisited) \subseteq nodes(dst)
        /\ ToSet(to_move) \subseteq nodes(src)
    BY <2>1 DEF CursorsTyped, ToSet
  <2>6. ASSUME NEW e \in ToSet(stack) PROVE e.id \in Ids /\ e.idx \in 0 .. Len(kids_of(e))
    <3>1. stack \in Seq([id : Ids, idx : Nat])
      BY <2>1 DEF Stacked
    <3>2. PICK i \in 1 .. Len(stack) : e = stack[i]
      BY <3>1 DEF ToSet
    <3>3. e \in [id : Ids, idx : Nat]
      BY <3>1, <3>2, ElementOfSeq
    <3>4. e.id \in Ids /\ e.idx \in Nat
      BY <3>3
    <3>5. e.idx <= Len(kids_of(e))
      BY <2>1, <3>2 DEF Stacked
    <3>6. Len(kids_of(e)) \in Nat
      BY <2>3, <3>4, LenProperties DEF kids_of
    <3> QED
      BY <3>4, <3>5, <3>6
  <2> QED
    BY <2>1, <2>2, <2>3, <2>4, <2>5, <2>6 DEF TypeOK
<1> QED
  BY <1>1, InvAlways, PTL

(***************************************************************************)
(* The two directions of the mid arena always agree: each node is once in  *)
(* the list of its parent and in no other list, until del takes it out.    *)
(***************************************************************************)
THEOREM AlwaysAForest == Spec => []MidIsAForest
<1>1. Inv => MidIsAForest
  BY DEF Inv, Shape, Forest, PlacedIn, MidIsAForest, Ids
<1> QED
  BY <1>1, InvAlways, PTL

(***************************************************************************)
(* What a turn of ins_mov_upd settles stays settled: the place, the label  *)
(* and the type of the partner of a visited node, whatever is inserted,    *)
(* moved, aligned and deleted later.                                       *)
(***************************************************************************)
THEOREM StaysSettled == Spec => []VisitedSettled
<1>1. Inv => VisitedSettled
  BY DEF Inv, Settled, AtPlace, visited, partner, VisitedSettled
<1> QED
  BY <1>1, InvAlways, PTL

(* The script moves a node of src at most once, among siblings or not.     *)
THEOREM MovedOnce == Spec => []MovesOnce
<1>1. Inv => MovesOnce
  BY DEF Inv
<1> QED
  BY <1>1, InvAlways, PTL

(***************************************************************************)
(* No move fails when the mappings are one-to-one and keep the roots       *)
(* apart: the partner of a node whose turn comes is not above the place    *)
(* that it goes to, where only partners of visited nodes are.              *)
(***************************************************************************)
LEMMA NoFailedMove ==
  ASSUME Inv, NEW x, NEW w, FailMove(x, w),
         OneToOne(ori_mappings, nodes(src), nodes(dst)), RootsApart
  PROVE  FALSE
<1> DEFINE z == wanted_parent(x)
           y == parent(dst, x)
<1>1. /\ Mapped(x, w) /\ z # mid_parent(w)
      /\ z # NoNode => w \in climb(mid_arena, z) \/ w = top(mid_arena, z)
  BY DEF FailMove, gives_up
<1>2. Typed /\ Extends /\ Roots /\ Settled
  BY DEF Inv
<1>3. /\ Visiting(x) /\ x \in nodes(dst) /\ x \notin visited
      /\ w = partner(x) /\ w \in nodes(src) /\ w \in Ids /\ is_dst(cpy_mappings, x)
      /\ x \in ToSet(unvisited) /\ NoNode \notin Ids /\ nodes(dst) \subseteq Nat
  BY <1>1, <1>2, MappedFacts, VisitFacts, TreeFacts DEF Mapped
<1>4. cpy_mappings.dst_to_src[x] = ori_mappings.dst_to_src[x]
  BY <1>2, <1>3 DEF Extends
<1>5. w = get_src_unchecked(ori_mappings, x) /\ has(ori_mappings, w, x)
  BY <1>3, <1>4 DEF partner, get_src_unchecked, is_dst, OneToOne
<1>6. cpy_mappings.src_to_dst[w] = x + 1
  BY <1>2, <1>3, <1>5 DEF Extends, has
<1>7. CASE x = root(dst)
  <2>1. w = root(src) /\ mid_arena = copy(src)
    BY <1>2, <1>3, <1>4, <1>5, <1>7 DEF RootsApart, Roots, is_dst
  <2>2. copy(src)[root(src)].parent = root(src)
    <3>1. IsTree(src) /\ root(src) \in nodes(src)
      BY <1>2, TreeFacts
    <3>2. \A s \in nodes(src) : compressed(src, s) \in Contents
      BY DEF Contents
    <3> QED
      BY <3>1, <3>2, CopyFacts
  <2> QED
    BY <1>1, <1>7, <2>1, <2>2 DEF mid_parent, wanted_parent
<1>8. CASE x # root(dst)
  <2>1. y \in visited /\ z = partner(y)
    BY <1>2, <1>3, <1>8, VisitFacts DEF wanted_parent, partner
  <2>2. z # NoNode
    BY <1>2, <1>3, <2>1 DEF Settled, AtPlace
  <2>3. Chained(y)
    BY <1>2, <2>1, Chain
  <2>4. \E a \in UpFrom(y) : a \in visited /\ partner(a) = w
    <3>1. CASE w \in climb(mid_arena, z)
      BY <2>1, <2>3, <3>1 DEF Chained
    <3>2. CASE w = top(mid_arena, z)
      BY <2>1, <2>3, <3>2 DEF Chained
    <3> QED
      BY <1>1, <2>2, <3>1, <3>2
  <2>5. PICK a \in visited : partner(a) = w
    BY <2>4
  <2>6. cpy_mappings.src_to_dst[w] = a + 1
    BY <1>2, <2>5 DEF Settled, AtPlace, has
  <2>7. a \in Nat /\ x \in Nat
    BY <1>3, <2>5 DEF visited
  <2> QED
    BY <1>3, <1>6, <2>5, <2>6, <2>7
<1> QED
  BY <1>7, <1>8

(***************************************************************************)
(* A rename fails only where the mappings take a label away, if they are   *)
(* one-to-one: no other node has renamed the partner before.               *)
(***************************************************************************)
LEMMA NoFailedRename ==
  ASSUME Inv, NEW x, NEW w, FailRename(x, w),
         OneToOne(ori_mappings, nodes(src), nodes(dst)), LabelsKept
  PROVE  FALSE
<1>1. /\ Mapped(x, w) /\ dst.label[x] = NoLabel
      /\ mid_arena[w].compressed.label # NoLabel
  BY DEF FailRename, unlabelled, renames
<1>2. Typed /\ Extends /\ Settled /\ Untouched
  BY DEF Inv
<1>3. /\ x \in nodes(dst) /\ x \notin visited
      /\ w = partner(x) /\ w \in nodes(src) /\ x \in ToSet(unvisited) /\ is_dst(cpy_mappings, x)
      /\ nodes(dst) \subseteq Nat
  BY <1>1, <1>2, MappedFacts, VisitFacts, TreeFacts DEF Mapped
<1>4. cpy_mappings.dst_to_src[x] = ori_mappings.dst_to_src[x]
  BY <1>2, <1>3 DEF Extends
<1>5. w = get_src_unchecked(ori_mappings, x) /\ has(ori_mappings, w, x)
  BY <1>3, <1>4 DEF partner, get_src_unchecked, is_dst, OneToOne
<1>6. src.label[w] = NoLabel
  BY <1>1, <1>3, <1>5 DEF LabelsKept
<1>7. mid_arena[w].compressed # compressed(src, w)
  BY <1>1, <1>6 DEF compressed
<1>8. PICK y \in visited : has(cpy_mappings, w, y)
  BY <1>2, <1>3, <1>7 DEF Untouched
<1>9. cpy_mappings.src_to_dst[w] = x + 1
  BY <1>2, <1>3, <1>5 DEF Extends, has
<1>10. cpy_mappings.src_to_dst[w] = y + 1 /\ y \in Nat /\ x \in Nat /\ y # x
  BY <1>3, <1>8 DEF has, visited
<1> QED
  BY <1>9, <1>10

(***************************************************************************)
(* What the generator is given stays, and only FailMove and FailRename     *)
(* fail, each in its own way.                                              *)
(***************************************************************************)
LEMMA OtherSteps ==
  ASSUME [Next \/ Stopped]_vars
  PROVE  /\ src' = src /\ dst' = dst /\ ori_mappings' = ori_mappings
         /\ \/ pc' \notin Failures \/ pc' = pc
            \/ /\ pc' # "no_label"
               /\ \E x \in nodes(dst), w \in DOMAIN mid_arena : FailMove(x, w)
            \/ /\ pc' = "no_label"
               /\ \E x \in nodes(dst), w \in DOMAIN mid_arena : FailRename(x, w)
<1>1. ASSUME NEW x \in nodes(dst), Visit(x)
      PROVE  /\ UNCHANGED given
             /\ \/ pc' = pc
                \/ pc' # "no_label" /\ \E w \in DOMAIN mid_arena : FailMove(x, w)
                \/ pc' = "no_label" /\ \E w \in DOMAIN mid_arena : FailRename(x, w)
  <2>1. CASE Insert(x)
    BY <2>1 DEF Insert, EndTurn
  <2>2. CASE InsertRoot(x)
    BY <2>2 DEF InsertRoot, EndTurn
  <2>3. ASSUME NEW w \in DOMAIN mid_arena, InPlace(x, w)
        PROVE  UNCHANGED given /\ pc' = pc
    BY <2>3 DEF InPlace, EndTurn
  <2>4. ASSUME NEW w \in DOMAIN mid_arena, Move(x, w)
        PROVE  UNCHANGED given /\ pc' = pc
    BY <2>4 DEF Move, EndTurn
  <2>5. ASSUME NEW w \in DOMAIN mid_arena, FailMove(x, w)
        PROVE  UNCHANGED given /\ pc' # "no_label"
    BY <2>5 DEF FailMove
  <2>6. ASSUME NEW w \in DOMAIN mid_arena, FailRename(x, w)
        PROVE  UNCHANGED given /\ pc' = "no_label"
    BY <2>6 DEF FailRename
  <2> QED
    BY <1>1, <2>1, <2>2, <2>3, <2>4, <2>5, <2>6 DEF Visit
<1>2. CASE AlignMove \/ DelDown \/ DelKeep \/ Delete
  BY <1>2 DEF AlignMove, DelDown, DelKeep, Delete, given
<1>3. CASE StartDel \/ EndDel
  BY <1>3 DEF StartDel, EndDel, Failures, given
<1>4. CASE UNCHANGED vars
  BY <1>4 DEF vars, given
<1>5. UNCHANGED given => src' = src /\ dst' = dst /\ ori_mappings' = ori_mappings
  BY DEF given
<1> QED
  BY <1>1, <1>2, <1>3, <1>4, <1>5 DEF Next, Stopped

(***************************************************************************)
(* With one-to-one mappings that keep the roots apart from the rest, the   *)
(* generator neither gives up with Err, nor makes a node its own ancestor, *)
(* nor meets a root that it does not know; and with one-to-one mappings it *)
(* panics on a missing label only if they map a node with a label to one   *)
(* without.                                                                *)
(***************************************************************************)
THEOREM NoFailureOneToOne == Spec => []FailsOnlyIfIllMatched
<1>1. Init => FailsOnlyIfIllMatched
  BY DEF Init, Failures, FailsOnlyIfIllMatched
<1>2. ASSUME Inv, FailsOnlyIfIllMatched, [Next \/ Stopped]_vars
      PROVE  FailsOnlyIfIllMatched'
  <2> SUFFICES ASSUME OneToOne(ori_mappings, nodes(src), nodes(dst))'
               PROVE  /\ RootsApart' => pc' \notin Failures \ {"no_label"}
                      /\ LabelsKept' => pc' # "no_label"
    BY DEF FailsOnlyIfIllMatched
  <2>1. /\ src' = src /\ dst' = dst /\ ori_mappings' = ori_mappings
        /\ \/ pc' \notin Failures \/ pc' = pc
           \/ /\ pc' # "no_label"
              /\ \E x \in nodes(dst), w \in DOMAIN mid_arena : FailMove(x, w)
           \/ /\ pc' = "no_label"
              /\ \E x \in nodes(dst), w \in DOMAIN mid_arena : FailRename(x, w)
    BY <1>2, OtherSteps
  <2>2. /\ OneToOne(ori_mappings, nodes(src), nodes(dst))
        /\ RootsApart' <=> RootsApart
        /\ LabelsKept' <=> LabelsKept
    BY <2>1 DEF RootsApart, LabelsKept
  <2>3. /\ RootsApart => pc \notin Failures \ {"no_label"}
        /\ LabelsKept => pc # "no_label"
    BY <1>2, <2>2 DEF FailsOnlyIfIllMatched
  <2>4. ASSUME RootsApart' PROVE pc' \notin Failures \ {"no_label"}
    <3>1. ~\E x \in nodes(dst), w \in DOMAIN mid_arena : FailMove(x, w)
      BY <1>2, <2>2, <2>4, NoFailedMove
    <3> QED
      BY <2>1, <2>2, <2>3, <2>4, <3>1
  <2>5. ASSUME LabelsKept' PROVE pc' # "no_label"
    <3>1. ~\E x \in nodes(dst), w \in DOMAIN mid_arena : FailRename(x, w)
      BY <1>2, <2>2, <2>5, NoFailedRename
    <3>2. "no_label" \in Failures
      BY DEF Failures
    <3> QED
      BY <2>1, <2>2, <2>3, <2>5, <3>1, <3>2
  <2> QED
    BY <2>4, <2>5
<1> QED
  BY <1>1, <1>2, InvAlways, PTL DEF Spec

(***************************************************************************)
(* Only del takes a node out of the mid arena: a turn leaves each node     *)
(* that has a parent in a list.                                            *)
(***************************************************************************)
LEMMA TurnsLeaveListed ==
  ASSUME Inv, NEW x, Visit(x), NEW u \in Ids, mid_arena[u].parent # u
  PROVE  \E q \in Ids : u \in ToSet(mid_arena'[q].kids)
<1>1. Typed /\ Shape /\ Settled
  BY DEF Inv
<1>2. mid_arena \in Arenas(Ids, Contents) /\ DOMAIN mid_arena = Ids
  BY <1>1 DEF Typed, ArenaTyped, Ids
<1>3. mid_arena[u].parent \in Ids
  <2> HIDE DEF Ids, Contents
  <2> QED
    BY <1>2, EntryFields
<1>4. pc = "ins_mov_upd"
  BY DEF Visit, Insert, InsertRoot, InPlace, Move, FailMove, FailRename, Mapped, Visiting
<1>5. u \in ToSet(mid_arena[mid_arena[u].parent].kids)
  BY <1>1, <1>4 DEF Shape, PlacedIn
<1>6. ASSUME NEW w, NEW acts, Turn(x, w, acts), w \in Ids => x # root(dst)
      PROVE  \E q \in Ids : u \in ToSet(mid_arena'[q].kids)
  <2>1. /\ Visiting(x) /\ has(cpy_mappings', w, x)
        /\ \A v \in Ids \ {w} : mid_arena'[v].parent = mid_arena[v].parent
        /\ w \in Ids => has(cpy_mappings, w, x)
        /\ x # root(dst) => mid_arena'[w].parent = partner(parent(dst, x))
        /\ Ids' = Ids \cup {w} /\ \A v \in Ids' : PlacedIn(mid_arena', v)
    BY <1>6 DEF Turn
  <2>2. PlacedIn(mid_arena', u)
    BY <2>1
  <2>3. CASE u # w
    BY <1>3, <2>1, <2>2, <2>3 DEF PlacedIn
  <2>4. CASE u = w
    <3> DEFINE y == parent(dst, x)
               z == partner(y)
    <3>1. y \in visited /\ x \in nodes(dst) /\ x \notin visited /\ nodes(dst) \subseteq Nat
      BY <1>1, <1>6, <2>1, <2>4, VisitFacts, TreeFacts
    <3>2. z \in Ids /\ has(cpy_mappings, z, y) /\ has(cpy_mappings, w, x)
      BY <1>1, <2>1, <2>4, <3>1 DEF Settled, AtPlace
    <3>3. z # w
      <4>1. y \in Nat /\ x \in Nat /\ y # x
        BY <3>1 DEF visited
      <4> QED
        BY <3>2, <4>1 DEF has
    <3>4. mid_arena'[w].parent = z
      BY <1>6, <2>1, <2>4
    <3> QED
      BY <2>2, <2>4, <3>2, <3>3, <3>4 DEF PlacedIn
  <2> QED
    BY <2>3, <2>4
<1>7. CASE Insert(x)
  <2>1. PICK acts : Turn(x, N, acts)
    BY <1>7, InsertTurn
  <2> QED
    BY <1>1, <1>6, <2>1, OneMore DEF Typed
<1>8. CASE InsertRoot(x)
  <2>1. PICK acts : Turn(x, N, acts)
    BY <1>8, InsertRootTurn
  <2> QED
    BY <1>1, <1>6, <2>1, OneMore DEF Typed
<1>9. ASSUME NEW w \in DOMAIN mid_arena,
             InPlace(x, w) \/ Move(x, w) \/ FailMove(x, w) \/ FailRename(x, w)
      PROVE  \E q \in Ids : u \in ToSet(mid_arena'[q].kids)
  <2>1. CASE InPlace(x, w)
    <3>1. mid_arena' = renamed(mid_arena, w, x) /\ Visiting(x)
      BY <2>1 DEF InPlace, EndTurn, Mapped
    <3>2. x \in nodes(dst)
      BY <1>1, <3>1, VisitFacts
    <3>3. compressed(dst, x) \in Contents /\ w \in Ids
      BY <1>2, <3>2 DEF Contents
    <3>4. \A v \in Ids : mid_arena'[v].kids = mid_arena[v].kids
      <4> HIDE DEF Ids, Contents
      <4> QED
        BY <1>2, <3>1, <3>3, Renamed
    <3> QED
      BY <1>3, <1>5, <3>4
  <2>2. CASE Move(x, w)
    <3>1. PICK acts : Turn(x, w, acts)
      BY <2>2, MoveTurn
    <3>2. x # root(dst)
      BY <2>2 DEF Move, wanted_parent
    <3> QED
      BY <1>6, <3>1, <3>2
  <2>3. CASE FailMove(x, w) \/ FailRename(x, w)
    BY <1>3, <1>5, <2>3 DEF FailMove, FailRename, mid
  <2> QED
    BY <1>9, <2>1, <2>2, <2>3
<1> QED
  BY <1>7, <1>8, <1>9 DEF Visit

(***************************************************************************)
(* A child that is kept is the partner of a node of dst, if no node of src *)
(* lost its own, and then its parent is kept too.                          *)
(***************************************************************************)
LEMMA KeptUnderKept ==
  ASSUME Inv, pc = "del", NoSourceLost, NEW w \in Ids, NEW c \in ToSet(mid_arena[w].kids),
         is_src(cpy_mappings, c)
  PROVE  is_src(cpy_mappings, w)
<1>1. Typed /\ Extends /\ Shape /\ Settled /\ Phases
  BY DEF Inv
<1>2. c \in Ids /\ mid_arena[c].parent = w /\ c # w
  BY <1>1 DEF Shape, Forest, Ids
<1>3. /\ dst.len \in Nat /\ nodes(dst) = 0 .. dst.len - 1 /\ nodes(src) \subseteq Ids /\ Ids \subseteq Nat
      /\ ori_mappings.src_to_dst \in [0 .. src.len -> 0 .. dst.len]
      /\ src.len \in Nat /\ nodes(src) = 0 .. src.len - 1 /\ NoNode \notin Ids
  BY <1>1, TreeFacts
<1>4. visited = nodes(dst)
  <2>1. unvisited = <<>> /\ ToSet(<<>>) = {}
    BY <1>1 DEF Phases, ToSet
  <2> QED
    BY <2>1 DEF visited
<1>5. PICK d \in visited : partner(d) = c
  <2>1. CASE c \in nodes(src)
    <3> DEFINE d == get_dst_unchecked(ori_mappings, c)
               slot == ori_mappings.src_to_dst[c]
    <3>1. slot = cpy_mappings.src_to_dst[c]
      BY <1>1, <2>1 DEF Extends
    <3>2. is_src(ori_mappings, c)
      BY <3>1 DEF is_src
    <3>3. has(ori_mappings, c, d)
      BY <2>1, <3>2 DEF NoSourceLost
    <3>4. slot \in 0 .. dst.len
      BY <1>3, <2>1
    <3>5. slot # 0 /\ d = slot - 1
      BY <3>2 DEF is_src, get_dst_unchecked
    <3> HIDE DEF slot
    <3>6. d \in nodes(dst)
      BY <1>3, <3>4, <3>5
    <3> HIDE DEF d
    <3>7. ori_mappings.dst_to_src[d] = c + 1 /\ c \in Nat
      BY <1>2, <1>3, <3>3 DEF has
    <3>8. cpy_mappings.dst_to_src[d] = ori_mappings.dst_to_src[d]
      BY <1>1, <3>6, <3>7 DEF Extends, is_dst
    <3>9. partner(d) = c
      <4> DEFINE back == cpy_mappings.dst_to_src[d]
      <4>1. partner(d) = back - 1
        BY DEF partner, get_src_unchecked
      <4>2. back = c + 1
        BY <3>7, <3>8
      <4> HIDE DEF back
      <4> QED
        BY <3>7, <4>1, <4>2
    <3> QED
      BY <1>4, <3>6, <3>9
  <2>2. CASE c \notin nodes(src)
    <3>1. PICK d \in visited : has(cpy_mappings, c, d)
      BY <1>1, <1>2, <2>2 DEF Extends
    <3>2. c \in Nat
      BY <1>2, <1>3
    <3>3. partner(d) = c
      BY <3>1, <3>2 DEF has, partner, get_src_unchecked
    <3> QED
      BY <3>1, <3>3
  <2> QED
    BY <2>1, <2>2
<1>6. AtPlace(d) /\ mid_parent(c) = w
  BY <1>1, <1>2, <1>5 DEF Settled, mid_parent
<1>7. d # root(dst) /\ w = partner(parent(dst, d)) /\ parent(dst, d) \in visited
  BY <1>3, <1>5, <1>6 DEF AtPlace, wanted_parent, partner
<1>8. cpy_mappings.src_to_dst[w] = parent(dst, d) + 1
  BY <1>1, <1>7 DEF Settled, AtPlace, has
<1>9. parent(dst, d) \in Nat
  BY <1>3, <1>7 DEF visited
<1> QED
  BY <1>8, <1>9 DEF is_src

(***************************************************************************)
(* A node leaves the mid arena when nothing is left below it.              *)
(***************************************************************************)
THEOREM DeletedWhenEmpty == Spec => DeletesLeaves
<1> DEFINE gone(w) == LET p == mid_arena[w].parent IN
             w \in ToSet(mid_arena[p].kids) /\ (\A q \in Ids : w \notin ToSet(mid_arena'[q].kids))
<1>1. ASSUME Inv, [Next \/ Stopped]_vars, NoSourceLost, NEW w \in Ids, gone(w)
      PROVE  mid_arena[w].kids = <<>>
  <2> DEFINE p == mid_arena[w].parent
  <2>1. Typed /\ Shape /\ Phases
    BY <1>1 DEF Inv
  <2>2. mid_arena \in Arenas(Ids, Contents) /\ DOMAIN mid_arena = Ids
    BY <2>1 DEF Typed, ArenaTyped, Ids
  <2>3. p \in Ids /\ mid_arena[w].kids \in Seq(Ids)
    <3> HIDE DEF Ids, Contents
    <3> QED
      BY <2>2, EntryFields
  <2>4. p # w
    BY <1>1, <2>1, <2>2, <2>3 DEF Shape, Forest
  <2>5. mid_arena' # mid_arena
    BY <1>1, <2>3
  <2>6. ~\E x \in nodes(dst) : Visit(x)
    BY <1>1, <2>4, TurnsLeaveListed
  <2>7. CASE AlignMove
    <3>1. /\ Shape' /\ mid_arena'[w].parent = p /\ pc' = "ins_mov_upd" /\ w \in Ids'
      <4>1. Inv' /\ \A u \in Ids : mid_arena'[u].parent = mid_arena[u].parent
        BY <1>1, <2>7, AlignKeepsInv
      <4>2. pc' = "ins_mov_upd"
        BY <2>7 DEF AlignMove
      <4>3. w \in Ids'
        BY <2>2, <2>7 DEF AlignMove, insert_kid, remove_kid, Ids
      <4> QED
        BY <4>1, <4>2, <4>3 DEF Inv
    <3>2. PlacedIn(mid_arena', w)
      BY <3>1 DEF Shape
    <3> QED
      BY <1>1, <2>3, <2>4, <3>1, <3>2 DEF PlacedIn
  <2>8. CASE Delete
    <3> DEFINE n == Len(stack)
               d == stack[n].id
               b == remove_kid(mid_arena, d)
    <3>1. /\ pc = "del" /\ d \in Ids /\ ~is_src(cpy_mappings, d)
          /\ \A j \in 1 .. Len(mid_arena[d].kids) : is_src(cpy_mappings, mid_arena[d].kids[j])
          /\ Cut(mid_arena, b, d) /\ Relisted(b)
      BY <1>1, <2>8, DeleteFacts
    <3> HIDE DEF d
    <3>2. mid_arena' = b
      BY <3>1 DEF Relisted
    <3>3. w = d
      BY <1>1, <2>2, <2>3, <3>1, <3>2 DEF Cut
    <3>4. ~\E j \in 1 .. Len(mid_arena[w].kids) : TRUE
      <4> SUFFICES ASSUME NEW j \in 1 .. Len(mid_arena[w].kids) PROVE FALSE
        OBVIOUS
      <4>1. mid_arena[w].kids[j] \in ToSet(mid_arena[w].kids)
        BY <2>3 DEF ToSet
      <4> QED
        BY <1>1, <3>1, <3>3, <4>1, KeptUnderKept
    <3>5. Len(mid_arena[w].kids) \in Nat
      BY <2>3, LenProperties
    <3>6. Len(mid_arena[w].kids) = 0
      BY <3>4, <3>5
    <3> QED
      BY <2>3, <3>6, EmptySeq
  <2>9. CASE StartDel \/ DelDown \/ DelKeep \/ EndDel
    BY <2>5, <2>9 DEF StartDel, DelDown, DelKeep, EndDel, mid
  <2>10. CASE UNCHANGED vars
    BY <2>5, <2>10 DEF vars, mid
  <2> QED
    BY <1>1, <2>6, <2>7, <2>8, <2>9, <2>10 DEF Next, Stopped
<1>2. ASSUME Inv, [Next \/ Stopped]_vars
      PROVE  [NoSourceLost => \A w \in Ids : LET p == mid_arena[w].parent IN
               w \in ToSet(mid_arena[p].kids) /\ (\A q \in Ids : w \notin ToSet(mid_arena'[q].kids))
                 => mid_arena[w].kids = <<>>]_vars
  BY <1>1, <1>2
<1> QED
  BY <1>2, InvAlways, PTL DEF Spec, DeletesLeaves

(***************************************************************************)
(* The end of the generator (MidBecomesDst).  Two more invariants on top   *)
(* of Inv: Listing, the order of the children, kept by the turns and by    *)
(* align_children; and Swept, what del has left behind.                    *)
(***************************************************************************)

(* An element put between others leaves them in their order. *)
LEMMA InsertBefore ==
  ASSUME NEW S, NEW s \in Seq(S), NEW e \in S, NEW k \in 0 .. Len(s)
  PROVE  /\ \A u, v : Before(s, u, v) => Before(InsertAt(s, k + 1, e), u, v)
         /\ \A i \in 1 .. Len(s) : /\ i <= k => Before(InsertAt(s, k + 1, e), s[i], e)
                                   /\ i > k => Before(InsertAt(s, k + 1, e), e, s[i])
<1> DEFINE r == InsertAt(s, k + 1, e)
           n == Len(s)
           l == k + 1
           at(i) == IF i <= k THEN i ELSE i + 1
<1>1. n \in Nat /\ k \in Nat /\ k <= n /\ l = k + 1 /\ l \in 1 .. n + 1
  BY LenProperties
<1>2. /\ Len(r) = n + 1 /\ r[l] = e
      /\ \A i \in 1 .. l - 1 : r[i] = s[i]
      /\ \A i \in l + 1 .. n + 1 : r[i] = s[i - 1]
  BY <1>1, InsertAtPlaces
<1> HIDE DEF r, n, l
<1>3. ASSUME NEW i \in 1 .. n PROVE at(i) \in 1 .. n + 1 /\ r[at(i)] = s[i]
  <2>1. CASE i <= k
    <3>1. i \in 1 .. l - 1 /\ i \in 1 .. n + 1
      BY <1>1, <2>1
    <3> QED
      BY <1>2, <2>1, <3>1
  <2>2. CASE ~(i <= k)
    <3>1. i + 1 \in l + 1 .. n + 1 /\ i + 1 \in 1 .. n + 1 /\ (i + 1) - 1 = i
      BY <1>1, <2>2
    <3>2. r[i + 1] = s[i]
      BY <1>2, <3>1
    <3> QED
      BY <2>2, <3>1, <3>2
  <2> QED
    BY <2>1, <2>2
<1>4. \A i, j \in 1 .. n : i < j => at(i) < at(j)
  BY <1>1
<1>5. ASSUME NEW i \in 1 .. n
      PROVE  /\ l \in 1 .. n + 1 /\ (i <= k => at(i) < l) /\ (i > k => l < at(i))
  BY <1>1
<1> HIDE DEF at
<1>6. ASSUME NEW u, NEW v, Before(s, u, v) PROVE Before(r, u, v)
  <2>1. PICK i \in 1 .. n, j \in 1 .. n : i < j /\ s[i] = u /\ s[j] = v
    BY <1>6 DEF Before, n
  <2> QED
    BY <1>2, <1>3, <1>4, <2>1 DEF Before
<1>7. ASSUME NEW i \in 1 .. n
      PROVE  /\ i <= k => Before(r, s[i], e)
             /\ i > k => Before(r, e, s[i])
  BY <1>2, <1>3, <1>5 DEF Before
<1> QED
  BY <1>6, <1>7 DEF r, n

(* Nor does an element taken out disturb the others. *)
LEMMA WithoutBefore ==
  ASSUME NEW S, NEW s \in Seq(S), IsInjective(s), NEW e \in ToSet(s), NEW u, NEW v,
         u # e, v # e, Before(s, u, v)
  PROVE  Before(Without(s, e), u, v)
<1> DEFINE r == Without(s, e)
           n == Len(s)
           t == index_of(s, e) + 1
           at(i) == IF i < t THEN i ELSE i - 1
<1>1. n \in Nat /\ t \in 1 .. n /\ s[t] = e
  BY IndexOf, LenProperties
<1>2. Len(r) = n - 1 /\ \A i \in 1 .. n - 1 : r[i] = IF i < t THEN s[i] ELSE s[i + 1]
  BY WithoutFacts
<1> HIDE DEF r, n, t
<1>3. ASSUME NEW i \in 1 .. n, i # t PROVE at(i) \in 1 .. n - 1 /\ r[at(i)] = s[i]
  <2>1. CASE i < t
    <3>1. i \in 1 .. n - 1
      BY <1>1, <2>1
    <3> QED
      BY <1>2, <2>1, <3>1
  <2>2. CASE ~(i < t)
    <3>1. i - 1 \in 1 .. n - 1 /\ ~(i - 1 < t) /\ (i - 1) + 1 = i
      BY <1>1, <1>3, <2>2
    <3>2. r[i - 1] = s[i]
      BY <1>2, <3>1
    <3> QED
      BY <2>2, <3>1, <3>2
  <2> QED
    BY <2>1, <2>2
<1>4. ASSUME NEW i \in 1 .. n, NEW j \in 1 .. n, i < j, i # t, j # t PROVE at(i) < at(j)
  BY <1>1, <1>4
<1> HIDE DEF at
<1>5. PICK i \in 1 .. n, j \in 1 .. n : i < j /\ s[i] = u /\ s[j] = v
  BY DEF Before, n
<1>6. i # t /\ j # t
  BY <1>1, <1>5
<1>7. at(i) \in 1 .. Len(r) /\ at(j) \in 1 .. Len(r) /\ at(i) < at(j) /\ r[at(i)] = u /\ r[at(j)] = v
  BY <1>2, <1>3, <1>4, <1>5, <1>6
<1> QED
  BY <1>7 DEF Before, r

(* What is before in a part of a sequence is so in all of it. *)
LEMMA OnlyBefore ==
  ASSUME NEW T, NEW seq \in Seq(T), NEW S, NEW u, NEW v, Before(only(seq, S), u, v)
  PROVE  Before(seq, u, v)
<1> DEFINE at == {i \in DOMAIN seq : seq[i] \in S}
           places == increasing(at)
           r == only(seq, S)
<1>1. Len(seq) \in Nat /\ DOMAIN seq = 1 .. Len(seq)
  BY LenProperties
<1>2. at \subseteq 0 .. Len(seq) /\ at \subseteq 1 .. Len(seq)
  BY <1>1
<1>3. r = [i \in DOMAIN places |-> seq[places[i]]]
  BY DEF only
<1> HIDE DEF at
<1>4. /\ Listed(places, at)
      /\ \A i, j \in 1 .. Len(places) : i < j <=> places[i] < places[j]
  BY <1>1, <1>2, Increasing
<1> HIDE DEF places, r
<1>5. /\ DOMAIN places = 1 .. Len(places) /\ Len(places) \in Nat
      /\ \A i \in 1 .. Len(places) : places[i] \in at
  BY <1>4, LenProperties DEF Listed
<1>6. Len(r) = Len(places) /\ \A i \in 1 .. Len(places) : r[i] = seq[places[i]]
  BY <1>3, <1>5
<1>7. PICK i \in 1 .. Len(places), j \in 1 .. Len(places) : i < j /\ r[i] = u /\ r[j] = v
  BY <1>6 DEF Before, r
<1>8. /\ places[i] \in 1 .. Len(seq) /\ places[j] \in 1 .. Len(seq) /\ places[i] < places[j]
      /\ seq[places[i]] = u /\ seq[places[j]] = v
  BY <1>2, <1>4, <1>5, <1>6, <1>7
<1> QED
  BY <1>8 DEF Before

(* In increasing order, before is less. *)
LEMMA IncreasingBefore ==
  ASSUME NEW n \in Nat, NEW S, S \subseteq 0 .. n, NEW c, NEW d, Before(increasing(S), c, d)
  PROVE  c < d
<1> DEFINE q == increasing(S)
<1>1. \A i, j \in 1 .. Len(q) : i < j <=> q[i] < q[j]
  BY Increasing
<1>2. PICK i \in 1 .. Len(q), j \in 1 .. Len(q) : i < j /\ q[i] = c /\ q[j] = d
  BY DEF Before
<1> HIDE DEF q
<1> QED
  BY <1>1, <1>2

(* Numbers that strictly increase from one on are not below their places. *)
LEMMA Climbing ==
  ASSUME NEW n \in Nat, NEW f \in [1 .. n -> Nat \ {0}],
         \A i, j \in 1 .. n : i < j => f[i] < f[j]
  PROVE  \A i \in 1 .. n : i <= f[i]
<1> DEFINE bad == {i \in Nat : i \in 1 .. n /\ ~(i <= f[i])}
<1>1. ASSUME bad # {} PROVE FALSE
  <2>1. PICK i \in bad : \A j \in bad : i <= j
    BY <1>1, NatMinExists
  <2>2. i \in 1 .. n /\ f[i] < i /\ f[i] \in Nat
    BY <2>1
  <2>3. i # 1 /\ i - 1 \in 1 .. n /\ i - 1 \in Nat /\ i - 1 < i
    BY <2>2
  <2>4. i - 1 \notin bad
    BY <2>1, <2>3
  <2>5. i - 1 <= f[i - 1] /\ f[i - 1] < f[i] /\ f[i - 1] \in Nat
    BY <2>2, <2>3, <2>4
  <2> QED
    BY <2>2, <2>3, <2>5
<1> QED
  BY <1>1

(* Two lists of the same elements, one in the order of the other. *)
LEMMA SameSequence ==
  ASSUME NEW S, NEW s \in Seq(S), NEW t \in Seq(S), IsInjective(s), IsInjective(t),
         ToSet(s) = ToSet(t),
         \A i, j \in 1 .. Len(t) : i < j => Before(s, t[i], t[j])
  PROVE  s = t
<1> DEFINE m == Len(s)
           n == Len(t)
           f == [i \in 1 .. n |-> CHOOSE k \in 1 .. m : s[k] = t[i]]
           g == [k \in 1 .. m |-> CHOOSE i \in 1 .. n : t[i] = s[k]]
<1>1. m \in Nat /\ n \in Nat /\ DOMAIN s = 1 .. m /\ DOMAIN t = 1 .. n
  BY LenProperties
<1>2. \A i \in 1 .. n : \E k \in 1 .. m : s[k] = t[i]
  BY <1>1 DEF ToSet
<1>3. \A k \in 1 .. m : \E i \in 1 .. n : t[i] = s[k]
  BY <1>1 DEF ToSet
<1>4. \A i, j \in 1 .. n : i < j => \E k, l \in 1 .. m : k < l /\ s[k] = t[i] /\ s[l] = t[j]
  BY DEF Before
<1>5. \A k, l \in 1 .. m : s[k] = s[l] => k = l
  BY <1>1 DEF IsInjective
<1>6. \A i, j \in 1 .. n : t[i] = t[j] => i = j
  BY <1>1 DEF IsInjective
<1> HIDE DEF m, n
<1>7. \A i \in 1 .. n : f[i] \in 1 .. m /\ s[f[i]] = t[i]
  BY <1>2
<1>8. \A k \in 1 .. m : g[k] \in 1 .. n /\ t[g[k]] = s[k]
  BY <1>3
<1>9. DOMAIN f = 1 .. n /\ DOMAIN g = 1 .. m /\ f = [i \in 1 .. n |-> f[i]] /\ g = [k \in 1 .. m |-> g[k]]
  OBVIOUS
<1> HIDE DEF f, g
<1>10. \A i \in 1 .. n : g[f[i]] = i
  BY <1>6, <1>7, <1>8
<1>11. \A k \in 1 .. m : f[g[k]] = k
  BY <1>5, <1>7, <1>8
<1>12. \A i, j \in 1 .. n : i < j => f[i] < f[j]
  BY <1>4, <1>5, <1>7
<1>13. ASSUME NEW k \in 1 .. m, NEW l \in 1 .. m, k < l PROVE g[k] < g[l]
  <2>1. g[k] \in 1 .. n /\ g[l] \in 1 .. n /\ f[g[k]] = k /\ f[g[l]] = l
    BY <1>8, <1>11
  <2>2. ~(g[l] < g[k]) /\ g[k] # g[l]
    BY <1>12, <1>13, <2>1
  <2> QED
    BY <2>1, <2>2
<1>14. f \in [1 .. n -> Nat \ {0}] /\ g \in [1 .. m -> Nat \ {0}]
  BY <1>7, <1>8, <1>9
<1>15. \A i \in 1 .. n : i <= f[i]
  BY <1>1, <1>12, <1>14, Climbing
<1>16. \A k \in 1 .. m : k <= g[k]
  BY <1>1, <1>13, <1>14, Climbing
<1>17. ASSUME NEW i \in 1 .. n PROVE f[i] = i
  <2>1. f[i] \in 1 .. m /\ g[f[i]] = i /\ i <= f[i]
    BY <1>7, <1>10, <1>15
  <2>2. f[i] <= g[f[i]]
    BY <1>16, <2>1
  <2> QED
    BY <2>1, <2>2
<1>18. m = n
  <2>1. ASSUME n < m PROVE FALSE
    <3>1. m \in 1 .. m /\ g[m] \in 1 .. n /\ m <= g[m]
      BY <1>1, <1>8, <1>16, <2>1
    <3> QED
      BY <1>1, <2>1, <3>1
  <2>2. ASSUME m < n PROVE FALSE
    <3>1. n \in 1 .. n /\ f[n] \in 1 .. m /\ n <= f[n]
      BY <1>1, <1>7, <1>15, <2>2
    <3> QED
      BY <1>1, <2>2, <3>1
  <2> QED
    BY <1>1, <2>1, <2>2
<1>19. \A i \in 1 .. n : s[i] = t[i]
  BY <1>7, <1>17
<1>20. s = [i \in 1 .. m |-> s[i]] /\ t = [i \in 1 .. n |-> t[i]]
  BY <1>1
<1> QED
  BY <1>18, <1>19, <1>20

(***************************************************************************)
(* What the end of a turn puts in order among the children of x is in the  *)
(* order of the children of w, and a child it leaves out is to be moved.   *)
(***************************************************************************)
LEMMA EndTurnOrder ==
  ASSUME Typed, NEW x, Visiting(x), NEW I, I \subseteq Nat, NEW C, NEW arena \in Arenas(I, C),
         NEW w \in I, IsInjective(arena[w].kids), NEW ms, EndTurn(arena, ms, w, x)
  PROVE  /\ x \in dst_in_order' /\ dst_in_order' \subseteq dst_in_order \cup {x} \cup children(dst, x)
         /\ dst_in_order \ children(dst, x) \subseteq dst_in_order'
         /\ \A c, d \in children(dst, x) \cap dst_in_order' : c < d =>
              \E a, b \in ToSet(arena[w].kids) :
                 has(ms, a, c) /\ has(ms, b, d) /\ Before(arena[w].kids, a, b)
         /\ \A c \in children(dst, x), a \in ToSet(arena[w].kids) :
              has(ms, a, c) /\ has(ori_mappings, a, c) =>
                c \in dst_in_order' \/ a \in ToSet(to_move')
<1> DEFINE s1 == kept_src(arena, ms, w, x)
           s2 == kept_dst(arena, ms, w, x)
           common == lcs(ms, s1, s2)
           kids == arena[w].kids
           S1 == {c \in ToSet(kids) :
                     is_src(ms, c) /\ get_dst_unchecked(ms, c) \in children(dst, x)}
           S2 == {c \in children(dst, x) :
                     is_dst(ms, c) /\ get_src_unchecked(ms, c) \in ToSet(kids)}
<1>1. /\ dst_in_order' = in_order_after(x, common)
      /\ to_move' = misplaced(kids, s1, s2, common)
  BY DEF EndTurn
<1>2. kids \in Seq(I) /\ IsInjective(kids)
  BY EntryFields
<1>3. s1 = only(kids, S1) /\ s2 = increasing(S2)
  BY DEF kept_src, kept_dst
<1>4. /\ \A c \in children(dst, x) : c \in nodes(dst) /\ c # x
      /\ dst.len \in Nat /\ nodes(dst) = 0 .. dst.len - 1
  BY VisitFacts, TreeFacts
<1>5. S2 \subseteq 0 .. dst.len /\ S2 \subseteq children(dst, x)
  BY <1>4
<1>6. \A a \in ToSet(kids), c \in children(dst, x) : has(ms, a, c) => a \in S1 /\ c \in S2
  <2> SUFFICES ASSUME NEW a \in ToSet(kids), NEW c \in children(dst, x), has(ms, a, c)
               PROVE  a \in S1 /\ c \in S2
    OBVIOUS
  <2>2. /\ ms.src_to_dst[a] = c + 1 /\ ms.dst_to_src[c] = a + 1
    BY DEF has
  <2>3. c + 1 # 0 /\ a + 1 # 0 /\ (c + 1) - 1 = c /\ (a + 1) - 1 = a
    <3>1. a \in Nat
      <4> HIDE DEF kids
      <4>1. a \in I
        BY <1>2 DEF ToSet
      <4> QED
        BY <4>1
    <3>2. c \in Nat
      BY <1>4
    <3> QED
      BY <3>1, <3>2
  <2> QED
    BY <2>2, <2>3 DEF is_src, is_dst, get_src_unchecked, get_dst_unchecked
<1>7. /\ s1 \in Seq(ToSet(kids)) /\ ToSet(s1) = S1 /\ S1 \subseteq ToSet(kids)
      /\ \A u, v : Before(s1, u, v) => Before(kids, u, v)
  <2>1. S1 \cap ToSet(kids) = S1 /\ S1 \subseteq ToSet(kids)
    OBVIOUS
  <2> HIDE DEF s1, kids, S1
  <2>2. s1 \in Seq(S1 \cap ToSet(kids)) /\ ToSet(s1) = S1 \cap ToSet(kids)
    BY <1>2, <1>3, OnlyKeeps
  <2>3. \A u, v : Before(s1, u, v) => Before(kids, u, v)
    BY <1>2, <1>3, OnlyBefore
  <2>4. Seq(S1 \cap ToSet(kids)) \subseteq Seq(ToSet(kids))
    BY <2>1
  <2> QED
    BY <2>1, <2>2, <2>3, <2>4
<1> HIDE DEF S1, kids
<1>8. /\ s2 \in Seq(children(dst, x)) /\ ToSet(s2) = S2
      /\ \A c, d : Before(s2, c, d) => c < d
  <2> HIDE DEF s2, S2
  <2>1. Listed(s2, S2) /\ \A c, d : Before(s2, c, d) => c < d
    BY <1>3, <1>4, <1>5, Increasing, IncreasingBefore
  <2>2. S2 \subseteq children(dst, x)
    BY <1>5
  <2>3. Seq(S2) \subseteq Seq(children(dst, x))
    BY <2>2
  <2> QED
    BY <2>1, <2>3 DEF Listed
<1> HIDE DEF s1, s2, S2
<1> DEFINE equal == {p \in ToSet(s1) \X ToSet(s2) : has(ms, p[1], p[2])}
<1>9. common = longest_common_subsequence(s1, s2, equal)
  BY DEF lcs
<1>10. \A p \in equal : p = <<p[1], p[2]>> /\ p[1] \in S1 /\ p[2] \in S2 /\ has(ms, p[1], p[2])
  BY <1>7, <1>8
<1> HIDE DEF equal, common
<1>11. common \in Seq(equal)
  BY <1>7, <1>8, <1>9, LcsEqual
<1>12. \A m, n \in 1 .. Len(common) : m < n =>
           Before(s1, common[m][1], common[n][1]) /\ Before(s2, common[m][2], common[n][2])
  BY <1>7, <1>8, <1>9, LcsOrdered
<1>13. /\ ToSet(common) = {common[i] : i \in 1 .. Len(common)} /\ Len(common) \in Nat
       /\ \A i \in 1 .. Len(common) : common[i] \in equal
  BY <1>11 DEF ToSet
<1>14. dst_in_order' = ((dst_in_order \cup {x}) \ children(dst, x)) \cup {common[i][2] : i \in 1 .. Len(common)}
  BY <1>1, <1>13 DEF in_order_after
<1>15. /\ x \in dst_in_order' /\ dst_in_order' \subseteq dst_in_order \cup {x} \cup children(dst, x)
       /\ dst_in_order \ children(dst, x) \subseteq dst_in_order'
  BY <1>4, <1>5, <1>10, <1>13, <1>14
<1>16. ASSUME NEW c \in children(dst, x) \cap dst_in_order',
              NEW d \in children(dst, x) \cap dst_in_order', c < d
       PROVE  \E a, b \in ToSet(kids) : has(ms, a, c) /\ has(ms, b, d) /\ Before(kids, a, b)
  <2>1. PICK m \in 1 .. Len(common) : c = common[m][2]
    BY <1>14
  <2>2. PICK n \in 1 .. Len(common) : d = common[n][2]
    BY <1>14
  <2>3. c \in Int /\ d \in Int /\ m \in Nat /\ n \in Nat
    BY <1>4, <1>13
  <2>4. m < n
    <3>1. ASSUME n < m PROVE FALSE
      BY <1>8, <1>12, <1>16, <2>1, <2>2, <2>3, <3>1
    <3>2. m # n
      BY <1>16, <2>1, <2>2, <2>3
    <3> QED
      BY <2>3, <3>1, <3>2
  <2>5. Before(kids, common[m][1], common[n][1])
    BY <1>7, <1>12, <2>4
  <2>6. /\ common[m][1] \in ToSet(kids) /\ has(ms, common[m][1], c)
        /\ common[n][1] \in ToSet(kids) /\ has(ms, common[n][1], d)
    BY <1>7, <1>10, <1>13, <2>1, <2>2
  <2> QED
    BY <2>5, <2>6
<1>17. ASSUME NEW c \in children(dst, x), NEW a \in ToSet(kids),
              has(ms, a, c), has(ori_mappings, a, c), c \notin dst_in_order'
       PROVE  a \in ToSet(to_move')
  <2> DEFINE out == {e \in ToSet(s1) :
              LET b == get_dst_unchecked(ori_mappings, e)
              IN  /\ has(ori_mappings, e, b) /\ b \in ToSet(s2)
                  /\ <<e, b>> \notin ToSet(common)}
  <2>1. a \in ToSet(s1) /\ c \in ToSet(s2)
    BY <1>6, <1>7, <1>8, <1>17
  <2>2. get_dst_unchecked(ori_mappings, a) = c
    <3>1. ori_mappings.src_to_dst[a] = c + 1 /\ c \in Int
      BY <1>4, <1>17 DEF has
    <3> QED
      BY <3>1 DEF get_dst_unchecked
  <2>3. <<a, c>> \notin ToSet(common)
    BY <1>13, <1>14, <1>17
  <2>4. a \in out
    BY <1>17, <2>1, <2>2, <2>3
  <2>5. to_move' = only(s1, out)
    BY <1>1 DEF misplaced
  <2> HIDE DEF out
  <2>6. ToSet(only(s1, out)) = out \cap ToSet(s1)
    BY <1>7, OnlyKeeps
  <2> QED
    BY <2>1, <2>4, <2>5, <2>6
<1> QED
  BY <1>15, <1>16, <1>17 DEF kids

(* The partners of the nodes of S are in the order of the nodes. *)
Ordered(kids, S) == \A c, d \in S : c < d => Before(kids, partner(c), partner(d))

Siblings(x) == (children(dst, parent(dst, x)) \cap dst_in_order) \ {x}

(***************************************************************************)
(* The place that find_pos finds is after the siblings on the left that    *)
(* are in order, and before those on the right, once these are in order.   *)
(***************************************************************************)
LEMMA PlaceFound ==
  ASSUME Typed, InOrder, NEW x \in nodes(dst), x # root(dst), NEW z \in Ids,
         z = partner(parent(dst, x)), NEW C, NEW arena \in Arenas(Ids, C),
         \A u \in Ids : arena[u].parent = mid_arena[u].parent,
         IsInjective(arena[z].kids), Ordered(arena[z].kids, Siblings(x)),
         \A c \in Siblings(x) : partner(c) \in ToSet(arena[z].kids), NEW w
  PROVE  LET r == InsertAt(arena[z].kids, find_pos(arena, x) + 1, w) IN
         \A c \in Siblings(x) : /\ c < x => Before(r, partner(c), w)
                                /\ x < c => Before(r, w, partner(c))
<1> DEFINE lefts == {c \in children(dst, parent(dst, x)) : c < x /\ c \in dst_in_order}
           m == Max(lefts)
           kids == arena[z].kids
           n == Len(kids)
           k == find_pos(arena, x)
           r == InsertAt(kids, k + 1, w)
<1>1. k = IF lefts = {} THEN 0 ELSE rank(arena, partner(m)) + 1
  BY DEF find_pos, partner
<1>2. kids \in Seq(Ids) /\ n \in Nat /\ DOMAIN kids = 1 .. n /\ k \in 0 .. n
  <2>1. kids \in Seq(Ids)
    BY EntryFields
  <2> QED
    BY <2>1, LenProperties, FindPos
<1>3. IsTree(dst) /\ parent(dst, x) \in nodes(dst) /\ root(dst) \in Int /\ x \in Nat
  BY TreeFacts, ParentFacts, NodeTypes
<1>4. \A c \in Siblings(x) : c \in nodes(dst) /\ c \in Nat
  BY <1>3, ChildSubtree, NodeTypes DEF Siblings
<1>5. \A c \in Siblings(x) : c < x <=> c \in lefts
  BY DEF Siblings
<1>6. lefts \subseteq Siblings(x) /\ lefts \subseteq Nat /\ \A c \in lefts : c <= x
  <2>1. lefts \subseteq Siblings(x)
    <3>1. \A c \in lefts : c \in children(dst, parent(dst, x)) /\ c \in dst_in_order /\ c < x
      OBVIOUS
    <3>2. \A c \in lefts : c # x
      BY <1>3, <3>1
    <3> QED
      BY <3>1, <3>2 DEF Siblings
  <2>2. \A c \in lefts : c < x /\ c \in Nat
    BY <1>4, <2>1
  <2> QED
    BY <1>3, <2>1, <2>2
<1> HIDE DEF lefts
<1>7. \A i, j \in 1 .. n : kids[i] = kids[j] => i = j
  BY <1>2 DEF IsInjective
<1>8. \A i \in 1 .. n : /\ i <= k => Before(r, kids[i], w)
                        /\ i > k => Before(r, w, kids[i])
  <2> HIDE DEF kids, n, k
  <2> DEFINE S == Ids \cup {w}
  <2>1. kids \in Seq(S) /\ w \in S
    BY <1>2
  <2> HIDE DEF S, r
  <2>2. n = Len(kids) /\ r = InsertAt(kids, k + 1, w)
    BY DEF n, r
  <2> QED
    BY <1>2, <2>1, <2>2, InsertBefore
<1> HIDE DEF r, k, n
<1>9. \A c \in Siblings(x) : partner(c) \in ToSet(kids)
  OBVIOUS
<1>10. \A c, d \in Siblings(x) : c < d =>
         \E i, j \in 1 .. n : i < j /\ kids[i] = partner(c) /\ kids[j] = partner(d)
  BY DEF Ordered, Before, n
<1>11. ASSUME NEW c \in Siblings(x)
       PROVE  \E i \in 1 .. n : kids[i] = partner(c) /\ (c < x => i <= k) /\ (x < c => i > k)
  <2>1. PICK i \in 1 .. n : kids[i] = partner(c)
    BY <1>2, <1>9 DEF ToSet
  <2>2. c \in Nat /\ i \in Nat
    BY <1>4
  <2>3. CASE lefts = {}
    <3>1. k = 0 /\ ~(c < x)
      BY <1>1, <1>5, <2>3
    <3> QED
      BY <2>1, <2>2, <3>1
  <2>4. CASE lefts # {}
    <3>1. m \in lefts /\ \A e \in lefts : e <= m
      BY <1>3, <1>6, <2>4, MaxOfBounded
    <3>2. m \in Siblings(x) /\ m \in Nat /\ m < x
      BY <1>5, <1>6, <3>1
    <3> HIDE DEF m
    <3>3. k = index_of(kids, partner(m)) + 1
      <4>1. AtPlace(m) /\ m \in nodes(dst)
        BY <1>4, <3>2 DEF InOrder, Siblings
      <4>2. m # root(dst) /\ parent(dst, m) = parent(dst, x)
        <5>1. m < parent(dst, x) /\ m \in children(dst, parent(dst, x))
          BY <1>3, <3>2, ChildSubtree DEF Siblings
        <5>2. parent(dst, x) <= root(dst) /\ parent(dst, x) \in Int
          BY <1>3, NodeTypes
        <5>3. parent(dst, m) = parent(dst, x)
          BY <5>1 DEF children, parent
        <5> QED
          BY <1>3, <3>2, <5>1, <5>2, <5>3
      <4>3. partner(m) \in Ids /\ mid_parent(partner(m)) = z
        BY <4>1, <4>2 DEF AtPlace, wanted_parent, partner
      <4>4. arena[partner(m)].parent = z
        <5>1. mid_arena[partner(m)].parent = z
          BY <4>3, TreeFacts DEF mid_parent
        <5> QED
          BY <4>3, <5>1
      <4> QED
        BY <1>1, <2>4, <4>4 DEF rank
    <3>4. k \in 1 .. n /\ kids[k] = partner(m)
      BY <1>2, <1>9, <3>2, <3>3, IndexOf DEF n
    <3>5. CASE c < x
      <4>1. c <= m
        BY <1>5, <3>1, <3>5
      <4>2. CASE c = m
        <5>1. k \in 1 .. n /\ kids[k] = partner(c) /\ k <= k
          BY <1>2, <3>4, <4>2
        <5> QED
          BY <1>3, <2>2, <3>5, <5>1
      <4>3. CASE c < m
        <5>1. PICK g \in 1 .. n, h \in 1 .. n : g < h /\ kids[g] = partner(c) /\ kids[h] = partner(m)
          BY <1>10, <3>2, <4>3
        <5>2. h = k
          BY <1>7, <3>4, <5>1
        <5>3. g <= k
          BY <1>2, <5>1, <5>2
        <5> QED
          BY <1>3, <2>2, <3>5, <5>1, <5>3
      <4> QED
        BY <2>2, <3>2, <4>1, <4>2, <4>3
    <3>6. CASE x < c
      <4>1. m < c
        BY <1>3, <2>2, <3>2, <3>6
      <4>2. PICK g \in 1 .. n, h \in 1 .. n : g < h /\ kids[g] = partner(m) /\ kids[h] = partner(c)
        BY <1>10, <3>2, <4>1
      <4>3. g = k
        BY <1>7, <3>4, <4>2
      <4>4. h > k
        BY <1>2, <4>2, <4>3
      <4> QED
        BY <1>3, <2>2, <3>6, <4>2, <4>4
    <3>7. c # x
      BY DEF Siblings
    <3> QED
      BY <1>3, <2>2, <3>5, <3>6, <3>7
  <2> QED
    BY <2>3, <2>4
<1> HIDE DEF kids
<1>12. \A c \in Siblings(x) : /\ c < x => Before(r, partner(c), w)
                              /\ x < c => Before(r, w, partner(c))
  <2> SUFFICES ASSUME NEW c \in Siblings(x)
               PROVE  /\ c < x => Before(r, partner(c), w)
                      /\ x < c => Before(r, w, partner(c))
    OBVIOUS
  <2>1. PICK i \in 1 .. n : kids[i] = partner(c) /\ (c < x => i <= k) /\ (x < c => i > k)
    BY <1>11
  <2> QED
    BY <1>8, <2>1
<1> QED
  BY <1>12 DEF r, k, kids

(***************************************************************************)
(* What is known of the order: a node visited is in order, and the         *)
(* children of its partner are in the order of the children of the node    *)
(* that are in order, unless one was aligned there.  A child that is at    *)
(* its place is in order, or is to be aligned.                             *)
(***************************************************************************)
ListedAt(y) ==
  \/ aligned(partner(y))
  \/ /\ Ordered(mid_arena[partner(y)].kids, children(dst, y) \cap dst_in_order)
     /\ \A c \in children(dst, y) :
          AtPlace(c) => c \in dst_in_order \/ partner(c) \in ToSet(to_move)
Listing == visited \subseteq dst_in_order /\ \A y \in visited : ListedAt(y)

(***************************************************************************)
(* A turn leaves the other nodes in their order, and w has its place among *)
(* the partners of the siblings of x that are in order.                    *)
(***************************************************************************)
Arranged(x, w) ==
  /\ \A u \in Ids : \A a, b : a # w /\ b # w /\ Before(mid_arena[u].kids, a, b) =>
       Before(mid_arena'[u].kids, a, b)
  /\ x # root(dst) =>
       LET z == partner(parent(dst, x)) IN
       aligned(z) \/ \A c \in Siblings(x) : /\ c < x => Before(mid_arena'[z].kids, partner(c), w)
                                            /\ x < c => Before(mid_arena'[z].kids, w, partner(c))

(* The siblings in order. *)
LEMMA SiblingFacts ==
  ASSUME Inv, NEW x, Visiting(x), x # root(dst), NEW c \in Siblings(x)
  PROVE  /\ c \in nodes(dst) /\ c # root(dst) /\ c # x /\ parent(dst, c) = parent(dst, x)
         /\ AtPlace(c) /\ partner(c) \in Ids /\ has(cpy_mappings, partner(c), c)
         /\ partner(c) \in ToSet(mid_arena[partner(parent(dst, x))].kids)
<1>1. /\ Typed /\ Shape /\ Settled /\ InOrder /\ x \in nodes(dst) /\ parent(dst, x) \in visited
      /\ parent(dst, x) \in nodes(dst) /\ pc = "ins_mov_upd"
  BY VisitFacts DEF Inv
<1>2. IsTree(dst) /\ NoNode \notin Ids /\ Ids \subseteq Nat
  BY <1>1, TreeFacts
<1>3. c \in nodes(dst) /\ c < parent(dst, x) /\ parent(dst, c) = parent(dst, x) /\ c # x
  <2>1. c \in children(dst, parent(dst, x)) /\ c # x
    BY DEF Siblings
  <2> QED
    BY <1>1, <1>2, <2>1, ChildSubtree DEF children, parent
<1>4. c # root(dst)
  <2>1. parent(dst, x) <= root(dst) /\ parent(dst, x) \in Int /\ c \in Int /\ root(dst) \in Int
    BY <1>1, <1>2, <1>3, NodeTypes, TreeFacts
  <2> QED
    BY <1>3, <2>1
<1>5. AtPlace(c)
  BY <1>1 DEF InOrder, Siblings
<1> DEFINE p == partner(c)
           z == partner(parent(dst, x))
<1>6. p \in Ids /\ has(cpy_mappings, p, c) /\ mid_parent(p) = z
  BY <1>3, <1>4, <1>5 DEF AtPlace, wanted_parent, partner
<1>7. z \in Ids
  BY <1>1 DEF Settled, AtPlace
<1> HIDE DEF p, z
<1>8. mid_arena[p].parent = z /\ z # p
  BY <1>2, <1>6, <1>7 DEF mid_parent
<1>9. PlacedIn(mid_arena, p)
  BY <1>1, <1>6 DEF Shape
<1>10. p \in ToSet(mid_arena[z].kids)
  BY <1>8, <1>9 DEF PlacedIn
<1> QED
  BY <1>3, <1>4, <1>5, <1>6, <1>10 DEF p, z

(* What find_pos finds, in the lists of the mid arena without w. *)
LEMMA PlacedAmong ==
  ASSUME Inv, Listing, NEW x, Visiting(x), x # root(dst), NEW z, z = partner(parent(dst, x)),
         ~aligned(z), NEW w, \A c \in Siblings(x) : partner(c) # w,
         NEW arena \in Arenas(Ids, Contents), \A u \in Ids : arena[u].parent = mid_arena[u].parent,
         IsInjective(arena[z].kids), ToSet(mid_arena[z].kids) \ {w} \subseteq ToSet(arena[z].kids),
         \A a, b : a # w /\ b # w /\ Before(mid_arena[z].kids, a, b) => Before(arena[z].kids, a, b)
  PROVE  LET r == InsertAt(arena[z].kids, find_pos(arena, x) + 1, w) IN
         \A c \in Siblings(x) : /\ c < x => Before(r, partner(c), w)
                                /\ x < c => Before(r, w, partner(c))
<1>1. /\ Typed /\ Settled /\ InOrder /\ x \in nodes(dst) /\ parent(dst, x) \in visited
  BY VisitFacts DEF Inv
<1>2. z \in Ids
  BY <1>1 DEF Settled, AtPlace
<1>3. \A c \in Siblings(x) : partner(c) \in ToSet(arena[z].kids)
  BY SiblingFacts
<1>4. Ordered(arena[z].kids, Siblings(x))
  <2>1. Ordered(mid_arena[z].kids, children(dst, parent(dst, x)) \cap dst_in_order)
    BY <1>1 DEF Listing, ListedAt
  <2>2. \A c \in Siblings(x) : c \in children(dst, parent(dst, x)) \cap dst_in_order
    BY DEF Siblings
  <2> QED
    BY <2>1, <2>2 DEF Ordered
<1> HIDE DEF Ids, Contents
<1> QED
  BY <1>1, <1>2, <1>3, <1>4, PlaceFound

(* A new node is arranged. *)
LEMMA InsertArranged ==
  ASSUME Inv, Listing, NEW x, Insert(x)
  PROVE  Arranged(x, N)
<1> DEFINE z == get_src_unchecked(cpy_mappings, parent(dst, x))
           k == find_pos(mid_arena, x)
           a == inserted(N, x, z)
           I == Ids \cup {N}
<1>1. /\ Typed /\ Shape /\ Settled /\ InOrder /\ Visiting(x) /\ ArenaTyped /\ x # root(dst)
  BY DEF Inv, Insert, Typed
<1>2. next_id = N /\ N \notin Ids
  BY <1>1, OneMore
<1>3. mid_arena' = insert_kid(a, z, k, N)
  BY <1>2 DEF Insert, EndTurn
<1>4. /\ x \in nodes(dst) /\ pc = "ins_mov_upd" /\ parent(dst, x) \in visited
  BY <1>1, VisitFacts
<1>5. z = partner(parent(dst, x)) /\ z \in Ids
  <2>1. AtPlace(parent(dst, x))
    BY <1>1, <1>4 DEF Settled
  <2> QED
    BY <2>1 DEF AtPlace, partner
<1> HIDE DEF z
<1>6. Forest(mid_arena) /\ (\A u \in Ids : PlacedIn(mid_arena, u)) /\ mid_arena \in Arenas(Ids, Contents)
  BY <1>1, <1>4 DEF Shape, ArenaTyped
<1>7. k \in 0 .. Len(mid_arena[z].kids)
  BY <1>1, <1>4, <1>5, <1>6, FindPos
<1>8. /\ a \in Arenas(I, Contents) /\ \A u \in Ids : a[u] = mid_arena[u]
  BY <1>1, <1>4, <1>5, <1>6, InsertedFacts
<1>9. N \in I /\ z \in I /\ k \in 0 .. Len(a[z].kids)
  BY <1>5, <1>7, <1>8
<1> HIDE DEF a, k
<1>10. \A u \in Ids : mid_arena'[u].kids =
         IF u = z THEN InsertAt(mid_arena[z].kids, k + 1, N) ELSE mid_arena[u].kids
  <2>1. \A u \in I : mid_arena'[u].kids =
          IF u = z THEN InsertAt(a[z].kids, k + 1, N) ELSE a[u].kids
    <3> HIDE DEF I
    <3> QED
      BY <1>3, <1>8, <1>9, InsertKid
  <2> QED
    BY <1>5, <1>8, <2>1
<1>11. mid_arena[z].kids \in Seq(I) /\ IsInjective(mid_arena[z].kids)
  <2>1. a[z].kids \in Seq(I)
    <3> HIDE DEF I
    <3> QED
      BY <1>8, <1>9, EntryFields
  <2>2. IsInjective(mid_arena[z].kids)
    BY <1>5, <1>6 DEF Forest, Ids
  <2> QED
    BY <1>5, <1>8, <2>1, <2>2
<1>12. ASSUME NEW u \in Ids, NEW c, NEW d, Before(mid_arena[u].kids, c, d)
       PROVE  Before(mid_arena'[u].kids, c, d)
  <2>1. CASE u = z
    <3>1. Before(InsertAt(mid_arena[z].kids, k + 1, N), c, d)
      <4> HIDE DEF I
      <4> QED
        BY <1>7, <1>9, <1>11, <1>12, <2>1, InsertBefore DEF k
    <3> QED
      BY <1>10, <2>1, <3>1
  <2>2. CASE u # z
    BY <1>10, <1>12, <2>2
  <2> QED
    BY <2>1, <2>2
<1>13. ASSUME ~aligned(z)
       PROVE  \A c \in Siblings(x) : /\ c < x => Before(mid_arena'[z].kids, partner(c), N)
                                     /\ x < c => Before(mid_arena'[z].kids, N, partner(c))
  <2>1. \A c \in Siblings(x) : partner(c) # N
    BY <1>1, <1>2, SiblingFacts
  <2>2. mid_arena'[z].kids = InsertAt(mid_arena[z].kids, find_pos(mid_arena, x) + 1, N)
    BY <1>5, <1>10 DEF k
  <2> HIDE DEF Ids, Contents
  <2>3. LET r == InsertAt(mid_arena[z].kids, find_pos(mid_arena, x) + 1, N) IN
         \A c \in Siblings(x) : /\ c < x => Before(r, partner(c), N)
                                /\ x < c => Before(r, N, partner(c))
    BY <1>1, <1>5, <1>6, <1>11, <1>13, <2>1, PlacedAmong
  <2> QED
    BY <2>2, <2>3
<1> QED
  BY <1>5, <1>12, <1>13 DEF Arranged

(* The new root changes no list. *)
LEMMA InsertRootArranged ==
  ASSUME Inv, NEW x, InsertRoot(x)
  PROVE  Arranged(x, N)
<1>1. /\ Typed /\ Shape /\ Visiting(x) /\ ArenaTyped /\ x = root(dst)
  BY DEF Inv, InsertRoot, Typed
<1>2. next_id = N /\ N \notin Ids
  BY <1>1, OneMore
<1>3. mid_arena' = inserted(N, x, N)
  BY <1>2 DEF InsertRoot, EndTurn
<1>4. \A u \in Ids : mid_arena'[u] = mid_arena[u]
  BY <1>2, <1>3 DEF inserted, Ids
<1> QED
  BY <1>1, <1>4 DEF Arranged

(* A node that is in place is in order, or its siblings are aligned. *)
LEMMA InPlaceArranged ==
  ASSUME Inv, Listing, NEW x, NEW w, InPlace(x, w)
  PROVE  Arranged(x, w)
<1>1. PICK acts : Turn(x, w, acts)
  BY InPlaceTurn
<1>2. /\ Mapped(x, w) /\ wanted_parent(x) = mid_parent(w) /\ mid_arena' = renamed(mid_arena, w, x)
  BY DEF InPlace, EndTurn
<1>3. /\ Visiting(x) /\ x \in nodes(dst) /\ w \in Ids /\ w = partner(x) /\ to_move = <<>>
  BY <1>2, MappedFacts DEF Visiting
<1>4. Typed /\ mid_arena \in Arenas(Ids, Contents) /\ has(cpy_mappings, w, x)
  BY <1>1, <1>3 DEF Inv, Typed, ArenaTyped, Turn
<1>5. \A u \in Ids : mid_arena'[u].kids = mid_arena[u].kids
  <2>1. compressed(dst, x) \in Contents
    BY <1>3 DEF Contents
  <2> HIDE DEF Ids, Contents
  <2> QED
    BY <1>2, <1>3, <1>4, <2>1, Renamed
<1>6. ASSUME x # root(dst), ~aligned(partner(parent(dst, x)))
      PROVE  LET z == partner(parent(dst, x)) IN
             \A c \in Siblings(x) : /\ c < x => Before(mid_arena'[z].kids, partner(c), w)
                                    /\ x < c => Before(mid_arena'[z].kids, w, partner(c))
  <2> DEFINE y == parent(dst, x)
             z == partner(y)
  <2>1. y \in visited /\ y \in nodes(dst) /\ z \in Ids
    BY <1>3, <1>4, <1>6, VisitFacts DEF Inv, Settled, AtPlace
  <2>2. AtPlace(x)
    BY <1>2, <1>3, <1>4, <2>1 DEF AtPlace
  <2>3. x \in children(dst, y)
    BY <1>3, <1>4, <1>6, ParentFacts, TreeFacts
  <2> HIDE DEF y
  <2>4. /\ Ordered(mid_arena[z].kids, children(dst, y) \cap dst_in_order)
        /\ x \in dst_in_order \/ partner(x) \in ToSet(to_move)
    BY <1>6, <2>1, <2>2, <2>3 DEF Listing, ListedAt, y
  <2>5. ToSet(to_move) = {}
    BY <1>3 DEF ToSet
  <2>6. x \in children(dst, y) \cap dst_in_order
        /\ \A c \in Siblings(x) : c \in children(dst, y) \cap dst_in_order
    BY <2>3, <2>4, <2>5 DEF Siblings, y
  <2>7. mid_arena'[z].kids = mid_arena[z].kids
    BY <1>5, <2>1
  <2> HIDE DEF z
  <2>8. \A c \in Siblings(x) : /\ c < x => Before(mid_arena'[z].kids, partner(c), w)
                               /\ x < c => Before(mid_arena'[z].kids, w, partner(c))
    BY <1>3, <2>4, <2>6, <2>7 DEF Ordered
  <2> QED
    BY <2>8 DEF z, y
<1> QED
  BY <1>5, <1>6 DEF Arranged

(* The lists after a move. *)
LEMMA MoveLists ==
  ASSUME Inv, NEW x, NEW w, Move(x, w)
  PROVE  LET z == partner(parent(dst, x))
             without == IF mid_parent(w) = NoNode THEN mid_arena ELSE remove_kid(mid_arena, w)
         IN  /\ x # root(dst) /\ z \in Ids /\ without \in Arenas(Ids, Contents)
             /\ \A u \in Ids : /\ without[u].parent = mid_arena[u].parent
                               /\ IsInjective(without[u].kids)
                               /\ ToSet(without[u].kids) = ToSet(mid_arena[u].kids) \ {w}
                               /\ mid_arena'[u].kids =
                                    IF u = z THEN InsertAt(without[z].kids, find_pos(without, x) + 1, w)
                                    ELSE without[u].kids
             /\ \A u \in Ids : \A a, b : a # w /\ b # w /\ Before(mid_arena[u].kids, a, b) =>
                  Before(without[u].kids, a, b)
             /\ find_pos(without, x) \in 0 .. Len(without[z].kids)
<1> DEFINE z == wanted_parent(x)
           without == IF mid_parent(w) = NoNode THEN mid_arena ELSE remove_kid(mid_arena, w)
           k == find_pos(without, x)
           r == renamed(without, w, x)
<1>1. /\ Mapped(x, w) /\ z # NoNode /\ mid_arena' = insert_kid(r, z, k, w)
  BY DEF Move, EndTurn
<1>2. /\ Visiting(x) /\ x \in nodes(dst) /\ w \in Ids /\ w = partner(x) /\ pc = "ins_mov_upd"
  BY <1>1, MappedFacts DEF Visiting
<1>3. /\ Typed /\ Shape /\ Settled /\ InOrder /\ mid_arena \in Arenas(Ids, Contents)
      /\ NoNode \notin Ids
  BY TreeFacts DEF Inv, Typed, ArenaTyped
<1>4. x # root(dst) /\ z = partner(parent(dst, x)) /\ z \in Ids
  <2>1. x # root(dst)
    BY <1>1 DEF wanted_parent
  <2>2. parent(dst, x) \in visited
    BY <1>2, <1>3, <2>1, VisitFacts
  <2>3. AtPlace(parent(dst, x)) /\ z = partner(parent(dst, x))
    BY <1>3, <2>1, <2>2 DEF Settled, wanted_parent, partner
  <2> QED
    BY <2>1, <2>3 DEF AtPlace
<1>5. Forest(mid_arena) /\ \A u \in Ids : PlacedIn(mid_arena, u)
  BY <1>2, <1>3 DEF Shape
<1>6. DOMAIN mid_arena = Ids /\ \A u \in Ids : mid_arena[u].kids \in Seq(Ids) /\ IsInjective(mid_arena[u].kids)
  <2>1. DOMAIN mid_arena = Ids
    BY DEF Ids
  <2> HIDE DEF Ids, Contents
  <2> QED
    BY <1>3, <1>5, <2>1, EntryFields DEF Forest
<1> HIDE DEF z
<1>7. /\ without \in Arenas(Ids, Contents)
      /\ \A u \in Ids : /\ without[u].parent = mid_arena[u].parent
                        /\ IsInjective(without[u].kids)
                        /\ ToSet(without[u].kids) = ToSet(mid_arena[u].kids) \ {w}
      /\ \A u \in Ids : \A a, b : a # w /\ b # w /\ Before(mid_arena[u].kids, a, b) =>
            Before(without[u].kids, a, b)
  <2>1. CASE mid_parent(w) = NoNode
    <3>1. mid_arena[w].parent = w
      <4>1. mid_arena[w].parent \in Ids
        <5> HIDE DEF Ids, Contents
        <5> QED
          BY <1>2, <1>3, EntryFields
      <4> QED
        BY <1>3, <2>1, <4>1 DEF mid_parent
    <3>2. without = mid_arena /\ \A u \in Ids : w \notin ToSet(mid_arena[u].kids)
      BY <1>5, <1>6, <2>1, <3>1 DEF Forest
    <3> HIDE DEF without
    <3> QED
      BY <1>3, <1>6, <3>2
  <2>2. CASE mid_parent(w) # NoNode
    <3>1. without = remove_kid(mid_arena, w)
      BY <2>2
    <3> HIDE DEF without
    <3>2. w \in ToSet(mid_arena[mid_arena[w].parent].kids)
      BY <1>2, <1>5, <2>2 DEF mid_parent, PlacedIn
    <3>3. remove_kid(mid_arena, w) \in Arenas(Ids, Contents) /\ Cut(mid_arena, remove_kid(mid_arena, w), w)
      BY <1>2, <1>3, <1>5, <3>2, CutOut
    <3>4. \A u \in Ids : without[u].kids =
            IF u = mid_arena[w].parent THEN Without(mid_arena[u].kids, w) ELSE mid_arena[u].kids
      <4> HIDE DEF Ids, Contents
      <4> QED
        BY <1>2, <1>3, <1>5, <3>1, <3>2, RemoveKid
    <3>5. ASSUME NEW u \in Ids, NEW a, NEW b, a # w, b # w, Before(mid_arena[u].kids, a, b)
          PROVE  Before(without[u].kids, a, b)
      <4>1. CASE u = mid_arena[w].parent
        <5>1. mid_arena[u].kids \in Seq(Ids) /\ IsInjective(mid_arena[u].kids) /\ w \in ToSet(mid_arena[u].kids)
          BY <1>6, <3>2, <4>1
        <5> HIDE DEF Ids
        <5>2. Before(Without(mid_arena[u].kids, w), a, b)
          BY <3>5, <5>1, WithoutBefore
        <5> QED
          BY <3>4, <4>1, <5>2
      <4>2. CASE u # mid_arena[w].parent
        BY <3>4, <3>5, <4>2
      <4> QED
        BY <4>1, <4>2
    <3> QED
      BY <1>6, <3>1, <3>3, <3>5 DEF Cut
  <2> QED
    BY <2>1, <2>2
<1> HIDE DEF without
<1>8. k \in 0 .. Len(without[z].kids)
  BY <1>2, <1>3, <1>4, <1>7, FindPos
<1> HIDE DEF k
<1>9. /\ r \in Arenas(Ids, Contents) /\ \A u \in Ids : r[u].kids = without[u].kids
  <2>1. compressed(dst, x) \in Contents
    BY <1>2 DEF Contents
  <2> HIDE DEF Ids, Contents
  <2> QED
    BY <1>2, <1>7, <2>1, Renamed
<1> HIDE DEF r
<1>10. k \in 0 .. Len(r[z].kids)
  BY <1>4, <1>8, <1>9
<1>11. \A u \in Ids : mid_arena'[u].kids =
          IF u = z THEN InsertAt(without[z].kids, k + 1, w) ELSE without[u].kids
  <2>1. \A u \in Ids : mid_arena'[u].kids =
          IF u = z THEN InsertAt(r[z].kids, k + 1, w) ELSE r[u].kids
    <3> HIDE DEF Ids, Contents
    <3> QED
      BY <1>1, <1>2, <1>4, <1>9, <1>10, InsertKid
  <2> QED
    BY <1>4, <1>9, <2>1
<1> QED
  BY <1>4, <1>7, <1>8, <1>11 DEF k, without

(* A moved node is arranged. *)
LEMMA MoveArranged ==
  ASSUME Inv, Listing, NEW x, NEW w, Move(x, w)
  PROVE  Arranged(x, w)
<1> DEFINE z == partner(parent(dst, x))
           without == IF mid_parent(w) = NoNode THEN mid_arena ELSE remove_kid(mid_arena, w)
           k == find_pos(without, x)
<1>1. PICK acts : Turn(x, w, acts)
  BY MoveTurn
<1>2. Mapped(x, w)
  BY DEF Move
<1>3. Visiting(x) /\ x \in nodes(dst) /\ w \in Ids /\ has(cpy_mappings, w, x)
  BY <1>1, <1>2, MappedFacts DEF Turn
<1>4. /\ x # root(dst) /\ z \in Ids /\ without \in Arenas(Ids, Contents)
      /\ \A u \in Ids : /\ without[u].parent = mid_arena[u].parent
                        /\ IsInjective(without[u].kids)
                        /\ ToSet(without[u].kids) = ToSet(mid_arena[u].kids) \ {w}
                        /\ mid_arena'[u].kids =
                             IF u = z THEN InsertAt(without[z].kids, k + 1, w) ELSE without[u].kids
      /\ \A u \in Ids : \A a, b : a # w /\ b # w /\ Before(mid_arena[u].kids, a, b) =>
           Before(without[u].kids, a, b)
      /\ k \in 0 .. Len(without[z].kids)
  BY MoveLists
<1> HIDE DEF without
<1>5. ASSUME NEW u \in Ids, NEW a, NEW b, a # w, b # w, Before(mid_arena[u].kids, a, b)
      PROVE  Before(mid_arena'[u].kids, a, b)
  <2>1. Before(without[u].kids, a, b)
    BY <1>4, <1>5
  <2>2. CASE u = z
    <3>1. without[z].kids \in Seq(Ids)
      <4> HIDE DEF Ids, Contents, z
      <4> QED
        BY <1>4, EntryFields
    <3> HIDE DEF k, Ids
    <3>2. Before(InsertAt(without[z].kids, k + 1, w), a, b)
      BY <1>3, <1>4, <2>1, <2>2, <3>1, InsertBefore
    <3> QED
      BY <1>4, <2>2, <3>2
  <2>3. CASE u # z
    BY <1>4, <2>1, <2>3
  <2> QED
    BY <2>2, <2>3
<1>6. ASSUME ~aligned(z)
      PROVE  \A c \in Siblings(x) : /\ c < x => Before(mid_arena'[z].kids, partner(c), w)
                                    /\ x < c => Before(mid_arena'[z].kids, w, partner(c))
  <2>1. ASSUME NEW c \in Siblings(x) PROVE partner(c) # w
    <3>1. has(cpy_mappings, partner(c), c) /\ c # x /\ c \in nodes(dst)
      BY <1>3, <1>4, SiblingFacts
    <3>2. c \in Int /\ x \in Int
      BY <1>3, <3>1, NodeTypes, TreeFacts DEF Inv
    <3> QED
      BY <1>3, <3>1, <3>2 DEF has
  <2>2. mid_arena'[z].kids = InsertAt(without[z].kids, find_pos(without, x) + 1, w)
    BY <1>4
  <2>3. LET r == InsertAt(without[z].kids, find_pos(without, x) + 1, w) IN
         \A c \in Siblings(x) : /\ c < x => Before(r, partner(c), w)
                                /\ x < c => Before(r, w, partner(c))
    <3>1. \A a, b : a # w /\ b # w /\ Before(mid_arena[z].kids, a, b) => Before(without[z].kids, a, b)
      BY <1>4
    <3> HIDE DEF Ids, Contents
    <3> QED
      BY <1>3, <1>4, <1>6, <2>1, <3>1, PlacedAmong
  <2> QED
    BY <2>2, <2>3
<1> QED
  BY <1>4, <1>5, <1>6 DEF Arranged

(* A node whose children were aligned stays so. *)
LEMMA AlignedKept ==
  ASSUME NEW S, actions \in Seq(S), NEW T, NEW acts \in Seq(T), actions' = actions \o acts,
         \A i \in Moves : mid_arena'[actions[i].node].parent = mid_arena[actions[i].node].parent,
         NEW u, aligned(u)
  PROVE  aligned(u)'
<1> DEFINE R == S \cup T
           n == Len(actions)
<1>1. actions \in Seq(R) /\ acts \in Seq(R)
  OBVIOUS
<1> HIDE DEF R
<1>2. /\ DOMAIN actions' = 1 .. n + Len(acts) /\ n \in Nat /\ Len(acts) \in Nat
      /\ \A i \in 1 .. n + Len(acts) : actions'[i] = IF i <= n THEN actions[i] ELSE acts[i - n]
      /\ DOMAIN actions = 1 .. n
  BY <1>1, Joined, LenProperties
<1> HIDE DEF n
<1>3. PICK i \in DOMAIN actions : actions[i].by = "align" /\ mid_arena[actions[i].node].parent = u
  BY DEF aligned
<1>4. i \in DOMAIN actions' /\ actions'[i] = actions[i]
  BY <1>2, <1>3
<1>5. i \in Moves
  BY <1>3 DEF Moves
<1>6. actions'[i].by = "align" /\ mid_arena'[actions'[i].node].parent = u
  BY <1>3, <1>4, <1>5
<1> QED
  BY <1>4, <1>6 DEF aligned

(* A turn keeps what was aligned. *)
LEMMA TurnKeepsAligned ==
  ASSUME Inv, NEW x, NEW w, NEW acts, Turn(x, w, acts), NEW u, aligned(u)
  PROVE  aligned(u)'
<1>1. /\ Typed /\ Settled /\ MovedToPlace /\ Visiting(x) /\ actions' = actions \o acts
      /\ (\E S : actions \in Seq(S)) /\ (\E T : acts \in Seq(T))
  BY DEF Inv, Turn
<1>2. ASSUME NEW i \in Moves
      PROVE  mid_arena'[actions[i].node].parent = mid_arena[actions[i].node].parent
  <2>1. PICK d \in nodes(dst) \ {root(dst)} : actions[i].node = partner(d) /\ AtPlace(d)
    BY <1>1 DEF MovedToPlace
  <2> DEFINE p == partner(d)
  <2>2. /\ p \in Ids /\ has(cpy_mappings, p, d) /\ mid_parent(p) = wanted_parent(d)
        /\ parent(dst, d) \in visited
    BY <2>1 DEF AtPlace
  <2>3. wanted_parent(d) = partner(parent(dst, d)) /\ partner(parent(dst, d)) \in Ids
    BY <1>1, <2>1, <2>2 DEF wanted_parent, Settled, AtPlace, partner
  <2>4. mid_arena[p].parent = partner(parent(dst, d))
    BY <1>1, <2>2, <2>3, TreeFacts DEF mid_parent
  <2>5. CASE p # w
    <3>1. mid_arena'[p].parent = mid_arena[p].parent
      BY <2>2, <2>5 DEF Turn
    <3> QED
      BY <2>1, <3>1
  <2>6. CASE p = w
    <3>1. d = x
      BY <2>2, <2>6, TurnPlaces
    <3>2. mid_arena'[w].parent = partner(parent(dst, x))
      BY <2>1, <3>1 DEF Turn
    <3> QED
      BY <2>1, <2>4, <2>6, <3>1, <3>2
  <2> QED
    BY <2>5, <2>6
<1>3. PICK S : actions \in Seq(S)
  BY <1>1
<1>4. PICK T : acts \in Seq(T)
  BY <1>1
<1> QED
  BY <1>1, <1>2, <1>3, <1>4, AlignedKept

(* The same of the state after a step. *)
LEMMA ListedThen ==
  ASSUME dst' = dst, NEW y, NEW u, partner(y)' = u,
         \/ aligned(u)'
         \/ /\ \A c, d \in children(dst, y) \cap dst_in_order' :
                 c < d => Before(mid_arena'[u].kids, partner(c)', partner(d)')
            /\ \A c \in children(dst, y) :
                 AtPlace(c)' => c \in dst_in_order' \/ partner(c)' \in ToSet(to_move')
  PROVE  ListedAt(y)'
BY DEF ListedAt, aligned, Ordered, Before

(* EndTurnOrder of the state after a turn. *)
LEMMA TurnOrder ==
  ASSUME Typed, NEW x, NEW w, NEW acts, Turn(x, w, acts)
  PROVE  /\ x \in dst_in_order' /\ dst_in_order' \subseteq dst_in_order \cup {x} \cup children(dst, x)
         /\ dst_in_order \ children(dst, x) \subseteq dst_in_order'
         /\ \A c, d \in children(dst, x) \cap dst_in_order' : c < d =>
              \E a, b \in ToSet(mid_arena'[w].kids) :
                 /\ has(cpy_mappings', a, c) /\ has(cpy_mappings', b, d)
                 /\ Before(mid_arena'[w].kids, a, b)
         /\ \A c \in children(dst, x), a \in ToSet(mid_arena'[w].kids) :
              has(cpy_mappings', a, c) /\ has(ori_mappings, a, c) =>
                c \in dst_in_order' \/ a \in ToSet(to_move')
<1> DEFINE I == Ids'
           arena == mid_arena'
           ms == cpy_mappings'
           C == Contents'
<1>1. Visiting(x) /\ EndTurn(arena, ms, w, x)
  BY DEF Turn
<1>2. w \in I /\ I \subseteq Nat
  BY TurnFacts
<1>3. arena \in Arenas(I, C)
  BY DEF Turn, ArenaTyped
<1>4. IsInjective(arena[w].kids)
  <2>1. Forest(mid_arena') /\ w \in DOMAIN mid_arena'
    BY <1>2 DEF Turn, Ids
  <2> QED
    BY <2>1 DEF Forest
<1> HIDE DEF I, C, arena, ms
<1>5. /\ x \in dst_in_order' /\ dst_in_order' \subseteq dst_in_order \cup {x} \cup children(dst, x)
      /\ dst_in_order \ children(dst, x) \subseteq dst_in_order'
      /\ \A c, d \in children(dst, x) \cap dst_in_order' : c < d =>
           \E a, b \in ToSet(arena[w].kids) :
              has(ms, a, c) /\ has(ms, b, d) /\ Before(arena[w].kids, a, b)
      /\ \A c \in children(dst, x), a \in ToSet(arena[w].kids) :
           has(ms, a, c) /\ has(ori_mappings, a, c) =>
             c \in dst_in_order' \/ a \in ToSet(to_move')
  BY <1>1, <1>2, <1>3, <1>4, EndTurnOrder, Zenon
<1> QED
  BY <1>5, Zenon DEF arena, ms

(* Only x and its children may come to their place in a turn. *)
LEMMA TurnPast ==
  ASSUME Inv, NEW x, NEW w, NEW acts, Turn(x, w, acts),
         NEW c \in nodes(dst), c # x, c # root(dst), parent(dst, c) # x, parent(dst, c) \in visited
  PROVE  /\ partner(c)' = partner(c)
         /\ AtPlace(c)' => AtPlace(c)
<1>1. Typed /\ Visiting(x) /\ x \in nodes(dst)
  BY VisitFacts DEF Inv, Turn
<1>2. dst' = dst /\ Ids' \subseteq Nat /\ Ids' = Ids \cup {w} /\ w \in Ids'
  <2>1. Ids' = Ids \cup {w}
    BY DEF Turn
  <2>2. dst' = dst /\ Ids' \subseteq Nat /\ w \in Ids'
    BY <1>1, TurnFacts
  <2> QED
    BY <2>1, <2>2
<1>3. /\ cpy_mappings'.dst_to_src[c] = cpy_mappings.dst_to_src[c]
      /\ cpy_mappings'.dst_to_src[parent(dst, c)] = cpy_mappings.dst_to_src[parent(dst, c)]
  BY <1>1 DEF Turn, visited
<1>4. partner(c)' = partner(c)
  BY <1>3 DEF partner, get_src_unchecked
<1>5. wanted_parent(c)' = wanted_parent(c)
  BY <1>2, <1>3 DEF wanted_parent, get_src_unchecked
<1> DEFINE p == partner(c)
<1>6. ASSUME AtPlace(c)' PROVE AtPlace(c)
  <2>1. /\ p \in Ids' /\ has(cpy_mappings', p, c)
        /\ (IF mid_arena'[p].parent = p THEN NoNode ELSE mid_arena'[p].parent) = wanted_parent(c)
    <3>1. partner(c)' \in Ids' /\ has(cpy_mappings', partner(c)', c)
          /\ mid_parent(partner(c))' = wanted_parent(c)'
      BY <1>2, <1>6 DEF AtPlace
    <3> QED
      BY <1>4, <1>5, <3>1 DEF mid_parent
  <2>2. p # w
    <3>1. has(cpy_mappings', w, x)
      BY DEF Turn
    <3>2. c \in Int /\ x \in Int
      BY <1>1, NodeTypes, TreeFacts
    <3> QED
      BY <2>1, <3>1, <3>2 DEF has
  <2>3. /\ p \in Ids /\ mid_arena'[p].parent = mid_arena[p].parent
        /\ cpy_mappings'.src_to_dst[p] = cpy_mappings.src_to_dst[p]
    BY <1>2, <2>1, <2>2 DEF Turn
  <2>4. has(cpy_mappings, p, c) /\ mid_parent(p) = wanted_parent(c)
    BY <1>3, <2>1, <2>3 DEF has, mid_parent
  <2> QED
    BY <2>3, <2>4 DEF AtPlace
<1> QED
  BY <1>4, <1>6

(* The partner of a child at its place is among the children. *)
LEMMA PlacedChild ==
  ASSUME Typed, Shape, NEW c \in nodes(dst), c # root(dst), AtPlace(c),
         partner(parent(dst, c)) \in Ids
  PROVE  partner(c) \in ToSet(mid_arena[partner(parent(dst, c))].kids)
<1> DEFINE a == partner(c)
           u == partner(parent(dst, c))
<1>1. a \in Ids /\ has(cpy_mappings, a, c) /\ mid_parent(a) = u
  BY DEF AtPlace, wanted_parent, partner
<1>2. NoNode \notin Ids /\ c \in Int
  BY NodeTypes, TreeFacts
<1>3. mid_arena[a].parent = u /\ a # u
  BY <1>1, <1>2 DEF mid_parent
<1>4. is_src(cpy_mappings, a)
  <2>1. c \in Nat
    BY NodeTypes, TreeFacts
  <2> QED
    BY <1>1, <2>1 DEF is_src, has
<1>5. PlacedIn(mid_arena, a)
  BY <1>1, <1>4 DEF Shape
<1> QED
  BY <1>3, <1>5 DEF PlacedIn

(***************************************************************************)
(* The order after a turn.  The children of x are listed by its end, those *)
(* of the parent of x were, and x has its place among them, and those of   *)
(* other nodes have not changed.                                           *)
(***************************************************************************)
LEMMA TurnListsOther ==
  ASSUME Inv, Listing, NEW x, NEW w, NEW acts, Turn(x, w, acts), Arranged(x, w),
         NEW y \in visited
  PROVE  ListedAt(y)'
<1>0. PICK u : u = partner(y)
  OBVIOUS
<1>1. /\ Typed /\ Settled /\ InOrder /\ Visiting(x) /\ x \in nodes(dst) /\ x \notin visited
      /\ to_move = <<>>
  BY VisitFacts DEF Inv, Turn
<1>2. dst' = dst /\ IsTree(dst) /\ \A c \in nodes(dst) : c \in Int
  BY <1>1, TurnFacts, TreeFacts, NodeTypes
<1>3. AtPlace(y) /\ y \in nodes(dst) /\ y # x
  BY <1>1 DEF Settled, visited
<1>4. u \in Ids /\ has(cpy_mappings, u, y)
  BY <1>0, <1>3 DEF AtPlace
<1>5. partner(y)' = u
  BY <1>0, <1>3 DEF partner, get_src_unchecked, Turn
<1>6. \A c \in children(dst, y) : c \in nodes(dst) /\ parent(dst, c) = y /\ c # root(dst)
  <2> SUFFICES ASSUME NEW c \in children(dst, y)
               PROVE  c \in nodes(dst) /\ parent(dst, c) = y /\ c # root(dst)
    OBVIOUS
  <2>1. c \in nodes(dst) /\ c < y
    BY <1>2, <1>3, ChildSubtree
  <2>2. y <= root(dst) /\ root(dst) \in Int
    BY <1>1, <1>2, <1>3, NodeTypes, TreeFacts
  <2>3. parent(dst, c) = y
    BY DEF children, parent
  <2> QED
    BY <1>2, <1>3, <2>1, <2>2, <2>3
<1>7. \A c \in children(dst, y) : c # x => partner(c)' = partner(c) /\ (AtPlace(c)' => AtPlace(c))
  BY <1>3, <1>6, TurnPast
<1>8. ListedAt(y)
  BY DEF Listing
<1>9. /\ x \in dst_in_order' /\ dst_in_order' \subseteq dst_in_order \cup {x} \cup children(dst, x)
      /\ dst_in_order \ children(dst, x) \subseteq dst_in_order'
  BY <1>1, TurnOrder
<1>10. \A c \in children(dst, y) : c \notin children(dst, x)
  <2> SUFFICES ASSUME NEW c \in children(dst, y), c \in children(dst, x) PROVE FALSE
    OBVIOUS
  <2>1. parent(dst, c) = x
    BY DEF children, parent
  <2> QED
    BY <1>3, <1>6, <2>1
<1>11. CASE aligned(u)
  <2>1. aligned(u)'
    BY <1>11, TurnKeepsAligned
  <2> QED
    BY <1>2, <1>5, <2>1, ListedThen
<1>12. CASE ~aligned(u)
  <2>1. /\ Ordered(mid_arena[u].kids, children(dst, y) \cap dst_in_order)
        /\ \A c \in children(dst, y) :
             AtPlace(c) => c \in dst_in_order \/ partner(c) \in ToSet(to_move)
    BY <1>0, <1>8, <1>12 DEF ListedAt
  <2>2. ASSUME NEW c \in children(dst, y), c # x, c \in dst_in_order
        PROVE  partner(c) # w
    <3>1. AtPlace(c) /\ c \in nodes(dst)
      BY <1>1, <1>6, <2>2 DEF InOrder
    <3>2. partner(c) \in Ids /\ has(cpy_mappings, partner(c), c)
      BY <3>1 DEF AtPlace
    <3> QED
      BY <2>2, <3>1, <3>2, TurnPlaces
  <2>3. ASSUME NEW c \in children(dst, y) \cap dst_in_order',
               NEW d \in children(dst, y) \cap dst_in_order', c < d
        PROVE  Before(mid_arena'[u].kids, partner(c)', partner(d)')
    <3>1. /\ c # x => c \in dst_in_order /\ partner(c)' = partner(c)
          /\ d # x => d \in dst_in_order /\ partner(d)' = partner(d)
      BY <1>7, <1>9, <1>10
    <3>2. CASE c # x /\ d # x
      <4>1. Before(mid_arena[u].kids, partner(c), partner(d))
        BY <2>1, <2>3, <3>1, <3>2 DEF Ordered
      <4>2. partner(c) # w /\ partner(d) # w
        BY <2>2, <3>1, <3>2
      <4>3. Before(mid_arena'[u].kids, partner(c), partner(d))
        BY <1>4, <4>1, <4>2 DEF Arranged
      <4> QED
        BY <3>1, <3>2, <4>3
    <3>3. CASE c = x \/ d = x
      <4>1. x \in children(dst, y) /\ parent(dst, x) = y /\ x # root(dst) /\ c # d
        BY <1>2, <1>6, <2>3, <3>3
      <4>2. partner(x)' = w
        <5>1. has(cpy_mappings', w, x) /\ w \in Nat
          <6>1. has(cpy_mappings', w, x)
            BY DEF Turn
          <6>2. w \in Nat
            BY <1>1, TurnFacts
          <6> QED
            BY <6>1, <6>2
        <5> QED
          BY <5>1 DEF has, partner, get_src_unchecked
      <4>3. \A e \in Siblings(x) : /\ e < x => Before(mid_arena'[u].kids, partner(e), w)
                                   /\ x < e => Before(mid_arena'[u].kids, w, partner(e))
        BY <1>0, <1>12, <4>1 DEF Arranged
      <4>4. \A e \in children(dst, y) \cap dst_in_order : e # x => e \in Siblings(x)
        BY <4>1 DEF Siblings
      <4>5. CASE c = x
        <5>1. d \in Siblings(x) /\ x < d
          BY <2>3, <3>1, <4>1, <4>4, <4>5
        <5> QED
          BY <3>1, <4>1, <4>2, <4>3, <4>5, <5>1
      <4>6. CASE d = x
        <5>1. c \in Siblings(x) /\ c < x
          BY <2>3, <3>1, <4>1, <4>4, <4>6
        <5> QED
          BY <3>1, <4>1, <4>2, <4>3, <4>6, <5>1
      <4> QED
        BY <3>3, <4>5, <4>6
    <3> QED
      BY <3>2, <3>3
  <2>4. ASSUME NEW c \in children(dst, y), AtPlace(c)'
        PROVE  c \in dst_in_order'
    <3>1. CASE c = x
      BY <1>9, <3>1
    <3>2. CASE c # x
      <4>1. AtPlace(c)
        BY <1>7, <2>4, <3>2
      <4>2. ToSet(to_move) = {}
        BY <1>1 DEF ToSet
      <4>3. c \in dst_in_order
        BY <2>1, <4>1, <4>2
      <4> QED
        BY <1>9, <1>10, <4>3
    <3> QED
      BY <3>1, <3>2
  <2> QED
    BY <1>2, <1>5, <2>3, <2>4, ListedThen
<1> QED
  BY <1>11, <1>12

(* The children of the node whose turn it is are listed from then on. *)
LEMMA TurnListsVisited ==
  ASSUME Inv, NEW x, NEW w, NEW acts, Turn(x, w, acts)
  PROVE  ListedAt(x)'
<1>1. Typed /\ Visiting(x) /\ x \in nodes(dst)
  BY VisitFacts DEF Inv, Turn
<1>2. /\ dst' = dst /\ src' = src /\ ori_mappings' = ori_mappings /\ w \in Ids' /\ Ids' \subseteq Nat
      /\ visited' = visited \cup {x} /\ ToSet(unvisited') = ToSet(unvisited) \ {x}
  BY <1>1, TurnFacts
<1>3. Inv'
  BY TurnKeepsInv
<1>4. /\ \A c \in children(dst, x) : c \in nodes(dst) /\ c # x /\ c # root(dst) /\ parent(dst, c) = x
      /\ \A c \in nodes(dst) : c \in Nat
  BY <1>1, VisitFacts, NodeTypes, TreeFacts
<1>5. partner(x)' = w
  <2>1. has(cpy_mappings', w, x) /\ w \in Nat
    BY <1>2 DEF Turn
  <2> QED
    BY <2>1 DEF has, partner, get_src_unchecked
<1>6. /\ \A c, d \in children(dst, x) \cap dst_in_order' : c < d =>
           \E a, b \in ToSet(mid_arena'[w].kids) :
              /\ has(cpy_mappings', a, c) /\ has(cpy_mappings', b, d)
              /\ Before(mid_arena'[w].kids, a, b)
      /\ \A c \in children(dst, x), a \in ToSet(mid_arena'[w].kids) :
           has(cpy_mappings', a, c) /\ has(ori_mappings, a, c) =>
             c \in dst_in_order' \/ a \in ToSet(to_move')
  BY <1>1, TurnOrder, Zenon
<1>7. ASSUME NEW c \in children(dst, x) \cap dst_in_order',
             NEW d \in children(dst, x) \cap dst_in_order', c < d
      PROVE  Before(mid_arena'[w].kids, partner(c)', partner(d)')
  <2>1. PICK a \in ToSet(mid_arena'[w].kids), b \in ToSet(mid_arena'[w].kids) :
           /\ has(cpy_mappings', a, c) /\ has(cpy_mappings', b, d)
           /\ Before(mid_arena'[w].kids, a, b)
    BY <1>6, <1>7
  <2>2. partner(c)' = a /\ partner(d)' = b
    BY <2>1, TurnPlaces
  <2> QED
    BY <2>1, <2>2
<1>8. ASSUME NEW c \in children(dst, x), AtPlace(c)'
      PROVE  c \in dst_in_order' \/ partner(c)' \in ToSet(to_move')
  <2> DEFINE a == partner(c)'
  <2>1. a \in Ids' /\ has(cpy_mappings', a, c) /\ mid_parent(partner(c))' = wanted_parent(c)'
    BY <1>2, <1>8 DEF AtPlace
  <2>2. wanted_parent(c)' = w
    BY <1>2, <1>4, <1>5 DEF wanted_parent, partner
  <2>3. NoNode \notin Ids'
    BY <1>2 DEF NoNode
  <2>4. mid_arena'[a].parent = w /\ a # w
    BY <1>2, <2>1, <2>2, <2>3 DEF mid_parent
  <2>5. PlacedIn(mid_arena', a)
    BY <2>1 DEF Turn
  <2>6. a \in ToSet(mid_arena'[w].kids)
    BY <2>4, <2>5 DEF PlacedIn
  <2>7. c \in ToSet(unvisited') /\ c \notin visited'
    <3>1. c \notin visited
      <4>1. x \notin visited
        BY <1>1, VisitFacts
      <4>2. \A e \in visited : e # root(dst) => parent(dst, e) \in visited
        BY DEF Inv, Settled, AtPlace
      <4> QED
        BY <1>4, <4>1, <4>2
    <3> QED
      BY <1>2, <1>4, <3>1 DEF visited
  <2>8. /\ ori_mappings.dst_to_src[c] = a + 1
        /\ a \in nodes(src) => cpy_mappings'.src_to_dst[a] = ori_mappings.src_to_dst[a]
        /\ a \in Ids' \ nodes(src) => \E d \in visited' : has(cpy_mappings', a, d)
    <3>1. Extends'
      BY <1>3 DEF Inv
    <3>2. /\ cpy_mappings'.dst_to_src[c] = ori_mappings.dst_to_src[c]
          /\ a \in nodes(src) => cpy_mappings'.src_to_dst[a] = ori_mappings.src_to_dst[a]
          /\ a \in Ids' \ nodes(src) => \E d \in visited' : has(cpy_mappings', a, d)
      BY <1>2, <1>4, <2>7, <3>1 DEF Extends
    <3> QED
      BY <2>1, <3>2 DEF has
  <2> HIDE DEF a
  <2>9. a \in nodes(src)
    <3> SUFFICES ASSUME NEW d \in visited', has(cpy_mappings', a, d) PROVE FALSE
      BY <2>1, <2>8
    <3>1. d \in nodes(dst)
      BY <1>1, <1>2 DEF visited
    <3>2. c \in Nat /\ d \in Nat /\ c + 1 = d + 1
      BY <1>4, <2>1, <3>1 DEF has
    <3> QED
      BY <2>7, <3>2
  <2>10. has(ori_mappings, a, c)
    BY <2>1, <2>8, <2>9 DEF has
  <2> QED
    BY <1>6, <2>1, <2>6, <2>10 DEF a
<1> QED
  BY <1>2, <1>5, <1>7, <1>8, ListedThen

(* A turn keeps the order, if it puts the node where it is arranged. *)
LEMMA TurnListing ==
  ASSUME Inv, Listing, NEW x, NEW w, NEW acts, Turn(x, w, acts), Arranged(x, w)
  PROVE  Listing'
<1>1. Typed /\ Visiting(x) /\ x \in nodes(dst) /\ x \notin visited
  BY VisitFacts DEF Inv, Turn
<1>2. visited' = visited \cup {x} /\ x \in dst_in_order'
      /\ dst_in_order \ children(dst, x) \subseteq dst_in_order'
  BY <1>1, TurnFacts, TurnOrder
<1>3. ASSUME NEW y \in visited PROVE y \notin children(dst, x)
  <2> SUFFICES ASSUME y \in children(dst, x) PROVE FALSE
    OBVIOUS
  <2>1. y # root(dst) /\ parent(dst, y) = x
    BY <1>1, VisitFacts
  <2>2. parent(dst, y) \in visited
    BY <2>1 DEF Inv, Settled, AtPlace
  <2> QED
    BY <1>1, <2>1, <2>2
<1>4. visited' \subseteq dst_in_order'
  BY <1>2, <1>3 DEF Listing
<1>5. \A y \in visited' : ListedAt(y)'
  BY <1>2, TurnListsOther, TurnListsVisited
<1> QED
  BY <1>4, <1>5 DEF Listing

(* A child moved among its siblings: they are aligned from then on. *)
LEMMA AlignListing ==
  ASSUME Inv, Listing, AlignMove
  PROVE  Listing'
<1> DEFINE c == Head(to_move)
           w == mid_arena[c].parent
           d == get_dst_unchecked(ori_mappings, c)
           act == [by |-> "align", node |-> c, from |-> path(mid_arena, c), to |-> path(mid_arena, w)]
<1>1. actions' = actions \o <<act>> /\ dst_in_order' = dst_in_order \cup {d}
  BY DEF AlignMove, emit
<1>2. /\ \A u \in Ids : mid_arena'[u].parent = mid_arena[u].parent
      /\ d \in nodes(dst) /\ d # root(dst) /\ AtPlace(d) /\ partner(d) = c
      /\ w = partner(parent(dst, d)) /\ w \in Ids /\ parent(dst, d) \in visited
      /\ ToSet(to_move') = ToSet(to_move) \ {c} /\ Relisted(mid_arena')
      /\ \A u \in Ids \ {w} : mid_arena'[u].kids = mid_arena[u].kids
  BY AlignKeepsInv
<1>3. /\ Typed /\ Settled /\ MovedToPlace /\ \E S : actions \in Seq(S)
  BY DEF Inv
<1>4. c \in Ids /\ has(cpy_mappings, c, d)
  BY <1>2 DEF AtPlace
<1> HIDE DEF c, d
<1>5. dst' = dst /\ visited' = visited
      /\ \A e \in nodes(dst) : partner(e)' = partner(e) /\ (AtPlace(e)' <=> AtPlace(e))
  BY <1>2, <1>3, RelistedFacts DEF Relisted
<1>6. PICK S : actions \in Seq(S)
  BY <1>3
<1> DEFINE acts == <<act>>
<1>7. acts \in Seq({act}) /\ Len(acts) = 1 /\ acts[1] = act /\ act.by = "align" /\ act.node = c
  OBVIOUS
<1>8. actions' = actions \o acts
  BY <1>1
<1>9. PICK v : v = w
  OBVIOUS
<1> HIDE DEF act, acts
<1>10. \A u : aligned(u) => aligned(u)'
  <2>1. \A i \in Moves : mid_arena'[actions[i].node].parent = mid_arena[actions[i].node].parent
    <3> SUFFICES ASSUME NEW i \in Moves PROVE actions[i].node \in Ids
      BY <1>2
    <3> QED
      BY <1>3 DEF MovedToPlace, AtPlace
  <2> QED
    BY <1>6, <1>7, <1>8, <2>1, AlignedKept
<1>11. aligned(v)'
  <2> DEFINE R == S \cup {act}
             n == Len(actions)
  <2>1. actions \in Seq(R) /\ acts \in Seq(R)
    BY <1>6, <1>7
  <2> HIDE DEF R
  <2>2. /\ DOMAIN actions' = 1 .. n + 1 /\ n \in Nat
        /\ \A i \in 1 .. n + 1 : actions'[i] = IF i <= n THEN actions[i] ELSE acts[i - n]
    BY <1>7, <1>8, <2>1, Joined
  <2> HIDE DEF n
  <2>3. n + 1 \in 1 .. n + 1 /\ ~(n + 1 <= n) /\ (n + 1) - n = 1
    BY <2>2
  <2>4. n + 1 \in DOMAIN actions' /\ actions'[n + 1] = act
    BY <1>7, <2>2, <2>3
  <2>5. mid_arena'[c].parent = v
    BY <1>2, <1>4, <1>9
  <2> QED
    BY <1>7, <2>4, <2>5 DEF aligned
<1>12. ASSUME NEW y \in visited PROVE ListedAt(y)'
  <2>1. PICK u : u = partner(y)
    OBVIOUS
  <2>2. y \in nodes(dst) /\ u \in Ids /\ has(cpy_mappings, u, y)
    BY <1>3, <2>1 DEF Settled, AtPlace, visited
  <2>3. partner(y)' = u
    BY <1>5, <2>1, <2>2
  <2>4. CASE u = w
    BY <1>5, <1>9, <1>11, <2>3, <2>4, ListedThen
  <2>5. CASE aligned(u)
    BY <1>5, <1>10, <2>3, <2>5, ListedThen
  <2>6. CASE u # w /\ ~aligned(u)
    <3>1. /\ Ordered(mid_arena[u].kids, children(dst, y) \cap dst_in_order)
          /\ \A e \in children(dst, y) :
               AtPlace(e) => e \in dst_in_order \/ partner(e) \in ToSet(to_move)
      BY <2>1, <2>6 DEF Listing, ListedAt
    <3>2. mid_arena'[u].kids = mid_arena[u].kids
      BY <1>2, <2>2, <2>6
    <3>3. \A e \in children(dst, y) : e \in nodes(dst) /\ parent(dst, e) = y
      BY <1>3, <2>2, TreeFacts, ChildSubtree DEF children, parent
    <3>4. d \notin children(dst, y)
      BY <1>2, <2>1, <2>6, <3>3
    <3>5. \A e, g \in children(dst, y) \cap dst_in_order' :
            e < g => Before(mid_arena'[u].kids, partner(e)', partner(g)')
      BY <1>1, <1>5, <3>1, <3>2, <3>3, <3>4 DEF Ordered, d
    <3>6. ASSUME NEW e \in children(dst, y), AtPlace(e)'
          PROVE  e \in dst_in_order' \/ partner(e)' \in ToSet(to_move')
      <4>1. AtPlace(e) /\ partner(e)' = partner(e) /\ e \in nodes(dst)
        BY <1>5, <3>3, <3>6
      <4>2. partner(e) # c
        <5>1. has(cpy_mappings, partner(e), e) /\ e # d
          BY <3>4, <4>1 DEF AtPlace
        <5>2. e \in Int /\ d \in Int
          BY <1>2, <1>3, <4>1, NodeTypes, TreeFacts
        <5> QED
          BY <1>4, <5>1, <5>2 DEF has
      <4> QED
        BY <1>1, <1>2, <3>1, <4>1, <4>2
    <3> QED
      BY <1>5, <2>3, <3>5, <3>6, ListedThen
  <2> QED
    BY <2>4, <2>5, <2>6
<1> QED
  BY <1>1, <1>5, <1>12 DEF Listing

(* What is taken out by del is the partner of no node. *)
LEMMA DeleteListing ==
  ASSUME Inv, Listing, Delete
  PROVE  Listing'
<1> DEFINE n == Len(stack)
           w == stack[n].id
           p == stack[n - 1].id
           q == mid_arena[p].kids
           b == remove_kid(mid_arena, w)
           act == [by |-> "delete", node |-> Last(stack).id, to |-> path(mid_arena, Last(stack).id)]
           acts == <<act>>
<1>1. /\ ~is_src(cpy_mappings, w) /\ p \in Ids /\ q \in Seq(Ids) /\ IsInjective(q) /\ w \in ToSet(q)
      /\ b[p].kids = Without(q, w) /\ Relisted(b)
      /\ \A u \in Ids \ {p} : b[u].kids = mid_arena[u].kids
  BY DeleteFacts
<1>2. actions' = actions \o acts /\ dst_in_order' = dst_in_order /\ to_move' = to_move
  BY DEF Delete, emit, cursors
<1>3. /\ Typed /\ Settled /\ InOrder /\ MovedToPlace /\ \E S : actions \in Seq(S)
  BY DEF Inv
<1> HIDE DEF w, p, n
<1>4. /\ dst' = dst /\ visited' = visited /\ mid_arena' = b
      /\ \A e \in nodes(dst) : partner(e)' = partner(e) /\ (AtPlace(e)' <=> AtPlace(e))
      /\ \A u \in Ids : b[u].parent = mid_arena[u].parent
  BY <1>1, <1>3, RelistedFacts DEF Relisted
<1> HIDE DEF b
<1>5. acts \in Seq({act})
  OBVIOUS
<1> HIDE DEF act, acts
<1>6. PICK S : actions \in Seq(S)
  BY <1>3
<1>7. \A u : aligned(u) => aligned(u)'
  <2>1. \A i \in Moves : mid_arena'[actions[i].node].parent = mid_arena[actions[i].node].parent
    <3> SUFFICES ASSUME NEW i \in Moves PROVE actions[i].node \in Ids
      BY <1>4
    <3> QED
      BY <1>3 DEF MovedToPlace, AtPlace
  <2> QED
    BY <1>2, <1>5, <1>6, <2>1, AlignedKept
<1>8. ASSUME NEW u \in Ids, NEW e, NEW g, e # w, g # w, Before(mid_arena[u].kids, e, g)
      PROVE  Before(mid_arena'[u].kids, e, g)
  <2>1. CASE u = p
    <3>1. Before(Without(q, w), e, g)
      <4> HIDE DEF Ids
      <4> QED
        BY <1>1, <1>8, <2>1, WithoutBefore
    <3> QED
      BY <1>1, <1>4, <2>1, <3>1
  <2>2. CASE u # p
    BY <1>1, <1>4, <1>8, <2>2
  <2> QED
    BY <2>1, <2>2
<1>9. ASSUME NEW y \in visited PROVE ListedAt(y)'
  <2>1. PICK u : u = partner(y)
    OBVIOUS
  <2>2. y \in nodes(dst) /\ u \in Ids
    BY <1>3, <2>1 DEF Settled, AtPlace, visited
  <2>3. partner(y)' = u
    BY <1>4, <2>1, <2>2
  <2>4. CASE aligned(u)
    BY <1>4, <1>7, <2>3, <2>4, ListedThen
  <2>5. CASE ~aligned(u)
    <3>1. /\ Ordered(mid_arena[u].kids, children(dst, y) \cap dst_in_order)
          /\ \A e \in children(dst, y) :
               AtPlace(e) => e \in dst_in_order \/ partner(e) \in ToSet(to_move)
      BY <2>1, <2>5 DEF Listing, ListedAt
    <3>2. \A e \in children(dst, y) : e \in nodes(dst)
      BY <1>3, <2>2, TreeFacts, ChildSubtree
    <3>3. \A e \in children(dst, y) \cap dst_in_order : partner(e) # w
      <4> SUFFICES ASSUME NEW e \in children(dst, y) \cap dst_in_order PROVE partner(e) # w
        OBVIOUS
      <4>1. has(cpy_mappings, partner(e), e)
        BY <1>3 DEF InOrder, AtPlace
      <4>2. e \in Nat
        BY <1>3, <3>2, NodeTypes, TreeFacts
      <4>3. is_src(cpy_mappings, partner(e))
        BY <4>1, <4>2 DEF has, is_src
      <4> QED
        BY <1>1, <4>3
    <3>4. \A e, g \in children(dst, y) \cap dst_in_order' :
            e < g => Before(mid_arena'[u].kids, partner(e)', partner(g)')
      BY <1>2, <1>4, <1>8, <2>2, <3>1, <3>2, <3>3 DEF Ordered
    <3>5. \A e \in children(dst, y) :
            AtPlace(e)' => e \in dst_in_order' \/ partner(e)' \in ToSet(to_move')
      BY <1>2, <1>4, <3>1, <3>2
    <3> QED
      BY <1>4, <2>3, <3>4, <3>5, ListedThen
  <2> QED
    BY <2>4, <2>5
<1> QED
  BY <1>2, <1>4, <1>9 DEF Listing

(* The other steps leave all of it alone. *)
LEMMA UneditedListing ==
  ASSUME Listing, UNCHANGED <<given, mid, cursors, actions>>
  PROVE  Listing'
<1>1. /\ dst' = dst /\ mid_arena' = mid_arena /\ cpy_mappings' = cpy_mappings /\ actions' = actions
      /\ dst_in_order' = dst_in_order /\ unvisited' = unvisited /\ to_move' = to_move
  BY DEF given, mid, cursors
<1>2. visited' = visited
  BY <1>1 DEF visited
<1>3. ASSUME NEW y \in visited PROVE ListedAt(y)'
  <2>1. ListedAt(y)
    BY DEF Listing
  <2>2. \A c : AtPlace(c)' <=> AtPlace(c)
    BY <1>1, <1>2 DEF AtPlace, partner, mid_parent, wanted_parent, Ids
  <2> QED
    BY <1>1, <2>1, <2>2 DEF ListedAt, aligned, Ordered, partner
<1> QED
  BY <1>1, <1>2, <1>3 DEF Listing

(* Every step keeps the order. *)
LEMMA StepListing ==
  ASSUME Inv, Listing, [Next \/ Stopped]_vars
  PROVE  Listing'
<1>1. ASSUME NEW x, Visit(x) PROVE Listing'
  <2>1. CASE Insert(x)
    BY <2>1, InsertTurn, InsertArranged, TurnListing
  <2>2. CASE InsertRoot(x)
    BY <2>2, InsertRootTurn, InsertRootArranged, TurnListing
  <2>3. ASSUME NEW w, InPlace(x, w) PROVE Listing'
    BY <2>3, InPlaceTurn, InPlaceArranged, TurnListing
  <2>4. ASSUME NEW w, Move(x, w) PROVE Listing'
    BY <2>4, MoveTurn, MoveArranged, TurnListing
  <2>5. ASSUME NEW w, FailMove(x, w) \/ FailRename(x, w) PROVE Listing'
    BY <2>5, UneditedListing DEF FailMove, FailRename
  <2> QED
    BY <1>1, <2>1, <2>2, <2>3, <2>4, <2>5 DEF Visit
<1>2. CASE StartDel \/ DelDown \/ DelKeep \/ EndDel
  BY <1>2, UneditedListing DEF StartDel, DelDown, DelKeep, EndDel
<1>3. CASE UNCHANGED vars
  BY <1>3, UneditedListing DEF vars
<1> QED
  BY <1>1, <1>2, <1>3, AlignListing, DeleteListing DEF Next, Stopped

(***************************************************************************)
(* What del has swept.  It is still to come to a node of dst whose partner *)
(* is on the stack, or that is below a node whose partner is a child that  *)
(* del has not gone down to; everything below the partners of the others   *)
(* is kept.                                                                *)
(***************************************************************************)
Ahead(arena, s, x) ==
  \/ \E i \in 1 .. Len(s) : s[i].id = partner(x)
  \/ \E i \in 1 .. Len(s), a \in nodes(dst) :
       /\ x \in Subtree(dst, a)
       /\ \E j \in s[i].idx + 1 .. Len(arena[s[i].id].kids) : arena[s[i].id].kids[j] = partner(a)
SweptIn(arena, s) ==
  \A x \in nodes(dst) :
    Ahead(arena, s, x) \/ \A u \in ToSet(arena[partner(x)].kids) : is_src(cpy_mappings, u)
Swept == pc \in {"del", "done"} => SweptIn(mid_arena, stack)

(* The whole of dst below the partner of an entry is ahead at first. *)
LEMMA AheadBelow ==
  ASSUME Typed, Shape, Settled, visited = nodes(dst), NEW a \in nodes(dst),
         NEW x \in Subtree(dst, a), NEW s, NEW i \in 1 .. Len(s),
         s[i].id = partner(a), s[i].idx = 0
  PROVE  Ahead(mid_arena, s, x)
<1>1. CASE x = a
  BY <1>1 DEF Ahead
<1>2. CASE x # a
  <2>1. PICK c \in children(dst, a) : x \in Subtree(dst, c)
    BY <1>2, ChildAbove, TreeFacts
  <2>2. c \in nodes(dst) /\ c < a /\ parent(dst, c) = a
    BY ChildSubtree, TreeFacts DEF children, parent
  <2>3. c # root(dst)
    <3>1. IsTree(dst) /\ root(dst) \in nodes(dst)
      BY TreeFacts
    <3>2. a <= root(dst) /\ a \in Int /\ c \in Int /\ root(dst) \in Int
      BY <2>2, <3>1, NodeTypes
    <3> QED
      BY <2>2, <3>2
  <2>4. AtPlace(c) /\ AtPlace(a)
    BY <2>2 DEF Settled
  <2>5. partner(a) \in Ids
    BY <2>4 DEF AtPlace
  <2>6. partner(c) \in ToSet(mid_arena[partner(a)].kids)
    BY <2>2, <2>3, <2>4, <2>5, PlacedChild
  <2>7. mid_arena[partner(a)].kids \in Seq(Ids)
    <3>1. mid_arena \in Arenas(Ids, Contents)
      BY DEF Typed, ArenaTyped
    <3> HIDE DEF Ids, Contents
    <3> QED
      BY <2>5, <3>1, EntryFields
  <2> DEFINE kids == mid_arena[s[i].id].kids
  <2>8. PICK j \in 1 .. Len(kids) : kids[j] = partner(c)
    BY <2>6, <2>7 DEF ToSet
  <2>9. j \in s[i].idx + 1 .. Len(kids)
    BY <2>8
  <2> QED
    BY <2>1, <2>2, <2>8, <2>9 DEF Ahead
<1> QED
  BY <1>1, <1>2

(* The state after a step of del. *)
LEMMA SweptThen ==
  ASSUME dst' = dst, cpy_mappings' = cpy_mappings, SweptIn(mid_arena', stack')
  PROVE  Swept'
BY Zenon DEF Swept, SweptIn, Ahead, partner, is_src, get_src_unchecked, nodes, Subtree

(* Nothing is swept when del starts. *)
LEMMA StartDelSwept ==
  ASSUME Inv, StartDel
  PROVE  Swept'
<1>1. /\ unvisited = <<>> /\ stack' = <<[id |-> Last(mid_root), idx |-> 0]>>
      /\ dst' = dst /\ cpy_mappings' = cpy_mappings /\ mid_arena' = mid_arena
  BY DEF StartDel, given, mid
<1>2. Typed /\ Shape /\ Settled /\ Roots
  BY DEF Inv
<1>3. visited = nodes(dst) /\ root(dst) \in nodes(dst)
  <2>1. ToSet(unvisited) = {}
    BY <1>1 DEF ToSet
  <2> QED
    BY <1>2, <2>1, TreeFacts DEF visited
<1>4. Last(mid_root) = partner(root(dst))
  BY <1>2, <1>3 DEF Roots
<1>5. Len(stack') = 1 /\ stack'[1].id = partner(root(dst)) /\ stack'[1].idx = 0
  BY <1>1, <1>4
<1>6. ASSUME NEW x \in nodes(dst) PROVE Ahead(mid_arena, stack', x)
  <2>1. x \in Subtree(dst, root(dst))
    <3>1. IsTree(dst)
      BY <1>2, TreeFacts
    <3>2. x \in Int /\ root(dst) \in Int /\ 0 <= x /\ x <= root(dst) /\ dst.lld[root(dst)] = 0
      BY <1>3, <3>1, NodeTypes DEF IsTree, TreeShape
    <3> QED
      BY <3>2 DEF Subtree
  <2>2. 1 \in 1 .. Len(stack')
    BY <1>5
  <2> QED
    BY <1>2, <1>3, <1>5, <2>1, <2>2, AheadBelow
<1> QED
  BY <1>1, <1>6, SweptThen DEF SweptIn

(* What del finds: every node of dst was visited and has its partner. *)
LEMMA DelFacts ==
  ASSUME Inv, pc \in {"del", "done"}
  PROVE  /\ Typed /\ Shape /\ Settled /\ visited = nodes(dst)
         /\ \A x \in nodes(dst) : /\ partner(x) \in Ids /\ has(cpy_mappings, partner(x), x)
                                  /\ is_src(cpy_mappings, partner(x))
<1>1. Typed /\ Shape /\ Settled /\ unvisited = <<>>
  BY DEF Inv, Phases
<1>2. visited = nodes(dst)
  <2>1. ToSet(unvisited) = {}
    BY <1>1 DEF ToSet
  <2> QED
    BY <2>1 DEF visited
<1>3. ASSUME NEW x \in nodes(dst)
      PROVE  /\ partner(x) \in Ids /\ has(cpy_mappings, partner(x), x)
             /\ is_src(cpy_mappings, partner(x))
  <2>1. x \in Nat
    BY <1>1, NodeTypes, TreeFacts
  <2>2. partner(x) \in Ids /\ has(cpy_mappings, partner(x), x)
    BY <1>1, <1>2 DEF Settled, AtPlace
  <2> QED
    BY <2>1, <2>2 DEF has, is_src
<1> QED
  BY <1>1, <1>2, <1>3

(* Going down to a child leaves nothing behind. *)
LEMMA DelDownSwept ==
  ASSUME Inv, Swept, DelDown
  PROVE  Swept'
<1> DEFINE n == Len(stack)
           top1 == moved_on(stack, 1)
           e == [id |-> kids_of(Last(stack))[Last(stack).idx + 1], idx |-> 0]
<1>1. /\ pc = "del" /\ stack # <<>> /\ Last(stack).idx < Len(kids_of(Last(stack)))
      /\ stack' = Append(top1, e)
      /\ dst' = dst /\ cpy_mappings' = cpy_mappings /\ mid_arena' = mid_arena
  BY DEF DelDown, given, mid
<1>2. Typed /\ Shape /\ Settled /\ visited = nodes(dst)
  BY <1>1, DelFacts
<1>3. /\ n \in Nat /\ n > 0 /\ stack \in Seq(Entries(Ids))
      /\ \A i \in 1 .. n :
           /\ stack[i].id \in Ids /\ stack[i].idx \in Nat
           /\ kids_of(stack[i]) = mid_arena[stack[i].id].kids
           /\ kids_of(stack[i]) \in Seq(Ids) /\ Len(kids_of(stack[i])) \in Nat
  BY <1>1, StackFacts
<1>4. Last(stack) = stack[n] /\ n \in 1 .. n
  <2>1. Last(stack) = stack[Len(stack)]
    BY <1>1, <1>3, FrontFacts
  <2> QED
    BY <1>3, <2>1
<1>5. /\ top1 \in Seq(Entries(Ids)) /\ Len(top1) = n
      /\ \A i \in 1 .. n : i # n => top1[i] = stack[i]
      /\ top1[n].id = stack[n].id /\ top1[n].idx = stack[n].idx + 1
  <2>1. Last(stack).idx + 1 \in Nat
    BY <1>3, <1>4
  <2> QED
    BY <1>1, <1>3, <1>4, <2>1, MovedOn
<1> DEFINE kids == kids_of(stack[n])
           t == stack[n].idx
<1>6. e.id = kids[t + 1] /\ e.idx = 0 /\ t < Len(kids) /\ t \in Nat
  BY <1>1, <1>3, <1>4
<1> HIDE DEF top1, e
<1>7. /\ Len(stack') = n + 1 /\ stack'[n + 1] = e
      /\ \A i \in 1 .. n : stack'[i] = top1[i]
  BY <1>1, <1>3, <1>5
<1>8. SweptIn(mid_arena, stack)
  BY <1>1 DEF Swept
<1>9. \A i \in 1 .. n : stack'[i].id = stack[i].id /\ i \in 1 .. n + 1
  BY <1>3, <1>5, <1>7
<1>10. ASSUME NEW x \in nodes(dst), Ahead(mid_arena, stack, x)
       PROVE  Ahead(mid_arena, stack', x)
  <2>1. CASE \E i \in 1 .. n : stack[i].id = partner(x)
    BY <1>7, <1>9, <2>1 DEF Ahead
  <2>2. ASSUME NEW i \in 1 .. n, NEW a \in nodes(dst), x \in Subtree(dst, a),
               NEW j \in stack[i].idx + 1 .. Len(mid_arena[stack[i].id].kids),
               mid_arena[stack[i].id].kids[j] = partner(a)
        PROVE  Ahead(mid_arena, stack', x)
    <3>1. CASE i # n
      <4>1. stack'[i] = stack[i]
        BY <1>5, <1>7, <3>1
      <4> QED
        BY <1>7, <1>9, <2>2, <4>1 DEF Ahead
    <3>2. CASE i = n /\ j # t + 1
      <4>1. stack'[n].idx = t + 1 /\ stack'[n].id = stack[n].id
        BY <1>4, <1>5, <1>7
      <4>2. j \in (t + 1) + 1 .. Len(mid_arena[stack[n].id].kids)
        BY <1>3, <1>4, <1>6, <2>2, <3>2
      <4> QED
        BY <1>4, <1>7, <1>9, <2>2, <3>2, <4>1, <4>2 DEF Ahead
    <3>3. CASE i = n /\ j = t + 1
      <4>1. stack'[n + 1].id = partner(a) /\ stack'[n + 1].idx = 0
        BY <1>3, <1>4, <1>6, <1>7, <2>2, <3>3
      <4>2. n + 1 \in 1 .. Len(stack')
        BY <1>3, <1>7
      <4> QED
        BY <1>2, <2>2, <4>1, <4>2, AheadBelow
    <3> QED
      BY <3>1, <3>2, <3>3
  <2> QED
    BY <1>10, <2>1, <2>2 DEF Ahead
<1> QED
  BY <1>1, <1>8, <1>10, SweptThen DEF SweptIn

(* A node that is kept is left once all its children were swept. *)
LEMMA DelKeepSwept ==
  ASSUME Inv, Swept, DelKeep
  PROVE  Swept'
<1> DEFINE n == Len(stack)
<1>1. /\ pc = "del" /\ stack # <<>> /\ Last(stack).idx = Len(kids_of(Last(stack)))
      /\ stack' = Front(stack)
      /\ dst' = dst /\ cpy_mappings' = cpy_mappings /\ mid_arena' = mid_arena
  BY DEF DelKeep, given, mid, children_done, after_keep
<1>2. Stacked
  BY DEF Inv
<1>3. /\ n \in Nat /\ n > 0 /\ stack \in Seq(Entries(Ids))
      /\ \A i \in 1 .. n :
           /\ stack[i].id \in Ids /\ stack[i].idx \in Nat
           /\ kids_of(stack[i]) = mid_arena[stack[i].id].kids
           /\ kids_of(stack[i]) \in Seq(Ids) /\ Len(kids_of(stack[i])) \in Nat
  BY <1>1, StackFacts
<1>4. /\ Last(stack) = stack[n] /\ n \in 1 .. n /\ Len(stack') = n - 1
      /\ \A i \in 1 .. n - 1 : stack'[i] = stack[i]
  <2>1. /\ Last(stack) = stack[Len(stack)] /\ Len(stack') = n - 1
        /\ \A i \in 1 .. n - 1 : stack'[i] = stack[i]
    BY <1>1, <1>3, FrontFacts
  <2>2. n \in 1 .. n
    BY <1>3
  <2> QED
    BY <2>1, <2>2
<1> DEFINE kids == mid_arena[stack[n].id].kids
<1>5. \A u \in ToSet(kids) : is_src(cpy_mappings, u)
  <2>1. \A j \in 1 .. stack[n].idx : is_src(cpy_mappings, kids_of(stack[n])[j])
    BY <1>2, <1>4 DEF Stacked
  <2>2. stack[n].idx = Len(kids) /\ kids_of(stack[n]) = kids /\ DOMAIN kids = 1 .. Len(kids)
    BY <1>1, <1>3, <1>4
  <2> QED
    BY <2>1, <2>2 DEF ToSet
<1>6. SweptIn(mid_arena, stack)
  BY <1>1 DEF Swept
<1>7. \A i \in 1 .. n : i # n => i \in 1 .. n - 1
  BY <1>3
<1>8. stack[n].idx + 1 .. Len(kids) = {}
  BY <1>1, <1>3, <1>4
<1>9. ASSUME NEW x \in nodes(dst), Ahead(mid_arena, stack, x)
      PROVE  Ahead(mid_arena, stack', x) \/ partner(x) = stack[n].id
  <2>1. CASE \E i \in 1 .. n : stack[i].id = partner(x)
    BY <1>4, <1>7, <2>1 DEF Ahead
  <2>2. ASSUME NEW i \in 1 .. n, NEW a \in nodes(dst), x \in Subtree(dst, a),
               NEW j \in stack[i].idx + 1 .. Len(mid_arena[stack[i].id].kids),
               mid_arena[stack[i].id].kids[j] = partner(a)
        PROVE  Ahead(mid_arena, stack', x)
    <3>1. i # n
      BY <1>8, <2>2
    <3>2. i \in 1 .. n - 1 /\ stack'[i] = stack[i]
      BY <1>4, <1>7, <3>1
    <3> QED
      BY <1>4, <2>2, <3>2 DEF Ahead
  <2> QED
    BY <1>9, <2>1, <2>2 DEF Ahead
<1> QED
  BY <1>1, <1>5, <1>6, <1>9, SweptThen DEF SweptIn

(* A node that is deleted is the partner of none, and all before it stays. *)
LEMMA DeleteSwept ==
  ASSUME Inv, Swept, Delete
  PROVE  Swept'
<1> DEFINE n == Len(stack)
           w == stack[n].id
           h == n - 1
           p == stack[h].id
           q == mid_arena[p].kids
           t == stack[h].idx
           b == remove_kid(mid_arena, w)
           f == Front(stack)
<1>1. /\ pc = "del" /\ n \in Nat /\ n > 1 /\ w \in Ids /\ p \in Ids /\ ~is_src(cpy_mappings, w)
      /\ stack' = moved_on(f, -1)
      /\ q \in Seq(Ids) /\ Len(q) \in Nat /\ t \in 1 .. Len(q)
      /\ b \in Arenas(Ids, Contents) /\ Cut(mid_arena, b, w) /\ Relisted(b)
      /\ Len(b[p].kids) = Len(q) - 1
      /\ \A j \in t + 1 .. Len(q) : b[p].kids[j - 1] = q[j]
      /\ \A u \in Ids \ {p} : b[u].kids = mid_arena[u].kids
  BY DeleteFacts
<1>2. /\ dst' = dst /\ cpy_mappings' = cpy_mappings /\ mid_arena' = b /\ stack # <<>>
      /\ Last(stack).idx = Len(kids_of(Last(stack)))
  BY <1>1 DEF Relisted, Delete, children_done
<1>3. /\ Stacked /\ \A x \in nodes(dst) : partner(x) \in Ids /\ partner(x) # w
  BY <1>1, DelFacts DEF Inv
<1>4. /\ stack \in Seq(Entries(Ids))
      /\ \A i \in 1 .. n : /\ stack[i].id \in Ids /\ stack[i].idx \in Nat
                           /\ kids_of(stack[i]) = mid_arena[stack[i].id].kids
                           /\ Len(kids_of(stack[i])) \in Nat
  BY <1>1, <1>2, StackFacts
<1>5. /\ h \in 1 .. n /\ h \in Nat /\ h > 0 /\ h < n /\ h + 1 = n /\ n \in 1 .. n
      /\ \A i \in 1 .. n : i # n => i \in 1 .. h
      /\ \A i \in 1 .. h : i \in 1 .. n /\ i # n
  BY <1>1, SMTT(20)
<1>6. /\ f \in Seq(Entries(Ids)) /\ Len(f) = h /\ Last(stack) = stack[n]
      /\ \A i \in 1 .. h : f[i] = stack[i]
  BY <1>2, <1>4, FrontFacts
<1> HIDE DEF h, f
<1>7. f # <<>> /\ Last(f) = stack[h]
  <2>1. f # <<>>
    BY <1>5, <1>6
  <2>2. Last(f) = f[Len(f)]
    BY <1>6, <2>1, FrontFacts
  <2> QED
    BY <1>5, <1>6, <2>1, <2>2
<1>8. /\ Len(stack') = h /\ stack'[h].id = p /\ stack'[h].idx = t - 1
      /\ \A i \in 1 .. h : i # h => stack'[i] = stack[i]
  <2>1. Last(f).idx + (-1) \in Nat /\ -1 \in Int /\ t + (-1) = t - 1
    BY <1>1, <1>7
  <2>2. /\ Len(moved_on(f, -1)) = Len(f)
        /\ \A i \in 1 .. Len(f) : i # Len(f) => moved_on(f, -1)[i] = f[i]
        /\ moved_on(f, -1)[Len(f)].id = Last(f).id
        /\ moved_on(f, -1)[Len(f)].idx = Last(f).idx + (-1)
    BY <1>6, <1>7, <2>1, MovedOn
  <2> QED
    BY <1>1, <1>6, <1>7, <2>1, <2>2
<1>9. SweptIn(mid_arena, stack)
  BY <1>1 DEF Swept
<1>10. \A i \in 1 .. h : stack'[i].id = stack[i].id
  BY <1>5, <1>8
<1>11. \A i \in 1 .. h : i # h => stack[i].id # p
  <2>1. \A i, j \in 1 .. n : stack[i].id = stack[j].id => i = j
    BY <1>3 DEF Stacked
  <2> QED
    BY <1>5, <2>1
<1> HIDE DEF b, q, t, w, p
<1>12. ASSUME NEW x \in nodes(dst), Ahead(mid_arena, stack, x)
       PROVE  Ahead(b, stack', x)
  <2>1. CASE \E i \in 1 .. n : stack[i].id = partner(x)
    <3>1. PICK i \in 1 .. n : stack[i].id = partner(x)
      BY <2>1
    <3>2. i # n
      BY <1>3, <3>1 DEF w
    <3> QED
      BY <1>5, <1>8, <1>10, <3>1, <3>2 DEF Ahead
  <2>2. ASSUME NEW i \in 1 .. n, NEW a \in nodes(dst), x \in Subtree(dst, a),
               NEW j \in stack[i].idx + 1 .. Len(mid_arena[stack[i].id].kids),
               mid_arena[stack[i].id].kids[j] = partner(a)
        PROVE  Ahead(b, stack', x)
    <3>1. i # n
      <4> DEFINE m == Len(mid_arena[stack[n].id].kids)
      <4>1. stack[n].idx = m /\ m \in Nat
        BY <1>2, <1>4, <1>5, <1>6
      <4> HIDE DEF m
      <4>2. m + 1 .. m = {}
        BY <4>1
      <4>3. stack[n].idx + 1 .. Len(mid_arena[stack[n].id].kids) = {}
        BY <4>1, <4>2 DEF m
      <4> QED
        BY <2>2, <4>3
    <3>2. i \in 1 .. h
      BY <1>5, <3>1
    <3>3. CASE i # h
      <4>1. stack'[i] = stack[i] /\ b[stack[i].id].kids = mid_arena[stack[i].id].kids
        BY <1>1, <1>4, <1>5, <1>8, <1>11, <3>2, <3>3
      <4> QED
        BY <1>8, <2>2, <3>2, <4>1 DEF Ahead
    <3>4. CASE i = h
      <4>1. j \in t + 1 .. Len(q) /\ q[j] = partner(a)
        BY <2>2, <3>4 DEF t, q, p
      <4>2. j - 1 \in (t - 1) + 1 .. Len(b[p].kids) /\ b[p].kids[j - 1] = partner(a)
        BY <1>1, <4>1
      <4>3. h \in 1 .. Len(stack') /\ stack'[h].id = p /\ stack'[h].idx = t - 1
        BY <1>5, <1>8
      <4> QED
        BY <2>2, <4>2, <4>3 DEF Ahead
    <3> QED
      BY <3>3, <3>4
  <2> QED
    BY <1>12, <2>1, <2>2 DEF Ahead
<1>13. \A x \in nodes(dst) : ToSet(b[partner(x)].kids) \subseteq ToSet(mid_arena[partner(x)].kids)
  <2>1. DOMAIN mid_arena = Ids
    BY DEF Ids
  <2> QED
    BY <1>1, <1>3, <2>1 DEF Cut
<1>14. SweptIn(b, stack')
  BY <1>9, <1>12, <1>13 DEF SweptIn
<1> QED
  BY <1>2, <1>14, SweptThen

(* Every step keeps what is swept. *)
LEMMA StepSwept ==
  ASSUME Inv, Swept, [Next \/ Stopped]_vars
  PROVE  Swept'
<1>1. ASSUME NEW x, Visit(x) PROVE Swept'
  <2>1. pc' \notin {"del", "done"}
    BY <1>1 DEF Visit, Insert, InsertRoot, InPlace, Move, FailMove, FailRename, EndTurn, Mapped, Visiting
  <2> QED
    BY <2>1 DEF Swept
<1>2. CASE AlignMove
  <2>1. pc' \notin {"del", "done"}
    BY <1>2 DEF AlignMove
  <2> QED
    BY <2>1 DEF Swept
<1>3. CASE EndDel \/ UNCHANGED vars
  <2>1. /\ dst' = dst /\ cpy_mappings' = cpy_mappings /\ mid_arena' = mid_arena /\ stack' = stack
        /\ pc' = pc \/ pc = "del"
    BY <1>3 DEF EndDel, vars, given, mid
  <2>2. pc' \in {"del", "done"} => SweptIn(mid_arena', stack')
    BY <2>1 DEF Swept
  <2> QED
    BY <2>1, <2>2, SweptThen DEF Swept
<1> QED
  BY <1>1, <1>2, <1>3, StartDelSwept, DelDownSwept, DelKeepSwept, DeleteSwept DEF Next, Stopped

(* A node that is kept is the partner of a node, if none of src lost its own. *)
LEMMA KeptIsPartner ==
  ASSUME Inv, pc \in {"del", "done"}, NoSourceLost, NEW c \in Ids, is_src(cpy_mappings, c)
  PROVE  \E d \in visited : partner(d) = c
<1>1. Typed /\ Extends /\ visited = nodes(dst)
  BY DelFacts DEF Inv
<1>2. /\ dst.len \in Nat /\ nodes(dst) = 0 .. dst.len - 1 /\ Ids \subseteq Nat
      /\ ori_mappings.src_to_dst \in [0 .. src.len -> 0 .. dst.len]
      /\ src.len \in Nat /\ nodes(src) = 0 .. src.len - 1
  BY <1>1, TreeFacts
<1>3. CASE c \in nodes(src)
  <2> DEFINE d == get_dst_unchecked(ori_mappings, c)
             slot == ori_mappings.src_to_dst[c]
             back == cpy_mappings.dst_to_src[d]
  <2>1. slot = cpy_mappings.src_to_dst[c]
    BY <1>1, <1>3 DEF Extends
  <2>2. is_src(ori_mappings, c)
    BY <2>1 DEF is_src
  <2>3. has(ori_mappings, c, d)
    BY <1>3, <2>2 DEF NoSourceLost
  <2>4. slot \in 0 .. dst.len
    BY <1>2, <1>3
  <2>5. slot # 0 /\ d = slot - 1
    BY <2>2 DEF is_src, get_dst_unchecked
  <2> HIDE DEF slot
  <2>6. d \in nodes(dst)
    BY <1>2, <2>4, <2>5
  <2> HIDE DEF d
  <2>7. ori_mappings.dst_to_src[d] = c + 1 /\ c \in Nat
    BY <1>2, <2>3 DEF has
  <2>8. back = c + 1
    BY <1>1, <2>6, <2>7 DEF Extends, is_dst
  <2>9. partner(d) = back - 1
    BY DEF partner, get_src_unchecked
  <2> HIDE DEF back
  <2>10. partner(d) = c
    BY <2>7, <2>8, <2>9
  <2> QED
    BY <1>1, <2>6, <2>10
<1>4. CASE c \notin nodes(src)
  <2>1. PICK d \in visited : has(cpy_mappings, c, d)
    BY <1>1, <1>4 DEF Extends
  <2>2. c \in Nat
    BY <1>2
  <2>3. partner(d) = c
    BY <2>1, <2>2 DEF has, partner, get_src_unchecked
  <2> QED
    BY <2>3
<1> QED
  BY <1>3, <1>4

(***************************************************************************)
(* At the end nothing is ahead of del, so that the children of a partner   *)
(* are kept: they are the partners of the children, and none of these is   *)
(* elsewhere.                                                              *)
(***************************************************************************)
LEMMA SameChildren ==
  ASSUME Inv, Swept, pc = "done", NoSourceLost, NEW x \in nodes(dst)
  PROVE  ToSet(mid_arena[partner(x)].kids) = {partner(c) : c \in children(dst, x)}
<1> DEFINE w == partner(x)
<1>1. Typed /\ Shape /\ Settled /\ visited = nodes(dst) /\ w \in Ids /\ has(cpy_mappings, w, x)
  BY DelFacts
<1>2. IsTree(dst) /\ NoNode \notin Ids /\ \A d \in nodes(dst) : d \in Int
  BY <1>1, TreeFacts, NodeTypes
<1>3. ASSUME NEW c \in children(dst, x)
      PROVE  partner(c) \in ToSet(mid_arena[w].kids)
  <2>1. c \in nodes(dst) /\ c < x /\ parent(dst, c) = x
    BY <1>2, ChildSubtree DEF children, parent
  <2>2. c # root(dst)
    <3>1. x <= root(dst) /\ root(dst) \in Int /\ x \in Int /\ c \in Int
      BY <1>1, <1>2, <2>1, NodeTypes, TreeFacts
    <3> QED
      BY <2>1, <3>1
  <2>3. AtPlace(c)
    BY <1>1, <2>1 DEF Settled
  <2> QED
    BY <1>1, <2>1, <2>2, <2>3, PlacedChild
<1>4. ASSUME NEW u \in ToSet(mid_arena[w].kids)
      PROVE  \E c \in children(dst, x) : u = partner(c)
  <2>1. stack = <<>>
    BY DEF Inv, Phases
  <2>2. ~Ahead(mid_arena, stack, x)
    <3>1. 1 .. Len(stack) = {}
      BY <2>1
    <3> QED
      BY <3>1 DEF Ahead
  <2>3. is_src(cpy_mappings, u)
    BY <2>2 DEF Swept, SweptIn
  <2>4. u \in Ids /\ mid_arena[u].parent = w /\ u # w
    BY <1>1 DEF Shape, Forest, Ids
  <2>5. PICK c \in visited : partner(c) = u
    BY <2>3, <2>4, KeptIsPartner
  <2>6. c \in nodes(dst) /\ AtPlace(c) /\ mid_parent(u) = w
    BY <1>1, <2>4, <2>5 DEF Settled, mid_parent
  <2>7. c # root(dst) /\ partner(parent(dst, c)) = w /\ parent(dst, c) \in nodes(dst)
    BY <1>1, <1>2, <2>5, <2>6 DEF AtPlace, wanted_parent, partner
  <2>8. has(cpy_mappings, w, parent(dst, c))
    BY <2>7, DelFacts
  <2>9. parent(dst, c) = x
    <3>1. parent(dst, c) \in Int /\ x \in Int
      BY <1>2, <2>7
    <3> QED
      BY <1>1, <2>8, <3>1 DEF has
  <2>10. c \in children(dst, x)
    BY <1>2, <2>6, <2>7, <2>9, ParentFacts
  <2> QED
    BY <2>5, <2>10
<1> QED
  BY <1>3, <1>4

(* So the mid arena is dst, list by list, when the generator is done. *)
LEMMA MidIsDst ==
  ASSUME Inv, Listing, Swept
  PROVE  MidBecomesDst
<1> SUFFICES ASSUME pc = "done", NoSourceLost, NEW x \in nodes(dst)
             PROVE  LET w == partner(x)
                        partners == [i \in 1 .. Cardinality(children(dst, x)) |->
                                       partner(ChildSeq(dst, x)[i])]
                    IN  /\ ToSet(mid_arena[w].kids) = ToSet(partners)
                        /\ ~aligned(w) => mid_arena[w].kids = partners
  BY Zenon DEF MidBecomesDst, partner
<1> DEFINE w == partner(x)
           q == ChildSeq(dst, x)
           n == Cardinality(children(dst, x))
           partners == [i \in 1 .. n |-> partner(q[i])]
           kids == mid_arena[w].kids
<1>1. Typed /\ Shape /\ visited = nodes(dst) /\ w \in Ids /\ mid_arena \in Arenas(Ids, Contents)
  BY DelFacts DEF Typed, ArenaTyped
<1>2. IsTree(dst) /\ dst.len \in Nat /\ nodes(dst) = 0 .. dst.len - 1
  BY <1>1, TreeFacts
<1>3. \A c \in children(dst, x) : c \in nodes(dst)
  BY <1>2, ChildSubtree
<1>4. /\ Listed(q, children(dst, x)) /\ Len(q) = n
      /\ \A i, j \in 1 .. n : i < j <=> q[i] < q[j]
  <2>1. children(dst, x) \subseteq 0 .. dst.len
    BY <1>2, <1>3
  <2>2. /\ Listed(q, children(dst, x)) /\ Len(q) = n
        /\ \A i, j \in 1 .. Len(q) : i < j <=> q[i] < q[j]
    BY <1>2, <2>1, Increasing DEF ChildSeq
  <2> HIDE DEF q, n
  <2> QED
    BY <2>2
<1>5. kids \in Seq(Ids) /\ IsInjective(kids)
  <2>1. kids \in Seq(Ids)
    <3> HIDE DEF Ids, Contents, w
    <3> QED
      BY <1>1, EntryFields
  <2> QED
    BY <1>1, <2>1 DEF Shape, Forest, Ids
<1>6. ToSet(kids) = {partner(c) : c \in children(dst, x)}
  BY SameChildren
<1> HIDE DEF q, n, kids
<1>7. n \in Nat /\ \A i \in 1 .. n : q[i] \in children(dst, x)
  BY <1>4, LenProperties DEF Listed
<1>8. \A c \in children(dst, x) : \E i \in 1 .. n : c = q[i]
  BY <1>4 DEF Listed, ToSet
<1>9. \A c \in children(dst, x) : partner(c) \in Ids /\ has(cpy_mappings, partner(c), c)
  BY <1>3, DelFacts
<1>10. partners \in Seq(Ids) /\ Len(partners) = n /\ DOMAIN partners = 1 .. n
  BY <1>7, <1>9
<1>11. ToSet(partners) = {partner(c) : c \in children(dst, x)}
  BY <1>7, <1>8, <1>10 DEF ToSet
<1>12. IsInjective(partners)
  <2> SUFFICES ASSUME NEW i \in 1 .. n, NEW j \in 1 .. n, partner(q[i]) = partner(q[j])
               PROVE  i = j
    BY <1>10 DEF IsInjective
  <2>1. q[i] \in children(dst, x) /\ q[j] \in children(dst, x)
    BY <1>7
  <2>2. q[i] + 1 = q[j] + 1
    BY <1>9, <2>1 DEF has
  <2>3. q[i] \in Int /\ q[j] \in Int
    BY <1>2, <1>3, <2>1
  <2>4. q[i] = q[j]
    BY <2>2, <2>3
  <2> QED
    BY <1>4, <2>4 DEF Listed
<1>13. ASSUME ~aligned(w) PROVE kids = partners
  <2>1. /\ children(dst, x) \subseteq dst_in_order
        /\ Ordered(kids, children(dst, x) \cap dst_in_order)
    BY <1>1, <1>3, <1>13 DEF Listing, ListedAt, kids
  <2>2. ASSUME NEW i \in 1 .. n, NEW j \in 1 .. n, i < j
        PROVE  Before(kids, partners[i], partners[j])
    <3>1. q[i] \in children(dst, x) /\ q[j] \in children(dst, x) /\ q[i] < q[j]
      BY <1>4, <1>7, <2>2
    <3> QED
      BY <2>1, <3>1 DEF Ordered
  <2> HIDE DEF partners, w, Ids
  <2> QED
    BY <1>5, <1>6, <1>10, <1>11, <1>12, <2>2, SameSequence
<1> QED
  BY <1>6, <1>11, <1>13 DEF kids, q, n

(***************************************************************************)
(* At the end the mid arena is dst, its order under aligned nodes aside.   *)
(***************************************************************************)
THEOREM BecomesDst == Spec => []MidBecomesDst
<1> DEFINE Ending == Inv /\ Listing /\ Swept
<1>1. Init => Ending
  <2> SUFFICES ASSUME Init PROVE Ending
    OBVIOUS
  <2>1. Inv
    BY InitInv
  <2>2. visited = {} /\ pc = "ins_mov_upd"
    <3>1. unvisited = iter_bf(dst) /\ pc = "ins_mov_upd"
      BY DEF Init, new
    <3>2. ToSet(unvisited) = nodes(dst)
      BY <2>1, <3>1, TreeFacts, BreadthFirst DEF Inv, Listed
    <3> QED
      BY <3>1, <3>2 DEF visited
  <2> QED
    BY <2>1, <2>2 DEF Listing, Swept
<1>2. Ending /\ [Next \/ Stopped]_vars => Ending'
  BY StepKeepsInv, StepListing, StepSwept
<1>3. Ending => MidBecomesDst
  BY MidIsDst
<1> QED
  BY <1>1, <1>2, <1>3, PTL DEF Spec
=============================================================================
