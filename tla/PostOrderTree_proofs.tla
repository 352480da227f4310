------------------------ MODULE PostOrderTree_proofs ------------------------
(***************************************************************************)
(* Lemmas about post-order trees: how subtrees nest, what happens to a set *)
(* of disjoint subtrees when some are replaced by their children, and what *)
(* isomorphic subtrees have in common.                                     *)
(***************************************************************************)
EXTENDS PostOrderTree, FiniteSetsExt, FunctionTheorems, FiniteSetTheorems,
        WellFoundedInduction, TLAPS

(* A non-empty set of naturals has a smallest element. *)
LEMMA NatMinExists ==
  ASSUME NEW S, S \subseteq Nat, S # {}
  PROVE  \E m \in S : \A n \in S : m <= n
<1>1. IsWellFoundedOn(OpToRel(<, Nat), Nat)
  BY NatLessThanWellFounded
<1>2. \E m \in S : \A n \in S : ~(<<n, m>> \in OpToRel(<, Nat))
  BY <1>1, WFMin, Zenon
<1>3. PICK m \in S : \A n \in S : ~(<<n, m>> \in OpToRel(<, Nat))
  BY <1>2
<1>4. \A n \in S : ~(n < m)
  BY <1>3 DEF OpToRel
<1> QED
  BY <1>4

(* Max returns the largest element of a bounded non-empty set of naturals. *)
LEMMA MaxOfBounded ==
  ASSUME NEW S, S \subseteq Nat, S # {}, NEW b \in Nat, \A n \in S : n <= b
  PROVE  Max(S) \in S /\ \A n \in S : n <= Max(S)
<1> DEFINE gaps == {g \in Nat : \E n \in S : g = b - n}
<1>1. PICK n0 \in S : TRUE
  OBVIOUS
<1>2. b - n0 \in gaps
  BY <1>1
<1>3. gaps \subseteq Nat /\ gaps # {}
  BY <1>2
<1>4. PICK g \in gaps : \A h \in gaps : g <= h
  BY <1>3, NatMinExists
<1>5. PICK m \in S : g = b - m
  BY <1>4
<1>6. ASSUME NEW n \in S PROVE m >= n
  <2>1. b - n \in gaps
    OBVIOUS
  <2> QED
    BY <2>1, <1>4, <1>5
<1> HIDE DEF gaps
<1> QED
  BY <1>5, <1>6 DEF Max

(* before is a strict total order on S *)
Order(S, before) ==
  /\ \A x \in S : <<x, x>> \notin before
  /\ \A x, y \in S : x # y => <<x, y>> \in before \/ <<y, x>> \in before
  /\ \A x, y, z \in S : <<x, y>> \in before /\ <<y, z>> \in before => <<x, z>> \in before

(* The place of an element in an order is the number of those before it: *)
(* each element has its place, and each place its element.                *)
LEMMA Placed ==
  ASSUME NEW S, IsFiniteSet(S), NEW before, Order(S, before), NEW place,
         place = [x \in S |-> Cardinality({y \in S : <<y, x>> \in before}) + 1]
  PROVE  /\ place \in [S -> 1 .. Cardinality(S)]
         /\ \A x, y \in S : <<x, y>> \in before => place[x] < place[y]
         /\ \A x, y \in S : place[x] = place[y] => x = y
         /\ \A i \in 1 .. Cardinality(S) : \E x \in S : place[x] = i
<1> DEFINE n == Cardinality(S)
           below(x) == {y \in S : <<y, x>> \in before}
<1>0. place = [x \in S |-> Cardinality(below(x)) + 1]
  OBVIOUS
<1>1. n \in Nat
  BY FS_CardinalityType
<1>2. ASSUME NEW x \in S
      PROVE  /\ IsFiniteSet(below(x)) /\ Cardinality(below(x)) \in Nat
             /\ Cardinality(below(x)) < n
  <2>1. /\ below(x) \in SUBSET S /\ below(x) # S
    BY DEF Order
  <2> HIDE DEF below
  <2>2. /\ IsFiniteSet(below(x)) /\ Cardinality(below(x)) <= n
        /\ n = Cardinality(below(x)) => S = below(x)
    BY <2>1, FS_Subset
  <2>3. Cardinality(below(x)) \in Nat
    BY <2>2, FS_CardinalityType
  <2> QED
    BY <1>1, <2>1, <2>2, <2>3
<1>3. ASSUME NEW x \in S, NEW y \in S, <<x, y>> \in before
      PROVE  Cardinality(below(x)) < Cardinality(below(y))
  <2>1. below(x) \in SUBSET below(y) /\ below(x) # below(y)
    BY <1>3 DEF Order
  <2>2. IsFiniteSet(below(y)) /\ Cardinality(below(y)) \in Nat /\ Cardinality(below(x)) \in Nat
    BY <1>2
  <2> HIDE DEF below
  <2>3. /\ Cardinality(below(x)) <= Cardinality(below(y))
        /\ Cardinality(below(y)) = Cardinality(below(x)) => below(y) = below(x)
    BY <2>1, <2>2, FS_Subset
  <2> QED
    BY <2>1, <2>2, <2>3
<1> HIDE DEF below
<1>4. place \in [S -> 1 .. n]
  <2>1. \A x \in S : Cardinality(below(x)) + 1 \in 1 .. n
    BY <1>1, <1>2
  <2> HIDE DEF n
  <2> QED
    BY <1>0, <2>1
<1>5. \A x, y \in S : <<x, y>> \in before => place[x] < place[y]
  <2> SUFFICES ASSUME NEW x \in S, NEW y \in S, <<x, y>> \in before
               PROVE  place[x] < place[y]
    OBVIOUS
  <2>1. place[x] = Cardinality(below(x)) + 1 /\ place[y] = Cardinality(below(y)) + 1
    BY <1>0
  <2>2. /\ Cardinality(below(x)) \in Nat /\ Cardinality(below(y)) \in Nat
        /\ Cardinality(below(x)) < Cardinality(below(y))
    BY <1>2, <1>3
  <2> QED
    BY <2>1, <2>2
<1> HIDE DEF n
<1>6. \A x, y \in S : place[x] \in Nat /\ place[y] \in Nat
  BY <1>1, <1>4
<1>7. \A x, y \in S : x # y => place[x] # place[y]
  <2> SUFFICES ASSUME NEW x \in S, NEW y \in S, x # y
               PROVE  place[x] # place[y]
    OBVIOUS
  <2>1. <<x, y>> \in before \/ <<y, x>> \in before
    BY DEF Order
  <2>2. place[x] < place[y] \/ place[y] < place[x]
    BY <1>5, <2>1
  <2> QED
    BY <1>6, <2>2
<1>8. place \in Injection(S, 1 .. n)
  BY <1>4, <1>7 DEF Injection, IsInjective
<1>9. IsFiniteSet(1 .. n) /\ Cardinality(1 .. n) = n
  BY <1>1, FS_Interval
<1>10. place \in Surjection(S, 1 .. n)
  BY <1>8, <1>9, FS_Injection DEF n
<1>11. \A i \in 1 .. n : \E x \in S : place[x] = i
  BY <1>10 DEF Surjection
<1> QED
  BY <1>4, <1>5, <1>7, <1>11 DEF n
-----------------------------------------------------------------------------
(* Nodes and what the arena holds for them are numbers. *)
LEMMA NodeTypes ==
  ASSUME NEW t, IsTree(t), NEW x \in nodes(t)
  PROVE  /\ x \in Nat /\ x \in Int
         /\ t.lld[x] \in nodes(t) /\ t.lld[x] \in Nat /\ t.lld[x] \in Int
         /\ t.lld[x] <= x /\ 0 <= t.lld[x]
         /\ t.height[x] \in Nat
         /\ t.len \in Nat /\ x < t.len /\ x <= root(t)
<1>1. /\ t.len \in Nat \ {0}
      /\ t.lld \in [nodes(t) -> nodes(t)]
      /\ t.height \in [nodes(t) -> Nat]
  BY DEF IsTree, TreeShape
<1>2. t.lld[x] \in nodes(t) /\ t.height[x] \in Nat
  BY <1>1
<1>3. t.lld[x] <= x
  BY DEF IsTree, Laminar
<1> QED
  BY <1>1, <1>2, <1>3 DEF nodes, root

LEMMA RootIsNode ==
  ASSUME NEW t, IsTree(t)
  PROVE  root(t) \in nodes(t)
BY DEF IsTree, TreeShape, nodes, root

(* A node lies in its own subtree, which only holds nodes of the tree. *)
LEMMA SubtreeInNodes ==
  ASSUME NEW t, IsTree(t), NEW x \in nodes(t)
  PROVE  /\ x \in Subtree(t, x)
         /\ Subtree(t, x) \subseteq nodes(t)
<1>1. /\ x \in Int /\ t.lld[x] \in Int /\ 0 <= t.lld[x] /\ t.lld[x] <= x
      /\ root(t) \in Int /\ x <= root(t)
  BY NodeTypes, RootIsNode
<1> QED
  BY <1>1 DEF Subtree, nodes

(* Two subtrees that share a node are nested, the later root outermost. *)
LEMMA NestedOrDisjoint ==
  ASSUME NEW t, IsTree(t), NEW x \in nodes(t), NEW y \in nodes(t), x <= y,
         Subtree(t, x) \cap Subtree(t, y) # {}
  PROVE  Subtree(t, x) \subseteq Subtree(t, y)
<1>1. PICK z \in Subtree(t, x) : z \in Subtree(t, y)
  OBVIOUS
<1>2. x \in Int /\ y \in Int /\ t.lld[x] \in Int /\ t.lld[y] \in Int
  BY NodeTypes
<1>3. x \in Subtree(t, y)
  BY <1>1, <1>2 DEF Subtree
<1>4. t.lld[y] <= t.lld[x]
  BY <1>3 DEF IsTree, Laminar
<1> QED
  BY <1>2, <1>4 DEF Subtree

(* The subtree of a child lies strictly inside the one of its parent. *)
LEMMA ChildSubtree ==
  ASSUME NEW t, IsTree(t), NEW x \in nodes(t), NEW c \in children(t, x)
  PROVE  /\ c \in nodes(t) /\ c < x
         /\ Subtree(t, c) \subseteq Subtree(t, x) \ {x}
<1>1. x \in Int /\ t.lld[x] \in Int /\ 0 <= t.lld[x]
  BY NodeTypes
<1>2. c \in Int /\ t.lld[x] <= c /\ c < x
  BY <1>1 DEF children, descendants
<1>3. c \in Subtree(t, x)
  BY <1>1, <1>2 DEF Subtree
<1>4. c \in nodes(t)
  BY <1>3, SubtreeInNodes
<1>5. t.lld[x] <= t.lld[c] /\ t.lld[c] \in Int
  BY <1>3, <1>4, NodeTypes DEF IsTree, Laminar
<1> QED
  BY <1>1, <1>2, <1>4, <1>5 DEF Subtree

(* Children have one parent, and the subtrees of siblings are disjoint. *)
LEMMA SiblingsDisjoint ==
  ASSUME NEW t, IsTree(t), NEW x \in nodes(t),
         NEW c \in children(t, x), NEW e \in children(t, x), c # e
  PROVE  Subtree(t, c) \cap Subtree(t, e) = {}
<1>1. ASSUME NEW c1 \in children(t, x), NEW c2 \in children(t, x), c1 < c2
      PROVE  Subtree(t, c1) \cap Subtree(t, c2) = {}
  <2>1. c1 \in nodes(t) /\ c2 \in nodes(t) /\ c2 < x /\ t.parent[c1] = x
    BY ChildSubtree DEF children
  <2>2. /\ c1 \in Int /\ c2 \in Int /\ x \in Int /\ x <= root(t)
        /\ t.lld[c1] \in Int /\ t.lld[c2] \in Int /\ root(t) \in Int
    BY <2>1, NodeTypes, RootIsNode
  <2>3. c1 \in nodes(t) \ {root(t)}
    BY <1>1, <2>1, <2>2
  <2>4. \A y \in nodes(t) : is_descendant(t, c1, y) => x <= y
    BY <2>1, <2>3 DEF IsTree, ParentsClosest
  <2>5. ~is_descendant(t, c1, c2)
    BY <2>1, <2>2, <2>4
  <2>6. c1 < t.lld[c2]
    BY <2>5, <2>2, <1>1 DEF is_descendant
  <2> QED
    BY <2>6, <2>2 DEF Subtree
<1>2. c \in Int /\ e \in Int
  BY ChildSubtree, NodeTypes
<1>3. c < e \/ e < c
  BY <1>2
<1> QED
  BY <1>1, <1>3

(* Replacing some trees of a set of disjoint ones by children of theirs    *)
(* leaves the set disjoint.                                                *)
LEMMA OpenKeepsDisjoint ==
  ASSUME NEW t, IsTree(t), NEW S, S \subseteq nodes(t), Disjoint(t, S),
         NEW T, T \subseteq S, NEW C, C \subseteq UNION {children(t, x) : x \in T}
  PROVE  /\ C \subseteq nodes(t)
         /\ C \cap (S \ T) = {}
         /\ Disjoint(t, (S \ T) \cup C)
<1>1. ASSUME NEW c \in C
      PROVE  \E x \in T : c \in children(t, x)
  OBVIOUS
<1>2. C \subseteq nodes(t)
  BY <1>1, ChildSubtree
<1>3. ASSUME NEW c \in C, NEW u \in S \ T
      PROVE  Subtree(t, c) \cap Subtree(t, u) = {} /\ c # u
  <2>1. PICK x \in T : c \in children(t, x)
    BY <1>1
  <2>2. Subtree(t, x) \cap Subtree(t, u) = {}
    BY DEF Disjoint
  <2>3. Subtree(t, c) \subseteq Subtree(t, x)
    BY <2>1, ChildSubtree
  <2>4. c \in Subtree(t, c)
    BY <1>2, SubtreeInNodes
  <2>5. u \in Subtree(t, u)
    BY SubtreeInNodes
  <2> QED
    BY <2>2, <2>3, <2>4, <2>5
<1>4. ASSUME NEW c \in C, NEW e \in C, c # e
      PROVE  Subtree(t, c) \cap Subtree(t, e) = {}
  <2>1. PICK x \in T : c \in children(t, x)
    BY <1>1
  <2>2. PICK y \in T : e \in children(t, y)
    BY <1>1
  <2>3. CASE x = y
    BY <2>1, <2>2, <2>3, <1>4, SiblingsDisjoint
  <2>4. CASE x # y
    <3>1. Subtree(t, x) \cap Subtree(t, y) = {}
      BY <2>4 DEF Disjoint
    <3> QED
      BY <3>1, <2>1, <2>2, ChildSubtree
  <2> QED
    BY <2>3, <2>4
<1> QED
  BY <1>2, <1>3, <1>4 DEF Disjoint

(* The height of a node is bounded by its position. *)
LEMMA HeightBounded ==
  ASSUME NEW t, IsTree(t), NEW x \in nodes(t)
  PROVE  t.height[x] <= x
<1> DEFINE high == {y \in nodes(t) : t.height[y] > y}
<1> SUFFICES ASSUME high # {} PROVE FALSE
  BY NodeTypes
<1>1. high \subseteq Nat
  BY NodeTypes
<1>2. PICK y \in high : \A z \in high : y <= z
  BY <1>1, NatMinExists
<1>3. t.height[y] \in Nat /\ t.height[y] # 0 /\ y \in Nat /\ t.height[y] > y
  BY <1>2, NodeTypes
<1>4. PICK c \in children(t, y) : t.height[c] = t.height[y] - 1
  BY <1>2, <1>3 DEF IsTree, HeightsLayered
<1>5. c \in nodes(t) /\ c < y
  BY <1>2, <1>4, ChildSubtree
<1>6. c \in Nat
  BY <1>5, NodeTypes
<1>7. c \in high
  BY <1>3, <1>4, <1>5, <1>6
<1> QED
  BY <1>2, <1>3, <1>5, <1>6, <1>7
-----------------------------------------------------------------------------
(* The subtrees at a same place of two isomorphic ones are isomorphic. *)
LEMMA IsomorphicInside ==
  ASSUME NEW t, IsTree(t), NEW u, IsTree(u),
         NEW x \in nodes(t), NEW y \in nodes(u), isomorphic(t, x, u, y),
         NEW a \in Subtree(t, x)
  PROVE  /\ a - x + y \in Subtree(u, y)
         /\ isomorphic(t, a, u, a - x + y)
<1> DEFINE k == x - a
<1>1. /\ a \in nodes(t) /\ a \in Int /\ x \in Int /\ y \in Int
      /\ t.lld[x] \in Int /\ u.lld[y] \in Int /\ t.lld[a] \in Int
  BY SubtreeInNodes, NodeTypes
<1>3. x - t.lld[x] = y - u.lld[y]
  BY DEF isomorphic, descendants_count
<1>4. k \in 0 .. x - t.lld[x] /\ y - k = a - x + y /\ x - k = a
  BY <1>1 DEF Subtree
<1>5. y - k \in Subtree(u, y)
  BY <1>1, <1>3, <1>4 DEF Subtree
<1>6. y - k \in nodes(u) /\ u.lld[y - k] \in Int
  BY <1>5, SubtreeInNodes, NodeTypes
<1>7. SameNode(t, x - k, u, y - k)
  BY <1>4 DEF isomorphic, descendants_count
<1>8. a - t.lld[a] = (y - k) - u.lld[y - k]
  BY <1>4, <1>7 DEF SameNode
<1>9. t.lld[x] <= t.lld[a] /\ t.lld[a] <= a
  BY <1>1, NodeTypes DEF IsTree, Laminar
<1>10. ASSUME NEW j \in 0 .. a - t.lld[a]
       PROVE  SameNode(t, a - j, u, (y - k) - j)
  <2>1. k + j \in 0 .. x - t.lld[x]
    BY <1>4, <1>9, <1>1
  <2>2. SameNode(t, x - (k + j), u, y - (k + j))
    BY <2>1 DEF isomorphic, descendants_count
  <2>3. x - (k + j) = a - j /\ y - (k + j) = (y - k) - j
    BY <1>1
  <2> QED
    BY <2>2, <2>3
<1> QED
  BY <1>4, <1>5, <1>8, <1>10 DEF isomorphic, descendants_count

(* Two nodes isomorphic to a same one are isomorphic to the same nodes. *)
LEMMA IsomorphicJoin ==
  ASSUME NEW t, NEW u, NEW a, NEW b, NEW c, NEW d,
         isomorphic(t, a, u, c), isomorphic(t, b, u, c), isomorphic(t, a, u, d)
  PROVE  isomorphic(t, b, u, d)
BY DEF isomorphic, SameNode

(* The parent of a node is the first of its ancestors. *)
LEMMA ParentFacts ==
  ASSUME NEW t, IsTree(t), NEW x \in nodes(t)
  PROVE  /\ x # root(t) => /\ parent(t, x) \in nodes(t) /\ x < parent(t, x)
                           /\ x \in children(t, parent(t, x))
                           /\ is_descendant(t, x, parent(t, x))
                           /\ \A y \in nodes(t) : is_descendant(t, x, y) =>
                                y = parent(t, x) \/ is_descendant(t, parent(t, x), y)
                           /\ \A y \in nodes(t) : is_descendant(t, parent(t, x), y) =>
                                is_descendant(t, x, y)
         /\ parent(t, root(t)) = NoNode /\ NoNode \notin nodes(t)
         /\ \A y \in nodes(t) : ~is_descendant(t, root(t), y)
<1>1. /\ t.parent \in [nodes(t) -> nodes(t) \cup {NoNode}]
      /\ t.parent[root(t)] = NoNode
      /\ \A z \in nodes(t) \ {root(t)} :
           /\ is_descendant(t, z, t.parent[z])
           /\ \A y \in nodes(t) : is_descendant(t, z, y) => t.parent[z] <= y
  BY DEF IsTree, TreeShape, ParentsClosest
<1>2. root(t) \in nodes(t) /\ \A z \in nodes(t) : /\ z \in Int /\ z <= root(t) /\ 0 <= z
                                                  /\ t.lld[z] \in Int /\ t.lld[z] <= z
  BY RootIsNode, NodeTypes
<1>3. NoNode \notin nodes(t) /\ \A y \in nodes(t) : ~is_descendant(t, root(t), y)
  BY <1>2 DEF NoNode, is_descendant
<1>4. ASSUME x # root(t)
      PROVE  /\ parent(t, x) \in nodes(t) /\ x < parent(t, x)
             /\ x \in children(t, parent(t, x))
             /\ is_descendant(t, x, parent(t, x))
             /\ \A y \in nodes(t) : is_descendant(t, x, y) =>
                                y = parent(t, x) \/ is_descendant(t, parent(t, x), y)
             /\ \A y \in nodes(t) : is_descendant(t, parent(t, x), y) =>
                  is_descendant(t, x, y)
  <2> DEFINE p == t.parent[x]
  <2>1. is_descendant(t, x, p) /\ \A y \in nodes(t) : is_descendant(t, x, y) => p <= y
    BY <1>1, <1>4
  <2>2. p \in nodes(t)
    <3>1. p \in nodes(t) \cup {NoNode}
      BY <1>1
    <3>2. p # NoNode
      BY <1>2, <2>1 DEF NoNode, is_descendant
    <3> QED
      BY <3>1, <3>2
  <2>3. x < p /\ t.lld[p] <= x
    BY <2>1 DEF is_descendant
  <2>4. x \in children(t, p)
    BY <1>2, <2>2, <2>3 DEF children, descendants
  <2>5. ASSUME NEW y \in nodes(t), is_descendant(t, x, y), y # p
        PROVE  is_descendant(t, p, y)
    <3>1. p < y /\ t.lld[y] <= x
      BY <1>2, <2>1, <2>2, <2>5 DEF is_descendant
    <3> QED
      BY <1>2, <2>2, <2>3, <3>1 DEF is_descendant
  <2>6. ASSUME NEW y \in nodes(t), is_descendant(t, p, y)
        PROVE  is_descendant(t, x, y)
    <3>1. p < y /\ t.lld[y] <= p
      BY <2>6 DEF is_descendant
    <3>2. p \in Subtree(t, y)
      BY <1>2, <2>2, <3>1 DEF Subtree
    <3>3. t.lld[y] <= t.lld[p]
      BY <3>2 DEF IsTree, Laminar
    <3> QED
      BY <1>2, <2>2, <2>3, <3>1, <3>3 DEF is_descendant
  <2> QED
    BY <2>1, <2>2, <2>3, <2>4, <2>5, <2>6 DEF parent
<1> QED
  BY <1>1, <1>3, <1>4 DEF parent

(* A descendant of a node lies in the subtree of one of its children. *)
LEMMA ChildAbove ==
  ASSUME NEW t, IsTree(t), NEW x \in nodes(t), NEW a \in Subtree(t, x), a # x
  PROVE  \E c \in children(t, x) : a \in Subtree(t, c)
<1> DEFINE above == {y \in nodes(t) : y < x /\ a \in Subtree(t, y)}
<1>1. /\ x \in Nat /\ t.lld[x] \in Nat /\ x <= root(t) /\ root(t) \in Nat
      /\ a \in nodes(t) /\ a \in Nat /\ a < x
  <2>1. x \in Nat /\ t.lld[x] \in Nat /\ x <= root(t) /\ root(t) \in nodes(t)
    BY NodeTypes, RootIsNode
  <2>2. root(t) \in Nat /\ a \in nodes(t)
    BY <2>1, NodeTypes, SubtreeInNodes
  <2>3. a \in Nat /\ a <= x
    BY <2>1, <2>2, NodeTypes DEF Subtree
  <2> QED
    BY <2>1, <2>2, <2>3
<1>2. a \in above
  BY <1>1, SubtreeInNodes
<1>3. above \subseteq Nat /\ above # {} /\ \A y \in above : y <= x
  <2>1. \A y \in above : y \in Nat /\ y < x
    BY NodeTypes
  <2> HIDE DEF above
  <2>2. \A y \in above : y <= x
    BY <1>1, <2>1
  <2>3. above # {} /\ above \subseteq Nat
    BY <1>2, <2>1
  <2> QED
    BY <2>2, <2>3
<1>4. PICK c \in above : \A y \in above : y <= c
  <2> HIDE DEF above
  <2> QED
    BY <1>1, <1>3, MaxOfBounded
<1>5. /\ c \in nodes(t) /\ c \in Nat /\ t.lld[c] \in Nat /\ c < x /\ a \in Subtree(t, c)
      /\ c \in Subtree(t, c)
  BY <1>4, NodeTypes, SubtreeInNodes
<1>6. c \in Subtree(t, x)
  BY <1>1, <1>5, NestedOrDisjoint
<1>7. c \in descendants(t, x) /\ is_descendant(t, c, x)
  BY <1>1, <1>5, <1>6 DEF Subtree, descendants, is_descendant
<1> DEFINE p == t.parent[c]
<1>8. /\ is_descendant(t, c, p) /\ p <= x
      /\ p \in nodes(t) \cup {NoNode}
  <2>1. c # root(t)
    BY <1>1, <1>5
  <2> QED
    BY <1>5, <1>7, <2>1 DEF IsTree, ParentsClosest, TreeShape
<1> HIDE DEF p
<1>9. c < p /\ t.lld[p] <= c
  BY <1>8 DEF is_descendant
<1>10. p \in nodes(t) /\ p \in Nat /\ t.lld[p] \in Nat
  <2>1. p # NoNode
    BY <1>5, <1>9 DEF NoNode
  <2> QED
    BY <1>8, <2>1, NodeTypes
<1>11. p = x
  <2> SUFFICES ASSUME p # x PROVE FALSE
    OBVIOUS
  <2>1. p < x
    BY <1>1, <1>8, <1>10
  <2>2. c \in Subtree(t, p)
    BY <1>5, <1>9, <1>10 DEF Subtree
  <2>3. c <= p /\ Subtree(t, c) \cap Subtree(t, p) # {}
    BY <1>5, <1>9, <1>10, <2>2
  <2>4. a \in Subtree(t, p)
    BY <1>5, <1>10, <2>3, NestedOrDisjoint
  <2>5. p \in above
    BY <1>10, <2>1, <2>4
  <2>6. p <= c
    BY <1>4, <2>5
  <2> QED
    BY <1>5, <1>9, <1>10, <2>6
<1>12. c \in children(t, x)
  BY <1>7, <1>11 DEF children, p
<1> QED
  BY <1>5, <1>12

(* A subtree is as high as any of its nodes, and higher above the spaces. *)
LEMMA SubtreeHeights ==
  ASSUME NEW t, IsTree(t), NEW x \in nodes(t), NEW a \in Subtree(t, x)
  PROVE  /\ t.height[a] <= t.height[x]
         /\ a # x /\ t.height[x] # 0 => t.height[a] < t.height[x]
<1>1. ASSUME NEW y \in nodes(t), NEW c \in children(t, y)
      PROVE  /\ t.height[c] <= t.height[y]
             /\ t.height[y] # 0 => t.height[c] < t.height[y]
  <2>1. c \in nodes(t) /\ t.height[c] \in Nat /\ t.height[y] \in Nat
    BY ChildSubtree, NodeTypes
  <2> QED
    BY <2>1 DEF IsTree, HeightsLayered
<1> DEFINE bad == {y \in nodes(t) : \E b \in Subtree(t, y) : t.height[b] > t.height[y]}
<1>2. bad = {}
  <2> SUFFICES ASSUME bad # {} PROVE FALSE
    OBVIOUS
  <2>1. bad \subseteq Nat
    BY NodeTypes
  <2>2. PICK m \in bad : \A n \in bad : m <= n
    <3> HIDE DEF bad
    <3> QED
      BY <2>1, NatMinExists
  <2>3. PICK b \in Subtree(t, m) : t.height[b] > t.height[m]
    BY <2>2
  <2>4. m \in nodes(t) /\ m \in Nat /\ t.height[m] \in Nat
    BY <2>2, NodeTypes
  <2>5. b \in nodes(t) /\ t.height[b] \in Nat /\ b # m
    <3>1. b \in nodes(t)
      BY <2>3, <2>4, SubtreeInNodes
    <3>2. t.height[b] \in Nat
      BY <3>1, NodeTypes
    <3> QED
      BY <2>3, <2>4, <3>1, <3>2
  <2>6. PICK c \in children(t, m) : b \in Subtree(t, c)
    BY <2>3, <2>4, <2>5, ChildAbove
  <2>7. c \in nodes(t) /\ c < m /\ c \in Nat /\ t.height[c] \in Nat
    BY <2>4, <2>6, ChildSubtree, NodeTypes
  <2>8. c \notin bad
    BY <2>2, <2>4, <2>7
  <2>9. t.height[b] <= t.height[c]
    BY <2>5, <2>6, <2>7, <2>8
  <2>10. t.height[c] <= t.height[m]
    BY <1>1, <2>4, <2>6
  <2> QED
    BY <2>3, <2>4, <2>5, <2>7, <2>9, <2>10
<1>3. ASSUME NEW y \in nodes(t), NEW b \in Subtree(t, y)
      PROVE  b \in nodes(t) /\ t.height[b] \in Nat /\ t.height[y] \in Nat
             /\ t.height[b] <= t.height[y]
  <2>1. b \in nodes(t) /\ t.height[b] \in Nat /\ t.height[y] \in Nat
    BY NodeTypes, SubtreeInNodes
  <2>2. y \notin bad
    BY <1>2
  <2> QED
    BY <2>1, <2>2
<1>4. ASSUME a # x, t.height[x] # 0 PROVE t.height[a] < t.height[x]
  <2>1. PICK c \in children(t, x) : a \in Subtree(t, c)
    BY <1>4, ChildAbove
  <2>2. c \in nodes(t) /\ t.height[c] \in Nat /\ t.height[c] < t.height[x]
    BY <1>1, <1>4, <2>1, ChildSubtree, NodeTypes
  <2>3. t.height[a] <= t.height[c]
    BY <1>3, <2>1, <2>2
  <2> QED
    BY <1>3, <2>2, <2>3
<1> QED
  BY <1>3, <1>4
=============================================================================
