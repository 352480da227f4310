-------------------------- MODULE LazyArena_proofs --------------------------
(***************************************************************************)
(* The lazy arena holds what an eager numbering would: proofs for every    *)
(* tree and every order of calls.                                          *)
(***************************************************************************)
EXTENDS LazyArena, PostOrderTree_proofs, SequenceTheorems, FiniteSetTheorems

(***************************************************************************)
(* Facts about children in post-order.                                     *)
(***************************************************************************)

(* The last child of a node is the position before it. *)
LEMMA LastChild ==
  ASSUME NEW t, IsTree(t), NEW x \in nodes(t), t.lld[x] < x
  PROVE  x - 1 \in children(t, x)
<1>1. x \in Nat /\ t.lld[x] \in Nat /\ x <= root(t) /\ root(t) \in Nat
  BY NodeTypes, RootIsNode
<1>2. x - 1 \in Subtree(t, x) /\ x - 1 # x
  BY <1>1 DEF Subtree
<1>3. PICK e \in children(t, x) : x - 1 \in Subtree(t, e)
  BY <1>2, ChildAbove
<1>4. e \in nodes(t) /\ e \in Nat /\ e < x /\ t.lld[e] \in Nat
  BY <1>3, ChildSubtree, NodeTypes
<1>5. x - 1 <= e
  BY <1>3, <1>4 DEF Subtree
<1>6. e = x - 1
  BY <1>1, <1>4, <1>5
<1> QED
  BY <1>3, <1>6

(* A node without children is a leaf. *)
LEMMA NoChild ==
  ASSUME NEW t, IsTree(t), NEW x \in nodes(t)
  PROVE  children(t, x) = {} <=> t.lld[x] = x
<1>1. x \in Nat /\ t.lld[x] \in Nat /\ t.lld[x] <= x
  BY NodeTypes
<1>2. t.lld[x] < x => children(t, x) # {}
  BY LastChild
<1>3. t.lld[x] = x => children(t, x) = {}
  <2>1. ASSUME t.lld[x] = x, NEW e \in children(t, x) PROVE FALSE
    BY <1>1, <2>1 DEF children, descendants
  <2> QED
    BY <2>1
<1> QED
  BY <1>1, <1>2, <1>3

(* The subtrees of two children are apart, in the order of the children. *)
LEMMA SiblingsApart ==
  ASSUME NEW t, IsTree(t), NEW x \in nodes(t),
         NEW e \in children(t, x), NEW f \in children(t, x), e < f
  PROVE  e < t.lld[f]
<1>1. e \in nodes(t) /\ f \in nodes(t) /\ e \in Nat /\ f \in Nat /\ t.lld[f] \in Nat
  BY ChildSubtree, NodeTypes
<1>2. Subtree(t, e) \cap Subtree(t, f) = {} /\ e \in Subtree(t, e)
  <2>1. e # f
    BY <1>1
  <2> QED
    BY <1>1, <2>1, SiblingsDisjoint, SubtreeInNodes
<1>3. e \notin Subtree(t, f)
  BY <1>2
<1> QED
  BY <1>1, <1>3 DEF Subtree

(* The first child starts where its parent does. *)
LEMMA FirstChild ==
  ASSUME NEW t, IsTree(t), NEW x \in nodes(t), NEW q \in children(t, x),
         \A o \in children(t, x) : q <= o
  PROVE  t.lld[q] = t.lld[x]
<1> DEFINE l == t.lld[x]
<1>1. /\ x \in Nat /\ l \in Nat /\ q \in Nat /\ q < x /\ q \in nodes(t) /\ t.lld[q] \in Nat
      /\ q \in Subtree(t, x) /\ l <= q
  <2>1. x \in Nat /\ l \in Nat /\ q \in nodes(t) /\ q < x /\ q \in Subtree(t, q)
    BY NodeTypes, ChildSubtree, SubtreeInNodes
  <2>2. q \in Subtree(t, x) /\ q \in Nat /\ t.lld[q] \in Nat
    BY <2>1, ChildSubtree, NodeTypes
  <2> QED
    BY <2>1, <2>2 DEF Subtree
<1>2. l \in Subtree(t, x) /\ l # x
  BY <1>1 DEF Subtree
<1>3. PICK o \in children(t, x) : l \in Subtree(t, o)
  BY <1>2, ChildAbove
<1>4. o \in nodes(t) /\ o \in Nat /\ t.lld[o] \in Nat /\ t.lld[o] <= l /\ l <= o
  BY <1>1, <1>3, ChildSubtree, NodeTypes DEF Subtree
<1>5. o = q
  <2> SUFFICES ASSUME q < o PROVE FALSE
    BY <1>1, <1>3, <1>4
  <2>1. q < t.lld[o]
    BY <1>3, SiblingsApart
  <2> QED
    BY <1>1, <1>4, <2>1
<1>6. l <= t.lld[q]
  BY <1>1 DEF IsTree, Laminar
<1> QED
  BY <1>1, <1>4, <1>5, <1>6

(* The child before another one ends where that one starts. *)
LEMMA PreviousChild ==
  ASSUME NEW t, IsTree(t), NEW x \in nodes(t), NEW q \in children(t, x),
         NEW o \in children(t, x), o < q, \A e \in children(t, x) : e < q => e <= o
  PROVE  o = t.lld[q] - 1
<1> DEFINE l == t.lld[q] - 1
<1>1. /\ x \in Nat /\ t.lld[x] \in Nat
      /\ q \in nodes(t) /\ q \in Nat /\ q < x /\ t.lld[q] \in Nat /\ t.lld[q] <= q
      /\ o \in nodes(t) /\ o \in Nat /\ t.lld[x] <= o
  <2>1. q \in nodes(t) /\ o \in nodes(t) /\ q < x /\ x \in Nat /\ t.lld[x] \in Nat
    BY ChildSubtree, NodeTypes
  <2>2. o \in Nat /\ q \in Nat /\ t.lld[q] \in Nat /\ t.lld[q] <= q
    BY <2>1, NodeTypes
  <2> QED
    BY <2>1, <2>2 DEF children, descendants
<1>2. o <= l
  BY <1>1, SiblingsApart
<1>3. l \in Subtree(t, x) /\ l # x
  BY <1>1, <1>2 DEF Subtree
<1>4. PICK e \in children(t, x) : l \in Subtree(t, e)
  BY <1>3, ChildAbove
<1>5. e \in nodes(t) /\ e \in Nat /\ t.lld[e] \in Nat /\ t.lld[e] <= l /\ l <= e
  BY <1>1, <1>4, ChildSubtree, NodeTypes DEF Subtree
<1>6. e < q
  <2>1. e # q
    BY <1>1, <1>5
  <2>2. ASSUME q < e PROVE FALSE
    <3>1. q < t.lld[e]
      BY <1>4, <2>2, SiblingsApart
    <3> QED
      BY <1>1, <1>5, <3>1
  <2> QED
    BY <1>1, <1>5, <2>1, <2>2
<1>7. e <= o
  BY <1>4, <1>6
<1> QED
  BY <1>1, <1>2, <1>5, <1>7

(***************************************************************************)
(* Ids: equal subtrees have one id, and equal children at equal places.    *)
(***************************************************************************)
(* Isomorphism goes both ways. *)
LEMMA IsoSymmetric ==
  ASSUME NEW t, NEW x, NEW y, isomorphic(t, x, t, y)
  PROVE  isomorphic(t, y, t, x)
BY DEF isomorphic, SameNode

(* An id is a position of an equal subtree. *)
LEMMA TreeId ==
  ASSUME NEW t, NEW x \in nodes(t)
  PROVE  tree_id(t, x) \in nodes(t) /\ isomorphic(t, tree_id(t, x), t, x)
<1>1. isomorphic(t, x, t, x)
  BY DEF isomorphic, SameNode
<1> QED
  BY <1>1 DEF tree_id

(* Equal subtrees have one id. *)
LEMMA TreeIdSame ==
  ASSUME NEW t, NEW x, NEW y, isomorphic(t, x, t, y)
  PROVE  tree_id(t, x) = tree_id(t, y)
<1>1. isomorphic(t, y, t, x) /\ isomorphic(t, x, t, x) /\ isomorphic(t, y, t, y)
  BY IsoSymmetric DEF isomorphic, SameNode
<1>2. ASSUME NEW z, isomorphic(t, z, t, x) PROVE isomorphic(t, z, t, y)
  BY <1>1, <1>2, IsomorphicJoin
<1>3. ASSUME NEW z, isomorphic(t, z, t, y) PROVE isomorphic(t, z, t, x)
  BY <1>1, <1>3, IsomorphicJoin
<1>4. \A z : isomorphic(t, z, t, x) <=> isomorphic(t, z, t, y)
  BY <1>2, <1>3
<1> QED
  BY <1>4 DEF tree_id

(* Equal subtrees have equal children at the same places. *)
LEMMA IsoChildren ==
  ASSUME NEW t, IsTree(t), NEW x \in nodes(t), NEW y \in nodes(t), isomorphic(t, x, t, y),
         NEW e \in children(t, x)
  PROVE  e - x + y \in children(t, y) /\ isomorphic(t, e, t, e - x + y)
<1> DEFINE f == e - x + y
<1>1. e \in Subtree(t, x) /\ e \in nodes(t) /\ e < x /\ t.parent[e] = x
  BY ChildSubtree, SubtreeInNodes DEF children
<1>2. f \in Subtree(t, y) /\ isomorphic(t, e, t, f)
  BY <1>1, IsomorphicInside
<1>3. f \in nodes(t) /\ x \in Nat /\ y \in Nat /\ e \in Nat /\ f \in Nat
  BY <1>1, <1>2, SubtreeInNodes, NodeTypes
<1>4. f < y
  BY <1>1, <1>3
<1>5. PICK d \in children(t, y) : f \in Subtree(t, d)
  BY <1>2, <1>3, <1>4, ChildAbove
<1>6. d \in nodes(t) /\ d \in Nat /\ d < y /\ d \in Subtree(t, y) /\ t.lld[d] \in Nat
      /\ t.lld[d] <= f /\ f <= d
  <2>1. d \in nodes(t) /\ d < y /\ d \in Subtree(t, y)
    BY <1>5, ChildSubtree, SubtreeInNodes
  <2> QED
    BY <1>3, <1>5, <2>1, NodeTypes DEF Subtree
<1>7. d = f
  <2> SUFFICES ASSUME f < d PROVE FALSE
    BY <1>3, <1>6
  <2> DEFINE g == d - y + x
  <2>1. isomorphic(t, y, t, x)
    BY IsoSymmetric
  <2>2. g \in Subtree(t, x) /\ isomorphic(t, d, t, g)
    BY <1>6, <2>1, IsomorphicInside
  <2>3. g \in nodes(t) /\ g \in Nat /\ t.lld[g] \in Nat
    BY <2>2, SubtreeInNodes, NodeTypes
  <2>4. g - t.lld[g] = d - t.lld[d]
    BY <2>2 DEF isomorphic, descendants_count
  <2>5. e < g /\ g < x /\ t.lld[g] <= e
    BY <1>3, <1>6, <2>3, <2>4
  <2>6. is_descendant(t, e, g) /\ e # root(t)
    <3>1. root(t) \in Nat /\ x <= root(t)
      BY NodeTypes, RootIsNode
    <3> QED
      BY <1>1, <1>3, <2>5, <3>1 DEF is_descendant
  <2>7. t.parent[e] <= g
    BY <1>1, <2>3, <2>6 DEF IsTree, ParentsClosest
  <2> QED
    BY <1>1, <1>3, <2>3, <2>5, <2>7
<1> QED
  BY <1>2, <1>5, <1>7
-----------------------------------------------------------------------------
(***************************************************************************)
(* The descent below top: q is the node that is being completed.  Each     *)
(* entry of the stack is a node on the way from top to q, and what remains *)
(* of it are the ids of its children before the one on the way.            *)
(***************************************************************************)
shift(t, x) == tree_id(t, x) - x

at_child(t, e, q) ==
  /\ q \in children(t, e.p)
  /\ e.rem = {z \in children(t, tree_id(t, e.p)) : z < q + shift(t, e.p)}

Entries(t, top) == [p : Subtree(t, top), rem : SUBSET nodes(t)]

on(t, top, q, st) ==
  /\ st \in Seq(Entries(t, top))
  /\ q \in Subtree(t, top)
  /\ st = <<>> => q = top
  /\ st # <<>> => st[1].p = top /\ at_child(t, st[Len(st)], q)
  /\ \A k \in 1 .. Len(st) - 1 : at_child(t, st[k], st[k + 1].p)

(* A stack of a descent is one of nodes and sets of nodes. *)
LEMMA EntriesTyped ==
  ASSUME NEW t, IsTree(t), NEW top \in nodes(t), NEW q, NEW st, on(t, top, q, st)
  PROVE  st \in Seq([p : nodes(t), rem : SUBSET nodes(t)])
<1>1. Entries(t, top) \subseteq [p : nodes(t), rem : SUBSET nodes(t)]
  BY SubtreeInNodes DEF Entries
<1>2. st \in Seq(Entries(t, top))
  BY DEF on
<1> HIDE DEF Entries
<1> DEFINE E == [p : nodes(t), rem : SUBSET nodes(t)]
           F == Entries(t, top)
<1> HIDE DEF E, F
<1>3. F \subseteq E /\ st \in Seq(F)
  BY <1>1, <1>2 DEF E, F
<1>4. st \in Seq(E)
  BY <1>3
<1> QED
  BY <1>4 DEF E

(* To a node with children: the descent goes on with the last one. *)
LEMMA Push ==
  ASSUME NEW t, IsTree(t), NEW top \in nodes(t), NEW q, NEW st, on(t, top, q, st),
         children(t, tree_id(t, q)) # {},
         NEW last, last = Max(children(t, tree_id(t, q))),
         NEW e, e = [p |-> q, rem |-> children(t, tree_id(t, q)) \ {last}]
  PROVE  /\ q - 1 \in children(t, q)
         /\ tree_id(t, last) = tree_id(t, q - 1)
         /\ last \in nodes(t)
         /\ on(t, top, q - 1, Append(st, e))
<1> DEFINE y == tree_id(t, q)
<1>1. q \in Subtree(t, top) /\ q \in nodes(t) /\ st \in Seq(Entries(t, top))
  BY SubtreeInNodes DEF on
<1>2. y \in nodes(t) /\ isomorphic(t, y, t, q) /\ isomorphic(t, q, t, y)
  BY <1>1, TreeId, IsoSymmetric
<1>3. /\ q \in Nat /\ y \in Nat /\ t.lld[y] \in Nat /\ t.lld[y] <= y
      /\ t.lld[q] \in Nat /\ t.lld[q] <= q
  BY <1>1, <1>2, NodeTypes
<1>4. t.lld[y] < y
  BY <1>2, <1>3, NoChild
<1>5. y - 1 \in children(t, y)
  BY <1>2, <1>4, LastChild
<1>6. \A z \in children(t, y) : z \in nodes(t) /\ z \in Nat /\ z <= y - 1
  BY <1>2, <1>3, ChildSubtree, NodeTypes
<1>7. last = y - 1
  <2> DEFINE S == children(t, y)
  <2>1. S \subseteq Nat /\ S # {} /\ y - 1 \in Nat /\ \A n \in S : n <= y - 1
    BY <1>5, <1>6
  <2>2. y - 1 \in S /\ last = Max(S)
    BY <1>5
  <2> HIDE DEF S, y
  <2>3. Max(S) \in S /\ \A n \in S : n <= Max(S)
    BY <2>1, MaxOfBounded
  <2>4. last \in Nat /\ y - 1 <= last /\ last <= y - 1
    BY <2>1, <2>2, <2>3
  <2>5. y \in Nat
    BY <1>3
  <2> QED
    BY <2>4, <2>5
<1>8. y - 1 - y + q \in children(t, q) /\ isomorphic(t, y - 1, t, y - 1 - y + q)
  BY <1>1, <1>2, <1>5, IsoChildren
<1>9. y - 1 - y + q = q - 1
  BY <1>3
<1>10. q - 1 \in children(t, q) /\ tree_id(t, last) = tree_id(t, q - 1)
  BY <1>7, <1>8, <1>9, TreeIdSame
<1>11. q - 1 \in Subtree(t, top)
  <2>1. q - 1 \in Subtree(t, q)
    BY <1>1, <1>10, ChildSubtree, SubtreeInNodes
  <2>2. Subtree(t, q) \subseteq Subtree(t, top)
    <3>1. q <= top /\ q \in Subtree(t, q)
      BY <1>1, SubtreeInNodes, NodeTypes DEF Subtree
    <3> QED
      BY <1>1, <3>1, NestedOrDisjoint
  <2> QED
    BY <2>1, <2>2
<1>12. at_child(t, e, q - 1)
  <2>1. q - 1 + shift(t, q) = y - 1
    BY <1>3 DEF shift
  <2>2. children(t, y) \ {y - 1} = {z \in children(t, y) : z < y - 1}
    BY <1>3, <1>6
  <2>3. e.p = q /\ e.rem = children(t, y) \ {y - 1}
    BY <1>7
  <2> QED
    BY <1>10, <2>1, <2>2, <2>3 DEF at_child
<1>13. e \in Entries(t, top)
  BY <1>1, <1>6 DEF Entries
<1> HIDE DEF y
<1> DEFINE st2 == Append(st, e)
<1>14. /\ st2 \in Seq(Entries(t, top)) /\ Len(st2) = Len(st) + 1 /\ Len(st) \in Nat
       /\ st2[Len(st) + 1] = e /\ \A k \in 1 .. Len(st) : st2[k] = st[k]
  BY <1>1, <1>13
<1>15. st # <<>> => 1 \in 1 .. Len(st) /\ Len(st) \in 1 .. Len(st)
  BY <1>1
<1> HIDE DEF st2
<1>16. st2[1].p = top
  <2>1. CASE st = <<>>
    BY <1>14, <2>1 DEF on
  <2>2. CASE st # <<>>
    BY <1>14, <1>15, <2>2 DEF on
  <2> QED
    BY <2>1, <2>2
<1>17. ASSUME NEW k \in 1 .. Len(st2) - 1 PROVE at_child(t, st2[k], st2[k + 1].p)
  <2>1. k \in 1 .. Len(st) /\ st2[k] = st[k]
    BY <1>14
  <2>2. CASE k = Len(st)
    <3>1. st # <<>> /\ st2[k + 1].p = q
      BY <1>14, <2>1, <2>2
    <3> QED
      BY <2>1, <2>2, <3>1 DEF on
  <2>3. CASE k # Len(st)
    <3>1. k \in 1 .. Len(st) - 1 /\ k + 1 \in 1 .. Len(st)
      BY <1>14, <2>1, <2>3
    <3>2. st2[k + 1] = st[k + 1]
      BY <1>14, <3>1
    <3> QED
      BY <2>1, <3>1, <3>2 DEF on
  <2> QED
    BY <2>2, <2>3
<1>18. st2 # <<>>
  BY <1>14
<1>19. at_child(t, st2[Len(st2)], q - 1)
  BY <1>12, <1>14
<1>20. on(t, top, q - 1, st2)
  BY <1>11, <1>14, <1>16, <1>17, <1>18, <1>19 DEF on
<1> QED
  BY <1>2, <1>5, <1>6, <1>7, <1>10, <1>20 DEF st2

(* The front of a non-empty stack, and the node whose child is in progress. *)
LEMMA FrontOn ==
  ASSUME NEW t, IsTree(t), NEW top \in nodes(t), NEW q, NEW st, on(t, top, q, st), st # <<>>
  PROVE  /\ Len(st) \in Nat \ {0} /\ Last(st) = st[Len(st)]
         /\ Last(st) \in Entries(t, top) /\ at_child(t, Last(st), q)
         /\ Front(st) \in Seq(Entries(t, top)) /\ Len(Front(st)) = Len(st) - 1
         /\ \A k \in 1 .. Len(st) - 1 : Front(st)[k] = st[k]
         /\ Front(st) = <<>> <=> Len(st) = 1
         /\ Front(st) = <<>> => Last(st).p = top
         /\ Front(st) # <<>> => /\ Front(st)[1].p = top
                                /\ at_child(t, Front(st)[Len(st) - 1], Last(st).p)
         /\ \A k \in 1 .. Len(st) - 2 : at_child(t, Front(st)[k], Front(st)[k + 1].p)
<1>1. st \in Seq(Entries(t, top))
  BY DEF on
<1>2. Len(st) \in Nat \ {0} /\ Last(st) = st[Len(st)] /\ Last(st) \in Entries(t, top)
  BY <1>1 DEF Last
<1>3. Front(st) = SubSeq(st, 1, Len(st) - 1)
  BY DEF Front
<1>4. /\ Front(st) \in Seq(Entries(t, top)) /\ Len(Front(st)) = Len(st) - 1
      /\ \A k \in 1 .. Len(st) - 1 : Front(st)[k] = st[k]
  <2> DEFINE n == Len(st) - 1
  <2>1. n \in Nat /\ n = Len(st) - 1
    BY <1>2
  <2> HIDE DEF n
  <2>2. \A k \in 1 .. n : st[k] \in Entries(t, top)
    BY <1>1, <1>2, <2>1
  <2>3. /\ SubSeq(st, 1, n) \in Seq(Entries(t, top))
        /\ Len(SubSeq(st, 1, n)) = IF 1 <= n THEN n - 1 + 1 ELSE 0
        /\ \A k \in 1 .. n - 1 + 1 : SubSeq(st, 1, n)[k] = st[1 + k - 1]
    BY <2>1, <2>2, SubSeqProperties
  <2>4. n - 1 + 1 = n /\ \A k \in 1 .. n : 1 + k - 1 = k
    BY <2>1
  <2> QED
    BY <1>3, <2>1, <2>3, <2>4
<1>5. Front(st) = <<>> <=> Len(st) = 1
  BY <1>2, <1>4
<1>6. at_child(t, Last(st), q)
  BY <1>2 DEF on
<1>7. Front(st) = <<>> => Last(st).p = top
  BY <1>2, <1>5 DEF on
<1>8. ASSUME Front(st) # <<>>
      PROVE  Front(st)[1].p = top /\ at_child(t, Front(st)[Len(st) - 1], Last(st).p)
  <2>1. Len(st) # 1
    BY <1>5, <1>8
  <2> DEFINE n == Len(st)
  <2>2. 1 \in 1 .. n - 1 /\ n - 1 \in 1 .. n - 1 /\ (n - 1) + 1 = n
    <3>1. n \in Nat \ {0} /\ n # 1
      BY <1>2, <2>1
    <3> HIDE DEF n
    <3> QED
      BY <3>1
  <2>3. at_child(t, st[Len(st) - 1], st[(Len(st) - 1) + 1].p) /\ st[1].p = top
    BY <2>2 DEF on
  <2> QED
    BY <1>2, <1>4, <2>2, <2>3
<1>9. ASSUME NEW k \in 1 .. Len(st) - 2
      PROVE  at_child(t, Front(st)[k], Front(st)[k + 1].p)
  <2>1. k \in 1 .. Len(st) - 1 /\ k + 1 \in 1 .. Len(st) - 1
    BY <1>2
  <2> QED
    BY <1>4, <2>1 DEF on
<1> QED
  BY <1>2, <1>4, <1>5, <1>6, <1>7, <1>8, <1>9

(* A completed child without any before it completes its parent. *)
LEMMA Pop ==
  ASSUME NEW t, IsTree(t), NEW top \in nodes(t), NEW q, NEW st, on(t, top, q, st),
         st # <<>>, Last(st).rem = {}
  PROVE  on(t, top, Last(st).p, Front(st)) /\ t.lld[q] = t.lld[Last(st).p]
<1> DEFINE x == Last(st).p
           y == tree_id(t, x)
<1>1. x \in Subtree(t, top) /\ x \in nodes(t) /\ at_child(t, Last(st), q)
  BY FrontOn, SubtreeInNodes DEF Entries
<1>2. on(t, top, x, Front(st))
  <2>1. Front(st) # <<>> => at_child(t, Front(st)[Len(Front(st))], x)
    BY FrontOn
  <2>2. \A k \in 1 .. Len(Front(st)) - 1 : at_child(t, Front(st)[k], Front(st)[k + 1].p)
    <3>1. Len(st) \in Nat /\ Len(Front(st)) = Len(st) - 1
      BY FrontOn
    <3>2. Len(st) - 1 - 1 = Len(st) - 2
      BY <3>1
    <3> QED
      BY <3>1, <3>2, FrontOn
  <2> QED
    BY <1>1, <2>1, <2>2, FrontOn DEF on
<1>3. q \in children(t, x) /\ {z \in children(t, y) : z < q + shift(t, x)} = {}
  BY <1>1 DEF at_child
<1>4. y \in nodes(t) /\ isomorphic(t, y, t, x) /\ isomorphic(t, x, t, y)
  BY <1>1, TreeId, IsoSymmetric
<1>5. x \in Nat /\ y \in Nat /\ q \in nodes(t) /\ q \in Nat
  <2>1. q \in nodes(t)
    BY <1>1, <1>3, ChildSubtree
  <2> QED
    BY <1>1, <1>4, <2>1, NodeTypes
<1>6. ASSUME NEW o \in children(t, x) PROVE q <= o
  <2>1. o - x + y \in children(t, y)
    BY <1>1, <1>4, IsoChildren
  <2>2. o \in Nat
    BY <1>1, ChildSubtree, NodeTypes
  <2>3. ~(o - x + y < q + (y - x))
    BY <1>3, <2>1 DEF shift
  <2> QED
    BY <1>5, <2>2, <2>3
<1>7. t.lld[q] = t.lld[x]
  BY <1>1, <1>3, <1>6, FirstChild
<1> QED
  BY <1>2, <1>7

(* After a completed child comes the one that ends before it starts. *)
LEMMA Following ==
  ASSUME NEW t, IsTree(t), NEW top \in nodes(t), NEW q, NEW st, on(t, top, q, st),
         st # <<>>, Last(st).rem # {},
         NEW z, z = Max(Last(st).rem), NEW o, o = t.lld[q] - 1,
         NEW e, e = [p |-> Last(st).p, rem |-> Last(st).rem \ {z}]
  PROVE  /\ Last(st).p \in nodes(t) /\ o \in children(t, Last(st).p)
         /\ z \in nodes(t) /\ tree_id(t, z) = tree_id(t, o)
         /\ on(t, top, o, Append(Front(st), e))
<1> DEFINE x == Last(st).p
           y == tree_id(t, x)
           rem == Last(st).rem
<1>1. x \in Subtree(t, top) /\ x \in nodes(t) /\ at_child(t, Last(st), q)
  BY FrontOn, SubtreeInNodes DEF Entries
<1>2. q \in children(t, x) /\ rem = {v \in children(t, y) : v < q + shift(t, x)}
  BY <1>1 DEF at_child
<1>3. y \in nodes(t) /\ isomorphic(t, y, t, x) /\ isomorphic(t, x, t, y)
  BY <1>1, TreeId, IsoSymmetric
<1>4. x \in Nat /\ y \in Nat /\ q \in nodes(t) /\ q \in Nat
  <2>1. q \in nodes(t)
    BY <1>1, <1>2, ChildSubtree
  <2> QED
    BY <1>1, <1>3, <2>1, NodeTypes
<1>5. ASSUME NEW v \in children(t, y) PROVE v \in nodes(t) /\ v \in Nat /\ v <= y
  <2>1. v \in nodes(t) /\ v < y
    BY <1>3, <1>5, ChildSubtree
  <2>2. v \in Nat
    BY <2>1, NodeTypes
  <2> QED
    BY <1>4, <2>1, <2>2
<1>6. z \in rem /\ \A v \in rem : v <= z
  <2>1. rem \subseteq Nat /\ \A v \in rem : v <= y
    BY <1>2, <1>5
  <2> HIDE DEF rem, y
  <2> QED
    BY <1>4, <2>1, MaxOfBounded DEF rem
<1> DEFINE w == z - y + x
<1>7. z \in children(t, y) /\ z \in nodes(t) /\ z \in Nat /\ z < q + (y - x)
  BY <1>2, <1>5, <1>6 DEF shift
<1>8. w \in children(t, x) /\ isomorphic(t, z, t, w) /\ w \in Int /\ w < q
  BY <1>1, <1>3, <1>4, <1>7, IsoChildren
<1>9. ASSUME NEW v \in children(t, x), v < q PROVE v <= w
  <2>1. v - x + y \in children(t, y) /\ v \in Nat
    BY <1>1, <1>3, <1>9, IsoChildren, ChildSubtree, NodeTypes
  <2>2. v - x + y < q + (y - x)
    BY <1>4, <1>9, <2>1
  <2>3. v - x + y \in rem
    BY <1>2, <2>1, <2>2 DEF shift
  <2>4. v - x + y <= z
    BY <1>6, <2>3
  <2> QED
    BY <1>4, <1>7, <2>1, <2>4
<1>10. w = o
  BY <1>1, <1>2, <1>8, <1>9, PreviousChild
<1>11. o \in children(t, x) /\ tree_id(t, z) = tree_id(t, o)
  BY <1>8, <1>10, TreeIdSame
<1>12. at_child(t, e, o)
  <2>1. rem \ {z} = {v \in children(t, y) : v < z}
    <3>1. ASSUME NEW v \in children(t, y), v < z PROVE v \in rem
      <4>1. v \in Nat /\ v < z
        BY <1>5, <3>1
      <4>2. v < q + (y - x)
        <5> HIDE DEF x, y
        <5> QED
          BY <1>4, <1>7, <4>1
      <4> QED
        BY <1>2, <4>2 DEF shift
    <3>2. ASSUME NEW v \in rem, v # z PROVE v \in children(t, y) /\ v < z
      <4>1. v \in children(t, y) /\ v <= z
        BY <1>2, <1>6
      <4>2. v \in Nat
        BY <1>5, <4>1
      <4> HIDE DEF x, y, rem
      <4> QED
        BY <1>7, <3>2, <4>1, <4>2
    <3>3. \A v \in rem \ {z} : v \in children(t, y) /\ v < z
      BY <3>2
    <3>4. \A v \in children(t, y) : v < z => v \in rem \ {z}
      BY <1>7, <3>1
    <3> HIDE DEF x, y, rem
    <3> QED
      BY <3>3, <3>4
  <2>2. z = o + shift(t, x)
    BY <1>4, <1>7, <1>10 DEF shift
  <2>3. e.p = x /\ e.rem = rem \ {z}
    OBVIOUS
  <2> QED
    BY <1>11, <2>1, <2>2, <2>3 DEF at_child
<1>13. o \in Subtree(t, top)
  <2>1. o \in Subtree(t, x)
    <3>1. o \in nodes(t) /\ Subtree(t, o) \subseteq Subtree(t, x)
      BY <1>1, <1>11, ChildSubtree, ZenonT(40)
    <3> QED
      BY <3>1, SubtreeInNodes
  <2>2. x <= top /\ x \in Subtree(t, x)
    BY <1>1, SubtreeInNodes, NodeTypes DEF Subtree
  <2>3. Subtree(t, x) \subseteq Subtree(t, top)
    BY <1>1, <2>2, NestedOrDisjoint
  <2> QED
    BY <2>1, <2>3
<1>14. e \in Entries(t, top)
  BY <1>1, <1>2, <1>5 DEF Entries
<1> HIDE DEF x, y, rem, w
<1> DEFINE fr == Front(st)
           st2 == Append(fr, e)
           n == Len(st)
<1>15. /\ n \in Nat \ {0} /\ fr \in Seq(Entries(t, top)) /\ Len(fr) = n - 1
       /\ fr = <<>> <=> n = 1
       /\ fr = <<>> => x = top
       /\ fr # <<>> => fr[1].p = top /\ at_child(t, fr[n - 1], x)
       /\ \A k \in 1 .. n - 2 : at_child(t, fr[k], fr[k + 1].p)
  BY FrontOn DEF x
<1> HIDE DEF fr, n
<1>16. /\ st2 \in Seq(Entries(t, top)) /\ Len(st2) = n
       /\ st2[n] = e /\ \A k \in 1 .. n - 1 : st2[k] = fr[k]
  BY <1>14, <1>15
<1> HIDE DEF st2
<1>17. e.p = x
  BY DEF x
<1>18. st2[1].p = top
  <2>1. CASE n = 1
    BY <1>15, <1>16, <1>17, <2>1
  <2>2. CASE n # 1
    <3>1. 1 \in 1 .. n - 1
      BY <1>15, <2>2
    <3> QED
      BY <1>15, <1>16, <2>2, <3>1
  <2> QED
    BY <2>1, <2>2
<1>19. ASSUME NEW k \in 1 .. n - 1 PROVE at_child(t, st2[k], st2[k + 1].p)
  <2>1. n # 1 /\ st2[k] = fr[k]
    BY <1>15, <1>16
  <2>2. CASE k = n - 1
    <3>1. st2[k + 1].p = x
      BY <1>15, <1>16, <1>17, <2>2
    <3> QED
      BY <1>15, <2>1, <2>2, <3>1
  <2>3. CASE k # n - 1
    <3>1. k \in 1 .. n - 2 /\ k + 1 \in 1 .. n - 1
      BY <1>15, <2>3
    <3>2. st2[k + 1] = fr[k + 1]
      BY <1>16, <3>1
    <3> QED
      BY <1>15, <2>1, <3>1, <3>2
  <2> QED
    BY <2>2, <2>3
<1>20. st2 # <<>>
  BY <1>15, <1>16
<1>21. on(t, top, o, st2)
  BY <1>12, <1>13, <1>15, <1>16, <1>18, <1>19, <1>20 DEF on
<1> QED
  BY <1>1, <1>7, <1>11, <1>21 DEF st2, x, fr
-----------------------------------------------------------------------------
(***************************************************************************)
(* The inductive invariant.                                                *)
(***************************************************************************)
Loops == {"dive", "rise"}

(* complete_subtree has done what lies from cur to its argument *)
Calls ==
  /\ pc \in {"complete"} \cup Loops =>
       cur \in Subtree(stored, goal) /\ \A x \in cur .. goal : known(x)
  /\ pc = "seek" => goal <= cur

(* a descent has reached the position c, or completed the subtree of q *)
Descent ==
  /\ pc = "dive" => on(stored, cur, c, s) /\ \A x \in c .. cur : known(x)
  /\ pc = "rise" =>
       \E q \in nodes(stored) :
         /\ on(stored, cur, q, s)
         /\ c = past_leaf(stored.lld[q])
         /\ \A x \in stored.lld[q] .. cur : known(x)

(* siblings are decompressed together, but for those of a descent *)
Together ==
  pc \notin Panics =>
    \A x, y \in nodes(stored) \ {root(stored)} :
      /\ parent(stored, x) = parent(stored, y) /\ known(x)
      /\ pc \in Loops => parent(stored, x) \notin Subtree(stored, cur)
      => known(y) /\ known(parent(stored, x))

IndInv == TypeOK /\ KnownIsRight /\ Calls /\ Descent /\ Together

(* What is read off a state: its tree, and the kinds of positions. *)
LEMMA StateFacts ==
  ASSUME IndInv
  PROVE  /\ IsTree(stored) /\ stored \in Trees
         /\ root(stored) \in nodes(stored)
         /\ goal \in nodes(stored) /\ cur \in nodes(stored) /\ c \in nodes(stored)
         /\ \A x \in nodes(stored) :
              /\ x \in Nat /\ stored.lld[x] \in Nat /\ stored.lld[x] <= x
              /\ stored.lld[x] \in nodes(stored)
<1>1. IsTree(stored)
  BY TreesAssumption DEF IndInv, TypeOK
<1> QED
  BY <1>1, RootIsNode, NodeTypes DEF IndInv, TypeOK

(* What an entry that is known holds. *)
LEMMA KnownFacts ==
  ASSUME IndInv, NEW x \in nodes(stored), known(x)
  PROVE  /\ id_compressed[x] = tree_id(stored, x)
         /\ x # root(stored) => id_parent[x] = parent(stored, x)
         /\ ~fresh(x) => llds[x] = stored.lld[x]
         /\ child_ids(x) = children(stored, tree_id(stored, x))
BY DEF IndInv, KnownIsRight, first_descendant, child_ids

(* decompress: the root alone is known. *)
LEMMA InitInd == Init => IndInv
<1> SUFFICES ASSUME Init PROVE IndInv
  OBVIOUS
<1>1. IsTree(stored) /\ root(stored) \in nodes(stored)
  BY TreesAssumption, RootIsNode DEF Init
<1>2. 0 \in nodes(stored) /\ tree_id(stored, root(stored)) \in nodes(stored)
  <2>1. root(stored) \in Nat
    BY <1>1, NodeTypes
  <2> QED
    BY <1>1, <2>1, TreeId DEF nodes
<1>3. TypeOK
  BY <1>1, <1>2 DEF Init, TypeOK
<1>4. \A x \in nodes(stored) : known(x) => x = root(stored)
  BY DEF Init, known, is_decompressed
<1>5. KnownIsRight
  <2>1. stored.lld[root(stored)] = 0
    BY <1>1 DEF IsTree, TreeShape
  <2> QED
    BY <1>1, <1>4, <2>1 DEF KnownIsRight, Init, first_descendant
<1>6. Calls /\ Descent /\ Together
  BY <1>4 DEF Calls, Descent, Together, Init, Loops
<1> QED
  BY <1>3, <1>5, <1>6 DEF IndInv

(***************************************************************************)
(* decompress_children of a known node makes its children known, with what *)
(* an eager numbering gives them.                                          *)
(***************************************************************************)
LEMMA ChildrenRight ==
  ASSUME IndInv, pc \notin Loops, NEW x \in nodes(stored), known(x),
         NEW then, then \in {"idle", "seek"}, decompress_children(x, then), stored' = stored
  PROVE  /\ child_places(x) = children(stored, x)
         /\ pc' \in {then, "children_assert"}
         /\ id_compressed' \in [nodes(stored) -> nodes(stored)]
         /\ id_parent' \in [nodes(stored) -> nodes(stored)]
         /\ llds' \in [nodes(stored) -> nodes(stored)]
         /\ KnownIsRight'
         /\ \A z \in nodes(stored) : known(z)' <=> known(z) \/ z \in children(stored, x)
<1> DEFINE t == stored
           y == tree_id(t, x)
<1>1. /\ IsTree(t) /\ y \in nodes(t) /\ isomorphic(t, y, t, x) /\ isomorphic(t, x, t, y)
      /\ x \in Nat /\ y \in Nat
  BY StateFacts, TreeId, IsoSymmetric
<1>2. id_compressed[x] = y /\ child_ids(x) = children(t, y)
  BY KnownFacts
<1>3. child_places(x) = children(t, x)
  <2>1. ASSUME NEW e \in children(t, y) PROVE place(x, e) \in children(t, x)
    <3>1. e - y + x \in children(t, x) /\ e \in Nat
      BY <1>1, IsoChildren, ChildSubtree, NodeTypes
    <3>2. e - y + x = x - (y - e)
      BY <1>1, <3>1
    <3> QED
      BY <1>2, <3>1, <3>2 DEF place
  <2>2. ASSUME NEW o \in children(t, x) PROVE \E e \in children(t, y) : o = place(x, e)
    <3>1. o - x + y \in children(t, y) /\ o \in Nat
      BY <1>1, IsoChildren, ChildSubtree, NodeTypes
    <3>2. o = x - (y - (o - x + y))
      BY <1>1, <3>1
    <3> QED
      BY <1>2, <3>1, <3>2 DEF place
  <2> QED
    BY <1>2, <2>1, <2>2 DEF child_places
<1>4. ASSUME NEW o \in children(t, x)
      PROVE  /\ o \in nodes(t) /\ o < x /\ o \in Nat /\ parent(t, o) = x /\ x # 0
             /\ o # root(t)
             /\ tree_id(t, id_at(x, o)) = tree_id(t, o)
             /\ child_lld(x, o) = t.lld[o]
  <2>1. o - x + y \in children(t, y) /\ isomorphic(t, o, t, o - x + y)
    BY <1>1, IsoChildren
  <2>2. o \in nodes(t) /\ o < x /\ o \in Nat /\ t.lld[o] \in Nat /\ parent(t, o) = x
    BY <1>1, ChildSubtree, NodeTypes DEF children, parent
  <2>3. o - x + y \in nodes(t) /\ t.lld[o - x + y] \in Nat
    <3>1. o - x + y \in nodes(t)
      BY <1>1, <2>1, ChildSubtree
    <3> QED
      BY <1>1, <3>1, NodeTypes
  <2>4. id_at(x, o) = o - x + y
    BY <1>1, <1>2, <2>2 DEF id_at
  <2>5. o - t.lld[o] = (o - x + y) - t.lld[o - x + y]
    BY <2>1 DEF isomorphic, descendants_count
  <2>6. child_lld(x, o) = t.lld[o]
    BY <2>2, <2>3, <2>4, <2>5 DEF child_lld, descendants_count
  <2>7. tree_id(t, id_at(x, o)) = tree_id(t, o)
    BY <2>1, <2>4, TreeIdSame
  <2>8. o # root(t)
    <3>1. x <= root(t) /\ root(t) \in Nat
      BY <1>1, NodeTypes, RootIsNode
    <3> QED
      BY <1>1, <2>2, <3>1
  <2> QED
    BY <1>1, <2>2, <2>6, <2>7, <2>8
<1>5. ASSUME NEW o \in nodes(t)
      PROVE  /\ o \in children(t, x) =>
                  /\ id_compressed'[o] = tree_id(t, o) /\ id_parent'[o] = x
                  /\ llds'[o] = t.lld[o]
             /\ o \notin children(t, x) =>
                  /\ id_compressed'[o] = id_compressed[o] /\ id_parent'[o] = id_parent[o]
                  /\ llds'[o] = llds[o]
  BY <1>3, <1>4 DEF decompress_children, children_ids, children_parents, children_llds
<1>6. pc' \in {then, "children_assert"}
  BY DEF decompress_children
<1>7. /\ id_compressed' \in [nodes(t) -> nodes(t)]
      /\ id_parent' \in [nodes(t) -> nodes(t)]
      /\ llds' \in [nodes(t) -> nodes(t)]
  <2>1. \A o \in nodes(t) : id_compressed'[o] \in nodes(t) /\ id_parent'[o] \in nodes(t)
                            /\ llds'[o] \in nodes(t)
    BY <1>5, StateFacts, TreeId DEF IndInv, TypeOK
  <2>2. /\ id_compressed' = [o \in nodes(t) |-> id_compressed'[o]]
        /\ id_parent' = [o \in nodes(t) |-> id_parent'[o]]
        /\ llds' = [o \in nodes(t) |-> llds'[o]]
    BY DEF decompress_children, children_ids, children_parents, children_llds
  <2> QED
    BY <2>1, <2>2
<1>8. ASSUME NEW z \in nodes(t)
      PROVE  known(z)' <=> known(z) \/ z \in children(t, x)
  BY <1>4, <1>5 DEF known, is_decompressed
<1>9. KnownIsRight'
  <2>1. ASSUME NEW z \in nodes(t), known(z) \/ z \in children(t, x)
        PROVE  /\ id_compressed'[z] = tree_id(t, z)
               /\ z # root(t) => id_parent'[z] = parent(t, z)
               /\ llds'[z] = t.lld[z]
    <3>1. CASE z \in children(t, x)
      BY <1>4, <1>5, <3>1
    <3>2. CASE z \notin children(t, x)
      <4>1. ~fresh(z)
        BY DEF fresh, Loops
      <4> QED
        BY <1>5, <2>1, <3>2, <4>1, KnownFacts
    <3> QED
      BY <3>1, <3>2
  <2> QED
    BY <1>8, <2>1 DEF KnownIsRight, first_descendant
<1> QED
  BY <1>3, <1>6, <1>7, <1>8, <1>9

(* All of a set of siblings being added, siblings stay together. *)
LEMMA ChildrenTogether ==
  ASSUME IndInv, pc \notin Loops \cup Panics, NEW x \in nodes(stored), known(x), stored' = stored,
         pc' \notin Loops,
         \A z \in nodes(stored) : known(z)' <=> known(z) \/ z \in children(stored, x)
  PROVE  Together'
<1> SUFFICES ASSUME NEW y \in nodes(stored) \ {root(stored)},
                    NEW z \in nodes(stored) \ {root(stored)},
                    parent(stored, y) = parent(stored, z), known(y)'
             PROVE  known(z)' /\ known(parent(stored, y))'
  BY DEF Together
<1>1. parent(stored, y) \in nodes(stored)
  <2>1. y \in Nat /\ is_descendant(stored, y, parent(stored, y))
    BY StateFacts DEF IsTree, ParentsClosest, parent
  <2>2. parent(stored, y) \in nodes(stored) \cup {NoNode}
    BY StateFacts DEF IsTree, TreeShape, parent
  <2> QED
    BY <2>1, <2>2 DEF is_descendant, NoNode
<1>2. CASE y \in children(stored, x)
  <2>1. parent(stored, y) = x
    BY <1>2 DEF children, parent
  <2>2. z \in children(stored, x)
    <3>1. is_descendant(stored, z, x)
      BY <2>1, StateFacts DEF IsTree, ParentsClosest, parent
    <3>2. z \in Nat /\ x \in Nat /\ stored.lld[x] \in Nat /\ stored.parent[z] = x
      BY <2>1, StateFacts DEF parent
    <3>3. z \in descendants(stored, x)
      BY <3>1, <3>2 DEF is_descendant, descendants
    <3> QED
      BY <3>2, <3>3 DEF children
  <2> QED
    BY <2>1, <2>2
<1>3. CASE y \notin children(stored, x)
  <2>1. known(y)
    BY <1>3
  <2>2. known(z) /\ known(parent(stored, y))
    BY <2>1 DEF IndInv, Together
  <2> QED
    BY <1>1, <2>2
<1> QED
  BY <1>2, <1>3

(* A call of decompress_children. *)
LEMMA DecompressChildrenInd ==
  ASSUME IndInv, NEW x \in nodes(stored), DecompressChildren(x)
  PROVE  IndInv'
<1>1. /\ pc = "idle" /\ known(x) /\ decompress_children(x, "idle")
      /\ stored' = stored /\ goal' = goal /\ cur' = cur /\ c' = c /\ s' = s
      /\ pc \notin Loops /\ pc \notin Panics
  BY DEF DecompressChildren, known, loop, Loops, Panics
<1>2. /\ pc' \in {"idle", "children_assert"} /\ KnownIsRight'
      /\ id_compressed' \in [nodes(stored) -> nodes(stored)]
      /\ id_parent' \in [nodes(stored) -> nodes(stored)]
      /\ llds' \in [nodes(stored) -> nodes(stored)]
      /\ \A z \in nodes(stored) : known(z)' <=> known(z) \/ z \in children(stored, x)
  BY <1>1, ChildrenRight
<1>3. TypeOK'
  BY <1>1, <1>2 DEF IndInv, TypeOK, Panics
<1>4. Calls' /\ Descent'
  BY <1>2 DEF Calls, Descent, Loops
<1>5. Together'
  BY <1>1, <1>2, ChildrenTogether DEF Loops
<1> QED
  BY <1>2, <1>3, <1>4, <1>5 DEF IndInv

(* The steps that write nothing outside of a descent. *)
LEMMA QuietInd ==
  ASSUME IndInv, UNCHANGED <<stored, arrays, loop>>,
         goal' \in nodes(stored), cur' \in nodes(stored),
         pc \notin Loops \cup Panics, pc' \in {"idle", "seek", "complete"} \cup Panics,
         Calls'
  PROVE  IndInv'
<1>1. /\ stored' = stored /\ id_compressed' = id_compressed /\ id_parent' = id_parent
      /\ llds' = llds /\ c' = c /\ s' = s
  BY DEF arrays, loop
<1>2. \A x : known(x)' <=> known(x)
  BY <1>1 DEF known, is_decompressed
<1>3. TypeOK'
  BY <1>1 DEF IndInv, TypeOK
<1>4. \A x : ~fresh(x) /\ ~fresh(x)'
  BY DEF fresh, Loops, Panics
<1>5. KnownIsRight'
  BY <1>1, <1>2, <1>4 DEF IndInv, KnownIsRight
<1>6. Descent'
  BY DEF Descent, Panics
<1>7. Together'
  BY <1>1, <1>2 DEF IndInv, Together, Loops, Panics
<1> QED
  BY <1>3, <1>5, <1>6, <1>7 DEF IndInv

(* The starts of the other calls, and the steps of decompress_to that write nothing. *)
LEMMA SeekInd ==
  ASSUME IndInv,
         (\E x \in nodes(stored) : StartTo(x) \/ StartComplete(x)) \/ SeekRight \/ EndTo
  PROVE  IndInv'
<1>1. CASE \E x \in nodes(stored) : StartTo(x)
  <2>1. PICK x \in nodes(stored) : StartTo(x)
    BY <1>1
  <2>2. /\ UNCHANGED <<stored, arrays, loop>> /\ pc = "idle" /\ pc' = "seek"
        /\ goal' = x /\ cur' = x /\ x \in Nat
    BY <2>1, StateFacts DEF StartTo
  <2>3. Calls'
    BY <2>2 DEF Calls, Loops
  <2> QED
    BY <2>2, <2>3, QuietInd DEF Loops, Panics
<1>2. CASE \E x \in nodes(stored) : StartComplete(x)
  <2>1. PICK x \in nodes(stored) : StartComplete(x)
    BY <1>2
  <2>2. /\ UNCHANGED <<stored, arrays, loop>> /\ pc = "idle" /\ pc' = "complete"
        /\ goal' = x /\ cur' = x /\ x \in Nat /\ known(x)
        /\ stored' = stored /\ id_parent' = id_parent
    BY <2>1, StateFacts DEF StartComplete, arrays
  <2>3. Calls'
    <3>1. x \in Subtree(stored, x) /\ \A z \in x .. x : z = x
      BY <2>2, StateFacts, SubtreeInNodes
    <3> QED
      BY <2>2, <3>1 DEF Calls, Loops, known, is_decompressed
  <2> QED
    BY <2>2, <2>3, QuietInd DEF Loops, Panics
<1>3. CASE SeekRight
  <2>1. /\ UNCHANGED <<stored, arrays, loop>> /\ pc = "seek" /\ goal' = goal
        /\ \/ cur < root(stored) /\ cur' = cur + 1 /\ pc' = "seek"
           \/ cur' = cur /\ pc' = "out_of_bounds"
    BY <1>3 DEF SeekRight
  <2>2. cur' \in nodes(stored) /\ goal \in Nat /\ cur \in Nat
    BY <2>1, StateFacts DEF nodes
  <2>3. goal <= cur
    BY <2>1 DEF IndInv, Calls
  <2>4. Calls'
    BY <2>1, <2>2, <2>3 DEF Calls, Loops
  <2> QED
    BY <2>1, <2>2, <2>4, StateFacts, QuietInd DEF Loops, Panics
<1>4. CASE EndTo
  <2>1. /\ UNCHANGED <<stored, arrays, loop>> /\ pc = "seek" /\ pc' = "idle"
        /\ goal' = goal /\ cur' = cur
    BY <1>4 DEF EndTo
  <2>2. Calls'
    BY <2>1 DEF Calls, Loops
  <2> QED
    BY <2>1, <2>2, StateFacts, QuietInd DEF Loops, Panics
<1> QED
  BY <1>1, <1>2, <1>3, <1>4

(* A non-empty set of positions has a smallest one, which Min gives. *)
LEMMA MinOfNodes ==
  ASSUME NEW S, S \subseteq Nat, S # {}
  PROVE  Min(S) \in S
<1>1. \E m \in S : \A n \in S : m <= n
  BY NatMinExists
<1> QED
  BY <1>1 DEF Min

(* decompress_to goes on below a known node that holds its argument. *)
LEMMA DescendInd == IndInv /\ Descend => IndInv'
<1> SUFFICES ASSUME IndInv, Descend PROVE IndInv'
  OBVIOUS
<1>1. /\ pc = "seek" /\ known(cur) /\ is_decompressed(cur) /\ llds[cur] <= goal /\ goal < cur
      /\ decompress_children(cur, "seek") /\ cur' = next_place(cur, goal)
      /\ stored' = stored /\ goal' = goal /\ c' = c /\ s' = s
      /\ pc \notin Loops /\ pc \notin Panics /\ cur \in nodes(stored)
  BY StateFacts DEF Descend, known, loop, Loops, Panics
<1>2. /\ pc' \in {"seek", "children_assert"} /\ KnownIsRight'
      /\ id_compressed' \in [nodes(stored) -> nodes(stored)]
      /\ id_parent' \in [nodes(stored) -> nodes(stored)]
      /\ llds' \in [nodes(stored) -> nodes(stored)]
      /\ \A z \in nodes(stored) : known(z)' <=> known(z) \/ z \in children(stored, cur)
      /\ child_places(cur) = children(stored, cur)
  BY <1>1, ChildrenRight
<1>3. cur' \in children(stored, cur) /\ goal <= cur'
  <2> DEFINE S == {o \in children(stored, cur) : o >= goal}
  <2>1. llds[cur] = stored.lld[cur]
    BY <1>1, KnownFacts DEF fresh
  <2>2. goal \in Subtree(stored, cur) /\ goal # cur
    BY <1>1, <2>1, StateFacts DEF Subtree
  <2>3. PICK e \in children(stored, cur) : goal \in Subtree(stored, e)
    BY <1>1, <2>2, StateFacts, ChildAbove
  <2>4. \A o \in children(stored, cur) : o \in nodes(stored) /\ o \in Nat
    BY <1>1, StateFacts, ChildSubtree
  <2>5. e \in S
    BY <2>3, <2>4, StateFacts DEF Subtree
  <2>6. S \subseteq Nat /\ S # {} /\ cur' = Min(S)
    BY <1>1, <1>2, <2>4, <2>5 DEF next_place
  <2>7. Min(S) \in S
    <3> HIDE DEF S
    <3> QED
      BY <2>6, MinOfNodes
  <2> QED
    BY <2>4, <2>6, <2>7, StateFacts
<1>4. cur' \in nodes(stored)
  BY <1>1, <1>3, StateFacts, ChildSubtree
<1>5. TypeOK'
  BY <1>1, <1>2, <1>4 DEF IndInv, TypeOK, Panics
<1>6. Calls' /\ Descent'
  BY <1>1, <1>2, <1>3 DEF Calls, Descent, Loops
<1>7. Together'
  BY <1>1, <1>2, ChildrenTogether DEF Loops
<1> QED
  BY <1>2, <1>5, <1>6, <1>7 DEF IndInv

(* complete_subtree passes a known node, or starts a descent. *)
LEMMA CompleteInd ==
  ASSUME IndInv, SkipKnown \/ StartContinuous
  PROVE  IndInv'
<1>1. /\ pc = "complete" /\ cur > llds[goal] /\ goal' = goal
      /\ stored' = stored /\ id_compressed' = id_compressed /\ id_parent' = id_parent
      /\ llds' = llds
  BY DEF SkipKnown, StartContinuous, arrays
<1>2. /\ cur \in Subtree(stored, goal) /\ \A x \in cur .. goal : known(x)
      /\ goal \in Nat /\ cur \in Nat /\ stored.lld[goal] \in Nat
      /\ goal \in nodes(stored) /\ cur \in nodes(stored)
  BY <1>1, StateFacts DEF IndInv, Calls
<1>3. stored.lld[goal] <= cur /\ cur <= goal
  BY <1>2 DEF Subtree
<1>4. known(goal) /\ known(cur)
  BY <1>2, <1>3
<1>5. llds[goal] = stored.lld[goal]
  BY <1>1, <1>2, <1>4, KnownFacts DEF fresh
<1>6. CASE SkipKnown
  <2>1. /\ UNCHANGED <<stored, arrays, loop>> /\ pc' = "complete" /\ cur' = cur - 1
        /\ is_decompressed(cur - 1)
    BY <1>1, <1>6 DEF SkipKnown
  <2>2. cur' \in Subtree(stored, goal)
    BY <1>1, <1>2, <1>3, <1>5, <2>1 DEF Subtree
  <2>3. \A x \in cur' .. goal : x = cur - 1 \/ x \in cur .. goal
    BY <1>2, <2>1
  <2>4. \A x \in cur' .. goal : known(x)'
    BY <1>1, <1>2, <2>1, <2>3 DEF known, is_decompressed
  <2>5. Calls'
    BY <1>1, <2>1, <2>2, <2>4 DEF Calls, Loops
  <2>6. cur' \in nodes(stored)
    BY <1>2, <2>2, StateFacts, SubtreeInNodes
  <2> QED
    BY <1>1, <1>2, <2>1, <2>5, <2>6, QuietInd DEF Loops, Panics
<1>7. CASE StartContinuous
  <2>1. pc' = "dive" /\ c' = cur /\ s' = <<>> /\ cur' = cur
    BY <1>7 DEF StartContinuous
  <2>2. \A x : known(x)' <=> known(x)
    BY <1>1 DEF known, is_decompressed
  <2>3. TypeOK'
    BY <1>1, <1>2, <2>1 DEF IndInv, TypeOK
  <2>4. KnownIsRight'
    <3>1. \A x : ~fresh(x)
      BY <1>1 DEF fresh
    <3> QED
      BY <1>1, <2>2, <3>1 DEF IndInv, KnownIsRight
  <2>5. Calls'
    BY <1>1, <1>2, <2>1, <2>2 DEF Calls, Loops
  <2>6. Descent'
    <3>1. cur \in Subtree(stored, cur)
      BY <1>2, StateFacts, SubtreeInNodes
    <3>2. on(stored, cur, cur, <<>>)
      BY <3>1 DEF on
    <3>3. \A x \in cur .. cur : known(x)
      BY <1>2, <1>4
    <3> QED
      BY <1>1, <2>1, <2>2, <3>2, <3>3 DEF Descent
  <2>7. Together'
    BY <1>1, <2>1, <2>2 DEF IndInv, Together, Loops, Panics
  <2> QED
    BY <2>3, <2>4, <2>5, <2>6, <2>7 DEF IndInv
<1> QED
  BY <1>6, <1>7

(* complete_subtree ends by writing the children of its argument. *)
LEMMA EndCompleteInd == IndInv /\ EndComplete => IndInv'
<1> SUFFICES ASSUME IndInv, EndComplete PROVE IndInv'
  OBVIOUS
<1>1. /\ pc = "complete" /\ decompress_children(goal, "idle")
      /\ stored' = stored /\ goal' = goal /\ cur' = cur /\ c' = c /\ s' = s
      /\ pc \notin Loops /\ pc \notin Panics /\ goal \in nodes(stored)
  BY StateFacts DEF EndComplete, loop, Loops, Panics
<1>2. known(goal)
  <2>1. cur \in Subtree(stored, goal) /\ \A x \in cur .. goal : known(x)
    BY <1>1 DEF IndInv, Calls
  <2> QED
    BY <2>1, StateFacts DEF Subtree
<1>3. /\ pc' \in {"idle", "children_assert"} /\ KnownIsRight'
      /\ id_compressed' \in [nodes(stored) -> nodes(stored)]
      /\ id_parent' \in [nodes(stored) -> nodes(stored)]
      /\ llds' \in [nodes(stored) -> nodes(stored)]
      /\ \A z \in nodes(stored) : known(z)' <=> known(z) \/ z \in children(stored, goal)
  BY <1>1, <1>2, ChildrenRight
<1>4. TypeOK'
  BY <1>1, <1>3 DEF IndInv, TypeOK, Panics
<1>5. Calls' /\ Descent'
  BY <1>3 DEF Calls, Descent, Loops
<1>6. Together'
  BY <1>1, <1>2, <1>3, ChildrenTogether DEF Loops
<1> QED
  BY <1>3, <1>4, <1>5, <1>6 DEF IndInv

(***************************************************************************)
(* What a descent keeps: it adds entries below cur only, in the subtree of *)
(* cur, so that siblings elsewhere are left alone.                         *)
(***************************************************************************)
LEMMA DescentKeeps ==
  ASSUME IndInv, pc \in Loops, pc' \in Loops, UNCHANGED <<stored, goal, cur>>,
         NEW N, \A x \in N : parent(stored, x) \in Subtree(stored, cur),
         \A x \in nodes(stored) : known(x)' <=> known(x) \/ x \in N
  PROVE  Calls' /\ Together'
<1>1. cur \in Subtree(stored, goal) /\ \A x \in cur .. goal : known(x)
  BY DEF IndInv, Calls
<1>2. \A x \in cur .. goal : x \in nodes(stored)
  <2>1. cur \in nodes(stored) /\ goal \in nodes(stored)
    BY StateFacts
  <2>2. cur \in Nat /\ goal \in Nat /\ root(stored) \in Nat
    BY StateFacts
  <2> QED
    BY <2>1, <2>2 DEF nodes
<1>3. Calls'
  BY <1>1, <1>2 DEF Calls, Loops
<1>4. \A x \in nodes(stored) \ {root(stored)} : parent(stored, x) \in nodes(stored)
  <2> SUFFICES ASSUME NEW x \in nodes(stored) \ {root(stored)}
               PROVE  parent(stored, x) \in nodes(stored)
    OBVIOUS
  <2>1. x \in Nat /\ is_descendant(stored, x, parent(stored, x))
    BY StateFacts DEF IsTree, ParentsClosest, parent
  <2>2. parent(stored, x) \in nodes(stored) \cup {NoNode}
    BY StateFacts DEF IsTree, TreeShape, parent
  <2> QED
    BY <2>1, <2>2 DEF is_descendant, NoNode
<1>5. pc \notin Panics
  BY DEF Loops, Panics
<1>6. Together'
  <2> SUFFICES ASSUME NEW x \in nodes(stored) \ {root(stored)},
                      NEW y \in nodes(stored) \ {root(stored)},
                      parent(stored, x) = parent(stored, y), known(x)',
                      parent(stored, x) \notin Subtree(stored, cur)
               PROVE  known(y)' /\ known(parent(stored, x))'
    BY DEF Together
  <2>1. known(x)
    OBVIOUS
  <2>2. known(y) /\ known(parent(stored, x))
    BY <1>5, <2>1 DEF IndInv, Together
  <2> QED
    BY <1>4, <2>2
<1> QED
  BY <1>3, <1>6

(* A descent that writes one more entry, that of a child o of p. *)
LEMMA OneMore ==
  ASSUME IndInv, pc \in Loops, pc' = "dive", UNCHANGED <<stored, goal, cur>>,
         NEW p \in nodes(stored), p \in Subtree(stored, cur),
         NEW o, o \in children(stored, p), c' = o,
         id_compressed' = [id_compressed EXCEPT ![o] = tree_id(stored, o)],
         id_parent' = [id_parent EXCEPT ![o] = p],
         \A x \in nodes(stored) : known(x) /\ x # o => llds'[x] = stored.lld[x]
  PROVE  /\ id_compressed' \in [nodes(stored) -> nodes(stored)]
         /\ id_parent' \in [nodes(stored) -> nodes(stored)]
         /\ c' \in nodes(stored)
         /\ \A x \in nodes(stored) : known(x)' <=> known(x) \/ x = o
         /\ KnownIsRight' /\ Calls' /\ Together'
<1>1. /\ o \in nodes(stored) /\ o \in Nat /\ p \in Nat /\ o < p /\ parent(stored, o) = p
      /\ p <= root(stored) /\ root(stored) \in Nat
  <2>1. IsTree(stored) /\ root(stored) \in Nat
    BY StateFacts
  <2>2. o \in nodes(stored) /\ o < p
    BY <2>1, ChildSubtree
  <2>3. p <= root(stored)
    BY <2>1, NodeTypes
  <2> QED
    BY <2>1, <2>2, <2>3, StateFacts DEF children, parent
<1>2. p # 0 /\ o # root(stored)
  BY <1>1
<1>3. tree_id(stored, o) \in nodes(stored)
  BY <1>1, TreeId
<1>4. /\ id_compressed \in [nodes(stored) -> nodes(stored)]
      /\ id_parent \in [nodes(stored) -> nodes(stored)]
  BY DEF IndInv, TypeOK
<1>5. /\ id_compressed' \in [nodes(stored) -> nodes(stored)]
      /\ id_parent' \in [nodes(stored) -> nodes(stored)]
  BY <1>1, <1>3, <1>4
<1>6. \A x \in nodes(stored) :
        /\ x = o => id_compressed'[x] = tree_id(stored, x) /\ id_parent'[x] = p
        /\ x # o => id_compressed'[x] = id_compressed[x] /\ id_parent'[x] = id_parent[x]
  BY <1>4
<1>7. \A x \in nodes(stored) : known(x)' <=> known(x) \/ x = o
  BY <1>2, <1>6 DEF known, is_decompressed
<1>8. ASSUME NEW x \in nodes(stored), known(x)'
      PROVE  /\ id_compressed'[x] = tree_id(stored, x)
             /\ x # root(stored) => id_parent'[x] = parent(stored, x)
             /\ ~fresh(x)' => llds'[x] = stored.lld[x]
  <2>1. CASE x = o
    BY <1>1, <1>6, <2>1 DEF fresh
  <2>2. CASE x # o
    BY <1>6, <1>7, <1>8, <2>2, KnownFacts
  <2> QED
    BY <2>1, <2>2
<1>9. KnownIsRight'
  BY <1>8 DEF KnownIsRight, first_descendant
<1>10. Calls' /\ Together'
  <2> DEFINE N == {o}
  <2>1. \A x \in N : parent(stored, x) \in Subtree(stored, cur)
    BY <1>1
  <2>2. \A x \in nodes(stored) : known(x)' <=> known(x) \/ x \in N
    BY <1>7
  <2>3. pc' \in Loops
    BY DEF Loops
  <2> HIDE DEF N
  <2> QED
    BY <2>1, <2>2, <2>3, DescentKeeps
<1> QED
  BY <1>1, <1>5, <1>7, <1>9, <1>10

(* A step down: the lld of the node, and its last child when it has one. *)
LEMMA DiveInd == IndInv /\ Dive => IndInv'
<1> SUFFICES ASSUME IndInv, Dive PROVE IndInv'
  OBVIOUS
<1> DEFINE y == tree_id(stored, c)
           l == c - descendants_count(stored, y)
<1>1. /\ pc = "dive" /\ stored' = stored /\ goal' = goal /\ cur' = cur
      /\ pc \in Loops /\ pc \notin Panics
  BY DEF Dive, Loops, Panics
<1>2. /\ IsTree(stored) /\ c \in nodes(stored) /\ cur \in nodes(stored) /\ c \in Nat
      /\ cur \in Nat /\ stored.lld[c] \in Nat /\ stored.lld[c] <= c /\ root(stored) \in Nat
  BY StateFacts
<1>3. on(stored, cur, c, s) /\ \A x \in c .. cur : known(x)
  BY <1>1 DEF IndInv, Descent
<1>4. c \in Subtree(stored, cur) /\ c <= cur /\ known(c)
  BY <1>2, <1>3, NodeTypes DEF on, Subtree
<1>5. id_compressed[c] = y /\ child_ids(c) = children(stored, y)
  BY <1>2, <1>4, KnownFacts
<1>6. y \in nodes(stored) /\ isomorphic(stored, y, stored, c)
  BY <1>2, TreeId
<1>7. l = stored.lld[c]
  <2>1. y \in Nat /\ stored.lld[y] \in Nat
    BY <1>2, <1>6, NodeTypes
  <2>2. y - stored.lld[y] = c - stored.lld[c]
    BY <1>6 DEF isomorphic, descendants_count
  <2>3. l = c - (y - stored.lld[y])
    BY DEF descendants_count
  <2> HIDE DEF l, y
  <2> QED
    BY <1>2, <2>1, <2>2, <2>3
<1>8. llds \in [nodes(stored) -> nodes(stored)]
      /\ id_compressed \in [nodes(stored) -> nodes(stored)]
      /\ id_parent \in [nodes(stored) -> nodes(stored)]
  BY DEF IndInv, TypeOK
<1>9. llds' = [llds EXCEPT ![c] = l]
  BY <1>5 DEF Dive
<1>10. llds' \in [nodes(stored) -> nodes(stored)]
  BY <1>2, <1>7, <1>8, <1>9, StateFacts
<1>11. \A x \in nodes(stored) : known(x) => llds'[x] = stored.lld[x]
  <2> SUFFICES ASSUME NEW x \in nodes(stored), known(x) PROVE llds'[x] = stored.lld[x]
    OBVIOUS
  <2>1. CASE x = c
    BY <1>7, <1>8, <1>9, <2>1
  <2>2. CASE x # c
    <3>1. llds[x] = stored.lld[x]
      BY <2>2, KnownFacts DEF fresh
    <3> QED
      BY <1>8, <1>9, <2>2, <3>1
  <2> QED
    BY <2>1, <2>2
<1> HIDE DEF l
<1>12. CASE children(stored, y) = {}
  <2>1. /\ c' = past_leaf(c) /\ pc' = "rise" /\ s' = s
        /\ id_compressed' = id_compressed /\ id_parent' = id_parent
    BY <1>5, <1>12 DEF Dive
  <2>2. stored.lld[c] = c
    <3>1. stored.lld[y] = y
      BY <1>2, <1>6, <1>12, NoChild
    <3>2. y \in Nat
      BY <1>2, <1>6, NodeTypes
    <3>3. y - stored.lld[y] = c - stored.lld[c]
      BY <1>6 DEF isomorphic, descendants_count
    <3> HIDE DEF y
    <3> QED
      BY <1>2, <3>1, <3>2, <3>3
  <2>3. c' \in nodes(stored)
    <3> HIDE DEF y
    <3> QED
      BY <1>2, <2>1 DEF past_leaf, nodes
  <2>4. \A x \in nodes(stored) : known(x)' <=> known(x)
    BY <1>1, <2>1 DEF known, is_decompressed
  <2>5. TypeOK'
    BY <1>1, <1>10, <2>1, <2>3 DEF IndInv, TypeOK
  <2>6. KnownIsRight'
    BY <1>1, <1>11, <2>1, <2>4, KnownFacts DEF KnownIsRight, first_descendant
  <2>7. Calls' /\ Together'
    <3> DEFINE N == {}
    <3>1. pc' \in Loops
      BY <2>1 DEF Loops
    <3>2. \A x \in N : parent(stored, x) \in Subtree(stored, cur)
      OBVIOUS
    <3>3. \A x \in nodes(stored) : known(x)' <=> known(x) \/ x \in N
      BY <2>4
    <3> HIDE DEF N
    <3> QED
      BY <1>1, <3>1, <3>2, <3>3, DescentKeeps
  <2>8. \A x \in c .. cur : known(x)'
    <3>1. \A x \in c .. cur : x \in nodes(stored)
      <4> HIDE DEF y
      <4> QED
        BY <1>2 DEF nodes
    <3> QED
      BY <1>3, <2>4, <3>1
  <2>9. Descent'
    BY <1>1, <1>2, <1>3, <2>1, <2>2, <2>8 DEF Descent
  <2> QED
    BY <2>5, <2>6, <2>7, <2>9 DEF IndInv
<1>13. CASE children(stored, y) # {}
  <2> DEFINE last == Max(children(stored, y))
             e == [p |-> c, rem |-> children(stored, y) \ {last}]
  <2>1. /\ c' = c - 1 /\ pc' = "dive" /\ s' = Append(s, e)
        /\ id_compressed' = [id_compressed EXCEPT ![c - 1] = tree_id(stored, last)]
        /\ id_parent' = [id_parent EXCEPT ![c - 1] = c]
    BY <1>1, <1>5, <1>13 DEF Dive
  <2>2. /\ c - 1 \in children(stored, c) /\ tree_id(stored, last) = tree_id(stored, c - 1)
        /\ on(stored, cur, c - 1, Append(s, e))
    <3> HIDE DEF last, e
    <3> QED
      BY <1>2, <1>3, <1>13, Push DEF last, e
  <2> HIDE DEF last, e
  <2>3. id_compressed' = [id_compressed EXCEPT ![c - 1] = tree_id(stored, c - 1)]
    BY <2>1, <2>2
  <2>4. /\ id_compressed' \in [nodes(stored) -> nodes(stored)]
        /\ id_parent' \in [nodes(stored) -> nodes(stored)]
        /\ c' \in nodes(stored)
        /\ \A x \in nodes(stored) : known(x)' <=> known(x) \/ x = c - 1
        /\ KnownIsRight' /\ Calls' /\ Together'
    BY <1>1, <1>2, <1>4, <1>11, <2>1, <2>2, <2>3, OneMore
  <2>5. s' \in Seq([p : nodes(stored), rem : SUBSET nodes(stored)])
    BY <1>2, <2>1, <2>2, EntriesTyped
  <2>6. TypeOK'
    BY <1>1, <1>10, <2>1, <2>4, <2>5 DEF IndInv, TypeOK
  <2>7. \A x \in (c - 1) .. cur : known(x)'
    <3>1. \A x \in (c - 1) .. cur : x = c - 1 \/ x \in c .. cur
      BY <1>2
    <3>2. \A x \in c .. cur : x \in nodes(stored)
      <4> HIDE DEF y
      <4> QED
        BY <1>2 DEF nodes
    <3>3. c - 1 \in nodes(stored)
      BY <2>1, <2>4
    <3> QED
      BY <1>3, <2>4, <3>1, <3>2, <3>3
  <2>8. Descent'
    BY <1>1, <2>1, <2>2, <2>7 DEF Descent
  <2> QED
    BY <2>4, <2>6, <2>8 DEF IndInv
<1> QED
  BY <1>12, <1>13

(* What holds while the descent climbs back: q is completed. *)
LEMMA Climbing ==
  ASSUME IndInv, pc = "rise",
         NEW q \in nodes(stored), on(stored, cur, q, s), c = past_leaf(stored.lld[q]),
         \A x \in stored.lld[q] .. cur : known(x), s # <<>>
  PROVE  /\ Last(s).p \in nodes(stored) /\ Last(s).p \in Subtree(stored, cur)
         /\ q \in children(stored, Last(s).p)
         /\ known(Last(s).p) /\ llds[Last(s).p] = stored.lld[Last(s).p]
<1> DEFINE p == Last(s).p
<1>1. IsTree(stored) /\ cur \in nodes(stored) /\ cur \in Nat
  BY StateFacts
<1>2. p \in Subtree(stored, cur) /\ q \in children(stored, p)
  BY <1>1, FrontOn DEF Entries, at_child
<1>3. p \in nodes(stored) /\ p \in Nat
  BY <1>1, <1>2, SubtreeInNodes, StateFacts
<1>4. q < p /\ q \in Nat /\ stored.lld[q] \in Nat /\ stored.lld[q] <= q
  BY <1>1, <1>2, <1>3, ChildSubtree, StateFacts
<1>5. p <= cur
  BY <1>1, <1>2, <1>3, StateFacts DEF Subtree
<1>6. known(p)
  <2>1. p \in stored.lld[q] .. cur
    <3> HIDE DEF p
    <3> QED
      BY <1>1, <1>3, <1>4, <1>5
  <2> QED
    BY <2>1
<1>7. llds[p] = stored.lld[p]
  BY <1>3, <1>6, KnownFacts DEF fresh
<1> QED
  BY <1>2, <1>3, <1>6, <1>7

(* The last child done, so is its parent. *)
LEMMA UnstackInd == IndInv /\ Unstack => IndInv'
<1> SUFFICES ASSUME IndInv, Unstack PROVE IndInv'
  OBVIOUS
<1> DEFINE p == Last(s).p
<1>1. /\ pc = "rise" /\ s # <<>> /\ Last(s).rem = {} /\ s' = Front(s)
      /\ pc' = IF c <= llds[p] THEN "rise" ELSE "stack_assert"
      /\ stored' = stored /\ id_compressed' = id_compressed /\ id_parent' = id_parent
      /\ llds' = llds /\ goal' = goal /\ cur' = cur /\ c' = c
      /\ pc \in Loops
  BY DEF Unstack, arrays, Loops
<1>2. PICK q \in nodes(stored) :
        /\ on(stored, cur, q, s)
        /\ c = past_leaf(stored.lld[q])
        /\ \A x \in stored.lld[q] .. cur : known(x)
  BY <1>1 DEF IndInv, Descent
<1>3. IsTree(stored) /\ cur \in nodes(stored) /\ stored.lld[q] \in Nat
  BY StateFacts
<1>4. p \in nodes(stored) /\ llds[p] = stored.lld[p]
  BY <1>1, <1>2, Climbing
<1>5. on(stored, cur, p, Front(s)) /\ stored.lld[q] = stored.lld[p]
  BY <1>1, <1>2, <1>3, Pop
<1>6. c <= llds[p]
  <2> HIDE DEF p
  <2> QED
    BY <1>2, <1>3, <1>4, <1>5 DEF past_leaf
<1>7. pc' = "rise"
  BY <1>1, <1>6
<1>8. \A x : known(x)' <=> known(x)
  BY <1>1 DEF known, is_decompressed
<1>9. TypeOK'
  <2>1. s' \in Seq([p : nodes(stored), rem : SUBSET nodes(stored)])
    BY <1>1, <1>3, <1>5, EntriesTyped
  <2> QED
    BY <1>1, <1>7, <2>1 DEF IndInv, TypeOK
<1>10. KnownIsRight'
  <2>1. \A x : ~fresh(x) /\ ~fresh(x)'
    BY <1>1, <1>7 DEF fresh
  <2> QED
    BY <1>1, <1>8, <2>1 DEF IndInv, KnownIsRight
<1>11. Calls' /\ Together'
  <2> DEFINE N == {}
  <2>1. pc' \in Loops
    BY <1>7 DEF Loops
  <2>2. \A x \in N : parent(stored, x) \in Subtree(stored, cur)
    OBVIOUS
  <2>3. \A x \in nodes(stored) : known(x)' <=> known(x) \/ x \in N
    BY <1>8
  <2> HIDE DEF N
  <2> QED
    BY <1>1, <2>1, <2>2, <2>3, DescentKeeps
<1>12. Descent'
  <2>1. /\ on(stored, cur, p, s') /\ c = past_leaf(stored.lld[p])
        /\ \A x \in stored.lld[p] .. cur : known(x)'
    BY <1>1, <1>2, <1>5, <1>8
  <2> HIDE DEF p
  <2> QED
    BY <1>1, <1>4, <1>7, <2>1 DEF Descent
<1> QED
  BY <1>9, <1>10, <1>11, <1>12 DEF IndInv

(* A child remains: it is the one that ends at the cursor. *)
LEMMA NextSiblingInd == IndInv /\ NextSibling => IndInv'
<1> SUFFICES ASSUME IndInv, NextSibling PROVE IndInv'
  OBVIOUS
<1> DEFINE p == Last(s).p
           z == Max(Last(s).rem)
           e == [p |-> p, rem |-> Last(s).rem \ {z}]
<1>1. /\ pc = "rise" /\ s # <<>> /\ Last(s).rem # {} /\ s' = Append(Front(s), e)
      /\ pc' = IF llds[p] <= c THEN "dive" ELSE "stack_assert"
      /\ id_parent' = [id_parent EXCEPT ![c] = p]
      /\ id_compressed' = [id_compressed EXCEPT ![c] = tree_id(stored, z)]
      /\ stored' = stored /\ llds' = llds /\ goal' = goal /\ cur' = cur /\ c' = c
      /\ pc \in Loops
  BY DEF NextSibling, Loops
<1>2. PICK q \in nodes(stored) :
        /\ on(stored, cur, q, s)
        /\ c = past_leaf(stored.lld[q])
        /\ \A x \in stored.lld[q] .. cur : known(x)
  BY <1>1 DEF IndInv, Descent
<1>3. /\ IsTree(stored) /\ cur \in nodes(stored) /\ stored.lld[q] \in Nat /\ cur \in Nat
      /\ c \in nodes(stored) /\ c \in Nat
  BY StateFacts
<1>4. /\ p \in nodes(stored) /\ p \in Subtree(stored, cur) /\ p \in Nat
      /\ llds[p] = stored.lld[p] /\ stored.lld[p] \in Nat
  BY <1>1, <1>2, Climbing, StateFacts
<1> DEFINE o == stored.lld[q] - 1
<1>5. /\ o \in children(stored, p) /\ tree_id(stored, z) = tree_id(stored, o)
      /\ on(stored, cur, o, Append(Front(s), e))
  <2> HIDE DEF z, e, o
  <2> QED
    BY <1>1, <1>2, <1>3, Following DEF z, e, o
<1> HIDE DEF z, e, p
<1>6. c = o /\ stored.lld[q] = c + 1
  <2>1. o \in Nat
    BY <1>3, <1>4, <1>5, ChildSubtree, StateFacts
  <2> QED
    BY <1>2, <1>3, <2>1 DEF past_leaf
<1> HIDE DEF o
<1>7. pc' = "dive"
  <2>1. stored.lld[p] <= c
    BY <1>5, <1>6 DEF children, descendants
  <2> QED
    BY <1>1, <1>4, <2>1
<1>8. id_compressed' = [id_compressed EXCEPT ![c] = tree_id(stored, c)]
  BY <1>1, <1>5, <1>6
<1>9. \A x \in nodes(stored) : known(x) => llds'[x] = stored.lld[x]
  <2>1. \A x : ~fresh(x)
    BY <1>1 DEF fresh
  <2> QED
    BY <1>1, <2>1, KnownFacts
<1>10. /\ id_compressed' \in [nodes(stored) -> nodes(stored)]
       /\ id_parent' \in [nodes(stored) -> nodes(stored)]
       /\ \A x \in nodes(stored) : known(x)' <=> known(x) \/ x = c
       /\ KnownIsRight' /\ Calls' /\ Together'
  <2>1. c \in children(stored, p) /\ c' = c
    BY <1>1, <1>5, <1>6
  <2> QED
    BY <1>1, <1>4, <1>7, <1>8, <1>9, <2>1, OneMore
<1>11. TypeOK'
  <2>1. s' \in Seq([p : nodes(stored), rem : SUBSET nodes(stored)])
    BY <1>1, <1>3, <1>5, EntriesTyped
  <2> QED
    BY <1>1, <1>7, <1>10, <2>1 DEF IndInv, TypeOK
<1>12. \A x \in c .. cur : known(x)'
  <2>1. \A x \in c .. cur : x = c \/ x \in stored.lld[q] .. cur
    BY <1>3, <1>6
  <2>2. \A x \in c .. cur : x \in nodes(stored)
    <3>1. root(stored) \in Nat
      BY StateFacts
    <3> QED
      BY <1>3, <3>1 DEF nodes
  <2> QED
    BY <1>2, <1>10, <2>1, <2>2
<1>13. Descent'
  BY <1>1, <1>5, <1>6, <1>7, <1>12 DEF Descent
<1> QED
  BY <1>10, <1>11, <1>13 DEF IndInv

(* The descent is over: the whole subtree of cur is known. *)
LEMMA EndContinuousInd == IndInv /\ EndContinuous => IndInv'
<1> SUFFICES ASSUME IndInv, EndContinuous PROVE IndInv'
  OBVIOUS
<1>1. /\ pc = "rise" /\ s = <<>> /\ pc \in Loops /\ pc \notin Panics
      /\ stored' = stored /\ id_compressed' = id_compressed /\ id_parent' = id_parent
      /\ llds' = llds /\ goal' = goal /\ c' = c /\ s' = s
      /\ \/ pc' = "complete" /\ cur' = llds[cur]
         \/ pc' = "end_assert" /\ cur' = cur
  BY DEF EndContinuous, arrays, loop, Loops, Panics
<1>2. PICK q \in nodes(stored) :
        on(stored, cur, q, s) /\ \A x \in stored.lld[q] .. cur : known(x)
  BY <1>1 DEF IndInv, Descent
<1>3. q = cur
  BY <1>1, <1>2 DEF on
<1>4. /\ IsTree(stored) /\ cur \in nodes(stored) /\ goal \in nodes(stored)
      /\ cur \in Nat /\ goal \in Nat /\ stored.lld[cur] \in Nat /\ stored.lld[cur] <= cur
      /\ stored.lld[cur] \in nodes(stored)
  BY StateFacts
<1>5. llds[cur] = stored.lld[cur]
  <2>1. known(cur)
    BY <1>2, <1>3, <1>4
  <2> QED
    BY <1>1, <1>4, <2>1, KnownFacts DEF fresh
<1>6. \A x : (known(x)' <=> known(x)) /\ ~fresh(x) /\ ~fresh(x)'
  BY <1>1 DEF known, is_decompressed, fresh
<1>7. TypeOK'
  BY <1>1, <1>4, <1>5 DEF IndInv, TypeOK, Panics
<1>8. KnownIsRight'
  BY <1>1, <1>6 DEF IndInv, KnownIsRight
<1>9. Descent'
  BY <1>1 DEF Descent
<1>10. CASE pc' = "end_assert"
  <2>1. Calls' /\ Together'
    BY <1>10 DEF Calls, Together, Loops, Panics
  <2> QED
    BY <1>7, <1>8, <1>9, <2>1 DEF IndInv
<1>11. CASE pc' = "complete"
  <2>1. cur' = stored.lld[cur]
    BY <1>1, <1>5, <1>11
  <2>2. cur \in Subtree(stored, goal) /\ \A x \in cur .. goal : known(x)
    BY <1>1 DEF IndInv, Calls
  <2>3. Calls'
    <3>1. cur <= goal
      BY <1>4, <2>2, StateFacts DEF Subtree
    <3>2. Subtree(stored, cur) \subseteq Subtree(stored, goal)
      BY <1>4, <2>2, <3>1, SubtreeInNodes, NestedOrDisjoint
    <3>3. cur' \in Subtree(stored, goal)
      BY <1>4, <2>1, <3>2 DEF Subtree
    <3>4. \A x \in stored.lld[cur] .. goal : x \in stored.lld[cur] .. cur \/ x \in cur .. goal
      BY <1>4
    <3>5. \A x \in stored.lld[cur] .. goal : known(x)'
      BY <1>2, <1>3, <1>6, <2>2, <3>4
    <3> QED
      BY <1>1, <1>11, <2>1, <3>3, <3>5 DEF Calls
  <2>4. Together'
    <3> SUFFICES ASSUME NEW x \in nodes(stored) \ {root(stored)},
                        NEW y \in nodes(stored) \ {root(stored)},
                        parent(stored, x) = parent(stored, y), known(x)
                 PROVE  known(y) /\ known(parent(stored, x))
      BY <1>1, <1>6 DEF Together
    <3> DEFINE p == parent(stored, x)
    <3>1. CASE p \notin Subtree(stored, cur)
      BY <1>1, <3>1 DEF IndInv, Together
    <3>2. CASE p \in Subtree(stored, cur)
      <4>1. is_descendant(stored, y, p)
        BY <1>4 DEF IsTree, ParentsClosest, parent
      <4>2. p \in nodes(stored)
        BY <1>4, <3>2, SubtreeInNodes
      <4>3. /\ stored.lld[cur] <= stored.lld[p] /\ p <= cur /\ stored.lld[cur] <= p
            /\ p \in Nat /\ stored.lld[p] \in Nat /\ y \in Nat
        BY <1>4, <3>2, <4>2, StateFacts DEF IsTree, Laminar, Subtree
      <4>4. y \in stored.lld[cur] .. cur /\ p \in stored.lld[cur] .. cur
        <5> HIDE DEF p
        <5> QED
          BY <1>4, <4>1, <4>3 DEF is_descendant
      <4> QED
        BY <1>2, <1>3, <4>4
    <3> QED
      BY <3>1, <3>2
  <2> QED
    BY <1>7, <1>8, <1>9, <2>3, <2>4 DEF IndInv
<1> QED
  BY <1>1, <1>10, <1>11

(* Nothing changes. *)
LEMMA StutterInd == IndInv /\ UNCHANGED vars => IndInv'
<1> SUFFICES ASSUME IndInv, UNCHANGED vars PROVE IndInv'
  OBVIOUS
<1>1. /\ stored' = stored /\ id_compressed' = id_compressed /\ id_parent' = id_parent
      /\ llds' = llds /\ goal' = goal /\ cur' = cur /\ c' = c /\ s' = s /\ pc' = pc
  BY DEF vars, arrays, loop
<1>2. TypeOK'
  BY <1>1 DEF IndInv, TypeOK
<1>3. \A x : (known(x)' <=> known(x)) /\ (fresh(x)' <=> fresh(x))
  BY <1>1 DEF known, is_decompressed, fresh
<1>4. KnownIsRight'
  BY <1>1, <1>3 DEF IndInv, KnownIsRight
<1>5. Calls' /\ Descent' /\ Together'
  BY <1>1, <1>3 DEF IndInv, Calls, Descent, Together
<1> QED
  BY <1>2, <1>4, <1>5 DEF IndInv
-----------------------------------------------------------------------------
(* The invariant holds in every state: one step per action. *)
THEOREM Inductive == Spec => []IndInv
<1>1. IndInv /\ [Next \/ Panicked]_vars => IndInv'
  <2> SUFFICES ASSUME IndInv, [Next \/ Panicked]_vars PROVE IndInv'
    OBVIOUS
  <2>1. CASE UNCHANGED vars
    BY <2>1, StutterInd
  <2>2. CASE Panicked
    BY <2>2, StutterInd DEF Panicked
  <2>3. CASE \E x \in nodes(stored) : DecompressChildren(x)
    BY <2>3, DecompressChildrenInd
  <2>4. CASE (\E x \in nodes(stored) : StartTo(x) \/ StartComplete(x)) \/ SeekRight \/ EndTo
    BY <2>4, SeekInd
  <2>5. CASE Descend
    BY <2>5, DescendInd
  <2>6. CASE SkipKnown \/ StartContinuous
    BY <2>6, CompleteInd
  <2>7. CASE EndComplete
    BY <2>7, EndCompleteInd
  <2>8. CASE Dive
    BY <2>8, DiveInd
  <2>9. CASE Unstack
    BY <2>9, UnstackInd
  <2>10. CASE NextSibling
    BY <2>10, NextSiblingInd
  <2>11. CASE EndContinuous
    BY <2>11, EndContinuousInd
  <2> QED
    BY <2>1, <2>2, <2>3, <2>4, <2>5, <2>6, <2>7, <2>8, <2>9, <2>10, <2>11
    DEF Next, Call, Step
<1> QED
  BY InitInd, <1>1, PTL DEF Spec

(* The arrays, the cursors and the stack hold positions of the version. *)
THEOREM TypeCorrect == Spec => []TypeOK
<1>1. IndInv => TypeOK
  BY DEF IndInv
<1> QED
  BY Inductive, <1>1, PTL

(***************************************************************************)
(* Whatever calls are made, in whatever order, an entry that counts as     *)
(* decompressed holds the node, the parent and the lld of the eager        *)
(* numbering.                                                              *)
(***************************************************************************)
THEOREM KnownStaysRight == Spec => []KnownIsRight
<1>1. IndInv => KnownIsRight
  BY DEF IndInv
<1> QED
  BY Inductive, <1>1, PTL

(* Outside a descent, siblings are decompressed together and after their parent. *)
THEOREM SiblingsStayTogether == Spec => []SiblingsTogether
<1>1. IndInv => SiblingsTogether
  BY DEF IndInv, Together, SiblingsTogether, Loops, Panics
<1> QED
  BY Inductive, <1>1, PTL

(***************************************************************************)
(* complete_subtree returns only when its whole subtree is decompressed,   *)
(* decompress_to only when its argument is.                                *)
(***************************************************************************)
THEOREM CallsAlwaysDeliver == Spec => CallsDeliver
<1> DEFINE delivered == /\ pc = "complete" /\ pc' = "idle" =>
                             \A x \in Subtree(stored, goal) : known(x)'
                        /\ pc = "seek" /\ pc' = "idle" => known(goal)'
<1>1. IndInv /\ [Next \/ Panicked]_vars => [delivered]_vars
  <2> SUFFICES ASSUME IndInv, [Next \/ Panicked]_vars PROVE delivered \/ UNCHANGED vars
    OBVIOUS
  <2>1. ASSUME pc = "complete", pc' = "idle" PROVE \A x \in Subtree(stored, goal) : known(x)'
    <3>1. EndComplete
      BY <2>1 DEF Next, Call, Step, Panicked, vars, Panics, DecompressChildren, StartTo,
                  StartComplete, SeekRight, Descend, EndTo, SkipKnown, StartContinuous,
                  Dive, Unstack, NextSibling, EndContinuous
    <3>2. /\ cur \in Subtree(stored, goal) /\ \A x \in cur .. goal : known(x)
      BY <2>1 DEF IndInv, Calls
    <3>3. /\ IsTree(stored) /\ goal \in nodes(stored) /\ goal \in Nat /\ cur \in Nat
          /\ stored.lld[goal] \in Nat
      BY StateFacts
    <3>4. known(goal)
      BY <3>2, <3>3 DEF Subtree
    <3>5. cur <= stored.lld[goal]
      BY <2>1, <3>1, <3>3, <3>4, KnownFacts DEF EndComplete, fresh
    <3>6. \A x \in Subtree(stored, goal) : x \in cur .. goal /\ x \in nodes(stored)
      <4>1. \A x \in Subtree(stored, goal) : x \in cur .. goal
        BY <3>3, <3>5 DEF Subtree
      <4> QED
        BY <3>3, <4>1, SubtreeInNodes
    <3>7. \A z \in nodes(stored) : known(z) => known(z)'
      BY <2>1, <3>1, <3>3, <3>4, ChildrenRight DEF EndComplete, Loops
    <3> QED
      BY <3>2, <3>6, <3>7
  <2>2. ASSUME pc = "seek", pc' = "idle" PROVE known(goal)'
    <3>1. EndTo \/ Descend
      BY <2>2 DEF Next, Call, Step, Panicked, vars, Panics, DecompressChildren, StartTo,
                  StartComplete, SeekRight, SkipKnown, StartContinuous, EndComplete,
                  Dive, Unstack, NextSibling, EndContinuous
    <3>2. EndTo
      BY <2>2, <3>1 DEF Descend, decompress_children
    <3> QED
      BY <3>2 DEF EndTo, arrays, known, is_decompressed
  <2> QED
    BY <2>1, <2>2
<1> QED
  BY Inductive, <1>1, PTL DEF Spec, CallsDeliver
-----------------------------------------------------------------------------
(***************************************************************************)
(* The rank of a child: 0 where its parent starts, else one more than that *)
(* of the child that ends just before it.                                  *)
(***************************************************************************)
rank(t, x, y) == Cardinality({e \in children(t, x) : e < y})

LEMMA RankFacts ==
  ASSUME NEW t, IsTree(t), NEW x \in nodes(t), NEW y \in children(t, x)
  PROVE  /\ t.lld[y] = t.lld[x] => rank(t, x, y) = 0
         /\ t.lld[y] # t.lld[x] => /\ t.lld[y] - 1 \in children(t, x) /\ t.lld[y] - 1 < y
                                   /\ rank(t, x, y) = 1 + rank(t, x, t.lld[y] - 1)
<1> DEFINE below(z) == {e \in children(t, x) : e < z}
<1>1. /\ \A e \in children(t, x) : e \in Nat /\ t.lld[x] <= e
      /\ x \in Nat /\ t.lld[x] \in Nat /\ t.lld[y] \in Nat /\ y \in Nat
      /\ children(t, x) \subseteq 0 .. x
  <2>1. x \in Nat /\ t.lld[x] \in Nat /\ y \in nodes(t)
    BY NodeTypes, ChildSubtree
  <2>2. t.lld[y] \in Nat /\ y \in Nat
    BY <2>1, NodeTypes
  <2> QED
    BY <2>1, <2>2 DEF children, descendants
<1>2. CASE t.lld[y] = t.lld[x]
  <2>1. ASSUME NEW e \in below(y) PROVE FALSE
    <3>1. e < t.lld[y]
      BY <2>1, SiblingsApart
    <3> QED
      BY <1>1, <1>2, <3>1
  <2>2. below(y) = {}
    BY <2>1
  <2> QED
    BY <1>2, <2>2, FS_EmptySet DEF rank
<1>3. CASE t.lld[y] # t.lld[x]
  <2>1. below(y) # {}
    <3>1. \E o \in children(t, x) : ~(y <= o)
      BY <1>3, FirstChild
    <3> QED
      BY <1>1, <3>1
  <2>2. below(y) \subseteq Nat /\ \A e \in below(y) : e <= y
    BY <1>1
  <2> DEFINE o == Max(below(y))
  <2> HIDE DEF below
  <2>3. o \in below(y) /\ \A e \in below(y) : e <= o
    BY <1>1, <2>1, <2>2, MaxOfBounded
  <2> HIDE DEF o
  <2> USE DEF below
  <2>4. o \in children(t, x) /\ o < y /\ \A e \in children(t, x) : e < y => e <= o
    BY <2>3
  <2>5. o = t.lld[y] - 1
    BY <2>4, PreviousChild
  <2>6. below(y) = below(o) \cup {o} /\ o \notin below(o)
    BY <1>1, <2>4
  <2>7. IsFiniteSet(below(o))
    <3>1. IsFiniteSet(0 .. x) /\ below(o) \in SUBSET (0 .. x)
      BY <1>1, FS_Interval
    <3> HIDE DEF below
    <3> QED
      BY <3>1, FS_Subset
  <2> HIDE DEF below
  <2>8. Cardinality(below(y)) = Cardinality(below(o)) + 1
    BY <2>6, <2>7, FS_AddElement
  <2>9. Cardinality(below(o)) \in Nat
    BY <2>7, FS_CardinalityType
  <2>10. rank(t, x, y) = 1 + rank(t, x, o)
    BY <2>8, <2>9 DEF rank, below
  <2> QED
    BY <1>3, <2>4, <2>5, <2>10
<1> QED
  BY <1>2, <1>3

(* Between calls the walk from a known node takes as many steps as its rank. *)
LEMMA WalkIsRank ==
  ASSUME IndInv, pc = "idle", NEW x \in nodes(stored) \ {root(stored)}, known(x)
  PROVE  position_in_parent(x) = rank(stored, parent(stored, x), x)
<1> DEFINE p == parent(stored, x)
           C == children(stored, p)
           first == llds[id_parent[x]]
           siblings == {y \in nodes(stored) \ {root(stored)} : id_parent[y] = id_parent[x]}
           F(g) == g = [y \in siblings |-> IF llds[y] = first THEN 0 ELSE 1 + g[llds[y] - 1]]
           r == root(stored)
           f == [y \in siblings |-> rank(stored, p, y)]
           steps == CHOOSE g : F(g)
<1>1. /\ IsTree(stored) /\ r \in nodes(stored) /\ x \in Nat /\ nodes(stored) \subseteq Nat
      /\ p \in nodes(stored) /\ p \in Nat /\ x < p /\ x \in C
  <2>1. IsTree(stored) /\ r \in nodes(stored) /\ x \in Nat /\ nodes(stored) \subseteq Nat
    BY StateFacts
  <2>2. p \in nodes(stored) /\ x \in C
    BY <2>1, ParentFacts
  <2> QED
    BY <2>1, <2>2, ChildSubtree
<1>2. /\ id_parent[x] = p /\ known(p) /\ \A e \in C : known(e) /\ e # r /\ e \in nodes(stored)
  <2>1. id_parent[x] = p
    BY KnownFacts
  <2>2. \A e \in C : e \in nodes(stored) /\ e < p /\ parent(stored, e) = p
    BY <1>1, ChildSubtree DEF children, parent
  <2>3. \A e \in C : e # r
    BY <1>1, <2>2 DEF nodes
  <2>4. known(p) /\ \A e \in C : known(e)
    BY <1>1, <2>2, <2>3 DEF IndInv, Together, Loops, Panics
  <2> QED
    BY <2>1, <2>2, <2>3, <2>4
<1>3. /\ first = stored.lld[p]
      /\ \A e \in C : llds[e] = stored.lld[e] /\ e \in siblings
  <2>1. \A y \in nodes(stored) : known(y) => llds[y] = stored.lld[y]
    BY KnownFacts DEF fresh
  <2>2. \A e \in C : id_parent[e] = p
    BY <1>1, <1>2, KnownFacts DEF children, parent
  <2> QED
    BY <1>1, <1>2, <2>1, <2>2
<1>4. \A y \in siblings : y \in C
  <2> SUFFICES ASSUME NEW y \in siblings PROVE y \in C
    OBVIOUS
  <2>1. id_parent[y] = p /\ p # 0 /\ y \in nodes(stored)
    BY <1>1, <1>2
  <2>2. known(y)
    BY <2>1 DEF known, is_decompressed
  <2>3. y # r
    OBVIOUS
  <2>4. parent(stored, y) = p
    BY <2>1, <2>2, <2>3, KnownFacts
  <2> QED
    BY <1>1, <2>1, <2>3, <2>4, ParentFacts
<1>5. \A e \in C : /\ llds[e] = first => rank(stored, p, e) = 0
                   /\ llds[e] # first => /\ llds[e] - 1 \in C /\ llds[e] - 1 < e
                                         /\ rank(stored, p, e) = 1 + rank(stored, p, llds[e] - 1)
  BY <1>1, <1>3, RankFacts
<1> HIDE DEF p, C, first, r
<1>6. F(f)
  <2>1. ASSUME NEW y \in siblings
        PROVE  f[y] = IF llds[y] = first THEN 0 ELSE 1 + f[llds[y] - 1]
    <3>1. y \in C /\ f[y] = rank(stored, p, y)
      BY <1>4
    <3>2. CASE llds[y] = first
      BY <1>5, <3>1, <3>2
    <3>3. CASE llds[y] # first
      <4> DEFINE z == llds[y] - 1
      <4>1. z \in C /\ rank(stored, p, y) = 1 + rank(stored, p, z)
        BY <1>5, <3>1, <3>3
      <4> HIDE DEF z
      <4>2. f[z] = rank(stored, p, z)
        BY <1>3, <4>1
      <4> QED
        BY <3>1, <3>3, <4>1, <4>2 DEF z
    <3> QED
      BY <3>2, <3>3
  <2>2. f = [y \in siblings |-> f[y]]
    OBVIOUS
  <2> HIDE DEF f, siblings
  <2> QED
    BY <2>1, <2>2
<1>7. F(steps)
  <2> HIDE DEF F
  <2> QED
    BY <1>6
<1>8. position_in_parent(x) = steps[x]
  BY DEF position_in_parent, first, steps
<1> HIDE DEF steps
<1> DEFINE bad == {y \in C : steps[y] # rank(stored, p, y)}
<1>9. ASSUME bad # {} PROVE FALSE
  <2>1. bad \subseteq Nat
    BY <1>1, <1>2
  <2>2. PICK y \in bad : \A z \in bad : y <= z
    BY <1>9, <2>1, NatMinExists
  <2>3. y \in C /\ y \in siblings /\ steps[y] # rank(stored, p, y)
    BY <1>3, <2>2
  <2>4. steps[y] = IF llds[y] = first THEN 0 ELSE 1 + steps[llds[y] - 1]
    BY <1>7, <2>3
  <2>5. llds[y] # first
    BY <1>5, <2>3, <2>4
  <2> DEFINE z == llds[y] - 1
  <2>6. z \in C /\ z < y /\ rank(stored, p, y) = 1 + rank(stored, p, z)
    BY <1>5, <2>3, <2>5
  <2>7. steps[y] = 1 + steps[z]
    BY <2>4, <2>5
  <2> HIDE DEF z
  <2>8. z \notin bad
    <3>1. z \in Nat /\ y \in Nat
      BY <1>1, <1>2, <2>3, <2>6
    <3> QED
      BY <2>2, <2>6, <3>1
  <2> QED
    BY <2>3, <2>6, <2>7, <2>8
<1> QED
  BY <1>1, <1>8, <1>9 DEF p

(***************************************************************************)
(* position_in_parent is the rank of the node among its siblings.          *)
(***************************************************************************)
THEOREM PositionsStayRight == Spec => []PositionsRight
<1>1. IndInv => PositionsRight
  BY WalkIsRank DEF PositionsRight, rank
<1> QED
  BY Inductive, <1>1, PTL
=============================================================================
