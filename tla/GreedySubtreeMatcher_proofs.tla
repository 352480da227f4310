--------------------- MODULE GreedySubtreeMatcher_proofs ---------------------
(***************************************************************************)
(* The subtree matcher, for every set of trees and every MIN_HEIGHT: its   *)
(* safety, and what it achieves.                                           *)
(***************************************************************************)
EXTENDS GreedySubtreeMatcher, PostOrderTree_proofs

LEMMA UpdateHeight ==
  ASSUME NEW t, IsTree(t), NEW S, S \subseteq nodes(t)
  PROVE  /\ update_height(t, S).trees = S
         /\ update_height(t, S) \in Lists(t)
         /\ S = {} => update_height(t, S).peek = -1
         /\ S # {} => /\ update_height(t, S).peek \in Nat
                      /\ \E x \in S : t.height[x] = update_height(t, S).peek
                      /\ \A x \in S : t.height[x] <= update_height(t, S).peek
<1> DEFINE heights == {t.height[x] : x \in S}
<1>1. heights \subseteq Nat
  BY NodeTypes
<1>2. root(t) \in Nat
  BY RootIsNode, NodeTypes
<1>3. ASSUME NEW x \in S PROVE t.height[x] <= root(t)
  <2>1. x \in Nat /\ x <= root(t) /\ t.height[x] \in Nat /\ t.height[x] <= x
    BY NodeTypes, HeightBounded
  <2> QED
    BY <2>1, <1>2
<1>4. CASE S = {}
  BY <1>4 DEF update_height, Lists
<1>5. CASE S # {}
  <2>1. heights # {} /\ \A h \in heights : h <= root(t)
    BY <1>3, <1>5
  <2>2. Max(heights) \in heights /\ \A h \in heights : h <= Max(heights)
    BY <1>1, <1>2, <2>1, MaxOfBounded
  <2>3. update_height(t, S) = [trees |-> S, peek |-> Max(heights)]
    BY <1>5 DEF update_height
  <2> HIDE DEF heights
  <2>4. update_height(t, S).trees = S /\ update_height(t, S).peek = Max(heights)
    BY <2>3
  <2>5. Max(heights) \in Nat /\ S \in SUBSET nodes(t)
    BY <2>2, <1>1
  <2>6. update_height(t, S) \in Lists(t)
    BY <2>5, <2>3 DEF Lists
  <2>7. \E x \in S : t.height[x] = Max(heights)
    BY <2>2 DEF heights
  <2>8. \A x \in S : t.height[x] <= Max(heights)
    BY <2>2 DEF heights
  <2> QED
    BY <2>4, <2>5, <2>6, <2>7, <2>8, <1>5
<1> QED
  BY <1>4, <1>5

LEMMA ListFacts ==
  ASSUME NEW t, IsTree(t), NEW list, ListOK(t, list)
  PROVE  /\ list \in Lists(t)
         /\ top_level(t, list) \subseteq list.trees
         /\ list.trees \subseteq nodes(t)
         /\ list.peek = -1 <=> list.trees = {}
         /\ list.peek # -1 => \E x \in top_level(t, list) : TRUE
         /\ list.peek # -1 => list.peek \in Nat /\ list.peek >= MIN_HEIGHT
<1>1. list.trees \subseteq nodes(t)
  BY DEF ListOK, listed
<1>2. \A x \in list.trees : t.height[x] >= MIN_HEIGHT
  BY DEF ListOK, listed
<1>3. list = update_height(t, list.trees)
  BY DEF ListOK
<1> QED
  BY <1>1, <1>2, <1>3, UpdateHeight, MinHeightAssumption DEF top_level

(***************************************************************************)
(* Taking the top level out of a list, setting aside its matched trees and *)
(* opening the others (T) keeps the list and the trees set aside apart.    *)
(***************************************************************************)
LEMMA ReplaceLevel ==
  ASSUME NEW t, IsTree(t), NEW list, ListOK(t, list),
         NEW M, M \subseteq nodes(t), list.trees \cap M = {},
         Disjoint(t, list.trees \cup M),
         NEW T, T \subseteq top_level(t, list)
  PROVE  /\ ListOK(t, replace_top(t, list, T))
         /\ replace_top(t, list, T) \in Lists(t)
         /\ replace_top(t, list, T).trees \cap (M \cup (top_level(t, list) \ T)) = {}
         /\ Disjoint(t, replace_top(t, list, T).trees \cup (M \cup (top_level(t, list) \ T)))
<1> DEFINE C == open_trees(t, T)
           top == top_level(t, list)
           S == (list.trees \ top) \cup C
           M2 == M \cup (top \ T)
<1>1. top \subseteq list.trees /\ list.trees \subseteq nodes(t)
  BY ListFacts
<1>2. C \subseteq UNION {children(t, x) : x \in T}
  BY DEF open_trees, listed
<1>3. /\ C \subseteq nodes(t)
      /\ C \cap ((list.trees \cup M) \ T) = {}
      /\ Disjoint(t, ((list.trees \cup M) \ T) \cup C)
  <2> DEFINE all == list.trees \cup M
  <2>1. all \subseteq nodes(t) /\ T \subseteq all /\ Disjoint(t, all)
    BY <1>1
  <2> HIDE DEF C, top, all
  <2>2. C \subseteq nodes(t) /\ C \cap (all \ T) = {} /\ Disjoint(t, (all \ T) \cup C)
    BY <1>2, <2>1, OpenKeepsDisjoint
  <2> QED
    BY <2>2 DEF all
<1>4. S = (list.trees \ top) \cup C
  OBVIOUS
<1>5. S \cup M2 \subseteq ((list.trees \cup M) \ T) \cup C
  BY <1>1, <1>4
<1>6. Disjoint(t, S \cup M2)
  BY <1>3, <1>5 DEF Disjoint
<1>7. S \cap M2 = {}
  BY <1>1, <1>3, <1>4
<1>8. S \subseteq listed(t, nodes(t)) /\ S \subseteq nodes(t)
  <2>1. \A x \in C : t.height[x] >= MIN_HEIGHT
    BY DEF open_trees, listed
  <2>2. \A x \in list.trees : t.height[x] >= MIN_HEIGHT
    BY DEF ListOK, listed
  <2> QED
    BY <2>1, <2>2, <1>1, <1>3, <1>4 DEF listed
<1>9. update_height(t, S).trees = S /\ update_height(t, S) \in Lists(t)
  BY <1>8, UpdateHeight
<1>10. ListOK(t, update_height(t, S))
  BY <1>8, <1>9 DEF ListOK
<1>11. replace_top(t, list, T) = update_height(t, S)
  BY DEF replace_top
<1> HIDE DEF S
<1> QED
  BY <1>6, <1>7, <1>9, <1>10, <1>11

(* While the inner loop runs, opening the higher list leaves it non-empty. *)
LEMMA OpenNotEmpty ==
  ASSUME NEW t, IsTree(t), NEW list, ListOK(t, list),
         NEW low \in Nat, low >= MIN_HEIGHT, list.peek > low
  PROVE  /\ ListOK(t, open(t, list)) /\ open(t, list) \in Lists(t)
         /\ open(t, list).peek # -1
<1> DEFINE top == top_level(t, list)
           S == (list.trees \ top) \cup open_trees(t, top)
<1>1. open(t, list) = update_height(t, S)
  BY DEF open, replace_top
<1>2. list.peek # -1 /\ list.peek \in Nat
  BY ListFacts DEF Lists
<1>3. PICK x \in top : t.height[x] = list.peek
  BY <1>2, ListFacts DEF top_level
<1>4. x \in nodes(t)
  BY <1>3, ListFacts
<1>5. t.height[x] # 0
  BY <1>2, <1>3
<1>6. PICK c \in children(t, x) : t.height[c] = t.height[x] - 1
  BY <1>4, <1>5 DEF IsTree, HeightsLayered
<1>7. t.height[c] >= MIN_HEIGHT
  BY <1>2, <1>3, <1>6, MinHeightAssumption
<1>8. c \in open_trees(t, top)
  BY <1>3, <1>6, <1>7 DEF open_trees, listed
<1>9. S # {}
  BY <1>8
<1>10. S \subseteq listed(t, nodes(t)) /\ S \subseteq nodes(t)
  <2>1. top \subseteq list.trees /\ list.trees \subseteq nodes(t)
    BY ListFacts
  <2>2. open_trees(t, top) \subseteq listed(t, nodes(t))
    BY <2>1, ChildSubtree DEF open_trees, listed
  <2>3. list.trees \subseteq listed(t, nodes(t))
    BY DEF ListOK
  <2> QED
    BY <2>1, <2>2, <2>3 DEF listed
<1> HIDE DEF S
<1> QED
  BY <1>1, <1>9, <1>10, UpdateHeight DEF ListOK
-----------------------------------------------------------------------------
(***************************************************************************)
(* add_mapping_recursively on two isomorphic subtrees without any mapped   *)
(* node keeps the store one-to-one and marks exactly these two subtrees.   *)
(***************************************************************************)
LEMMA AddMapping ==
  ASSUME NEW t, IsTree(t), NEW u, IsTree(u),
         NEW m \in Stores(t.len, u.len), OneToOne(m, nodes(t), nodes(u)),
         NEW s \in nodes(t), NEW d \in nodes(u), isomorphic(t, s, u, d),
         \A x \in Subtree(t, s) : ~is_src(m, x),
         \A y \in Subtree(u, d) : ~is_dst(m, y),
         NEW m2, m2 = link_ranges(m, s, d, descendants_count(t, s))
  PROVE  /\ m2 \in Stores(t.len, u.len)
         /\ OneToOne(m2, nodes(t), nodes(u))
         /\ \A x \in nodes(t) : is_src(m2, x) <=> is_src(m, x) \/ x \in Subtree(t, s)
         /\ \A y \in nodes(u) : is_dst(m2, y) <=> is_dst(m, y) \/ y \in Subtree(u, d)
<1> DEFINE n == descendants_count(t, s)
<1>1. /\ s \in Int /\ d \in Int /\ n \in Nat
      /\ t.len \in Nat /\ u.len \in Nat
      /\ t.lld[s] \in Int /\ u.lld[d] \in Int /\ n = s - t.lld[s]
      /\ s < t.len /\ d < u.len /\ 0 <= t.lld[s] /\ 0 <= u.lld[d]
  BY NodeTypes DEF descendants_count
<1>2. n = d - u.lld[d]
  BY DEF isomorphic, descendants_count
<1>3. s - n .. s = Subtree(t, s) /\ d - n .. d = Subtree(u, d)
  BY <1>1, <1>2 DEF Subtree
<1>4. /\ m.src_to_dst \in [0 .. t.len -> 0 .. u.len]
      /\ m.dst_to_src \in [0 .. u.len -> 0 .. t.len]
  BY DEF Stores
<1>5. nodes(t) = 0 .. t.len - 1 /\ nodes(u) = 0 .. u.len - 1
  BY DEF nodes, root
<1> DEFINE f == [x \in 0 .. t.len |->
                   IF x \in Subtree(t, s) THEN x - s + d + 1 ELSE m.src_to_dst[x]]
           g == [y \in 0 .. u.len |->
                   IF y \in Subtree(u, d) THEN y - d + s + 1 ELSE m.dst_to_src[y]]
<1>6. m2 = [src_to_dst |-> f, dst_to_src |-> g]
  BY <1>3, <1>4 DEF link_ranges
<1>7. m2.src_to_dst = f /\ m2.dst_to_src = g
  BY <1>6
<1> HIDE DEF n
<1>8. f \in [0 .. t.len -> 0 .. u.len] /\ g \in [0 .. u.len -> 0 .. t.len]
  <2>1. ASSUME NEW x \in 0 .. t.len PROVE f[x] \in 0 .. u.len
    <3>1. CASE x \in Subtree(t, s)
      <4>1. f[x] = x - s + d + 1
        BY <3>1
      <4>2. x \in Int /\ t.lld[s] <= x /\ x <= s
        BY <3>1, <1>1 DEF Subtree
      <4> QED
        BY <4>1, <4>2, <1>1, <1>2, SMTT(20)
    <3>2. CASE x \notin Subtree(t, s)
      BY <3>2, <1>4
    <3> QED
      BY <3>1, <3>2
  <2>2. ASSUME NEW y \in 0 .. u.len PROVE g[y] \in 0 .. t.len
    <3>1. CASE y \in Subtree(u, d)
      <4>1. g[y] = y - d + s + 1
        BY <3>1
      <4>2. y \in Int /\ u.lld[d] <= y /\ y <= d
        BY <3>1, <1>1 DEF Subtree
      <4> QED
        BY <4>1, <4>2, <1>1, <1>2, SMTT(20)
    <3>2. CASE y \notin Subtree(u, d)
      BY <3>2, <1>4
    <3> QED
      BY <3>1, <3>2
  <2> QED
    BY <2>1, <2>2
<1>10. m2 \in Stores(t.len, u.len)
  BY <1>8, <1>6 DEF Stores
<1>11. ASSUME NEW x \in nodes(t)
       PROVE  /\ x \in Subtree(t, s) => m2.src_to_dst[x] = x - s + d + 1
              /\ x \notin Subtree(t, s) => m2.src_to_dst[x] = m.src_to_dst[x]
              /\ m.src_to_dst[x] \in 0 .. u.len
              /\ x \in Int
  <2>1. x \in 0 .. t.len /\ x \in Int
    BY <1>5, <1>1
  <2>2. m2.src_to_dst[x] =
          IF x \in Subtree(t, s) THEN x - s + d + 1 ELSE m.src_to_dst[x]
    BY <2>1, <1>7
  <2>3. m.src_to_dst[x] \in 0 .. u.len
    BY <2>1, <1>4
  <2> QED
    BY <2>1, <2>2, <2>3
<1>12. ASSUME NEW y \in nodes(u)
       PROVE  /\ y \in Subtree(u, d) => m2.dst_to_src[y] = y - d + s + 1
              /\ y \notin Subtree(u, d) => m2.dst_to_src[y] = m.dst_to_src[y]
              /\ m.dst_to_src[y] \in 0 .. t.len
              /\ y \in Int
  <2>1. y \in 0 .. u.len /\ y \in Int
    BY <1>5, <1>1
  <2>2. m2.dst_to_src[y] =
          IF y \in Subtree(u, d) THEN y - d + s + 1 ELSE m.dst_to_src[y]
    BY <2>1, <1>7
  <2>3. m.dst_to_src[y] \in 0 .. t.len
    BY <2>1, <1>4
  <2> QED
    BY <2>1, <2>2, <2>3
<1> HIDE DEF f, g
<1>13. \A x \in Subtree(t, s) : x - s + d \in Subtree(u, d) /\ x - s + d + 1 # 0 /\ x \in Int
  BY <1>1, <1>2 DEF Subtree
<1>14. \A y \in Subtree(u, d) : y - d + s \in Subtree(t, s) /\ y - d + s + 1 # 0 /\ y \in Int
  BY <1>1, <1>2 DEF Subtree
<1>15. Subtree(t, s) \subseteq nodes(t) /\ Subtree(u, d) \subseteq nodes(u)
  BY SubtreeInNodes
<1>16. \A x \in nodes(t) : is_src(m2, x) <=> is_src(m, x) \/ x \in Subtree(t, s)
  BY <1>11, <1>13 DEF is_src
<1>17. \A y \in nodes(u) : is_dst(m2, y) <=> is_dst(m, y) \/ y \in Subtree(u, d)
  BY <1>12, <1>14 DEF is_dst
<1>18. ASSUME NEW x \in nodes(t), is_src(m2, x)
       PROVE  has(m2, x, get_dst_unchecked(m2, x))
  <2>1. CASE x \in Subtree(t, s)
    <3>1. m2.src_to_dst[x] = x - s + d + 1 /\ x - s + d \in Subtree(u, d) /\ x \in Int
      BY <2>1, <1>11, <1>13
    <3>2. m2.dst_to_src[x - s + d] = (x - s + d) - d + s + 1
      BY <3>1, <1>12, <1>15
    <3> QED
      BY <3>1, <3>2, <1>1 DEF has, get_dst_unchecked
  <2>2. CASE x \notin Subtree(t, s)
    <3>1. m2.src_to_dst[x] = m.src_to_dst[x] /\ is_src(m, x) /\ x \in Int
      BY <2>2, <1>11, <1>16, <1>18
    <3>2. m.src_to_dst[x] \in 0 .. u.len /\ m.src_to_dst[x] # 0
      BY <3>1, <1>11 DEF is_src
    <3> DEFINE y == m.src_to_dst[x] - 1
    <3>3. y \in nodes(u) /\ y + 1 = m.src_to_dst[x]
      BY <3>2, <1>5, <1>1, SMTT(20)
    <3>4. has(m, x, y)
      BY <3>1 DEF OneToOne, get_dst_unchecked
    <3>5. m.dst_to_src[y] = x + 1
      BY <3>4 DEF has
    <3>6. is_dst(m, y)
      BY <3>1, <3>5, <1>5, <1>1 DEF is_dst
    <3>7. y \notin Subtree(u, d)
      BY <3>6
    <3>8. m2.dst_to_src[y] = x + 1
      BY <3>3, <3>5, <3>7, <1>12
    <3> QED
      BY <3>1, <3>3, <3>8 DEF has, get_dst_unchecked
  <2> QED
    BY <2>1, <2>2
<1>19. ASSUME NEW y \in nodes(u), is_dst(m2, y)
       PROVE  has(m2, get_src_unchecked(m2, y), y)
  <2>1. CASE y \in Subtree(u, d)
    <3>1. m2.dst_to_src[y] = y - d + s + 1 /\ y - d + s \in Subtree(t, s) /\ y \in Int
      BY <2>1, <1>12, <1>14
    <3>2. m2.src_to_dst[y - d + s] = (y - d + s) - s + d + 1
      BY <3>1, <1>11, <1>15
    <3> QED
      BY <3>1, <3>2, <1>1 DEF has, get_src_unchecked
  <2>2. CASE y \notin Subtree(u, d)
    <3>1. m2.dst_to_src[y] = m.dst_to_src[y] /\ is_dst(m, y) /\ y \in Int
      BY <2>2, <1>12, <1>17, <1>19
    <3>2. m.dst_to_src[y] \in 0 .. t.len /\ m.dst_to_src[y] # 0
      BY <3>1, <1>12 DEF is_dst
    <3> DEFINE x == m.dst_to_src[y] - 1
    <3>3. x \in nodes(t) /\ x + 1 = m.dst_to_src[y]
      BY <3>2, <1>5, <1>1, SMTT(20)
    <3>4. has(m, x, y)
      BY <3>1 DEF OneToOne, get_src_unchecked
    <3>5. m.src_to_dst[x] = y + 1
      BY <3>4 DEF has
    <3>6. is_src(m, x)
      BY <3>1, <3>5, <1>5, <1>1 DEF is_src
    <3>7. x \notin Subtree(t, s)
      BY <3>6
    <3>8. m2.src_to_dst[x] = y + 1
      BY <3>3, <3>5, <3>7, <1>11
    <3> QED
      BY <3>1, <3>3, <3>8 DEF has, get_src_unchecked
  <2> QED
    BY <2>1, <2>2
<1>20. OneToOne(m2, nodes(t), nodes(u))
  BY <1>18, <1>19 DEF OneToOne
<1> QED
  BY <1>10, <1>16, <1>17, <1>20
-----------------------------------------------------------------------------
(* The trees of a state, and what is mapped in it, are of their kinds. *)
LEMMA StateFacts ==
  ASSUME IndInv
  PROVE  /\ IsTree(src) /\ IsTree(dst)
         /\ ListOK(src, src_trees) /\ ListOK(dst, dst_trees)
         /\ all_mapped_srcs \subseteq nodes(src) /\ all_mapped_dsts \subseteq nodes(dst)
         /\ \A s \in nodes(src) : get_dsts(s) \subseteq nodes(dst)
         /\ \A d \in nodes(dst) : get_srcs(d) \subseteq nodes(src)
         /\ \A s \in nodes(src) : \A d \in get_dsts(s) :
              s \in all_mapped_srcs /\ d \in all_mapped_dsts /\ s \in get_srcs(d)
BY TreesAssumption
   DEF IndInv, TypeOK, all_mapped_srcs, all_mapped_dsts, get_dsts, get_srcs

LEMMA InitInd == Init => IndInv
<1> SUFFICES ASSUME Init PROVE IndInv
  OBVIOUS
<1> USE DEF Init
<1>1. IsTree(src) /\ IsTree(dst)
  BY TreesAssumption
<1>2. ASSUME NEW t, IsTree(t)
      PROVE  /\ ListOK(t, new(t)) /\ new(t) \in Lists(t)
             /\ new(t).trees \subseteq {root(t)}
  <2>1. listed(t, {root(t)}) \subseteq listed(t, nodes(t))
    BY <1>2, RootIsNode DEF listed
  <2>2. listed(t, {root(t)}) \subseteq nodes(t) /\ listed(t, {root(t)}) \subseteq {root(t)}
    BY <1>2, RootIsNode DEF listed
  <2> DEFINE S == listed(t, {root(t)})
  <2>3. update_height(t, S).trees = S /\ update_height(t, S) \in Lists(t)
    BY <1>2, <2>2, UpdateHeight
  <2>4. new(t) = update_height(t, S)
    BY DEF new
  <2> HIDE DEF S
  <2> QED
    BY <2>1, <2>2, <2>3, <2>4 DEF ListOK, S
<1>3. \A t \in {src, dst} : t.len \in Nat /\ \A x \in nodes(t) : x \in 0 .. t.len
  BY <1>1, NodeTypes DEF IsTree, TreeShape, nodes, root
<1>4. mappings \in Stores(src.len, dst.len)
  <2>1. /\ [i \in 0 .. src.len |-> 0] \in [0 .. src.len -> 0 .. dst.len]
        /\ [i \in 0 .. dst.len |-> 0] \in [0 .. dst.len -> 0 .. src.len]
    BY <1>3
  <2> QED
    BY <2>1 DEF topit, Stores
<1>5. /\ \A x \in nodes(src) : ~is_src(mappings, x)
      /\ \A y \in nodes(dst) : ~is_dst(mappings, y)
  BY <1>3 DEF topit, is_src, is_dst
<1>6. TypeOK
  BY <1>1, <1>2, <1>4 DEF TypeOK
<1>7. all_mapped_srcs = {} /\ all_mapped_dsts = {}
  BY DEF all_mapped_srcs, all_mapped_dsts, get_srcs
<1>8. FrontierDisjoint
  BY <1>1, <1>2, <1>7 DEF FrontierDisjoint, Disjoint
<1>9. GroupsAreClasses /\ MultiMappingIsomorphic
  BY DEF GroupsAreClasses, MultiMappingIsomorphic, get_dsts
<1>10. SymmetricMapping /\ MappedUnderRoots /\ RootsUniqueOrSelected /\ NothingMappedYet
  BY <1>5, <1>7 DEF SymmetricMapping, OneToOne, MappedUnderRoots, RootsUniqueOrSelected,
                    NothingMappedYet
<1> QED
  BY <1>1, <1>2, <1>6, <1>8, <1>9, <1>10
     DEF IndInv, NoPopOnEmpty, InnerNotEmpty, UnvisitedUnmapped, AmbiguousPairs
-----------------------------------------------------------------------------
(***************************************************************************)
(* Mapping a pair of the multi-mapping whose roots are both unmapped: the  *)
(* whole subtrees are unmapped, so nothing is overwritten, and among the   *)
(* multi-mapped trees only these two become mapped.                        *)
(***************************************************************************)
LEMMA MapPair ==
  ASSUME IndInv, NEW s \in nodes(src), NEW d \in get_dsts(s),
         ~is_src(mappings, s), ~is_dst(mappings, d),
         mappings' = add_mapping_recursively(s, d),
         UNCHANGED <<arenas, multi_mappings>>
  PROVE  /\ mappings' \in Stores(src.len, dst.len)
         /\ SymmetricMapping' /\ MappedUnderRoots'
         /\ \A u \in all_mapped_srcs :
              is_src(mappings', u) <=> is_src(mappings, u) \/ u = s
         /\ \A v \in all_mapped_dsts :
              is_dst(mappings', v) <=> is_dst(mappings, v) \/ v = d
<1>1. /\ IsTree(src) /\ IsTree(dst) /\ d \in nodes(dst)
      /\ s \in all_mapped_srcs /\ d \in all_mapped_dsts
      /\ all_mapped_srcs \subseteq nodes(src) /\ all_mapped_dsts \subseteq nodes(dst)
  BY StateFacts
<1>2. /\ \A u \in all_mapped_srcs : u # s => Subtree(src, u) \cap Subtree(src, s) = {}
      /\ \A v \in all_mapped_dsts : v # d => Subtree(dst, v) \cap Subtree(dst, d) = {}
  BY <1>1 DEF IndInv, FrontierDisjoint, Disjoint
<1>3. \A x \in Subtree(src, s) : ~is_src(mappings, x)
  BY <1>1, <1>2, SubtreeInNodes DEF IndInv, MappedUnderRoots
<1>4. \A y \in Subtree(dst, d) : ~is_dst(mappings, y)
  BY <1>1, <1>2, SubtreeInNodes DEF IndInv, MappedUnderRoots
<1>5. /\ isomorphic(src, s, dst, d)
      /\ mappings \in Stores(src.len, dst.len)
      /\ OneToOne(mappings, nodes(src), nodes(dst))
      /\ mappings' = link_ranges(mappings, s, d, descendants_count(src, s))
  BY DEF IndInv, TypeOK, MultiMappingIsomorphic, SymmetricMapping, add_mapping_recursively
<1>6. /\ mappings' \in Stores(src.len, dst.len)
      /\ OneToOne(mappings', nodes(src), nodes(dst))
      /\ \A x \in nodes(src) :
           is_src(mappings', x) <=> is_src(mappings, x) \/ x \in Subtree(src, s)
      /\ \A y \in nodes(dst) :
           is_dst(mappings', y) <=> is_dst(mappings, y) \/ y \in Subtree(dst, d)
  BY <1>1, <1>3, <1>4, <1>5, AddMapping
<1>7. /\ src' = src /\ dst' = dst /\ multi_mappings' = multi_mappings
      /\ all_mapped_srcs' = all_mapped_srcs /\ all_mapped_dsts' = all_mapped_dsts
  BY DEF arenas, all_mapped_srcs, all_mapped_dsts, get_srcs
<1>8. SymmetricMapping'
  BY <1>6, <1>7 DEF SymmetricMapping
<1>9. \A u \in all_mapped_srcs : is_src(mappings', u) <=> is_src(mappings, u) \/ u = s
  BY <1>1, <1>2, <1>6, SubtreeInNodes
<1>10. \A v \in all_mapped_dsts : is_dst(mappings', v) <=> is_dst(mappings, v) \/ v = d
  BY <1>1, <1>2, <1>6, SubtreeInNodes
<1>11. ASSUME NEW x \in nodes(src), is_src(mappings', x)
       PROVE  \E u \in all_mapped_srcs : x \in Subtree(src, u) /\ is_src(mappings', u)
  <2>1. CASE x \in Subtree(src, s)
    BY <2>1, <1>1, <1>9
  <2>2. CASE is_src(mappings, x)
    BY <2>2, <1>9 DEF IndInv, MappedUnderRoots
  <2> QED
    BY <2>1, <2>2, <1>6, <1>11
<1>12. ASSUME NEW y \in nodes(dst), is_dst(mappings', y)
       PROVE  \E v \in all_mapped_dsts : y \in Subtree(dst, v) /\ is_dst(mappings', v)
  <2>1. CASE y \in Subtree(dst, d)
    BY <2>1, <1>1, <1>10
  <2>2. CASE is_dst(mappings, y)
    BY <2>2, <1>10 DEF IndInv, MappedUnderRoots
  <2> QED
    BY <2>1, <2>2, <1>6, <1>12
<1>13. MappedUnderRoots'
  BY <1>7, <1>11, <1>12 DEF MappedUnderRoots
<1> QED
  BY <1>6, <1>8, <1>9, <1>10, <1>13
-----------------------------------------------------------------------------
(* What an invariant only reads may stay: these parts of IndInv hold in    *)
(* the next state when the variables they are about do not change.         *)
LEMMA FrontierStays ==
  ASSUME IndInv, UNCHANGED <<arenas, lists, multi_mappings>>
  PROVE  /\ ListOK(src, src_trees)' /\ ListOK(dst, dst_trees)' /\ FrontierDisjoint'
         /\ GroupsAreClasses' /\ MultiMappingIsomorphic'
         /\ all_mapped_srcs' = all_mapped_srcs /\ all_mapped_dsts' = all_mapped_dsts
         /\ \A s, d : is_unique_pair(s, d)' <=> is_unique_pair(s, d)
         /\ \A s : is_mapping_unique(s)' <=> is_mapping_unique(s)
         /\ \A s : get_dsts(s)' = get_dsts(s)
<1>1. /\ src' = src /\ dst' = dst /\ src_trees' = src_trees /\ dst_trees' = dst_trees
      /\ multi_mappings' = multi_mappings
  BY DEF arenas, lists
<1>2. /\ all_mapped_srcs' = all_mapped_srcs /\ all_mapped_dsts' = all_mapped_dsts
      /\ \A s : get_dsts(s)' = get_dsts(s)
      /\ \A d : get_srcs(d)' = get_srcs(d)
  BY <1>1 DEF all_mapped_srcs, all_mapped_dsts, get_srcs, get_dsts
<1>3. /\ \A s, d : is_unique_pair(s, d)' <=> is_unique_pair(s, d)
      /\ \A s : is_mapping_unique(s)' <=> is_mapping_unique(s)
  BY <1>2 DEF is_unique_pair, is_mapping_unique
<1>4. ListOK(src, src_trees)' /\ ListOK(dst, dst_trees)'
  BY <1>1 DEF IndInv
<1>5. FrontierDisjoint' /\ GroupsAreClasses' /\ MultiMappingIsomorphic'
  BY <1>1, <1>2 DEF IndInv, FrontierDisjoint, GroupsAreClasses, MultiMappingIsomorphic
<1> QED
  BY <1>2, <1>3, <1>4, <1>5

LEMMA MappingStays ==
  ASSUME IndInv, UNCHANGED <<arenas, multi_mappings, mappings>>
  PROVE  mappings' \in Stores(src.len, dst.len) /\ SymmetricMapping' /\ MappedUnderRoots'
<1>1. /\ src' = src /\ dst' = dst /\ mappings' = mappings
      /\ all_mapped_srcs' = all_mapped_srcs /\ all_mapped_dsts' = all_mapped_dsts
  BY DEF arenas, all_mapped_srcs, all_mapped_dsts, get_srcs
<1> QED
  BY <1>1 DEF IndInv, TypeOK, SymmetricMapping, MappedUnderRoots

(* While the walk runs nothing is mapped, so its properties of mappings    *)
(* need no more than that.                                                 *)
LEMMA WalkKeepsMapping ==
  ASSUME IndInv, pc \in {"outer", "inner"},
         UNCHANGED <<arenas, mappings, filter_vars>>
  PROVE  /\ mappings' \in Stores(src.len, dst.len)
         /\ SymmetricMapping' /\ MappedUnderRoots' /\ RootsUniqueOrSelected'
         /\ UnvisitedUnmapped' /\ AmbiguousPairs' /\ NothingMappedYet'
<1>1. /\ src' = src /\ dst' = dst /\ mappings' = mappings
      /\ unvisited' = unvisited /\ ambiguous_list' = ambiguous_list
  BY DEF arenas, filter_vars
<1>2. /\ \A x \in nodes(src) : ~is_src(mappings, x)
      /\ \A y \in nodes(dst) : ~is_dst(mappings, y)
      /\ unvisited = {} /\ ambiguous_list = {}
  BY DEF IndInv, NothingMappedYet
<1>3. all_mapped_srcs' \subseteq nodes(src') /\ all_mapped_dsts' \subseteq nodes(dst')
  BY DEF all_mapped_srcs, all_mapped_dsts
<1>4. mappings' \in Stores(src.len, dst.len)
  BY <1>1 DEF IndInv, TypeOK
<1>5. SymmetricMapping' /\ MappedUnderRoots'
  BY <1>1, <1>2 DEF SymmetricMapping, OneToOne, MappedUnderRoots
<1>6. RootsUniqueOrSelected'
  BY <1>1, <1>2, <1>3 DEF RootsUniqueOrSelected
<1>7. UnvisitedUnmapped' /\ AmbiguousPairs' /\ NothingMappedYet'
  BY <1>1, <1>2 DEF UnvisitedUnmapped, AmbiguousPairs, NothingMappedYet
<1> QED
  BY <1>4, <1>5, <1>6, <1>7

LEMMA EnterLevelInd == IndInv /\ EnterLevel => IndInv'
<1> SUFFICES ASSUME IndInv, EnterLevel PROVE IndInv'
  OBVIOUS
<1>1. pc = "outer" /\ pc' = "inner" /\ src_trees.peek # -1 /\ dst_trees.peek # -1
  BY DEF EnterLevel
<1>2. UNCHANGED <<arenas, lists, multi_mappings, mappings, filter_vars>>
  BY DEF EnterLevel
<1>3. TypeOK' /\ NoPopOnEmpty' /\ InnerNotEmpty'
  BY <1>1, <1>2
     DEF IndInv, TypeOK, NoPopOnEmpty, InnerNotEmpty, arenas, lists, filter_vars
<1> QED
  BY <1>1, <1>2, <1>3, FrontierStays, WalkKeepsMapping DEF IndInv

LEMMA EndMultiMappingInd == IndInv /\ EndMultiMapping => IndInv'
<1> SUFFICES ASSUME IndInv, EndMultiMapping PROVE IndInv'
  OBVIOUS
<1>1. /\ pc = "outer" /\ pc' = "filter" /\ unvisited' = all_mapped_srcs
      /\ UNCHANGED <<arenas, lists, multi_mappings, mappings>>
      /\ UNCHANGED <<ignored, ambiguous_list, src_ignored, dst_ignored>>
  BY DEF EndMultiMapping
<1>2. /\ \A x \in nodes(src) : ~is_src(mappings, x)
      /\ \A y \in nodes(dst) : ~is_dst(mappings, y)
      /\ ambiguous_list = {}
  BY <1>1 DEF IndInv, NothingMappedYet
<1>3. all_mapped_srcs \subseteq nodes(src) /\ all_mapped_dsts \subseteq nodes(dst)
  BY DEF all_mapped_srcs, all_mapped_dsts
<1>4. TypeOK' /\ NoPopOnEmpty' /\ InnerNotEmpty' /\ NothingMappedYet'
  BY <1>1, <1>3
     DEF IndInv, TypeOK, NoPopOnEmpty, InnerNotEmpty, NothingMappedYet, arenas, lists
<1>5. src' = src /\ dst' = dst /\ mappings' = mappings
  BY <1>1 DEF arenas
<1>6. RootsUniqueOrSelected' /\ UnvisitedUnmapped' /\ AmbiguousPairs'
  <2>1. RootsUniqueOrSelected'
    BY <1>1, <1>2, <1>3, <1>5, FrontierStays DEF RootsUniqueOrSelected
  <2>2. UnvisitedUnmapped'
    BY <1>1, <1>2, <1>3, <1>5, FrontierStays, StateFacts DEF UnvisitedUnmapped
  <2>3. AmbiguousPairs'
    BY <1>1, <1>2 DEF AmbiguousPairs
  <2> QED
    BY <2>1, <2>2, <2>3
<1> QED
  BY <1>1, <1>4, <1>6, FrontierStays, MappingStays DEF IndInv

LEMMA OpenSrcInd == IndInv /\ OpenSrc => IndInv'
<1> SUFFICES ASSUME IndInv, OpenSrc PROVE IndInv'
  OBVIOUS
<1>1. /\ pc = "inner" /\ pc' = "inner" /\ src_trees.peek > dst_trees.peek
      /\ src_trees' = open(src, src_trees)
      /\ src' = src /\ dst' = dst /\ dst_trees' = dst_trees
      /\ multi_mappings' = multi_mappings /\ mappings' = mappings
      /\ UNCHANGED <<arenas, mappings, filter_vars>>
  BY DEF OpenSrc, arenas
<1>2. /\ IsTree(src) /\ IsTree(dst)
      /\ ListOK(src, src_trees) /\ ListOK(dst, dst_trees)
      /\ all_mapped_srcs \subseteq nodes(src)
  BY StateFacts
<1>3. dst_trees.peek # -1 /\ dst_trees.peek \in Nat /\ dst_trees.peek >= MIN_HEIGHT
  BY <1>1, <1>2, ListFacts DEF IndInv, InnerNotEmpty
<1>4. ListOK(src, src_trees') /\ src_trees' \in Lists(src) /\ src_trees'.peek # -1
  BY <1>1, <1>2, <1>3, OpenNotEmpty
<1>5. all_mapped_srcs' = all_mapped_srcs /\ all_mapped_dsts' = all_mapped_dsts
  BY <1>1 DEF all_mapped_srcs, all_mapped_dsts, get_srcs
<1>6. /\ src_trees'.trees \cap all_mapped_srcs = {}
      /\ Disjoint(src, src_trees'.trees \cup all_mapped_srcs)
  <2>1. src_trees' = replace_top(src, src_trees, top_level(src, src_trees))
    BY <1>1 DEF open
  <2>2. src_trees.trees \cap all_mapped_srcs = {}
        /\ Disjoint(src, src_trees.trees \cup all_mapped_srcs)
    BY DEF IndInv, FrontierDisjoint
  <2> DEFINE M == all_mapped_srcs
             top == top_level(src, src_trees)
  <2>3. M \cup (top \ top) = M
    OBVIOUS
  <2> HIDE DEF M, top
  <2>4. /\ src_trees'.trees \cap (M \cup (top \ top)) = {}
        /\ Disjoint(src, src_trees'.trees \cup (M \cup (top \ top)))
    BY <1>2, <2>1, <2>2, ReplaceLevel DEF M, top
  <2> QED
    BY <2>3, <2>4 DEF M
<1>7. FrontierDisjoint'
  BY <1>1, <1>5, <1>6 DEF IndInv, FrontierDisjoint
<1>8. GroupsAreClasses' /\ MultiMappingIsomorphic'
  BY <1>1 DEF IndInv, GroupsAreClasses, MultiMappingIsomorphic, get_dsts
<1>9. TypeOK' /\ NoPopOnEmpty' /\ InnerNotEmpty'
  BY <1>1, <1>3, <1>4 DEF IndInv, TypeOK, NoPopOnEmpty, InnerNotEmpty, filter_vars
<1>10. ListOK(src, src_trees)' /\ ListOK(dst, dst_trees)'
  BY <1>1, <1>2, <1>4
<1> QED
  BY <1>1, <1>7, <1>8, <1>9, <1>10, WalkKeepsMapping DEF IndInv

LEMMA OpenDstInd == IndInv /\ OpenDst => IndInv'
<1> SUFFICES ASSUME IndInv, OpenDst PROVE IndInv'
  OBVIOUS
<1>1. /\ pc = "inner" /\ pc' = "inner" /\ src_trees.peek < dst_trees.peek
      /\ dst_trees' = open(dst, dst_trees)
      /\ dst' = dst /\ src' = src /\ src_trees' = src_trees
      /\ multi_mappings' = multi_mappings /\ mappings' = mappings
      /\ UNCHANGED <<arenas, mappings, filter_vars>>
  BY DEF OpenDst, arenas
<1>2. /\ IsTree(dst) /\ IsTree(src)
      /\ ListOK(dst, dst_trees) /\ ListOK(src, src_trees)
      /\ all_mapped_dsts \subseteq nodes(dst)
  BY StateFacts
<1>3. src_trees.peek # -1 /\ src_trees.peek \in Nat /\ src_trees.peek >= MIN_HEIGHT
  BY <1>1, <1>2, ListFacts DEF IndInv, InnerNotEmpty
<1>4. ListOK(dst, dst_trees') /\ dst_trees' \in Lists(dst) /\ dst_trees'.peek # -1
  BY <1>1, <1>2, <1>3, OpenNotEmpty
<1>5. all_mapped_dsts' = all_mapped_dsts /\ all_mapped_srcs' = all_mapped_srcs
  BY <1>1 DEF all_mapped_dsts, all_mapped_srcs, get_srcs
<1>6. /\ dst_trees'.trees \cap all_mapped_dsts = {}
      /\ Disjoint(dst, dst_trees'.trees \cup all_mapped_dsts)
  <2>1. dst_trees' = replace_top(dst, dst_trees, top_level(dst, dst_trees))
    BY <1>1 DEF open
  <2>2. dst_trees.trees \cap all_mapped_dsts = {}
        /\ Disjoint(dst, dst_trees.trees \cup all_mapped_dsts)
    BY DEF IndInv, FrontierDisjoint
  <2> DEFINE M == all_mapped_dsts
             top == top_level(dst, dst_trees)
  <2>3. M \cup (top \ top) = M
    OBVIOUS
  <2> HIDE DEF M, top
  <2>4. /\ dst_trees'.trees \cap (M \cup (top \ top)) = {}
        /\ Disjoint(dst, dst_trees'.trees \cup (M \cup (top \ top)))
    BY <1>2, <2>1, <2>2, ReplaceLevel DEF M, top
  <2> QED
    BY <2>3, <2>4 DEF M
<1>7. FrontierDisjoint'
  BY <1>1, <1>5, <1>6 DEF IndInv, FrontierDisjoint
<1>8. GroupsAreClasses' /\ MultiMappingIsomorphic'
  BY <1>1 DEF IndInv, GroupsAreClasses, MultiMappingIsomorphic, get_dsts
<1>9. TypeOK' /\ NoPopOnEmpty' /\ InnerNotEmpty'
  BY <1>1, <1>3, <1>4 DEF IndInv, TypeOK, NoPopOnEmpty, InnerNotEmpty, filter_vars
<1>10. ListOK(dst, dst_trees)' /\ ListOK(src, src_trees)'
  BY <1>1, <1>2, <1>4
<1> QED
  BY <1>1, <1>7, <1>8, <1>9, <1>10, WalkKeepsMapping DEF IndInv

LEMMA MatchLevelInd == IndInv /\ MatchLevel => IndInv'
<1> SUFFICES ASSUME IndInv, MatchLevel PROVE IndInv'
  OBVIOUS
<1> DEFINE srcs == top_level(src, src_trees)
           dsts == top_level(dst, dst_trees)
           open_srcs == src_unmarked(srcs, dsts)
           open_dsts == dst_unmarked(srcs, dsts)
<1>1. /\ pc = "inner" /\ pc' = IF src_trees.peek = -1 THEN "pop_panic" ELSE "outer"
      /\ src_trees' = replace_top(src, src_trees, open_srcs)
      /\ dst_trees' = replace_top(dst, dst_trees, open_dsts)
      /\ multi_mappings' =
           [s \in nodes(src) |->
              IF s \in srcs THEN multi_mappings[s] \cup mates(s, dsts)
              ELSE multi_mappings[s]]
      /\ src' = src /\ dst' = dst
      /\ UNCHANGED <<arenas, mappings, filter_vars>>
  BY DEF MatchLevel, arenas
<1>2. /\ IsTree(src) /\ IsTree(dst)
      /\ ListOK(src, src_trees) /\ ListOK(dst, dst_trees)
      /\ all_mapped_srcs \subseteq nodes(src) /\ all_mapped_dsts \subseteq nodes(dst)
  BY StateFacts
<1>3. /\ srcs \subseteq src_trees.trees /\ src_trees.trees \subseteq nodes(src)
      /\ dsts \subseteq dst_trees.trees /\ dst_trees.trees \subseteq nodes(dst)
  BY <1>2, ListFacts
<1>4. pc' = "outer"
  BY <1>1 DEF IndInv, InnerNotEmpty
<1>5. /\ src_trees.trees \cap all_mapped_srcs = {}
      /\ dst_trees.trees \cap all_mapped_dsts = {}
      /\ Disjoint(src, src_trees.trees \cup all_mapped_srcs)
      /\ Disjoint(dst, dst_trees.trees \cup all_mapped_dsts)
  BY DEF IndInv, FrontierDisjoint
<1>6. /\ open_srcs \subseteq srcs /\ open_dsts \subseteq dsts
      /\ \A s : mates(s, dsts) \subseteq dsts
  BY DEF src_unmarked, dst_unmarked, mates
<1>7. multi_mappings \in [nodes(src) -> SUBSET nodes(dst)]
  BY DEF IndInv, TypeOK
(* what a source is mapped to after the step *)
<1>8. ASSUME NEW s \in nodes(src)
      PROVE  /\ s \in srcs => multi_mappings'[s] = mates(s, dsts)
             /\ s \notin srcs => multi_mappings'[s] = multi_mappings[s]
  <2>1. s \in srcs => multi_mappings[s] = {}
    BY <1>3, <1>5 DEF all_mapped_srcs
  <2> HIDE DEF srcs, dsts
  <2> QED
    BY <1>1, <2>1
<1>9. multi_mappings' \in [nodes(src) -> SUBSET nodes(dst)]
  <2>1. \A s \in nodes(src) : mates(s, dsts) \subseteq nodes(dst)
    BY <1>3, <1>6
  <2> HIDE DEF srcs, dsts
  <2> QED
    BY <1>1, <1>7, <2>1
<1>10. all_mapped_srcs' = all_mapped_srcs \cup (srcs \ open_srcs)
  <2>1. \A s \in srcs : s \in open_srcs <=> mates(s, dsts) = {}
    BY DEF src_unmarked
  <2>2. all_mapped_srcs' = {s \in nodes(src) : multi_mappings'[s] # {}}
    BY <1>1 DEF all_mapped_srcs
  <2>3. \A s \in srcs : s \notin all_mapped_srcs /\ s \in nodes(src)
    BY <1>3, <1>5
  <2>4. all_mapped_srcs = {s \in nodes(src) : multi_mappings[s] # {}}
    BY DEF all_mapped_srcs
  <2> HIDE DEF srcs, dsts, open_srcs
  <2> QED
    BY <1>8, <2>1, <2>2, <2>3, <2>4
<1>11. all_mapped_dsts' = all_mapped_dsts \cup (dsts \ open_dsts)
  <2>1. \A d \in dsts : d \in open_dsts <=> \A s \in srcs : d \notin mates(s, dsts)
    BY DEF dst_unmarked
  <2>2. all_mapped_dsts' = {d \in nodes(dst) : \E s \in nodes(src) : d \in multi_mappings'[s]}
    BY <1>1 DEF all_mapped_dsts, get_srcs
  <2>3. all_mapped_dsts = {d \in nodes(dst) : \E s \in nodes(src) : d \in multi_mappings[s]}
    BY DEF all_mapped_dsts, get_srcs
  <2>4. \A s \in srcs : s \in nodes(src) /\ multi_mappings[s] = {}
    BY <1>3, <1>5 DEF all_mapped_srcs
  <2>5. dsts \subseteq nodes(dst)
    BY <1>3
  <2> HIDE DEF srcs, dsts, open_dsts
  <2>6. ASSUME NEW d \in all_mapped_dsts' PROVE d \in all_mapped_dsts \cup (dsts \ open_dsts)
    BY <1>6, <1>8, <2>1, <2>2, <2>3, <2>6
  <2>7. ASSUME NEW d \in all_mapped_dsts PROVE d \in all_mapped_dsts'
    BY <1>8, <2>2, <2>3, <2>4
  <2>8. ASSUME NEW d \in dsts \ open_dsts PROVE d \in all_mapped_dsts'
    BY <1>8, <2>1, <2>2, <2>4, <2>5
  <2> QED
    BY <2>6, <2>7, <2>8
<1>12. /\ ListOK(src, src_trees') /\ src_trees' \in Lists(src)
       /\ src_trees'.trees \cap all_mapped_srcs' = {}
       /\ Disjoint(src, src_trees'.trees \cup all_mapped_srcs')
  <2> DEFINE M == all_mapped_srcs
  <2> HIDE DEF open_srcs, M
  <2>1. /\ ListOK(src, src_trees') /\ src_trees' \in Lists(src)
        /\ src_trees'.trees \cap (M \cup (srcs \ open_srcs)) = {}
        /\ Disjoint(src, src_trees'.trees \cup (M \cup (srcs \ open_srcs)))
    BY <1>1, <1>2, <1>5, <1>6, ReplaceLevel, ZenonT(40) DEF M
  <2> QED
    BY <1>10, <2>1 DEF M
<1>13. /\ ListOK(dst, dst_trees') /\ dst_trees' \in Lists(dst)
       /\ dst_trees'.trees \cap all_mapped_dsts' = {}
       /\ Disjoint(dst, dst_trees'.trees \cup all_mapped_dsts')
  <2> DEFINE M == all_mapped_dsts
  <2> HIDE DEF open_dsts, M
  <2>1. /\ ListOK(dst, dst_trees') /\ dst_trees' \in Lists(dst)
        /\ dst_trees'.trees \cap (M \cup (dsts \ open_dsts)) = {}
        /\ Disjoint(dst, dst_trees'.trees \cup (M \cup (dsts \ open_dsts)))
    BY <1>1, <1>2, <1>5, <1>6, ReplaceLevel DEF M
  <2> QED
    BY <1>11, <2>1 DEF M
<1>14. FrontierDisjoint'
  BY <1>1, <1>12, <1>13 DEF FrontierDisjoint
<1>15. MultiMappingIsomorphic'
  <2>1. ASSUME NEW s \in nodes(src), NEW d \in multi_mappings'[s]
        PROVE  isomorphic(src, s, dst, d)
    <3>1. CASE s \in srcs
      BY <1>8, <2>1, <3>1 DEF mates
    <3>2. CASE s \notin srcs
      BY <1>8, <2>1, <3>2 DEF IndInv, MultiMappingIsomorphic, get_dsts
    <3> QED
      BY <3>1, <3>2
  <2> QED
    BY <1>1, <2>1 DEF MultiMappingIsomorphic, get_dsts
<1>16. GroupsAreClasses'
  <2>1. ASSUME NEW s1 \in nodes(src), NEW s2 \in nodes(src),
               NEW c \in multi_mappings'[s1], c \in multi_mappings'[s2]
        PROVE  multi_mappings'[s1] = multi_mappings'[s2]
    <3>1. CASE s1 \in srcs /\ s2 \in srcs
      <4>1. multi_mappings'[s1] = mates(s1, dsts) /\ multi_mappings'[s2] = mates(s2, dsts)
        BY <1>8, <3>1
      <4>2. isomorphic(src, s1, dst, c) /\ isomorphic(src, s2, dst, c)
        BY <2>1, <4>1 DEF mates
      <4>3. \A d \in dsts : isomorphic(src, s1, dst, d) <=> isomorphic(src, s2, dst, d)
        BY <4>2, IsomorphicJoin
      <4> QED
        BY <4>1, <4>3 DEF mates
    <3>2. CASE s1 \notin srcs /\ s2 \notin srcs
      BY <1>8, <2>1, <3>2 DEF IndInv, GroupsAreClasses
    <3>3. ASSUME NEW a \in srcs, NEW b \in nodes(src), b \notin srcs,
                 c \in multi_mappings'[a], c \in multi_mappings'[b]
          PROVE  FALSE
      <4>1. c \in dsts
        BY <1>3, <1>6, <1>8, <3>3
      <4>2. c \in all_mapped_dsts
        <5>1. c \in multi_mappings[b]
          BY <1>8, <3>3
        <5> QED
          BY <5>1, <4>1, <1>3 DEF all_mapped_dsts, get_srcs
      <4> QED
        BY <4>1, <4>2, <1>3, <1>5
    <3> QED
      BY <2>1, <3>1, <3>2, <3>3
  <2> QED
    BY <1>1, <2>1, ZenonT(40) DEF GroupsAreClasses
<1>17. TypeOK' /\ NoPopOnEmpty' /\ InnerNotEmpty'
  BY <1>1, <1>4, <1>9, <1>12, <1>13
     DEF IndInv, TypeOK, NoPopOnEmpty, InnerNotEmpty, filter_vars
<1>18. ListOK(src, src_trees)' /\ ListOK(dst, dst_trees)'
  BY <1>1, <1>12, <1>13
<1> QED
  BY <1>1, <1>14, <1>15, <1>16, <1>17, <1>18, WalkKeepsMapping DEF IndInv
-----------------------------------------------------------------------------
LEMMA FilterUniqueInd == IndInv /\ FilterUnique => IndInv'
<1> SUFFICES ASSUME IndInv, FilterUnique PROVE IndInv'
  OBVIOUS
<1>1. PICK s \in unvisited : \E d \in get_dsts(s) :
        /\ is_unique_pair(s, d)
        /\ mappings' = add_mapping_recursively(s, d)
        /\ unvisited' = unvisited \ {s}
  BY DEF FilterUnique
<1>2. PICK d \in get_dsts(s) :
        /\ is_unique_pair(s, d)
        /\ mappings' = add_mapping_recursively(s, d)
        /\ unvisited' = unvisited \ {s}
  BY <1>1
<1>3. /\ pc = "filter" /\ pc' = "filter"
      /\ UNCHANGED <<arenas, lists, multi_mappings>>
      /\ ignored' = ignored /\ ambiguous_list' = ambiguous_list
      /\ src_ignored' = src_ignored /\ dst_ignored' = dst_ignored
      /\ src' = src /\ dst' = dst /\ multi_mappings' = multi_mappings
      /\ src_trees' = src_trees /\ dst_trees' = dst_trees
  BY DEF FilterUnique, arenas, lists
<1>4. unvisited \subseteq nodes(src)
  BY DEF IndInv, TypeOK
<1>5. ~is_src(mappings, s) /\ ~is_dst(mappings, d)
  BY <1>2 DEF IndInv, UnvisitedUnmapped
<1>6. /\ mappings' \in Stores(src.len, dst.len)
      /\ SymmetricMapping' /\ MappedUnderRoots'
      /\ \A u \in all_mapped_srcs : is_src(mappings', u) <=> is_src(mappings, u) \/ u = s
      /\ \A v \in all_mapped_dsts : is_dst(mappings', v) <=> is_dst(mappings, v) \/ v = d
  BY <1>2, <1>3, <1>4, <1>5, MapPair
<1>7. TypeOK' /\ NoPopOnEmpty' /\ InnerNotEmpty' /\ NothingMappedYet'
  BY <1>2, <1>3, <1>6
     DEF IndInv, TypeOK, NoPopOnEmpty, InnerNotEmpty, NothingMappedYet
<1>8. RootsUniqueOrSelected'
  <2>1. is_mapping_unique(s) /\ s \in nodes(src)
    BY <1>2, <1>4 DEF is_mapping_unique
  <2>2. \A u \in all_mapped_srcs : is_src(mappings', u) =>
          is_mapping_unique(u) \/ u \in src_ignored
    BY <1>6, <2>1 DEF IndInv, RootsUniqueOrSelected
  <2>3. \A v \in all_mapped_dsts : is_dst(mappings', v) =>
          (\E u \in nodes(src) : is_unique_pair(u, v)) \/ v \in dst_ignored
    BY <1>2, <1>6, <2>1 DEF IndInv, RootsUniqueOrSelected
  <2> QED
    BY <1>3, <2>2, <2>3, FrontierStays DEF RootsUniqueOrSelected
<1>9. UnvisitedUnmapped'
  <2>1. ASSUME NEW u \in unvisited \ {s}, NEW v \in get_dsts(u), is_unique_pair(u, v)
        PROVE  ~is_src(mappings', u) /\ ~is_dst(mappings', v)
    <3>1. ~is_src(mappings, u) /\ ~is_dst(mappings, v)
      BY <2>1 DEF IndInv, UnvisitedUnmapped
    <3>2. v # d
      BY <1>2, <2>1 DEF is_unique_pair
    <3>3. u \in all_mapped_srcs /\ v \in all_mapped_dsts
      BY <1>4, StateFacts
    <3> QED
      BY <1>6, <3>1, <3>2, <3>3
  <2> QED
    BY <1>2, <1>3, <2>1, FrontierStays DEF UnvisitedUnmapped
<1>10. AmbiguousPairs'
  BY <1>3, FrontierStays DEF IndInv, AmbiguousPairs
<1> QED
  BY <1>3, <1>6, <1>7, <1>8, <1>9, <1>10, FrontierStays DEF IndInv

(* The steps of the filter that map nothing. *)
LEMMA FilterKeepsMapping ==
  ASSUME IndInv, pc' \in {"filter", "select", "parent_panic", "done"},
         UNCHANGED <<arenas, lists, multi_mappings, mappings>>,
         UNCHANGED <<src_ignored, dst_ignored>>,
         unvisited' \subseteq unvisited
  PROVE  /\ NoPopOnEmpty' /\ InnerNotEmpty' /\ NothingMappedYet'
         /\ RootsUniqueOrSelected' /\ UnvisitedUnmapped'
<1>1. src' = src /\ dst' = dst /\ mappings' = mappings
  BY DEF arenas
<1>2. NoPopOnEmpty' /\ InnerNotEmpty' /\ NothingMappedYet'
  BY DEF NoPopOnEmpty, InnerNotEmpty, NothingMappedYet
<1>3. RootsUniqueOrSelected'
  BY <1>1, FrontierStays DEF IndInv, RootsUniqueOrSelected
<1>4. UnvisitedUnmapped'
  BY <1>1, FrontierStays DEF IndInv, UnvisitedUnmapped
<1> QED
  BY <1>2, <1>3, <1>4

(* The group of an ambiguous source: all its pairs are in the              *)
(* multi-mapping, and none of its sources has a unique pair.               *)
LEMMA AmbiguousGroup ==
  ASSUME IndInv, NEW s \in nodes(src), NEW d \in get_dsts(s), ~is_mapping_unique(s),
         NEW s2 \in get_srcs(d), NEW d2 \in get_dsts(s)
  PROVE  s2 \in nodes(src) /\ d2 \in get_dsts(s2) /\ ~is_mapping_unique(s2)
<1>1. s2 \in nodes(src) /\ d \in get_dsts(s2) /\ d \in nodes(dst)
  BY StateFacts DEF get_srcs, get_dsts
<1>2. get_dsts(s2) = get_dsts(s)
  BY <1>1 DEF IndInv, GroupsAreClasses, get_dsts
<1>3. ASSUME is_mapping_unique(s2) PROVE FALSE
  <2>1. PICK v \in get_dsts(s2) : is_unique_pair(s2, v)
    BY <1>3 DEF is_mapping_unique
  <2>2. s \in get_srcs(v)
    BY <1>2, <2>1, StateFacts
  <2>3. s = s2
    BY <2>1, <2>2 DEF is_unique_pair
  <2> QED
    BY <1>3, <2>3
<1> QED
  BY <1>1, <1>2, <1>3

LEMMA FilterAmbiguousInd == IndInv /\ FilterAmbiguous => IndInv'
<1> SUFFICES ASSUME IndInv, FilterAmbiguous PROVE IndInv'
  OBVIOUS
<1>1. PICK s \in unvisited : \E d \in get_dsts(s) :
        /\ ~is_mapping_unique(s)
        /\ ignored' = ignored \cup get_srcs(d)
        /\ ambiguous_list' = ambiguous_list \cup (get_srcs(d) \X get_dsts(s))
        /\ unvisited' = unvisited \ {s}
  BY DEF FilterAmbiguous
<1>2. PICK d \in get_dsts(s) :
        /\ ~is_mapping_unique(s)
        /\ ignored' = ignored \cup get_srcs(d)
        /\ ambiguous_list' = ambiguous_list \cup (get_srcs(d) \X get_dsts(s))
        /\ unvisited' = unvisited \ {s}
  BY <1>1
<1>3. /\ pc = "filter" /\ pc' = "filter"
      /\ UNCHANGED <<arenas, lists, multi_mappings, mappings>>
      /\ UNCHANGED <<src_ignored, dst_ignored>>
      /\ src' = src /\ dst' = dst
  BY DEF FilterAmbiguous, arenas
<1>4. s \in nodes(src) /\ d \in nodes(dst) /\ get_dsts(s) \subseteq nodes(dst)
  BY StateFacts DEF IndInv, TypeOK
<1>5. get_srcs(d) \subseteq nodes(src)
  BY DEF get_srcs
<1>6. AmbiguousPairs'
  <2>1. \A p \in get_srcs(d) \X get_dsts(s) :
          p[2] \in get_dsts(p[1]) /\ ~is_mapping_unique(p[1])
    BY <1>2, <1>4, AmbiguousGroup
  <2>2. \A p \in ambiguous_list' : p[2] \in get_dsts(p[1]) /\ ~is_mapping_unique(p[1])
    BY <1>2, <2>1 DEF IndInv, AmbiguousPairs
  <2> QED
    BY <1>3, <2>2, FrontierStays DEF AmbiguousPairs
<1>7. TypeOK'
  <2>1. ambiguous_list' \subseteq nodes(src) \X nodes(dst)
    BY <1>2, <1>4, <1>5 DEF IndInv, TypeOK
  <2> QED
    BY <1>2, <1>3, <1>5, <2>1 DEF IndInv, TypeOK, arenas, lists
<1> QED
  BY <1>2, <1>3, <1>6, <1>7, FrontierStays, MappingStays, FilterKeepsMapping DEF IndInv

LEMMA FilterIgnoredInd == IndInv /\ FilterIgnored => IndInv'
<1> SUFFICES ASSUME IndInv, FilterIgnored PROVE IndInv'
  OBVIOUS
<1>1. /\ pc = "filter" /\ pc' = "filter" /\ unvisited' \subseteq unvisited
      /\ UNCHANGED <<arenas, lists, multi_mappings, mappings>>
      /\ UNCHANGED <<src_ignored, dst_ignored>>
      /\ ambiguous_list' = ambiguous_list
      /\ UNCHANGED <<ignored, ambiguous_list, src_ignored, dst_ignored>>
  BY DEF FilterIgnored
<1>2. TypeOK' /\ AmbiguousPairs'
  BY <1>1, FrontierStays DEF IndInv, TypeOK, AmbiguousPairs, arenas, lists
<1> QED
  BY <1>1, <1>2, FrontierStays, MappingStays, FilterKeepsMapping DEF IndInv

LEMMA SortInd == IndInv /\ Sort => IndInv'
<1> SUFFICES ASSUME IndInv, Sort PROVE IndInv'
  OBVIOUS
<1>1. /\ pc' \in {"select", "parent_panic"}
      /\ UNCHANGED <<arenas, lists, multi_mappings, mappings>>
      /\ UNCHANGED <<unvisited, ignored, ambiguous_list, src_ignored, dst_ignored>>
  BY DEF Sort, filter_vars
<1>2. TypeOK' /\ AmbiguousPairs'
  BY <1>1, FrontierStays DEF IndInv, TypeOK, AmbiguousPairs, arenas, lists
<1> QED
  BY <1>1, <1>2, FrontierStays, MappingStays, FilterKeepsMapping DEF IndInv

LEMMA SelectPairInd == IndInv /\ SelectPair => IndInv'
<1> SUFFICES ASSUME IndInv, SelectPair PROVE IndInv'
  OBVIOUS
<1>1. PICK p \in ambiguous_list :
        /\ p[1] \notin src_ignored /\ p[2] \notin dst_ignored
        /\ mappings' = add_mapping_recursively(p[1], p[2])
        /\ src_ignored' = src_ignored \cup Subtree(src, p[1])
        /\ dst_ignored' = dst_ignored \cup Subtree(dst, p[2])
        /\ ambiguous_list' = ambiguous_list \ {p}
  BY DEF SelectPair
<1>2. /\ pc = "select" /\ pc' = "select"
      /\ UNCHANGED <<arenas, lists, multi_mappings>>
      /\ unvisited' = unvisited /\ ignored' = ignored
      /\ src' = src /\ dst' = dst
  BY DEF SelectPair, arenas
<1> DEFINE s == p[1]
           d == p[2]
<1>3. s \in nodes(src) /\ d \in nodes(dst)
  BY DEF IndInv, TypeOK
<1>4. d \in get_dsts(s) /\ ~is_mapping_unique(s)
  BY DEF IndInv, AmbiguousPairs
<1> HIDE DEF s, d
<1>5. s \in all_mapped_srcs /\ d \in all_mapped_dsts /\ s \in get_srcs(d)
  BY <1>3, <1>4, StateFacts
<1>6. \A u \in nodes(src) : ~is_unique_pair(u, d)
  BY <1>4, <1>5 DEF is_unique_pair, is_mapping_unique
<1>7. ~is_src(mappings, s) /\ ~is_dst(mappings, d)
  BY <1>1, <1>4, <1>5, <1>6 DEF IndInv, RootsUniqueOrSelected, s, d
<1>8. /\ mappings' \in Stores(src.len, dst.len)
      /\ SymmetricMapping' /\ MappedUnderRoots'
      /\ \A u \in all_mapped_srcs : is_src(mappings', u) <=> is_src(mappings, u) \/ u = s
      /\ \A v \in all_mapped_dsts : is_dst(mappings', v) <=> is_dst(mappings, v) \/ v = d
  <2>1. mappings' = add_mapping_recursively(s, d)
    BY <1>1 DEF s, d
  <2> QED
    BY <1>2, <1>3, <1>4, <1>7, <2>1, MapPair
<1>9. /\ src_ignored' = src_ignored \cup Subtree(src, s) /\ s \in Subtree(src, s)
      /\ dst_ignored' = dst_ignored \cup Subtree(dst, d) /\ d \in Subtree(dst, d)
      /\ Subtree(src, s) \subseteq nodes(src) /\ Subtree(dst, d) \subseteq nodes(dst)
  BY <1>1, <1>3, SubtreeInNodes, StateFacts DEF s, d
<1>10. TypeOK' /\ NoPopOnEmpty' /\ InnerNotEmpty' /\ NothingMappedYet'
  BY <1>1, <1>2, <1>8, <1>9
     DEF IndInv, TypeOK, NoPopOnEmpty, InnerNotEmpty, NothingMappedYet, arenas, lists
<1>11. RootsUniqueOrSelected'
  <2>1. \A u \in all_mapped_srcs : is_src(mappings', u) =>
          is_mapping_unique(u) \/ u \in src_ignored'
    BY <1>8, <1>9 DEF IndInv, RootsUniqueOrSelected
  <2>2. \A v \in all_mapped_dsts : is_dst(mappings', v) =>
          (\E u \in nodes(src) : is_unique_pair(u, v)) \/ v \in dst_ignored'
    BY <1>8, <1>9 DEF IndInv, RootsUniqueOrSelected
  <2> QED
    BY <1>2, <2>1, <2>2, FrontierStays DEF RootsUniqueOrSelected
<1>12. UnvisitedUnmapped'
  <2>1. ASSUME NEW u \in unvisited, NEW v \in get_dsts(u), is_unique_pair(u, v)
        PROVE  ~is_src(mappings', u) /\ ~is_dst(mappings', v)
    <3>1. ~is_src(mappings, u) /\ ~is_dst(mappings, v)
      BY <2>1 DEF IndInv, UnvisitedUnmapped
    <3>2. u \in nodes(src)
      BY DEF IndInv, TypeOK
    <3>3. v # d /\ u # s
      BY <1>4, <1>6, <2>1, <3>2 DEF is_mapping_unique
    <3>4. u \in all_mapped_srcs /\ v \in all_mapped_dsts
      BY <3>2, StateFacts
    <3> QED
      BY <1>8, <3>1, <3>3, <3>4
  <2> QED
    BY <1>2, <2>1, FrontierStays DEF UnvisitedUnmapped
<1>13. AmbiguousPairs'
  BY <1>1, <1>2, FrontierStays DEF IndInv, AmbiguousPairs
<1> QED
  BY <1>2, <1>8, <1>10, <1>11, <1>12, <1>13, FrontierStays DEF IndInv

LEMMA SkipPairInd == IndInv /\ SkipPair => IndInv'
<1> SUFFICES ASSUME IndInv, SkipPair PROVE IndInv'
  OBVIOUS
<1>1. /\ pc = "select" /\ pc' = "select" /\ ambiguous_list' \subseteq ambiguous_list
      /\ UNCHANGED <<arenas, lists, multi_mappings, mappings>>
      /\ UNCHANGED <<unvisited, ignored, src_ignored, dst_ignored>>
  BY DEF SkipPair
<1>2. TypeOK' /\ AmbiguousPairs'
  BY <1>1, FrontierStays DEF IndInv, TypeOK, AmbiguousPairs, arenas, lists
<1> QED
  BY <1>1, <1>2, FrontierStays, MappingStays, FilterKeepsMapping DEF IndInv

LEMMA EndSelectionInd == IndInv /\ EndSelection => IndInv'
<1> SUFFICES ASSUME IndInv, EndSelection PROVE IndInv'
  OBVIOUS
<1>1. /\ pc' = "done"
      /\ UNCHANGED <<arenas, lists, multi_mappings, mappings>>
      /\ UNCHANGED <<unvisited, ignored, ambiguous_list, src_ignored, dst_ignored>>
  BY DEF EndSelection, filter_vars
<1>2. TypeOK' /\ AmbiguousPairs'
  BY <1>1, FrontierStays DEF IndInv, TypeOK, AmbiguousPairs, arenas, lists
<1> QED
  BY <1>1, <1>2, FrontierStays, MappingStays, FilterKeepsMapping DEF IndInv

LEMMA StutterInd == IndInv /\ UNCHANGED subtree_vars => IndInv'
<1> SUFFICES ASSUME IndInv, UNCHANGED subtree_vars PROVE IndInv'
  OBVIOUS
<1>1. /\ pc' = pc
      /\ UNCHANGED <<arenas, lists, multi_mappings, mappings>>
      /\ unvisited' = unvisited /\ ambiguous_list' = ambiguous_list
      /\ UNCHANGED <<unvisited, ignored, ambiguous_list, src_ignored, dst_ignored>>
      /\ src' = src /\ dst' = dst /\ mappings' = mappings
  BY DEF subtree_vars, filter_vars, arenas
<1>2. TypeOK' /\ AmbiguousPairs'
  BY <1>1, FrontierStays DEF IndInv, TypeOK, AmbiguousPairs, arenas, lists
<1>3. NoPopOnEmpty' /\ InnerNotEmpty' /\ NothingMappedYet'
  BY <1>1 DEF IndInv, NoPopOnEmpty, InnerNotEmpty, NothingMappedYet, lists
<1>4. RootsUniqueOrSelected' /\ UnvisitedUnmapped'
  BY <1>1, FrontierStays DEF IndInv, RootsUniqueOrSelected, UnvisitedUnmapped
<1> QED
  BY <1>1, <1>2, <1>3, <1>4, FrontierStays, MappingStays DEF IndInv
-----------------------------------------------------------------------------
(* Each step of the matcher keeps IndInv. *)
LEMMA IndStep == IndInv /\ [Next]_subtree_vars => IndInv'
<1> SUFFICES ASSUME IndInv, [Next]_subtree_vars PROVE IndInv'
  OBVIOUS
<1>1. CASE EnterLevel
  BY <1>1, EnterLevelInd
<1>2. CASE EndMultiMapping
  BY <1>2, EndMultiMappingInd
<1>3. CASE OpenSrc
  BY <1>3, OpenSrcInd
<1>4. CASE OpenDst
  BY <1>4, OpenDstInd
<1>5. CASE MatchLevel
  BY <1>5, MatchLevelInd
<1>6. CASE FilterUnique
  BY <1>6, FilterUniqueInd
<1>7. CASE FilterAmbiguous
  BY <1>7, FilterAmbiguousInd
<1>8. CASE FilterIgnored
  BY <1>8, FilterIgnoredInd
<1>9. CASE Sort
  BY <1>9, SortInd
<1>10. CASE SelectPair
  BY <1>10, SelectPairInd
<1>11. CASE SkipPair
  BY <1>11, SkipPairInd
<1>12. CASE EndSelection
  BY <1>12, EndSelectionInd
<1>13. CASE UNCHANGED subtree_vars
  BY <1>13, StutterInd
<1> QED
  BY <1>1, <1>2, <1>3, <1>4, <1>5, <1>6, <1>7, <1>8, <1>9, <1>10, <1>11, <1>12, <1>13
     DEF Next, SubtreeNext, Terminated

(***************************************************************************)
(* IndInv is an invariant of the matcher.                                  *)
(***************************************************************************)
THEOREM Inductive == Spec => []IndInv
<1> QED
  BY InitInd, IndStep, PTL DEF Spec

(* Every variable keeps its type, in particular mappings never holds an id *)
(* outside of the two arenas.                                              *)
THEOREM TypeCorrect == Spec => []TypeOK
<1>1. IndInv => TypeOK
  BY DEF IndInv
<1> QED
  BY <1>1, Inductive, PTL

(* The unwraps of pop() in compute_multimapping never fail: the check that *)
(* the code leaves commented out is not needed.                            *)
THEOREM PopNeverPanics == Spec => []NoPopOnEmpty
<1>1. IndInv => NoPopOnEmpty
  BY DEF IndInv
<1> QED
  BY <1>1, Inductive, PTL

(* No waiting tree overlaps another one or a multi-mapped one. *)
THEOREM FrontierStaysDisjoint == Spec => []FrontierDisjoint
<1>1. IndInv => FrontierDisjoint
  BY DEF IndInv
<1> QED
  BY <1>1, Inductive, PTL

(* The multi-mapping is made of complete groups, as filter_mappings        *)
(* assumes when it rebuilds one from a single destination.                 *)
THEOREM GroupsStayClasses == Spec => []GroupsAreClasses
<1>1. IndInv => GroupsAreClasses
  BY DEF IndInv
<1> QED
  BY <1>1, Inductive, PTL

(* The mapping of the top-down phase is one-to-one at every step. *)
THEOREM MappingStaysSymmetric == Spec => []SymmetricMapping
<1>1. IndInv => SymmetricMapping
  BY DEF IndInv
<1> QED
  BY <1>1, Inductive, PTL
-----------------------------------------------------------------------------
(***************************************************************************)
(* What the matcher achieves: it refines SubtreeMatching, leaves no        *)
(* candidate pair free on both sides, and overlooks no common subtree.     *)
(***************************************************************************)
(***************************************************************************)
(* The pairs of the store after add_mapping_recursively: the new ones are  *)
(* those of the two subtrees, position by position.                        *)
(***************************************************************************)
LEMMA PairsLinked ==
  ASSUME NEW t, IsTree(t), NEW u, IsTree(u), NEW m \in Stores(t.len, u.len),
         NEW s \in nodes(t), NEW d \in nodes(u), isomorphic(t, s, u, d),
         \A x \in Subtree(t, s) : ~is_src(m, x),
         \A y \in Subtree(u, d) : ~is_dst(m, y),
         NEW m2, m2 = link_ranges(m, s, d, descendants_count(t, s)),
         NEW x \in nodes(t), NEW y \in nodes(u)
  PROVE  has(m2, x, y) <=> has(m, x, y) \/ (x \in Subtree(t, s) /\ y = x - s + d)
<1> DEFINE n == descendants_count(t, s)
<1>1. /\ s \in Int /\ d \in Int /\ x \in Int /\ y \in Int /\ x >= 0 /\ y >= 0
      /\ t.lld[s] \in Int /\ u.lld[d] \in Int /\ n = s - t.lld[s]
      /\ x < t.len /\ y < u.len /\ t.len \in Int /\ u.len \in Int
  BY NodeTypes DEF descendants_count
<1>2. n = d - u.lld[d]
  BY DEF isomorphic, descendants_count
<1>3. s - n .. s = Subtree(t, s) /\ d - n .. d = Subtree(u, d)
  BY <1>1, <1>2 DEF Subtree
<1>4. x \in DOMAIN m.src_to_dst /\ y \in DOMAIN m.dst_to_src
  <2>1. x \in 0 .. t.len /\ y \in 0 .. u.len
    BY <1>1
  <2> QED
    BY <2>1 DEF Stores
<1>5. /\ m2.src_to_dst[x] = IF x \in Subtree(t, s) THEN x - s + d + 1 ELSE m.src_to_dst[x]
      /\ m2.dst_to_src[y] = IF y \in Subtree(u, d) THEN y - d + s + 1 ELSE m.dst_to_src[y]
  BY <1>3, <1>4 DEF link_ranges
<1> HIDE DEF n
<1>6. x \in Subtree(t, s) <=> t.lld[s] <= x /\ x <= s
  BY <1>1 DEF Subtree
<1>7. y \in Subtree(u, d) <=> u.lld[d] <= y /\ y <= d
  BY <1>1 DEF Subtree
<1>8. s - t.lld[s] = d - u.lld[d]
  BY <1>1, <1>2
<1>9. CASE x \in Subtree(t, s)
  <2>1. m.src_to_dst[x] = 0
    BY <1>9 DEF is_src
  <2>2. ~has(m, x, y)
    BY <1>1, <2>1 DEF has
  <2>3. m2.src_to_dst[x] = x - s + d + 1
    BY <1>5, <1>9
  <2>4. CASE y = x - s + d
    <3>1. y \in Subtree(u, d)
      BY <1>1, <1>6, <1>7, <1>8, <1>9, <2>4
    <3>2. m2.dst_to_src[y] = y - d + s + 1
      BY <1>5, <3>1
    <3>3. m2.src_to_dst[x] = y + 1 /\ m2.dst_to_src[y] = x + 1
      BY <1>1, <2>3, <2>4, <3>2
    <3> QED
      BY <1>9, <2>4, <3>3 DEF has
  <2>5. CASE y # x - s + d
    <3>1. m2.src_to_dst[x] # y + 1
      BY <1>1, <2>3, <2>5
    <3> QED
      BY <2>2, <2>5, <3>1 DEF has
  <2> QED
    BY <2>4, <2>5
<1>10. CASE x \notin Subtree(t, s)
  <2>1. m2.src_to_dst[x] = m.src_to_dst[x]
    BY <1>5, <1>10
  <2>2. CASE y \notin Subtree(u, d)
    BY <1>5, <1>10, <2>1, <2>2 DEF has
  <2>3. CASE y \in Subtree(u, d)
    <3>1. m.dst_to_src[y] = 0
      BY <2>3 DEF is_dst
    <3>2. ~has(m, x, y)
      BY <1>1, <3>1 DEF has
    <3>3. m2.dst_to_src[y] = y - d + s + 1
      BY <1>5, <2>3
    <3>4. y - d + s + 1 # x + 1
      BY <1>1, <1>6, <1>7, <1>8, <1>10, <2>3
    <3> QED
      BY <1>10, <3>2, <3>3, <3>4 DEF has
  <2> QED
    BY <2>2, <2>3
<1> QED
  BY <1>9, <1>10
-----------------------------------------------------------------------------
(* Linking a pair of the multi-mapping whose roots are free is a step of   *)
(* SubtreeMatching.                                                        *)
LEMMA LinkIsMap ==
  ASSUME IndInv, NEW s \in nodes(src), NEW d \in get_dsts(s),
         ~is_src(mappings, s), ~is_dst(mappings, d),
         mappings' = add_mapping_recursively(s, d),
         UNCHANGED <<arenas, multi_mappings>>
  PROVE  Abstract!Next
<1>1. /\ IsTree(src) /\ IsTree(dst) /\ d \in nodes(dst)
      /\ s \in all_mapped_srcs /\ d \in all_mapped_dsts
      /\ all_mapped_srcs \subseteq nodes(src) /\ all_mapped_dsts \subseteq nodes(dst)
  BY StateFacts
<1>2. /\ \A u \in all_mapped_srcs : u # s => Subtree(src, u) \cap Subtree(src, s) = {}
      /\ \A v \in all_mapped_dsts : v # d => Subtree(dst, v) \cap Subtree(dst, d) = {}
  BY <1>1 DEF IndInv, FrontierDisjoint, Disjoint
<1>3. \A x \in Subtree(src, s) : ~is_src(mappings, x)
  BY <1>1, <1>2, SubtreeInNodes DEF IndInv, MappedUnderRoots
<1>4. \A y \in Subtree(dst, d) : ~is_dst(mappings, y)
  BY <1>1, <1>2, SubtreeInNodes DEF IndInv, MappedUnderRoots
<1>5. /\ isomorphic(src, s, dst, d)
      /\ mappings \in Stores(src.len, dst.len)
      /\ mappings' = link_ranges(mappings, s, d, descendants_count(src, s))
  BY DEF IndInv, TypeOK, MultiMappingIsomorphic, add_mapping_recursively
<1>6. src' = src /\ dst' = dst
  BY DEF arenas
<1>7. \A x \in nodes(src), y \in nodes(dst) :
        has(mappings', x, y) <=> has(mappings, x, y) \/ (x \in Subtree(src, s) /\ y = x - s + d)
  BY <1>1, <1>3, <1>4, <1>5, PairsLinked
<1> DEFINE zip == {<<x, x - s + d>> : x \in Subtree(src, s)}
<1>8. zip \subseteq nodes(src) \X nodes(dst)
  <2>1. \A x \in Subtree(src, s) : x \in nodes(src) /\ x - s + d \in Subtree(dst, d)
    BY <1>1, <1>5, IsomorphicInside, SubtreeInNodes
  <2> QED
    BY <1>1, <2>1, SubtreeInNodes
<1>9. mapped_pairs' = mapped_pairs \cup zip
  <2>1. mapped_pairs' = {p \in nodes(src) \X nodes(dst) : has(mappings', p[1], p[2])}
    BY <1>6 DEF mapped_pairs
  <2>2. ASSUME NEW p \in nodes(src) \X nodes(dst)
        PROVE  p \in zip <=> p[1] \in Subtree(src, s) /\ p[2] = p[1] - s + d
    OBVIOUS
  <2> HIDE DEF zip
  <2> QED
    BY <1>7, <1>8, <2>1, <2>2 DEF mapped_pairs
<1>10. Abstract!Unmapped(s, d)
  <2>1. ASSUME NEW p \in mapped_pairs
        PROVE  p[1] \notin Subtree(src, s) /\ p[2] \notin Subtree(dst, d)
    <3>1. p[1] \in nodes(src) /\ p[2] \in nodes(dst) /\ has(mappings, p[1], p[2])
      BY DEF mapped_pairs
    <3>2. is_src(mappings, p[1]) /\ is_dst(mappings, p[2])
      <4>1. p[1] \in Nat /\ p[2] \in Nat
        BY <1>1, <3>1, NodeTypes
      <4> QED
        BY <3>1, <4>1 DEF has, is_src, is_dst
    <3> QED
      BY <1>3, <1>4, <3>2
  <2> QED
    BY <2>1 DEF Abstract!Unmapped, Abstract!Subtree, Subtree
<1>11. Abstract!isomorphic(src, s, dst, d)
  BY <1>5 DEF Abstract!isomorphic, Abstract!descendants_count, Abstract!SameNode,
              isomorphic, descendants_count, SameNode
<1>12. Abstract!Zip(s, d) = zip
  BY DEF Abstract!Zip, Abstract!Subtree, Subtree
<1>13. Abstract!Map(s, d)
  <2> HIDE DEF zip
  <2> QED
    BY <1>6, <1>9, <1>10, <1>11, <1>12 DEF Abstract!Map
<1>14. s \in Abstract!nodes(src) /\ d \in Abstract!nodes(dst)
  BY <1>1 DEF Abstract!nodes, Abstract!root, nodes, root
<1> QED
  BY <1>13, <1>14 DEF Abstract!Next

(* Nothing is mapped at the start. *)
LEMMA AbstractInit == Init => Abstract!Init
<1> SUFFICES ASSUME Init PROVE Abstract!Init
  OBVIOUS
<1>1. IndInv /\ src \in Trees /\ dst \in Trees /\ pc = "outer"
  BY InitInd DEF Init
<1>2. \A x \in nodes(src) : ~is_src(mappings, x)
  BY <1>1 DEF IndInv, NothingMappedYet
<1>3. mapped_pairs = {}
  <2>1. \A y \in nodes(dst) : y \in Nat
    BY <1>1, TreesAssumption, NodeTypes
  <2> QED
    BY <1>2, <2>1 DEF mapped_pairs, has, is_src
<1> QED
  BY <1>1, <1>3 DEF Abstract!Init

(* Each step links one pair of free isomorphic subtrees, or none. *)
LEMMA AbstractStep == IndInv /\ [Next]_subtree_vars => [Abstract!Next]_<<src, dst, mapped_pairs>>
<1> SUFFICES ASSUME IndInv, [Next]_subtree_vars
             PROVE  Abstract!Next \/ UNCHANGED <<src, dst, mapped_pairs>>
  OBVIOUS
<1>1. CASE UNCHANGED <<arenas, mappings>>
  BY <1>1 DEF arenas, mapped_pairs
<1>2. CASE FilterUnique
  <2>1. PICK s \in unvisited : \E d \in get_dsts(s) :
          is_unique_pair(s, d) /\ mappings' = add_mapping_recursively(s, d)
    BY <1>2 DEF FilterUnique
  <2>2. PICK d \in get_dsts(s) :
          is_unique_pair(s, d) /\ mappings' = add_mapping_recursively(s, d)
    BY <2>1
  <2>3. s \in nodes(src) /\ UNCHANGED <<arenas, multi_mappings>>
    BY <1>2 DEF FilterUnique, IndInv, TypeOK
  <2>4. ~is_src(mappings, s) /\ ~is_dst(mappings, d)
    BY <2>2 DEF IndInv, UnvisitedUnmapped
  <2> QED
    BY <2>2, <2>3, <2>4, LinkIsMap
<1>3. CASE SelectPair
  <2>1. PICK p \in ambiguous_list :
          /\ p[1] \notin src_ignored /\ p[2] \notin dst_ignored
          /\ mappings' = add_mapping_recursively(p[1], p[2])
    BY <1>3 DEF SelectPair
  <2> DEFINE s == p[1]
             d == p[2]
  <2>2. s \in nodes(src) /\ d \in nodes(dst) /\ UNCHANGED <<arenas, multi_mappings>>
    BY <1>3 DEF SelectPair, IndInv, TypeOK
  <2>3. d \in get_dsts(s) /\ ~is_mapping_unique(s)
    BY DEF IndInv, AmbiguousPairs
  <2>4. s \notin src_ignored /\ d \notin dst_ignored /\ mappings' = add_mapping_recursively(s, d)
    BY <2>1
  <2> HIDE DEF s, d
  <2>5. s \in all_mapped_srcs /\ d \in all_mapped_dsts /\ s \in get_srcs(d)
    BY <2>2, <2>3, StateFacts
  <2>6. \A u \in nodes(src) : ~is_unique_pair(u, d)
    BY <2>3, <2>5 DEF is_unique_pair, is_mapping_unique
  <2>7. ~is_src(mappings, s) /\ ~is_dst(mappings, d)
    BY <2>3, <2>4, <2>5, <2>6 DEF IndInv, RootsUniqueOrSelected
  <2> QED
    BY <2>2, <2>3, <2>4, <2>7, LinkIsMap
<1>4. CASE \/ EnterLevel \/ EndMultiMapping \/ OpenSrc \/ OpenDst \/ MatchLevel
           \/ FilterAmbiguous \/ FilterIgnored \/ Sort \/ SkipPair \/ EndSelection
           \/ Terminated \/ UNCHANGED subtree_vars
  BY <1>1, <1>4
     DEF EnterLevel, EndMultiMapping, OpenSrc, OpenDst, MatchLevel, FilterAmbiguous,
         FilterIgnored, Sort, SkipPair, EndSelection, Terminated, subtree_vars
<1> QED
  BY <1>2, <1>3, <1>4 DEF Next, SubtreeNext

(***************************************************************************)
(* The matcher implements SubtreeMatching: its mapping grows by one whole  *)
(* pair of free isomorphic subtrees at a time, and by nothing else.        *)
(***************************************************************************)
THEOREM Refinement == Spec => RefinesSubtreeMatching
<1> QED
  BY AbstractInit, AbstractStep, Inductive, PTL DEF Spec, RefinesSubtreeMatching, Abstract!Spec
-----------------------------------------------------------------------------
(***************************************************************************)
(* No pair is left over: each pair of a source that filter_mappings has    *)
(* visited, or has marked as part of a group, waits in the ambiguous list  *)
(* or has a mapped side; and what is marked as taken is mapped.            *)
(***************************************************************************)
settled(s, d) == <<s, d>> \in ambiguous_list \/ is_src(mappings, s) \/ is_dst(mappings, d)

Accounted ==
  /\ pc \in {"outer", "inner", "pop_panic"} => ignored = {} /\ src_ignored = {} /\ dst_ignored = {}
  /\ pc \notin {"outer", "inner", "pop_panic"} =>
       \A s \in nodes(src) \ unvisited : \A d \in get_dsts(s) : settled(s, d)
  /\ \A s \in ignored : \A d \in get_dsts(s) : settled(s, d)
  /\ \A x \in src_ignored : is_src(mappings, x)
  /\ \A y \in dst_ignored : is_dst(mappings, y)
  /\ pc \in {"select", "parent_panic", "done"} => unvisited = {}
  /\ pc = "done" => ambiguous_list = {}

(* What a step keeps when it unmaps nothing and takes no pair out. *)
LEMMA StaysSettled ==
  ASSUME IndInv, Accounted, src' = src, dst' = dst, multi_mappings' = multi_mappings,
         \A x \in nodes(src) : is_src(mappings, x) => is_src(mappings', x),
         \A y \in nodes(dst) : is_dst(mappings, y) => is_dst(mappings', y),
         NEW s \in nodes(src), NEW d \in get_dsts(s), settled(s, d),
         <<s, d>> \in ambiguous_list => settled(s, d)'
  PROVE  settled(s, d)'
<1>1. d \in nodes(dst)
  BY StateFacts
<1> QED
  BY <1>1 DEF settled

(* Linking the roots of a free pair unmaps nothing, and maps their subtrees. *)
LEMMA LinkMaps ==
  ASSUME IndInv, NEW s \in nodes(src), NEW d \in get_dsts(s),
         ~is_src(mappings, s), ~is_dst(mappings, d),
         mappings' = add_mapping_recursively(s, d),
         UNCHANGED <<arenas, multi_mappings>>
  PROVE  /\ \A x \in nodes(src) :
              is_src(mappings', x) <=> is_src(mappings, x) \/ x \in Subtree(src, s)
         /\ \A y \in nodes(dst) :
              is_dst(mappings', y) <=> is_dst(mappings, y) \/ y \in Subtree(dst, d)
         /\ s \in Subtree(src, s) /\ Subtree(src, s) \subseteq nodes(src)
         /\ d \in Subtree(dst, d) /\ Subtree(dst, d) \subseteq nodes(dst)
<1>1. /\ IsTree(src) /\ IsTree(dst) /\ d \in nodes(dst)
      /\ s \in all_mapped_srcs /\ d \in all_mapped_dsts
      /\ all_mapped_srcs \subseteq nodes(src) /\ all_mapped_dsts \subseteq nodes(dst)
  BY StateFacts
<1>2. /\ \A u \in all_mapped_srcs : u # s => Subtree(src, u) \cap Subtree(src, s) = {}
      /\ \A v \in all_mapped_dsts : v # d => Subtree(dst, v) \cap Subtree(dst, d) = {}
  BY <1>1 DEF IndInv, FrontierDisjoint, Disjoint
<1>3. /\ \A x \in Subtree(src, s) : ~is_src(mappings, x)
      /\ \A y \in Subtree(dst, d) : ~is_dst(mappings, y)
  BY <1>1, <1>2, SubtreeInNodes DEF IndInv, MappedUnderRoots
<1>4. /\ isomorphic(src, s, dst, d)
      /\ mappings \in Stores(src.len, dst.len)
      /\ OneToOne(mappings, nodes(src), nodes(dst))
      /\ mappings' = link_ranges(mappings, s, d, descendants_count(src, s))
  BY DEF IndInv, TypeOK, MultiMappingIsomorphic, SymmetricMapping, add_mapping_recursively
<1>5. /\ \A x \in nodes(src) :
           is_src(mappings', x) <=> is_src(mappings, x) \/ x \in Subtree(src, s)
      /\ \A y \in nodes(dst) :
           is_dst(mappings', y) <=> is_dst(mappings, y) \/ y \in Subtree(dst, d)
  BY <1>1, <1>3, <1>4, AddMapping
<1> QED
  BY <1>1, <1>5, SubtreeInNodes

(* Nothing is visited, marked or taken at first. *)
LEMMA AccountedInit == Init => Accounted
BY DEF Init, Accounted

(* Keeping a unique pair maps its source, so all the pairs of that one. *)
LEMMA AccountedUnique == IndInv /\ Accounted /\ FilterUnique => Accounted'
<1> SUFFICES ASSUME IndInv, Accounted, FilterUnique PROVE Accounted'
  OBVIOUS
<1>1. PICK s \in unvisited : \E d \in get_dsts(s) :
        /\ is_unique_pair(s, d)
        /\ mappings' = add_mapping_recursively(s, d)
        /\ unvisited' = unvisited \ {s}
  BY DEF FilterUnique
<1>2. PICK d \in get_dsts(s) :
        /\ is_unique_pair(s, d)
        /\ mappings' = add_mapping_recursively(s, d)
        /\ unvisited' = unvisited \ {s}
  BY <1>1
<1>3. /\ pc = "filter" /\ pc' = "filter" /\ s \in nodes(src)
      /\ src' = src /\ dst' = dst /\ multi_mappings' = multi_mappings
      /\ UNCHANGED <<ignored, ambiguous_list, src_ignored, dst_ignored>>
      /\ UNCHANGED <<arenas, multi_mappings>>
  BY DEF FilterUnique, arenas, IndInv, TypeOK
<1>4. ~is_src(mappings, s) /\ ~is_dst(mappings, d)
  BY <1>2 DEF IndInv, UnvisitedUnmapped
<1>5. /\ \A x \in nodes(src) : is_src(mappings, x) => is_src(mappings', x)
      /\ \A y \in nodes(dst) : is_dst(mappings, y) => is_dst(mappings', y)
      /\ is_src(mappings', s)
  BY <1>2, <1>3, <1>4, LinkMaps
<1>6. ASSUME NEW u \in nodes(src), NEW v \in get_dsts(u), settled(u, v) PROVE settled(u, v)'
  <2>1. <<u, v>> \in ambiguous_list => settled(u, v)'
    BY <1>3 DEF settled
  <2> QED
    BY <1>3, <1>5, <1>6, <2>1, StaysSettled
<1>7. \A u \in nodes(src) : get_dsts(u)' = get_dsts(u)
  BY <1>3 DEF get_dsts
<1>8. \A v \in get_dsts(s) : settled(s, v)'
  BY <1>5 DEF settled
<1>9. /\ ignored \subseteq nodes(src)
      /\ src_ignored \subseteq nodes(src) /\ dst_ignored \subseteq nodes(dst)
  BY DEF IndInv, TypeOK
<1> QED
  BY <1>2, <1>3, <1>5, <1>6, <1>7, <1>8, <1>9 DEF Accounted

(* A whole group is marked and all its pairs wait: its sources share their destinations. *)
LEMMA AccountedAmbiguous == IndInv /\ Accounted /\ FilterAmbiguous => Accounted'
<1> SUFFICES ASSUME IndInv, Accounted, FilterAmbiguous PROVE Accounted'
  OBVIOUS
<1>1. PICK s \in unvisited : \E d \in get_dsts(s) :
        /\ ignored' = ignored \cup get_srcs(d)
        /\ ambiguous_list' = ambiguous_list \cup (get_srcs(d) \X get_dsts(s))
        /\ unvisited' = unvisited \ {s}
  BY DEF FilterAmbiguous
<1>2. PICK d \in get_dsts(s) :
        /\ ignored' = ignored \cup get_srcs(d)
        /\ ambiguous_list' = ambiguous_list \cup (get_srcs(d) \X get_dsts(s))
        /\ unvisited' = unvisited \ {s}
  BY <1>1
<1>3. /\ pc = "filter" /\ pc' = "filter" /\ s \in nodes(src)
      /\ src' = src /\ dst' = dst /\ multi_mappings' = multi_mappings /\ mappings' = mappings
      /\ src_ignored' = src_ignored /\ dst_ignored' = dst_ignored
  BY DEF FilterAmbiguous, arenas, IndInv, TypeOK
<1>4. ASSUME NEW u \in nodes(src), NEW v \in get_dsts(u), settled(u, v) PROVE settled(u, v)'
  BY <1>2, <1>3, <1>4 DEF settled
<1>5. \A u \in nodes(src) : get_dsts(u)' = get_dsts(u)
  BY <1>3 DEF get_dsts
<1>6. \A u \in get_srcs(d) : u \in nodes(src) /\ get_dsts(u) = get_dsts(s)
  BY <1>3 DEF get_srcs, get_dsts, IndInv, GroupsAreClasses
<1>7. s \in get_srcs(d)
  BY <1>3, StateFacts
<1>8. ASSUME NEW u \in get_srcs(d), NEW v \in get_dsts(u) PROVE settled(u, v)'
  <2>1. <<u, v>> \in ambiguous_list'
    BY <1>2, <1>6, <1>8
  <2> QED
    BY <2>1 DEF settled
<1>9. ignored \subseteq nodes(src)
  BY DEF IndInv, TypeOK
<1>10. \A u \in nodes(src) \ unvisited' : \A v \in get_dsts(u) : settled(u, v)'
  BY <1>2, <1>3, <1>4, <1>7, <1>8 DEF Accounted
<1>11. \A u \in ignored' : \A v \in get_dsts(u) : settled(u, v)'
  BY <1>2, <1>4, <1>8, <1>9 DEF Accounted
<1>12. ignored' \subseteq nodes(src)
  BY <1>2, <1>6, <1>9
<1> QED
  BY <1>3, <1>5, <1>10, <1>11, <1>12 DEF Accounted

(* A marked source that is visited brings nothing new. *)
LEMMA AccountedIgnored == IndInv /\ Accounted /\ FilterIgnored => Accounted'
<1> SUFFICES ASSUME IndInv, Accounted, FilterIgnored PROVE Accounted'
  OBVIOUS
<1>1. PICK s \in unvisited : s \in ignored /\ unvisited' = unvisited \ {s}
  BY DEF FilterIgnored
<1>2. /\ pc = "filter" /\ pc' = "filter"
      /\ src' = src /\ dst' = dst /\ multi_mappings' = multi_mappings /\ mappings' = mappings
      /\ UNCHANGED <<ignored, ambiguous_list, src_ignored, dst_ignored>>
  BY DEF FilterIgnored, arenas
<1>3. \A u, v : settled(u, v)' <=> settled(u, v)
  BY <1>2 DEF settled
<1>4. \A u : get_dsts(u)' = get_dsts(u)
  BY <1>2 DEF get_dsts
<1> QED
  BY <1>1, <1>2, <1>3, <1>4 DEF Accounted

(* Selecting a pair takes it out of the list and maps both of its sides. *)
LEMMA AccountedSelect == IndInv /\ Accounted /\ SelectPair => Accounted'
<1> SUFFICES ASSUME IndInv, Accounted, SelectPair PROVE Accounted'
  OBVIOUS
<1>1. PICK p \in ambiguous_list :
        /\ p[1] \notin src_ignored /\ p[2] \notin dst_ignored
        /\ mappings' = add_mapping_recursively(p[1], p[2])
        /\ src_ignored' = src_ignored \cup Subtree(src, p[1])
        /\ dst_ignored' = dst_ignored \cup Subtree(dst, p[2])
        /\ ambiguous_list' = ambiguous_list \ {p}
  BY DEF SelectPair
<1> DEFINE s == p[1]
           d == p[2]
<1>2. /\ pc = "select" /\ pc' = "select"
      /\ src' = src /\ dst' = dst /\ multi_mappings' = multi_mappings
      /\ unvisited' = unvisited /\ ignored' = ignored
      /\ UNCHANGED <<arenas, multi_mappings>>
  BY DEF SelectPair, arenas
<1>3. s \in nodes(src) /\ d \in nodes(dst) /\ p = <<s, d>>
  BY DEF IndInv, TypeOK
<1>4. d \in get_dsts(s) /\ ~is_mapping_unique(s)
  BY DEF IndInv, AmbiguousPairs
<1>5. /\ s \notin src_ignored /\ d \notin dst_ignored /\ mappings' = add_mapping_recursively(s, d)
      /\ src_ignored' = src_ignored \cup Subtree(src, s)
      /\ dst_ignored' = dst_ignored \cup Subtree(dst, d)
      /\ ambiguous_list' = ambiguous_list \ {<<s, d>>}
  BY <1>1, <1>3
<1> HIDE DEF s, d
<1>6. s \in all_mapped_srcs /\ d \in all_mapped_dsts /\ s \in get_srcs(d)
  BY <1>3, <1>4, StateFacts
<1>7. \A u \in nodes(src) : ~is_unique_pair(u, d)
  BY <1>4, <1>6 DEF is_unique_pair, is_mapping_unique
<1>8. ~is_src(mappings, s) /\ ~is_dst(mappings, d)
  BY <1>4, <1>5, <1>6, <1>7 DEF IndInv, RootsUniqueOrSelected
<1>9. /\ \A x \in nodes(src) :
           is_src(mappings', x) <=> is_src(mappings, x) \/ x \in Subtree(src, s)
      /\ \A y \in nodes(dst) :
           is_dst(mappings', y) <=> is_dst(mappings, y) \/ y \in Subtree(dst, d)
      /\ s \in Subtree(src, s) /\ Subtree(src, s) \subseteq nodes(src)
      /\ d \in Subtree(dst, d) /\ Subtree(dst, d) \subseteq nodes(dst)
  BY <1>2, <1>3, <1>4, <1>5, <1>8, LinkMaps
<1>10. ASSUME NEW u \in nodes(src), NEW v \in get_dsts(u), settled(u, v) PROVE settled(u, v)'
  <2>1. ASSUME <<u, v>> \in ambiguous_list PROVE settled(u, v)'
    <3>1. CASE u = s
      BY <1>3, <1>9, <3>1 DEF settled
    <3>2. CASE u # s
      BY <1>5, <2>1, <3>2 DEF settled
    <3> QED
      BY <3>1, <3>2
  <2> QED
    BY <1>2, <1>9, <1>10, <2>1, StaysSettled
<1>11. \A u \in nodes(src) : get_dsts(u)' = get_dsts(u)
  BY <1>2 DEF get_dsts
<1>12. /\ ignored \subseteq nodes(src)
       /\ src_ignored \subseteq nodes(src) /\ dst_ignored \subseteq nodes(dst)
  BY DEF IndInv, TypeOK
<1>13. \A x \in src_ignored' : is_src(mappings', x)
  BY <1>5, <1>9, <1>12 DEF Accounted
<1>14. \A y \in dst_ignored' : is_dst(mappings', y)
  BY <1>5, <1>9, <1>12 DEF Accounted
<1> QED
  BY <1>2, <1>10, <1>11, <1>12, <1>13, <1>14 DEF Accounted

(* A pair that is skipped has a side in a selected subtree, which is mapped. *)
LEMMA AccountedSkip == IndInv /\ Accounted /\ SkipPair => Accounted'
<1> SUFFICES ASSUME IndInv, Accounted, SkipPair PROVE Accounted'
  OBVIOUS
<1>1. PICK p \in ambiguous_list :
        /\ p[1] \in src_ignored \/ p[2] \in dst_ignored
        /\ ambiguous_list' = ambiguous_list \ {p}
  BY DEF SkipPair
<1>2. /\ pc = "select" /\ pc' = "select"
      /\ src' = src /\ dst' = dst /\ multi_mappings' = multi_mappings /\ mappings' = mappings
      /\ UNCHANGED <<unvisited, ignored, src_ignored, dst_ignored>>
  BY DEF SkipPair, arenas
<1>3. is_src(mappings, p[1]) \/ is_dst(mappings, p[2])
  BY <1>1 DEF Accounted
<1>4. ASSUME NEW u, NEW v, settled(u, v) PROVE settled(u, v)'
  <2>1. CASE p = <<u, v>>
    BY <1>2, <1>3, <2>1 DEF settled
  <2>2. CASE p # <<u, v>>
    BY <1>1, <1>2, <1>4, <2>2 DEF settled
  <2> QED
    BY <2>1, <2>2
<1>5. \A u : get_dsts(u)' = get_dsts(u)
  BY <1>2 DEF get_dsts
<1> QED
  BY <1>2, <1>4, <1>5 DEF Accounted

(* The steps that link nothing and leave the filter's lists alone. *)
LEMMA AccountedElse ==
  ASSUME IndInv, Accounted,
         \/ EnterLevel \/ EndMultiMapping \/ OpenSrc \/ OpenDst \/ MatchLevel
         \/ Sort \/ EndSelection \/ Terminated \/ UNCHANGED subtree_vars
  PROVE  Accounted'
<1>1. CASE EnterLevel \/ OpenSrc \/ OpenDst \/ MatchLevel
  <2>1. /\ pc \in {"outer", "inner"} /\ pc' \in {"outer", "inner", "pop_panic"}
        /\ UNCHANGED <<ignored, src_ignored, dst_ignored>>
    BY <1>1 DEF EnterLevel, OpenSrc, OpenDst, MatchLevel, filter_vars
  <2> QED
    BY <2>1 DEF Accounted
<1>2. CASE EndMultiMapping
  <2>1. /\ pc = "outer" /\ pc' = "filter" /\ unvisited' = all_mapped_srcs
        /\ src' = src /\ multi_mappings' = multi_mappings
        /\ UNCHANGED <<ignored, src_ignored, dst_ignored>>
    BY <1>2 DEF EndMultiMapping, arenas
  <2>2. \A s \in nodes(src) \ all_mapped_srcs : get_dsts(s)' = {}
    BY <2>1 DEF all_mapped_srcs, get_dsts
  <2> QED
    BY <2>1, <2>2 DEF Accounted
<1>3. CASE Sort \/ EndSelection \/ Terminated \/ UNCHANGED subtree_vars
  <2>1. /\ src' = src /\ dst' = dst /\ multi_mappings' = multi_mappings /\ mappings' = mappings
        /\ UNCHANGED <<unvisited, ignored, ambiguous_list, src_ignored, dst_ignored>>
        /\ \/ pc' = pc
           \/ pc = "filter" /\ unvisited = {} /\ pc' \in {"select", "parent_panic"}
           \/ pc = "select" /\ ambiguous_list = {} /\ pc' = "done"
    BY <1>3 DEF Sort, EndSelection, Terminated, subtree_vars, filter_vars, arenas
  <2>2. \A u, v : settled(u, v)' <=> settled(u, v)
    BY <2>1 DEF settled
  <2>3. \A u : get_dsts(u)' = get_dsts(u)
    BY <2>1 DEF get_dsts
  <2>4. CASE pc' = pc
    BY <2>1, <2>2, <2>3, <2>4 DEF Accounted
  <2>5. CASE pc = "filter" /\ unvisited = {} /\ pc' \in {"select", "parent_panic"}
    BY <2>1, <2>2, <2>3, <2>5 DEF Accounted
  <2>6. CASE pc = "select" /\ ambiguous_list = {} /\ pc' = "done"
    BY <2>1, <2>2, <2>3, <2>6 DEF Accounted
  <2> QED
    BY <2>1, <2>4, <2>5, <2>6
<1> QED
  BY <1>1, <1>2, <1>3

(* Every step keeps the pairs accounted for. *)
LEMMA AccountedStep == IndInv /\ Accounted /\ [Next]_subtree_vars => Accounted'
BY AccountedUnique, AccountedAmbiguous, AccountedIgnored, AccountedSelect, AccountedSkip,
   AccountedElse DEF Next, SubtreeNext

(* With the list empty, what is accounted for has a mapped side. *)
LEMMA AccountedImplies == Accounted => NoPairLeftOver
BY DEF Accounted, NoPairLeftOver, settled

(***************************************************************************)
(* When the matcher is done no candidate pair is free on both sides.       *)
(***************************************************************************)
THEOREM NothingLeftOver == Spec => []NoPairLeftOver
<1> QED
  BY AccountedInit, AccountedStep, AccountedImplies, Inductive, PTL DEF Spec
-----------------------------------------------------------------------------
(***************************************************************************)
(* Nothing is overlooked: until the walk ends, two isomorphic subtrees of  *)
(* a sufficient height lie under a multi-mapped tree on one side, or are   *)
(* both still ahead, under trees that wait in the lists.                   *)
(***************************************************************************)
under(t, S, x) == \E r \in S : x \in Subtree(t, r)

ahead(s, d) ==
  \/ under(src, all_mapped_srcs, s)
  \/ under(dst, all_mapped_dsts, d)
  \/ under(src, src_trees.trees, s) /\ under(dst, dst_trees.trees, d)

Ahead ==
  /\ \A s \in listed(src, nodes(src)), d \in listed(dst, nodes(dst)) :
       isomorphic(src, s, dst, d) => ahead(s, d)
  /\ pc = "filter" => src_trees.trees = {} \/ dst_trees.trees = {}

(***************************************************************************)
(* A listed node under a waiting tree that is opened, and is not that tree *)
(* itself, comes under one of the trees that the opening adds; under any   *)
(* other waiting tree it stays.                                            *)
(***************************************************************************)
LEMMA StaysUnder ==
  ASSUME NEW t, IsTree(t), NEW list, ListOK(t, list),
         NEW T, T \subseteq top_level(t, list),
         NEW r \in list.trees, NEW x \in Subtree(t, r), x \in listed(t, nodes(t)),
         r \in top_level(t, list) => r \in T /\ x # r
  PROVE  under(t, replace_top(t, list, T).trees, x)
<1>1. r \in nodes(t) /\ top_level(t, list) \subseteq list.trees /\ list.trees \subseteq nodes(t)
  BY ListFacts
<1> DEFINE new_trees == (list.trees \ top_level(t, list)) \cup open_trees(t, T)
<1>2. replace_top(t, list, T).trees = new_trees
  BY DEF replace_top, update_height
<1>3. CASE r \notin top_level(t, list)
  BY <1>2, <1>3 DEF under
<1>4. CASE r \in top_level(t, list)
  <2>1. PICK c \in children(t, r) : x \in Subtree(t, c)
    BY <1>1, <1>4, ChildAbove
  <2>2. c \in nodes(t) /\ x \in nodes(t)
    BY <1>1, <2>1, ChildSubtree DEF listed
  <2>3. t.height[x] >= MIN_HEIGHT /\ t.height[x] <= t.height[c]
    BY <2>1, <2>2, SubtreeHeights DEF listed
  <2>4. t.height[c] \in Nat /\ t.height[x] \in Nat
    BY <2>2, NodeTypes
  <2>5. t.height[c] >= MIN_HEIGHT
    BY <2>3, <2>4, MinHeightAssumption
  <2>6. c \in open_trees(t, T)
    BY <1>4, <2>1, <2>5 DEF open_trees, listed
  <2> QED
    BY <1>2, <2>1, <2>6 DEF under
<1> QED
  BY <1>3, <1>4

(* At first everything is under the two roots, which wait in the lists. *)
LEMMA AheadInit == Init => Ahead
<1> SUFFICES ASSUME Init PROVE Ahead
  OBVIOUS
<1>1. IsTree(src) /\ IsTree(dst) /\ pc = "outer"
  BY TreesAssumption DEF Init
<1>2. ASSUME NEW t, IsTree(t), NEW x \in listed(t, nodes(t))
      PROVE  under(t, new(t).trees, x)
  <2>1. x \in nodes(t) /\ t.height[x] >= MIN_HEIGHT
    BY <1>2 DEF listed
  <2>2. root(t) \in nodes(t) /\ t.lld[root(t)] = 0
    BY <1>2, RootIsNode DEF IsTree, TreeShape
  <2>3. x \in Subtree(t, root(t))
    BY <2>1, <2>2 DEF Subtree, nodes
  <2>4. t.height[x] <= t.height[root(t)]
    BY <1>2, <2>2, <2>3, SubtreeHeights
  <2>5. t.height[x] \in Nat /\ t.height[root(t)] \in Nat
    BY <1>2, <2>1, <2>2, NodeTypes
  <2>6. root(t) \in listed(t, {root(t)})
    BY <2>1, <2>4, <2>5, MinHeightAssumption DEF listed
  <2>7. new(t).trees = listed(t, {root(t)})
    BY DEF new, update_height
  <2> QED
    BY <2>3, <2>6, <2>7 DEF under
<1>3. src_trees = new(src) /\ dst_trees = new(dst)
  BY DEF Init
<1> QED
  BY <1>1, <1>2, <1>3 DEF Ahead, ahead

(* No waiting tree is higher than the cached height of its list. *)
LEMMA PeekBounds ==
  ASSUME NEW t, IsTree(t), NEW list, ListOK(t, list), NEW x \in list.trees
  PROVE  t.height[x] <= list.peek /\ list.peek \in Nat
<1>1. list.trees \subseteq nodes(t) /\ list = update_height(t, list.trees)
  BY ListFacts DEF ListOK
<1> QED
  BY <1>1, UpdateHeight

(* Isomorphic nodes have one height: what is matched first is not deeper. *)
LEMMA PairHeights ==
  ASSUME IndInv, NEW s \in nodes(src), NEW d \in nodes(dst), isomorphic(src, s, dst, d),
         NEW r \in nodes(src), s \in Subtree(src, r),
         NEW q \in nodes(dst), d \in Subtree(dst, q)
  PROVE  /\ src.height[s] = dst.height[d] /\ src.height[s] \in Nat
         /\ src.height[r] \in Nat /\ dst.height[q] \in Nat
         /\ src.height[s] <= src.height[r] /\ dst.height[d] <= dst.height[q]
<1>1. src \in Trees /\ dst \in Trees /\ IsTree(src) /\ IsTree(dst)
  BY StateFacts DEF IndInv, TypeOK
<1> QED
  BY <1>1, HeightsAssumption, SubtreeHeights, NodeTypes

(* No node of a pair is as high as a source tree opened before the destinations. *)
LEMMA AheadOpenSrc == IndInv /\ Ahead /\ OpenSrc => Ahead'
<1> SUFFICES ASSUME IndInv, Ahead, OpenSrc PROVE Ahead'
  OBVIOUS
<1>1. /\ pc = "inner" /\ pc' = "inner" /\ src_trees.peek > dst_trees.peek
      /\ src_trees' = replace_top(src, src_trees, top_level(src, src_trees))
      /\ src' = src /\ dst' = dst /\ dst_trees' = dst_trees
      /\ all_mapped_srcs' = all_mapped_srcs /\ all_mapped_dsts' = all_mapped_dsts
  BY DEF OpenSrc, open, arenas, all_mapped_srcs, all_mapped_dsts, get_srcs
<1>2. /\ IsTree(src) /\ IsTree(dst)
      /\ ListOK(src, src_trees) /\ ListOK(dst, dst_trees)
      /\ src_trees.trees \subseteq nodes(src) /\ dst_trees.trees \subseteq nodes(dst)
  BY StateFacts, ListFacts
<1>3. ASSUME NEW s \in listed(src, nodes(src)), NEW d \in listed(dst, nodes(dst)),
             isomorphic(src, s, dst, d),
             under(src, src_trees.trees, s), under(dst, dst_trees.trees, d)
      PROVE  under(src, replace_top(src, src_trees, top_level(src, src_trees)).trees, s)
  <2>1. PICK r \in src_trees.trees : s \in Subtree(src, r)
    BY <1>3 DEF under
  <2>2. PICK q \in dst_trees.trees : d \in Subtree(dst, q)
    BY <1>3 DEF under
  <2>3. /\ src.height[s] = dst.height[d] /\ src.height[s] \in Nat
        /\ dst.height[d] <= dst.height[q] /\ dst.height[q] \in Nat
    BY <1>2, <1>3, <2>1, <2>2, PairHeights DEF listed
  <2>4. dst.height[q] <= dst_trees.peek /\ dst_trees.peek \in Nat
    BY <1>2, <2>2, PeekBounds
  <2>5. src_trees.peek \in Nat \cup {-1}
    BY DEF IndInv, TypeOK, Lists
  <2>6. src.height[s] # src_trees.peek
    BY <1>1, <2>3, <2>4, <2>5
  <2>7. r \in top_level(src, src_trees) => s # r
    BY <2>6 DEF top_level
  <2> QED
    BY <1>2, <1>3, <2>1, <2>7, StaysUnder
<1> QED
  BY <1>1, <1>3 DEF Ahead, ahead

(* The same on the other side. *)
LEMMA AheadOpenDst == IndInv /\ Ahead /\ OpenDst => Ahead'
<1> SUFFICES ASSUME IndInv, Ahead, OpenDst PROVE Ahead'
  OBVIOUS
<1>1. /\ pc = "inner" /\ pc' = "inner" /\ src_trees.peek < dst_trees.peek
      /\ dst_trees' = replace_top(dst, dst_trees, top_level(dst, dst_trees))
      /\ src' = src /\ dst' = dst /\ src_trees' = src_trees
      /\ all_mapped_srcs' = all_mapped_srcs /\ all_mapped_dsts' = all_mapped_dsts
  BY DEF OpenDst, open, arenas, all_mapped_srcs, all_mapped_dsts, get_srcs
<1>2. /\ IsTree(src) /\ IsTree(dst)
      /\ ListOK(src, src_trees) /\ ListOK(dst, dst_trees)
      /\ src_trees.trees \subseteq nodes(src) /\ dst_trees.trees \subseteq nodes(dst)
  BY StateFacts, ListFacts
<1>3. ASSUME NEW s \in listed(src, nodes(src)), NEW d \in listed(dst, nodes(dst)),
             isomorphic(src, s, dst, d),
             under(src, src_trees.trees, s), under(dst, dst_trees.trees, d)
      PROVE  under(dst, replace_top(dst, dst_trees, top_level(dst, dst_trees)).trees, d)
  <2>1. PICK r \in src_trees.trees : s \in Subtree(src, r)
    BY <1>3 DEF under
  <2>2. PICK q \in dst_trees.trees : d \in Subtree(dst, q)
    BY <1>3 DEF under
  <2>3. /\ src.height[s] = dst.height[d] /\ src.height[s] \in Nat
        /\ src.height[s] <= src.height[r] /\ src.height[r] \in Nat
    BY <1>2, <1>3, <2>1, <2>2, PairHeights DEF listed
  <2>4. src.height[r] <= src_trees.peek /\ src_trees.peek \in Nat
    BY <1>2, <2>1, PeekBounds
  <2>5. dst_trees.peek \in Nat \cup {-1}
    BY DEF IndInv, TypeOK, Lists
  <2>6. dst.height[d] # dst_trees.peek
    BY <1>1, <2>3, <2>4, <2>5
  <2>7. q \in top_level(dst, dst_trees) => d # q
    BY <2>6 DEF top_level
  <2> QED
    BY <1>2, <1>3, <2>2, <2>7, StaysUnder
<1> QED
  BY <1>1, <1>3 DEF Ahead, ahead

(***************************************************************************)
(* A node that is opened has no mate at its level.  So neither of the two  *)
(* nodes of a pair is opened itself, provided that the height tells a node *)
(* from its descendants (MIN_HEIGHT > 0): the other one would be its mate. *)
(***************************************************************************)
LEMMA AheadMatchLevel ==
  ASSUME MIN_HEIGHT > 0, IndInv, Ahead, MatchLevel
  PROVE  Ahead'
<1> DEFINE srcs == top_level(src, src_trees)
           dsts == top_level(dst, dst_trees)
           open_srcs == src_unmarked(srcs, dsts)
           open_dsts == dst_unmarked(srcs, dsts)
<1>1. /\ pc = "inner" /\ pc' = IF src_trees.peek = -1 THEN "pop_panic" ELSE "outer"
      /\ src_trees.peek = dst_trees.peek
      /\ src_trees' = replace_top(src, src_trees, open_srcs)
      /\ dst_trees' = replace_top(dst, dst_trees, open_dsts)
      /\ src' = src /\ dst' = dst
      /\ multi_mappings' =
           [s \in nodes(src) |->
              IF s \in srcs THEN multi_mappings[s] \cup mates(s, dsts) ELSE multi_mappings[s]]
  BY DEF MatchLevel, arenas
<1>2. /\ IsTree(src) /\ IsTree(dst)
      /\ ListOK(src, src_trees) /\ ListOK(dst, dst_trees)
      /\ src_trees.trees \subseteq nodes(src) /\ dst_trees.trees \subseteq nodes(dst)
      /\ srcs \subseteq src_trees.trees /\ dsts \subseteq dst_trees.trees
      /\ multi_mappings \in [nodes(src) -> SUBSET nodes(dst)]
  BY StateFacts, ListFacts DEF IndInv, TypeOK
<1>3. open_srcs \subseteq srcs /\ open_dsts \subseteq dsts
  BY DEF src_unmarked, dst_unmarked
<1>4. \A s \in nodes(src) : multi_mappings[s] \subseteq multi_mappings'[s]
  BY <1>1
<1>5. all_mapped_srcs \subseteq all_mapped_srcs' /\ all_mapped_dsts \subseteq all_mapped_dsts'
  BY <1>1, <1>4 DEF all_mapped_srcs, all_mapped_dsts, get_srcs
<1>6. ASSUME NEW r \in srcs, NEW q \in mates(r, dsts)
      PROVE  r \in all_mapped_srcs' /\ q \in all_mapped_dsts'
  <2>1. r \in nodes(src) /\ q \in dsts /\ q \in nodes(dst) /\ q \in multi_mappings'[r]
    BY <1>1, <1>2, <1>6 DEF mates
  <2> QED
    BY <1>1, <2>1 DEF all_mapped_srcs, all_mapped_dsts, get_srcs
<1>7. \A r \in srcs : r \in open_srcs \/ r \in all_mapped_srcs'
  BY <1>6 DEF src_unmarked
<1>8. \A q \in dsts : q \in open_dsts \/ q \in all_mapped_dsts'
  BY <1>6 DEF dst_unmarked
<1> HIDE DEF open_srcs, open_dsts
<1>9. ASSUME NEW s \in listed(src, nodes(src)), NEW d \in listed(dst, nodes(dst)),
             isomorphic(src, s, dst, d),
             NEW r \in src_trees.trees, s \in Subtree(src, r),
             NEW q \in dst_trees.trees, d \in Subtree(dst, q),
             src.height[s] = src_trees.peek
      PROVE  d = q /\ s = r /\ r \in srcs /\ q \in mates(r, dsts)
  <2>1. /\ src.height[s] = dst.height[d] /\ src.height[s] \in Nat
        /\ src.height[r] \in Nat /\ dst.height[q] \in Nat
        /\ src.height[s] <= src.height[r] /\ dst.height[d] <= dst.height[q]
    BY <1>2, <1>9, PairHeights DEF listed
  <2>2. src.height[r] <= src_trees.peek /\ dst.height[q] <= dst_trees.peek
    BY <1>2, <1>9, PeekBounds
  <2>3. src.height[r] = src.height[s] /\ dst.height[q] = dst.height[d]
    BY <1>1, <1>9, <2>1, <2>2
  <2>4. src.height[r] # 0 /\ dst.height[q] # 0
    BY <1>9, <2>1, <2>3, MinHeightAssumption DEF listed
  <2>5. s = r /\ d = q
    BY <1>2, <1>9, <2>1, <2>3, <2>4, SubtreeHeights
  <2>6. r \in srcs /\ q \in dsts
    BY <1>1, <1>9, <2>1, <2>3 DEF top_level
  <2> QED
    BY <1>9, <2>5, <2>6 DEF mates
<1>10. ASSUME NEW s \in listed(src, nodes(src)), NEW d \in listed(dst, nodes(dst)),
              isomorphic(src, s, dst, d)
       PROVE  ahead(s, d)'
  <2>1. CASE under(src, all_mapped_srcs, s) \/ under(dst, all_mapped_dsts, d)
    BY <1>1, <1>5, <2>1 DEF ahead, under
  <2>2. CASE under(src, src_trees.trees, s) /\ under(dst, dst_trees.trees, d)
    <3>1. PICK r \in src_trees.trees : s \in Subtree(src, r)
      BY <2>2 DEF under
    <3>2. PICK q \in dst_trees.trees : d \in Subtree(dst, q)
      BY <2>2 DEF under
    <3>3. CASE r \in all_mapped_srcs' \/ q \in all_mapped_dsts'
      BY <1>1, <3>1, <3>2, <3>3 DEF ahead, under
    <3>4. CASE r \notin all_mapped_srcs' /\ q \notin all_mapped_dsts'
      <4>1. src.height[s] # src_trees.peek
        BY <1>6, <1>9, <1>10, <3>1, <3>2, <3>4
      <4>2. dst.height[d] # dst_trees.peek
        <5>1. src.height[s] = dst.height[d]
          BY <1>2, <1>10, <3>1, <3>2, PairHeights DEF listed
        <5> QED
          BY <1>1, <4>1, <5>1
      <4>3. /\ r \in srcs => r \in open_srcs /\ s # r
            /\ q \in dsts => q \in open_dsts /\ d # q
        BY <1>7, <1>8, <3>4, <4>1, <4>2 DEF top_level
      <4>4. under(src, replace_top(src, src_trees, open_srcs).trees, s)
        BY <1>2, <1>3, <1>10, <3>1, <4>3, StaysUnder
      <4>5. under(dst, replace_top(dst, dst_trees, open_dsts).trees, d)
        BY <1>2, <1>3, <1>10, <3>2, <4>3, StaysUnder
      <4> QED
        BY <1>1, <4>4, <4>5 DEF ahead
    <3> QED
      BY <3>3, <3>4
  <2> QED
    BY <1>10, <2>1, <2>2 DEF Ahead, ahead
<1> QED
  BY <1>1, <1>10 DEF Ahead

(* The other steps move nothing in the lists and the multi-mapping. *)
LEMMA AheadElse ==
  ASSUME IndInv, Ahead,
         \/ EnterLevel \/ EndMultiMapping \/ FilterUnique \/ FilterAmbiguous \/ FilterIgnored
         \/ Sort \/ SelectPair \/ SkipPair \/ EndSelection \/ Terminated
         \/ UNCHANGED subtree_vars
  PROVE  Ahead'
<1>1. /\ src' = src /\ dst' = dst /\ src_trees' = src_trees /\ dst_trees' = dst_trees
      /\ multi_mappings' = multi_mappings
  BY DEF EnterLevel, EndMultiMapping, FilterUnique, FilterAmbiguous, FilterIgnored, Sort,
         SelectPair, SkipPair, EndSelection, Terminated, subtree_vars, arenas, lists
<1>2. all_mapped_srcs' = all_mapped_srcs /\ all_mapped_dsts' = all_mapped_dsts
  BY <1>1 DEF all_mapped_srcs, all_mapped_dsts, get_srcs
<1>3. pc' = "filter" /\ pc # "filter" => src_trees.peek = -1 \/ dst_trees.peek = -1
  BY DEF EnterLevel, EndMultiMapping, FilterUnique, FilterAmbiguous, FilterIgnored, Sort,
         SelectPair, SkipPair, EndSelection, Terminated, subtree_vars
<1>4. /\ src_trees.peek = -1 => src_trees.trees = {}
      /\ dst_trees.peek = -1 => dst_trees.trees = {}
  BY StateFacts, ListFacts
<1> QED
  BY <1>1, <1>2, <1>3, <1>4 DEF Ahead, ahead

(* With one of the lists empty, no pair is ahead any more. *)
LEMMA AheadImplies == IndInv /\ Ahead => NothingOverlooked
BY DEF Ahead, ahead, under, NothingOverlooked

(***************************************************************************)
(* The walk by decreasing height overlooks no common subtree, as long as   *)
(* subtrees of height 0 are not matched (a node holding only spaces has    *)
(* the same height as its children and would be compared too early).       *)
(***************************************************************************)
THEOREM OverlooksNothing ==
  ASSUME MIN_HEIGHT > 0
  PROVE  Spec => []NothingOverlooked
<1>1. IndInv /\ Ahead /\ [Next]_subtree_vars => Ahead'
  BY AheadOpenSrc, AheadOpenDst, AheadMatchLevel, AheadElse DEF Next, SubtreeNext
<1> QED
  BY <1>1, AheadInit, AheadImplies, Inductive, PTL DEF Spec
=============================================================================
