-------------------- MODULE GreedyBottomUpMatcher_proofs --------------------
(***************************************************************************)
(* What the two matchers leave in the store.  That they take no pair back  *)
(* needs nothing of the mapping that the Zhang-Shasha matcher answers; the *)
(* types of the pairs, and who takes a partner from whom, need that it is  *)
(* an edit mapping of the two subtrees, optimal or not.                    *)
(***************************************************************************)
EXTENDS GreedyBottomUpMatcher, GreedySubtreeMatcher_proofs

(***************************************************************************)
(* What is needed of the store: a slot for each node.  While the first     *)
(* matcher runs its own invariant holds; when it is done all that remains  *)
(* of it is the shape of the store.                                        *)
(***************************************************************************)
Slots(m) ==
  /\ DOMAIN m.src_to_dst = 0 .. src.len
  /\ DOMAIN m.dst_to_src = 0 .. dst.len

Kept ==
  /\ src \in Trees /\ dst \in Trees
  /\ Slots(mappings)
  /\ phase = "subtree" => IndInv
  /\ a \in Nat /\ a <= root(src)

(* Nodes have a slot, and the arenas are trees. *)
LEMMA NodeSlots ==
  ASSUME Kept
  PROVE  /\ IsTree(src) /\ IsTree(dst)
         /\ \A x \in nodes(src) : x \in Nat /\ x \in 0 .. src.len
         /\ \A y \in nodes(dst) : y \in Nat /\ y \in 0 .. dst.len
         /\ a \in nodes(src)
         /\ root(src) \in nodes(src) /\ root(dst) \in nodes(dst)
<1>1. IsTree(src) /\ IsTree(dst)
  BY TreesAssumption DEF Kept
<1>2. /\ \A x \in nodes(src) : x \in Nat /\ x < src.len /\ src.len \in Nat
      /\ \A y \in nodes(dst) : y \in Nat /\ y < dst.len /\ dst.len \in Nat
  BY <1>1, NodeTypes
<1>3. root(src) \in nodes(src) /\ root(dst) \in nodes(dst)
  BY <1>1, RootIsNode
<1>4. a \in nodes(src)
  BY <1>2, <1>3 DEF Kept, nodes
<1> QED
  BY <1>1, <1>2, <1>3, <1>4

(* The recovery keeps the slots and every pair there was. *)
LEMMA RecoveredKeeps ==
  ASSUME NEW m, Slots(m), NEW zs,
         NEW x \in 0 .. src.len, NEW y \in 0 .. dst.len, x \in Nat, y \in Nat
  PROVE  /\ Slots(recovered(m, zs))
         /\ has(m, x, y) => has(recovered(m, zs), x, y)
<1> DEFINE kept == {p \in zs : /\ ~is_src(m, p[1]) /\ ~is_dst(m, p[2])
                               /\ src.type[p[1]] = dst.type[p[2]]}
           r == recovered(m, zs)
<1>1. /\ r.src_to_dst = [v \in DOMAIN m.src_to_dst |->
                           IF \E p \in kept : p[1] = v
                           THEN (CHOOSE p \in kept : p[1] = v)[2] + 1 ELSE m.src_to_dst[v]]
      /\ r.dst_to_src = [w \in DOMAIN m.dst_to_src |->
                           IF \E p \in kept : p[2] = w
                           THEN (CHOOSE p \in kept : p[2] = w)[1] + 1 ELSE m.dst_to_src[w]]
  BY DEF recovered
<1>2. Slots(r)
  BY <1>1 DEF Slots
<1>3. ASSUME has(m, x, y) PROVE has(r, x, y)
  <2>1. is_src(m, x) /\ is_dst(m, y)
    BY <1>3 DEF has, is_src, is_dst
  <2>2. (\A p \in kept : p[1] # x) /\ (\A p \in kept : p[2] # y)
    BY <2>1
  <2>3. r.src_to_dst[x] = m.src_to_dst[x] /\ r.dst_to_src[y] = m.dst_to_src[y]
    <3>1. x \in DOMAIN m.src_to_dst /\ y \in DOMAIN m.dst_to_src
      BY DEF Slots
    <3> HIDE DEF kept, r
    <3>2. ~(\E p \in kept : p[1] = x) /\ ~(\E p \in kept : p[2] = y)
      BY <2>2
    <3>3. r.src_to_dst[x] = m.src_to_dst[x]
      BY <1>1, <3>1, <3>2
    <3>4. r.dst_to_src[y] = m.dst_to_src[y]
      BY <1>1, <3>1, <3>2
    <3> QED
      BY <3>3, <3>4
  <2> QED
    BY <1>3, <2>3 DEF has
<1> QED
  BY <1>2, <1>3

(* A link takes pairs of its own two nodes only. *)
LEMMA LinkKeeps ==
  ASSUME NEW m, Slots(m), NEW s, NEW d,
         NEW x \in 0 .. src.len, NEW y \in 0 .. dst.len, x # s, y # d
  PROVE  /\ Slots(link(m, s, d))
         /\ has(m, x, y) => has(link(m, s, d), x, y)
BY DEF Slots, link, has

(* The store is created with a slot for each node, and one more. *)
LEMMA KeptInit == GumTreeInit => Kept
<1> SUFFICES ASSUME GumTreeInit PROVE Kept
  OBVIOUS
<1>1. IndInv /\ src \in Trees /\ dst \in Trees /\ a = 0 /\ mappings = topit(src.len, dst.len)
  BY InitInd DEF GumTreeInit, Init
<1>2. root(src) \in nodes(src)
  BY <1>1, TreesAssumption, RootIsNode
<1>3. root(src) \in Nat
  BY <1>1, <1>2, TreesAssumption, NodeTypes
<1> QED
  BY <1>1, <1>3 DEF Kept, Slots, topit

(* what PairsKept says of a step: it takes no pair but one of a root *)
PairsStay ==
  \A p \in mapped_pairs : p[1] # root(src) /\ p[2] # root(dst) => p \in mapped_pairs'

(* The steps of the first matcher add pairs only, by Refinement. *)
LEMMA SubtreeKept == Kept /\ SubtreeStep => Kept' /\ PairsStay
<1> SUFFICES ASSUME Kept, SubtreeStep PROVE Kept' /\ PairsStay
  OBVIOUS
<1>1. IndInv /\ SubtreeNext /\ a' = a /\ phase' = phase
  BY DEF Kept, SubtreeStep
<1>2. [Next]_subtree_vars
  BY <1>1 DEF Next
<1>3. IndInv'
  BY <1>1, <1>2, IndStep
<1>4. src' = src /\ dst' = dst /\ mapped_pairs \subseteq mapped_pairs'
  BY <1>1, <1>2, AbstractStep DEF Abstract!Next, Abstract!Map
<1>5. mappings' \in Stores(src.len, dst.len)'
  BY <1>3 DEF IndInv, TypeOK
<1>6. Kept'
  BY <1>1, <1>3, <1>4, <1>5 DEF Kept, Slots, Stores
<1>7. PairsStay
  BY <1>4 DEF PairsStay
<1> QED
  BY <1>6, <1>7

(* The recovery and the link act on nodes that are both unmapped. *)
LEMMA MapBestKept == Kept /\ MapBest => Kept' /\ PairsStay
<1> SUFFICES ASSUME Kept, MapBest PROVE Kept' /\ PairsStay
  OBVIOUS
<1>1. PICK y \in best(a) : \E zs \in zs_mappings(a, y) :
        mappings' = link(recovered(mappings, zs), a, y)
  BY DEF MapBest
<1>2. PICK zs : mappings' = link(recovered(mappings, zs), a, y)
  BY <1>1
<1>3. /\ phase = "bottom_up" /\ phase' = phase /\ a < root(src) /\ a' = a + 1
      /\ ~is_src(mappings, a) /\ src' = src /\ dst' = dst
  BY DEF MapBest, InLoop, ElseUnchanged, arenas
<1>4. y \in nodes(dst) /\ ~is_dst(mappings, y)
  BY DEF best, candidates
<1>5. ASSUME NEW v \in nodes(src), NEW w \in nodes(dst), has(mappings, v, w)
      PROVE  has(mappings', v, w)
  <2>1. v # a /\ w # y
    BY <1>3, <1>4, <1>5, NodeSlots DEF has, is_src, is_dst
  <2>2. v \in 0 .. src.len /\ w \in 0 .. dst.len /\ v \in Nat /\ w \in Nat /\ Slots(mappings)
    BY NodeSlots DEF Kept
  <2>3. Slots(recovered(mappings, zs)) /\ has(recovered(mappings, zs), v, w)
    BY <1>5, <2>2, RecoveredKeeps
  <2> QED
    BY <1>2, <2>1, <2>2, <2>3, LinkKeeps
<1>6. Slots(mappings')
  BY <1>2 DEF Slots, Kept, link, recovered
<1>7. Kept'
  <2>1. a + 1 \in Nat /\ a + 1 <= root(src)
    BY <1>3, NodeSlots DEF Kept
  <2> QED
    BY <1>3, <1>6, <2>1 DEF Kept, Slots
<1>8. PairsStay
  BY <1>3, <1>5 DEF PairsStay, mapped_pairs
<1> QED
  BY <1>7, <1>8

(* The link of the roots takes pairs of a root, the recovery none. *)
LEMMA MapRootsKept == Kept /\ MapRoots => Kept' /\ PairsStay
<1> SUFFICES ASSUME Kept, MapRoots PROVE Kept' /\ PairsStay
  OBVIOUS
<1>1. PICK zs : mappings' = recovered(link(mappings, root(src), root(dst)), zs)
  BY DEF MapRoots
<1>2. phase' = "matched" /\ a' = a /\ src' = src /\ dst' = dst
  BY DEF MapRoots, ElseUnchanged, arenas
<1>3. ASSUME NEW v \in nodes(src), NEW w \in nodes(dst), has(mappings, v, w),
             v # root(src), w # root(dst)
      PROVE  has(mappings', v, w)
  <2>1. v \in 0 .. src.len /\ w \in 0 .. dst.len /\ v \in Nat /\ w \in Nat /\ Slots(mappings)
    BY NodeSlots DEF Kept
  <2>2. /\ Slots(link(mappings, root(src), root(dst)))
        /\ has(link(mappings, root(src), root(dst)), v, w)
    BY <1>3, <2>1, LinkKeeps
  <2> QED
    BY <1>1, <2>1, <2>2, RecoveredKeeps
<1>4. Slots(mappings')
  BY <1>1 DEF Slots, Kept, link, recovered
<1>5. Kept'
  BY <1>2, <1>4 DEF Kept, Slots
<1>6. PairsStay
  BY <1>2, <1>3 DEF PairsStay, mapped_pairs
<1> QED
  BY <1>5, <1>6

(* The steps that change no mapping. *)
LEMMA ElseKept ==
  ASSUME Kept, StartBottomUp \/ SkipNode \/ GumTreeOver \/ UNCHANGED gumtree_vars
  PROVE  Kept' /\ PairsStay
<1>1. UNCHANGED subtree_vars /\ src' = src /\ dst' = dst /\ mappings' = mappings
  BY DEF StartBottomUp, SkipNode, GumTreeOver, gumtree_vars, subtree_vars, arenas
<1>2. PairsStay
  BY <1>1 DEF PairsStay, mapped_pairs
<1>3. a' \in Nat /\ a' <= root(src)
  BY NodeSlots DEF Kept, StartBottomUp, SkipNode, InLoop, GumTreeOver, gumtree_vars
<1>4. phase' = "subtree" => IndInv'
  BY <1>1, StutterInd DEF Kept, StartBottomUp, SkipNode, InLoop, GumTreeOver, gumtree_vars
<1> QED
  BY <1>1, <1>2, <1>3, <1>4 DEF Kept, Slots

(* Every step keeps Kept and the pairs. *)
LEMMA KeptStep == Kept /\ [GumTreeNext \/ GumTreeOver]_gumtree_vars => Kept' /\ PairsStay
BY SubtreeKept, MapBestKept, MapRootsKept, ElseKept DEF GumTreeNext, BottomUpNext

(***************************************************************************)
(* From the first pair of the subtree matcher to the last recovery of the  *)
(* bottom-up one, a mapped pair that no root is part of is never taken     *)
(* back.                                                                   *)
(***************************************************************************)
THEOREM PairsStayMapped == GumTreeSpec => PairsKept
<1>1. Kept /\ [GumTreeNext \/ GumTreeOver]_gumtree_vars => [PairsStay]_gumtree_vars
  BY KeptStep
<1> QED
  BY <1>1, KeptInit, KeptStep, PTL DEF GumTreeSpec, PairsKept, PairsStay

-----------------------------------------------------------------------------
(***************************************************************************)
(* Edit mappings.  EditMappings is a recursive function over the nodes of  *)
(* the first subtree: that such a function exists, and what its values     *)
(* are, is proved by least counterexample.                                 *)
(***************************************************************************)
(* the edit mappings Ms, and those that a pair of the node i extends *)
Longer(t, u, y, i, Ms) ==
  Ms \cup {Mp[1] \cup {Mp[2]} : Mp \in
             {Mp \in Ms \X {<<i, j>> : j \in {k \in Subtree(u, y) : t.type[i] = u.type[k]}} :
                \A q \in Mp[1] : Compatible(t, u, q, Mp[2])}}

(* f obeys the recursion of EditMappings up to the node x *)
Recursion(f, t, x, u, y) ==
  f = [i \in t.lld[x] - 1 .. x |-> IF i < t.lld[x] THEN {{}} ELSE Longer(t, u, y, i, f[i - 1])]

(* EditMappings is the last value of a function that obeys its recursion. *)
LEMMA EditMappingsRecursion ==
  ASSUME NEW t, IsTree(t), NEW x \in nodes(t), NEW u, NEW y
  PROVE  \E f : EditMappings(t, x, u, y) = f[x] /\ Recursion(f, t, x, u, y)
<1> DEFINE lo == t.lld[x]
           Turn(g, i) == IF i < lo THEN {{}} ELSE Longer(t, u, y, i, g[i - 1])
           Upto(g, n) == g = [i \in lo - 1 .. n |-> Turn(g, i)]
<1>1. EditMappings(t, x, u, y) = (CHOOSE g : Upto(g, x))[x]
  BY DEF EditMappings, Longer
<1>2. lo \in Nat /\ x \in Nat /\ lo <= x
  BY NodeTypes
<1> HIDE DEF lo
<1>3. \E g : Upto(g, x)
  <2> DEFINE bad == {k \in Nat : ~\E g : Upto(g, lo - 1 + k)}
  <2> SUFFICES ASSUME bad # {} PROVE FALSE
    <3>1. bad = {} => x - (lo - 1) \notin bad
      OBVIOUS
    <3>2. x - (lo - 1) \in Nat /\ lo - 1 + (x - (lo - 1)) = x
      BY <1>2
    <3> QED
      BY <3>1, <3>2
  <2>1. PICK k \in bad : \A m \in bad : k <= m
    BY NatMinExists
  <2> DEFINE n == lo - 1 + k
  <2>2. n \in Int /\ lo - 1 <= n /\ k \in Nat
    BY <1>2
  <2>3. CASE k = 0
    <3>1. Upto([i \in lo - 1 .. n |-> {{}}], n)
      BY <1>2, <2>3
    <3> QED
      BY <2>1, <3>1
  <2>4. CASE k # 0
    <3>1. k - 1 \in Nat /\ lo - 1 + (k - 1) = n - 1 /\ lo - 1 <= n - 1
      BY <1>2, <2>2, <2>4
    <3>2. k - 1 \notin bad
      <4> HIDE DEF bad
      <4> QED
        BY <2>1, <2>2, <3>1
    <3>3. \E h : Upto(h, lo - 1 + (k - 1))
      BY <3>1, <3>2
    <3>4. PICK h : Upto(h, n - 1)
      BY <3>1, <3>3
    <3> DEFINE g == [i \in lo - 1 .. n |-> IF i < n THEN h[i] ELSE Turn(h, n)]
    <3> HIDE DEF n
    <3>5. ASSUME NEW i \in lo - 1 .. n PROVE g[i] = Turn(g, i)
      <4>1. \A j \in lo - 1 .. n - 1 : g[j] = h[j]
        BY <1>2, <2>2
      <4>2. i >= lo => i - 1 \in lo - 1 .. n - 1
        BY <1>2, <2>2
      <4>3. Turn(g, i) = Turn(h, i)
        BY <4>1, <4>2, <1>2, <2>2
      <4>4. CASE i < n
        <5>1. i \in lo - 1 .. n - 1
          BY <1>2, <2>2, <4>4
        <5>2. h[i] = Turn(h, i)
          BY <3>4, <5>1
        <5> QED
          BY <4>1, <4>3, <5>1, <5>2
      <4>5. CASE i = n
        BY <4>3, <4>5
      <4> QED
        BY <1>2, <2>2, <4>4, <4>5
    <3>6. Upto(g, n)
      <4>1. g = [i \in lo - 1 .. n |-> g[i]]
        OBVIOUS
      <4> HIDE DEF g
      <4> QED
        BY <3>5, <4>1
    <3> QED
      BY <2>1, <3>6 DEF n
  <2> QED
    BY <2>3, <2>4
<1>4. Upto(CHOOSE g : Upto(g, x), x)
  BY <1>3
<1> QED
  BY <1>1, <1>4 DEF lo, Recursion

(* An edit mapping pairs nodes of the two subtrees, of one type, in order. *)
LEMMA EditMappingPairs ==
  ASSUME NEW t, IsTree(t), NEW x \in nodes(t), NEW u, NEW y, NEW M \in EditMappings(t, x, u, y)
  PROVE  /\ \A p \in M : p[1] \in Subtree(t, x) /\ p[2] \in Subtree(u, y)
                         /\ p = <<p[1], p[2]>> /\ t.type[p[1]] = u.type[p[2]]
         /\ \A p, q \in M : p # q =>
              \/ p[1] < q[1] /\ Compatible(t, u, p, q)
              \/ q[1] < p[1] /\ Compatible(t, u, q, p)
<1> DEFINE lo == t.lld[x]
           Good(N, n) ==
             /\ \A p \in N : p[1] \in lo .. n /\ p[2] \in Subtree(u, y)
                            /\ p = <<p[1], p[2]>> /\ t.type[p[1]] = u.type[p[2]]
             /\ \A p, q \in N : p # q =>
                  \/ p[1] < q[1] /\ Compatible(t, u, p, q)
                  \/ q[1] < p[1] /\ Compatible(t, u, q, p)
<1>1. PICK f : EditMappings(t, x, u, y) = f[x] /\ Recursion(f, t, x, u, y)
  BY EditMappingsRecursion
<1>f. f = [i \in lo - 1 .. x |-> IF i < lo THEN {{}} ELSE Longer(t, u, y, i, f[i - 1])]
  BY <1>1 DEF Recursion
<1>2. lo \in Nat /\ x \in Nat /\ lo <= x
  BY NodeTypes
<1> HIDE DEF lo
<1>3. ASSUME NEW n \in lo .. x, \A N \in f[n - 1] : Good(N, n - 1), NEW N \in f[n]
      PROVE  Good(N, n)
  <2>1. f[n] = Longer(t, u, y, n, f[n - 1]) /\ n \in Int /\ n - 1 \in Int /\ n - 1 < n
    <3>1. n \in lo - 1 .. x /\ ~(n < lo) /\ n \in Int
      BY <1>2
    <3>2. f[n] = Longer(t, u, y, n, f[n - 1])
      BY <1>f, <3>1
    <3> QED
      BY <3>1, <3>2
  <2>2. CASE N \in f[n - 1]
    <3>1. Good(N, n - 1)
      BY <1>3, <2>2
    <3> QED
      BY <1>2, <2>1, <3>1
  <2>3. CASE N \notin f[n - 1]
    <3>1. PICK Mp \in f[n - 1] \X {<<n, j>> : j \in {k \in Subtree(u, y) : t.type[n] = u.type[k]}} :
            N = Mp[1] \cup {Mp[2]} /\ \A q \in Mp[1] : Compatible(t, u, q, Mp[2])
      BY <2>1, <2>3 DEF Longer
    <3>2. PICK L \in f[n - 1], j \in Subtree(u, y) :
            /\ N = L \cup {<<n, j>>} /\ t.type[n] = u.type[j]
            /\ \A q \in L : Compatible(t, u, q, <<n, j>>)
      BY <3>1
    <3>3. Good(L, n - 1)
      BY <1>3, <3>2
    <3>4. ASSUME NEW p \in N
          PROVE  /\ p[1] \in lo .. n /\ p[2] \in Subtree(u, y)
                 /\ p = <<p[1], p[2]>> /\ t.type[p[1]] = u.type[p[2]]
      BY <1>2, <2>1, <3>2, <3>3, <3>4
    <3>5. \A q \in L : q[1] < n
      BY <1>2, <2>1, <3>3
    <3>6. \A p, q \in N : p # q =>
             \/ p \in L /\ q \in L
             \/ p \in L /\ q = <<n, j>>
             \/ q \in L /\ p = <<n, j>>
      BY <3>2
    <3>7. \A p, q \in N : p # q =>
            \/ p[1] < q[1] /\ Compatible(t, u, p, q)
            \/ q[1] < p[1] /\ Compatible(t, u, q, p)
      BY <3>2, <3>3, <3>5, <3>6
    <3> QED
      BY <3>4, <3>7
  <2> QED
    BY <2>2, <2>3
<1>4. \A N \in f[lo - 1] : Good(N, lo - 1)
  <2>1. f[lo - 1] = {{}}
    BY <1>f, <1>2
  <2> QED
    BY <2>1
<1> HIDE DEF Good
<1>5. \A N \in f[x] : Good(N, x)
  <2> DEFINE bad == {k \in Nat : k <= x - (lo - 1) /\ ~\A N \in f[lo - 1 + k] : Good(N, lo - 1 + k)}
  <2> SUFFICES ASSUME bad # {} PROVE FALSE
    <3>1. bad = {} => x - (lo - 1) \notin bad
      OBVIOUS
    <3>2. x - (lo - 1) \in Nat /\ lo - 1 + (x - (lo - 1)) = x
      BY <1>2
    <3> QED
      BY <3>1, <3>2
  <2>1. PICK k \in bad : \A m \in bad : k <= m
    BY NatMinExists
  <2> DEFINE n == lo - 1 + k
  <2>2. n \in Int /\ lo - 1 <= n /\ k \in Nat /\ n <= x /\ ~\A N \in f[n] : Good(N, n)
    BY <1>2
  <2>3. k # 0
    BY <1>2, <1>4, <2>2
  <2>4. k - 1 \in Nat /\ lo - 1 + (k - 1) = n - 1 /\ k - 1 <= x - (lo - 1) /\ n \in lo .. x
    BY <1>2, <2>2, <2>3
  <2>5. k - 1 \notin bad
    <3> HIDE DEF bad
    <3> QED
      BY <2>1, <2>2, <2>4
  <2>6. \A N \in f[n - 1] : Good(N, n - 1)
    BY <2>4, <2>5
  <2> HIDE DEF n
  <2> QED
    BY <1>3, <2>2, <2>4, <2>6
<1>6. Good(M, x)
  BY <1>1, <1>5
<1> QED
  BY <1>6 DEF Good, Subtree, lo

-----------------------------------------------------------------------------
(***************************************************************************)
(* Types, and links lost to ancestors.  These rest on what the recovery is *)
(* given: an edit mapping is one-to-one, of nodes of one type, inside the  *)
(* subtrees of the pair it is called for.                                  *)
(***************************************************************************)
(* a mapped node's partner is paired with the node or an ancestor of it *)
Returns(m) ==
  /\ \A x \in nodes(src) : is_src(m, x) =>
       \E s \in nodes(src) : /\ has(m, s, get_dst_unchecked(m, x))
                             /\ s = x \/ is_descendant(src, x, s)
  /\ \A y \in nodes(dst) : is_dst(m, y) =>
       \E d \in nodes(dst) : /\ has(m, get_src_unchecked(m, y), d)
                             /\ d = y \/ is_descendant(dst, y, d)

(* nobody has lost a partner that s and d would lose to each other *)
Untaken(m, s, d) ==
  \A x \in nodes(src), y \in nodes(dst) :
    /\ m.src_to_dst[x] = d + 1 /\ m.dst_to_src[y] = x + 1 => y = d
    /\ m.dst_to_src[y] = s + 1 /\ m.src_to_dst[x] = y + 1 => x = s

(* TypesAgree, of any store and any sets of nodes *)
SameTypes(m, S, D) ==
  /\ \A x \in S : is_src(m, x) => src.type[x] = dst.type[get_dst_unchecked(m, x)]
  /\ \A y \in D : is_dst(m, y) => src.type[get_src_unchecked(m, y)] = dst.type[y]

(* what a mapping handed to the recovery below s and d is known to be *)
Recoverable(zs, s, d) ==
  /\ \A p \in zs : /\ p[1] \in Subtree(src, s) /\ p[2] \in Subtree(dst, d)
                   /\ src.type[p[1]] = dst.type[p[2]]
  /\ \A p, q \in zs : p[1] = q[1] \/ p[2] = q[2] => p = q

MapInv ==
  /\ Kept
  /\ mappings \in Stores(src.len, dst.len)
  /\ phase \in {"subtree", "bottom_up", "matched"}
  /\ SameTypes(mappings, nodes(src) \ {root(src)}, nodes(dst) \ {root(dst)})
  /\ Returns(mappings)
  /\ phase # "matched" => Untaken(mappings, root(src), root(dst))

(* What the Zhang-Shasha matcher answers is recoverable. *)
LEMMA ZsRecoverable ==
  ASSUME IsTree(src), IsTree(dst), NEW s \in nodes(src), NEW d \in nodes(dst),
         NEW zs \in zs_mappings(s, d)
  PROVE  Recoverable(zs, s, d)
<1>1. CASE zs = {}
  BY <1>1 DEF Recoverable
<1>2. CASE zs # {}
  <2>1. zs \in EditMappings(src, s, dst, d)
    BY <1>2 DEF zs_mappings, OptimalMappings
  <2>2. /\ \A p \in zs : p[1] \in Subtree(src, s) /\ p[2] \in Subtree(dst, d)
                         /\ src.type[p[1]] = dst.type[p[2]]
        /\ \A p, q \in zs : p # q =>
             \/ p[1] < q[1] /\ Compatible(src, dst, p, q)
             \/ q[1] < p[1] /\ Compatible(src, dst, q, p)
    BY <2>1, EditMappingPairs
  <2>3. \A p \in zs : p[1] \in Int /\ p[2] \in Int
    BY <2>2 DEF Subtree
  <2>4. \A p, q \in zs : p # q => p[1] # q[1] /\ p[2] # q[2]
    BY <2>2, <2>3 DEF Compatible
  <2> QED
    BY <2>2, <2>4 DEF Recoverable
<1> QED
  BY <1>1, <1>2

(* Nodes are positions of the store's vectors, and so are their successors. *)
LEMMA NodeRange ==
  ASSUME NEW t, IsTree(t), NEW x \in nodes(t)
  PROVE  /\ x \in Int /\ x \in 0 .. t.len /\ x + 1 \in 0 .. t.len
         /\ x + 1 # 0 /\ x + 1 - 1 = x /\ t.len \in Nat
BY NodeTypes

(* The partner of a node is a node. *)
LEMMA PartnersAreNodes ==
  ASSUME IsTree(src), IsTree(dst), NEW m \in Stores(src.len, dst.len)
  PROVE  /\ \A x \in nodes(src) : is_src(m, x) => get_dst_unchecked(m, x) \in nodes(dst)
         /\ \A y \in nodes(dst) : is_dst(m, y) => get_src_unchecked(m, y) \in nodes(src)
<1>1. /\ \A x \in nodes(src) : x \in 0 .. src.len
      /\ \A y \in nodes(dst) : y \in 0 .. dst.len
      /\ src.len \in Nat /\ dst.len \in Nat
      /\ nodes(src) = 0 .. src.len - 1 /\ nodes(dst) = 0 .. dst.len - 1
  BY NodeTypes, RootIsNode DEF nodes, root
<1>2. /\ \A x \in nodes(src) : m.src_to_dst[x] \in 0 .. dst.len
      /\ \A y \in nodes(dst) : m.dst_to_src[y] \in 0 .. src.len
  BY <1>1 DEF Stores
<1>3. /\ \A k \in 0 .. dst.len : k # 0 => k - 1 \in 0 .. dst.len - 1
      /\ \A k \in 0 .. src.len : k # 0 => k - 1 \in 0 .. src.len - 1
  BY <1>1
<1> QED
  BY <1>1, <1>2, <1>3 DEF is_src, is_dst, get_dst_unchecked, get_src_unchecked

(***************************************************************************)
(* What the recovery leaves in each slot: what was there, or the partner   *)
(* of the only kept pair of the node.                                      *)
(***************************************************************************)
LEMMA RecoveredSlots ==
  ASSUME IsTree(src), IsTree(dst), NEW m \in Stores(src.len, dst.len),
         NEW s \in nodes(src), NEW d \in nodes(dst), NEW zs, Recoverable(zs, s, d)
  PROVE  LET r == recovered(m, zs)
             news == {p \in zs : ~is_src(m, p[1]) /\ ~is_dst(m, p[2])}
         IN  /\ r \in Stores(src.len, dst.len)
             /\ \A p \in news : /\ p[1] \in nodes(src) /\ p[2] \in nodes(dst)
                                /\ r.src_to_dst[p[1]] = p[2] + 1
                                /\ r.dst_to_src[p[2]] = p[1] + 1
             /\ \A x \in nodes(src) : (\A p \in news : p[1] # x) =>
                                         r.src_to_dst[x] = m.src_to_dst[x]
             /\ \A y \in nodes(dst) : (\A p \in news : p[2] # y) =>
                                         r.dst_to_src[y] = m.dst_to_src[y]
<1> DEFINE news == {p \in zs : ~is_src(m, p[1]) /\ ~is_dst(m, p[2])}
           r == recovered(m, zs)
<1>1. news = {p \in zs : /\ ~is_src(m, p[1]) /\ ~is_dst(m, p[2])
                         /\ src.type[p[1]] = dst.type[p[2]]}
  BY DEF Recoverable
<1>2. /\ r.src_to_dst = [v \in DOMAIN m.src_to_dst |->
                           IF \E p \in news : p[1] = v
                           THEN (CHOOSE p \in news : p[1] = v)[2] + 1 ELSE m.src_to_dst[v]]
      /\ r.dst_to_src = [w \in DOMAIN m.dst_to_src |->
                           IF \E p \in news : p[2] = w
                           THEN (CHOOSE p \in news : p[2] = w)[1] + 1 ELSE m.dst_to_src[w]]
      /\ r = [src_to_dst |-> r.src_to_dst, dst_to_src |-> r.dst_to_src]
  BY <1>1 DEF recovered
<1>3. /\ m.src_to_dst \in [0 .. src.len -> 0 .. dst.len]
      /\ m.dst_to_src \in [0 .. dst.len -> 0 .. src.len]
  BY DEF Stores
<1>4. /\ \A x \in nodes(src) : x \in Nat /\ x < src.len /\ src.len \in Nat
      /\ \A y \in nodes(dst) : y \in Nat /\ y < dst.len /\ dst.len \in Nat
  BY NodeTypes
<1>5. \A p \in news : p[1] \in nodes(src) /\ p[2] \in nodes(dst)
  BY SubtreeInNodes DEF Recoverable
<1>6. \A p, q \in news : p[1] = q[1] \/ p[2] = q[2] => p = q
  BY DEF Recoverable
<1> HIDE DEF news, r
<1>7. ASSUME NEW p \in news, NEW v
      PROVE  /\ p[1] = v => (CHOOSE q \in news : q[1] = v) = p
             /\ p[2] = v => (CHOOSE q \in news : q[2] = v) = p
  BY <1>6
<1>8. \A p \in news : /\ p[1] \in 0 .. src.len /\ p[2] \in 0 .. dst.len
                      /\ p[1] + 1 \in 0 .. src.len /\ p[2] + 1 \in 0 .. dst.len
  BY <1>4, <1>5
<1>9. \A v \in 0 .. src.len :
        /\ \A p \in news : p[1] = v => r.src_to_dst[v] = p[2] + 1
        /\ (\A p \in news : p[1] # v) => r.src_to_dst[v] = m.src_to_dst[v]
  <2> TAKE v \in 0 .. src.len
  <2>1. r.src_to_dst[v] = IF \E p \in news : p[1] = v
                          THEN (CHOOSE p \in news : p[1] = v)[2] + 1 ELSE m.src_to_dst[v]
    BY <1>2, <1>3
  <2>2. ASSUME NEW p \in news, p[1] = v PROVE r.src_to_dst[v] = p[2] + 1
    BY <1>7, <2>1, <2>2
  <2> QED
    BY <2>1, <2>2
<1>10. \A w \in 0 .. dst.len :
         /\ \A p \in news : p[2] = w => r.dst_to_src[w] = p[1] + 1
         /\ (\A p \in news : p[2] # w) => r.dst_to_src[w] = m.dst_to_src[w]
  <2> TAKE w \in 0 .. dst.len
  <2>1. r.dst_to_src[w] = IF \E p \in news : p[2] = w
                          THEN (CHOOSE p \in news : p[2] = w)[1] + 1 ELSE m.dst_to_src[w]
    BY <1>2, <1>3
  <2>2. ASSUME NEW p \in news, p[2] = w PROVE r.dst_to_src[w] = p[1] + 1
    BY <1>7, <2>1, <2>2
  <2> QED
    BY <2>1, <2>2
<1>11. r \in Stores(src.len, dst.len)
  <2>1. \A v \in 0 .. src.len : r.src_to_dst[v] \in 0 .. dst.len
    <3> TAKE v \in 0 .. src.len
    <3>1. CASE \E p \in news : p[1] = v
      BY <1>8, <1>9, <3>1
    <3>2. CASE \A p \in news : p[1] # v
      BY <1>3, <1>9, <3>2
    <3> QED
      BY <3>1, <3>2
  <2>2. \A w \in 0 .. dst.len : r.dst_to_src[w] \in 0 .. src.len
    <3> TAKE w \in 0 .. dst.len
    <3>1. CASE \E p \in news : p[2] = w
      BY <1>8, <1>10, <3>1
    <3>2. CASE \A p \in news : p[2] # w
      BY <1>3, <1>10, <3>2
    <3> QED
      BY <3>1, <3>2
  <2>3. /\ r.src_to_dst \in [0 .. src.len -> 0 .. dst.len]
        /\ r.dst_to_src \in [0 .. dst.len -> 0 .. src.len]
    BY <1>2, <1>3, <2>1, <2>2
  <2> QED
    BY <1>2, <2>3 DEF Stores
<1>12. /\ \A x \in nodes(src) : x \in 0 .. src.len
       /\ \A y \in nodes(dst) : y \in 0 .. dst.len
  BY <1>4
<1> QED
  BY <1>5, <1>8, <1>9, <1>10, <1>11, <1>12 DEF news, r

(* The recovery adds symmetric pairs of one type, and disturbs no other. *)
LEMMA RecoveredReturns ==
  ASSUME IsTree(src), IsTree(dst), NEW m \in Stores(src.len, dst.len),
         NEW s \in nodes(src), NEW d \in nodes(dst), NEW zs, Recoverable(zs, s, d),
         Returns(m), NEW S \in SUBSET nodes(src), NEW D \in SUBSET nodes(dst), SameTypes(m, S, D)
  PROVE  Returns(recovered(m, zs)) /\ SameTypes(recovered(m, zs), S, D)
<1> DEFINE news == {p \in zs : ~is_src(m, p[1]) /\ ~is_dst(m, p[2])}
           r == recovered(m, zs)
<1>1. /\ r \in Stores(src.len, dst.len)
      /\ \A p \in news : /\ p[1] \in nodes(src) /\ p[2] \in nodes(dst)
                         /\ r.src_to_dst[p[1]] = p[2] + 1
                         /\ r.dst_to_src[p[2]] = p[1] + 1
      /\ \A x \in nodes(src) : (\A p \in news : p[1] # x) => r.src_to_dst[x] = m.src_to_dst[x]
      /\ \A y \in nodes(dst) : (\A p \in news : p[2] # y) => r.dst_to_src[y] = m.dst_to_src[y]
  BY RecoveredSlots
<1>2. \A p \in news : /\ ~is_src(m, p[1]) /\ ~is_dst(m, p[2])
                      /\ src.type[p[1]] = dst.type[p[2]]
  BY DEF Recoverable
<1> HIDE DEF news, r
<1>3. /\ \A x \in nodes(src) : x \in Nat /\ x \in 0 .. src.len
      /\ \A y \in nodes(dst) : y \in Nat /\ y \in 0 .. dst.len
  BY NodeTypes
<1>4. /\ \A x \in nodes(src) : is_src(m, x) => get_dst_unchecked(m, x) \in nodes(dst)
      /\ \A y \in nodes(dst) : is_dst(m, y) => get_src_unchecked(m, y) \in nodes(src)
  BY <1>3, PartnersAreNodes
<1>5. ASSUME NEW x \in nodes(src), is_src(r, x)
      PROVE  /\ \E v \in nodes(src) : /\ has(r, v, get_dst_unchecked(r, x))
                                      /\ v = x \/ is_descendant(src, x, v)
             /\ x \in S => src.type[x] = dst.type[get_dst_unchecked(r, x)]
  <2>1. CASE \E p \in news : p[1] = x
    <3>1. PICK p \in news : p[1] = x
      BY <2>1
    <3>2. get_dst_unchecked(r, x) = p[2]
      BY <1>1, <1>3, <3>1 DEF get_dst_unchecked
    <3> QED
      BY <1>1, <1>2, <3>1, <3>2 DEF has
  <2>2. CASE \A p \in news : p[1] # x
    <3>1. is_src(m, x) /\ get_dst_unchecked(r, x) = get_dst_unchecked(m, x)
      BY <1>1, <1>5, <2>2 DEF is_src, get_dst_unchecked
    <3> DEFINE y == get_dst_unchecked(m, x)
    <3>2. y \in nodes(dst)
      BY <1>4, <3>1
    <3>3. PICK v \in nodes(src) : has(m, v, y) /\ (v = x \/ is_descendant(src, x, v))
      <4>1. Returns(m) /\ is_src(m, x)
        BY <3>1
      <4> QED
        BY <4>1 DEF Returns
    <3>4. is_dst(m, y) /\ is_src(m, v)
      BY <1>3, <3>2, <3>3 DEF is_dst, is_src, has
    <3>5. has(r, v, y)
      <4>1. r.dst_to_src[y] = m.dst_to_src[y] /\ r.src_to_dst[v] = m.src_to_dst[v]
        BY <1>1, <1>2, <3>2, <3>4
      <4> QED
        BY <3>3, <4>1 DEF has
    <3>6. x \in S => src.type[x] = dst.type[y]
      BY <3>1 DEF SameTypes
    <3> QED
      BY <3>1, <3>3, <3>5, <3>6
  <2> QED
    BY <2>1, <2>2
<1>6. ASSUME NEW y \in nodes(dst), is_dst(r, y)
      PROVE  /\ \E w \in nodes(dst) : /\ has(r, get_src_unchecked(r, y), w)
                                      /\ w = y \/ is_descendant(dst, y, w)
             /\ y \in D => src.type[get_src_unchecked(r, y)] = dst.type[y]
  <2>1. CASE \E p \in news : p[2] = y
    <3>1. PICK p \in news : p[2] = y
      BY <2>1
    <3>2. get_src_unchecked(r, y) = p[1]
      BY <1>1, <1>3, <3>1 DEF get_src_unchecked
    <3> QED
      BY <1>1, <1>2, <3>1, <3>2 DEF has
  <2>2. CASE \A p \in news : p[2] # y
    <3>1. is_dst(m, y) /\ get_src_unchecked(r, y) = get_src_unchecked(m, y)
      BY <1>1, <1>6, <2>2 DEF is_dst, get_src_unchecked
    <3> DEFINE x == get_src_unchecked(m, y)
    <3>2. x \in nodes(src)
      BY <1>4, <3>1
    <3>3. PICK w \in nodes(dst) : has(m, x, w) /\ (w = y \/ is_descendant(dst, y, w))
      <4>1. Returns(m) /\ is_dst(m, y)
        BY <3>1
      <4> QED
        BY <4>1 DEF Returns
    <3>4. is_src(m, x) /\ is_dst(m, w)
      BY <1>3, <3>2, <3>3 DEF is_src, is_dst, has
    <3>5. has(r, x, w)
      <4>1. r.src_to_dst[x] = m.src_to_dst[x] /\ r.dst_to_src[w] = m.dst_to_src[w]
        BY <1>1, <1>2, <3>2, <3>4
      <4> QED
        BY <3>3, <4>1 DEF has
    <3>6. y \in D => src.type[x] = dst.type[y]
      BY <3>1 DEF SameTypes
    <3> QED
      BY <3>1, <3>3, <3>5, <3>6
  <2> QED
    BY <2>1, <2>2
<1>7. Returns(r)
  BY <1>5, <1>6 DEF Returns
<1>8. SameTypes(r, S, D)
  BY <1>5, <1>6 DEF SameTypes
<1> QED
  BY <1>7, <1>8 DEF r

(***************************************************************************)
(* A link takes over what is mapped to its two nodes: from below, if so,   *)
(* and from nodes to which nothing was lost.                               *)
(***************************************************************************)
LEMMA LinkReturns ==
  ASSUME IsTree(src), IsTree(dst), NEW m \in Stores(src.len, dst.len),
         NEW s \in nodes(src), NEW d \in nodes(dst), Returns(m), Untaken(m, s, d),
         \A x \in nodes(src) : m.src_to_dst[x] = d + 1 => x = s \/ is_descendant(src, x, s),
         \A y \in nodes(dst) : m.dst_to_src[y] = s + 1 => y = d \/ is_descendant(dst, y, d)
  PROVE  link(m, s, d) \in Stores(src.len, dst.len) /\ Returns(link(m, s, d))
<1> DEFINE k == link(m, s, d)
<1>1. /\ \A x \in nodes(src) : x \in Int /\ x \in 0 .. src.len /\ x + 1 \in 0 .. src.len
      /\ \A y \in nodes(dst) : y \in Int /\ y \in 0 .. dst.len /\ y + 1 \in 0 .. dst.len
  BY NodeRange
<1>2. /\ m.src_to_dst \in [0 .. src.len -> 0 .. dst.len]
      /\ m.dst_to_src \in [0 .. dst.len -> 0 .. src.len]
  BY DEF Stores
<1>3. /\ k.src_to_dst = [m.src_to_dst EXCEPT ![s] = d + 1]
      /\ k.dst_to_src = [m.dst_to_src EXCEPT ![d] = s + 1]
      /\ k = [src_to_dst |-> k.src_to_dst, dst_to_src |-> k.dst_to_src]
  BY DEF link
<1> HIDE DEF k
<1>4. /\ \A x \in nodes(src) : k.src_to_dst[x] = IF x = s THEN d + 1 ELSE m.src_to_dst[x]
      /\ \A y \in nodes(dst) : k.dst_to_src[y] = IF y = d THEN s + 1 ELSE m.dst_to_src[y]
  BY <1>1, <1>2, <1>3
<1>5. k \in Stores(src.len, dst.len)
  <2>1. /\ k.src_to_dst \in [0 .. src.len -> 0 .. dst.len]
        /\ k.dst_to_src \in [0 .. dst.len -> 0 .. src.len]
    <3>1. s + 1 \in 0 .. src.len /\ d + 1 \in 0 .. dst.len
      BY <1>1
    <3>2. k.src_to_dst \in [0 .. src.len -> 0 .. dst.len]
      BY <1>2, <1>3, <3>1
    <3>3. k.dst_to_src \in [0 .. dst.len -> 0 .. src.len]
      BY <1>2, <1>3, <3>1
    <3> QED
      BY <3>2, <3>3
  <2> QED
    BY <1>3, <2>1 DEF Stores
<1>6. ASSUME NEW x \in nodes(src), is_src(k, x)
      PROVE  \E v \in nodes(src) : /\ has(k, v, get_dst_unchecked(k, x))
                                   /\ v = x \/ is_descendant(src, x, v)
  <2>1. CASE k.src_to_dst[x] = d + 1
    <3>1. get_dst_unchecked(k, x) = d
      BY <1>1, <2>1 DEF get_dst_unchecked
    <3>2. s = x \/ is_descendant(src, x, s)
      BY <1>4, <2>1
    <3> QED
      BY <1>4, <3>1, <3>2 DEF has
  <2>2. CASE k.src_to_dst[x] # d + 1
    <3>1. k.src_to_dst[x] = m.src_to_dst[x] /\ is_src(m, x)
      BY <1>4, <1>6, <2>2 DEF is_src
    <3>2. get_dst_unchecked(k, x) = get_dst_unchecked(m, x) /\ get_dst_unchecked(m, x) \in nodes(dst)
      BY <3>1, PartnersAreNodes DEF get_dst_unchecked
    <3>3. get_dst_unchecked(m, x) # d
      <4>1. m.src_to_dst[x] \in Int /\ d \in Int
        BY <1>1, <1>2, NodeRange, SMTT(30)
      <4> QED
        BY <2>2, <3>1, <4>1 DEF get_dst_unchecked
    <3>4. PICK v \in nodes(src) :
            has(m, v, get_dst_unchecked(m, x)) /\ (v = x \/ is_descendant(src, x, v))
      BY <3>1 DEF Returns
    <3>5. m.src_to_dst[x] = get_dst_unchecked(m, x) + 1 /\ x # s
      <4>1. m.src_to_dst[x] \in Int
        <5>1. x \in 0 .. src.len
          BY <1>1
        <5>2. m.src_to_dst[x] \in 0 .. dst.len
          BY <1>2, <5>1
        <5> QED
          BY <5>2
      <4> QED
        BY <1>4, <2>2, <4>1 DEF get_dst_unchecked
    <3>6. v # s
      BY <3>2, <3>3, <3>4, <3>5 DEF Untaken, has
    <3>7. has(k, v, get_dst_unchecked(m, x))
      BY <1>4, <3>2, <3>3, <3>4, <3>6 DEF has
    <3> QED
      BY <3>2, <3>4, <3>7
  <2> QED
    BY <2>1, <2>2
<1>7. ASSUME NEW y \in nodes(dst), is_dst(k, y)
      PROVE  \E w \in nodes(dst) : /\ has(k, get_src_unchecked(k, y), w)
                                   /\ w = y \/ is_descendant(dst, y, w)
  <2>1. CASE k.dst_to_src[y] = s + 1
    <3>1. get_src_unchecked(k, y) = s
      BY <1>1, <2>1 DEF get_src_unchecked
    <3>2. d = y \/ is_descendant(dst, y, d)
      BY <1>4, <2>1
    <3> QED
      BY <1>4, <3>1, <3>2 DEF has
  <2>2. CASE k.dst_to_src[y] # s + 1
    <3>1. k.dst_to_src[y] = m.dst_to_src[y] /\ is_dst(m, y)
      BY <1>4, <1>7, <2>2 DEF is_dst
    <3>2. get_src_unchecked(k, y) = get_src_unchecked(m, y) /\ get_src_unchecked(m, y) \in nodes(src)
      BY <3>1, PartnersAreNodes DEF get_src_unchecked
    <3>3. get_src_unchecked(m, y) # s
      <4>1. m.dst_to_src[y] \in Int /\ s \in Int
        BY <1>1, <1>2, NodeRange
      <4> QED
        BY <2>2, <3>1, <4>1 DEF get_src_unchecked
    <3>4. PICK w \in nodes(dst) :
            has(m, get_src_unchecked(m, y), w) /\ (w = y \/ is_descendant(dst, y, w))
      BY <3>1 DEF Returns
    <3>5. m.dst_to_src[y] = get_src_unchecked(m, y) + 1 /\ y # d
      <4>1. m.dst_to_src[y] \in Int
        BY <1>1, <1>2, NodeRange, SMTT(30)
      <4> QED
        BY <1>4, <2>2, <4>1 DEF get_src_unchecked
    <3>6. w # d
      BY <3>2, <3>3, <3>4, <3>5 DEF Untaken, has
    <3>7. has(k, get_src_unchecked(m, y), w)
      BY <1>4, <3>2, <3>3, <3>4, <3>6 DEF has
    <3> QED
      BY <3>2, <3>4, <3>7
  <2> QED
    BY <2>1, <2>2
<1>8. Returns(k)
  BY <1>6, <1>7 DEF Returns
<1> QED
  BY <1>5, <1>8 DEF k

(* A link changes the types of no other node's pair. *)
LEMMA LinkTypes ==
  ASSUME IsTree(src), IsTree(dst), NEW m \in Stores(src.len, dst.len),
         NEW s \in nodes(src), NEW d \in nodes(dst),
         NEW S \in SUBSET nodes(src), NEW D \in SUBSET nodes(dst),
         SameTypes(m, S, D), (s \notin S /\ d \notin D) \/ src.type[s] = dst.type[d]
  PROVE  SameTypes(link(m, s, d), S, D)
<1> DEFINE k == link(m, s, d)
<1>1. /\ k.src_to_dst = [m.src_to_dst EXCEPT ![s] = d + 1]
      /\ k.dst_to_src = [m.dst_to_src EXCEPT ![d] = s + 1]
  BY DEF link
<1> HIDE DEF k
<1>2. /\ \A x \in nodes(src) : x \in Int /\ x \in 0 .. src.len
      /\ \A y \in nodes(dst) : y \in Int /\ y \in 0 .. dst.len
      /\ m.src_to_dst \in [0 .. src.len -> 0 .. dst.len]
      /\ m.dst_to_src \in [0 .. dst.len -> 0 .. src.len]
      /\ s + 1 - 1 = s /\ d + 1 - 1 = d
  <2>1. /\ m.src_to_dst \in [0 .. src.len -> 0 .. dst.len]
        /\ m.dst_to_src \in [0 .. dst.len -> 0 .. src.len]
    BY DEF Stores
  <2> QED
    BY <2>1, NodeRange
<1>3. ASSUME NEW x \in S, is_src(k, x) PROVE src.type[x] = dst.type[get_dst_unchecked(k, x)]
  <2>1. CASE x = s
    <3>1. k.src_to_dst[x] = d + 1
      BY <1>1, <1>2, <2>1
    <3>2. get_dst_unchecked(k, x) = d
      BY <1>2, <3>1 DEF get_dst_unchecked
    <3> QED
      BY <2>1, <3>2
  <2>2. CASE x # s
    <3>1. k.src_to_dst[x] = m.src_to_dst[x]
      BY <1>1, <1>2, <2>2
    <3> QED
      BY <1>3, <3>1 DEF SameTypes, is_src, get_dst_unchecked
  <2> QED
    BY <2>1, <2>2
<1>4. ASSUME NEW y \in D, is_dst(k, y) PROVE src.type[get_src_unchecked(k, y)] = dst.type[y]
  <2>1. CASE y = d
    <3>1. k.dst_to_src[y] = s + 1
      BY <1>1, <1>2, <2>1
    <3>2. get_src_unchecked(k, y) = s
      BY <1>2, <3>1 DEF get_src_unchecked
    <3> QED
      BY <2>1, <3>2
  <2>2. CASE y # d
    <3>1. k.dst_to_src[y] = m.dst_to_src[y]
      BY <1>1, <1>2, <2>2
    <3> QED
      BY <1>4, <3>1 DEF SameTypes, is_dst, get_src_unchecked
  <2> QED
    BY <2>1, <2>2
<1> QED
  BY <1>3, <1>4 DEF SameTypes, k

(***************************************************************************)
(* The invariant: at the start nothing is mapped.                          *)
(***************************************************************************)
LEMMA MapInit == GumTreeInit => MapInv
<1> SUFFICES ASSUME GumTreeInit PROVE MapInv
  OBVIOUS
<1>1. Kept /\ IndInv /\ pc = "outer" /\ phase = "subtree"
  BY KeptInit, InitInd DEF GumTreeInit, Init
<1>2. /\ \A x \in nodes(src) : ~is_src(mappings, x)
      /\ \A y \in nodes(dst) : ~is_dst(mappings, y)
      /\ mappings \in Stores(src.len, dst.len)
  BY <1>1 DEF IndInv, NothingMappedYet, TypeOK
<1>3. Untaken(mappings, root(src), root(dst))
  <2>1. \A x \in nodes(src) : mappings.src_to_dst[x] = 0
    BY <1>2 DEF is_src
  <2>2. \A y \in nodes(dst) : mappings.dst_to_src[y] = 0 /\ y + 1 # 0
    BY <1>1, <1>2, NodeSlots DEF is_dst
  <2>3. \A x \in nodes(src) : x + 1 # 0
    BY <1>1, NodeSlots
  <2> QED
    BY <2>1, <2>2, <2>3 DEF Untaken
<1> QED
  BY <1>1, <1>2, <1>3 DEF MapInv, SameTypes, Returns

(* The first matcher links isomorphic subtrees: node by node, of one type. *)
LEMMA SubtreeTypes ==
  ASSUME MapInv, SubtreeStep
  PROVE  \A p \in mapped_pairs' : p[1] # root(src) \/ p[2] # root(dst) =>
                                  src.type[p[1]] = dst.type[p[2]]
<1>1. IndInv /\ SubtreeNext /\ phase = "subtree"
  BY DEF MapInv, Kept, SubtreeStep
<1>2. [Next]_subtree_vars
  BY <1>1 DEF Next
<1>3. IsTree(src) /\ IsTree(dst) /\ mappings \in Stores(src.len, dst.len)
  BY <1>1, TreesAssumption DEF IndInv, TypeOK
<1>4. ASSUME NEW p \in mapped_pairs, p[1] # root(src) \/ p[2] # root(dst)
      PROVE  src.type[p[1]] = dst.type[p[2]]
  <2>1. p[1] \in nodes(src) /\ p[2] \in nodes(dst) /\ has(mappings, p[1], p[2])
    BY <1>4 DEF mapped_pairs
  <2>2. p[1] \in Nat /\ p[2] \in Nat
    BY <1>3, <2>1, NodeTypes
  <2>3. is_src(mappings, p[1]) /\ get_dst_unchecked(mappings, p[1]) = p[2]
    BY <2>1, <2>2 DEF has, is_src, get_dst_unchecked
  <2>4. is_dst(mappings, p[2]) /\ get_src_unchecked(mappings, p[2]) = p[1]
    BY <2>1, <2>2 DEF has, is_dst, get_src_unchecked
  <2>5. SameTypes(mappings, nodes(src) \ {root(src)}, nodes(dst) \ {root(dst)})
    BY DEF MapInv
  <2> QED
    BY <1>4, <2>1, <2>3, <2>4, <2>5 DEF SameTypes
<1>5. CASE mapped_pairs' = mapped_pairs
  BY <1>4, <1>5
<1>6. CASE Abstract!Next
  <2>1. PICK s \in nodes(src), d \in nodes(dst) : Abstract!Map(s, d)
    BY <1>6 DEF Abstract!Next, Abstract!nodes, Abstract!root, nodes, root
  <2>2. isomorphic(src, s, dst, d) /\ mapped_pairs' = mapped_pairs \cup Abstract!Zip(s, d)
    BY <2>1 DEF Abstract!Map, Abstract!isomorphic, Abstract!descendants_count,
                Abstract!SameNode, isomorphic, descendants_count, SameNode
  <2>3. ASSUME NEW p \in Abstract!Zip(s, d) PROVE src.type[p[1]] = dst.type[p[2]]
    <3>1. PICK x \in Subtree(src, s) : p = <<x, x - s + d>>
      BY DEF Abstract!Zip, Abstract!Subtree, Subtree
    <3>2. s \in Int /\ d \in Int /\ src.lld[s] \in Int
      BY <1>3, NodeTypes
    <3>3. x \in Int /\ src.lld[s] <= x /\ x <= s
      BY <3>2 DEF Subtree
    <3> DEFINE k == s - x
    <3>4. k \in 0 .. descendants_count(src, s) /\ s - k = x /\ d - k = x - s + d
      BY <3>2, <3>3 DEF descendants_count
    <3> HIDE DEF k
    <3>5. SameNode(src, s - k, dst, d - k)
      BY <2>2, <3>4 DEF isomorphic
    <3> QED
      BY <3>1, <3>4, <3>5 DEF SameNode
  <2> QED
    BY <1>4, <2>2, <2>3
<1> QED
  BY <1>1, <1>2, <1>5, <1>6, AbstractStep

(* The steps of the first matcher. *)
LEMMA MapSubtree == MapInv /\ SubtreeStep => MapInv'
<1> SUFFICES ASSUME MapInv, SubtreeStep PROVE MapInv'
  OBVIOUS
<1>1. Kept' /\ IndInv' /\ src' = src /\ dst' = dst /\ phase' = "subtree"
  <2>1. Kept /\ IndInv /\ SubtreeNext /\ phase = "subtree" /\ phase' = phase
    BY DEF MapInv, Kept, SubtreeStep
  <2>2. [Next]_subtree_vars
    BY <2>1 DEF Next
  <2>3. src' = src /\ dst' = dst
    BY <2>1, <2>2, AbstractStep DEF Abstract!Next, Abstract!Map
  <2> QED
    BY <2>1, <2>2, <2>3, IndStep, SubtreeKept
<1>2. \A p \in mapped_pairs' : p[1] # root(src) \/ p[2] # root(dst) =>
                               src.type[p[1]] = dst.type[p[2]]
  BY SubtreeTypes
<1> DEFINE m == mappings'
<1>3. /\ IsTree(src) /\ IsTree(dst) /\ m \in Stores(src.len, dst.len)
      /\ OneToOne(m, nodes(src), nodes(dst))
  BY <1>1, TreesAssumption DEF IndInv, TypeOK, SymmetricMapping
<1>4. mapped_pairs' = {p \in nodes(src) \X nodes(dst) : has(m, p[1], p[2])}
  BY <1>1 DEF mapped_pairs
<1> HIDE DEF m
<1>5. /\ \A x \in nodes(src) : is_src(m, x) =>
           /\ get_dst_unchecked(m, x) \in nodes(dst) /\ has(m, x, get_dst_unchecked(m, x))
      /\ \A y \in nodes(dst) : is_dst(m, y) =>
           /\ get_src_unchecked(m, y) \in nodes(src) /\ has(m, get_src_unchecked(m, y), y)
  BY <1>3, PartnersAreNodes DEF OneToOne
<1>6. Returns(m)
  BY <1>5 DEF Returns, has
<1>7. SameTypes(m, nodes(src) \ {root(src)}, nodes(dst) \ {root(dst)})
  <2>1. ASSUME NEW x \in nodes(src) \ {root(src)}, is_src(m, x)
        PROVE  src.type[x] = dst.type[get_dst_unchecked(m, x)]
    <3>1. <<x, get_dst_unchecked(m, x)>> \in mapped_pairs'
      BY <1>4, <1>5, <2>1
    <3> QED
      BY <1>2, <2>1, <3>1
  <2>2. ASSUME NEW y \in nodes(dst) \ {root(dst)}, is_dst(m, y)
        PROVE  src.type[get_src_unchecked(m, y)] = dst.type[y]
    <3>1. <<get_src_unchecked(m, y), y>> \in mapped_pairs'
      BY <1>4, <1>5, <2>2
    <3> QED
      BY <1>2, <2>2, <3>1
  <2> QED
    BY <2>1, <2>2 DEF SameTypes
<1>8. Returns(mappings)' /\ SameTypes(mappings, nodes(src) \ {root(src)}, nodes(dst) \ {root(dst)})'
  BY <1>1, <1>6, <1>7 DEF m, Returns, SameTypes
<1>9. (mappings \in Stores(src.len, dst.len))'
  BY <1>1, <1>3 DEF m
<1>10. Untaken(m, root(src), root(dst))
  <2>1. ASSUME NEW x \in nodes(src), NEW y \in nodes(dst)
        PROVE  /\ m.src_to_dst[x] = y + 1 => is_src(m, x) /\ get_dst_unchecked(m, x) = y
               /\ m.dst_to_src[y] = x + 1 => is_dst(m, y) /\ get_src_unchecked(m, y) = x
    BY <1>3, NodeRange DEF is_src, is_dst, get_dst_unchecked, get_src_unchecked
  <2>2. root(src) \in nodes(src) /\ root(dst) \in nodes(dst)
    BY <1>3, RootIsNode
  <2>3. ASSUME NEW x \in nodes(src), NEW y \in nodes(dst)
        PROVE  m.src_to_dst[x] = y + 1 <=> m.dst_to_src[y] = x + 1
    BY <1>5, <2>1 DEF has
  <2>4. \A x \in nodes(src), v \in nodes(src) : x + 1 = v + 1 => x = v
    BY <1>3, NodeRange
  <2>5. \A y \in nodes(dst), w \in nodes(dst) : y + 1 = w + 1 => y = w
    BY <1>3, NodeRange
  <2> QED
    BY <2>2, <2>3, <2>4, <2>5 DEF Untaken
<1>11. (phase # "matched" => Untaken(mappings, root(src), root(dst)))'
  BY <1>1, <1>10 DEF m, Untaken
<1> QED
  BY <1>1, <1>8, <1>9, <1>11 DEF MapInv

(***************************************************************************)
(* The best candidate: it and the node are unmapped before the recovery,   *)
(* so what is mapped to them after it comes from below them.               *)
(***************************************************************************)
LEMMA MapBestMaps == MapInv /\ MapBest => MapInv'
<1> SUFFICES ASSUME MapInv, MapBest PROVE MapInv'
  OBVIOUS
<1>1. PICK y \in best(a) : \E zs \in zs_mappings(a, y) :
        mappings' = link(recovered(mappings, zs), a, y)
  BY DEF MapBest
<1>2. PICK zs \in zs_mappings(a, y) : mappings' = link(recovered(mappings, zs), a, y)
  BY <1>1
<1>3. /\ phase' = phase /\ ~is_src(mappings, a) /\ src' = src /\ dst' = dst
      /\ a < root(src)
  BY DEF MapBest, InLoop, ElseUnchanged, arenas
<1>4. y \in nodes(dst) /\ y # root(dst) /\ ~is_dst(mappings, y) /\ src.type[a] = dst.type[y]
  BY DEF best, candidates
<1>5. /\ IsTree(src) /\ IsTree(dst) /\ a \in nodes(src)
      /\ root(src) \in nodes(src) /\ root(dst) \in nodes(dst)
  BY NodeSlots DEF MapInv
<1> DEFINE m == mappings
           S == nodes(src) \ {root(src)}
           D == nodes(dst) \ {root(dst)}
           news == {p \in zs : ~is_src(m, p[1]) /\ ~is_dst(m, p[2])}
           r == recovered(m, zs)
           k == link(r, a, y)
<1>6. m \in Stores(src.len, dst.len) /\ Returns(m) /\ SameTypes(m, S, D)
  BY DEF MapInv
<1>7. Recoverable(zs, a, y)
  BY <1>4, <1>5, ZsRecoverable
<1>8. /\ r \in Stores(src.len, dst.len)
      /\ \A p \in news : /\ p[1] \in nodes(src) /\ p[2] \in nodes(dst)
                         /\ r.src_to_dst[p[1]] = p[2] + 1
                         /\ r.dst_to_src[p[2]] = p[1] + 1
      /\ \A x \in nodes(src) : (\A p \in news : p[1] # x) => r.src_to_dst[x] = m.src_to_dst[x]
      /\ \A w \in nodes(dst) : (\A p \in news : p[2] # w) => r.dst_to_src[w] = m.dst_to_src[w]
  BY <1>4, <1>5, <1>6, <1>7, RecoveredSlots
<1>9. Returns(r) /\ SameTypes(r, S, D)
  BY <1>4, <1>5, <1>6, <1>7, RecoveredReturns
<1>10. mappings' = k
  BY <1>2
<1> HIDE DEF r, k, news, m, S, D
<1>11. ASSUME NEW x \in nodes(src), r.src_to_dst[x] = y + 1
       PROVE  x = a \/ is_descendant(src, x, a)
  <2>1. CASE \E p \in news : p[1] = x
    <3>1. x \in Subtree(src, a)
      BY <1>7, <2>1 DEF news, Recoverable
    <3> QED
      BY <1>5, <3>1, NodeTypes DEF Subtree, is_descendant
  <2>2. CASE \A p \in news : p[1] # x
    <3>1. m.src_to_dst[x] = y + 1
      BY <1>8, <1>11, <2>2
    <3>2. is_src(m, x) /\ get_dst_unchecked(m, x) = y
      BY <1>4, <1>5, <3>1, NodeTypes DEF is_src, get_dst_unchecked
    <3>3. PICK v \in nodes(src) : has(m, v, y)
      BY <1>6, <3>2 DEF Returns
    <3>4. is_dst(m, y)
      BY <1>5, <3>3, NodeTypes DEF is_dst, has
    <3> QED
      BY <1>4, <3>4 DEF m
  <2> QED
    BY <2>1, <2>2
<1>12. ASSUME NEW w \in nodes(dst), r.dst_to_src[w] = a + 1
       PROVE  w = y \/ is_descendant(dst, w, y)
  <2>1. CASE \E p \in news : p[2] = w
    <3>1. w \in Subtree(dst, y)
      BY <1>7, <2>1 DEF news, Recoverable
    <3> QED
      BY <1>4, <1>5, <3>1, NodeTypes DEF Subtree, is_descendant
  <2>2. CASE \A p \in news : p[2] # w
    <3>1. m.dst_to_src[w] = a + 1
      BY <1>8, <1>12, <2>2
    <3>2. is_dst(m, w) /\ get_src_unchecked(m, w) = a
      <4>1. a \in Int /\ a + 1 # 0
        BY <1>5, NodeRange
      <4> QED
        BY <3>1, <4>1 DEF is_dst, get_src_unchecked
    <3>3. PICK v \in nodes(dst) : has(m, a, v)
      BY <1>6, <3>2 DEF Returns
    <3>4. is_src(m, a)
      BY <1>5, <3>3, NodeTypes DEF is_src, has
    <3> QED
      BY <1>3, <3>4 DEF m
  <2> QED
    BY <2>1, <2>2
(* what is new is paired, and what was unmapped had nothing to lose *)
<1>13. Untaken(r, a, y)
  <2>1. ASSUME NEW x \in nodes(src), NEW w \in nodes(dst), m.dst_to_src[w] = x + 1
        PROVE  is_src(m, x)
    <3>1. is_dst(m, w) /\ get_src_unchecked(m, w) = x
      BY <1>5, <2>1, NodeRange DEF is_dst, get_src_unchecked
    <3>2. PICK v \in nodes(dst) : has(m, x, v)
      BY <1>6, <3>1 DEF Returns
    <3> QED
      BY <1>5, <3>2, NodeRange DEF has, is_src
  <2>2. ASSUME NEW x \in nodes(src), NEW w \in nodes(dst), m.src_to_dst[x] = w + 1
        PROVE  is_dst(m, w)
    <3>1. is_src(m, x) /\ get_dst_unchecked(m, x) = w
      BY <1>5, <2>2, NodeRange DEF is_src, get_dst_unchecked
    <3>2. PICK v \in nodes(src) : has(m, v, w)
      BY <1>6, <3>1 DEF Returns
    <3> QED
      BY <1>5, <3>2, NodeRange DEF has, is_dst
  <2>3. /\ \A p \in news : ~is_src(m, p[1]) /\ ~is_dst(m, p[2])
        /\ \A p, q \in news : p[1] = q[1] \/ p[2] = q[2] => p = q
    BY <1>7 DEF news, Recoverable
  <2>4. /\ \A x, v \in nodes(src) : x + 1 = v + 1 => x = v
        /\ \A x, v \in nodes(dst) : x + 1 = v + 1 => x = v
    BY <1>5, NodeRange
  <2>5. ASSUME NEW x \in nodes(src), NEW w \in nodes(dst),
               r.src_to_dst[x] = y + 1, r.dst_to_src[w] = x + 1
        PROVE  w = y
    <3>1. PICK p \in news : p[1] = x
      BY <1>4, <1>8, <2>2, <2>5 DEF m
    <3>2. p[2] = y
      BY <1>4, <1>8, <2>4, <2>5, <3>1
    <3>3. PICK q \in news : q[2] = w
      BY <1>8, <2>1, <2>3, <2>5, <3>1
    <3>4. q[1] = x
      BY <1>8, <2>4, <2>5, <3>3
    <3> QED
      BY <2>3, <3>1, <3>2, <3>3, <3>4
  <2>6. ASSUME NEW x \in nodes(src), NEW w \in nodes(dst),
               r.dst_to_src[w] = a + 1, r.src_to_dst[x] = w + 1
        PROVE  x = a
    <3>1. PICK p \in news : p[2] = w
      BY <1>3, <1>5, <1>8, <2>1, <2>6 DEF m
    <3>2. p[1] = a
      BY <1>5, <1>8, <2>4, <2>6, <3>1
    <3>3. PICK q \in news : q[1] = x
      BY <1>8, <2>2, <2>3, <2>6, <3>1
    <3>4. q[2] = w
      BY <1>8, <2>4, <2>6, <3>3
    <3> QED
      BY <2>3, <3>1, <3>2, <3>3, <3>4
  <2> QED
    BY <2>5, <2>6 DEF Untaken
<1>14. k \in Stores(src.len, dst.len) /\ Returns(k)
  BY <1>4, <1>5, <1>8, <1>9, <1>11, <1>12, <1>13, LinkReturns DEF k
(* the partners of the roots are mapped, and the roots not below a pair *)
<1>15. Untaken(k, root(src), root(dst))
  <2>1. /\ \A x \in nodes(src) : k.src_to_dst[x] = IF x = a THEN y + 1 ELSE r.src_to_dst[x]
        /\ \A w \in nodes(dst) : k.dst_to_src[w] = IF w = y THEN a + 1 ELSE r.dst_to_src[w]
    <3>1. /\ k.src_to_dst = [r.src_to_dst EXCEPT ![a] = y + 1]
          /\ k.dst_to_src = [r.dst_to_src EXCEPT ![y] = a + 1]
      BY DEF k, link
    <3>2. /\ r.src_to_dst \in [0 .. src.len -> 0 .. dst.len]
          /\ r.dst_to_src \in [0 .. dst.len -> 0 .. src.len]
      BY <1>8 DEF Stores
    <3>3. (\A x \in nodes(src) : x \in 0 .. src.len) /\ (\A w \in nodes(dst) : w \in 0 .. dst.len)
      BY <1>5, NodeRange
    <3> QED
      BY <3>1, <3>2, <3>3
  <2>2. /\ \A x, v \in nodes(src) : x + 1 = v + 1 => x = v
        /\ \A x, v \in nodes(dst) : x + 1 = v + 1 => x = v
        /\ \A x \in nodes(src) : x + 1 # 0
        /\ \A w \in nodes(dst) : w + 1 # 0
    BY <1>5, NodeRange
  <2>3. \A p \in news : /\ ~is_src(m, p[1]) /\ ~is_dst(m, p[2])
                        /\ p[1] # root(src) /\ p[2] # root(dst)
    <3>1. \A p \in news : p[1] \in Subtree(src, a) /\ p[2] \in Subtree(dst, y)
      BY <1>7 DEF news, Recoverable
    <3>2. /\ root(src) \in Int /\ a \in Int /\ src.lld[a] \in Int /\ a < root(src)
          /\ root(dst) \in Int /\ y \in Int /\ dst.lld[y] \in Int /\ y < root(dst)
      BY <1>3, <1>4, <1>5, NodeTypes
    <3>3. root(src) \notin Subtree(src, a) /\ root(dst) \notin Subtree(dst, y)
      BY <3>2 DEF Subtree
    <3> QED
      BY <3>1, <3>3 DEF news
  <2>4. Untaken(m, root(src), root(dst))
    BY DEF MapInv, m, MapBest, InLoop
  <2>5. ASSUME NEW x \in nodes(src), NEW w \in nodes(dst),
               k.src_to_dst[x] = root(dst) + 1, k.dst_to_src[w] = x + 1
        PROVE  w = root(dst)
    <3>1. x # a /\ r.src_to_dst[x] = root(dst) + 1
      BY <1>4, <1>5, <2>1, <2>2, <2>5
    <3>2. \A p \in news : p[1] # x
      BY <1>5, <1>8, <2>2, <2>3, <3>1
    <3>3. m.src_to_dst[x] = root(dst) + 1 /\ is_src(m, x)
      BY <1>5, <1>8, <2>2, <3>1, <3>2 DEF is_src
    <3>4. w # y /\ r.dst_to_src[w] = x + 1
      BY <1>5, <2>1, <2>2, <2>5, <3>1
    <3>5. \A p \in news : p[2] # w
      BY <1>8, <2>2, <3>2, <3>4
    <3>6. m.dst_to_src[w] = x + 1
      BY <1>8, <3>4, <3>5
    <3> QED
      BY <2>4, <3>3, <3>6 DEF Untaken
  <2>6. ASSUME NEW x \in nodes(src), NEW w \in nodes(dst),
               k.dst_to_src[w] = root(src) + 1, k.src_to_dst[x] = w + 1
        PROVE  x = root(src)
    <3>1. w # y /\ r.dst_to_src[w] = root(src) + 1
      <4>1. a # root(src)
        BY <1>3, <1>5, NodeRange
      <4> QED
        BY <1>5, <2>1, <2>2, <2>6, <4>1
    <3>2. \A p \in news : p[2] # w
      BY <1>5, <1>8, <2>2, <2>3, <3>1
    <3>3. m.dst_to_src[w] = root(src) + 1
      BY <1>8, <3>1, <3>2
    <3>4. x # a /\ r.src_to_dst[x] = w + 1
      BY <1>4, <2>1, <2>2, <2>6, <3>1
    <3>5. \A p \in news : p[1] # x
      BY <1>8, <2>2, <3>2, <3>4
    <3>6. m.src_to_dst[x] = w + 1
      BY <1>8, <3>4, <3>5
    <3> QED
      BY <2>4, <3>3, <3>6 DEF Untaken
  <2> QED
    BY <2>5, <2>6 DEF Untaken
<1>16. SameTypes(k, S, D)
  <2>1. S \in SUBSET nodes(src) /\ D \in SUBSET nodes(dst)
    BY DEF S, D
  <2> QED
    BY <1>4, <1>5, <1>8, <1>9, <2>1, LinkTypes DEF k
<1>17. Returns(mappings)' /\ SameTypes(mappings, nodes(src) \ {root(src)}, nodes(dst) \ {root(dst)})'
  BY <1>3, <1>10, <1>14, <1>16 DEF S, D, Returns, SameTypes
<1>18. (mappings \in Stores(src.len, dst.len))'
  BY <1>3, <1>10, <1>14
<1>19. Kept'
  BY MapBestKept DEF MapInv
<1>20. (phase # "matched" => Untaken(mappings, root(src), root(dst)))'
  BY <1>3, <1>10, <1>15 DEF Untaken
<1> QED
  BY <1>3, <1>17, <1>18, <1>19, <1>20 DEF MapInv

(* Everything is the root or below it: any link may be lost to the roots'. *)
LEMMA MapRootsMaps == MapInv /\ MapRoots => MapInv'
<1> SUFFICES ASSUME MapInv, MapRoots PROVE MapInv'
  OBVIOUS
<1> DEFINE m == mappings
           S == nodes(src) \ {root(src)}
           D == nodes(dst) \ {root(dst)}
           k == link(m, root(src), root(dst))
<1>1. PICK zs \in zs_mappings(root(src), root(dst)) : mappings' = recovered(k, zs)
  BY DEF MapRoots
<1>2. phase' = "matched" /\ src' = src /\ dst' = dst
  BY DEF MapRoots, ElseUnchanged, arenas
<1>3. /\ IsTree(src) /\ IsTree(dst)
      /\ root(src) \in nodes(src) /\ root(dst) \in nodes(dst)
  BY NodeSlots DEF MapInv
<1>4. m \in Stores(src.len, dst.len) /\ Returns(m) /\ SameTypes(m, S, D)
  BY DEF MapInv
<1>5. Recoverable(zs, root(src), root(dst))
  BY <1>3, ZsRecoverable
<1>6. /\ \A x \in nodes(src) : x = root(src) \/ is_descendant(src, x, root(src))
      /\ \A y \in nodes(dst) : y = root(dst) \/ is_descendant(dst, y, root(dst))
  <2>1. src.lld[root(src)] = 0 /\ dst.lld[root(dst)] = 0
    BY <1>3 DEF IsTree, TreeShape
  <2> QED
    BY <1>3, <2>1, NodeTypes DEF is_descendant
<1>7. k \in Stores(src.len, dst.len) /\ Returns(k)
  <2>1. Untaken(m, root(src), root(dst))
    BY DEF MapInv, MapRoots
  <2> HIDE DEF m
  <2> QED
    BY <1>3, <1>4, <1>6, <2>1, LinkReturns
<1>8. S \in SUBSET nodes(src) /\ D \in SUBSET nodes(dst) /\ root(src) \notin S /\ root(dst) \notin D
  OBVIOUS
<1>9. SameTypes(k, S, D)
  <2> HIDE DEF m, S, D
  <2> QED
    BY <1>3, <1>4, <1>8, LinkTypes
<1> HIDE DEF k, S, D
<1>10. Returns(recovered(k, zs)) /\ SameTypes(recovered(k, zs), S, D)
  BY <1>3, <1>5, <1>7, <1>8, <1>9, RecoveredReturns
<1>11. recovered(k, zs) \in Stores(src.len, dst.len)
  BY <1>3, <1>5, <1>7, RecoveredSlots
<1>12. Returns(mappings)' /\ SameTypes(mappings, nodes(src) \ {root(src)}, nodes(dst) \ {root(dst)})'
  BY <1>1, <1>2, <1>10 DEF S, D, Returns, SameTypes
<1>13. (mappings \in Stores(src.len, dst.len))'
  BY <1>1, <1>2, <1>11
<1>14. Kept'
  BY MapRootsKept DEF MapInv
<1> QED
  BY <1>2, <1>12, <1>13, <1>14 DEF MapInv

(* The steps that change no mapping. *)
LEMMA MapElse ==
  ASSUME MapInv, StartBottomUp \/ SkipNode \/ GumTreeOver \/ UNCHANGED gumtree_vars
  PROVE  MapInv'
<1>1. src' = src /\ dst' = dst /\ mappings' = mappings
  BY DEF StartBottomUp, SkipNode, GumTreeOver, gumtree_vars, subtree_vars, arenas
<1>2. phase' \in {"subtree", "bottom_up", "matched"}
  BY DEF MapInv, StartBottomUp, SkipNode, GumTreeOver, gumtree_vars
<1>3. Kept'
  BY ElseKept DEF MapInv
<1>4. Returns(mappings)' /\ SameTypes(mappings, nodes(src) \ {root(src)}, nodes(dst) \ {root(dst)})'
  BY <1>1 DEF MapInv, Returns, SameTypes
<1>5. phase = "matched" => phase' = "matched"
  BY DEF StartBottomUp, SkipNode, GumTreeOver, gumtree_vars
<1>6. (phase # "matched" => Untaken(mappings, root(src), root(dst)))'
  BY <1>1, <1>5 DEF MapInv, Untaken
<1> QED
  BY <1>1, <1>2, <1>3, <1>4, <1>6 DEF MapInv

(* Every step keeps the invariant. *)
LEMMA MapStep == MapInv /\ [GumTreeNext \/ GumTreeOver]_gumtree_vars => MapInv'
BY MapSubtree, MapBestMaps, MapRootsMaps, MapElse DEF GumTreeNext, BottomUpNext

(* A partner that maps back to an ancestor is what LostToAncestors says. *)
LEMMA ReturnsImplies == MapInv => LostToAncestors
<1> SUFFICES ASSUME MapInv PROVE LostToAncestors
  OBVIOUS
<1>1. IsTree(src) /\ IsTree(dst) /\ Returns(mappings)
  BY NodeSlots DEF MapInv
<1>2. /\ \A s \in nodes(src) : s \in Nat
      /\ \A d \in nodes(dst) : d \in Nat
  BY <1>1, NodeTypes
<1>3. ASSUME NEW x \in nodes(src), is_src(mappings, x)
      PROVE  LET y == get_dst_unchecked(mappings, x)
                 taker == get_src_unchecked(mappings, y)
             IN  has(mappings, taker, y) /\ (taker = x \/ is_descendant(src, x, taker))
  <2>1. PICK s \in nodes(src) :
          /\ has(mappings, s, get_dst_unchecked(mappings, x))
          /\ s = x \/ is_descendant(src, x, s)
    BY <1>1, <1>3 DEF Returns
  <2>2. get_src_unchecked(mappings, get_dst_unchecked(mappings, x)) = s
    BY <1>2, <2>1 DEF get_src_unchecked, has
  <2> QED
    BY <2>1, <2>2
<1>4. ASSUME NEW y \in nodes(dst), is_dst(mappings, y)
      PROVE  LET x == get_src_unchecked(mappings, y)
                 taker == get_dst_unchecked(mappings, x)
             IN  has(mappings, x, taker) /\ (taker = y \/ is_descendant(dst, y, taker))
  <2>1. PICK d \in nodes(dst) :
          /\ has(mappings, get_src_unchecked(mappings, y), d)
          /\ d = y \/ is_descendant(dst, y, d)
    BY <1>1, <1>4 DEF Returns
  <2>2. get_dst_unchecked(mappings, get_src_unchecked(mappings, y)) = d
    BY <1>2, <2>1 DEF get_dst_unchecked, has
  <2> QED
    BY <2>1, <2>2
<1> QED
  BY <1>3, <1>4 DEF LostToAncestors

(* The invariant holds for good. *)
LEMMA MapInductive == GumTreeSpec => []MapInv
BY MapInit, MapStep, PTL DEF GumTreeSpec

(* The store keeps its shape and a stays on the nodes of src. *)
THEOREM GumTreeTypeCorrect == GumTreeSpec => []GumTreeTypeOK
<1>1. MapInv => GumTreeTypeOK
  BY NodeSlots DEF MapInv, GumTreeTypeOK
<1> QED
  BY <1>1, MapInductive, PTL

(***************************************************************************)
(* No mapping, recovered or linked, pairs nodes of two types, save for the *)
(* roots: the update that the script generator derives from a pair has a   *)
(* label to change only.                                                   *)
(***************************************************************************)
THEOREM TypesStayEqual == GumTreeSpec => []TypesAgree
<1>1. MapInv => TypesAgree
  BY DEF MapInv, SameTypes, TypesAgree
<1> QED
  BY <1>1, MapInductive, PTL

(***************************************************************************)
(* The two vectors part only below a later link: the partner of a node is  *)
(* paired with the node, or else with an ancestor of it that took it, and  *)
(* no later link parts those two.                                          *)
(***************************************************************************)
THEOREM OnlyAncestorsTake == GumTreeSpec => []LostToAncestors
BY ReturnsImplies, MapInductive, PTL
=============================================================================
