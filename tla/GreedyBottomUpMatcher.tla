----------------------- MODULE GreedyBottomUpMatcher -----------------------
(***************************************************************************)
(* The whole matching of two trees as the client runs it                   *)
(* (hyper_diff/src/algorithms/gumtree_lazy.rs and client/src/matching.rs): *)
(* the subtree matcher of module GreedySubtreeMatcher, then the bottom-up  *)
(* matcher (matchers/heuristic/gt/lazy2_greedy_bottom_up_matcher.rs), that *)
(* maps the inner nodes of src in post-order to the candidate of dst that  *)
(* shares most of their descendants, and recovers mappings below the pair  *)
(* with the Zhang-Shasha matcher.                                          *)
(* That matcher is taken for what module ZsMatcher shows of it: it answers *)
(* some optimal edit mapping of the two subtrees.                          *)
(***************************************************************************)
EXTENDS GreedySubtreeMatcher, EditMapping

CONSTANTS
  SIZE_THRESHOLD,      \* no recovery when both subtrees have as many nodes
  SIM_THRESHOLD_NUM, SIM_THRESHOLD_DEN   \* the least dice of a mapped pair

ASSUME ThresholdAssumption ==
  /\ SIZE_THRESHOLD \in Nat
  /\ SIM_THRESHOLD_NUM \in Nat /\ SIM_THRESHOLD_DEN \in Nat \ {0}

VARIABLES
  phase,   \* "subtree", "bottom_up" or "matched"
  a        \* the node of src that iter_df_post gives next

gumtree_vars == <<subtree_vars, phase, a>>
-----------------------------------------------------------------------------
(***************************************************************************)
(* The candidates of x: the ancestors of the partners of its descendants,  *)
(* of the same type, unmapped, save for the root.  They are found climbing *)
(* from the partners in the order of the descendants, up to a node that an *)
(* earlier climb visited.                                                  *)
(***************************************************************************)
mapped_descendants(x) == {c \in descendants(src, x) : is_src(mappings, c)}

below(x, y) ==
  {c \in mapped_descendants(x) : is_descendant(dst, get_dst_unchecked(mappings, c), y)}

(* (variant: any type) *)
candidates_untyped(x) ==
  {y \in nodes(dst) \ {root(dst)} : ~is_dst(mappings, y) /\ below(x, y) # {}}

(* (variant: mapped nodes are candidates too) *)
candidates_mapped(x) ==
  {y \in nodes(dst) \ {root(dst)} : dst.type[y] = src.type[x] /\ below(x, y) # {}}

candidates(x) ==
  {y \in nodes(dst) \ {root(dst)} :
     dst.type[y] = src.type[x] /\ ~is_dst(mappings, y) /\ below(x, y) # {}}

(* y is found before z *)
found_before(x, y, z) ==
  \/ Min(below(x, y)) < Min(below(x, z))
  \/ Min(below(x, y)) = Min(below(x, z)) /\ y < z

(* dice(x, y) is common / total *)
dice_common(x, y) == 2 * Cardinality(below(x, y))
dice_total(x, y) == descendants_count(src, x) + descendants_count(dst, y)
similar(x, y) == dice_common(x, y) * SIM_THRESHOLD_DEN >= SIM_THRESHOLD_NUM * dice_total(x, y)
less_similar(x, y, z) ==
  dice_common(x, y) * dice_total(x, z) < dice_common(x, z) * dice_total(x, y)

(* the first of the most similar candidates, if any *)
best(x) ==
  {y \in candidates(x) :
     /\ similar(x, y)
     /\ \A z \in candidates(x) \ {y} :
          /\ ~less_similar(x, y, z)
          /\ ~less_similar(x, z, y) => found_before(x, y, z)}

(***************************************************************************)
(* last_chance_match_zs: the mappings of the Zhang-Shasha matcher between  *)
(* nodes that were both unmapped.                                          *)
(***************************************************************************)
zs_mappings(x, y) ==
  IF descendants_count(src, x) < SIZE_THRESHOLD \/ descendants_count(dst, y) < SIZE_THRESHOLD
  THEN OptimalMappings(src, x, dst, y)
  ELSE {{}}

(* (variant: it takes over what was mapped) *)
recovered_all(m, zs) ==
  [src_to_dst |-> [x \in DOMAIN m.src_to_dst |->
                     IF \E p \in zs : p[1] = x
                     THEN (CHOOSE p \in zs : p[1] = x)[2] + 1 ELSE m.src_to_dst[x]],
   dst_to_src |-> [y \in DOMAIN m.dst_to_src |->
                     IF \E p \in zs : p[2] = y
                     THEN (CHOOSE p \in zs : p[2] = y)[1] + 1 ELSE m.dst_to_src[y]]]

(* zs is one-to-one: the links do not depend on their order *)
recovered(m, zs) ==
  LET kept == {p \in zs : /\ ~is_src(m, p[1]) /\ ~is_dst(m, p[2])
                          /\ src.type[p[1]] = dst.type[p[2]]}
  IN  [src_to_dst |-> [x \in DOMAIN m.src_to_dst |->
                         IF \E p \in kept : p[1] = x
                         THEN (CHOOSE p \in kept : p[1] = x)[2] + 1 ELSE m.src_to_dst[x]],
       dst_to_src |-> [y \in DOMAIN m.dst_to_src |->
                         IF \E p \in kept : p[2] = y
                         THEN (CHOOSE p \in kept : p[2] = y)[1] + 1 ELSE m.dst_to_src[y]]]
-----------------------------------------------------------------------------
GumTreeInit == Init /\ phase = "subtree" /\ a = 0

SubtreeStep ==
  /\ phase = "subtree"
  /\ SubtreeNext
  /\ UNCHANGED <<phase, a>>

(* the second matcher starts from the arenas and mappings of the first *)
StartBottomUp ==
  /\ phase = "subtree" /\ pc = "done"
  /\ phase' = "bottom_up"
  /\ UNCHANGED <<subtree_vars, a>>

(* (variant: the root is visited too) *)
InLoopRoot == phase = "bottom_up" /\ a <= root(src)

InLoop == phase = "bottom_up" /\ a < root(src)
ElseUnchanged ==
  UNCHANGED <<arenas, lists, multi_mappings, pc, filter_vars>>

(* a mapped node, a leaf, or one without a similar candidate *)
SkipNode ==
  /\ InLoop
  /\ ~is_src(mappings, a) /\ ~is_leaf(src, a) => best(a) = {}
  /\ a' = a + 1
  /\ UNCHANGED <<subtree_vars, phase>>

MapBest ==
  /\ InLoop
  /\ ~is_src(mappings, a) /\ ~is_leaf(src, a)
  /\ \E y \in best(a) : \E zs \in zs_mappings(a, y) :
       mappings' = link(recovered(mappings, zs), a, y)
  /\ a' = a + 1
  /\ ElseUnchanged /\ UNCHANGED phase

(* the roots are mapped, whatever they were mapped to *)
MapRoots ==
  /\ phase = "bottom_up" /\ a = root(src)
  /\ \E zs \in zs_mappings(root(src), root(dst)) :
       mappings' = recovered(link(mappings, root(src), root(dst)), zs)
  /\ phase' = "matched"
  /\ ElseUnchanged /\ UNCHANGED a

BottomUpNext == StartBottomUp \/ SkipNode \/ MapBest \/ MapRoots

GumTreeNext == SubtreeStep \/ BottomUpNext

GumTreeOver ==
  /\ phase = "matched" \/ pc \in {"pop_panic", "parent_panic"}
  /\ UNCHANGED gumtree_vars

(* one thread runs the two matchers, and never waits *)
GumTreeSpec ==
  GumTreeInit /\ [][GumTreeNext \/ GumTreeOver]_gumtree_vars /\ WF_gumtree_vars(GumTreeNext)
-----------------------------------------------------------------------------
(* Every variable of this phase holds values of its kind. *)
GumTreeTypeOK ==
  /\ mappings \in Stores(src.len, dst.len)
  /\ phase \in {"subtree", "bottom_up", "matched"}
  /\ a \in nodes(src)

(***************************************************************************)
(* A pair that is mapped stays mapped for good, save for those of a root:  *)
(* neither the recovery nor the link of the best candidate, which are      *)
(* separated by a call that may map the same nodes, take a pair back.      *)
(***************************************************************************)
PairsKept ==
  [][\A p \in mapped_pairs : p[1] # root(src) /\ p[2] # root(dst) => p \in mapped_pairs']_gumtree_vars

(***************************************************************************)
(* Mapped nodes have the same type in both directions, save for the roots: *)
(* the script generator turns a mapped pair into an update of its label    *)
(* and cannot change a type.                                               *)
(***************************************************************************)
TypesAgree ==
  /\ \A x \in nodes(src) \ {root(src)} :
       is_src(mappings, x) => src.type[x] = dst.type[get_dst_unchecked(mappings, x)]
  /\ \A y \in nodes(dst) \ {root(dst)} :
       is_dst(mappings, y) => src.type[get_src_unchecked(mappings, y)] = dst.type[y]

(***************************************************************************)
(* The final link of a pair may overwrite what the recovery mapped below,  *)
(* which leaves the two vectors asymmetric.  But a link is only ever lost  *)
(* to an ancestor, and for good: a one-sided node lies below the node that *)
(* took its partner, and the taker and that partner stay mapped together.  *)
(***************************************************************************)
LostToAncestors ==
  /\ \A x \in nodes(src) : is_src(mappings, x) =>
       LET y == get_dst_unchecked(mappings, x)
           taker == get_src_unchecked(mappings, y)
       IN  has(mappings, taker, y) /\ (taker = x \/ is_descendant(src, x, taker))
  /\ \A y \in nodes(dst) : is_dst(mappings, y) =>
       LET x == get_src_unchecked(mappings, y)
           taker == get_dst_unchecked(mappings, x)
       IN  has(mappings, x, taker) /\ (taker = y \/ is_descendant(dst, y, taker))
=============================================================================
