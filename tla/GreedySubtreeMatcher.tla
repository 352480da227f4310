------------------------ MODULE GreedySubtreeMatcher ------------------------
(***************************************************************************)
(* The top-down phase of GumTree as the client runs it                     *)
(* (hyper_diff/src/matchers/heuristic/gt/lazy2_greedy_subtree_matcher.rs): *)
(*   - compute_multimapping walks both trees from the highest nodes down   *)
(*     and pairs up all the isomorphic subtrees of a same height;          *)
(*   - filter_mappings turns the multi-mapping into a one-to-one mapping:  *)
(*     pairs that are unique on both sides first, then the ambiguous ones  *)
(*     in the order of a similarity sort.                                  *)
(* The order that the sort gives is left open: the steps of the selection  *)
(* may take the ambiguous pairs in any order.                              *)
(***************************************************************************)
EXTENDS PostOrderTree, MappingStore, FiniteSetsExt

CONSTANTS
  Trees,       \* the trees that may be compared
  MIN_HEIGHT   \* smallest height of a subtree worth mapping

ASSUME TreesAssumption == \A t \in Trees : IsTree(t)
ASSUME MinHeightAssumption == MIN_HEIGHT \in Nat

(* equal subtrees are one node of the store, and its height is stored there *)
ASSUME HeightsAssumption ==
  \A t, u \in Trees : \A x \in nodes(t), y \in nodes(u) :
    isomorphic(t, x, u, y) => t.height[x] = u.height[y]

VARIABLES
  src, dst,               \* the two arenas
  src_trees, dst_trees,   \* PriorityTreeList of each side
  multi_mappings,         \* MultiVecStore: source node -> destination nodes
  mappings,               \* VecStore
  pc,                     \* which loop of the matcher runs
  unvisited,              \* rest of all_mapped_srcs() in filter_mappings
  ignored,                \* sources whose group is already in ambiguous_list
  ambiguous_list,         \* ambiguous pairs not selected or rejected yet
  src_ignored, dst_ignored

arenas == <<src, dst>>
lists == <<src_trees, dst_trees>>
filter_vars == <<unvisited, ignored, ambiguous_list, src_ignored, dst_ignored>>
subtree_vars ==
  <<arenas, lists, multi_mappings, mappings, pc, filter_vars>>
-----------------------------------------------------------------------------
(***************************************************************************)
(* PriorityTreeList: the subtrees still to be matched, by height, and the  *)
(* cached height of the highest non-empty level (-1 when there is none).   *)
(***************************************************************************)
listed(t, S) == {x \in S : t.height[x] >= MIN_HEIGHT}

(* (variant: the lowest level first) *)
update_height_lowest(t, S) ==
  [trees |-> S, peek |-> IF S = {} THEN -1 ELSE Min({t.height[x] : x \in S})]

update_height(t, S) ==
  [trees |-> S, peek |-> IF S = {} THEN -1 ELSE Max({t.height[x] : x \in S})]

new(t) == update_height(t, listed(t, {root(t)}))

(* the level that pop() takes out of the list *)
top_level(t, list) == {x \in list.trees : t.height[x] = list.peek}

(* what open_tree adds for each tree of S *)
(* (variant: the smallest trees are left out) *)
open_trees_strict(t, S) ==
  {c \in UNION {children(t, x) : x \in S} : t.height[c] > MIN_HEIGHT}

open_trees(t, S) == listed(t, UNION {children(t, x) : x \in S})

(* the list once its top level is popped and the trees T of it are opened *)
replace_top(t, list, T) ==
  update_height(t, (list.trees \ top_level(t, list)) \cup open_trees(t, T))

(* (variant: the popped level is not taken out) *)
open_keeping(t, list) ==
  update_height(t, list.trees \cup open_trees(t, top_level(t, list)))

open(t, list) == replace_top(t, list, top_level(t, list))
-----------------------------------------------------------------------------
(* MultiVecStore: the destinations of a source, the sources of one *)
get_dsts(s) == multi_mappings[s]
get_srcs(d) == {s \in nodes(src) : d \in multi_mappings[s]}
all_mapped_srcs == {s \in nodes(src) : multi_mappings[s] # {}}
all_mapped_dsts == {d \in nodes(dst) : get_srcs(d) # {}}

(* (variant: only the source has to be unique) *)
is_unique_for_src(s, d) == get_dsts(s) = {d}

is_unique_pair(s, d) == get_dsts(s) = {d} /\ get_srcs(d) = {s}
is_mapping_unique(s) == \E d \in get_dsts(s) : is_unique_pair(s, d)

(* maps the roots and zips their descendants *)
add_mapping_recursively(s, d) ==
  link_ranges(mappings, s, d, descendants_count(src, s))

(***************************************************************************)
(* The comparator reads the parents of both pairs (and unwraps them) as    *)
(* soon as two compared pairs have different parents; a sort compares some *)
(* pair of each family of parents with one of another family.              *)
(***************************************************************************)
mapping_parents(pair) == <<parent(src, pair[1]), parent(dst, pair[2])>>
lacks_parent(pair) == pair[1] = root(src) \/ pair[2] = root(dst)
sort_unwraps_none ==
  \E p, q \in ambiguous_list :
    lacks_parent(p) /\ mapping_parents(p) # mapping_parents(q)
-----------------------------------------------------------------------------
(* the all-pairs comparison of a level, and the trees it leaves unmarked *)
mates(s, dsts) == {d \in dsts : isomorphic(src, s, dst, d)}

src_unmarked(srcs, dsts) == {s \in srcs : mates(s, dsts) = {}}

(* (variant: the destinations are never marked) *)
dst_never_marked(srcs, dsts) == dsts

dst_unmarked(srcs, dsts) == {d \in dsts : \A s \in srcs : d \notin mates(s, dsts)}
-----------------------------------------------------------------------------
Init ==
  /\ src \in Trees /\ dst \in Trees
  /\ src_trees = new(src) /\ dst_trees = new(dst)
  /\ multi_mappings = [s \in nodes(src) |-> {}]
  /\ mappings = topit(src.len, dst.len)
  /\ pc = "outer"
  /\ unvisited = {} /\ ignored = {} /\ ambiguous_list = {}
  /\ src_ignored = {} /\ dst_ignored = {}

(* the guard of the outer loop of compute_multimapping *)
EnterLevel ==
  /\ pc = "outer"
  /\ src_trees.peek # -1 /\ dst_trees.peek # -1
  /\ pc' = "inner"
  /\ UNCHANGED <<arenas, lists, multi_mappings, mappings, filter_vars>>

EndMultiMapping ==
  /\ pc = "outer"
  /\ src_trees.peek = -1 \/ dst_trees.peek = -1
  /\ pc' = "filter"
  /\ unvisited' = all_mapped_srcs
  /\ UNCHANGED <<arenas, lists, multi_mappings, mappings>>
  /\ UNCHANGED <<ignored, ambiguous_list, src_ignored, dst_ignored>>

(* the inner loop: open the list with the higher trees *)
OpenSrc ==
  /\ pc = "inner"
  /\ src_trees.peek > dst_trees.peek
  /\ src_trees' = open(src, src_trees)
  /\ UNCHANGED <<arenas, dst_trees, multi_mappings, mappings, pc, filter_vars>>

OpenDst ==
  /\ pc = "inner"
  /\ src_trees.peek < dst_trees.peek
  /\ dst_trees' = open(dst, dst_trees)
  /\ UNCHANGED <<arenas, src_trees, multi_mappings, mappings, pc, filter_vars>>

(* Both lists are at the same height: all the pairs of the level are       *)
(* compared, isomorphic ones are mapped, trees without any are opened.     *)
(* If that height is -1 both lists are exhausted: pop().unwrap() panics.   *)
MatchLevel ==
  LET srcs == top_level(src, src_trees)
      dsts == top_level(dst, dst_trees)
  IN
  /\ pc = "inner"
  /\ src_trees.peek = dst_trees.peek
  /\ multi_mappings' =
       [s \in nodes(src) |->
          IF s \in srcs THEN multi_mappings[s] \cup mates(s, dsts) ELSE multi_mappings[s]]
  /\ src_trees' = replace_top(src, src_trees, src_unmarked(srcs, dsts))
  /\ dst_trees' = replace_top(dst, dst_trees, dst_unmarked(srcs, dsts))
  /\ pc' = IF src_trees.peek = -1 THEN "pop_panic" ELSE "outer"
  /\ UNCHANGED <<arenas, mappings, filter_vars>>
-----------------------------------------------------------------------------
(* filter_mappings visits the mapped sources in the order of their ids *)
visited(s) == s = Min(unvisited)

FilterUnique ==
  /\ pc = "filter"
  /\ \E s \in unvisited : \E d \in get_dsts(s) :
       /\ visited(s)
       /\ is_unique_pair(s, d)
       /\ mappings' = add_mapping_recursively(s, d)
       /\ unvisited' = unvisited \ {s}
  /\ UNCHANGED <<arenas, lists, multi_mappings, pc>>
  /\ UNCHANGED <<ignored, ambiguous_list, src_ignored, dst_ignored>>

(* (variant: the other sources of the group are marked but not paired) *)
FilterAmbiguousAlone ==
  /\ pc = "filter"
  /\ \E s \in unvisited : \E d \in get_dsts(s) :
       /\ visited(s)
       /\ ~is_mapping_unique(s) /\ s \notin ignored
       /\ ignored' = ignored \cup get_srcs(d)
       /\ ambiguous_list' = ambiguous_list \cup ({s} \X get_dsts(s))
       /\ unvisited' = unvisited \ {s}
  /\ UNCHANGED <<arenas, lists, multi_mappings, mappings, pc>>
  /\ UNCHANGED <<src_ignored, dst_ignored>>

(* the whole group of s: the sources of its first destination, times its   *)
(* destinations                                                            *)
FilterAmbiguous ==
  /\ pc = "filter"
  /\ \E s \in unvisited : \E d \in get_dsts(s) :
       /\ visited(s)
       /\ ~is_mapping_unique(s) /\ s \notin ignored
       /\ ignored' = ignored \cup get_srcs(d)
       /\ ambiguous_list' = ambiguous_list \cup (get_srcs(d) \X get_dsts(s))
       /\ unvisited' = unvisited \ {s}
  /\ UNCHANGED <<arenas, lists, multi_mappings, mappings, pc>>
  /\ UNCHANGED <<src_ignored, dst_ignored>>

FilterIgnored ==
  /\ pc = "filter"
  /\ \E s \in unvisited :
       /\ visited(s)
       /\ ~is_mapping_unique(s) /\ s \in ignored
       /\ unvisited' = unvisited \ {s}
  /\ UNCHANGED <<arenas, lists, multi_mappings, mappings, pc>>
  /\ UNCHANGED <<ignored, ambiguous_list, src_ignored, dst_ignored>>

Sort ==
  /\ pc = "filter" /\ unvisited = {}
  /\ pc' = IF sort_unwraps_none THEN "parent_panic" ELSE "select"
  /\ UNCHANGED <<arenas, lists, multi_mappings, mappings, filter_vars>>

(* one turn of the selection loop, for a pair that is kept ... *)
SelectPair ==
  /\ pc = "select"
  /\ \E p \in ambiguous_list :
       /\ p[1] \notin src_ignored /\ p[2] \notin dst_ignored
       /\ mappings' = add_mapping_recursively(p[1], p[2])
       /\ src_ignored' = src_ignored \cup Subtree(src, p[1])
       /\ dst_ignored' = dst_ignored \cup Subtree(dst, p[2])
       /\ ambiguous_list' = ambiguous_list \ {p}
  /\ UNCHANGED <<arenas, lists, multi_mappings, pc, unvisited, ignored>>

(* ... and for one that is not *)
SkipPair ==
  /\ pc = "select"
  /\ \E p \in ambiguous_list :
       /\ p[1] \in src_ignored \/ p[2] \in dst_ignored
       /\ ambiguous_list' = ambiguous_list \ {p}
  /\ UNCHANGED <<arenas, lists, multi_mappings, mappings, pc>>
  /\ UNCHANGED <<unvisited, ignored, src_ignored, dst_ignored>>

EndSelection ==
  /\ pc = "select" /\ ambiguous_list = {}
  /\ pc' = "done"
  /\ UNCHANGED <<arenas, lists, multi_mappings, mappings, filter_vars>>
-----------------------------------------------------------------------------
SubtreeNext ==
  \/ EnterLevel \/ EndMultiMapping
  \/ OpenSrc \/ OpenDst \/ MatchLevel
  \/ FilterUnique \/ FilterAmbiguous \/ FilterIgnored \/ Sort
  \/ SelectPair \/ SkipPair \/ EndSelection

Terminated ==
  /\ pc \in {"done", "pop_panic", "parent_panic"}
  /\ UNCHANGED subtree_vars

Next == SubtreeNext \/ Terminated

(* match_it runs on one thread and never waits *)
Fairness == WF_subtree_vars(SubtreeNext)

Spec == Init /\ [][Next]_subtree_vars /\ Fairness
-----------------------------------------------------------------------------
Lists(t) == [trees : SUBSET nodes(t), peek : Nat \cup {-1}]

(* Every variable holds values of its kind. *)
TypeOK ==
  /\ src \in Trees /\ dst \in Trees
  /\ src_trees \in Lists(src) /\ dst_trees \in Lists(dst)
  /\ multi_mappings \in [nodes(src) -> SUBSET nodes(dst)]
  /\ mappings \in Stores(src.len, dst.len)
  /\ pc \in {"outer", "inner", "pop_panic", "filter", "parent_panic", "select", "done"}
  /\ unvisited \subseteq nodes(src) /\ ignored \subseteq nodes(src)
  /\ ambiguous_list \subseteq nodes(src) \X nodes(dst)
  /\ src_ignored \subseteq nodes(src) /\ dst_ignored \subseteq nodes(dst)

(***************************************************************************)
(* compute_multimapping unwraps what pop() gives without checking that a   *)
(* list was exhausted while the larger one was being opened (the check is  *)
(* commented out under a "TODO uncomment ?").  The heights of the nodes    *)
(* make it unnecessary: opening a level always leaves the next one down.   *)
(***************************************************************************)
NoPopOnEmpty == pc # "pop_panic"

(***************************************************************************)
(* The trees that wait in a list and those already multi-mapped never      *)
(* overlap: a node is opened at most once and no subtree of a mapped tree  *)
(* is compared again.  filter_mappings relies on it when it maps whole     *)
(* subtrees without looking at what is mapped below.                       *)
(***************************************************************************)
FrontierDisjoint ==
  /\ src_trees.trees \cap all_mapped_srcs = {}
  /\ dst_trees.trees \cap all_mapped_dsts = {}
  /\ Disjoint(src, src_trees.trees \cup all_mapped_srcs)
  /\ Disjoint(dst, dst_trees.trees \cup all_mapped_dsts)

(***************************************************************************)
(* Two sources that share a destination have all their destinations in     *)
(* common.  filter_mappings rebuilds the group of a source from its first  *)
(* destination only, and marks the sources of that one as done: with       *)
(* another shape of group it would lose pairs.                             *)
(***************************************************************************)
GroupsAreClasses ==
  \A s1, s2 \in nodes(src) :
    multi_mappings[s1] \cap multi_mappings[s2] # {}
      => multi_mappings[s1] = multi_mappings[s2]

(***************************************************************************)
(* The two vectors of the mapping store stay inverse of each other: link   *)
(* never overwrites, whatever the order of unique and ambiguous pairs.     *)
(* (The asserts that said so in VecStore::link are commented out.)         *)
(***************************************************************************)
SymmetricMapping == OneToOne(mappings, nodes(src), nodes(dst))

(***************************************************************************)
(* Once the lists are exhausted, two isomorphic subtrees of a sufficient   *)
(* height are never both outside of the multi-mapped trees: the walk by    *)
(* decreasing height overlooks no common subtree.                          *)
(***************************************************************************)
NothingOverlooked ==
  pc = "filter" =>
    \A s \in listed(src, nodes(src)), d \in listed(dst, nodes(dst)) :
      isomorphic(src, s, dst, d) =>
        \/ \E u \in all_mapped_srcs : s \in Subtree(src, u)
        \/ \E v \in all_mapped_dsts : d \in Subtree(dst, v)

(***************************************************************************)
(* At the end no pair of the multi-mapping has both of its trees unmapped: *)
(* every group is used up on its smaller side.                             *)
(***************************************************************************)
NoPairLeftOver ==
  pc = "done" =>
    \A s \in nodes(src) : \A d \in get_dsts(s) :
      is_src(mappings, s) \/ is_dst(mappings, d)

(***************************************************************************)
(* The inductive invariant behind the properties above.                    *)
(***************************************************************************)
(* the cached height of a list is the one of its highest tree *)
ListOK(t, list) ==
  /\ list.trees \subseteq listed(t, nodes(t))
  /\ list = update_height(t, list.trees)

(* opening the higher list never exhausts it *)
InnerNotEmpty ==
  pc = "inner" => src_trees.peek # -1 /\ dst_trees.peek # -1

MultiMappingIsomorphic ==
  \A s \in nodes(src) : \A d \in get_dsts(s) : isomorphic(src, s, dst, d)

(* a mapped node lies in a multi-mapped tree whose root is mapped too *)
MappedUnderRoots ==
  /\ \A x \in nodes(src) : is_src(mappings, x) =>
       \E s \in all_mapped_srcs : x \in Subtree(src, s) /\ is_src(mappings, s)
  /\ \A y \in nodes(dst) : is_dst(mappings, y) =>
       \E d \in all_mapped_dsts : y \in Subtree(dst, d) /\ is_dst(mappings, d)

(* a mapped root is one of a unique pair, or was selected *)
RootsUniqueOrSelected ==
  /\ \A s \in all_mapped_srcs : is_src(mappings, s) =>
       is_mapping_unique(s) \/ s \in src_ignored
  /\ \A d \in all_mapped_dsts : is_dst(mappings, d) =>
       (\E s \in nodes(src) : is_unique_pair(s, d)) \/ d \in dst_ignored

(* filter_mappings has not reached this unique pair *)
UnvisitedUnmapped ==
  \A s \in unvisited : \A d \in get_dsts(s) :
    is_unique_pair(s, d) => ~is_src(mappings, s) /\ ~is_dst(mappings, d)

AmbiguousPairs ==
  \A p \in ambiguous_list : p[2] \in get_dsts(p[1]) /\ ~is_mapping_unique(p[1])

NothingMappedYet ==
  pc \in {"outer", "inner", "pop_panic"} =>
    /\ \A x \in nodes(src) : ~is_src(mappings, x)
    /\ \A y \in nodes(dst) : ~is_dst(mappings, y)
    /\ unvisited = {} /\ ambiguous_list = {}

IndInv ==
  /\ TypeOK /\ ListOK(src, src_trees) /\ ListOK(dst, dst_trees)
  /\ NoPopOnEmpty /\ InnerNotEmpty
  /\ FrontierDisjoint /\ GroupsAreClasses /\ MultiMappingIsomorphic
  /\ SymmetricMapping /\ MappedUnderRoots /\ RootsUniqueOrSelected
  /\ UnvisitedUnmapped /\ AmbiguousPairs /\ NothingMappedYet

(***************************************************************************)
(* The matcher ends, under fairness of its only thread.                    *)
(***************************************************************************)
Termination == <>(pc \in {"done", "pop_panic", "parent_panic"})

(***************************************************************************)
(* What the phase promises to the next ones (module SubtreeMatching): the  *)
(* mapping only grows, by whole pairs of isomorphic unmapped subtrees.     *)
(***************************************************************************)
mapped_pairs ==
  {p \in nodes(src) \X nodes(dst) : has(mappings, p[1], p[2])}

Abstract == INSTANCE SubtreeMatching WITH pairs <- mapped_pairs
RefinesSubtreeMatching == Abstract!Spec

(***************************************************************************)
(* The unwraps of parents() in the comparator claim that a tree with       *)
(* several candidates is never the root of its version.                    *)
(***************************************************************************)
ParentsExist == pc # "parent_panic"
=============================================================================
