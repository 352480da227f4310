----------------------------- MODULE ZsMatcher -----------------------------
(***************************************************************************)
(* ZsMatcher::match_with, the Zhang-Shasha matcher                         *)
(* (hyper_diff/src/matchers/optimal/zs/mod.rs): compute_dist fills the     *)
(* table of the tree distances from the key roots up, compute_mappings     *)
(* walks it back with a stack of pairs of subtrees.  Both share one forest *)
(* table, which forest_dist refills for one pair of nodes, row by row.     *)
(* Rows and columns count nodes: row r stands for the forest that ends     *)
(* with node r - 1.                                                        *)
(***************************************************************************)
EXTENDS EditMapping, MappingStore, SequencesExt

CONSTANT Trees   \* the trees that may be matched

ASSUME TreesAssumption == \A t \in Trees : IsTree(t)

ASSUME DistAssumption ==
  \A t, u \in Trees : \A x \in nodes(t), y \in nodes(u) :
    LabelDist(t.label[x], u.label[y]) \in Nat

VARIABLES
  src, dst,         \* the slices of the two arenas
  tree, forest,     \* ZsMatcherDist
  pc,               \* which loop runs
  kr_pairs,         \* pairs of key roots that compute_dist has left
  pair, di,         \* the pair of the forest table, and its next row's node
  root_node_pair,   \* no pair of subtrees was popped yet
  tree_pairs,       \* the stack of the pairs of subtrees left
  row, col,         \* how far the walk is in the forests of the pair
  mappings

arenas == <<src, dst>>
tables == <<tree, forest>>
zs_vars == <<arenas, tables, pc, kr_pairs, pair, di, root_node_pair, tree_pairs,
             row, col, mappings>>
-----------------------------------------------------------------------------
(* the highest node of each left-most chain, and the root *)
kr(t) ==
  {x \in 1 .. root(t) : \A y \in x + 1 .. root(t) : t.lld[y] # t.lld[x]} \cup {root(t)}

(* the two nested loops of compute_dist *)
kr_pairs_in_order ==
  LET before(p, q) == p[1] < q[1] \/ (p[1] = q[1] /\ p[2] < q[2])
      S == kr(src) \X kr(dst)
      nth(k) == CHOOSE p \in S : Cardinality({q \in S : before(q, p)}) = k - 1
  IN  [k \in 1 .. Cardinality(S) |-> nth(k)]

first_row == src.lld[pair[1]]
first_col == dst.lld[pair[2]]
cols == first_col .. pair[2] + 1

(* the forests up to x and y are whole trees of the pair *)
whole_trees(x, y) == src.lld[x] = first_row /\ dst.lld[y] = first_col

(* what keeping the last trees of two forests costs *)
(* (variant: the table of the trees is not used) *)
keep_last_forest(x, y) ==
  IF whole_trees(x, y)
  THEN forest[<<x, y>>] + get_update_cost(src, x, dst, y)
  ELSE forest[<<src.lld[x], dst.lld[y]>>]

keep_last(x, y) ==
  IF whole_trees(x, y)
  THEN forest[<<x, y>>] + get_update_cost(src, x, dst, y)
  ELSE forest[<<src.lld[x], dst.lld[y]>>] + tree[<<x + 1, y + 1>>]

(* the row of node x: deleting it, inserting the last one, or keeping both *)
next_row(x) ==
  LET cell[c \in cols] ==
        IF c = first_col THEN forest[<<x, c>>] + UNIT
        ELSE Min({forest[<<x, c>>] + UNIT, cell[c - 1] + UNIT, keep_last(x, c - 1)})
  IN  [c \in cols |-> cell[c]]

walking == pc = "walk" /\ (row > first_row \/ col > first_col)

(* the first two of the three ways back, in the order they are tried *)
deletes == row > first_row /\ forest[<<row - 1, col>>] + UNIT = forest[<<row, col>>]
inserts == col > first_col /\ forest[<<row, col - 1>>] + UNIT = forest[<<row, col>>]
same_type == src.type[row - 1] = dst.type[col - 1]
-----------------------------------------------------------------------------
Init ==
  /\ src \in Trees /\ dst \in Trees
  /\ tree = [rc \in (0 .. src.len) \X (0 .. dst.len) |-> 0]
  /\ forest = tree
  /\ pc = "dist"
  /\ kr_pairs = kr_pairs_in_order
  /\ pair = <<root(src), root(dst)>> /\ di = 0
  /\ root_node_pair = TRUE
  /\ tree_pairs = <<>>
  /\ row = src.len /\ col = dst.len
  /\ mappings = topit(src.len + 1, dst.len + 1)

(* forest_dist(p): the row of no node at all, then one row per node *)
StartForest(p) ==
  LET l == dst.lld[p[2]]
  IN  /\ pair' = p /\ di' = src.lld[p[1]]
      /\ forest' = [rc \in DOMAIN forest |->
                      IF rc[1] = src.lld[p[1]] /\ rc[2] \in l .. p[2] + 1
                      THEN UNIT * (rc[2] - l) ELSE forest[rc]]
      /\ pc' = "rows"

NextKeyRoots ==
  /\ pc = "dist" /\ kr_pairs # <<>>
  /\ StartForest(Head(kr_pairs))
  /\ kr_pairs' = Tail(kr_pairs)
  /\ UNCHANGED <<arenas, tree, root_node_pair, tree_pairs, row, col, mappings>>

FillRow ==
  LET filled == next_row(di)
      inRow(rc) == rc[1] = di + 1 /\ rc[2] \in cols
      inTree(rc) == inRow(rc) /\ rc[2] > first_col /\ whole_trees(di, rc[2] - 1)
  IN
  /\ pc = "rows" /\ di <= pair[1]
  /\ forest' = [rc \in DOMAIN forest |-> IF inRow(rc) THEN filled[rc[2]] ELSE forest[rc]]
  /\ tree' = [rc \in DOMAIN tree |-> IF inTree(rc) THEN filled[rc[2]] ELSE tree[rc]]
  /\ di' = di + 1
  /\ UNCHANGED <<arenas, pc, kr_pairs, pair, root_node_pair, tree_pairs, row, col, mappings>>

EndForest ==
  /\ pc = "rows" /\ di > pair[1]
  /\ pc' = IF root_node_pair THEN "dist" ELSE "walk"
  /\ UNCHANGED <<arenas, tables, kr_pairs, pair, di, root_node_pair, tree_pairs,
                 row, col, mappings>>

EndDist ==
  /\ pc = "dist" /\ kr_pairs = <<>>
  /\ tree_pairs' = <<<<src.len, dst.len>>>>
  /\ pc' = "pop"
  /\ UNCHANGED <<arenas, tables, kr_pairs, pair, di, root_node_pair, row, col, mappings>>
-----------------------------------------------------------------------------
(* the first pair popped is walked in the table that compute_dist left *)
PopRoots ==
  /\ pc = "pop" /\ root_node_pair
  /\ tree_pairs' = Front(tree_pairs)
  /\ row' = Last(tree_pairs)[1] /\ col' = Last(tree_pairs)[2]
  /\ pair' = <<Last(tree_pairs)[1] - 1, Last(tree_pairs)[2] - 1>>
  /\ root_node_pair' = FALSE
  /\ pc' = "walk"
  /\ UNCHANGED <<arenas, tables, kr_pairs, di, mappings>>

(* (variant: the other ones too) *)
PopPairStale ==
  /\ pc = "pop" /\ ~root_node_pair /\ tree_pairs # <<>>
  /\ tree_pairs' = Front(tree_pairs)
  /\ row' = Last(tree_pairs)[1] /\ col' = Last(tree_pairs)[2]
  /\ pair' = <<Last(tree_pairs)[1] - 1, Last(tree_pairs)[2] - 1>>
  /\ pc' = "walk"
  /\ UNCHANGED <<arenas, tables, kr_pairs, di, root_node_pair, mappings>>

(* the other ones after the table is filled for them *)
PopPair ==
  /\ pc = "pop" /\ ~root_node_pair /\ tree_pairs # <<>>
  /\ tree_pairs' = Front(tree_pairs)
  /\ row' = Last(tree_pairs)[1] /\ col' = Last(tree_pairs)[2]
  /\ StartForest(<<Last(tree_pairs)[1] - 1, Last(tree_pairs)[2] - 1>>)
  /\ UNCHANGED <<arenas, tree, kr_pairs, root_node_pair, mappings>>

Walked(r, c) ==
  /\ row' = r /\ col' = c
  /\ UNCHANGED <<arenas, tables, pc, kr_pairs, pair, di, root_node_pair>>

Delete ==
  /\ walking /\ deletes
  /\ Walked(row - 1, col)
  /\ UNCHANGED <<tree_pairs, mappings>>

(* (variant: the column is not decreased) *)
InsertInPlace ==
  /\ walking /\ ~deletes /\ inserts
  /\ Walked(row, col)
  /\ UNCHANGED <<tree_pairs, mappings>>

Insert ==
  /\ walking /\ ~deletes /\ inserts
  /\ Walked(row, col - 1)
  /\ UNCHANGED <<tree_pairs, mappings>>

(* both forests end with a tree of the pair: their roots are mapped *)
MapRoots ==
  /\ walking /\ ~deletes /\ ~inserts
  /\ whole_trees(row - 1, col - 1) /\ same_type
  /\ mappings' = link(mappings, row - 1, col - 1)
  /\ Walked(row - 1, col - 1)
  /\ UNCHANGED tree_pairs

(* otherwise the two last trees wait on the stack, and the walk goes on    *)
(* with the forests to their left                                          *)
PushPair ==
  /\ walking /\ ~deletes /\ ~inserts
  /\ ~whole_trees(row - 1, col - 1)
  /\ tree_pairs' = Append(tree_pairs, <<row, col>>)
  /\ Walked(src.lld[row - 1], dst.lld[col - 1])
  /\ UNCHANGED mappings

(* the end of a walk; "Should not map incompatible nodes." ends them all *)
EndWalk ==
  /\ pc = "walk"
  /\ walking => ~deletes /\ ~inserts /\ whole_trees(row - 1, col - 1) /\ ~same_type
  /\ pc' = IF walking THEN "panic" ELSE "pop"
  /\ UNCHANGED <<arenas, tables, kr_pairs, pair, di, root_node_pair, tree_pairs,
                 row, col, mappings>>

EndMappings ==
  /\ pc = "pop" /\ tree_pairs = <<>>
  /\ pc' = "done"
  /\ UNCHANGED <<arenas, tables, kr_pairs, pair, di, root_node_pair, tree_pairs,
                 row, col, mappings>>

MatchNext ==
  \/ NextKeyRoots \/ FillRow \/ EndForest \/ EndDist
  \/ PopRoots \/ PopPair
  \/ Delete \/ Insert \/ MapRoots \/ PushPair \/ EndWalk
  \/ EndMappings

Ended == pc \in {"done", "panic"} /\ UNCHANGED zs_vars

Next == MatchNext \/ Ended

(* one thread, no waiting *)
Spec == Init /\ [][Next]_zs_vars /\ WF_zs_vars(MatchNext)
-----------------------------------------------------------------------------
Cells == (0 .. src.len) \X (0 .. dst.len)

(* Every variable holds values of its kind. *)
TypeOK ==
  /\ IsTree(src) /\ IsTree(dst)
  /\ \A rc \in Cells : tree[rc] \in Nat /\ forest[rc] \in Nat
  /\ pc \in {"dist", "rows", "pop", "walk", "panic", "done"}
  /\ kr_pairs \in Seq(nodes(src) \X nodes(dst))
  /\ pair \in nodes(src) \X nodes(dst) /\ di \in 0 .. src.len
  /\ root_node_pair \in BOOLEAN
  /\ tree_pairs \in Seq(Cells)
  /\ <<row, col>> \in Cells
  /\ mappings \in Stores(src.len + 1, dst.len + 1)

Pairs == {p \in nodes(src) \X nodes(dst) : has(mappings, p[1], p[2])}

(* the nodes that the walk, or a pair on the stack, has still to decide *)
Walking == ~root_node_pair /\ pc \in {"rows", "walk"}
UndecidedSrc ==
  (UNION {Subtree(src, p[1] - 1) : p \in Range(tree_pairs)})
    \cup (IF Walking THEN first_row .. row - 1 ELSE {})
UndecidedDst ==
  (UNION {Subtree(dst, p[2] - 1) : p \in Range(tree_pairs)})
    \cup (IF Walking THEN first_col .. col - 1 ELSE {})

(***************************************************************************)
(* The accounts balance at every step of the walk: what the decided nodes  *)
(* cost, what the forest table says of the rest of the pair being walked   *)
(* and what the tree table says of the pairs on the stack add up to the    *)
(* distance of the two trees.  A stale forest table, a forest left of a    *)
(* pair cut at the wrong place or an equality tested on the wrong cell     *)
(* breaks the sum.                                                         *)
(***************************************************************************)
LedgerBalanced ==
  pc \in {"pop", "walk", "done"} =>
    tree[<<src.len, dst.len>>] =
      UpdateCost(src, dst, Pairs)
        + UNIT * (Cardinality(nodes(src) \ UndecidedSrc) - Cardinality(Pairs))
        + UNIT * (Cardinality(nodes(dst) \ UndecidedDst) - Cardinality(Pairs))
        + MapThenSumSet(LAMBDA p : tree[p], Range(tree_pairs))
        + (IF Walking THEN forest[<<row, col>>] ELSE 0)

(***************************************************************************)
(* What is called the optimal matcher answers an edit mapping, ordered and *)
(* compatible with the ancestors and the types, that no other one beats.   *)
(***************************************************************************)
MappingOptimal ==
  pc = "done" => Pairs \in OptimalMappings(src, root(src), dst, root(dst))

(* match_with ends, under fairness of its only thread, and not in the panic *)
(* of the walk back on two nodes of different types: the cost of f64::MAX,  *)
(* that stays above every finite script, keeps it from reaching them.       *)
Termination == <>(pc = "done")
=============================================================================
