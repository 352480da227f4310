------------------------------ MODULE LazyArena ------------------------------
(***************************************************************************)
(* The lazy arena of the matchers                                          *)
(* (hyper_diff/src/decompressed_tree_store/lazy_post_order.rs).  It is     *)
(* created with the root only; decompress_children, decompress_to and      *)
(* complete_subtree fill the rest on demand, in any order of calls, each   *)
(* writing some entries of three arrays.  What they write has to be what   *)
(* an eager numbering of the whole version, `stored', has at that          *)
(* position.  An entry whose parent is 0 counts as not decompressed.       *)
(***************************************************************************)
EXTENDS PostOrderTree, FiniteSetsExt, SequencesExt

CONSTANT Trees

ASSUME TreesAssumption == \A t \in Trees : IsTree(t)

VARIABLES
  stored,                          \* the version, as the node store holds it
  id_compressed, id_parent, llds,  \* the arena
  pc,     \* which loop of which call runs, "idle" between calls, or a panic
  goal,   \* the argument x of the running call
  cur,    \* p in decompress_to, i in complete_subtree
  c, s    \* cursor and stack of decompress_descendants_continuous

arrays == <<id_compressed, id_parent, llds>>
loop == <<c, s>>
vars == <<stored, arrays, pc, goal, cur, loop>>

Panics == {"out_of_bounds", "children_assert", "stack_assert", "end_assert"}
-----------------------------------------------------------------------------
(***************************************************************************)
(* The node store is hash-consed: equal subtrees have one id, here the     *)
(* position of one of them, from which its size and children are read.     *)
(***************************************************************************)
tree_id(t, x) == CHOOSE y \in nodes(t) : isomorphic(t, y, t, x)

is_decompressed(x) == id_parent[x] # 0

(* what complete_subtree asks of its argument: parent() is None at the root *)
known(x) == is_decompressed(x) \/ x = root(stored)

(* the positions of the children of x, given the size of each: c runs down *)
(* from x - 1, one child at a time, to where the child lies below its id   *)
child_ids(x) == children(stored, id_compressed[x])
place(x, e) == x - (id_compressed[x] - e)
id_at(x, o) == id_compressed[x] - (x - o)
child_places(x) == {place(x, e) : e \in child_ids(x)}

(* (variant: the end of the range, as continuous_aux has it for its x) *)
child_lld_of_x(x, o) == x - descendants_count(stored, id_at(x, o))

child_lld(x, o) == o - descendants_count(stored, id_at(x, o))

(* the entries of the arrays after decompress_children(x) *)
children_ids(x) ==
  [o \in nodes(stored) |->
     IF o \in child_places(x) THEN tree_id(stored, id_at(x, o)) ELSE id_compressed[o]]
(* (variant: a position of 0 is not written) *)
children_parents_positive(x) ==
  [o \in nodes(stored) |-> IF o \in child_places(x) /\ o > 0 THEN x ELSE id_parent[o]]
children_parents(x) ==
  [o \in nodes(stored) |-> IF o \in child_places(x) THEN x ELSE id_parent[o]]
(* (variant: the llds are left for later) *)
children_llds_kept(x) == llds
children_llds(x) ==
  [o \in nodes(stored) |-> IF o \in child_places(x) THEN child_lld(x, o) ELSE llds[o]]

(* its writes, and the assertion that closes it *)
decompress_children(x, then) ==
  /\ id_compressed' = children_ids(x)
  /\ id_parent' = children_parents(x)
  /\ llds' = children_llds(x)
  /\ pc' = IF \A o \in child_places(x) :
                (\A q \in child_places(x) : o <= q) => llds'[o] = llds'[x]
           THEN then ELSE "children_assert"
-----------------------------------------------------------------------------
(* decompress: the root alone.  The root of a single node looks as if it   *)
(* were not decompressed, its parent being itself.                         *)
Init ==
  /\ stored \in Trees
  /\ id_compressed = [x \in nodes(stored) |-> tree_id(stored, root(stored))]
  /\ id_parent = [x \in nodes(stored) |-> IF x = root(stored) THEN x ELSE 0]
  /\ llds = [x \in nodes(stored) |-> 0]
  /\ pc = "idle"
  /\ goal = root(stored) /\ cur = root(stored)
  /\ c = 0 /\ s = <<>>

(* the ids that a caller holds come from earlier calls, or from starter() *)
DecompressChildren(x) ==
  /\ pc = "idle" /\ is_decompressed(x)
  /\ decompress_children(x, "idle")
  /\ UNCHANGED <<stored, goal, cur, loop>>
-----------------------------------------------------------------------------
(* decompress_to: iter_df_post gives positions that may not be decompressed *)
StartTo(x) ==
  /\ pc = "idle"
  /\ pc' = "seek" /\ goal' = x /\ cur' = x
  /\ UNCHANGED <<stored, arrays, loop>>

(* To the first decompressed position.  From there the code would climb to  *)
(* one that holds x, but this one always does: the call goes on from it.   *)
SeekRight ==
  /\ pc = "seek" /\ ~is_decompressed(cur)
  /\ IF cur < root(stored) THEN cur' = cur + 1 /\ UNCHANGED pc
                           ELSE pc' = "out_of_bounds" /\ UNCHANGED cur
  /\ UNCHANGED <<stored, arrays, goal, loop>>

(* (variant: it enters the leftmost child) *)
next_place_first(x, y) == Min(child_places(x))

(* the loop over the children from the right stops at the last one >= y *)
next_place(x, y) == Min({o \in child_places(x) : o >= y})

Descend ==
  /\ pc = "seek" /\ is_decompressed(cur) /\ llds[cur] <= goal /\ goal < cur
  /\ decompress_children(cur, "seek")
  /\ cur' = next_place(cur, goal)
  /\ UNCHANGED <<stored, goal, loop>>

EndTo ==
  /\ pc = "seek" /\ is_decompressed(cur) /\ cur = goal
  /\ pc' = "idle"
  /\ UNCHANGED <<stored, arrays, goal, cur, loop>>
-----------------------------------------------------------------------------
StartComplete(x) ==
  /\ pc = "idle" /\ known(x)
  /\ pc' = "complete" /\ goal' = x /\ cur' = x
  /\ UNCHANGED <<stored, arrays, loop>>

(* (variant: a decompressed node is taken for a complete one) *)
SkipKnownSubtree ==
  /\ pc = "complete" /\ cur > llds[goal] /\ is_decompressed(cur - 1)
  /\ cur' = llds[cur - 1]
  /\ UNCHANGED <<stored, arrays, pc, goal, loop>>

(* the node before i is decompressed: go on from it *)
SkipKnown ==
  /\ pc = "complete" /\ cur > llds[goal] /\ is_decompressed(cur - 1)
  /\ cur' = cur - 1
  /\ UNCHANGED <<stored, arrays, pc, goal, loop>>

(* otherwise i has no child yet: decompress_descendants_continuous(i) *)
StartContinuous ==
  /\ pc = "complete" /\ cur > llds[goal] /\ ~is_decompressed(cur - 1)
  /\ pc' = "dive" /\ c' = cur /\ s' = <<>>
  /\ UNCHANGED <<stored, arrays, goal, cur>>

EndComplete ==
  /\ pc = "complete" /\ cur <= llds[goal]
  /\ decompress_children(goal, "idle")
  /\ UNCHANGED <<stored, goal, cur, loop>>
-----------------------------------------------------------------------------
(* (variants: the cursor goes below 0; it stays on the leaf) *)
past_leaf_below(x) == x - 1
past_leaf_stuck(x) == x

past_leaf(x) == IF x > 0 THEN x - 1 ELSE x

(* continuous_aux: the lld of c, and its last child when it has one *)
Dive ==
  /\ pc = "dive"
  /\ llds' = [llds EXCEPT ![c] = c - descendants_count(stored, id_compressed[c])]
  /\ IF child_ids(c) = {}
     THEN /\ c' = past_leaf(c) /\ pc' = "rise"
          /\ UNCHANGED <<id_compressed, id_parent, s>>
     ELSE LET last == Max(child_ids(c))
          IN  /\ id_compressed' = [id_compressed EXCEPT ![c - 1] = tree_id(stored, last)]
              /\ id_parent' = [id_parent EXCEPT ![c - 1] = c]
              /\ s' = Append(s, [p |-> c, rem |-> child_ids(c) \ {last}])
              /\ c' = c - 1 /\ UNCHANGED pc
  /\ UNCHANGED <<stored, goal, cur>>

(* the children of the last stacked node are all done *)
Unstack ==
  /\ pc = "rise" /\ s # <<>> /\ Last(s).rem = {}
  /\ s' = Front(s)
  /\ pc' = IF c <= llds[Last(s).p] THEN "rise" ELSE "stack_assert"
  /\ UNCHANGED <<stored, arrays, goal, cur, c>>

(* one remains: it ends at c *)
NextSibling ==
  /\ pc = "rise" /\ s # <<>> /\ Last(s).rem # {}
  /\ LET p == Last(s).p
         z == Max(Last(s).rem)
     IN  /\ s' = Append(Front(s), [p |-> p, rem |-> Last(s).rem \ {z}])
         /\ pc' = IF llds[p] <= c THEN "dive" ELSE "stack_assert"
         /\ id_parent' = [id_parent EXCEPT ![c] = p]
         /\ id_compressed' = [id_compressed EXCEPT ![c] = tree_id(stored, z)]
  /\ UNCHANGED <<stored, llds, goal, cur, c>>

(***************************************************************************)
(* The two assertions that close decompress_descendants_continuous.  The   *)
(* first one takes the node after the cursor for a descendant of i; but    *)
(* the cursor does not go below 0, and then that node may be i.            *)
(***************************************************************************)
differs_from_goal(x) ==
  llds[x] = x \/ id_compressed[c + 1] # id_compressed[x]

EndContinuous ==
  /\ pc = "rise" /\ s = <<>>
  /\ IF differs_from_goal(cur) /\ llds[cur] \in {c, c + 1}
     THEN pc' = "complete" /\ cur' = llds[cur]
     ELSE pc' = "end_assert" /\ UNCHANGED cur
  /\ UNCHANGED <<stored, arrays, goal, loop>>
-----------------------------------------------------------------------------
Call == \E x \in nodes(stored) : DecompressChildren(x) \/ StartTo(x) \/ StartComplete(x)

Step ==
  \/ SeekRight \/ Descend \/ EndTo
  \/ SkipKnown \/ StartContinuous \/ EndComplete
  \/ Dive \/ Unstack \/ NextSibling \/ EndContinuous

Panicked == pc \in Panics /\ UNCHANGED vars

Next == Call \/ Step

(* a call runs to its end on the thread that made it *)
Spec == Init /\ [][Next \/ Panicked]_vars /\ WF_vars(Step)
-----------------------------------------------------------------------------
(* Every variable holds values of its kind. *)
TypeOK ==
  /\ stored \in Trees
  /\ id_compressed \in [nodes(stored) -> nodes(stored)]
  /\ id_parent \in [nodes(stored) -> nodes(stored)]
  /\ llds \in [nodes(stored) -> nodes(stored)]
  /\ pc \in {"idle", "seek", "complete", "dive", "rise"} \cup Panics
  /\ goal \in nodes(stored) /\ cur \in nodes(stored) /\ c \in nodes(stored)
  /\ s \in Seq([p : nodes(stored), rem : SUBSET nodes(stored)])

(* the cursor of a continuous descent: its lld is about to be written *)
fresh(x) == pc = "dive" /\ x = c

(***************************************************************************)
(* Whatever the order of the calls, an entry that counts as decompressed   *)
(* holds the node, the parent and the lld that an eager numbering gives.   *)
(***************************************************************************)
KnownIsRight ==
  \A x \in nodes(stored) : known(x) =>
    /\ id_compressed[x] = tree_id(stored, x)
    /\ x # root(stored) => id_parent[x] = parent(stored, x)
    /\ ~fresh(x) => llds[x] = first_descendant(stored, x)

(***************************************************************************)
(* Between calls a node is decompressed along with all its siblings, and   *)
(* after its parent: children(), lsib() and position_in_parent() walk over *)
(* siblings without looking whether they are decompressed.                 *)
(***************************************************************************)
SiblingsTogether ==
  pc \in {"idle", "complete", "seek"} =>
    \A x, y \in nodes(stored) \ {root(stored)} :
      parent(stored, x) = parent(stored, y) /\ known(x) =>
        known(y) /\ known(parent(stored, x))

(***************************************************************************)
(* position_in_parent, which counts the steps from lld to lld down to the  *)
(* first child, gives the rank of the node among its siblings.             *)
(***************************************************************************)
position_in_parent(x) ==
  LET first == llds[id_parent[x]]
      siblings == {y \in nodes(stored) \ {root(stored)} : id_parent[y] = id_parent[x]}
      steps[y \in siblings] == IF llds[y] = first THEN 0 ELSE 1 + steps[llds[y] - 1]
  IN  steps[x]

PositionsRight ==
  pc = "idle" =>
    \A x \in nodes(stored) \ {root(stored)} : known(x) =>
      position_in_parent(x) =
        Cardinality({e \in children(stored, parent(stored, x)) : e < x})

(***************************************************************************)
(* A call delivers what it was made for: when complete_subtree returns its *)
(* whole subtree is decompressed, when decompress_to returns its argument  *)
(* is.  The matchers read the arrays without a further test.               *)
(***************************************************************************)
CallsDeliver ==
  [][/\ pc = "complete" /\ pc' = "idle" => \A x \in Subtree(stored, goal) : known(x)'
     /\ pc = "seek" /\ pc' = "idle" => known(goal)']_vars

(* Every call returns.  No bound and no assertion fails but the one of the  *)
(* end of the descent, and save for a tree of one node, whose root looks    *)
(* not decompressed.                                                       *)
CallsReturn ==
  pc # "idle" ~> \/ pc \in {"idle", "end_assert"}
                 \/ pc = "out_of_bounds" /\ stored.len = 1

(***************************************************************************)
(* decompress_descendants_continuous asserts at its end that the node      *)
(* after the cursor is not the node it was called for                      *)
(* (lazy_post_order.rs:284).                                               *)
(***************************************************************************)
EndAssertHolds == pc # "end_assert"
=============================================================================
