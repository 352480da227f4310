--------------------------- MODULE PostOrderTree ---------------------------
(***************************************************************************)
(* A decompressed tree: the nodes of one version of the code, numbered in  *)
(* post-order from 0 (hyper_diff/src/decompressed_tree_store).  The arena  *)
(* keeps, for every node, its parent and its left-most leaf descendant     *)
(* (lld); a subtree is then the contiguous range lld[x] .. x.  The type,   *)
(* the label and the height are metadata of the hash-consed node that the  *)
(* position refers to (hyper_ast's node store).                            *)
(***************************************************************************)
EXTENDS Integers, FiniteSets

(* parent() of the root, and the label of a node without one *)
NoNode == -1
NoLabel == "none"

root(t) == t.len - 1
nodes(t) == 0 .. root(t)

first_descendant(t, x) == t.lld[x]
descendants(t, x) == t.lld[x] .. x - 1
descendants_count(t, x) == x - t.lld[x]
is_descendant(t, desc, of) == desc < of /\ t.lld[of] <= desc

(* add_mapping_recursively, src_ignored and dst_ignored act on a node and  *)
(* its descendants                                                         *)
Subtree(t, x) == t.lld[x] .. x

(* the subtrees of the nodes of S do not overlap *)
Disjoint(t, S) ==
  \A x, y \in S : x # y => Subtree(t, x) \cap Subtree(t, y) = {}

parent(t, x) == t.parent[x]
children(t, x) == {c \in descendants(t, x) : t.parent[c] = x}
is_leaf(t, x) == t.lld[x] = x

(* y, its ancestors, and itself *)
Ancestors(t, x) == {y \in nodes(t) : is_descendant(t, x, y)}

(***************************************************************************)
(* isomorphic_aux: same type, same label, same number of children and      *)
(* pairwise isomorphic children.  In post-order that says: two ranges of   *)
(* the same size that agree on types, labels and relative llds.  The hash  *)
(* that the code compares first only speeds this up.  (The MC module       *)
(* checks this definition against the code's recursion.)                   *)
(***************************************************************************)
(* (variant: the recursion without the hash, which lets a label vanish) *)
SameNodeNoHash(t, x, u, y) ==
  /\ t.type[x] = u.type[y]
  /\ u.label[y] # NoLabel => t.label[x] = u.label[y]
  /\ x - t.lld[x] = y - u.lld[y]

SameNode(t, x, u, y) ==
  /\ t.type[x] = u.type[y]
  /\ t.label[x] = u.label[y]
  /\ x - t.lld[x] = y - u.lld[y]

isomorphic(t, x, u, y) ==
  /\ descendants_count(t, x) = descendants_count(u, y)
  /\ \A k \in 0 .. descendants_count(t, x) : SameNode(t, x - k, u, y - k)

(***************************************************************************)
(* What the two stores guarantee about a tree.                             *)
(***************************************************************************)
TreeShape(t) ==
  /\ t.len \in Nat \ {0}
  /\ t.lld \in [nodes(t) -> nodes(t)]
  /\ t.parent \in [nodes(t) -> nodes(t) \cup {NoNode}]
  /\ t.height \in [nodes(t) -> Nat]
  /\ t.lld[root(t)] = 0

(* subtrees are nested or disjoint ranges *)
Laminar(t) ==
  \A x \in nodes(t) :
    /\ t.lld[x] <= x
    /\ \A y \in Subtree(t, x) : t.lld[x] <= t.lld[y]

(* the parent is the closest later node whose range holds the node *)
ParentsClosest(t) ==
  /\ t.parent[root(t)] = NoNode
  /\ \A x \in nodes(t) \ {root(t)} :
       /\ is_descendant(t, x, t.parent[x])
       /\ \A y \in nodes(t) : is_descendant(t, x, y) => t.parent[x] <= y

(***************************************************************************)
(* t.height[x] is the stored height minus one, as PriorityTreeList reads   *)
(* it.  A node counts one more than its highest child, except above        *)
(* spaces: the grammar counts them as 0 while the store answers 1 for a    *)
(* node without the component, so leaves, spaces and a node holding only   *)
(* spaces are all at 0.                                                    *)
(***************************************************************************)
HeightsLayered(t) ==
  \A x \in nodes(t) :
    IF t.height[x] = 0
    THEN \A c \in children(t, x) : t.height[c] = 0
    ELSE /\ \A c \in children(t, x) : t.height[c] < t.height[x]
         /\ \E c \in children(t, x) : t.height[c] = t.height[x] - 1

IsTree(t) ==
  TreeShape(t) /\ Laminar(t) /\ ParentsClosest(t) /\ HeightsLayered(t)
=============================================================================
