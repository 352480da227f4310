------------------------------- MODULE MCTrees -------------------------------
(***************************************************************************)
(* The trees of the bounded instances: every shape up to a number of nodes *)
(* with every choice of types, and a few larger ones chosen for the groups *)
(* of equal subtrees they hold.                                            *)
(***************************************************************************)
EXTENDS PostOrderTree, FiniteSetsExt, Sequences

(* a leaf of this type is a node of spaces, which the metrics count as 0 *)
Spaces == "sp"

(* the llds of a post-order sequence: nested or disjoint, root last *)
Shapes(n) ==
  {lld \in [0 .. n - 1 -> 0 .. n - 1] :
     /\ lld[n - 1] = 0
     /\ \A x \in 0 .. n - 1 :
          lld[x] <= x /\ \A y \in lld[x] .. x : lld[x] <= lld[y]}

(* the tree with these llds, types and labels: parents and heights follow *)
TreeOf(n, lld, type, label) ==
  LET above(x) == {y \in x + 1 .. n - 1 : lld[y] <= x}
      par == [x \in 0 .. n - 1 |-> IF x = n - 1 THEN NoNode ELSE Min(above(x))]
      \* the metric of the grammar: spaces 0, leaves 1, then one more
      metric[x \in 0 .. n - 1] ==
        LET cs == {c \in lld[x] .. x - 1 : par[c] = x}
        IN  IF type[x] = Spaces THEN 0
            ELSE IF cs = {} THEN 1
            ELSE 1 + Max({metric[c] : c \in cs})
  IN  [len |-> n, lld |-> lld, parent |-> par, type |-> type, label |-> label,
       height |-> [x \in 0 .. n - 1 |-> Max({metric[x], 1}) - 1]]

(* the same, from tuples *)
ZeroBased(seq) == [i \in 0 .. Len(seq) - 1 |-> seq[i + 1]]
Tree(lld, type, label) ==
  TreeOf(Len(lld), ZeroBased(lld), ZeroBased(type), ZeroBased(label))
Unlabelled(lld, type) == Tree(lld, type, [i \in 1 .. Len(lld) |-> NoLabel])

(* all the trees of n nodes, leaves of a type of Leaf, the rest of Inner *)
AllTrees(n, Leaf, Inner) ==
  UNION {
    {TreeOf(n, lld, type, [x \in 0 .. n - 1 |-> NoLabel]) :
       type \in {f \in [0 .. n - 1 -> Leaf \cup Inner] :
                   \A x \in 0 .. n - 1 :
                     f[x] \in (IF lld[x] = x THEN Leaf ELSE Inner)}} :
    lld \in Shapes(n)}

(* terms, as pairs of tuples: a leaf, a node over one or two terms *)
Leaf(ty) == [lld |-> <<0>>, type |-> <<ty>>]
Over(ty, u) == [lld |-> Append(u.lld, 0), type |-> Append(u.type, ty)]
Beside(u, v) ==
  [lld |-> u.lld \o [i \in 1 .. Len(v.lld) |-> v.lld[i] + Len(u.lld)],
   type |-> u.type \o v.type]
Built(u) == Unlabelled(u.lld, u.type)

(***************************************************************************)
(* isomorphic_aux as the code writes it: type, label, then the children    *)
(* one by one from the left.                                               *)
(***************************************************************************)
kid(t, x, k) ==
  CHOOSE c \in children(t, x) : Cardinality({e \in children(t, x) : e < c}) = k

isomorphic_rec(t, u) ==
  LET iso[x \in nodes(t), y \in nodes(u)] ==
        LET arity == Cardinality(children(t, x))
        IN  /\ t.type[x] = u.type[y]
            /\ t.label[x] = u.label[y]
            /\ arity = Cardinality(children(u, y))
            /\ \A k \in 0 .. arity - 1 : iso[kid(t, x, k), kid(u, y, k)]
  IN  iso

IsomorphicAgrees(S) ==
  \A t, u \in S :
    LET iso == isomorphic_rec(t, u)
    IN  \A x \in nodes(t), y \in nodes(u) : isomorphic(t, x, u, y) <=> iso[x, y]
=============================================================================
