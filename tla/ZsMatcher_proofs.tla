-------------------------- MODULE ZsMatcher_proofs --------------------------
(***************************************************************************)
(* The Zhang-Shasha matcher, for all trees and all distances of labels: it *)
(* stays inside its tables, never meets two nodes of different types to    *)
(* map, its walk back accounts for the whole distance of the trees, and no *)
(* edit mapping of the trees is cheaper than its answer.                   *)
(*                                                                         *)
(* The account rests on the forest table being a solution of its           *)
(* recursion, on that solution being unique, so that filling the table     *)
(* again for a pair of the stack finds the same costs, and on every pair   *)
(* lying inside a pair of key roots that compute_dist has done.            *)
(*                                                                         *)
(* The optimality rests on the table being a lower bound of every edit     *)
(* mapping, on what the walk maps keeping order and ancestors, and on the  *)
(* account, which says that the answer costs what the table says.          *)
(***************************************************************************)
EXTENDS ZsMatcher, PostOrderTree_proofs, SequenceTheorems

(* Products with UNIT, in the shapes that the forest table needs. *)
LEMMA Units ==
  /\ UNIT \in Nat /\ UNIT > 0 /\ UNIT * 0 = 0
  /\ \A n \in Nat : UNIT * n \in Nat /\ UNIT * (n + 1) = UNIT * n + UNIT
  /\ \A m, n \in Nat : m <= n => UNIT * m <= UNIT * n
<1>1. UNIT \in Nat /\ UNIT > 0
  BY UnitAssumption
<1>2. \A n \in Nat : UNIT * n \in Nat /\ UNIT * (n + 1) = UNIT * n + UNIT
  BY <1>1
<1>3. ASSUME NEW m \in Nat, NEW n \in Nat, m <= n PROVE UNIT * m <= UNIT * n
  <2>1. PICK d \in Nat : n = m + d
    <3>1. n - m \in Nat /\ n = m + (n - m)
      BY <1>3
    <3> QED
      BY <3>1
  <2>2. UNIT * n = UNIT * m + UNIT * d /\ UNIT * d \in Nat /\ UNIT * m \in Nat
    BY <1>1, <1>2, <2>1
  <2> QED
    BY <2>2
<1> QED
  BY <1>1, <1>2, <1>3

(* The least of three numbers. *)
LEMMA MinOfThree ==
  ASSUME NEW a \in Nat, NEW b \in Nat, NEW d \in Nat
  PROVE  LET m == Min({a, b, d}) IN
         m \in Nat /\ m <= a /\ m <= b /\ m <= d /\ (m = a \/ m = b \/ m = d)
<1>1. \E m \in {a, b, d} : \A n \in {a, b, d} : m <= n
  OBVIOUS
<1>2. Min({a, b, d}) \in {a, b, d} /\ \A n \in {a, b, d} : Min({a, b, d}) <= n
  BY <1>1 DEF Min
<1> QED
  BY <1>2

(***************************************************************************)
(* A row that is filled from the left, each cell from the one before it.   *)
(***************************************************************************)
RowOf(f, l, h, base, G) ==
  \A k \in l .. h : f[k] = IF k = l THEN base ELSE G[<<k, f[k - 1]>>]

(* Such a row exists. *)
LEMMA RowExists ==
  ASSUME NEW l \in Nat, NEW h \in Nat, NEW base \in Nat,
         NEW G \in [(l .. h) \X Nat -> Nat]
  PROVE  \E f \in [l .. h -> Nat] : RowOf(f, l, h, base, G)
<1> DEFINE Upto(f, n) == \A k \in l .. h : k <= n =>
                            f[k] = IF k = l THEN base ELSE G[<<k, f[k - 1]>>]
           P(n) == \E f \in [l .. h -> Nat] : Upto(f, n)
           bad == {n \in Nat : ~P(n)}
<1>1. ASSUME bad # {} PROVE FALSE
  <2>1. PICK n \in bad : \A m \in bad : n <= m
    BY <1>1, NatMinExists
  <2>2. n \in Nat /\ ~P(n)
    BY <2>1
  <2>3. CASE n <= l
    <3> DEFINE f == [k \in l .. h |-> base]
    <3>1. f \in [l .. h -> Nat]
      OBVIOUS
    <3>2. Upto(f, n)
      BY <2>2, <2>3
    <3> QED
      BY <2>2, <3>1, <3>2
  <2>4. CASE n > l
    <3> DEFINE p == n - 1
    <3>1. p \in Nat /\ p < n /\ p >= l /\ n = p + 1
      BY <2>2, <2>4
    <3> HIDE DEF p, P
    <3>2. P(p)
      BY <2>1, <3>1
    <3> USE DEF P
    <3>3. PICK g \in [l .. h -> Nat] : Upto(g, p)
      BY <3>2
    <3> DEFINE f == [k \in l .. h |-> IF k = n THEN G[<<n, g[p]>>] ELSE g[k]]
    <3>4. f \in [l .. h -> Nat]
      <4>1. n \in l .. h => p \in l .. h
        BY <3>1
      <4> QED
        BY <3>3, <4>1
    <3>5. ASSUME NEW k \in l .. h, k <= n
          PROVE  f[k] = IF k = l THEN base ELSE G[<<k, f[k - 1]>>]
      <4>1. CASE k = n
        <5>1. p \in l .. h /\ k - 1 = p /\ p # n /\ k # l
          BY <2>2, <2>4, <3>1, <4>1
        <5>2. f[p] = g[p] /\ f[k] = G[<<n, g[p]>>]
          BY <4>1, <5>1
        <5> HIDE DEF f
        <5> QED
          BY <4>1, <5>1, <5>2
      <4>2. CASE k # n
        <5>1. k <= p
          BY <3>1, <3>5, <4>2
        <5>2. f[k] = g[k] /\ g[k] = IF k = l THEN base ELSE G[<<k, g[k - 1]>>]
          BY <3>3, <4>2, <5>1
        <5>3. k # l => k - 1 \in l .. h /\ k - 1 # n
          BY <2>2, <3>5
        <5>4. k # l => f[k - 1] = g[k - 1]
          BY <5>3
        <5> HIDE DEF f
        <5> QED
          BY <5>2, <5>4
      <4> QED
        BY <4>1, <4>2
    <3> HIDE DEF f
    <3> QED
      BY <2>2, <3>4, <3>5
  <2> QED
    BY <2>2, <2>3, <2>4
<1>2. P(h)
  BY <1>1
<1>3. PICK f \in [l .. h -> Nat] : Upto(f, h)
  BY <1>2
<1>4. ASSUME NEW k \in l .. h PROVE k <= h
  OBVIOUS
<1>5. RowOf(f, l, h, base, G)
  BY <1>3, <1>4 DEF RowOf
<1> QED
  BY <1>5
-----------------------------------------------------------------------------
(* A pair of subtrees on the stack: the positions after their roots. *)
Ends == (1 .. src.len) \X (1 .. dst.len)
NodePairs == nodes(src) \X nodes(dst)
roots == <<root(src), root(dst)>>

Typed ==
  /\ src \in Trees /\ dst \in Trees
  /\ tree \in [Cells -> Nat] /\ forest \in [Cells -> Nat]
  /\ pc \in {"dist", "rows", "pop", "walk", "done"}
  /\ kr_pairs \in Seq(NodePairs)
  /\ pair \in NodePairs /\ di \in 0 .. src.len
  /\ root_node_pair \in BOOLEAN
  /\ tree_pairs \in Seq(Ends)
  /\ row \in 0 .. src.len /\ col \in 0 .. dst.len
  /\ mappings \in Stores(src.len + 1, dst.len + 1)

(***************************************************************************)
(* The rows of the forest table up to r: the first row and the first       *)
(* column count the nodes of the forests, every other cell is the least of *)
(* its three ways, and no cell costs more than deleting and inserting all. *)
(***************************************************************************)
Cell(x, c) ==
  \/ forest[<<x + 1, c>>] = forest[<<x, c>>] + UNIT
  \/ forest[<<x + 1, c>>] = forest[<<x + 1, c - 1>>] + UNIT
  \/ whole_trees(x, c - 1) =>
       forest[<<x + 1, c>>] = forest[<<x, c - 1>>] + get_update_cost(src, x, dst, c - 1)

Filled(r) ==
  /\ \A c \in cols : forest[<<first_row, c>>] = UNIT * (c - first_col)
  /\ \A x \in first_row .. r - 1 :
       /\ forest[<<x + 1, first_col>>] = forest[<<x, first_col>>] + UNIT
       /\ \A c \in cols \ {first_col} : Cell(x, c)
  /\ \A x \in first_row .. r, c \in cols :
       forest[<<x, c>>] <= UNIT * ((x - first_row) + (c - first_col))

(* The bounds of the table, and what its cells and the costs are. *)
LEMMA TableFacts ==
  ASSUME Typed
  PROVE  /\ IsTree(src) /\ IsTree(dst)
         /\ src.len \in Nat /\ src.len > 0 /\ dst.len \in Nat /\ dst.len > 0
         /\ nodes(src) = 0 .. src.len - 1 /\ nodes(dst) = 0 .. dst.len - 1
         /\ root(src) \in nodes(src) /\ root(dst) \in nodes(dst)
         /\ pair[1] \in nodes(src) /\ pair[2] \in nodes(dst)
         /\ pair[1] \in Nat /\ pair[2] \in Nat
         /\ pair[1] + 1 <= src.len /\ pair[2] + 1 <= dst.len
         /\ first_row \in Nat /\ first_row <= pair[1]
         /\ first_col \in Nat /\ first_col <= pair[2]
         /\ DOMAIN forest = Cells /\ DOMAIN tree = Cells
<1>1. IsTree(src) /\ IsTree(dst)
  BY TreesAssumption DEF Typed
<1>2. src.len \in Nat /\ src.len > 0 /\ dst.len \in Nat /\ dst.len > 0
  BY <1>1 DEF IsTree, TreeShape
<1>3. nodes(src) = 0 .. src.len - 1 /\ nodes(dst) = 0 .. dst.len - 1
  BY DEF nodes, root
<1>4. root(src) \in nodes(src) /\ root(dst) \in nodes(dst)
  BY <1>1, RootIsNode
<1>5. pair[1] \in nodes(src) /\ pair[2] \in nodes(dst)
  BY DEF Typed, NodePairs
<1>6. /\ first_row \in Nat /\ first_row <= pair[1]
      /\ first_col \in Nat /\ first_col <= pair[2]
  BY <1>1, <1>5, NodeTypes DEF first_row, first_col
<1>7. /\ pair[1] \in Nat /\ pair[2] \in Nat
      /\ pair[1] + 1 <= src.len /\ pair[2] + 1 <= dst.len
  BY <1>2, <1>3, <1>5
<1>8. DOMAIN forest = Cells /\ DOMAIN tree = Cells
  BY DEF Typed
<1> QED
  BY <1>1, <1>2, <1>3, <1>4, <1>5, <1>6, <1>7, <1>8

LEMMA UpdateCosts ==
  ASSUME Typed, NEW x \in nodes(src), NEW y \in nodes(dst)
  PROVE  /\ get_update_cost(src, x, dst, y) \in Nat
         /\ src.type[x] # dst.type[y] =>
              get_update_cost(src, x, dst, y) = UNIT * (src.len + dst.len + 1)
<1>1. src \in Trees /\ dst \in Trees
  BY DEF Typed
<1>2. LabelDist(src.label[x], dst.label[y]) \in Nat
  BY <1>1, DistAssumption
<1>3. src.len + dst.len + 1 \in Nat
  <2>1. src.len \in Nat /\ dst.len \in Nat
    BY TableFacts
  <2> QED
    BY <2>1
<1>4. UNIT * (src.len + dst.len + 1) \in Nat /\ UNIT \in Nat
  BY <1>3, Units
<1> QED
  BY <1>2, <1>4 DEF get_update_cost, Forbidden

(* A cell of the table costs a natural number. *)
LEMMA CellTyped ==
  ASSUME Typed, NEW r \in 0 .. src.len, NEW c \in 0 .. dst.len
  PROVE  forest[<<r, c>>] \in Nat /\ tree[<<r, c>>] \in Nat
<1>1. <<r, c>> \in Cells
  BY DEF Cells
<1> QED
  BY <1>1 DEF Typed

LEMMA KeepLastTyped ==
  ASSUME Typed, NEW x \in nodes(src), NEW y \in nodes(dst)
  PROVE  keep_last(x, y) \in Nat
<1>1. /\ IsTree(src) /\ IsTree(dst)
      /\ src.len \in Nat /\ nodes(src) = 0 .. src.len - 1
      /\ dst.len \in Nat /\ nodes(dst) = 0 .. dst.len - 1
  BY TableFacts
<1>2. /\ x \in 0 .. src.len /\ x + 1 \in 0 .. src.len
      /\ y \in 0 .. dst.len /\ y + 1 \in 0 .. dst.len
  BY <1>1
<1>3. src.lld[x] \in nodes(src) /\ dst.lld[y] \in nodes(dst)
  BY <1>1, NodeTypes
<1>4. src.lld[x] \in 0 .. src.len /\ dst.lld[y] \in 0 .. dst.len
  BY <1>1, <1>3
<1>5. /\ forest[<<x, y>>] \in Nat /\ tree[<<x + 1, y + 1>>] \in Nat
      /\ forest[<<src.lld[x], dst.lld[y]>>] \in Nat
  BY <1>2, <1>4, CellTyped
<1>6. get_update_cost(src, x, dst, y) \in Nat
  BY UpdateCosts
<1> HIDE DEF Typed
<1> QED
  BY <1>5, <1>6 DEF keep_last

(* The next row has a natural number in every column: the least of the *)
(* three ways, so one of them.                                         *)
LEMMA NextRow ==
  ASSUME Typed, NEW x \in nodes(src)
  PROVE  LET f == next_row(x) IN
         /\ \A c \in cols : f[c] \in Nat /\ f[c] <= forest[<<x, c>>] + UNIT
         /\ f[first_col] = forest[<<x, first_col>>] + UNIT
         /\ \A c \in cols \ {first_col} :
              f[c] = Min({forest[<<x, c>>] + UNIT, f[c - 1] + UNIT, keep_last(x, c - 1)})
         /\ \A c \in cols \ {first_col} :
              \/ f[c] = forest[<<x, c>>] + UNIT
              \/ f[c] = f[c - 1] + UNIT
              \/ whole_trees(x, c - 1) =>
                   f[c] = forest[<<x, c - 1>>] + get_update_cost(src, x, dst, c - 1)
<1> DEFINE l == first_col
           h == pair[2] + 1
           way(c, n) == Min({forest[<<x, c>>] + UNIT, n + UNIT, keep_last(x, c - 1)})
           F(g) == g = [c \in l .. h |-> IF c = l THEN forest[<<x, c>>] + UNIT
                                         ELSE Min({forest[<<x, c>>] + UNIT, g[c - 1] + UNIT,
                                                   keep_last(x, c - 1)})]
           base == forest[<<x, l>>] + UNIT
           G == [p \in (l .. h) \X Nat |-> IF p[1] = l THEN 0 ELSE way(p[1], p[2])]
           cell == CHOOSE g : F(g)
<1>1. /\ l \in Nat /\ h \in Nat /\ l < h /\ h <= dst.len /\ dst.len \in Nat
      /\ x \in 0 .. src.len /\ nodes(dst) = 0 .. dst.len - 1 /\ cols = l .. h
      /\ UNIT \in Nat
  <2>1. /\ l \in Nat /\ pair[2] \in Nat /\ l <= pair[2] /\ pair[2] + 1 <= dst.len
        /\ dst.len \in Nat /\ src.len \in Nat /\ x \in 0 .. src.len - 1
        /\ nodes(dst) = 0 .. dst.len - 1
    BY TableFacts
  <2>2. cols = l .. h
    BY DEF cols
  <2> HIDE DEF l
  <2> QED
    BY <2>1, <2>2, Units
<1>2. next_row(x) = [c \in l .. h |-> cell[c]]
  BY DEF next_row, cols
<1> HIDE DEF l, h
<1>3. ASSUME NEW c \in l .. h
      PROVE  /\ forest[<<x, c>>] + UNIT \in Nat
             /\ c # l => keep_last(x, c - 1) \in Nat /\ c - 1 \in l .. h
  <2>1. c \in 0 .. dst.len /\ (c # l => c - 1 \in nodes(dst) /\ c - 1 \in l .. h)
    BY <1>1
  <2>2. forest[<<x, c>>] \in Nat
    BY <1>1, <2>1, CellTyped
  <2>3. c # l => keep_last(x, c - 1) \in Nat
    BY <2>1, KeepLastTyped
  <2> QED
    BY <1>1, <2>1, <2>2, <2>3
<1>4. ASSUME NEW c \in l .. h, c # l, NEW n \in Nat
      PROVE  /\ way(c, n) \in Nat /\ way(c, n) <= forest[<<x, c>>] + UNIT
             /\ \/ way(c, n) = forest[<<x, c>>] + UNIT
                \/ way(c, n) = n + UNIT
                \/ way(c, n) = keep_last(x, c - 1)
  <2>1. forest[<<x, c>>] + UNIT \in Nat /\ n + UNIT \in Nat /\ keep_last(x, c - 1) \in Nat
    BY <1>1, <1>3, <1>4
  <2> QED
    BY <2>1, MinOfThree
<1> HIDE DEF way
<1>5. base \in Nat /\ l \in l .. h
  <2>1. l \in l .. h
    BY <1>1
  <2> QED
    BY <1>3, <2>1
<1>6. G \in [(l .. h) \X Nat -> Nat]
  <2>1. ASSUME NEW p \in (l .. h) \X Nat
        PROVE  (IF p[1] = l THEN 0 ELSE way(p[1], p[2])) \in Nat
    <3>1. p[1] \in l .. h /\ p[2] \in Nat
      OBVIOUS
    <3> QED
      BY <1>4, <3>1
  <2> QED
    BY <2>1
<1> HIDE DEF base, G
<1>7. PICK f \in [l .. h -> Nat] :
        \A k \in l .. h : f[k] = IF k = l THEN base ELSE G[<<k, f[k - 1]>>]
  <2>1. \E f \in [l .. h -> Nat] : RowOf(f, l, h, base, G)
    BY <1>1, <1>5, <1>6, RowExists
  <2> QED
    BY <2>1 DEF RowOf
<1>8. ASSUME NEW k \in l .. h, k # l
      PROVE  f[k - 1] \in Nat /\ f[k] = way(k, f[k - 1])
  <2>1. k - 1 \in l .. h
    BY <1>3, <1>8
  <2>2. f[k - 1] \in Nat
    BY <1>7, <2>1
  <2>3. <<k, f[k - 1]>> \in (l .. h) \X Nat
    BY <2>2
  <2>4. G[<<k, f[k - 1]>>] = way(k, f[k - 1])
    BY <1>8, <2>3 DEF G
  <2> QED
    BY <1>7, <1>8, <2>2, <2>4
<1>9. f[l] = forest[<<x, l>>] + UNIT
  BY <1>5, <1>7 DEF base
<1>10. F(f)
  <2>1. \A k \in l .. h : f[k] = IF k = l THEN forest[<<x, k>>] + UNIT
                                 ELSE Min({forest[<<x, k>>] + UNIT, f[k - 1] + UNIT,
                                           keep_last(x, k - 1)})
    BY <1>8, <1>9 DEF way
  <2>2. f = [k \in l .. h |-> f[k]]
    BY <1>7
  <2> QED
    BY <2>1, <2>2
<1>11. F(cell)
  <2> HIDE DEF F
  <2> QED
    BY <1>10
<1> DEFINE step(g, c) == IF c = l THEN forest[<<x, c>>] + UNIT
                         ELSE Min({forest[<<x, c>>] + UNIT, g[c - 1] + UNIT, keep_last(x, c - 1)})
<1>12. \A c \in l .. h : cell[c] = step(cell, c)
  BY <1>11
<1> HIDE DEF cell, F
<1>13. \A c \in l .. h : cell[c] = IF c = l THEN forest[<<x, l>>] + UNIT ELSE way(c, cell[c - 1])
  BY <1>12 DEF way
<1> HIDE DEF step
<1> DEFINE bad == {c \in l .. h : cell[c] # f[c]}
<1>14. ASSUME bad # {} PROVE FALSE
  <2>1. bad \subseteq Nat
    BY <1>1
  <2>2. PICK c \in bad : \A e \in bad : c <= e
    BY <1>14, <2>1, NatMinExists
  <2>3. c \in l .. h /\ cell[c] # f[c] /\ c \in Nat
    BY <2>1, <2>2
  <2>4. c # l
    BY <1>9, <1>13, <2>3
  <2>5. c - 1 \in l .. h /\ c - 1 < c /\ c - 1 \in Int
    <3>1. c - 1 \in l .. h
      BY <1>3, <2>3, <2>4
    <3> QED
      BY <2>3, <3>1
  <2>6. c - 1 \notin bad
    BY <2>2, <2>3, <2>5
  <2>7. cell[c - 1] = f[c - 1]
    BY <2>5, <2>6
  <2> QED
    BY <1>8, <1>13, <2>3, <2>4, <2>7
<1>15. \A c \in l .. h : next_row(x)[c] = f[c]
  BY <1>2, <1>14
<1>16. ASSUME NEW c \in l .. h
       PROVE  next_row(x)[c] \in Nat /\ next_row(x)[c] <= forest[<<x, c>>] + UNIT
  <2>1. CASE c = l
    BY <1>3, <1>9, <1>15, <2>1
  <2>2. CASE c # l
    BY <1>4, <1>8, <1>15, <2>2
  <2> QED
    BY <2>1, <2>2
<1>17. ASSUME NEW c \in l .. h, c # l
       PROVE  \/ next_row(x)[c] = forest[<<x, c>>] + UNIT
              \/ next_row(x)[c] = next_row(x)[c - 1] + UNIT
              \/ whole_trees(x, c - 1) =>
                   next_row(x)[c] = forest[<<x, c - 1>>] + get_update_cost(src, x, dst, c - 1)
  <2>1. c - 1 \in l .. h
    BY <1>3, <1>17
  <2>2. next_row(x)[c] = way(c, f[c - 1]) /\ f[c - 1] \in Nat /\ next_row(x)[c - 1] = f[c - 1]
    BY <1>8, <1>15, <1>17, <2>1
  <2>3. whole_trees(x, c - 1) =>
          keep_last(x, c - 1) = forest[<<x, c - 1>>] + get_update_cost(src, x, dst, c - 1)
    BY DEF keep_last
  <2>4. \/ way(c, f[c - 1]) = forest[<<x, c>>] + UNIT
        \/ way(c, f[c - 1]) = f[c - 1] + UNIT
        \/ way(c, f[c - 1]) = keep_last(x, c - 1)
    BY <1>4, <1>17, <2>2
  <2> QED
    BY <2>2, <2>3, <2>4
<1>18. next_row(x)[l] = forest[<<x, l>>] + UNIT
  BY <1>5, <1>9, <1>15
<1>19. ASSUME NEW c \in l .. h, c # l
       PROVE  next_row(x)[c] =
                Min({forest[<<x, c>>] + UNIT, next_row(x)[c - 1] + UNIT, keep_last(x, c - 1)})
  <2>1. c - 1 \in l .. h
    BY <1>3, <1>19
  <2>2. next_row(x)[c] = way(c, f[c - 1]) /\ next_row(x)[c - 1] = f[c - 1]
    BY <1>8, <1>15, <1>19, <2>1
  <2> QED
    BY <2>2, Zenon DEF way
<1> QED
  BY <1>1, <1>16, <1>17, <1>18, <1>19 DEF l
-----------------------------------------------------------------------------
(***************************************************************************)
(* The rows filled so far are right while the table is filled and walked,  *)
(* the walk stays inside the forests of its pair, and compute_dist leaves  *)
(* the table of the roots to the first walk.                               *)
(***************************************************************************)
Table ==
  /\ pc = "rows" => di \in first_row .. pair[1] + 1 /\ Filled(di)
  /\ pc = "walk" => /\ di = pair[1] + 1 /\ Filled(di)
                    /\ row \in first_row .. di /\ col \in cols
  /\ root_node_pair /\ pc \in {"dist", "pop"} /\ kr_pairs = <<>> =>
       di = pair[1] + 1 /\ Filled(di)

Turns ==
  /\ pc = "dist" => root_node_pair
  /\ pc \in {"walk", "done"} => ~root_node_pair
  /\ root_node_pair =>
       /\ pc = "pop" => kr_pairs = <<>> /\ tree_pairs = <<<<src.len, dst.len>>>>
       /\ kr_pairs = <<>> => pair = roots
       /\ kr_pairs # <<>> => Last(kr_pairs) = roots
  /\ ~root_node_pair /\ pc = "rows" => row = pair[1] + 1 /\ col = pair[2] + 1

Inv == Typed /\ Table /\ Turns

(* The first element and the others, the last one and the others. *)
LEMMA EndsOfSeq ==
  ASSUME NEW S, NEW s \in Seq(S), s # <<>>
  PROVE  /\ Head(s) \in S /\ Last(s) \in S
         /\ Tail(s) \in Seq(S) /\ Front(s) \in Seq(S)
         /\ Tail(s) = <<>> => Last(s) = Head(s)
         /\ Tail(s) # <<>> => Last(Tail(s)) = Last(s)
<1> DEFINE n == Len(s)
<1>1. /\ n \in Nat /\ n > 0 /\ \A i \in 1 .. n : s[i] \in S
      /\ s = [i \in 1 .. n |-> s[i]]
  <2>1. n \in Nat /\ n > 0
    BY LenProperties, EmptySeq
  <2>2. \A i \in 1 .. n : s[i] \in S
    BY ElementOfSeq
  <2> QED
    BY <2>1, <2>2, LenProperties
<1>2. /\ Head(s) = s[1] /\ Tail(s) \in Seq(S) /\ Len(Tail(s)) = n - 1
      /\ \A i \in 1 .. n - 1 : Tail(s)[i] = s[i + 1]
  BY <1>1, HeadTailProperties
<1>3. Last(s) = s[n] /\ Front(s) = SubSeq(s, 1, n - 1)
  BY DEF Last, Front
<1> HIDE DEF n
<1>4. Head(s) \in S /\ Last(s) \in S
  BY <1>1, <1>2, <1>3
<1>5. Front(s) \in Seq(S)
  <2> DEFINE h == n - 1
  <2>1. h \in Nat /\ h <= n
    BY <1>1
  <2>2. \A i \in 1 .. h : s[i] \in S
    BY <1>1, <2>1
  <2>3. SubSeq(s, 1, h) = [i \in 1 .. h |-> s[i]]
    BY <2>1
  <2> QED
    BY <1>3, <2>1, <2>2, <2>3
<1>6. ASSUME Tail(s) = <<>> PROVE Last(s) = Head(s)
  <2>1. n - 1 = 0
    BY <1>2, <1>6
  <2>2. n = 1
    BY <1>1, <2>1
  <2> QED
    BY <1>2, <1>3, <2>2
<1>7. ASSUME Tail(s) # <<>> PROVE Last(Tail(s)) = Last(s)
  <2>1. Len(Tail(s)) \in Nat /\ Len(Tail(s)) > 0
    BY <1>2, <1>7, LenProperties, EmptySeq
  <2>2. n - 1 \in 1 .. n - 1 /\ (n - 1) + 1 = n
    BY <1>1, <1>2, <2>1
  <2>3. Tail(s)[n - 1] = s[n]
    BY <1>2, <2>2
  <2>4. Last(Tail(s)) = Tail(s)[n - 1]
    BY <1>2 DEF Last
  <2> QED
    BY <1>3, <2>3, <2>4
<1> QED
  BY <1>2, <1>4, <1>5, <1>6, <1>7

(* compute_dist takes the pairs of key roots by their first, then by their *)
(* second node; it takes them all, each once, and ends with the roots.     *)
KeyRoots == kr(src) \X kr(dst)
earlier(p, q) == p[1] < q[1] \/ (p[1] = q[1] /\ p[2] < q[2])

Ascending(s) == \A i, j \in 1 .. Len(s) : i < j => earlier(s[i], s[j])

LEMMA KeyRootPairs ==
  ASSUME IsTree(src), IsTree(dst)
  PROVE  /\ kr_pairs_in_order \in Seq(NodePairs) /\ kr_pairs_in_order # <<>>
         /\ Last(kr_pairs_in_order) = roots
         /\ Ascending(kr_pairs_in_order) /\ Range(kr_pairs_in_order) = KeyRoots
<1> DEFINE S == KeyRoots
           R == {pq \in S \X S : earlier(pq[1], pq[2])}
           below(p) == {q \in S : <<q, p>> \in R}
           place == [p \in S |-> Cardinality(below(p)) + 1]
           n == Cardinality(S)
           nth(k) == CHOOSE p \in S : Cardinality({q \in S : earlier(q, p)}) = k - 1
<1>1. ASSUME NEW t, IsTree(t)
      PROVE  /\ kr(t) \subseteq nodes(t) /\ root(t) \in kr(t) /\ IsFiniteSet(kr(t))
             /\ \A x \in kr(t) : x \in Nat /\ x <= root(t)
  <2>1. root(t) \in nodes(t) /\ root(t) \in Nat /\ nodes(t) = 0 .. root(t)
    BY <1>1, RootIsNode, NodeTypes DEF nodes
  <2>2. kr(t) \subseteq 0 .. root(t) /\ root(t) \in kr(t)
    BY <2>1 DEF kr
  <2>3. IsFiniteSet(0 .. root(t))
    BY <2>1, FS_Interval
  <2>4. IsFiniteSet(kr(t))
    BY <2>2, <2>3, FS_Subset
  <2>5. \A x \in kr(t) : x \in Nat /\ x <= root(t)
    BY <2>1, <2>2
  <2> QED
    BY <2>1, <2>2, <2>4, <2>5
<1>2. S \subseteq NodePairs /\ roots \in S
  BY <1>1 DEF NodePairs, roots, KeyRoots
<1>3. IsFiniteSet(S)
  BY <1>1, FS_Product DEF KeyRoots
<1>4. \A p \in S : /\ p[1] \in Nat /\ p[2] \in Nat /\ p = <<p[1], p[2]>>
                   /\ p[1] <= root(src) /\ p[2] <= root(dst)
  BY <1>1 DEF KeyRoots
<1> HIDE DEF S
<1>5. \A p, q \in S : <<p, q>> \in R <=> earlier(p, q)
  OBVIOUS
<1>6. Order(S, R)
  <2>1. \A p \in S : <<p, p>> \notin R
    BY <1>4, <1>5 DEF earlier
  <2>2. ASSUME NEW p \in S, NEW q \in S, p # q
        PROVE  <<p, q>> \in R \/ <<q, p>> \in R
    <3>1. p[1] # q[1] \/ p[2] # q[2]
      BY <1>4, <2>2
    <3>2. earlier(p, q) \/ earlier(q, p)
      BY <1>4, <3>1 DEF earlier
    <3> QED
      BY <1>5, <3>2
  <2>3. ASSUME NEW p \in S, NEW q \in S, NEW r \in S, <<p, q>> \in R, <<q, r>> \in R
        PROVE  <<p, r>> \in R
    <3>1. earlier(p, q) /\ earlier(q, r)
      BY <1>5, <2>3
    <3>2. earlier(p, r)
      BY <1>4, <3>1 DEF earlier
    <3> QED
      BY <1>5, <3>2
  <2> HIDE DEF R
  <2> QED
    BY <2>1, <2>2, <2>3 DEF Order
<1>7. \A p \in S : below(p) = {q \in S : earlier(q, p)}
  BY <1>5
<1>8. \A p \in S : p # roots => <<p, roots>> \in R
  <2> SUFFICES ASSUME NEW p \in S, p # roots PROVE <<p, roots>> \in R
    OBVIOUS
  <2>1. /\ roots[1] = root(src) /\ roots[2] = root(dst)
        /\ p[1] # root(src) \/ p[2] # root(dst)
    BY <1>4 DEF roots
  <2>2. earlier(p, roots)
    BY <1>2, <1>4, <2>1 DEF earlier
  <2> QED
    BY <1>2, <1>5, <2>2
<1>9. kr_pairs_in_order = [k \in 1 .. n |-> nth(k)]
  BY DEF kr_pairs_in_order, S, KeyRoots, earlier
<1> HIDE DEF R, below
<1>10. place = [p \in S |-> Cardinality({q \in S : <<q, p>> \in R}) + 1]
  BY DEF below
<1> HIDE DEF place
<1>11. /\ place \in [S -> 1 .. n]
       /\ \A p, q \in S : <<p, q>> \in R => place[p] < place[q]
       /\ \A p, q \in S : place[p] = place[q] => p = q
       /\ \A k \in 1 .. n : \E p \in S : place[p] = k
  BY <1>3, <1>6, <1>10, Placed
<1>12. n \in Nat /\ n > 0
  <2>1. n \in Nat
    BY <1>3, FS_CardinalityType
  <2>2. place[roots] \in 1 .. n
    BY <1>2, <1>11
  <2> HIDE DEF n
  <2> QED
    BY <2>1, <2>2
<1> HIDE DEF n
<1>13. ASSUME NEW k \in 1 .. n
       PROVE  nth(k) \in S /\ place[nth(k)] = k
  <2>1. \A p \in S : /\ Cardinality({q \in S : earlier(q, p)}) \in Int
                     /\ place[p] = Cardinality({q \in S : earlier(q, p)}) + 1
    <3> SUFFICES ASSUME NEW p \in S
                 PROVE  /\ Cardinality({q \in S : earlier(q, p)}) \in Int
                        /\ place[p] = Cardinality({q \in S : earlier(q, p)}) + 1
      OBVIOUS
    <3>1. place[p] = Cardinality(below(p)) + 1
      BY DEF place
    <3>2. below(p) \in SUBSET S
      BY DEF below
    <3>3. IsFiniteSet(below(p))
      BY <1>3, <3>2, FS_Subset
    <3>4. Cardinality(below(p)) \in Nat
      BY <3>3, FS_CardinalityType
    <3> QED
      BY <1>7, <3>1, <3>4
  <2>2. PICK p \in S : place[p] = k
    BY <1>11
  <2>3. Cardinality({q \in S : earlier(q, p)}) = k - 1
    BY <2>1, <2>2
  <2>4. nth(k) \in S /\ Cardinality({q \in S : earlier(q, nth(k))}) = k - 1
    BY <2>2, <2>3
  <2> HIDE DEF nth
  <2> QED
    BY <2>1, <2>4
<1> HIDE DEF nth
<1>14. nth(n) = roots
  <2>1. n \in 1 .. n
    BY <1>12
  <2>2. nth(n) \in S /\ place[nth(n)] = n
    BY <1>13, <2>1
  <2>3. place[roots] \in 1 .. n
    BY <1>2, <1>11
  <2> SUFFICES ASSUME nth(n) # roots PROVE FALSE
    OBVIOUS
  <2>4. place[nth(n)] < place[roots]
    BY <1>2, <1>8, <1>11, <2>2
  <2> QED
    BY <1>12, <2>2, <2>3, <2>4
<1> DEFINE s == kr_pairs_in_order
<1>15. s = [k \in 1 .. n |-> nth(k)] /\ \A k \in 1 .. n : nth(k) \in NodePairs
  BY <1>2, <1>9, <1>13
<1> HIDE DEF s
<1>16. s \in Seq(NodePairs) /\ Len(s) = n
  BY <1>12, <1>15
<1>17. s # <<>> /\ Last(s) = s[n]
  BY <1>12, <1>16 DEF Last
<1>18. s[n] = nth(n)
  <2>1. n \in 1 .. n
    BY <1>12
  <2> QED
    BY <1>15, <2>1
<1>19. Ascending(s)
  <2> SUFFICES ASSUME NEW i \in 1 .. n, NEW j \in 1 .. n, i < j PROVE earlier(s[i], s[j])
    BY <1>16 DEF Ascending
  <2>1. /\ nth(i) \in S /\ place[nth(i)] = i /\ s[i] = nth(i)
        /\ nth(j) \in S /\ place[nth(j)] = j /\ s[j] = nth(j)
    BY <1>13, <1>15
  <2> DEFINE p == nth(i)
             q == nth(j)
  <2>2. p \in S /\ place[p] = i /\ q \in S /\ place[q] = j
    BY <2>1
  <2> HIDE DEF p, q
  <2>3. p # q /\ ~(j < i)
    BY <1>12, <2>2
  <2>4. <<p, q>> \in R \/ <<q, p>> \in R
    BY <1>6, <2>2, <2>3 DEF Order
  <2>5. <<q, p>> \in R => j < i
    BY <1>11, <2>2
  <2>6. earlier(p, q)
    BY <1>5, <2>2, <2>3, <2>4, <2>5
  <2> QED
    BY <2>1, <2>6 DEF p, q
<1>20. Range(s) = S
  <2>1. Range(s) = {s[k] : k \in 1 .. n}
    BY <1>15 DEF Range
  <2>2. \A k \in 1 .. n : s[k] \in S
    BY <1>13, <1>15
  <2>3. ASSUME NEW p \in S PROVE \E k \in 1 .. n : s[k] = p
    <3>1. place[p] \in 1 .. n
      BY <1>11
    <3>2. nth(place[p]) \in S /\ place[nth(place[p])] = place[p]
      BY <1>13, <3>1
    <3>3. nth(place[p]) = p
      BY <1>11, <3>2
    <3> QED
      BY <1>15, <3>1, <3>3
  <2> QED
    BY <2>1, <2>2, <2>3
<1> QED
  BY <1>14, <1>16, <1>17, <1>18, <1>19, <1>20 DEF s, S
-----------------------------------------------------------------------------
LEMMA InvInit == Init => Inv
<1> SUFFICES ASSUME Init PROVE Inv
  OBVIOUS
<1>1. IsTree(src) /\ IsTree(dst) /\ src \in Trees /\ dst \in Trees
  BY TreesAssumption DEF Init
<1>2. /\ src.len \in Nat /\ src.len > 0 /\ dst.len \in Nat /\ dst.len > 0
      /\ root(src) \in nodes(src) /\ root(dst) \in nodes(dst)
  BY <1>1, RootIsNode DEF IsTree, TreeShape
<1>3. /\ kr_pairs \in Seq(NodePairs) /\ kr_pairs # <<>> /\ Last(kr_pairs) = roots
      /\ pair = roots /\ roots \in NodePairs
  <2>1. /\ kr_pairs = kr_pairs_in_order /\ pair = roots
    BY DEF Init, roots
  <2>2. roots \in NodePairs
    BY <1>2 DEF NodePairs, roots
  <2> QED
    BY <1>1, <2>1, <2>2, KeyRootPairs
<1>4. tree \in [Cells -> Nat] /\ forest \in [Cells -> Nat]
  BY DEF Init, Cells
<1>5. mappings \in Stores(src.len + 1, dst.len + 1)
  BY <1>2 DEF Init, topit, Stores
<1>6. Typed
  <2>1. /\ pc = "dist" /\ di = 0 /\ root_node_pair = TRUE /\ tree_pairs = <<>>
        /\ row = src.len /\ col = dst.len
    BY DEF Init
  <2> QED
    BY <1>1, <1>2, <1>3, <1>4, <1>5, <2>1 DEF Typed
<1>7. Table /\ Turns
  BY <1>3 DEF Init, Table, Turns
<1> QED
  BY <1>6, <1>7 DEF Inv

(* What does not touch the pair and its table leaves its rows right. *)
LEMMA FilledKept ==
  ASSUME UNCHANGED <<src, dst, pair, forest>>
  PROVE  /\ first_row' = first_row /\ first_col' = first_col /\ cols' = cols
         /\ \A r : Filled(r) => Filled(r)'
<1>1. first_row' = first_row /\ first_col' = first_col /\ cols' = cols
  BY DEF first_row, first_col, cols
<1>2. ASSUME NEW r, Filled(r) PROVE Filled(r)'
  <2>1. \A x, c : Cell(x, c) => Cell(x, c)'
    BY <1>1 DEF Cell, whole_trees
  <2> QED
    BY <1>1, <1>2, <2>1 DEF Filled
<1> QED
  BY <1>1, <1>2

(* The row of no node at all is the only one of a new table. *)
LEMMA StartFacts ==
  ASSUME Typed, NEW p \in NodePairs, StartForest(p), UNCHANGED arenas
  PROVE  /\ forest' \in [Cells -> Nat] /\ pair' = p /\ di' \in 0 .. src.len
         /\ pc' = "rows"
         /\ di' \in first_row' .. pair'[1] + 1 /\ Filled(di)'
<1> DEFINE fr == src.lld[p[1]]
           fc == dst.lld[p[2]]
           last == p[2] + 1
<1>1. /\ src' = src /\ dst' = dst /\ pair' = p /\ di' = fr /\ pc' = "rows"
      /\ forest' = [rc \in DOMAIN forest |->
                      IF rc[1] = fr /\ rc[2] \in fc .. last
                      THEN UNIT * (rc[2] - fc) ELSE forest[rc]]
  BY DEF StartForest, arenas
<1>2. /\ fr \in Nat /\ fr <= p[1] /\ p[1] \in Nat /\ fr \in 0 .. src.len
      /\ fc \in Nat /\ last \in Nat /\ last <= dst.len /\ dst.len \in Nat
      /\ DOMAIN forest = Cells
  <2>1. /\ p[1] \in nodes(src) /\ p[2] \in nodes(dst)
        /\ IsTree(src) /\ IsTree(dst) /\ DOMAIN forest = Cells
        /\ src.len \in Nat /\ nodes(src) = 0 .. src.len - 1
        /\ dst.len \in Nat /\ nodes(dst) = 0 .. dst.len - 1
    BY TableFacts DEF NodePairs
  <2>2. fr \in Nat /\ fr <= p[1] /\ fc \in Nat
    BY <2>1, NodeTypes
  <2> HIDE DEF fr, fc
  <2> QED
    BY <2>1, <2>2
<1>3. first_row' = fr /\ first_col' = fc /\ cols' = fc .. last
  BY <1>1 DEF first_row, first_col, cols
<1> HIDE DEF fr, fc, last
<1>4. forest' \in [Cells -> Nat]
  <2>1. ASSUME NEW rc \in Cells
        PROVE  (IF rc[1] = fr /\ rc[2] \in fc .. last
                THEN UNIT * (rc[2] - fc) ELSE forest[rc]) \in Nat
    <3>1. CASE rc[1] = fr /\ rc[2] \in fc .. last
      <4>1. rc[2] - fc \in Nat
        BY <1>2, <3>1
      <4> QED
        BY <3>1, <4>1, Units
    <3>2. CASE ~(rc[1] = fr /\ rc[2] \in fc .. last)
      BY <3>2 DEF Typed
    <3> QED
      BY <3>1, <3>2
  <2> QED
    BY <1>1, <1>2, <2>1
<1>5. ASSUME NEW c \in fc .. last
      PROVE  /\ forest'[<<fr, c>>] = UNIT * (c - fc) /\ UNIT * (c - fc) \in Nat
             /\ (fr - fr) + (c - fc) = c - fc
  <2>1. <<fr, c>> \in Cells
    BY <1>2 DEF Cells
  <2>2. forest'[<<fr, c>>] = UNIT * (c - fc)
    BY <1>1, <1>2, <2>1
  <2>3. c - fc \in Nat /\ (fr - fr) + (c - fc) = c - fc
    BY <1>2
  <2> QED
    BY <2>2, <2>3, Units
<1>6. Filled(di)'
  <2>1. \A c \in cols' : forest'[<<first_row', c>>] = UNIT * (c - first_col')
    BY <1>3, <1>5
  <2>2. ASSUME NEW x \in first_row' .. di' - 1 PROVE FALSE
    BY <1>1, <1>2, <1>3, <2>2
  <2>3. ASSUME NEW x \in first_row' .. di', NEW c \in cols'
        PROVE  forest'[<<x, c>>] <= UNIT * ((x - first_row') + (c - first_col'))
    <3>1. x = fr /\ c \in fc .. last
      BY <1>1, <1>2, <1>3
    <3>2. forest'[<<fr, c>>] <= UNIT * ((fr - fr) + (c - fc))
      BY <1>5, <3>1
    <3> QED
      BY <1>3, <3>1, <3>2
  <2> QED
    BY <2>1, <2>2, <2>3 DEF Filled
<1>7. di' \in first_row' .. pair'[1] + 1
  BY <1>1, <1>2, <1>3
<1> QED
  BY <1>1, <1>2, <1>4, <1>6, <1>7

(* A new row keeps the ones before it right, and is right itself. *)
LEMMA InvFillRow == Inv /\ FillRow => Inv'
<1> SUFFICES ASSUME Inv, FillRow PROVE Inv'
  OBVIOUS
<1> DEFINE fr == first_row
           fc == first_col
           last == pair[2] + 1
           f == next_row(di)
           inTree(rc) == /\ rc[1] = di + 1 /\ rc[2] \in cols
                         /\ rc[2] > first_col /\ whole_trees(di, rc[2] - 1)
<1>1. /\ Typed /\ Table /\ Turns /\ pc = "rows" /\ di <= pair[1]
      /\ src' = src /\ dst' = dst /\ pair' = pair /\ pc' = "rows" /\ di' = di + 1
      /\ UNCHANGED <<kr_pairs, root_node_pair, tree_pairs, row, col, mappings>>
      /\ forest' = [rc \in DOMAIN forest |->
                      IF rc[1] = di + 1 /\ rc[2] \in cols THEN f[rc[2]] ELSE forest[rc]]
      /\ tree' = [rc \in DOMAIN tree |-> IF inTree(rc) THEN f[rc[2]] ELSE tree[rc]]
  BY DEF Inv, FillRow, arenas
<1>2. /\ di \in nodes(src) /\ di \in Nat /\ di \in fr .. pair[1] + 1 /\ Filled(di)
      /\ fr \in Nat /\ fc \in Nat /\ last \in Nat /\ fc < last /\ last <= dst.len
      /\ dst.len \in Nat /\ src.len \in Nat /\ di + 1 <= src.len
      /\ pair[1] \in Nat /\ pair[1] + 1 <= src.len
      /\ DOMAIN forest = Cells /\ DOMAIN tree = Cells /\ cols = fc .. last
  <2>1. di \in fr .. pair[1] + 1 /\ Filled(di)
    BY <1>1 DEF Table
  <2>2. /\ src.len \in Nat /\ nodes(src) = 0 .. src.len - 1 /\ dst.len \in Nat
        /\ pair[1] \in Nat /\ pair[2] \in Nat
        /\ pair[1] + 1 <= src.len /\ pair[2] + 1 <= dst.len
        /\ first_row \in Nat /\ first_col \in Nat /\ first_col <= pair[2]
        /\ DOMAIN forest = Cells /\ DOMAIN tree = Cells
    BY <1>1, TableFacts
  <2>3. cols = fc .. last
    BY DEF cols
  <2> HIDE DEF fc, fr
  <2>4. di \in Nat /\ di <= pair[1]
    BY <1>1, <2>1, <2>2 DEF fr
  <2>5. di \in nodes(src) /\ di + 1 <= src.len
    BY <2>2, <2>4
  <2> QED
    BY <2>1, <2>2, <2>3, <2>4, <2>5 DEF fr, fc
<1>3. /\ \A c \in cols : f[c] \in Nat /\ f[c] <= forest[<<di, c>>] + UNIT
      /\ f[fc] = forest[<<di, fc>>] + UNIT
      /\ \A c \in cols \ {fc} :
           \/ f[c] = forest[<<di, c>>] + UNIT
           \/ f[c] = f[c - 1] + UNIT
           \/ whole_trees(di, c - 1) =>
                f[c] = forest[<<di, c - 1>>] + get_update_cost(src, di, dst, c - 1)
  BY <1>1, <1>2, NextRow
<1> HIDE DEF f
<1>4. first_row' = fr /\ first_col' = fc /\ cols' = cols
  BY <1>1 DEF first_row, first_col, cols
<1>5. forest' \in [Cells -> Nat] /\ tree' \in [Cells -> Nat]
  <2>1. forest \in [Cells -> Nat] /\ tree \in [Cells -> Nat]
    BY <1>1 DEF Typed
  <2> HIDE DEF fc
  <2>2. ASSUME NEW rc \in Cells
        PROVE  /\ (IF rc[1] = di + 1 /\ rc[2] \in cols THEN f[rc[2]] ELSE forest[rc]) \in Nat
               /\ (IF inTree(rc) THEN f[rc[2]] ELSE tree[rc]) \in Nat
    <3>1. forest[rc] \in Nat /\ tree[rc] \in Nat
      BY <2>1
    <3>2. rc[2] \in cols => f[rc[2]] \in Nat
      BY <1>3
    <3> QED
      BY <3>1, <3>2
  <2> HIDE DEF inTree
  <2> QED
    BY <1>1, <1>2, <2>2
<1>6. ASSUME NEW x \in fr .. di, NEW c \in cols
      PROVE  forest'[<<x, c>>] = forest[<<x, c>>] /\ forest[<<x, c>>] \in Nat
  <2>1. <<x, c>> \in Cells /\ x # di + 1
    <3>1. x \in 0 .. src.len /\ x # di + 1
      BY <1>2
    <3>2. c \in 0 .. dst.len
      BY <1>2
    <3> QED
      BY <3>1, <3>2 DEF Cells
  <2>2. forest[<<x, c>>] \in Nat
    BY <1>1, <2>1 DEF Typed
  <2> QED
    BY <1>1, <1>2, <2>1, <2>2
<1>7. ASSUME NEW c \in cols
      PROVE  forest'[<<di + 1, c>>] = f[c]
  <2>1. <<di + 1, c>> \in Cells
    BY <1>2 DEF Cells
  <2> QED
    BY <1>1, <1>2, <2>1
<1> HIDE DEF fr, fc, last
<1>8. /\ \A c \in cols : forest[<<fr, c>>] = UNIT * (c - fc)
      /\ \A x \in fr .. di - 1 :
           /\ forest[<<x + 1, fc>>] = forest[<<x, fc>>] + UNIT
           /\ \A c \in cols \ {fc} : Cell(x, c)
      /\ \A x \in fr .. di, c \in cols :
           forest[<<x, c>>] <= UNIT * ((x - fr) + (c - fc))
  BY <1>2 DEF Filled, fr, fc
<1>9. fc \in cols /\ \A c \in cols \ {fc} : c - 1 \in cols
  BY <1>2
<1>10. \A c \in cols : forest'[<<fr, c>>] = UNIT * (c - fc)
  <2>1. fr \in fr .. di
    BY <1>2
  <2> QED
    BY <1>6, <1>8, <2>1
<1>11. ASSUME NEW x \in fr .. (di + 1) - 1
       PROVE  /\ forest'[<<x + 1, fc>>] = forest'[<<x, fc>>] + UNIT
              /\ \A c \in cols \ {fc} : Cell(x, c)'
  <2>1. x \in fr .. di /\ x \in Nat
    BY <1>2
  <2>2. \A c : whole_trees(x, c)' <=> whole_trees(x, c)
    BY <1>1, <1>4 DEF whole_trees, fr, fc
  <2>3. CASE x = di
    <3>1. forest'[<<x + 1, fc>>] = forest'[<<x, fc>>] + UNIT
      BY <1>3, <1>6, <1>7, <1>9, <2>1, <2>3
    <3>2. ASSUME NEW c \in cols \ {fc} PROVE Cell(x, c)'
      <4>1. /\ forest'[<<x + 1, c>>] = f[c] /\ forest'[<<x, c>>] = forest[<<x, c>>]
            /\ forest'[<<x + 1, c - 1>>] = f[c - 1]
            /\ forest'[<<x, c - 1>>] = forest[<<x, c - 1>>]
        BY <1>6, <1>7, <1>9, <2>1, <2>3
      <4>2. \/ f[c] = forest[<<x, c>>] + UNIT
            \/ f[c] = f[c - 1] + UNIT
            \/ whole_trees(x, c - 1) =>
                 f[c] = forest[<<x, c - 1>>] + get_update_cost(src, x, dst, c - 1)
        BY <1>3, <2>3
      <4>3. get_update_cost(src, x, dst, c - 1)' = get_update_cost(src, x, dst, c - 1)
        BY <1>1
      <4> QED
        BY <2>2, <4>1, <4>2, <4>3 DEF Cell
    <3> QED
      BY <3>1, <3>2
  <2>4. CASE x # di
    <3>1. x \in fr .. di - 1 /\ x + 1 \in fr .. di
      BY <1>2, <2>1, <2>4
    <3>2. forest'[<<x + 1, fc>>] = forest'[<<x, fc>>] + UNIT
      BY <1>6, <1>8, <1>9, <2>1, <3>1
    <3>3. ASSUME NEW c \in cols \ {fc} PROVE Cell(x, c)'
      <4>1. /\ forest'[<<x + 1, c>>] = forest[<<x + 1, c>>]
            /\ forest'[<<x, c>>] = forest[<<x, c>>]
            /\ forest'[<<x + 1, c - 1>>] = forest[<<x + 1, c - 1>>]
            /\ forest'[<<x, c - 1>>] = forest[<<x, c - 1>>]
        BY <1>6, <1>9, <2>1, <3>1
      <4>2. Cell(x, c)
        BY <1>8, <3>1
      <4>3. get_update_cost(src, x, dst, c - 1)' = get_update_cost(src, x, dst, c - 1)
        BY <1>1
      <4> QED
        BY <2>2, <4>1, <4>2, <4>3 DEF Cell
    <3> QED
      BY <3>2, <3>3
  <2> QED
    BY <2>3, <2>4
<1>12. ASSUME NEW x \in fr .. di + 1, NEW c \in cols
       PROVE  forest'[<<x, c>>] <= UNIT * ((x - fr) + (c - fc))
  <2>1. CASE x = di + 1
    <3> DEFINE k == (di - fr) + (c - fc)
    <3>1. k \in Nat /\ (x - fr) + (c - fc) = k + 1 /\ di \in fr .. di
      BY <1>2, <2>1
    <3> HIDE DEF k
    <3>2. forest[<<di, c>>] <= UNIT * k /\ forest[<<di, c>>] \in Nat
      BY <1>6, <1>8, <3>1 DEF k
    <3>3. forest'[<<x, c>>] \in Nat /\ forest'[<<x, c>>] <= forest[<<di, c>>] + UNIT
      BY <1>3, <1>7, <2>1
    <3>4. UNIT \in Nat /\ UNIT * k \in Nat /\ UNIT * (k + 1) = UNIT * k + UNIT
      BY <3>1, Units
    <3> QED
      BY <3>1, <3>2, <3>3, <3>4
  <2>2. CASE x # di + 1
    <3>1. x \in fr .. di
      BY <1>2, <2>2
    <3> QED
      BY <1>6, <1>8, <3>1
  <2> QED
    BY <2>1, <2>2
<1>13. Filled(di)'
  BY <1>1, <1>4, <1>10, <1>11, <1>12 DEF Filled
<1>14. Typed'
  <2>1. di + 1 \in 0 .. src.len
    BY <1>2
  <2>2. Cells' = Cells /\ NodePairs' = NodePairs /\ Ends' = Ends
    BY <1>1 DEF Cells, NodePairs, Ends
  <2> QED
    BY <1>1, <1>5, <2>1, <2>2 DEF Typed
<1>15. Table' /\ Turns'
  <2>1. di' \in first_row' .. pair'[1] + 1
    BY <1>1, <1>2, <1>4
  <2>2. Table'
    BY <1>1, <1>13, <2>1 DEF Table
  <2>3. Turns'
    BY <1>1 DEF Turns, roots
  <2> QED
    BY <2>2, <2>3
<1> QED
  BY <1>14, <1>15 DEF Inv

(***************************************************************************)
(* The walk stays inside the forests of its pair, and when neither the     *)
(* deletion nor the insertion explains a cell, the two last trees do: two  *)
(* nodes of different types cannot, for that cell would cost more than     *)
(* deleting and inserting all the nodes.                                   *)
(***************************************************************************)
LEMMA WalkFacts ==
  ASSUME Inv, walking
  PROVE  /\ row \in first_row .. pair[1] + 1 /\ col \in cols
         /\ deletes => row - 1 \in first_row .. pair[1] + 1
         /\ inserts => col - 1 \in cols
         /\ ~deletes /\ ~inserts =>
              /\ row > first_row /\ col > first_col
              /\ row - 1 \in Subtree(src, pair[1]) /\ col - 1 \in Subtree(dst, pair[2])
              /\ whole_trees(row - 1, col - 1) => same_type
<1> DEFINE fr == first_row
           fc == first_col
           up == forest[<<row - 1, col>>]
           left == forest[<<row, col - 1>>]
           here == forest[<<row, col>>]
<1>1. /\ Typed /\ di = pair[1] + 1 /\ Filled(di) /\ row \in fr .. di /\ col \in cols
      /\ row > fr \/ col > fc
  BY DEF Inv, Table, walking
<1>2. /\ fr \in Nat /\ fc \in Nat /\ row \in Nat /\ col \in Nat /\ di \in Nat
      /\ fr <= row /\ row <= di /\ fc <= col /\ col <= pair[2] + 1
      /\ di <= src.len /\ pair[2] + 1 <= dst.len /\ fc <= pair[2]
      /\ src.len \in Nat /\ dst.len \in Nat /\ pair[1] \in Nat /\ pair[2] \in Nat
      /\ nodes(src) = 0 .. src.len - 1 /\ nodes(dst) = 0 .. dst.len - 1
      /\ cols = fc .. pair[2] + 1
  <2>1. /\ fr \in Nat /\ fc \in Nat /\ fc <= pair[2] /\ pair[1] \in Nat /\ pair[2] \in Nat
        /\ pair[1] + 1 <= src.len /\ pair[2] + 1 <= dst.len
        /\ src.len \in Nat /\ dst.len \in Nat
        /\ nodes(src) = 0 .. src.len - 1 /\ nodes(dst) = 0 .. dst.len - 1
    BY <1>1, TableFacts
  <2>2. cols = fc .. pair[2] + 1
    BY DEF cols
  <2> HIDE DEF fr, fc
  <2> QED
    BY <1>1, <2>1, <2>2
<1>3. /\ \A c \in cols : forest[<<fr, c>>] = UNIT * (c - fc)
      /\ \A x \in fr .. di - 1 :
           /\ forest[<<x + 1, fc>>] = forest[<<x, fc>>] + UNIT
           /\ \A c \in cols \ {fc} : Cell(x, c)
      /\ \A x \in fr .. di, c \in cols :
           forest[<<x, c>>] <= UNIT * ((x - fr) + (c - fc))
  BY <1>1 DEF Filled
<1>4. /\ deletes <=> row > fr /\ up + UNIT = here
      /\ inserts <=> col > fc /\ left + UNIT = here
  BY DEF deletes, inserts
<1> HIDE DEF fr, fc
<1>5. deletes => row - 1 \in fr .. pair[1] + 1
  BY <1>1, <1>2, <1>4
<1>6. inserts => col - 1 \in cols
  BY <1>2, <1>4
<1>7. ASSUME ~deletes, ~inserts PROVE row > fr
  <2> SUFFICES ASSUME ~(row > fr) PROVE FALSE
    OBVIOUS
  <2>1. row = fr /\ col > fc
    BY <1>1, <1>2
  <2> DEFINE k == (col - 1) - fc
  <2>2. k \in Nat /\ col - fc = k + 1 /\ col - 1 \in cols
    BY <1>2, <2>1
  <2>3. here = UNIT * (k + 1) /\ left = UNIT * k
    BY <1>1, <1>3, <2>1, <2>2
  <2> HIDE DEF k
  <2>4. here = left + UNIT
    BY <2>2, <2>3, Units
  <2> QED
    BY <1>4, <1>7, <2>1, <2>4
<1>8. ASSUME ~deletes, ~inserts PROVE col > fc
  <2> SUFFICES ASSUME ~(col > fc) PROVE FALSE
    OBVIOUS
  <2>1. col = fc /\ row > fr
    BY <1>1, <1>2
  <2>2. row - 1 \in fr .. di - 1 /\ (row - 1) + 1 = row
    BY <1>2, <2>1
  <2>3. here = up + UNIT
    BY <1>3, <2>1, <2>2
  <2> QED
    BY <1>4, <1>8, <2>1, <2>3
<1>9. ASSUME ~deletes, ~inserts
      PROVE  /\ row - 1 \in Subtree(src, pair[1]) /\ col - 1 \in Subtree(dst, pair[2])
             /\ row - 1 \in nodes(src) /\ col - 1 \in nodes(dst)
  <2>0. row > fr /\ col > fc
    BY <1>7, <1>8, <1>9
  <2>1. row - 1 \in fr .. pair[1] /\ col - 1 \in fc .. pair[2]
    <3>1. row - 1 \in fr .. pair[1]
      BY <1>1, <1>2, <2>0
    <3>2. col - 1 \in fc .. pair[2]
      BY <1>2, <2>0
    <3> QED
      BY <3>1, <3>2
  <2>2. fr = src.lld[pair[1]] /\ fc = dst.lld[pair[2]]
    BY DEF fr, fc, first_row, first_col
  <2>3. row - 1 \in nodes(src) /\ col - 1 \in nodes(dst)
    <3>1. row - 1 \in 0 .. src.len - 1
      BY <1>2, <2>1
    <3>2. col - 1 \in 0 .. dst.len - 1
      BY <1>2, <2>1
    <3> QED
      BY <1>2, <3>1, <3>2
  <2> QED
    BY <2>1, <2>2, <2>3 DEF Subtree
<1>10. ASSUME ~deletes, ~inserts, whole_trees(row - 1, col - 1), ~same_type
       PROVE  FALSE
  <2> DEFINE aside == forest[<<row - 1, col - 1>>]
             all == src.len + dst.len
             cost == get_update_cost(src, row - 1, dst, col - 1)
             k == (row - fr) + (col - fc)
  <2>1. /\ row - 1 \in fr .. di - 1 /\ (row - 1) + 1 = row /\ col \in cols \ {fc}
        /\ row - 1 \in 0 .. src.len /\ col - 1 \in 0 .. dst.len
        /\ row \in 0 .. src.len /\ col \in 0 .. dst.len
    <3>1. row > fr /\ col > fc
      BY <1>7, <1>8, <1>10
    <3>2. row - 1 \in fr .. di - 1 /\ (row - 1) + 1 = row /\ col \in cols \ {fc}
      BY <1>1, <1>2, <3>1
    <3>3. row - 1 \in 0 .. src.len /\ row \in 0 .. src.len
      BY <1>2, <3>1
    <3>4. col - 1 \in 0 .. dst.len /\ col \in 0 .. dst.len
      BY <1>2, <3>1
    <3> QED
      BY <3>2, <3>3, <3>4
  <2>2. Cell(row - 1, col)
    BY <1>3, <2>1
  <2>3. here = aside + cost
    BY <1>4, <1>7, <1>8, <1>10, <2>1, <2>2 DEF Cell
  <2>4. aside \in Nat /\ here \in Nat
    BY <1>1, <2>1, CellTyped
  <2>5. cost = UNIT * (all + 1)
    BY <1>1, <1>9, <1>10, UpdateCosts DEF same_type
  <2>6. k \in Nat /\ all \in Nat /\ k <= all
    <3>1. row - fr \in Nat /\ row - fr <= src.len
      BY <1>2
    <3>2. col - fc \in Nat /\ col - fc <= dst.len
      BY <1>2
    <3>3. src.len \in Nat /\ dst.len \in Nat
      BY <1>2
    <3> QED
      BY <3>1, <3>2, <3>3
  <2>7. here <= UNIT * k
    BY <1>1, <1>3
  <2> HIDE DEF all, k, cost
  <2>8. /\ UNIT * k \in Nat /\ UNIT * all \in Nat /\ UNIT * k <= UNIT * all
        /\ UNIT * (all + 1) = UNIT * all + UNIT /\ UNIT \in Nat /\ UNIT > 0
    BY <2>6, Units
  <2> QED
    BY <2>3, <2>4, <2>5, <2>7, <2>8
<1> QED
  BY <1>1, <1>5, <1>6, <1>7, <1>8, <1>9, <1>10 DEF fr, fc
-----------------------------------------------------------------------------
LEMMA InvNextKeyRoots == Inv /\ NextKeyRoots => Inv'
<1> SUFFICES ASSUME Inv, NextKeyRoots PROVE Inv'
  OBVIOUS
<1>1. /\ Typed /\ Turns /\ pc = "dist" /\ kr_pairs # <<>> /\ root_node_pair
      /\ StartForest(Head(kr_pairs)) /\ kr_pairs' = Tail(kr_pairs)
      /\ UNCHANGED <<src, dst, tree, root_node_pair, tree_pairs, row, col, mappings>>
  BY DEF Inv, Turns, NextKeyRoots, arenas
<1>2. /\ Head(kr_pairs) \in NodePairs /\ Tail(kr_pairs) \in Seq(NodePairs)
      /\ Tail(kr_pairs) = <<>> => Head(kr_pairs) = roots
      /\ Tail(kr_pairs) # <<>> => Last(Tail(kr_pairs)) = roots
  <2>1. kr_pairs \in Seq(NodePairs) /\ Last(kr_pairs) = roots
    BY <1>1 DEF Typed, Turns
  <2> QED
    BY <1>1, <2>1, EndsOfSeq
<1>3. /\ forest' \in [Cells -> Nat] /\ pair' = Head(kr_pairs) /\ di' \in 0 .. src.len
      /\ pc' = "rows" /\ di' \in first_row' .. pair'[1] + 1 /\ Filled(di)'
  BY <1>1, <1>2, StartFacts DEF arenas
<1>4. Typed'
  <2>1. Cells' = Cells /\ NodePairs' = NodePairs /\ Ends' = Ends
    BY <1>1 DEF Cells, NodePairs, Ends
  <2> QED
    BY <1>1, <1>2, <1>3, <2>1 DEF Typed
<1>5. Table'
  BY <1>3 DEF Table
<1>6. Turns'
  BY <1>1, <1>2, <1>3 DEF Turns, roots
<1> QED
  BY <1>4, <1>5, <1>6 DEF Inv

LEMMA InvEndForest == Inv /\ EndForest => Inv'
<1> SUFFICES ASSUME Inv, EndForest PROVE Inv'
  OBVIOUS
<1>1. /\ Typed /\ Table /\ Turns /\ pc = "rows" /\ di > pair[1]
      /\ pc' = IF root_node_pair THEN "dist" ELSE "walk"
      /\ UNCHANGED <<src, dst, tree, forest, kr_pairs, pair, di, root_node_pair,
                     tree_pairs, row, col, mappings>>
  BY DEF Inv, EndForest, arenas, tables
<1>2. di \in first_row .. pair[1] + 1 /\ Filled(di)
  BY <1>1 DEF Table
<1>3. /\ first_row \in Nat /\ pair[1] \in Nat /\ first_row <= pair[1]
      /\ first_col \in Nat /\ pair[2] \in Nat /\ first_col <= pair[2]
  BY <1>1, TableFacts
<1>4. /\ di = pair[1] + 1 /\ pair[1] + 1 \in first_row .. di
      /\ pair[2] + 1 \in cols
  BY <1>1, <1>2, <1>3 DEF cols
<1>5. Filled(di)' /\ first_row' = first_row /\ cols' = cols
  <2>1. \A r : Filled(r) => Filled(r)'
    BY <1>1, FilledKept
  <2>2. Filled(di)'
    BY <1>1, <1>2, <2>1
  <2> QED
    BY <1>1, <2>2, FilledKept
<1>6. Typed'
  BY <1>1 DEF Typed, Cells, NodePairs, Ends
<1>7. Table'
  <2>1. CASE root_node_pair
    BY <1>1, <1>4, <1>5, <2>1 DEF Table
  <2>2. CASE ~root_node_pair
    <3>1. row = pair[1] + 1 /\ col = pair[2] + 1
      BY <1>1, <2>2 DEF Turns
    <3> QED
      BY <1>1, <1>4, <1>5, <2>2, <3>1 DEF Table
  <2> QED
    BY <2>1, <2>2
<1>8. Turns'
  BY <1>1 DEF Turns, roots, Typed
<1> QED
  BY <1>6, <1>7, <1>8 DEF Inv

LEMMA InvEndDist == Inv /\ EndDist => Inv'
<1> SUFFICES ASSUME Inv, EndDist PROVE Inv'
  OBVIOUS
<1>1. /\ Typed /\ Table /\ Turns /\ pc = "dist" /\ kr_pairs = <<>> /\ pc' = "pop"
      /\ tree_pairs' = <<<<src.len, dst.len>>>>
      /\ UNCHANGED <<src, dst, tree, forest, kr_pairs, pair, di, root_node_pair,
                     row, col, mappings>>
  BY DEF Inv, EndDist, arenas, tables
<1>2. root_node_pair /\ di = pair[1] + 1 /\ Filled(di)
  BY <1>1 DEF Table, Turns
<1>3. Filled(di)'
  <2>1. \A r : Filled(r) => Filled(r)'
    BY <1>1, FilledKept
  <2> QED
    BY <1>1, <1>2, <2>1
<1>4. Typed'
  <2>1. <<src.len, dst.len>> \in Ends
    <3>1. src.len \in Nat /\ src.len > 0 /\ dst.len \in Nat /\ dst.len > 0
      BY <1>1, TableFacts
    <3> QED
      BY <3>1 DEF Ends
  <2>2. <<<<src.len, dst.len>>>> \in Seq(Ends)
    BY <2>1
  <2> QED
    BY <1>1, <2>2 DEF Typed, Cells, NodePairs, Ends
<1>5. Table'
  BY <1>1, <1>2, <1>3 DEF Table
<1>6. Turns'
  BY <1>1, <1>2 DEF Turns, roots
<1> QED
  BY <1>4, <1>5, <1>6 DEF Inv

(* The first walk goes from the last cell of the table of the roots. *)
LEMMA InvPopRoots == Inv /\ PopRoots => Inv'
<1> SUFFICES ASSUME Inv, PopRoots PROVE Inv'
  OBVIOUS
<1>1. /\ Typed /\ Table /\ Turns /\ pc = "pop" /\ root_node_pair
      /\ tree_pairs' = Front(tree_pairs)
      /\ row' = Last(tree_pairs)[1] /\ col' = Last(tree_pairs)[2]
      /\ pair' = <<Last(tree_pairs)[1] - 1, Last(tree_pairs)[2] - 1>>
      /\ root_node_pair' = FALSE /\ pc' = "walk"
      /\ UNCHANGED <<src, dst, tree, forest, kr_pairs, di, mappings>>
  BY DEF Inv, PopRoots, arenas, tables
<1>2. /\ kr_pairs = <<>> /\ tree_pairs = <<<<src.len, dst.len>>>> /\ pair = roots
      /\ di = pair[1] + 1 /\ Filled(di)
  BY <1>1 DEF Table, Turns
<1>3. Front(tree_pairs) \in Seq(Ends)
  <2>1. tree_pairs \in Seq(Ends) /\ tree_pairs # <<>>
    BY <1>1, <1>2 DEF Typed
  <2> QED
    BY <2>1, EndsOfSeq
<1>4. Last(tree_pairs) = <<src.len, dst.len>>
  BY <1>2 DEF Last
<1>5. pair' = pair /\ row' = src.len /\ col' = dst.len
  BY <1>1, <1>2, <1>4 DEF roots, root
<1>6. Filled(di)' /\ first_row' = first_row /\ cols' = cols
  <2>1. \A r : Filled(r) => Filled(r)'
    BY <1>1, <1>5, FilledKept
  <2>2. Filled(di)'
    BY <1>1, <1>2, <2>1
  <2> QED
    BY <1>1, <1>5, <2>2, FilledKept
<1>7. /\ src.len \in Nat /\ dst.len \in Nat /\ first_row \in Nat /\ first_col \in Nat
      /\ first_row <= pair[1] /\ first_col <= pair[2]
      /\ pair[1] = src.len - 1 /\ pair[2] = dst.len - 1
  BY <1>1, <1>2, TableFacts DEF roots, root
<1>8. Typed'
  <2>1. src.len \in 0 .. src.len /\ dst.len \in 0 .. dst.len
    BY <1>7
  <2> QED
    BY <1>1, <1>3, <1>5, <2>1 DEF Typed, Cells, NodePairs, Ends
<1>9. Table'
  <2>1. src.len \in first_row .. di /\ dst.len \in cols
    BY <1>2, <1>7 DEF cols
  <2> QED
    BY <1>1, <1>2, <1>5, <1>6, <2>1 DEF Table
<1>10. Turns'
  BY <1>1 DEF Turns
<1> QED
  BY <1>8, <1>9, <1>10 DEF Inv

LEMMA InvPopPair == Inv /\ PopPair => Inv'
<1> SUFFICES ASSUME Inv, PopPair PROVE Inv'
  OBVIOUS
<1> DEFINE last == Last(tree_pairs)
           p == <<last[1] - 1, last[2] - 1>>
<1>1. /\ Typed /\ pc = "pop" /\ ~root_node_pair /\ tree_pairs # <<>>
      /\ tree_pairs' = Front(tree_pairs) /\ row' = last[1] /\ col' = last[2]
      /\ StartForest(p)
      /\ UNCHANGED <<src, dst, tree, kr_pairs, root_node_pair, mappings>>
  BY DEF Inv, PopPair, arenas
<1>2. last \in Ends /\ Front(tree_pairs) \in Seq(Ends)
  <2>1. tree_pairs \in Seq(Ends)
    BY <1>1 DEF Typed
  <2> QED
    BY <1>1, <2>1, EndsOfSeq
<1> HIDE DEF last
<1>3. /\ p \in NodePairs /\ last[1] \in 0 .. src.len /\ last[2] \in 0 .. dst.len
      /\ last[1] = p[1] + 1 /\ last[2] = p[2] + 1
  <2>1. /\ src.len \in Nat /\ nodes(src) = 0 .. src.len - 1
        /\ dst.len \in Nat /\ nodes(dst) = 0 .. dst.len - 1
    BY <1>1, TableFacts
  <2>2. last[1] \in 1 .. src.len /\ last[2] \in 1 .. dst.len
    BY <1>2 DEF Ends
  <2>3. last[1] - 1 \in nodes(src) /\ last[2] - 1 \in nodes(dst)
    BY <2>1, <2>2
  <2> QED
    BY <2>1, <2>2, <2>3 DEF NodePairs
<1> HIDE DEF p
<1>4. /\ forest' \in [Cells -> Nat] /\ pair' = p /\ di' \in 0 .. src.len
      /\ pc' = "rows" /\ di' \in first_row' .. pair'[1] + 1 /\ Filled(di)'
  BY <1>1, <1>3, StartFacts DEF arenas
<1>5. Typed'
  <2>1. Cells' = Cells /\ NodePairs' = NodePairs /\ Ends' = Ends
    BY <1>1 DEF Cells, NodePairs, Ends
  <2> QED
    BY <1>1, <1>2, <1>3, <1>4, <2>1 DEF Typed
<1>6. Table'
  BY <1>4 DEF Table
<1>7. Turns'
  BY <1>1, <1>3, <1>4 DEF Turns
<1> QED
  BY <1>5, <1>6, <1>7 DEF Inv

(* A step of the walk to another cell of the forests of its pair. *)
LEMMA InvWalked ==
  ASSUME Inv, pc = "walk", NEW r, NEW c, Walked(r, c),
         r \in first_row .. pair[1] + 1, c \in cols,
         tree_pairs' \in Seq(Ends), mappings' \in Stores(src.len + 1, dst.len + 1)
  PROVE  Inv'
<1>1. /\ Typed /\ Table /\ Turns /\ row' = r /\ col' = c
      /\ UNCHANGED <<src, dst, tree, forest, pc, kr_pairs, pair, di, root_node_pair>>
  BY DEF Inv, Walked, arenas, tables
<1>2. di = pair[1] + 1 /\ Filled(di) /\ ~root_node_pair
  BY <1>1 DEF Table, Turns
<1>3. Filled(di)' /\ first_row' = first_row /\ cols' = cols
  <2>1. \A n : Filled(n) => Filled(n)'
    BY <1>1, FilledKept
  <2>2. Filled(di)'
    BY <1>1, <1>2, <2>1
  <2> QED
    BY <1>1, <2>2, FilledKept
<1>4. r \in 0 .. src.len /\ c \in 0 .. dst.len
  <2>1. /\ first_row \in Nat /\ pair[1] + 1 <= src.len /\ pair[1] \in Nat /\ src.len \in Nat
        /\ first_col \in Nat /\ pair[2] + 1 <= dst.len /\ pair[2] \in Nat /\ dst.len \in Nat
    BY <1>1, TableFacts
  <2>2. r \in 0 .. src.len
    BY <2>1
  <2>3. c \in 0 .. dst.len
    BY <2>1 DEF cols
  <2> QED
    BY <2>2, <2>3
<1>5. Typed'
  BY <1>1, <1>4 DEF Typed, Cells, NodePairs, Ends
<1>6. Table'
  BY <1>1, <1>2, <1>3 DEF Table
<1>7. Turns'
  BY <1>1, <1>2 DEF Turns
<1> QED
  BY <1>5, <1>6, <1>7 DEF Inv

LEMMA InvWalk == Inv /\ (Delete \/ Insert \/ MapRoots \/ PushPair) => Inv'
<1> SUFFICES ASSUME Inv, Delete \/ Insert \/ MapRoots \/ PushPair PROVE Inv'
  OBVIOUS
<1>1. walking /\ pc = "walk" /\ Typed
  BY DEF Inv, Delete, Insert, MapRoots, PushPair, walking
<1>2. /\ row \in first_row .. pair[1] + 1 /\ col \in cols
      /\ deletes => row - 1 \in first_row .. pair[1] + 1
      /\ inserts => col - 1 \in cols
      /\ ~deletes /\ ~inserts =>
           /\ row - 1 \in Subtree(src, pair[1]) /\ col - 1 \in Subtree(dst, pair[2])
  BY <1>1, WalkFacts
<1>3. tree_pairs \in Seq(Ends) /\ mappings \in Stores(src.len + 1, dst.len + 1)
  BY <1>1 DEF Typed
<1>4. /\ IsTree(src) /\ IsTree(dst) /\ pair[1] \in nodes(src) /\ pair[2] \in nodes(dst)
      /\ pair[1] \in Nat /\ pair[2] \in Nat
      /\ src.len \in Nat /\ nodes(src) = 0 .. src.len - 1
      /\ dst.len \in Nat /\ nodes(dst) = 0 .. dst.len - 1
      /\ first_row \in Nat /\ first_col \in Nat
  BY <1>1, TableFacts
<1>5. CASE Delete
  <2>1. deletes /\ Walked(row - 1, col) /\ UNCHANGED <<tree_pairs, mappings>>
    BY <1>5 DEF Delete
  <2> QED
    BY <1>1, <1>2, <1>3, <2>1, InvWalked
<1>6. CASE Insert
  <2>1. inserts /\ Walked(row, col - 1) /\ UNCHANGED <<tree_pairs, mappings>>
    BY <1>6 DEF Insert
  <2> QED
    BY <1>1, <1>2, <1>3, <2>1, InvWalked
<1>7. ASSUME ~deletes, ~inserts
      PROVE  /\ row - 1 \in nodes(src) /\ col - 1 \in nodes(dst)
             /\ row - 1 \in first_row .. pair[1] + 1 /\ col - 1 \in cols
             /\ src.lld[row - 1] \in first_row .. pair[1] + 1
             /\ dst.lld[col - 1] \in cols
             /\ <<row, col>> \in Ends
  <2>1. row - 1 \in Subtree(src, pair[1]) /\ col - 1 \in Subtree(dst, pair[2])
    BY <1>2, <1>7
  <2>2. row - 1 \in nodes(src) /\ col - 1 \in nodes(dst)
    BY <1>4, <2>1, SubtreeInNodes
  <2>3. /\ first_row <= src.lld[row - 1] /\ src.lld[row - 1] <= row - 1
        /\ src.lld[row - 1] \in Nat
        /\ first_col <= dst.lld[col - 1] /\ dst.lld[col - 1] <= col - 1
        /\ dst.lld[col - 1] \in Nat
    BY <1>4, <2>1, <2>2, NodeTypes DEF IsTree, Laminar, first_row, first_col
  <2>4. row - 1 \in first_row .. pair[1] /\ col - 1 \in first_col .. pair[2]
    BY <2>1 DEF Subtree, first_row, first_col
  <2>5. row \in 0 .. src.len /\ col \in 0 .. dst.len
    BY <1>1 DEF Typed
  <2> DEFINE a == src.lld[row - 1]
             b == dst.lld[col - 1]
  <2>6. a \in Nat /\ b \in Nat /\ first_row <= a /\ a <= row - 1 /\ first_col <= b /\ b <= col - 1
    BY <2>3
  <2> HIDE DEF a, b
  <2>7. /\ a \in first_row .. pair[1] + 1 /\ b \in first_col .. pair[2] + 1
        /\ row - 1 \in first_row .. pair[1] + 1 /\ col - 1 \in first_col .. pair[2] + 1
    <3>1. row \in Nat /\ col \in Nat
      BY <1>4, <2>5
    <3>2. a \in first_row .. pair[1] + 1 /\ row - 1 \in first_row .. pair[1] + 1
      BY <1>4, <2>4, <2>6, <3>1
    <3>3. b \in first_col .. pair[2] + 1 /\ col - 1 \in first_col .. pair[2] + 1
      BY <1>4, <2>4, <2>6, <3>1
    <3> QED
      BY <3>2, <3>3
  <2>8. row \in 1 .. src.len /\ col \in 1 .. dst.len
    BY <1>4, <2>4, <2>5
  <2> QED
    BY <2>2, <2>7, <2>8 DEF a, b, cols, Ends
<1>8. CASE MapRoots
  <2>1. /\ ~deletes /\ ~inserts /\ Walked(row - 1, col - 1)
        /\ tree_pairs' = tree_pairs /\ mappings' = link(mappings, row - 1, col - 1)
    BY <1>8 DEF MapRoots
  <2>2. link(mappings, row - 1, col - 1) \in Stores(src.len + 1, dst.len + 1)
    <3> DEFINE x == row - 1
               y == col - 1
    <3>1. /\ x \in 0 .. src.len + 1 /\ x + 1 \in 0 .. src.len + 1
          /\ y \in 0 .. dst.len + 1 /\ y + 1 \in 0 .. dst.len + 1
      <4>1. x \in 0 .. src.len - 1 /\ y \in 0 .. dst.len - 1
        BY <1>4, <1>7, <2>1
      <4>2. src.len \in Nat /\ dst.len \in Nat
        BY <1>4
      <4> HIDE DEF x, y
      <4> QED
        BY <4>1, <4>2
    <3> HIDE DEF x, y
    <3>2. link(mappings, x, y) \in Stores(src.len + 1, dst.len + 1)
      BY <1>3, <3>1 DEF link, Stores
    <3> QED
      BY <3>2 DEF x, y
  <2>3. row - 1 \in first_row .. pair[1] + 1 /\ col - 1 \in cols
    BY <1>7, <2>1
  <2> QED
    BY <1>1, <1>3, <2>1, <2>2, <2>3, InvWalked
<1>9. CASE PushPair
  <2>1. /\ ~deletes /\ ~inserts /\ Walked(src.lld[row - 1], dst.lld[col - 1])
        /\ mappings' = mappings /\ tree_pairs' = Append(tree_pairs, <<row, col>>)
    BY <1>9 DEF PushPair
  <2>2. Append(tree_pairs, <<row, col>>) \in Seq(Ends)
    BY <1>3, <1>7, <2>1, AppendProperties
  <2>3. src.lld[row - 1] \in first_row .. pair[1] + 1 /\ dst.lld[col - 1] \in cols
    BY <1>7, <2>1
  <2> QED
    BY <1>1, <1>3, <2>1, <2>2, <2>3, InvWalked
<1> QED
  BY <1>5, <1>6, <1>8, <1>9

(* Steps that only say which loop runs next, and steps that do nothing. *)
LEMMA InvElse == Inv /\ (EndWalk \/ EndMappings \/ UNCHANGED zs_vars) => Inv'
<1> SUFFICES ASSUME Inv, EndWalk \/ EndMappings \/ UNCHANGED zs_vars PROVE Inv'
  OBVIOUS
<1>1. /\ Typed /\ Table /\ Turns
      /\ UNCHANGED <<src, dst, tree, forest, kr_pairs, pair, di, root_node_pair,
                     tree_pairs, row, col, mappings>>
  BY DEF Inv, EndWalk, EndMappings, zs_vars, arenas, tables
<1>2. \/ pc' = pc
      \/ pc' \in {"pop", "done"} /\ ~root_node_pair
  <2>1. CASE EndWalk
    <3>1. pc = "walk" /\ ~walking
      BY <2>1, WalkFacts DEF EndWalk
    <3> QED
      BY <1>1, <2>1, <3>1 DEF EndWalk, Turns
  <2>2. CASE EndMappings
    <3>1. pc = "pop" /\ tree_pairs = <<>> /\ pc' = "done"
      BY <2>2 DEF EndMappings
    <3>2. root_node_pair => tree_pairs = <<<<src.len, dst.len>>>>
      BY <1>1, <3>1 DEF Turns
    <3> QED
      BY <3>1, <3>2
  <2>3. CASE UNCHANGED zs_vars
    BY <2>3 DEF zs_vars
  <2> QED
    BY <2>1, <2>2, <2>3
<1>3. Typed'
  BY <1>1, <1>2 DEF Typed, Cells, NodePairs, Ends
<1>4. Table'
  <2>1. first_row' = first_row /\ cols' = cols /\ \A r : Filled(r) => Filled(r)'
    BY <1>1, FilledKept
  <2>2. Filled(di) => Filled(di)'
    BY <1>1, <2>1
  <2> QED
    BY <1>1, <1>2, <2>1, <2>2 DEF Table
<1>5. Turns'
  BY <1>1, <1>2 DEF Turns, roots
<1> QED
  BY <1>3, <1>4, <1>5 DEF Inv

LEMMA InvStep == Inv /\ [Next]_zs_vars => Inv'
<1> SUFFICES ASSUME Inv, [Next]_zs_vars PROVE Inv'
  OBVIOUS
<1>1. Ended => UNCHANGED zs_vars
  BY DEF Ended
<1> QED
  BY <1>1, InvNextKeyRoots, InvFillRow, InvEndForest, InvEndDist, InvPopRoots, InvPopPair,
     InvWalk, InvElse DEF Next, MatchNext

LEMMA InvAlways == Spec => []Inv
BY InvInit, InvStep, PTL DEF Spec
-----------------------------------------------------------------------------
(***************************************************************************)
(* The two tables hold a cost in each of their cells, the stack, the rows  *)
(* and the columns stay inside them, and so do the nodes to map.           *)
(***************************************************************************)
THEOREM TypeCorrect == Spec => []TypeOK
<1>1. Inv => TypeOK
  <2> SUFFICES ASSUME Inv PROVE TypeOK
    OBVIOUS
  <2>1. Typed
    BY DEF Inv
  <2>2. /\ IsTree(src) /\ IsTree(dst) /\ src.len \in Nat /\ dst.len \in Nat
    BY <2>1, TableFacts
  <2>3. tree_pairs \in Seq(Cells)
    <3>1. Ends \subseteq Cells
      BY <2>2 DEF Ends, Cells
    <3>2. tree_pairs \in Seq(Ends)
      BY <2>1 DEF Typed
    <3> QED
      BY <3>1, <3>2
  <2> QED
    BY <2>1, <2>2, <2>3 DEF TypeOK, Typed, NodePairs, Cells
<1> QED
  BY InvAlways, <1>1, PTL

(***************************************************************************)
(* The walk back never ends in "Should not map incompatible nodes.",       *)
(* whatever the labels and however far they are from each other.           *)
(***************************************************************************)
THEOREM NeverPanics == Spec => [](pc # "panic")
<1>1. Inv => pc # "panic"
  BY DEF Inv, Typed
<1> QED
  BY InvAlways, <1>1, PTL

-----------------------------------------------------------------------------
(***************************************************************************)
(* Sums over finite sets, as MapThenSumSet computes them: the elements are *)
(* chosen one by one.  g gives the sum of f over each subset of U.         *)
(***************************************************************************)
SumOn(g, f, U) ==
  g = [s \in SUBSET U |-> IF s = {} THEN 0
                          ELSE f[CHOOSE x \in s : TRUE] + g[s \ {CHOOSE x \in s : TRUE}]]

(* A set without one of its elements. *)
LEMMA OneLess ==
  ASSUME NEW U, IsFiniteSet(U), NEW s \in SUBSET U
  PROVE  /\ IsFiniteSet(s) /\ Cardinality(s) \in Nat /\ Cardinality(s) <= Cardinality(U)
         /\ Cardinality(U) \in Nat
         /\ \A x \in s : /\ s \ {x} \in SUBSET U
                         /\ Cardinality(s \ {x}) = Cardinality(s) - 1 /\ Cardinality(s) > 0
<1>1. IsFiniteSet(s) /\ Cardinality(s) <= Cardinality(U)
  BY FS_Subset
<1>2. Cardinality(s) \in Nat /\ Cardinality(U) \in Nat
  BY <1>1, FS_CardinalityType
<1>3. ASSUME NEW x \in s
      PROVE  /\ s \ {x} \in SUBSET U
             /\ Cardinality(s \ {x}) = Cardinality(s) - 1 /\ Cardinality(s) > 0
  <2>1. IsFiniteSet(s \ {x}) /\ Cardinality(s \ {x}) = Cardinality(s) - 1
    BY <1>1, FS_RemoveElement
  <2>2. Cardinality(s \ {x}) \in Nat
    BY <2>1, FS_CardinalityType
  <2> QED
    BY <1>2, <2>1, <2>2
<1> QED
  BY <1>1, <1>2, <1>3

(* Such a function exists. *)
LEMMA SumExists ==
  ASSUME NEW U, IsFiniteSet(U), NEW f \in [U -> Nat]
  PROVE  \E g \in [SUBSET U -> Nat] : SumOn(g, f, U)
<1> DEFINE ch(s) == CHOOSE x \in s : TRUE
           small(n) == {s \in SUBSET U : Cardinality(s) <= n}
           val(g, s) == IF s = {} THEN 0 ELSE f[ch(s)] + g[s \ {ch(s)}]
           Upto(g, n) == g \in [small(n) -> Nat] /\ \A s \in small(n) : g[s] = val(g, s)
           bad == {n \in Nat : ~\E g : Upto(g, n)}
<1>1. \A s \in SUBSET U : s # {} => ch(s) \in s
  OBVIOUS
<1> HIDE DEF ch
<1>2. \A s \in SUBSET U : /\ Cardinality(s) \in Nat /\ Cardinality(s) <= Cardinality(U)
                          /\ s # {} => /\ s \ {ch(s)} \in SUBSET U /\ Cardinality(s) > 0
                                       /\ Cardinality(s \ {ch(s)}) = Cardinality(s) - 1
  BY <1>1, OneLess
<1>3. Cardinality(U) \in Nat
  BY FS_CardinalityType
<1>4. ASSUME bad # {} PROVE FALSE
  <2>1. PICK n \in bad : \A m \in bad : n <= m
    BY <1>4, NatMinExists
  <2>2. n \in Nat
    BY <2>1
  <2> DEFINE p == n - 1
             less == IF n = 0 THEN [s \in {} |-> 0] ELSE CHOOSE g : Upto(g, p)
             new == [s \in small(n) |-> val(less, s)]
  <2>3. n # 0 => p \in Nat /\ p < n
    BY <2>2
  <2>4. n # 0 => Upto(less, p)
    <3> SUFFICES ASSUME n # 0 PROVE Upto(less, p)
      OBVIOUS
    <3>1. p \notin bad
      <4> HIDE DEF bad, p
      <4> QED
        BY <2>1, <2>2, <2>3
    <3>2. \E g : Upto(g, p)
      <4> HIDE DEF p, Upto
      <4> QED
        BY <2>3, <3>1
    <3> HIDE DEF p, Upto
    <3> QED
      BY <3>2
  <2> HIDE DEF less
  <2>5. ASSUME NEW s \in small(n), s # {}
        PROVE  n # 0 /\ s \ {ch(s)} \in small(p)
    <3>1. /\ Cardinality(s) <= n /\ Cardinality(s) \in Nat /\ Cardinality(s) > 0
          /\ s \ {ch(s)} \in SUBSET U
          /\ Cardinality(s \ {ch(s)}) = Cardinality(s) - 1
      BY <1>2, <2>5
    <3>2. n # 0 /\ Cardinality(s \ {ch(s)}) <= p
      BY <2>2, <3>1
    <3> QED
      BY <3>1, <3>2
  <2>6. ASSUME NEW s \in small(n) PROVE val(less, s) \in Nat
    <3>1. CASE s = {}
      BY <3>1
    <3>2. CASE s # {}
      <4>1. less[s \ {ch(s)}] \in Nat
        BY <2>4, <2>5, <3>2
      <4>2. f[ch(s)] \in Nat
        BY <1>1, <3>2
      <4> QED
        BY <3>2, <4>1, <4>2
    <3> QED
      BY <3>1, <3>2
  <2>7. new \in [small(n) -> Nat]
    <3> HIDE DEF small, val
    <3> QED
      BY <2>6
  <2>8. ASSUME NEW s \in small(n), s # {}
        PROVE  new[s \ {ch(s)}] = less[s \ {ch(s)}]
    <3> DEFINE r == s \ {ch(s)}
    <3>1. n # 0 /\ r \in small(p)
      BY <2>5, <2>8
    <3> HIDE DEF r
    <3>2. r \in small(n)
      <4>1. r \in SUBSET U /\ Cardinality(r) <= p
        BY <3>1
      <4>2. Cardinality(r) \in Nat
        BY <1>2, <4>1
      <4>3. Cardinality(r) <= n
        BY <2>2, <4>1, <4>2
      <4> QED
        BY <4>1, <4>3
    <3>3. new[r] = val(less, r)
      BY <3>2
    <3>4. less[r] = val(less, r)
      BY <2>4, <3>1
    <3> QED
      BY <3>3, <3>4 DEF r
  <2>9. ASSUME NEW s \in small(n) PROVE new[s] = val(new, s)
    <3>1. new[s] = val(less, s)
      OBVIOUS
    <3> HIDE DEF new
    <3> QED
      BY <2>8, <3>1
  <2>10. Upto(new, n)
    <3> HIDE DEF new, val, small
    <3> QED
      BY <2>7, <2>9
  <2> HIDE DEF new, Upto
  <2> QED
    BY <2>1, <2>10
<1>5. PICK g : Upto(g, Cardinality(U))
  <2> HIDE DEF Upto
  <2> QED
    BY <1>3, <1>4
<1>6. small(Cardinality(U)) = SUBSET U
  BY <1>2
<1>7. g \in [SUBSET U -> Nat] /\ \A s \in SUBSET U : g[s] = val(g, s)
  BY <1>5, <1>6
<1>8. SumOn(g, f, U)
  <2>1. g = [s \in SUBSET U |-> g[s]]
    BY <1>7
  <2> QED
    BY <1>7, <2>1 DEF SumOn, ch
<1> QED
  BY <1>7, <1>8

(* The sum over a set is any of its elements and the sum over the others. *)
LEMMA SumStep ==
  ASSUME NEW U, IsFiniteSet(U), NEW f \in [U -> Nat],
         NEW g \in [SUBSET U -> Nat], SumOn(g, f, U)
  PROVE  /\ g[{}] = 0
         /\ \A s \in SUBSET U : \A a \in s : g[s] = f[a] + g[s \ {a}]
<1> DEFINE ch(s) == CHOOSE x \in s : TRUE
<1>1. \A s \in SUBSET U : g[s] = IF s = {} THEN 0 ELSE f[ch(s)] + g[s \ {ch(s)}]
  BY DEF SumOn
<1>2. \A s \in SUBSET U : s # {} => ch(s) \in s
  OBVIOUS
<1> HIDE DEF ch
<1>3. g[{}] = 0
  BY <1>1
<1> DEFINE wrong(s) == \E a \in s : g[s] # f[a] + g[s \ {a}]
           bad == {n \in Nat : \E s \in SUBSET U : Cardinality(s) = n /\ wrong(s)}
<1>4. ASSUME bad # {} PROVE FALSE
  <2>1. PICK n \in bad : \A m \in bad : n <= m
    BY <1>4, NatMinExists
  <2>2. PICK s \in SUBSET U : Cardinality(s) = n /\ wrong(s)
    BY <2>1
  <2>3. PICK a \in s : g[s] # f[a] + g[s \ {a}]
    BY <2>2
  <2> DEFINE c == ch(s)
  <2>4. c \in s /\ g[s] = f[c] + g[s \ {c}] /\ c # a
    BY <1>1, <1>2, <2>3
  <2> HIDE DEF c
  <2>5. ASSUME NEW x \in s
        PROVE  s \ {x} \in SUBSET U /\ ~wrong(s \ {x})
    <3>1. /\ s \ {x} \in SUBSET U /\ Cardinality(s \ {x}) = Cardinality(s) - 1
          /\ Cardinality(s) \in Nat /\ Cardinality(s) > 0
      BY OneLess
    <3> HIDE DEF wrong
    <3>2. n - 1 \in Nat /\ n - 1 < n /\ n \in Nat
      BY <2>2, <3>1
    <3>3. n - 1 \notin bad
      BY <2>1, <3>2
    <3>4. Cardinality(s \ {x}) = n - 1
      BY <2>2, <3>1
    <3> QED
      BY <3>1, <3>2, <3>3, <3>4
  <2>6. g[s \ {c}] = f[a] + g[(s \ {c}) \ {a}]
    <3>1. a \in s \ {c} /\ ~wrong(s \ {c})
      BY <2>3, <2>4, <2>5
    <3> QED
      BY <3>1
  <2>7. g[s \ {a}] = f[c] + g[(s \ {a}) \ {c}]
    <3>1. c \in s \ {a} /\ ~wrong(s \ {a})
      BY <2>3, <2>4, <2>5
    <3> QED
      BY <3>1
  <2>8. (s \ {c}) \ {a} = (s \ {a}) \ {c}
    OBVIOUS
  <2> DEFINE rest == g[(s \ {a}) \ {c}]
  <2>9. f[a] \in Nat /\ f[c] \in Nat /\ rest \in Nat
    BY <2>3, <2>4
  <2>10. g[s] = f[c] + (f[a] + rest) /\ g[s \ {a}] = f[c] + rest
    BY <2>4, <2>6, <2>7, <2>8
  <2> HIDE DEF rest
  <2>11. g[s] = f[a] + g[s \ {a}]
    BY <2>9, <2>10
  <2> QED
    BY <2>3, <2>11
<1>5. ASSUME NEW s \in SUBSET U PROVE ~wrong(s)
  <2>1. Cardinality(s) \in Nat
    BY OneLess
  <2> HIDE DEF wrong
  <2> QED
    BY <1>4, <2>1
<1> QED
  BY <1>3, <1>5

(* The sum over a set does not depend on the set it is a subset of. *)
LEMMA SumSmaller ==
  ASSUME NEW U, IsFiniteSet(U), NEW f, NEW g, SumOn(g, f, U),
         NEW S \in SUBSET U, NEW e, NEW h, SumOn(h, e, S), \A x \in S : e[x] = f[x]
  PROVE  h[S] = g[S]
<1> DEFINE ch(s) == CHOOSE x \in s : TRUE
<1>1. /\ \A s \in SUBSET U : g[s] = IF s = {} THEN 0 ELSE f[ch(s)] + g[s \ {ch(s)}]
      /\ \A s \in SUBSET S : h[s] = IF s = {} THEN 0 ELSE e[ch(s)] + h[s \ {ch(s)}]
  BY DEF SumOn
<1>2. \A s \in SUBSET U : s # {} => ch(s) \in s
  OBVIOUS
<1> HIDE DEF ch
<1> DEFINE bad == {n \in Nat : \E s \in SUBSET S : Cardinality(s) = n /\ h[s] # g[s]}
<1>3. ASSUME bad # {} PROVE FALSE
  <2>1. PICK n \in bad : \A m \in bad : n <= m
    BY <1>3, NatMinExists
  <2>2. PICK s \in SUBSET S : Cardinality(s) = n /\ h[s] # g[s]
    BY <2>1
  <2>3. s \in SUBSET U /\ s # {}
    BY <1>1, <2>2
  <2> DEFINE r == s \ {ch(s)}
  <2>4. /\ r \in SUBSET S /\ Cardinality(r) = n - 1 /\ n \in Nat /\ n > 0
        /\ ch(s) \in S
    <3>1. ch(s) \in s
      BY <1>2, <2>3
    <3> QED
      BY <2>2, <2>3, <3>1, OneLess
  <2>5. h[s] = e[ch(s)] + h[r] /\ g[s] = f[ch(s)] + g[r]
    BY <1>1, <2>2, <2>3
  <2> HIDE DEF r
  <2>6. n - 1 \in Nat /\ n - 1 < n
    BY <2>4
  <2>7. n - 1 \notin bad
    BY <2>1, <2>4, <2>6
  <2>8. h[r] = g[r]
    BY <2>4, <2>6, <2>7
  <2> QED
    BY <2>2, <2>4, <2>5, <2>8
<1>4. Cardinality(S) \in Nat /\ S \in SUBSET S
  BY OneLess
<1> QED
  BY <1>3, <1>4

(* The two sums of the ledger: of the costs of the pairs of S in the table *)
(* T, and of the updates of the pairs of M.                                *)
TreeSum(T, S) == MapThenSumSet(LAMBDA p : T[p], S)

(* g gives the sums of f over the subsets of U. *)
Sums(g, f, U) ==
  /\ g \in [SUBSET U -> Nat] /\ g[{}] = 0
  /\ \A s \in SUBSET U : \A a \in s : g[s] = f[a] + g[s \ {a}]

LEMMA SumsExist ==
  ASSUME NEW U, IsFiniteSet(U), NEW f \in [U -> Nat]
  PROVE  \E g : SumOn(g, f, U) /\ Sums(g, f, U)
<1>1. PICK g \in [SUBSET U -> Nat] : SumOn(g, f, U)
  BY SumExists
<1>2. g[{}] = 0 /\ \A s \in SUBSET U : \A a \in s : g[s] = f[a] + g[s \ {a}]
  BY <1>1, SumStep
<1> QED
  BY <1>1, <1>2 DEF Sums

LEMMA TreeSums ==
  ASSUME NEW U, IsFiniteSet(U), NEW f \in [U -> Nat]
  PROVE  \E g : Sums(g, f, U) /\ \A S \in SUBSET U : TreeSum(f, S) = g[S]
<1>1. PICK g : SumOn(g, f, U) /\ Sums(g, f, U)
  BY SumsExist
<1>3. ASSUME NEW S \in SUBSET U PROVE TreeSum(f, S) = g[S]
  <2> DEFINE h == CHOOSE h : SumOn(h, f, S)
  <2>1. TreeSum(f, S) = h[S]
    BY DEF TreeSum, SumOn, MapThenSumSet, MapThenFoldSet
  <2>2. IsFiniteSet(S)
    BY FS_Subset
  <2> DEFINE e == [x \in S |-> f[x]]
  <2>3. e \in [S -> Nat] /\ \A x \in S : e[x] = f[x]
    OBVIOUS
  <2> HIDE DEF e
  <2>4. PICK k \in [SUBSET S -> Nat] : SumOn(k, e, S)
    BY <2>2, <2>3, SumExists
  <2>5. SumOn(k, f, S)
    <3>1. \A s \in SUBSET S : s # {} => e[CHOOSE x \in s : TRUE] = f[CHOOSE x \in s : TRUE]
      BY <2>3
    <3> QED
      BY <2>4, <3>1 DEF SumOn
  <2>6. SumOn(h, f, S)
    BY <2>5
  <2> HIDE DEF h
  <2> QED
    BY <1>1, <2>1, <2>6, SumSmaller
<1> QED
  BY <1>1, <1>3

LEMMA CostSums ==
  ASSUME NEW t, NEW u, NEW U, IsFiniteSet(U),
         \A p \in U : get_update_cost(t, p[1], u, p[2]) \in Nat
  PROVE  \E g : /\ Sums(g, [p \in U |-> get_update_cost(t, p[1], u, p[2])], U)
                /\ \A S \in SUBSET U : UpdateCost(t, u, S) = g[S]
<1> DEFINE f == [p \in U |-> get_update_cost(t, p[1], u, p[2])]
<1>0. f \in [U -> Nat] /\ \A p \in U : f[p] = get_update_cost(t, p[1], u, p[2])
  OBVIOUS
<1> HIDE DEF f
<1>1. PICK g : SumOn(g, f, U) /\ Sums(g, f, U)
  BY <1>0, SumsExist
<1>3. ASSUME NEW S \in SUBSET U PROVE UpdateCost(t, u, S) = g[S]
  <2> DEFINE On(h) ==
        h = [s \in SUBSET S |->
               IF s = {} THEN 0
               ELSE get_update_cost(t, (CHOOSE x \in s : TRUE)[1], u, (CHOOSE x \in s : TRUE)[2])
                      + h[s \ {CHOOSE x \in s : TRUE}]]
             h == CHOOSE h : On(h)
  <2>1. UpdateCost(t, u, S) = h[S]
    BY DEF UpdateCost, MapThenSumSet, MapThenFoldSet
  <2>2. IsFiniteSet(S)
    BY FS_Subset
  <2> DEFINE e == [x \in S |-> f[x]]
  <2>3. e \in [S -> Nat] /\ \A x \in S : e[x] = f[x]
    BY <1>0
  <2> HIDE DEF e
  <2>4. PICK k \in [SUBSET S -> Nat] : SumOn(k, e, S)
    BY <2>2, <2>3, SumExists
  <2>5. \A s \in SUBSET S : s # {} =>
          e[CHOOSE x \in s : TRUE] =
            get_update_cost(t, (CHOOSE x \in s : TRUE)[1], u, (CHOOSE x \in s : TRUE)[2])
    <3>1. \A x \in S : e[x] = get_update_cost(t, x[1], u, x[2])
      BY <1>0, <2>3
    <3>2. \A s \in SUBSET S : s # {} => (CHOOSE x \in s : TRUE) \in S
      OBVIOUS
    <3> QED
      BY <3>1, <3>2, Zenon
  <2>6. On(k)
    BY <2>4, <2>5 DEF SumOn
  <2>7. On(h)
    <3> HIDE DEF On
    <3> QED
      BY <2>6
  <2>8. SumOn(h, e, S)
    <3> HIDE DEF h
    <3> QED
      BY <2>5, <2>7 DEF SumOn
  <2> HIDE DEF h, On
  <2> QED
    BY <1>1, <2>1, <2>3, <2>8, SumSmaller
<1> QED
  BY <1>1, <1>3 DEF f

-----------------------------------------------------------------------------
(***************************************************************************)
(* G solves the recursion of forest_dist, with the table T of the trees,   *)
(* for the forests of t after l and of u after m, in the rows up to i and  *)
(* the columns up to j.                                                    *)
(***************************************************************************)
Keep(t, u, T, G, l, m, x, y) ==
  IF t.lld[x] = l /\ u.lld[y] = m
  THEN G[<<x, y>>] + get_update_cost(t, x, u, y)
  ELSE G[<<t.lld[x], u.lld[y]>>] + T[<<x + 1, y + 1>>]

Solves(t, u, T, G, l, m, i, j) ==
  /\ \A c \in m .. j : G[<<l, c>>] = UNIT * (c - m)
  /\ \A x \in l .. i - 1 :
       /\ G[<<x + 1, m>>] = G[<<x, m>>] + UNIT
       /\ \A y \in m .. j - 1 :
            G[<<x + 1, y + 1>>] = Min({G[<<x, y + 1>>] + UNIT, G[<<x + 1, y>>] + UNIT,
                                       Keep(t, u, T, G, l, m, x, y)})

(* T holds what G says of the pairs of whole trees. *)
Holds(t, u, T, G, l, m, i, j) ==
  \A x \in l .. i - 1, y \in m .. j - 1 :
    t.lld[x] = l /\ u.lld[y] = m => T[<<x + 1, y + 1>>] = G[<<x + 1, y + 1>>]

(* The forests after l: the subtrees of their nodes begin in them too. *)
Inside(t, l, i) ==
  \A x \in l .. i - 1 : t.lld[x] \in Nat /\ l <= t.lld[x] /\ t.lld[x] <= x

(* Two solutions are the same. *)
LEMMA SameSolution ==
  ASSUME NEW t, NEW u, NEW T, NEW G, NEW H,
         NEW l \in Nat, NEW m \in Nat, NEW i \in Nat, NEW j \in Nat,
         Inside(t, l, i), Inside(u, m, j),
         Solves(t, u, T, G, l, m, i, j), Solves(t, u, T, H, l, m, i, j)
  PROVE  \A x \in l .. i, c \in m .. j : G[<<x, c>>] = H[<<x, c>>]
<1> DEFINE bad == {n \in Nat : \E x \in l .. i, c \in m .. j :
                                 n = x + c /\ G[<<x, c>>] # H[<<x, c>>]}
<1>1. ASSUME bad # {} PROVE FALSE
  <2>1. PICK n \in bad : \A k \in bad : n <= k
    BY <1>1, NatMinExists
  <2>2. PICK x \in l .. i, c \in m .. j : n = x + c /\ G[<<x, c>>] # H[<<x, c>>]
    BY <2>1
  <2>3. x \in Nat /\ c \in Nat /\ l <= x /\ x <= i /\ m <= c /\ c <= j /\ n = x + c
    BY <2>2
  <2>4. ASSUME NEW r \in Nat, NEW d \in Nat, l <= r, r <= x, m <= d, d <= c, r + d < n
        PROVE  G[<<r, d>>] = H[<<r, d>>]
    <3>1. r \in l .. i /\ d \in m .. j /\ r + d \in Nat /\ ~(n <= r + d)
      BY <2>3, <2>4
    <3>2. r + d \notin bad
      <4> HIDE DEF bad
      <4> QED
        BY <2>1, <3>1
    <3> QED
      BY <3>1, <3>2
  <2> HIDE DEF bad
  <2>5. x # l
    <3> SUFFICES ASSUME x = l PROVE FALSE
      OBVIOUS
    <3>1. G[<<l, c>>] = UNIT * (c - m) /\ H[<<l, c>>] = UNIT * (c - m)
      BY DEF Solves
    <3> QED
      BY <2>2, <3>1
  <2> DEFINE p == x - 1
             y == c - 1
  <2>6. p \in Nat /\ p \in l .. i - 1 /\ x = p + 1 /\ l <= p /\ p <= x /\ p + c < n
    BY <2>3, <2>5
  <2>7. c # m
    <3> SUFFICES ASSUME c = m PROVE FALSE
      OBVIOUS
    <3>1. G[<<p, m>>] = H[<<p, m>>]
      <4> HIDE DEF p
      <4>1. m <= m /\ m <= c /\ p + m < n
        BY <2>6
      <4> QED
        BY <2>4, <2>6, <4>1
    <3> HIDE DEF p
    <3>2. G[<<p + 1, m>>] = G[<<p, m>>] + UNIT /\ H[<<p + 1, m>>] = H[<<p, m>>] + UNIT
      BY <2>6 DEF Solves
    <3> QED
      BY <2>2, <2>6, <3>1, <3>2
  <2>8. y \in Nat /\ y \in m .. j - 1 /\ c = y + 1 /\ m <= y /\ y <= c /\ x + y < n /\ p + y < n
    BY <2>3, <2>6, <2>7
  <2> HIDE DEF p, y
  <2>9. /\ G[<<p, c>>] = H[<<p, c>>] /\ G[<<x, y>>] = H[<<x, y>>]
        /\ G[<<p, y>>] = H[<<p, y>>]
    BY <2>3, <2>4, <2>6, <2>8
  <2> DEFINE a == t.lld[p]
             b == u.lld[y]
  <2>10. a \in Nat /\ l <= a /\ a <= p /\ b \in Nat /\ m <= b /\ b <= y
    BY <2>6, <2>8 DEF Inside
  <2> HIDE DEF a, b
  <2>11. a <= x /\ b <= c /\ a + b < n
    BY <2>3, <2>6, <2>8, <2>10
  <2>12. G[<<a, b>>] = H[<<a, b>>]
    BY <2>4, <2>10, <2>11
  <2>13. Keep(t, u, T, G, l, m, p, y) = Keep(t, u, T, H, l, m, p, y)
    BY <2>9, <2>12, Zenon DEF Keep, a, b
  <2>14. /\ G[<<p + 1, y + 1>>] = Min({G[<<p, y + 1>>] + UNIT, G[<<p + 1, y>>] + UNIT,
                                       Keep(t, u, T, G, l, m, p, y)})
         /\ H[<<p + 1, y + 1>>] = Min({H[<<p, y + 1>>] + UNIT, H[<<p + 1, y>>] + UNIT,
                                       Keep(t, u, T, H, l, m, p, y)})
    BY <2>6, <2>8, Zenon DEF Solves
  <2>15. /\ G[<<x, c>>] = Min({G[<<p, c>>] + UNIT, G[<<x, y>>] + UNIT,
                               Keep(t, u, T, G, l, m, p, y)})
         /\ H[<<x, c>>] = Min({H[<<p, c>>] + UNIT, H[<<x, y>>] + UNIT,
                               Keep(t, u, T, H, l, m, p, y)})
    BY <2>6, <2>8, <2>14, Zenon
  <2> QED
    BY <2>2, <2>9, <2>13, <2>15, Zenon
<1>2. ASSUME NEW x \in l .. i, NEW c \in m .. j PROVE G[<<x, c>>] = H[<<x, c>>]
  <2>1. x + c \in Nat
    OBVIOUS
  <2> QED
    BY <1>1, <2>1
<1> QED
  BY <1>2

(* A solution solves any smaller region, whatever T holds elsewhere. *)
LEMMA SolvesLess ==
  ASSUME NEW t, NEW u, NEW T, NEW V, NEW G, NEW l \in Nat, NEW m \in Nat,
         NEW i \in Nat, NEW j \in Nat, NEW h \in Nat, NEW k \in Nat, h <= i, k <= j,
         \A x \in l .. h - 1, y \in m .. k - 1 :
           ~(t.lld[x] = l /\ u.lld[y] = m) => V[<<x + 1, y + 1>>] = T[<<x + 1, y + 1>>],
         Solves(t, u, T, G, l, m, i, j)
  PROVE  Solves(t, u, V, G, l, m, h, k)
<1>1. \A c \in m .. k : c \in m .. j
  OBVIOUS
<1>2. \A x \in l .. h - 1 : x \in l .. i - 1
  OBVIOUS
<1>3. \A y \in m .. k - 1 : y \in m .. j - 1
  OBVIOUS
<1>4. ASSUME NEW x \in l .. h - 1, NEW y \in m .. k - 1
      PROVE  Keep(t, u, V, G, l, m, x, y) = Keep(t, u, T, G, l, m, x, y)
  BY DEF Keep
<1>5. \A c \in m .. k : G[<<l, c>>] = UNIT * (c - m)
  BY <1>1 DEF Solves
<1>6. \A x \in l .. h - 1 : G[<<x + 1, m>>] = G[<<x, m>>] + UNIT
  BY <1>2 DEF Solves
<1>7. ASSUME NEW x \in l .. h - 1, NEW y \in m .. k - 1
      PROVE  G[<<x + 1, y + 1>>] = Min({G[<<x, y + 1>>] + UNIT, G[<<x + 1, y>>] + UNIT,
                                        Keep(t, u, V, G, l, m, x, y)})
  <2>1. G[<<x + 1, y + 1>>] = Min({G[<<x, y + 1>>] + UNIT, G[<<x + 1, y>>] + UNIT,
                                   Keep(t, u, T, G, l, m, x, y)})
    BY <1>2, <1>3, Zenon DEF Solves
  <2> QED
    BY <1>4, <2>1, Zenon
<1> QED
  BY <1>5, <1>6, <1>7, Zenon DEF Solves

(***************************************************************************)
(* Each node has a key root, the highest of its left-most chain, and a key *)
(* root of a subtree's nodes is in the subtree if the subtree's root is    *)
(* one too.                                                                *)
(***************************************************************************)
LEMMA KeyRootOf ==
  ASSUME NEW t, IsTree(t), NEW x \in nodes(t)
  PROVE  \E a \in kr(t) : a \in nodes(t) /\ t.lld[a] = t.lld[x] /\ x <= a
<1> DEFINE S == {y \in nodes(t) : t.lld[y] = t.lld[x]}
<1>1. /\ root(t) \in Nat /\ nodes(t) = 0 .. root(t) /\ x \in Nat
      /\ \A y \in nodes(t) : y \in Nat /\ y <= root(t)
  BY RootIsNode, NodeTypes DEF nodes
<1>2. \E a \in S : \A y \in S : y <= a
  <2>1. S \subseteq Nat /\ S # {} /\ \A y \in S : y <= root(t)
    BY <1>1
  <2> HIDE DEF S
  <2> QED
    BY <1>1, <2>1, MaxOfBounded
<1>3. PICK a \in S : \A y \in S : y <= a
  BY <1>2
<1>4. a \in nodes(t) /\ t.lld[a] = t.lld[x] /\ x <= a /\ a \in Nat /\ a <= root(t)
  BY <1>1, <1>3
<1>5. \A y \in a + 1 .. root(t) : t.lld[y] # t.lld[a]
  <2> SUFFICES ASSUME NEW y \in a + 1 .. root(t), t.lld[y] = t.lld[a] PROVE FALSE
    OBVIOUS
  <2>1. y \in nodes(t) /\ y > a
    BY <1>1, <1>4
  <2>2. y \in S
    BY <1>4, <2>1
  <2> QED
    BY <1>1, <1>3, <1>4, <2>1, <2>2
<1>6. a \in kr(t)
  <2>1. CASE a = 0
    <3>1. t.lld[a] = 0
      <4>1. t.lld[a] \in Nat /\ t.lld[a] <= a
        BY <1>4, NodeTypes
      <4> QED
        BY <2>1, <4>1
    <3>2. t.lld[root(t)] = t.lld[a]
      BY <3>1 DEF IsTree, TreeShape
    <3>3. ~(root(t) \in a + 1 .. root(t))
      BY <1>5, <3>2
    <3>4. a = root(t)
      BY <1>1, <1>4, <3>3
    <3> QED
      BY <3>4 DEF kr
  <2>2. CASE a # 0
    <3>1. a \in 1 .. root(t)
      BY <1>1, <1>4, <2>2
    <3> QED
      BY <1>5, <3>1 DEF kr
  <2> QED
    BY <2>1, <2>2
<1> QED
  BY <1>4, <1>6

LEMMA KeyRootInside ==
  ASSUME NEW t, IsTree(t), NEW a \in kr(t), NEW b \in kr(t), NEW x \in Subtree(t, a),
         t.lld[x] = t.lld[b]
  PROVE  b <= a
<1>1. /\ root(t) \in nodes(t) /\ root(t) \in Nat /\ nodes(t) = 0 .. root(t)
      /\ \A y \in nodes(t) : y \in Nat /\ y <= root(t)
  BY RootIsNode, NodeTypes DEF nodes
<1>2. a \in nodes(t) /\ b \in nodes(t)
  BY <1>1 DEF kr
<1>3. x \in nodes(t) /\ t.lld[a] <= x /\ x <= a /\ t.lld[a] <= t.lld[x]
  <2>1. x \in nodes(t)
    BY <1>2, SubtreeInNodes
  <2>2. t.lld[a] \in Nat /\ x \in Nat
    BY <1>1, <1>2, <2>1, NodeTypes
  <2> QED
    BY <1>2, <2>1, <2>2 DEF Subtree, IsTree, Laminar
<1>4. /\ t.lld[a] \in Nat /\ t.lld[b] \in Nat /\ t.lld[x] <= x /\ a \in Nat /\ b \in Nat
      /\ x \in Nat
  BY <1>1, <1>2, <1>3, NodeTypes
<1> SUFFICES ASSUME b > a PROVE FALSE
  BY <1>4
<1>5. a \in Subtree(t, b)
  BY <1>3, <1>4 DEF Subtree
<1>6. t.lld[b] <= t.lld[a]
  BY <1>2, <1>5 DEF IsTree, Laminar
<1>7. t.lld[a] = t.lld[b]
  BY <1>3, <1>4, <1>6
<1>8. a # root(t) /\ b \in a + 1 .. root(t)
  BY <1>1, <1>2, <1>4
<1>9. t.lld[b] # t.lld[a]
  BY <1>8 DEF kr
<1> QED
  BY <1>7, <1>9

-----------------------------------------------------------------------------
(***************************************************************************)
(* The distances of the pair p and of the pairs of whole trees inside it   *)
(* are final in the table T.                                               *)
(***************************************************************************)
DoneIn(t, u, T, p) ==
  \E G : /\ Solves(t, u, T, G, t.lld[p[1]], u.lld[p[2]], p[1] + 1, p[2] + 1)
         /\ Holds(t, u, T, G, t.lld[p[1]], u.lld[p[2]], p[1] + 1, p[2] + 1)

(* The rows filled so far, and what the table of the trees took from them. *)
Current ==
  /\ Solves(src, dst, tree, forest, first_row, first_col, di, pair[2] + 1)
  /\ Holds(src, dst, tree, forest, first_row, first_col, di, pair[2] + 1)

(* compute_dist fills the table of one of its pairs *)
Filling == root_node_pair /\ pc = "rows"
Left == Range(kr_pairs)

(***************************************************************************)
(* compute_dist: the pairs left come later than all the others, and those  *)
(* are final, but for the one that is being filled.  Afterwards all are.   *)
(***************************************************************************)
Queue ==
  /\ Ascending(kr_pairs) /\ Left \subseteq KeyRoots
  /\ root_node_pair => pair \in KeyRoots
  /\ Filling =>
       /\ \A q \in Left : earlier(pair, q)
       /\ \A q \in KeyRoots \ Left :
            q = pair \/ (DoneIn(src, dst, tree, q) /\ earlier(q, pair))
  /\ ~Filling =>
       \A q \in KeyRoots \ Left :
         DoneIn(src, dst, tree, q) /\ \A r \in Left : earlier(q, r)
  /\ ~root_node_pair \/ pc = "pop" => Left = {}

Tables ==
  /\ Queue
  /\ pc \in {"rows", "walk"} \/ (root_node_pair /\ kr_pairs = <<>>) => Current

(* The nodes of a subtree, and where theirs begin. *)
LEMMA InSubtree ==
  ASSUME NEW t, IsTree(t), NEW a \in nodes(t)
  PROVE  /\ a \in Nat /\ t.lld[a] \in Nat /\ t.lld[a] <= a /\ a + 1 <= t.len /\ t.len \in Nat
         /\ \A x \in t.lld[a] .. a :
              /\ x \in nodes(t) /\ x \in Nat /\ x \in Subtree(t, a)
              /\ t.lld[x] \in Nat /\ t.lld[a] <= t.lld[x] /\ t.lld[x] <= x
<1>1. /\ nodes(t) = 0 .. root(t) /\ root(t) = t.len - 1 /\ t.len \in Nat
      /\ a \in Nat /\ t.lld[a] \in Nat /\ t.lld[a] <= a
  BY NodeTypes DEF nodes, root, IsTree, TreeShape
<1>2. ASSUME NEW x \in t.lld[a] .. a
      PROVE  /\ x \in nodes(t) /\ x \in Nat /\ x \in Subtree(t, a)
             /\ t.lld[x] \in Nat /\ t.lld[a] <= t.lld[x] /\ t.lld[x] <= x
  <2>1. x \in Subtree(t, a)
    BY DEF Subtree
  <2>2. x \in nodes(t)
    BY <2>1, SubtreeInNodes
  <2>3. x \in Nat /\ t.lld[x] \in Nat /\ t.lld[x] <= x
    BY <2>2, NodeTypes
  <2>4. t.lld[a] <= t.lld[x]
    BY <2>1 DEF IsTree, Laminar
  <2> QED
    BY <2>1, <2>2, <2>3, <2>4
<1>3. a + 1 <= t.len
  BY <1>1
<1> QED
  BY <1>1, <1>2, <1>3

(* What a new row writes in the table of the trees. *)
LEMMA FillRowWrites ==
  ASSUME Inv, FillRow
  PROVE  /\ src' = src /\ dst' = dst /\ pair' = pair /\ pc' = "rows" /\ di' = di + 1
         /\ UNCHANGED <<kr_pairs, root_node_pair, tree_pairs, row, col, mappings>>
         /\ first_row' = first_row /\ first_col' = first_col /\ cols' = cols
         /\ di \in Nat /\ first_row <= di /\ di <= pair[1]
         /\ \A x \in first_row .. di, c \in cols :
              forest'[<<x, c>>] = forest[<<x, c>>]
         /\ \A c \in cols : forest'[<<di + 1, c>>] = next_row(di)[c]
         /\ tree' \in [Cells -> Nat]
         /\ \A rc \in Cells :
              \/ tree'[rc] = tree[rc]
              \/ \E y \in first_col .. pair[2] :
                   /\ rc = <<di + 1, y + 1>> /\ whole_trees(di, y)
                   /\ tree'[rc] = next_row(di)[y + 1]
         /\ \A y \in first_col .. pair[2] :
              whole_trees(di, y) => tree'[<<di + 1, y + 1>>] = next_row(di)[y + 1]
<1> DEFINE f == next_row(di)
           fr == first_row
           fc == first_col
           e == pair[2]
           inTree(rc) == /\ rc[1] = di + 1 /\ rc[2] \in cols
                         /\ rc[2] > first_col /\ whole_trees(di, rc[2] - 1)
<1>1. /\ Typed /\ Table /\ pc = "rows" /\ di <= pair[1]
      /\ src' = src /\ dst' = dst /\ pair' = pair /\ pc' = "rows" /\ di' = di + 1
      /\ UNCHANGED <<kr_pairs, root_node_pair, tree_pairs, row, col, mappings>>
      /\ forest' = [rc \in DOMAIN forest |->
                      IF rc[1] = di + 1 /\ rc[2] \in cols THEN f[rc[2]] ELSE forest[rc]]
      /\ tree' = [rc \in DOMAIN tree |-> IF inTree(rc) THEN f[rc[2]] ELSE tree[rc]]
  BY DEF Inv, FillRow, arenas
<1>2. first_row' = fr /\ first_col' = fc /\ cols' = cols
  BY <1>1 DEF first_row, first_col, cols
<1>3. tree' \in [Cells -> Nat]
  <2>1. Inv'
    BY InvFillRow
  <2>2. Cells' = Cells
    BY <1>1 DEF Cells
  <2> QED
    BY <2>1, <2>2 DEF Inv, Typed
<1> HIDE DEF f
<1>4. /\ fr \in Nat /\ fc \in Nat /\ e \in Nat /\ fc <= e /\ e + 1 <= dst.len
      /\ pair[1] \in Nat /\ pair[1] + 1 <= src.len /\ src.len \in Nat /\ dst.len \in Nat
      /\ DOMAIN forest = Cells /\ DOMAIN tree = Cells /\ cols = fc .. e + 1
      /\ di \in fr .. pair[1] + 1
  <2>1. /\ src.len \in Nat /\ dst.len \in Nat /\ pair[1] \in Nat /\ pair[2] \in Nat
        /\ pair[1] + 1 <= src.len /\ pair[2] + 1 <= dst.len
        /\ first_row \in Nat /\ first_col \in Nat /\ first_col <= pair[2]
        /\ DOMAIN forest = Cells /\ DOMAIN tree = Cells
    BY <1>1, TableFacts
  <2>2. cols = fc .. e + 1
    BY DEF cols
  <2>3. di \in fr .. pair[1] + 1
    BY <1>1 DEF Table
  <2> QED
    BY <2>1, <2>2, <2>3
<1> HIDE DEF fr, fc, e
<1>5. di \in Nat /\ fr <= di /\ di <= pair[1]
  BY <1>1, <1>4
<1>6. ASSUME NEW x \in fr .. di + 1, NEW c \in cols
      PROVE  <<x, c>> \in Cells
  <2>1. x \in 0 .. src.len
    BY <1>4, <1>5
  <2>2. c \in 0 .. dst.len
    BY <1>4
  <2> QED
    BY <2>1, <2>2 DEF Cells
<1>7. ASSUME NEW x \in fr .. di, NEW c \in cols
      PROVE  forest'[<<x, c>>] = forest[<<x, c>>]
  <2>1. x \in fr .. di + 1 /\ x # di + 1
    BY <1>4, <1>5
  <2>2. <<x, c>> \in Cells
    BY <1>6, <2>1
  <2> QED
    BY <1>1, <1>4, <2>1, <2>2
<1>8. ASSUME NEW c \in cols PROVE forest'[<<di + 1, c>>] = f[c]
  <2>1. di + 1 \in fr .. di + 1
    BY <1>4, <1>5
  <2>2. <<di + 1, c>> \in Cells
    BY <1>6, <2>1
  <2> QED
    BY <1>1, <1>4, <2>2
<1>9. ASSUME NEW rc \in Cells, tree'[rc] # tree[rc]
      PROVE  \E y \in fc .. e : /\ rc = <<di + 1, y + 1>> /\ whole_trees(di, y)
                                /\ tree'[rc] = f[y + 1]
  <2>1. inTree(rc) /\ tree'[rc] = f[rc[2]]
    <3> HIDE DEF inTree
    <3> QED
      BY <1>1, <1>4, <1>9
  <2>2. rc = <<rc[1], rc[2]>>
    BY DEF Cells
  <2> DEFINE y == rc[2] - 1
  <2>3. rc[2] \in fc .. e + 1 /\ rc[2] > fc
    BY <1>4, <2>1 DEF fc
  <2>4. y \in fc .. e /\ rc[2] = y + 1
    BY <1>4, <2>3
  <2>5. whole_trees(di, y)
    BY <2>1
  <2> HIDE DEF y
  <2>6. rc = <<di + 1, y + 1>> /\ tree'[rc] = f[y + 1]
    BY <2>1, <2>2, <2>4
  <2> QED
    BY <2>4, <2>5, <2>6
<1>10. ASSUME NEW y \in fc .. e, whole_trees(di, y)
       PROVE  tree'[<<di + 1, y + 1>>] = f[y + 1]
  <2> DEFINE rc == <<di + 1, y + 1>>
             z == rc[2] - 1
  <2>1. y + 1 \in cols /\ y + 1 > fc /\ z = y /\ di + 1 \in fr .. di + 1
    BY <1>4, <1>5
  <2>2. rc \in Cells
    BY <1>6, <2>1
  <2>3. whole_trees(di, z)
    BY <1>10, <2>1
  <2>4. inTree(rc)
    BY <2>1, <2>3 DEF fc
  <2> HIDE DEF inTree
  <2>5. tree'[rc] = f[rc[2]]
    BY <1>1, <1>4, <2>2, <2>4
  <2> QED
    BY <2>5
<1> QED
  BY <1>1, <1>2, <1>3, <1>5, <1>7, <1>8, <1>9, <1>10 DEF f, fr, fc, e

(* A row that forest_dist adds goes on with the solution. *)
LEMMA CurrentRow ==
  ASSUME Inv, Current, FillRow
  PROVE  Current'
<1> DEFINE f == next_row(di)
           l == first_row
           m == first_col
           e == pair[2]
<1>1. /\ src' = src /\ dst' = dst /\ pair' = pair /\ di' = di + 1
      /\ first_row' = l /\ first_col' = m /\ cols' = cols
      /\ di \in Nat /\ l <= di /\ di <= pair[1]
      /\ \A x \in l .. di, c \in cols : forest'[<<x, c>>] = forest[<<x, c>>]
      /\ \A c \in cols : forest'[<<di + 1, c>>] = f[c]
      /\ \A rc \in Cells :
           \/ tree'[rc] = tree[rc]
           \/ \E y \in m .. e : /\ rc = <<di + 1, y + 1>> /\ whole_trees(di, y)
                                /\ tree'[rc] = f[y + 1]
      /\ \A y \in m .. e : whole_trees(di, y) => tree'[<<di + 1, y + 1>>] = f[y + 1]
  BY FillRowWrites
<1>2. Typed /\ IsTree(src) /\ IsTree(dst) /\ pair[1] \in nodes(src) /\ pair[2] \in nodes(dst)
  BY TableFacts DEF Inv
<1>3. /\ \A x \in l .. pair[1] :
           /\ x \in nodes(src) /\ x \in Nat /\ src.lld[x] \in Nat
           /\ l <= src.lld[x] /\ src.lld[x] <= x
      /\ \A y \in m .. e :
           /\ y \in Nat /\ dst.lld[y] \in Nat /\ m <= dst.lld[y] /\ dst.lld[y] <= y
      /\ l \in Nat /\ pair[1] \in Nat /\ pair[1] + 1 <= src.len /\ src.len \in Nat
      /\ m \in Nat /\ e \in Nat /\ m <= e /\ e + 1 <= dst.len /\ dst.len \in Nat
  BY <1>2, InSubtree DEF first_row, first_col
<1>4. di \in nodes(src)
  <2>1. di \in l .. pair[1]
    BY <1>1, <1>3
  <2> QED
    BY <1>3, <2>1
<1>5. /\ f[m] = forest[<<di, m>>] + UNIT
      /\ \A c \in cols \ {m} :
           f[c] = Min({forest[<<di, c>>] + UNIT, f[c - 1] + UNIT, keep_last(di, c - 1)})
  BY <1>2, <1>4, NextRow
<1>6. cols = m .. e + 1
  BY DEF cols
<1>7. /\ Solves(src, dst, tree, forest, l, m, di, e + 1)
      /\ Holds(src, dst, tree, forest, l, m, di, e + 1)
  BY DEF Current
<1>8. \A x, y : whole_trees(x, y) <=> src.lld[x] = l /\ dst.lld[y] = m
  BY DEF whole_trees
<1>9. \A y : keep_last(di, y) = Keep(src, dst, tree, forest, l, m, di, y)
  BY <1>8, Zenon DEF keep_last, Keep
<1> HIDE DEF f, l, m, e
<1>10. /\ m \in cols /\ m .. (e + 1) - 1 = m .. e
       /\ \A y \in m .. e : y \in cols /\ y + 1 \in cols \ {m} /\ (y + 1) - 1 = y
  BY <1>3, <1>6
<1>11. /\ \A x \in l .. di - 1 : x \in l .. di /\ x + 1 \in l .. di /\ x \in l .. pair[1]
       /\ l \in l .. di /\ di \in l .. di /\ (di + 1) - 1 = di /\ di \in l .. pair[1]
  BY <1>1, <1>3
<1>12. ASSUME NEW x \in l .. di, NEW y \in m .. e
       PROVE  /\ <<x + 1, y + 1>> \in Cells
              /\ src.lld[x] \in l .. di /\ dst.lld[y] \in cols
              /\ x \in l .. pair[1]
  <2>1. x \in l .. pair[1] /\ x <= di /\ x \in Nat
    BY <1>1, <1>3
  <2>2. x + 1 \in 0 .. src.len
    BY <1>3, <2>1
  <2>3. y + 1 \in 0 .. dst.len
    BY <1>3
  <2>4. src.lld[x] \in Nat /\ l <= src.lld[x] /\ src.lld[x] <= x
    BY <1>3, <2>1
  <2>5. src.lld[x] \in l .. di
    BY <1>1, <1>3, <2>1, <2>4
  <2>6. dst.lld[y] \in Nat /\ m <= dst.lld[y] /\ dst.lld[y] <= y
    BY <1>3
  <2>7. dst.lld[y] \in cols
    BY <1>3, <1>6, <2>6
  <2> QED
    BY <2>1, <2>2, <2>3, <2>5, <2>7 DEF Cells
(* the two ways that cells of the tables are read do not change *)
<1>13. ASSUME NEW x \in l .. di, NEW y \in m .. e
       PROVE  Keep(src, dst, tree', forest', l, m, x, y) = Keep(src, dst, tree, forest, l, m, x, y)
  <2>1. CASE src.lld[x] = l /\ dst.lld[y] = m
    <3>1. forest'[<<x, y>>] = forest[<<x, y>>]
      BY <1>1, <1>10
    <3> QED
      BY <2>1, <3>1, Zenon DEF Keep
  <2>2. CASE ~(src.lld[x] = l /\ dst.lld[y] = m)
    <3>1. forest'[<<src.lld[x], dst.lld[y]>>] = forest[<<src.lld[x], dst.lld[y]>>]
      BY <1>1, <1>12
    <3>2. tree'[<<x + 1, y + 1>>] = tree[<<x + 1, y + 1>>]
      <4> SUFFICES ASSUME tree'[<<x + 1, y + 1>>] # tree[<<x + 1, y + 1>>] PROVE FALSE
        OBVIOUS
      <4>1. PICK z \in m .. e : <<x + 1, y + 1>> = <<di + 1, z + 1>> /\ whole_trees(di, z)
        BY <1>1, <1>12
      <4>2. x + 1 = di + 1 /\ y + 1 = z + 1
        BY <4>1
      <4>3. x = di /\ y = z
        BY <1>1, <1>3, <4>2
      <4> QED
        BY <1>8, <2>2, <4>1, <4>3
    <3> QED
      BY <2>2, <3>1, <3>2, Zenon DEF Keep
  <2> QED
    BY <2>1, <2>2
<1>14. \A c \in m .. e + 1 : forest'[<<l, c>>] = UNIT * (c - m)
  <2>1. \A c \in m .. e + 1 : forest[<<l, c>>] = UNIT * (c - m)
    BY <1>7, Zenon DEF Solves
  <2> QED
    BY <1>1, <1>6, <1>11, <2>1
<1>15. ASSUME NEW x \in l .. di
       PROVE  /\ forest'[<<x + 1, m>>] = forest'[<<x, m>>] + UNIT
              /\ \A y \in m .. e :
                   forest'[<<x + 1, y + 1>>] =
                     Min({forest'[<<x, y + 1>>] + UNIT, forest'[<<x + 1, y>>] + UNIT,
                          Keep(src, dst, tree', forest', l, m, x, y)})
  <2>1. CASE x = di
    <3>1. forest'[<<x + 1, m>>] = forest'[<<x, m>>] + UNIT
      BY <1>1, <1>5, <1>10, <2>1
    <3>2. ASSUME NEW y \in m .. e
          PROVE  forest'[<<x + 1, y + 1>>] =
                   Min({forest'[<<x, y + 1>>] + UNIT, forest'[<<x + 1, y>>] + UNIT,
                        Keep(src, dst, tree', forest', l, m, x, y)})
      <4>1. f[y + 1] = Min({forest[<<di, y + 1>>] + UNIT, f[(y + 1) - 1] + UNIT,
                            keep_last(di, (y + 1) - 1)})
        BY <1>5, <1>10
      <4>2. f[y + 1] = Min({forest[<<di, y + 1>>] + UNIT, f[y] + UNIT,
                            Keep(src, dst, tree, forest, l, m, di, y)})
        BY <1>9, <1>10, <4>1, Zenon
      <4>3. /\ forest'[<<di + 1, y + 1>>] = f[y + 1] /\ forest'[<<di + 1, y>>] = f[y]
            /\ forest'[<<di, y + 1>>] = forest[<<di, y + 1>>]
        BY <1>1, <1>10, <1>11
      <4>4. Keep(src, dst, tree', forest', l, m, di, y) = Keep(src, dst, tree, forest, l, m, di, y)
        BY <1>13, <1>11
      <4> QED
        BY <2>1, <4>2, <4>3, <4>4, Zenon
    <3> QED
      BY <3>1, <3>2
  <2>2. CASE x # di
    <3>1. x \in l .. di - 1 /\ x + 1 \in l .. di
      BY <1>1, <1>3, <2>2
    <3>2. forest'[<<x + 1, m>>] = forest'[<<x, m>>] + UNIT
      <4>1. forest[<<x + 1, m>>] = forest[<<x, m>>] + UNIT
        BY <1>7, <3>1, Zenon DEF Solves
      <4> QED
        BY <1>1, <1>10, <3>1, <4>1
    <3>3. ASSUME NEW y \in m .. e
          PROVE  forest'[<<x + 1, y + 1>>] =
                   Min({forest'[<<x, y + 1>>] + UNIT, forest'[<<x + 1, y>>] + UNIT,
                        Keep(src, dst, tree', forest', l, m, x, y)})
      <4>1. forest[<<x + 1, y + 1>>] =
              Min({forest[<<x, y + 1>>] + UNIT, forest[<<x + 1, y>>] + UNIT,
                   Keep(src, dst, tree, forest, l, m, x, y)})
        BY <1>7, <1>10, <3>1, Zenon DEF Solves
      <4>2. /\ forest'[<<x + 1, y + 1>>] = forest[<<x + 1, y + 1>>]
            /\ forest'[<<x + 1, y>>] = forest[<<x + 1, y>>]
            /\ forest'[<<x, y + 1>>] = forest[<<x, y + 1>>]
        BY <1>1, <1>10, <3>1
      <4> QED
        BY <1>13, <4>1, <4>2, Zenon
    <3> QED
      BY <3>2, <3>3
  <2> QED
    BY <2>1, <2>2
<1>16. Solves(src, dst, tree', forest', l, m, di + 1, e + 1)
  BY <1>10, <1>11, <1>14, <1>15, Zenon DEF Solves
<1>17. ASSUME NEW x \in l .. di, NEW y \in m .. e, src.lld[x] = l, dst.lld[y] = m
       PROVE  tree'[<<x + 1, y + 1>>] = forest'[<<x + 1, y + 1>>]
  <2>1. CASE x = di
    <3>1. whole_trees(di, y)
      BY <1>8, <1>17, <2>1
    <3> QED
      BY <1>1, <1>10, <2>1, <3>1
  <2>2. CASE x # di
    <3>1. x \in l .. di - 1 /\ x + 1 \in l .. di
      BY <1>1, <1>3, <2>2
    <3>2. tree[<<x + 1, y + 1>>] = forest[<<x + 1, y + 1>>]
      BY <1>7, <1>10, <1>17, <3>1, Zenon DEF Holds
    <3>3. forest'[<<x + 1, y + 1>>] = forest[<<x + 1, y + 1>>]
      BY <1>1, <1>10, <3>1
    <3>4. tree'[<<x + 1, y + 1>>] = tree[<<x + 1, y + 1>>]
      <4> SUFFICES ASSUME tree'[<<x + 1, y + 1>>] # tree[<<x + 1, y + 1>>] PROVE FALSE
        OBVIOUS
      <4>1. PICK z \in m .. e : <<x + 1, y + 1>> = <<di + 1, z + 1>>
        BY <1>1, <1>12
      <4>2. x + 1 = di + 1
        BY <4>1
      <4> QED
        BY <1>1, <1>3, <2>2, <4>2
    <3> QED
      BY <3>2, <3>3, <3>4
  <2> QED
    BY <2>1, <2>2
<1>18. Holds(src, dst, tree', forest', l, m, di + 1, e + 1)
  BY <1>10, <1>11, <1>17, Zenon DEF Holds
<1> QED
  BY <1>1, <1>16, <1>18 DEF Current, e

(***************************************************************************)
(* When all the pairs of key roots are final, forest_dist writes what the  *)
(* table of the trees holds: the pair's key roots begin with the same      *)
(* leaves, so the forests of the pair are forests of theirs.               *)
(***************************************************************************)
LEMMA RefillSame ==
  ASSUME Inv, Current, FillRow, \A q \in KeyRoots : DoneIn(src, dst, tree, q)
  PROVE  tree' = tree
<1> DEFINE l == first_row
           m == first_col
           e == pair[2]
<1>1. /\ src' = src /\ dst' = dst /\ pair' = pair /\ di' = di + 1
      /\ first_row' = l /\ first_col' = m /\ cols' = cols
      /\ di \in Nat /\ l <= di /\ di <= pair[1]
      /\ tree' \in [Cells -> Nat]
      /\ \A rc \in Cells :
           \/ tree'[rc] = tree[rc]
           \/ \E y \in m .. e : /\ rc = <<di + 1, y + 1>> /\ whole_trees(di, y)
                                /\ tree'[rc] = next_row(di)[y + 1]
      /\ \A c \in cols : forest'[<<di + 1, c>>] = next_row(di)[c]
  BY FillRowWrites
<1>2. /\ Typed /\ IsTree(src) /\ IsTree(dst)
      /\ pair[1] \in nodes(src) /\ pair[2] \in nodes(dst)
      /\ tree \in [Cells -> Nat]
  BY TableFacts DEF Inv, Typed
<1>3. /\ \A x \in l .. pair[1] :
           /\ x \in Nat /\ src.lld[x] \in Nat /\ l <= src.lld[x] /\ src.lld[x] <= x
      /\ \A y \in m .. e :
           /\ y \in Nat /\ dst.lld[y] \in Nat /\ m <= dst.lld[y] /\ dst.lld[y] <= y
      /\ l \in Nat /\ pair[1] \in Nat /\ pair[1] + 1 <= src.len /\ src.len \in Nat
      /\ m \in Nat /\ e \in Nat /\ m <= e /\ e + 1 <= dst.len /\ dst.len \in Nat
  BY <1>2, InSubtree DEF first_row, first_col
<1>4. PICK a \in kr(src) : a \in nodes(src) /\ src.lld[a] = l /\ pair[1] <= a
  BY <1>2, KeyRootOf DEF first_row
<1>5. PICK b \in kr(dst) : b \in nodes(dst) /\ dst.lld[b] = m /\ e <= b
  BY <1>2, KeyRootOf DEF first_col
<1>6. a \in Nat /\ b \in Nat
  BY <1>2, <1>4, <1>5, NodeTypes
<1> HIDE DEF l, m, e
<1>7. PICK G : /\ Solves(src, dst, tree, G, l, m, a + 1, b + 1)
               /\ Holds(src, dst, tree, G, l, m, a + 1, b + 1)
  <2>1. <<a, b>> \in KeyRoots /\ <<a, b>>[1] = a /\ <<a, b>>[2] = b
    BY DEF KeyRoots
  <2>2. DoneIn(src, dst, tree, <<a, b>>)
    BY <2>1
  <2> QED
    BY <1>4, <1>5, <2>1, <2>2 DEF DoneIn
<1>8. di + 1 \in Nat /\ e + 1 \in Nat /\ a + 1 \in Nat /\ b + 1 \in Nat
      /\ di + 1 <= a + 1 /\ e + 1 <= b + 1
  BY <1>1, <1>3, <1>4, <1>5, <1>6
<1>9. Solves(src, dst, tree, G, l, m, di + 1, e + 1)
  <2> HIDE DEF Inv, Current, FillRow
  <2> QED
    BY <1>3, <1>7, <1>8, SolvesLess
<1>10. ASSUME NEW x \in l .. (di + 1) - 1, NEW y \in m .. (e + 1) - 1
       PROVE  x \in l .. pair[1] /\ y \in m .. e /\ <<x + 1, y + 1>> \in Cells
  <2>1. x \in l .. pair[1] /\ y \in m .. e
    BY <1>1, <1>3
  <2>2. x + 1 \in 0 .. src.len
    BY <1>3, <2>1
  <2>3. y + 1 \in 0 .. dst.len
    BY <1>3, <2>1
  <2> QED
    BY <2>1, <2>2, <2>3 DEF Cells
<1>11. ASSUME NEW x \in l .. (di + 1) - 1, NEW y \in m .. (e + 1) - 1,
              ~(src.lld[x] = l /\ dst.lld[y] = m)
       PROVE  tree[<<x + 1, y + 1>>] = tree'[<<x + 1, y + 1>>]
  <2> SUFFICES ASSUME tree'[<<x + 1, y + 1>>] # tree[<<x + 1, y + 1>>] PROVE FALSE
    OBVIOUS
  <2>1. PICK z \in m .. e : <<x + 1, y + 1>> = <<di + 1, z + 1>> /\ whole_trees(di, z)
    BY <1>1, <1>10
  <2>2. x + 1 = di + 1 /\ y + 1 = z + 1
    BY <2>1
  <2>3. x = di /\ y = z
    BY <1>1, <1>3, <1>10, <2>2
  <2> QED
    BY <1>11, <2>1, <2>3 DEF whole_trees, l, m
<1>12. Solves(src, dst, tree, forest', l, m, di + 1, e + 1)
  <2>1. Current'
    BY CurrentRow
  <2>2. Solves(src, dst, tree', forest', l, m, di + 1, e + 1)
    BY <1>1, <2>1 DEF Current, e
  <2>3. di + 1 <= di + 1 /\ e + 1 <= e + 1
    BY <1>8
  <2> HIDE DEF Inv, Current, FillRow
  <2> QED
    BY <1>3, <1>8, <1>11, <2>2, <2>3, SolvesLess
<1>13. \A x \in l .. di + 1, c \in m .. e + 1 : forest'[<<x, c>>] = G[<<x, c>>]
  <2>1. Inside(src, l, di + 1)
    <3>1. \A x \in l .. (di + 1) - 1 : x \in l .. pair[1]
      BY <1>1, <1>3
    <3> QED
      BY <1>3, <3>1 DEF Inside
  <2>2. Inside(dst, m, e + 1)
    <3>1. \A y \in m .. (e + 1) - 1 : y \in m .. e
      BY <1>3
    <3> QED
      BY <1>3, <3>1 DEF Inside
  <2>3. \A F, i, j : /\ i \in Nat /\ j \in Nat
                      /\ Inside(src, l, i) /\ Inside(dst, m, j)
                      /\ Solves(src, dst, tree, F, l, m, i, j)
                      /\ Solves(src, dst, tree, G, l, m, i, j)
                      => \A x \in l .. i, c \in m .. j : F[<<x, c>>] = G[<<x, c>>]
    BY <1>3, SameSolution
  <2> HIDE DEF Inv, Current, FillRow
  <2> QED
    BY <1>8, <1>9, <1>12, <2>1, <2>2, <2>3, ZenonT(40)
<1>14. ASSUME NEW rc \in Cells PROVE tree'[rc] = tree[rc]
  <2> SUFFICES ASSUME tree'[rc] # tree[rc] PROVE FALSE
    OBVIOUS
  <2>1. PICK y \in m .. e : /\ rc = <<di + 1, y + 1>> /\ whole_trees(di, y)
                            /\ tree'[rc] = next_row(di)[y + 1]
    BY <1>1
  <2>2. y + 1 \in m .. e + 1 /\ y \in m .. (b + 1) - 1 /\ di \in l .. (a + 1) - 1
        /\ di + 1 \in l .. di + 1
    BY <1>1, <1>3, <1>4, <1>5, <1>6
  <2>3. y + 1 \in cols
    BY <2>2 DEF cols, m, e
  <2>4. tree'[rc] = forest'[<<di + 1, y + 1>>]
    BY <1>1, <2>1, <2>3
  <2>5. forest'[<<di + 1, y + 1>>] = G[<<di + 1, y + 1>>]
    BY <1>13, <2>2
  <2>6. src.lld[di] = l /\ dst.lld[y] = m
    BY <2>1 DEF whole_trees, l, m
  <2>7. tree[<<di + 1, y + 1>>] = G[<<di + 1, y + 1>>]
    BY <1>7, <2>2, <2>6, Zenon DEF Holds
  <2> QED
    BY <2>1, <2>4, <2>5, <2>7
<1> QED
  BY <1>1, <1>2, <1>14

(* What a pair is filled with leaves the pairs before it final. *)
LEMMA DoneKept ==
  ASSUME Inv, FillRow, pair \in KeyRoots, NEW q \in KeyRoots, earlier(q, pair),
         DoneIn(src, dst, tree, q)
  PROVE  DoneIn(src, dst, tree', q)
<1> DEFINE l == src.lld[q[1]]
           m == dst.lld[q[2]]
<1>1. /\ di \in Nat /\ first_row <= di /\ di <= pair[1]
      /\ \A rc \in Cells :
           \/ tree'[rc] = tree[rc]
           \/ \E y \in first_col .. pair[2] : rc = <<di + 1, y + 1>> /\ whole_trees(di, y)
  BY FillRowWrites
<1>2. /\ IsTree(src) /\ IsTree(dst)
      /\ pair[1] \in nodes(src) /\ pair[2] \in nodes(dst)
      /\ nodes(src) = 0 .. root(src) /\ nodes(dst) = 0 .. root(dst)
  BY TableFacts DEF Inv, nodes
<1>3. /\ q[1] \in kr(src) /\ q[2] \in kr(dst) /\ pair[1] \in kr(src) /\ pair[2] \in kr(dst)
      /\ q[1] \in nodes(src) /\ q[2] \in nodes(dst)
  <2>1. /\ q[1] \in kr(src) /\ q[2] \in kr(dst) /\ pair[1] \in kr(src) /\ pair[2] \in kr(dst)
    BY DEF KeyRoots
  <2>2. root(src) \in nodes(src) /\ root(dst) \in nodes(dst)
    BY <1>2, RootIsNode
  <2>3. root(src) \in Nat /\ root(dst) \in Nat
    BY <1>2, <2>2, NodeTypes
  <2> QED
    BY <1>2, <2>1, <2>2, <2>3 DEF kr
<1>4. /\ q[1] \in Nat /\ l \in Nat /\ l <= q[1] /\ q[1] + 1 <= src.len /\ src.len \in Nat
      /\ q[2] \in Nat /\ m \in Nat /\ m <= q[2] /\ q[2] + 1 <= dst.len /\ dst.len \in Nat
      /\ \A x \in l .. q[1] : x \in Nat /\ x \in Subtree(src, q[1])
      /\ \A y \in m .. q[2] : y \in Nat /\ y \in Subtree(dst, q[2])
  BY <1>2, <1>3, InSubtree
<1>5. PICK G : /\ Solves(src, dst, tree, G, l, m, q[1] + 1, q[2] + 1)
               /\ Holds(src, dst, tree, G, l, m, q[1] + 1, q[2] + 1)
  BY DEF DoneIn
<1> DEFINE i == q[1] + 1
           j == q[2] + 1
<1>6. ASSUME NEW x \in l .. i - 1, NEW y \in m .. j - 1
      PROVE  tree'[<<x + 1, y + 1>>] = tree[<<x + 1, y + 1>>]
  <2> SUFFICES ASSUME tree'[<<x + 1, y + 1>>] # tree[<<x + 1, y + 1>>] PROVE FALSE
    OBVIOUS
  <2>0. x \in l .. q[1] /\ y \in m .. q[2]
    <3> HIDE DEF l, m
    <3> QED
      BY <1>4
  <2>1. /\ x \in Nat /\ x \in Subtree(src, q[1]) /\ x <= q[1]
        /\ y \in Nat /\ y \in Subtree(dst, q[2]) /\ y <= q[2]
    BY <1>4, <2>0
  <2> HIDE DEF l, m
  <2>2. x + 1 \in 0 .. src.len
    BY <1>4, <2>1
  <2>3. y + 1 \in 0 .. dst.len
    BY <1>4, <2>1
  <2>4. <<x + 1, y + 1>> \in Cells
    BY <2>2, <2>3 DEF Cells
  <2>5. PICK z \in first_col .. pair[2] :
          <<x + 1, y + 1>> = <<di + 1, z + 1>> /\ whole_trees(di, z)
    BY <1>1, <2>4
  <2>6. x + 1 = di + 1 /\ y + 1 = z + 1
    BY <2>5
  <2>7. first_col \in Nat /\ pair[2] \in Nat /\ pair[1] \in Nat
    BY TableFacts DEF Inv
  <2>8. x = di /\ y = z
    BY <1>1, <2>1, <2>6, <2>7
  <2>9. src.lld[x] = src.lld[pair[1]] /\ dst.lld[y] = dst.lld[pair[2]]
    BY <2>5, <2>8 DEF whole_trees, first_row, first_col
  <2>10. pair[1] <= q[1] /\ pair[2] <= q[2]
    BY <1>2, <1>3, <2>1, <2>9, KeyRootInside
  <2> QED
    BY <1>4, <2>7, <2>10 DEF earlier
<1> HIDE DEF l, m
<1>7. i \in Nat /\ j \in Nat /\ i <= i /\ j <= j
  BY <1>4
<1> HIDE DEF i, j
<1>8. /\ Solves(src, dst, tree, G, l, m, i, j) /\ Holds(src, dst, tree, G, l, m, i, j)
  BY <1>5 DEF i, j
<1>9. Solves(src, dst, tree', G, l, m, i, j)
  <2> HIDE DEF Inv, FillRow
  <2> QED
    BY <1>4, <1>6, <1>7, <1>8, SolvesLess
<1>10. Holds(src, dst, tree', G, l, m, i, j)
  BY <1>6, <1>8, Zenon DEF Holds
<1> QED
  BY <1>9, <1>10 DEF DoneIn, i, j, l, m

(* The first of an ascending sequence comes before the others. *)
LEMMA FirstOfAscending ==
  ASSUME NEW S, NEW s \in Seq(S), s # <<>>, Ascending(s)
  PROVE  /\ Range(s) = {Head(s)} \cup Range(Tail(s)) /\ Ascending(Tail(s))
         /\ \A q \in Range(Tail(s)) : earlier(Head(s), q)
<1> DEFINE n == Len(s)
           r == Tail(s)
<1>1. n \in Nat /\ n > 0 /\ DOMAIN s = 1 .. n
  BY LenProperties, EmptySeq
<1>2. /\ Head(s) = s[1] /\ r \in Seq(S) /\ Len(r) = n - 1
      /\ \A i \in 1 .. n - 1 : r[i] = s[i + 1]
  BY <1>1, HeadTailProperties
<1>3. DOMAIN r = 1 .. n - 1
  BY <1>2, LenProperties
<1>4. \A i, j \in 1 .. n : i < j => earlier(s[i], s[j])
  BY DEF Ascending
<1> HIDE DEF n, r
<1>5. \A i \in 1 .. n - 1 : i + 1 \in 1 .. n /\ 1 < i + 1 /\ 1 \in 1 .. n
  BY <1>1
<1>6. Range(s) = {s[i] : i \in 1 .. n} /\ Range(r) = {r[i] : i \in 1 .. n - 1}
  BY <1>1, <1>3 DEF Range
<1>7. Range(s) = {Head(s)} \cup Range(r)
  <2>1. ASSUME NEW i \in 1 .. n PROVE s[i] = s[1] \/ \E k \in 1 .. n - 1 : s[i] = r[k]
    <3>1. CASE i = 1
      BY <3>1
    <3>2. CASE i # 1
      <4>1. i - 1 \in 1 .. n - 1 /\ (i - 1) + 1 = i
        BY <1>1, <3>2
      <4> QED
        BY <1>2, <4>1
    <3> QED
      BY <3>1, <3>2
  <2>2. 1 \in 1 .. n
    BY <1>1
  <2>3. \A k \in 1 .. n - 1 : r[k] = s[k + 1] /\ k + 1 \in 1 .. n
    BY <1>2, <1>5
  <2> QED
    BY <1>2, <1>6, <2>1, <2>2, <2>3
<1>8. \A q \in Range(r) : earlier(Head(s), q)
  BY <1>2, <1>4, <1>5, <1>6
<1>9. Ascending(r)
  <2> SUFFICES ASSUME NEW i \in 1 .. n - 1, NEW j \in 1 .. n - 1, i < j
               PROVE  earlier(r[i], r[j])
    BY <1>2 DEF Ascending
  <2>1. i + 1 \in 1 .. n /\ j + 1 \in 1 .. n /\ i + 1 < j + 1
    BY <1>1
  <2> QED
    BY <1>2, <1>4, <2>1
<1> QED
  BY <1>7, <1>8, <1>9 DEF r

(* Key roots are nodes, the order of their pairs is one. *)
LEMMA KeyRootNodes ==
  ASSUME Typed
  PROVE  /\ KeyRoots \subseteq NodePairs /\ roots \in KeyRoots
         /\ \A p, q, r \in KeyRoots : earlier(p, q) /\ earlier(q, r) => earlier(p, r)
<1>1. /\ IsTree(src) /\ root(src) \in nodes(src) /\ nodes(src) = 0 .. root(src)
      /\ IsTree(dst) /\ root(dst) \in nodes(dst) /\ nodes(dst) = 0 .. root(dst)
  BY TableFacts DEF nodes
<1>2. root(src) \in Nat /\ root(dst) \in Nat
  BY <1>1, NodeTypes
<1>3. kr(src) \subseteq nodes(src) /\ kr(dst) \subseteq nodes(dst)
  BY <1>1, <1>2 DEF kr
<1>4. KeyRoots \subseteq NodePairs
  BY <1>3 DEF KeyRoots, NodePairs
<1>5. roots \in KeyRoots
  BY DEF KeyRoots, roots, kr
<1>6. \A p \in NodePairs : p[1] \in Nat /\ p[2] \in Nat
  BY <1>1, NodeTypes DEF NodePairs
<1>7. \A p, q, r \in NodePairs : earlier(p, q) /\ earlier(q, r) => earlier(p, r)
  BY <1>6 DEF earlier
<1> QED
  BY <1>4, <1>5, <1>7

(* A new table is a solution of no row but the first. *)
LEMMA StartCurrent ==
  ASSUME Typed, NEW p \in NodePairs, StartForest(p), UNCHANGED arenas
  PROVE  Current'
<1>1. /\ Filled(di)' /\ pair' = p
  BY StartFacts
<1>2. src' = src /\ di' = src.lld[p[1]]
  BY DEF StartForest, arenas
<1>3. di' = first_row'
  BY <1>1, <1>2 DEF first_row
<1>4. di' \in Nat
  <2>1. IsTree(src) /\ p[1] \in nodes(src)
    BY TableFacts DEF NodePairs
  <2> QED
    BY <1>2, <2>1, NodeTypes
<1>5. first_row' .. di' - 1 = {}
  <2>1. \A n \in Nat : n .. n - 1 = {}
    OBVIOUS
  <2> QED
    BY <1>3, <1>4, <2>1
<1>6. \A c \in first_col' .. pair'[2] + 1 : forest'[<<first_row', c>>] = UNIT * (c - first_col')
  BY <1>1 DEF Filled, cols
<1> QED
  BY <1>5, <1>6 DEF Current, Solves, Holds

(* What leaves a pair and the tables alone leaves them right. *)
LEMMA CurrentKept ==
  ASSUME Current, UNCHANGED <<src, dst, tree, forest, pair, di>>
  PROVE  Current'
<1>1. first_row' = first_row /\ first_col' = first_col
  BY DEF first_row, first_col
<1> QED
  BY <1>1 DEF Current

(* A table that is filled to the last row makes its pair final. *)
LEMMA PairDone ==
  ASSUME Current, di = pair[1] + 1
  PROVE  DoneIn(src, dst, tree, pair)
BY DEF Current, DoneIn, first_row, first_col

LEMMA TablesInit == Init => Tables
<1> SUFFICES ASSUME Init PROVE Tables
  OBVIOUS
<1>1. Typed
  BY InvInit DEF Inv
<1>2. /\ kr_pairs = kr_pairs_in_order /\ pair = roots /\ pc = "dist" /\ root_node_pair = TRUE
  BY DEF Init, roots
<1>3. IsTree(src) /\ IsTree(dst)
  BY <1>1, TableFacts
<1>4. kr_pairs # <<>> /\ Ascending(kr_pairs) /\ Left = KeyRoots
  BY <1>2, <1>3, KeyRootPairs DEF Left
<1> QED
  BY <1>1, <1>2, <1>4, KeyRootNodes DEF Tables, Queue, Filling

LEMMA TablesNextKeyRoots == Inv /\ Tables /\ NextKeyRoots => Tables'
<1> SUFFICES ASSUME Inv, Tables, NextKeyRoots PROVE Tables'
  OBVIOUS
<1> DEFINE p == Head(kr_pairs)
<1>1. /\ Typed /\ Queue /\ pc = "dist" /\ kr_pairs # <<>> /\ root_node_pair
      /\ StartForest(p) /\ kr_pairs' = Tail(kr_pairs)
      /\ pair' = p /\ pc' = "rows"
      /\ UNCHANGED <<src, dst, tree, root_node_pair, tree_pairs, row, col, mappings>>
  BY DEF Inv, Tables, Turns, NextKeyRoots, StartForest, arenas
<1>2. /\ kr_pairs \in Seq(NodePairs) /\ Ascending(kr_pairs) /\ Left \subseteq KeyRoots
      /\ \A q \in KeyRoots \ Left :
           DoneIn(src, dst, tree, q) /\ \A r \in Left : earlier(q, r)
  BY <1>1 DEF Typed, Queue, Filling
<1>3. /\ Left = {p} \cup Left' /\ Ascending(kr_pairs)'
      /\ \A q \in Left' : earlier(p, q)
  <2>1. /\ Range(kr_pairs) = {p} \cup Range(Tail(kr_pairs)) /\ Ascending(Tail(kr_pairs))
        /\ \A q \in Range(Tail(kr_pairs)) : earlier(p, q)
    BY <1>1, <1>2, FirstOfAscending
  <2> QED
    BY <1>1, <2>1 DEF Left
<1>4. p \in KeyRoots /\ p \in NodePairs
  BY <1>1, <1>2, <1>3, KeyRootNodes
<1>5. Current'
  BY <1>1, <1>4, StartCurrent DEF arenas
<1> HIDE DEF p
<1>6. KeyRoots' = KeyRoots
  BY <1>1 DEF KeyRoots
<1>7. Queue'
  <2>1. \A q \in KeyRoots \ Left' :
          q = p \/ (DoneIn(src, dst, tree, q) /\ earlier(q, p))
    BY <1>2, <1>3
  <2> QED
    BY <1>1, <1>2, <1>3, <1>4, <1>6, <2>1 DEF Queue, Filling
<1> QED
  BY <1>5, <1>7 DEF Tables

LEMMA TablesFillRow == Inv /\ Tables /\ FillRow => Tables'
<1> SUFFICES ASSUME Inv, Tables, FillRow PROVE Tables'
  OBVIOUS
<1>1. /\ pc = "rows" /\ Queue /\ Current
  BY DEF FillRow, Tables
<1>2. /\ src' = src /\ dst' = dst /\ pair' = pair /\ pc' = "rows"
      /\ kr_pairs' = kr_pairs /\ root_node_pair' = root_node_pair
  BY FillRowWrites
<1>3. Current'
  BY <1>1, CurrentRow
<1>4. KeyRoots' = KeyRoots /\ Left' = Left
  BY <1>2 DEF KeyRoots, Left
<1>5. CASE root_node_pair
  <2>1. /\ pair \in KeyRoots /\ \A q \in Left : earlier(pair, q)
        /\ \A q \in KeyRoots \ Left :
             q = pair \/ (DoneIn(src, dst, tree, q) /\ earlier(q, pair))
    BY <1>1, <1>5 DEF Queue, Filling
  <2>2. \A q \in KeyRoots \ Left :
          q = pair \/ (DoneIn(src, dst, tree', q) /\ earlier(q, pair))
    BY <2>1, DoneKept
  <2> QED
    BY <1>1, <1>2, <1>3, <1>4, <1>5, <2>1, <2>2 DEF Tables, Queue, Filling
<1>6. CASE ~root_node_pair
  <2>1. Left = {} /\ \A q \in KeyRoots : DoneIn(src, dst, tree, q)
    BY <1>1, <1>6 DEF Queue, Filling
  <2>2. tree' = tree
    BY <1>1, <2>1, RefillSame
  <2> QED
    BY <1>1, <1>2, <1>3, <1>4, <1>6, <2>1, <2>2 DEF Tables, Queue, Filling
<1> QED
  BY <1>5, <1>6

LEMMA TablesEndForest == Inv /\ Tables /\ EndForest => Tables'
<1> SUFFICES ASSUME Inv, Tables, EndForest PROVE Tables'
  OBVIOUS
<1>1. /\ Typed /\ Table /\ Queue /\ Current /\ pc = "rows" /\ di > pair[1]
      /\ pc' = (IF root_node_pair THEN "dist" ELSE "walk")
      /\ UNCHANGED <<src, dst, tree, forest, kr_pairs, pair, di, root_node_pair>>
  BY DEF Inv, Tables, EndForest, arenas, tables
<1>2. Current'
  BY <1>1, CurrentKept
<1>3. KeyRoots' = KeyRoots /\ Left' = Left
  BY <1>1 DEF KeyRoots, Left
<1>4. \A q \in KeyRoots \ Left :
        DoneIn(src, dst, tree, q) /\ \A r \in Left : earlier(q, r)
  <2>1. CASE root_node_pair
    <3>1. /\ pair \in KeyRoots /\ \A q \in Left : earlier(pair, q)
          /\ \A q \in KeyRoots \ Left :
               q = pair \/ (DoneIn(src, dst, tree, q) /\ earlier(q, pair))
          /\ Left \subseteq KeyRoots
      BY <1>1, <2>1 DEF Queue, Filling
    <3>2. di = pair[1] + 1
      <4>1. di \in first_row .. pair[1] + 1
        BY <1>1 DEF Table
      <4>2. first_row \in Nat /\ pair[1] \in Nat
        BY <1>1, TableFacts
      <4> QED
        BY <1>1, <4>1, <4>2
    <3>3. DoneIn(src, dst, tree, pair)
      BY <1>1, <3>2, PairDone
    <3>4. \A p, q, r \in KeyRoots : earlier(p, q) /\ earlier(q, r) => earlier(p, r)
      BY <1>1, KeyRootNodes
    <3> QED
      BY <3>1, <3>3, <3>4
  <2>2. CASE ~root_node_pair
    BY <1>1, <2>2 DEF Queue, Filling
  <2> QED
    BY <2>1, <2>2
<1>5. Queue'
  BY <1>1, <1>3, <1>4 DEF Queue, Filling
<1> QED
  BY <1>2, <1>5 DEF Tables

(* The steps that leave the tables alone. *)
LEMMA TablesElse ==
  Inv /\ Tables
    /\ (EndDist \/ PopRoots \/ Delete \/ Insert \/ MapRoots \/ PushPair \/ EndWalk
          \/ EndMappings \/ UNCHANGED zs_vars)
    => Tables'
<1> SUFFICES ASSUME Inv, Tables,
                    EndDist \/ PopRoots \/ Delete \/ Insert \/ MapRoots \/ PushPair
                      \/ EndWalk \/ EndMappings \/ UNCHANGED zs_vars
             PROVE  Tables'
  OBVIOUS
<1>1. Typed /\ Turns /\ Queue
  BY DEF Inv, Tables
<1>2. UNCHANGED <<src, dst, tree, forest, kr_pairs, di>>
  BY DEF EndDist, PopRoots, Delete, Insert, MapRoots, PushPair, Walked, EndWalk, EndMappings,
         zs_vars, arenas, tables
<1>3. /\ pair' = pair
      /\ pc' \in {"rows", "walk"} \/ (root_node_pair' /\ kr_pairs = <<>>) => Current
      /\ Filling' <=> Filling
      /\ root_node_pair' => root_node_pair
      /\ ~root_node_pair' \/ pc' = "pop" => Left = {}
  <2>1. CASE EndDist
    <3>1. /\ pc = "dist" /\ kr_pairs = <<>> /\ pc' = "pop" /\ pair' = pair
          /\ root_node_pair' = root_node_pair /\ root_node_pair
      BY <1>1, <2>1 DEF EndDist, Turns
    <3>2. Left = {}
      BY <3>1 DEF Left, Range
    <3> QED
      BY <3>1, <3>2 DEF Tables, Filling
  <2>2. CASE PopRoots
    <3>1. /\ pc = "pop" /\ root_node_pair /\ pc' = "walk" /\ root_node_pair' = FALSE
          /\ pair' = <<Last(tree_pairs)[1] - 1, Last(tree_pairs)[2] - 1>>
      BY <2>2 DEF PopRoots
    <3>2. kr_pairs = <<>> /\ tree_pairs = <<<<src.len, dst.len>>>> /\ pair = roots
      BY <1>1, <3>1 DEF Turns
    <3>3. Last(tree_pairs) = <<src.len, dst.len>>
      BY <3>2 DEF Last
    <3>4. pair' = pair
      BY <3>1, <3>2, <3>3 DEF roots, root
    <3> QED
      BY <1>1, <3>1, <3>2, <3>4 DEF Tables, Queue, Filling
  <2>3. CASE Delete \/ Insert \/ MapRoots \/ PushPair
    <3>1. /\ pc = "walk" /\ pc' = pc /\ pair' = pair /\ root_node_pair' = root_node_pair
      BY <2>3 DEF Delete, Insert, MapRoots, PushPair, Walked, walking
    <3> QED
      BY <1>1, <3>1 DEF Tables, Queue, Filling
  <2>4. CASE EndWalk
    <3>1. /\ pc = "walk" /\ pc' \in {"panic", "pop"} /\ pair' = pair
          /\ root_node_pair' = root_node_pair /\ ~root_node_pair
      BY <1>1, <2>4 DEF EndWalk, Turns
    <3> QED
      BY <1>1, <3>1 DEF Tables, Queue, Filling
  <2>5. CASE EndMappings
    <3>1. /\ pc = "pop" /\ pc' = "done" /\ pair' = pair /\ tree_pairs = <<>>
          /\ root_node_pair' = root_node_pair
      BY <2>5 DEF EndMappings
    <3>2. ~root_node_pair
      BY <1>1, <3>1 DEF Turns, Typed
    <3> QED
      BY <1>1, <3>1, <3>2 DEF Tables, Queue, Filling
  <2>6. CASE UNCHANGED zs_vars
    <3>1. pc' = pc /\ pair' = pair /\ root_node_pair' = root_node_pair
      BY <2>6 DEF zs_vars
    <3> QED
      BY <1>1, <3>1 DEF Tables, Queue, Filling
  <2> QED
    BY <2>1, <2>2, <2>3, <2>4, <2>5, <2>6
<1>4. KeyRoots' = KeyRoots /\ Left' = Left
  BY <1>2 DEF KeyRoots, Left
<1>5. Queue'
  <2>1. Filling' => root_node_pair' /\ root_node_pair
    BY <1>3 DEF Filling
  <2> QED
    BY <1>1, <1>2, <1>3, <1>4, <2>1 DEF Queue
<1>6. Current => Current'
  BY <1>2, <1>3, CurrentKept
<1> QED
  BY <1>2, <1>3, <1>5, <1>6 DEF Tables

LEMMA TablesPopPair == Inv /\ Tables /\ PopPair => Tables'
<1> SUFFICES ASSUME Inv, Tables, PopPair PROVE Tables'
  OBVIOUS
<1> DEFINE last == Last(tree_pairs)
           p == <<last[1] - 1, last[2] - 1>>
<1>1. /\ Typed /\ Queue /\ pc = "pop" /\ ~root_node_pair /\ tree_pairs # <<>>
      /\ StartForest(p) /\ pc' = "rows"
      /\ UNCHANGED <<src, dst, tree, kr_pairs, root_node_pair>>
  BY DEF Inv, Tables, PopPair, StartForest, arenas
<1>2. p \in NodePairs
  <2>1. tree_pairs \in Seq(Ends)
    BY <1>1 DEF Typed
  <2>2. last \in Ends
    BY <1>1, <2>1, EndsOfSeq
  <2>3. /\ src.len \in Nat /\ nodes(src) = 0 .. src.len - 1
        /\ dst.len \in Nat /\ nodes(dst) = 0 .. dst.len - 1
    BY <1>1, TableFacts
  <2> HIDE DEF last
  <2>4. last[1] - 1 \in nodes(src) /\ last[2] - 1 \in nodes(dst)
    BY <2>2, <2>3 DEF Ends
  <2> QED
    BY <2>4 DEF NodePairs
<1> HIDE DEF p
<1>3. Current'
  BY <1>1, <1>2, StartCurrent DEF arenas
<1>4. KeyRoots' = KeyRoots /\ Left' = Left
  BY <1>1 DEF KeyRoots, Left
<1>5. Queue'
  BY <1>1, <1>4 DEF Queue, Filling
<1> QED
  BY <1>3, <1>5 DEF Tables

LEMMA TablesStep == Inv /\ Tables /\ [Next]_zs_vars => Tables'
<1> SUFFICES ASSUME Inv, Tables, [Next]_zs_vars PROVE Tables'
  OBVIOUS
<1>1. Ended => UNCHANGED zs_vars
  BY DEF Ended
<1> QED
  BY <1>1, TablesNextKeyRoots, TablesFillRow, TablesEndForest, TablesElse, TablesPopPair
     DEF Next, MatchNext

-----------------------------------------------------------------------------
(* The sums of the ledger, one element more. *)
LEMMA LedgerSums ==
  ASSUME Typed
  PROVE  /\ IsFiniteSet(Cells) /\ IsFiniteSet(NodePairs)
         /\ IsFiniteSet(nodes(src)) /\ IsFiniteSet(nodes(dst))
         /\ TreeSum(tree, {}) = 0 /\ UpdateCost(src, dst, {}) = 0
         /\ \A S \in SUBSET Cells :
              /\ TreeSum(tree, S) \in Nat
              /\ \A p \in Cells \ S : TreeSum(tree, S \cup {p}) = tree[p] + TreeSum(tree, S)
         /\ \A M \in SUBSET NodePairs :
              /\ UpdateCost(src, dst, M) \in Nat /\ Cardinality(M) \in Nat
              /\ \A p \in NodePairs \ M :
                   /\ UpdateCost(src, dst, M \cup {p}) =
                        get_update_cost(src, p[1], dst, p[2]) + UpdateCost(src, dst, M)
                   /\ Cardinality(M \cup {p}) = Cardinality(M) + 1
<1>1. /\ src.len \in Nat /\ nodes(src) = 0 .. src.len - 1
      /\ dst.len \in Nat /\ nodes(dst) = 0 .. dst.len - 1
  BY TableFacts
<1>2. /\ IsFiniteSet(0 .. src.len) /\ IsFiniteSet(0 .. dst.len)
      /\ IsFiniteSet(0 .. src.len - 1) /\ IsFiniteSet(0 .. dst.len - 1)
  <2>1. /\ 0 \in Int /\ src.len \in Int /\ src.len - 1 \in Int
        /\ dst.len \in Int /\ dst.len - 1 \in Int
    BY <1>1
  <2> QED
    BY <2>1, FS_Interval
<1>3. IsFiniteSet(Cells)
  BY <1>2, FS_Product DEF Cells
<1>4. IsFiniteSet(NodePairs) /\ IsFiniteSet(nodes(src)) /\ IsFiniteSet(nodes(dst))
  BY <1>1, <1>2, FS_Product DEF NodePairs
<1>5. tree \in [Cells -> Nat]
  BY DEF Typed
<1>6. PICK g : Sums(g, tree, Cells) /\ \A S \in SUBSET Cells : TreeSum(tree, S) = g[S]
  BY <1>3, <1>5, TreeSums
<1>7. ASSUME NEW p \in NodePairs PROVE get_update_cost(src, p[1], dst, p[2]) \in Nat
  BY UpdateCosts DEF NodePairs
<1>8. PICK h : /\ Sums(h, [p \in NodePairs |-> get_update_cost(src, p[1], dst, p[2])], NodePairs)
               /\ \A S \in SUBSET NodePairs : UpdateCost(src, dst, S) = h[S]
  <2> HIDE DEF Typed
  <2> QED
    BY <1>4, <1>7, CostSums
<1>9. TreeSum(tree, {}) = 0 /\ UpdateCost(src, dst, {}) = 0
  BY <1>6, <1>8 DEF Sums
<1>10. ASSUME NEW S \in SUBSET Cells
       PROVE  /\ TreeSum(tree, S) \in Nat
              /\ \A p \in Cells \ S : TreeSum(tree, S \cup {p}) = tree[p] + TreeSum(tree, S)
  <2>1. TreeSum(tree, S) \in Nat
    BY <1>6 DEF Sums
  <2>2. ASSUME NEW p \in Cells \ S
        PROVE  TreeSum(tree, S \cup {p}) = tree[p] + TreeSum(tree, S)
    <3> DEFINE V == S \cup {p}
    <3>1. V \in SUBSET Cells /\ p \in V /\ V \ {p} = S
      OBVIOUS
    <3> HIDE DEF V
    <3>2. g[V] = tree[p] + g[V \ {p}]
      BY <1>6, <3>1 DEF Sums
    <3> QED
      BY <1>6, <3>1, <3>2 DEF V
  <2> QED
    BY <2>1, <2>2
<1>11. ASSUME NEW M \in SUBSET NodePairs
       PROVE  /\ UpdateCost(src, dst, M) \in Nat /\ Cardinality(M) \in Nat
              /\ \A p \in NodePairs \ M :
                   /\ UpdateCost(src, dst, M \cup {p}) =
                        get_update_cost(src, p[1], dst, p[2]) + UpdateCost(src, dst, M)
                   /\ Cardinality(M \cup {p}) = Cardinality(M) + 1
  <2>1. UpdateCost(src, dst, M) \in Nat
    BY <1>8 DEF Sums
  <2>2. IsFiniteSet(M)
    BY <1>4, FS_Subset
  <2>3. Cardinality(M) \in Nat
    BY <2>2, FS_CardinalityType
  <2>4. ASSUME NEW p \in NodePairs \ M
        PROVE  /\ UpdateCost(src, dst, M \cup {p}) =
                    get_update_cost(src, p[1], dst, p[2]) + UpdateCost(src, dst, M)
               /\ Cardinality(M \cup {p}) = Cardinality(M) + 1
    <3> DEFINE V == M \cup {p}
               c == [q \in NodePairs |-> get_update_cost(src, q[1], dst, q[2])]
    <3>1. V \in SUBSET NodePairs /\ p \in V /\ V \ {p} = M
      OBVIOUS
    <3>2. c[p] = get_update_cost(src, p[1], dst, p[2])
      OBVIOUS
    <3>3. Sums(h, c, NodePairs)
      BY <1>8
    <3> HIDE DEF V, c
    <3>4. h[V] = c[p] + h[V \ {p}]
      BY <3>1, <3>3 DEF Sums
    <3>5. h[V] = UpdateCost(src, dst, V) /\ h[M] = UpdateCost(src, dst, M)
      BY <1>8, <3>1
    <3>6. UpdateCost(src, dst, V) =
            get_update_cost(src, p[1], dst, p[2]) + UpdateCost(src, dst, M)
      BY <3>1, <3>2, <3>4, <3>5
    <3>7. Cardinality(M \cup {p}) = Cardinality(M) + 1
      BY <2>2, FS_AddElement
    <3> QED
      BY <3>6, <3>7 DEF V
  <2> QED
    BY <2>1, <2>3, <2>4
<1> QED
  BY <1>3, <1>4, <1>9, <1>10, <1>11

(* One undecided node less. *)
LEMMA OneDecided ==
  ASSUME NEW N, IsFiniteSet(N), NEW V, NEW x \in N, x \in V
  PROVE  /\ Cardinality(N \ V) \in Nat
         /\ Cardinality(N \ (V \ {x})) = Cardinality(N \ V) + 1
<1>1. IsFiniteSet(N \ V)
  BY FS_Subset
<1>2. N \ (V \ {x}) = (N \ V) \cup {x} /\ x \notin N \ V
  OBVIOUS
<1>3. Cardinality(N \ V) \in Nat
  BY <1>1, FS_CardinalityType
<1>4. Cardinality((N \ V) \cup {x}) = Cardinality(N \ V) + 1
  BY <1>1, <1>2, FS_AddElement
<1> QED
  BY <1>2, <1>3, <1>4

(***************************************************************************)
(* The pairs on the stack share no node, on either side.                   *)
(***************************************************************************)
Apart(p, q) ==
  /\ Subtree(src, p[1] - 1) \cap Subtree(src, q[1] - 1) = {}
  /\ Subtree(dst, p[2] - 1) \cap Subtree(dst, q[2] - 1) = {}

Separate(s) == \A i, j \in 1 .. Len(s) : i < j => Apart(s[i], s[j])

LEMMA LastOfSeparate ==
  ASSUME NEW S, NEW s \in Seq(S), s # <<>>, Separate(s)
  PROVE  /\ Range(s) = Range(Front(s)) \cup {Last(s)} /\ Separate(Front(s))
         /\ \A q \in Range(Front(s)) : Apart(q, Last(s))
<1> DEFINE n == Len(s)
           h == n - 1
           r == Front(s)
<1>1. n \in Nat /\ n > 0 /\ DOMAIN s = 1 .. n
  BY LenProperties, EmptySeq
<1>2. h \in Nat /\ h <= n /\ n = h + 1 /\ \A i \in 1 .. h : i \in 1 .. n /\ i < n /\ n \in 1 .. n
  BY <1>1
<1>3. r = [i \in 1 .. h |-> s[i]]
  <2>1. \A i \in 1 .. h : s[i] \in S
    BY <1>2, ElementOfSeq
  <2>2. r = SubSeq(s, 1, h)
    BY DEF Front
  <2> HIDE DEF h
  <2> QED
    BY <1>2, <2>1, <2>2
<1>4. Last(s) = s[n]
  BY DEF Last
<1>5. \A i, j \in 1 .. n : i < j => Apart(s[i], s[j])
  BY DEF Separate
<1> HIDE DEF n, h, r
<1>6. DOMAIN r = 1 .. h /\ Len(r) = h /\ \A i \in 1 .. h : r[i] = s[i]
  <2>1. \A i \in 1 .. h : s[i] \in S
    BY <1>2, ElementOfSeq DEF n
  <2>2. r \in Seq(S)
    BY <1>2, <1>3, <2>1
  <2> QED
    BY <1>2, <1>3, <2>2
<1>7. Range(s) = {s[i] : i \in 1 .. n} /\ Range(r) = {r[i] : i \in 1 .. h}
  BY <1>1, <1>6 DEF Range
<1>8. \A i \in 1 .. n : i = n \/ i \in 1 .. h
  BY <1>1, <1>2
<1>9. n \in 1 .. n
  BY <1>1
<1>10. Range(s) = Range(r) \cup {Last(s)}
  BY <1>2, <1>4, <1>6, <1>7, <1>8, <1>9
<1>11. \A q \in Range(r) : Apart(q, Last(s))
  BY <1>2, <1>4, <1>5, <1>6, <1>7
<1>12. Separate(r)
  BY <1>2, <1>5, <1>6 DEF Separate
<1> QED
  BY <1>10, <1>11, <1>12 DEF r

LEMMA AppendSeparate ==
  ASSUME NEW S, NEW s \in Seq(S), NEW p \in S, Separate(s), \A q \in Range(s) : Apart(q, p)
  PROVE  Range(Append(s, p)) = Range(s) \cup {p} /\ Separate(Append(s, p))
<1> DEFINE n == Len(s)
           r == Append(s, p)
<1>1. n \in Nat /\ DOMAIN s = 1 .. n
  BY LenProperties
<1>2. r \in Seq(S) /\ Len(r) = n + 1 /\ (\A i \in 1 .. n : r[i] = s[i]) /\ r[n + 1] = p
  BY AppendProperties
<1>3. DOMAIN r = 1 .. n + 1
  BY <1>2, LenProperties
<1>4. \A i, j \in 1 .. n : i < j => Apart(s[i], s[j])
  BY DEF Separate
<1> HIDE DEF n, r
<1>5. \A i \in 1 .. n + 1 : i = n + 1 \/ i \in 1 .. n
  BY <1>1
<1>6. n + 1 \in 1 .. n + 1 /\ \A i \in 1 .. n : i \in 1 .. n + 1
  BY <1>1
<1>7. Range(s) = {s[i] : i \in 1 .. n} /\ Range(r) = {r[i] : i \in 1 .. n + 1}
  BY <1>1, <1>3 DEF Range
<1>8. Range(r) = Range(s) \cup {p}
  BY <1>2, <1>5, <1>6, <1>7
<1>9. Separate(r)
  <2> SUFFICES ASSUME NEW i \in 1 .. n + 1, NEW j \in 1 .. n + 1, i < j PROVE Apart(r[i], r[j])
    BY <1>2 DEF Separate
  <2>1. i \in 1 .. n
    BY <1>1
  <2>2. CASE j \in 1 .. n
    BY <1>2, <1>4, <2>1, <2>2
  <2>3. CASE j = n + 1
    <3>1. s[i] \in Range(s) /\ r[i] = s[i] /\ r[j] = p
      BY <1>2, <1>7, <2>1, <2>3
    <3> QED
      BY <3>1
  <2> QED
    BY <1>5, <2>2, <2>3
<1> QED
  BY <1>8, <1>9 DEF r

(* compute_mappings has begun *)
Mapping == ~root_node_pair \/ pc = "pop"

(* What is left of the pair that is walked, or about to be.  While its     *)
(* table is filled again, the table of the trees says it.                  *)
Rest ==
  IF ~Walking THEN 0 ELSE IF pc = "walk" THEN forest[<<row, col>>] ELSE tree[<<row, col>>]

(* What the decided nodes have cost: updates, deletions and insertions. *)
Spent ==
  UpdateCost(src, dst, Pairs)
    + UNIT * (Cardinality(nodes(src) \ UndecidedSrc) - Cardinality(Pairs))
    + UNIT * (Cardinality(nodes(dst) \ UndecidedDst) - Cardinality(Pairs))

Ledger ==
  tree[<<src.len, dst.len>>] = Spent + TreeSum(tree, Range(tree_pairs)) + Rest

(***************************************************************************)
(* The pairs on the stack and the forests being walked share no node, and  *)
(* their nodes are not mapped yet.                                         *)
(***************************************************************************)
Stack ==
  /\ Separate(tree_pairs)
  /\ Walking => \A q \in Range(tree_pairs) :
                  /\ Subtree(src, q[1] - 1) \cap (first_row .. row - 1) = {}
                  /\ Subtree(dst, q[2] - 1) \cap (first_col .. col - 1) = {}
  /\ \A x \in UndecidedSrc : mappings.src_to_dst[x] = 0
  /\ \A y \in UndecidedDst : mappings.dst_to_src[y] = 0

Accounts ==
  /\ root_node_pair => mappings = topit(src.len + 1, dst.len + 1)
  /\ Mapping => Stack /\ Ledger

Whole == Inv /\ Tables /\ Accounts

(* The nodes to decide are nodes, the pairs of the sums are in their sets. *)
LEMMA LedgerTypes ==
  ASSUME Typed
  PROVE  /\ Range(tree_pairs) \subseteq Ends /\ Ends \subseteq Cells
         /\ \A p \in Ends : /\ p[1] - 1 \in nodes(src) /\ p[2] - 1 \in nodes(dst)
                            /\ p[1] \in Nat /\ p[2] \in Nat /\ p = <<p[1], p[2]>>
                            /\ p[1] - 1 \in Subtree(src, p[1] - 1)
         /\ Pairs \subseteq NodePairs
         /\ Walking => /\ row \in Nat /\ first_row \in Nat /\ row \in 0 .. src.len
                       /\ col \in Nat /\ first_col \in Nat /\ col \in 0 .. dst.len
<1>1. /\ IsTree(src) /\ IsTree(dst)
      /\ src.len \in Nat /\ nodes(src) = 0 .. src.len - 1
      /\ dst.len \in Nat /\ nodes(dst) = 0 .. dst.len - 1
  BY TableFacts
<1>2. Range(tree_pairs) \subseteq Ends
  <2>1. tree_pairs \in Seq(Ends)
    BY DEF Typed
  <2>2. DOMAIN tree_pairs = 1 .. Len(tree_pairs)
    BY <2>1, LenProperties
  <2>3. \A i \in 1 .. Len(tree_pairs) : tree_pairs[i] \in Ends
    BY <2>1, ElementOfSeq
  <2> QED
    BY <2>2, <2>3 DEF Range
<1>3. Ends \subseteq Cells
  BY <1>1 DEF Ends, Cells
<1>4. ASSUME NEW p \in Ends
      PROVE  /\ p[1] - 1 \in nodes(src) /\ p[2] - 1 \in nodes(dst)
             /\ p[1] \in Nat /\ p[2] \in Nat /\ p = <<p[1], p[2]>>
             /\ p[1] - 1 \in Subtree(src, p[1] - 1)
  <2>1. p[1] \in 1 .. src.len /\ p[2] \in 1 .. dst.len /\ p = <<p[1], p[2]>>
    BY DEF Ends
  <2> DEFINE x == p[1] - 1
  <2>2. x \in nodes(src) /\ p[2] - 1 \in nodes(dst) /\ p[1] \in Nat /\ p[2] \in Nat
    BY <1>1, <2>1
  <2> HIDE DEF x
  <2>3. x \in Subtree(src, x)
    <3>1. x \in Nat /\ src.lld[x] \in Nat /\ src.lld[x] <= x
      BY <1>1, <2>2, NodeTypes
    <3> QED
      BY <3>1 DEF Subtree
  <2> QED
    BY <2>1, <2>2, <2>3 DEF x
<1>5. Pairs \subseteq NodePairs
  BY DEF Pairs, NodePairs
<1>6. ASSUME Walking
      PROVE  /\ row \in Nat /\ first_row \in Nat /\ row \in 0 .. src.len
             /\ col \in Nat /\ first_col \in Nat /\ col \in 0 .. dst.len
  <2>1. row \in 0 .. src.len /\ col \in 0 .. dst.len
    BY DEF Typed
  <2>2. first_row \in Nat /\ first_col \in Nat
    BY TableFacts
  <2> QED
    BY <1>1, <2>1, <2>2
<1> QED
  BY <1>1, <1>2, <1>3, <1>4, <1>5, <1>6

LEMMA SpentTyped ==
  ASSUME Typed
  PROVE  /\ Spent \in Int /\ TreeSum(tree, Range(tree_pairs)) \in Nat
         /\ Walking => Rest \in Nat
         /\ ~Walking => Rest = 0
<1>1. /\ Pairs \subseteq NodePairs /\ Range(tree_pairs) \subseteq Cells
      /\ Walking => <<row, col>> \in Cells
  BY LedgerTypes DEF Cells
<1>2. /\ UpdateCost(src, dst, Pairs) \in Nat /\ Cardinality(Pairs) \in Nat
      /\ TreeSum(tree, Range(tree_pairs)) \in Nat
      /\ IsFiniteSet(nodes(src)) /\ IsFiniteSet(nodes(dst))
  <2> HIDE DEF Typed, Pairs
  <2> QED
    BY <1>1, LedgerSums
<1>3. IsFiniteSet(nodes(src) \ UndecidedSrc) /\ IsFiniteSet(nodes(dst) \ UndecidedDst)
  BY <1>2, FS_Subset
<1>4. /\ Cardinality(nodes(src) \ UndecidedSrc) \in Nat
      /\ Cardinality(nodes(dst) \ UndecidedDst) \in Nat
  BY <1>3, FS_CardinalityType
<1>5. Spent \in Int
  <2>1. \A a, b, c, d \in Nat : d + UNIT * (a - c) + UNIT * (b - c) \in Int
    BY Units
  <2> QED
    BY <1>2, <1>4, <2>1 DEF Spent
<1>6. \A rc \in Cells : tree[rc] \in Nat /\ forest[rc] \in Nat
  BY DEF Typed
<1> QED
  BY <1>1, <1>2, <1>5, <1>6 DEF Rest

(* The decided nodes and pairs are the same: nothing was spent. *)
LEMMA SpentSame ==
  ASSUME UNCHANGED <<src, dst, mappings>>,
         UndecidedSrc' = UndecidedSrc, UndecidedDst' = UndecidedDst
  PROVE  Pairs' = Pairs /\ Spent' = Spent
<1>1. Pairs' = Pairs
  BY DEF Pairs
<1> QED
  BY <1>1 DEF Spent

(* The cell where a walk begins holds the distance of its pair. *)
LEMMA PairInTable ==
  ASSUME Typed, Current, di = pair[1] + 1
  PROVE  tree[<<pair[1] + 1, pair[2] + 1>>] = forest[<<pair[1] + 1, pair[2] + 1>>]
<1>1. /\ pair[1] \in Nat /\ pair[2] \in Nat /\ first_row \in Nat /\ first_row <= pair[1]
      /\ first_col \in Nat /\ first_col <= pair[2]
  BY TableFacts
<1>2. \A x \in first_row .. di - 1, y \in first_col .. (pair[2] + 1) - 1 :
        src.lld[x] = first_row /\ dst.lld[y] = first_col =>
          tree[<<x + 1, y + 1>>] = forest[<<x + 1, y + 1>>]
  BY DEF Current, Holds
<1>3. src.lld[pair[1]] = first_row /\ dst.lld[pair[2]] = first_col
  BY DEF first_row, first_col
<1>4. pair[1] \in first_row .. di - 1 /\ pair[2] \in first_col .. (pair[2] + 1) - 1
  BY <1>1
<1> QED
  BY <1>2, <1>3, <1>4

(* Neither deleted nor inserted: the two last trees are kept. *)
LEMMA WalkCosts ==
  ASSUME Inv, Current, walking, ~deletes, ~inserts
  PROVE  forest[<<row, col>>] = keep_last(row - 1, col - 1)
<1> DEFINE x == row - 1
           y == col - 1
           G == forest
<1>1. /\ Typed /\ row \in first_row .. pair[1] + 1 /\ col \in cols
      /\ row > first_row /\ col > first_col
      /\ x \in Subtree(src, pair[1]) /\ y \in Subtree(dst, pair[2])
      /\ di = pair[1] + 1
  BY WalkFacts DEF Inv, Table, walking
<1>2. /\ pair[1] \in Nat /\ pair[2] \in Nat /\ first_row \in Nat /\ first_col \in Nat
      /\ pair[1] + 1 <= src.len /\ pair[2] + 1 <= dst.len /\ src.len \in Nat /\ dst.len \in Nat
      /\ cols = first_col .. pair[2] + 1
  BY <1>1, TableFacts DEF cols
<1>3. /\ row \in Nat /\ col \in Nat /\ x \in first_row .. di - 1
      /\ y \in first_col .. (pair[2] + 1) - 1 /\ x + 1 = row /\ y + 1 = col
      /\ x \in 0 .. src.len /\ y \in 0 .. dst.len
      /\ row \in 0 .. src.len /\ col \in 0 .. dst.len
  <2>1. /\ row \in Nat /\ row > first_row /\ row <= pair[1] + 1
        /\ col \in Nat /\ col > first_col /\ col <= pair[2] + 1
    BY <1>1, <1>2
  <2> HIDE DEF G
  <2> DEFINE e == pair[2]
             f == first_row
             g == first_col
             p == pair[1]
             m == src.len
             n == dst.len
  <2>2. /\ p \in Nat /\ e \in Nat /\ f \in Nat /\ g \in Nat /\ p + 1 <= m /\ e + 1 <= n
        /\ m \in Nat /\ n \in Nat /\ di = p + 1
        /\ row > f /\ row <= p + 1 /\ col > g /\ col <= e + 1
    BY <1>1, <1>2, <2>1
  <2> HIDE DEF e, f, g, p, m, n
  <2>3. /\ row \in Nat /\ x \in f .. di - 1 /\ x + 1 = row /\ x \in 0 .. m /\ row \in 0 .. m
    BY <2>1, <2>2
  <2>4. /\ col \in Nat /\ y \in g .. (e + 1) - 1 /\ y + 1 = col
        /\ y \in 0 .. n /\ col \in 0 .. n
    BY <2>1, <2>2
  <2> QED
    BY <2>3, <2>4 DEF e, f, g, p, m, n
<1>4. /\ ~(G[<<x, col>>] + UNIT = G[<<row, col>>])
      /\ ~(G[<<row, y>>] + UNIT = G[<<row, col>>])
  BY <1>1 DEF deletes, inserts
<1> HIDE DEF x, y
<1>5. G[<<x + 1, y + 1>>] = Min({G[<<x, y + 1>>] + UNIT, G[<<x + 1, y>>] + UNIT,
                                 Keep(src, dst, tree, G, first_row, first_col, x, y)})
  BY <1>3 DEF Current, Solves
<1>6. Keep(src, dst, tree, G, first_row, first_col, x, y) = keep_last(x, y)
  BY DEF Keep, keep_last, whole_trees
<1>7. keep_last(x, y) \in Nat
  <2>1. x \in nodes(src) /\ y \in nodes(dst)
    <3>1. nodes(src) = 0 .. src.len - 1 /\ nodes(dst) = 0 .. dst.len - 1
      BY <1>1, TableFacts
    <3>2. x \in 0 .. src.len - 1 /\ y \in 0 .. dst.len - 1
      BY <1>1, <1>2, <1>3, SMTT(20)
    <3> QED
      BY <3>1, <3>2
  <2> QED
    BY <1>1, <2>1, KeepLastTyped
<1>8. G[<<x, col>>] \in Nat /\ G[<<row, y>>] \in Nat
  BY <1>1, <1>3, CellTyped
<1>9. G[<<x, col>>] + UNIT \in Nat /\ G[<<row, y>>] + UNIT \in Nat
  BY <1>8, Units
<1> DEFINE a == G[<<x, col>>] + UNIT
           b == G[<<row, y>>] + UNIT
           c == keep_last(x, y)
<1>10. G[<<row, col>>] = Min({a, b, c})
  BY <1>3, <1>5, <1>6
<1>11. a \in Nat /\ b \in Nat /\ c \in Nat /\ G[<<row, col>>] # a /\ G[<<row, col>>] # b
  BY <1>4, <1>7, <1>9
<1> HIDE DEF a, b, c
<1>12. G[<<row, col>>] = c
  BY <1>10, <1>11, MinOfThree
<1> QED
  BY <1>12 DEF c, x, y

-----------------------------------------------------------------------------
(* What comes next is paid from what was owed. *)
LEMMA Paid ==
  ASSUME NEW d, NEW a \in Int, NEW b \in Nat, NEW c \in Nat,
         NEW e \in Int, NEW f \in Nat, NEW g \in Nat,
         d = a + b + c, e + (f + g) = a + (b + c)
  PROVE  d = e + f + g
OBVIOUS

(* The ledger balances after a step that leaves both tables of the trees as *)
(* they are, when what it spends is owed no more.                           *)
LEMMA LedgerPaid ==
  ASSUME Typed, Ledger, UNCHANGED <<src, dst, tree>>,
         Spent' \in Int, TreeSum(tree, Range(tree_pairs)') \in Nat, Rest \in Nat, Rest' \in Nat,
         Spent' + (TreeSum(tree, Range(tree_pairs)') + Rest')
           = Spent + (TreeSum(tree, Range(tree_pairs)) + Rest)
  PROVE  Ledger'
<1> DEFINE d == tree[<<src.len, dst.len>>]
           b == TreeSum(tree, Range(tree_pairs))
           f == TreeSum(tree, Range(tree_pairs)')
           a == Spent
           c == Rest
           e == Spent'
           g == Rest'
<1>1. Spent \in Int /\ b \in Nat
  BY SpentTyped
<1>2. d = Spent + b + Rest
  BY DEF Ledger
<1>3. f \in Nat /\ Spent' + (f + Rest') = Spent + (b + Rest)
  OBVIOUS
<1>4. /\ a \in Int /\ b \in Nat /\ c \in Nat /\ e \in Int /\ f \in Nat /\ g \in Nat
      /\ d = a + b + c /\ e + (f + g) = a + (b + c)
  BY <1>1, <1>2, <1>3
<1> HIDE DEF a, b, c, d, e, f, g
<1>5. d = e + f + g
  BY <1>4, Paid
<1> QED
  BY <1>5 DEF Ledger, d, e, f, g

(* A step that changes nothing but the tables of the pair being walked. *)
LEMMA Quiet ==
  ASSUME Typed, Accounts,
         UNCHANGED <<src, dst, pair, tree, tree_pairs, row, col, mappings, root_node_pair>>,
         Mapping' => Mapping /\ Walking' = Walking /\ Rest' = Rest
  PROVE  Accounts'
<1>1. (root_node_pair => mappings = topit(src.len + 1, dst.len + 1))'
  BY DEF Accounts
<1>2. ASSUME Mapping' PROVE Stack' /\ Ledger'
  <2>1. Stack /\ Ledger /\ Walking' = Walking /\ Rest' = Rest
    BY <1>2 DEF Accounts
  <2>2. first_row' = first_row /\ first_col' = first_col
    BY DEF first_row, first_col
  <2> HIDE DEF first_row, first_col
  <2>3. UndecidedSrc' = UndecidedSrc /\ UndecidedDst' = UndecidedDst
    BY <2>1, <2>2 DEF UndecidedSrc, UndecidedDst
  <2>4. Separate(tree_pairs)'
    BY <2>1 DEF Stack, Separate, Apart
  <2>5. Stack'
    BY <2>1, <2>2, <2>3, <2>4 DEF Stack
  <2>6. Spent' = Spent
    BY <2>3, SpentSame
  <2>7. Ledger'
    BY <2>1, <2>6 DEF Ledger
  <2> QED
    BY <2>5, <2>7
<1> QED
  BY <1>1, <1>2 DEF Accounts

LEMMA AccountsInit == Init => Accounts
<1> SUFFICES ASSUME Init PROVE Accounts
  OBVIOUS
<1>1. ~Mapping /\ mappings = topit(src.len + 1, dst.len + 1)
  BY DEF Init, Mapping
<1> QED
  BY <1>1 DEF Accounts

LEMMA AccountsNextKeyRoots == Inv /\ Accounts /\ NextKeyRoots => Accounts'
<1> SUFFICES ASSUME Inv, Accounts, NextKeyRoots PROVE Accounts'
  OBVIOUS
<1>1. pc = "dist" /\ pc' = "rows" /\ UNCHANGED <<src, dst, root_node_pair, mappings>>
  BY DEF NextKeyRoots, StartForest, arenas
<1>2. root_node_pair
  BY <1>1 DEF Inv, Turns
<1>3. ~Mapping'
  BY <1>1, <1>2 DEF Mapping
<1> QED
  BY <1>1, <1>3 DEF Accounts

LEMMA AccountsFillRow == Inv /\ Tables /\ Accounts /\ FillRow => Accounts'
<1> SUFFICES ASSUME Inv, Tables, Accounts, FillRow PROVE Accounts'
  OBVIOUS
<1>1. /\ pc = "rows" /\ pc' = "rows" /\ Typed
      /\ UNCHANGED <<src, dst, pair, kr_pairs, root_node_pair, tree_pairs, row, col, mappings>>
  BY DEF Inv, FillRow, arenas
<1>2. CASE root_node_pair
  <2>1. ~Mapping'
    BY <1>1, <1>2 DEF Mapping
  <2> QED
    BY <1>1, <2>1 DEF Accounts
<1>3. CASE ~root_node_pair
  <2>1. Current /\ Queue
    BY <1>1 DEF Tables
  <2>2. \A q \in KeyRoots : DoneIn(src, dst, tree, q)
    <3>1. ~Filling /\ Left = {}
      BY <1>3, <2>1 DEF Filling, Queue
    <3> HIDE DEF Filling, Left, KeyRoots, DoneIn
    <3> QED
      BY <2>1, <3>1 DEF Queue
  <2>3. tree' = tree
    <3> HIDE DEF Inv, Current, FillRow, KeyRoots, DoneIn
    <3> QED
      BY <2>1, <2>2, RefillSame
  <2>4. Mapping /\ Walking' = Walking
    BY <1>1, <1>3 DEF Mapping, Walking
  <2>5. Rest' = Rest
    BY <1>1, <2>3, <2>4 DEF Rest
  <2> QED
    BY <1>1, <2>3, <2>4, <2>5, Quiet
<1> QED
  BY <1>2, <1>3

LEMMA AccountsEndForest == Inv /\ Tables /\ Accounts /\ EndForest => Accounts'
<1> SUFFICES ASSUME Inv, Tables, Accounts, EndForest PROVE Accounts'
  OBVIOUS
<1>1. /\ pc = "rows" /\ di > pair[1] /\ Typed /\ Current
      /\ pc' = IF root_node_pair THEN "dist" ELSE "walk"
      /\ UNCHANGED <<src, dst, tree, forest, pair, kr_pairs, di, root_node_pair, tree_pairs,
                     row, col, mappings>>
  BY DEF Inv, Tables, EndForest, arenas, tables
<1>2. CASE root_node_pair
  <2>1. ~Mapping'
    BY <1>1, <1>2 DEF Mapping
  <2> QED
    BY <1>1, <2>1 DEF Accounts
<1>3. CASE ~root_node_pair
  <2>1. Mapping /\ Walking' = Walking /\ Walking /\ pc' = "walk"
    BY <1>1, <1>3 DEF Mapping, Walking
  <2>2. row = pair[1] + 1 /\ col = pair[2] + 1 /\ di \in first_row .. pair[1] + 1
    BY <1>1, <1>3 DEF Inv, Turns, Table
  <2>3. di = pair[1] + 1
    <3>1. pair[1] \in Nat /\ first_row \in Nat
      BY <1>1, TableFacts
    <3> QED
      BY <1>1, <2>2, <3>1
  <2>4. tree[<<row, col>>] = forest[<<row, col>>]
    BY <1>1, <2>2, <2>3, PairInTable
  <2>5. Rest' = Rest
    BY <1>1, <2>1, <2>4 DEF Rest
  <2> QED
    BY <1>1, <2>1, <2>5, Quiet
<1> QED
  BY <1>2, <1>3

(* A new store links no nodes. *)
LEMMA NoPairs ==
  ASSUME Typed, mappings = topit(src.len + 1, dst.len + 1)
  PROVE  Pairs = {}
<1> SUFFICES ASSUME NEW q \in nodes(src) \X nodes(dst), has(mappings, q[1], q[2])
             PROVE  FALSE
  BY DEF Pairs
<1>1. nodes(src) = 0 .. src.len - 1 /\ nodes(dst) = 0 .. dst.len - 1
      /\ src.len \in Nat /\ dst.len \in Nat
  BY TableFacts
<1>2. mappings.src_to_dst[q[1]] = 0
  BY <1>1 DEF topit
<1>3. mappings.src_to_dst[q[1]] = q[2] + 1 /\ q[2] \in Nat
  BY <1>1 DEF has
<1> QED
  BY <1>2, <1>3

LEMMA AccountsEndDist == Inv /\ Accounts /\ EndDist => Accounts'
<1> SUFFICES ASSUME Inv, Accounts, EndDist PROVE Accounts'
  OBVIOUS
<1> DEFINE p == <<src.len, dst.len>>
<1>1. /\ Typed /\ pc = "dist" /\ tree_pairs' = <<p>> /\ pc' = "pop" /\ root_node_pair
      /\ UNCHANGED <<src, dst, tree, root_node_pair, mappings>>
  BY DEF Inv, Turns, EndDist, arenas, tables
<1>2. mappings = topit(src.len + 1, dst.len + 1)
  BY <1>1 DEF Accounts
<1>3. /\ src.len \in Nat /\ src.len > 0 /\ dst.len \in Nat /\ dst.len > 0
      /\ nodes(src) = 0 .. src.len - 1 /\ nodes(dst) = 0 .. dst.len - 1
      /\ IsTree(src) /\ IsTree(dst)
  BY <1>1, TableFacts
<1>4. Range(tree_pairs') = {p} /\ Len(tree_pairs') = 1
  BY <1>1 DEF Range
<1>5. ~Walking' /\ Rest' = 0
  BY <1>1 DEF Walking, Rest
<1>6. p \in Cells /\ p \notin {}
  BY <1>3 DEF Cells
<1>7. UndecidedSrc' = nodes(src) /\ UndecidedDst' = nodes(dst)
  <2>1. Subtree(src, p[1] - 1) = nodes(src) /\ Subtree(dst, p[2] - 1) = nodes(dst)
    BY <1>3 DEF Subtree, nodes, root, IsTree, TreeShape
  <2> HIDE DEF p
  <2>2. UndecidedSrc' = UNION {Subtree(src, q[1] - 1) : q \in {p}}
    BY <1>1, <1>4, <1>5 DEF UndecidedSrc
  <2>3. UndecidedDst' = UNION {Subtree(dst, q[2] - 1) : q \in {p}}
    BY <1>1, <1>4, <1>5 DEF UndecidedDst
  <2> QED
    BY <2>1, <2>2, <2>3
<1>8. /\ \A x \in nodes(src) : mappings.src_to_dst[x] = 0
      /\ \A y \in nodes(dst) : mappings.dst_to_src[y] = 0
  BY <1>2, <1>3 DEF topit
<1>9. Pairs' = {}
  <2>1. Pairs = {}
    BY <1>1, <1>2, NoPairs
  <2> QED
    BY <1>1, <2>1 DEF Pairs
<1>10. Stack'
  <2>1. Separate(tree_pairs)'
    BY <1>4 DEF Separate
  <2> QED
    BY <1>1, <1>5, <1>7, <1>8, <2>1 DEF Stack
<1>11. /\ UpdateCost(src, dst, {}) = 0 /\ TreeSum(tree, {}) = 0
       /\ TreeSum(tree, {p}) = tree[p] + TreeSum(tree, {}) /\ tree[p] \in Nat
  <2>1. /\ UpdateCost(src, dst, {}) = 0 /\ TreeSum(tree, {}) = 0
        /\ \A S \in SUBSET Cells :
             \A q \in Cells \ S : TreeSum(tree, S \cup {q}) = tree[q] + TreeSum(tree, S)
    BY <1>1, LedgerSums
  <2>2. tree[p] \in Nat
    BY <1>1, <1>6 DEF Typed
  <2> HIDE DEF p
  <2>3. TreeSum(tree, {} \cup {p}) = tree[p] + TreeSum(tree, {})
    BY <1>6, <2>1
  <2>4. {} \cup {p} = {p}
    OBVIOUS
  <2> QED
    BY <2>1, <2>2, <2>3, <2>4
<1>12. Spent' = 0
  <2>1. /\ Spent' = UpdateCost(src, dst, Pairs')
                      + UNIT * (Cardinality(nodes(src) \ UndecidedSrc') - Cardinality(Pairs'))
                      + UNIT * (Cardinality(nodes(dst) \ UndecidedDst') - Cardinality(Pairs'))
    BY <1>1 DEF Spent
  <2>2. nodes(src) \ UndecidedSrc' = {} /\ nodes(dst) \ UndecidedDst' = {}
    BY <1>7
  <2>3. Cardinality({}) = 0
    BY FS_EmptySet
  <2>4. Spent' = 0 + UNIT * (0 - 0) + UNIT * (0 - 0)
    BY <1>9, <1>11, <2>1, <2>2, <2>3
  <2>5. 0 - 0 = 0 /\ UNIT * 0 = 0
    BY Units
  <2> QED
    BY <2>4, <2>5
<1>13. Ledger'
  <2>1. Ledger' <=> tree[p] = Spent' + TreeSum(tree, {p}) + Rest'
    <3> HIDE DEF p
    <3>1. p' = p
      BY <1>1 DEF p
    <3> QED
      BY <1>1, <1>4, <3>1 DEF Ledger, p
  <2> HIDE DEF p
  <2> QED
    BY <1>5, <1>11, <1>12, <2>1
<1> QED
  BY <1>1, <1>2, <1>10, <1>13 DEF Accounts

LEMMA AccountsEnd == Inv /\ Accounts /\ (EndMappings \/ UNCHANGED zs_vars) => Accounts'
<1> SUFFICES ASSUME Inv, Accounts, EndMappings \/ UNCHANGED zs_vars PROVE Accounts'
  OBVIOUS
<1>1. CASE EndMappings
  <2>1. /\ pc = "pop" /\ pc' = "done" /\ tree_pairs = <<>> /\ Typed
        /\ UNCHANGED <<src, dst, pair, tree, tree_pairs, row, col, mappings, root_node_pair>>
    BY <1>1 DEF Inv, EndMappings, arenas, tables
  <2>2. Mapping /\ ~Walking /\ ~Walking' /\ Walking' = Walking
    BY <2>1 DEF Mapping, Walking
  <2>3. Rest' = Rest
    BY <2>2 DEF Rest
  <2> QED
    BY <2>1, <2>2, <2>3, Quiet
<1>2. CASE UNCHANGED zs_vars
  <2>1. /\ Typed /\ pc' = pc /\ forest' = forest
        /\ UNCHANGED <<src, dst, pair, tree, tree_pairs, row, col, mappings, root_node_pair>>
    BY <1>2 DEF Inv, zs_vars, arenas, tables
  <2>2. (Mapping' <=> Mapping) /\ Walking' = Walking
    BY <2>1 DEF Mapping, Walking
  <2>3. Rest' = Rest
    BY <2>1, <2>2 DEF Rest
  <2>4. Mapping' => Mapping /\ Walking' = Walking /\ Rest' = Rest
    BY <2>2, <2>3
  <2> HIDE DEF zs_vars
  <2> QED
    BY <2>1, <2>4, Quiet, Zenon
<1> QED
  BY <1>1, <1>2

(* A walk ends with two empty forests: nothing is left of its pair. *)
LEMMA AccountsEndWalk == Inv /\ Tables /\ Accounts /\ EndWalk => Accounts'
<1> SUFFICES ASSUME Inv, Tables, Accounts, EndWalk PROVE Accounts'
  OBVIOUS
<1>1. /\ pc = "walk" /\ Typed /\ Current /\ ~root_node_pair
      /\ row \in first_row .. di /\ col \in cols
      /\ UNCHANGED <<src, dst, tree, forest, pair, di, root_node_pair, tree_pairs,
                     row, col, mappings>>
  BY DEF Inv, Table, Turns, Tables, EndWalk, arenas, tables
<1>2. ~walking /\ pc' = "pop"
  <2>1. ~walking
    <3> SUFFICES ASSUME walking PROVE FALSE
      OBVIOUS
    <3>1. ~deletes /\ ~inserts /\ whole_trees(row - 1, col - 1) /\ ~same_type
      BY DEF EndWalk
    <3> QED
      BY <3>1, WalkFacts
  <2> QED
    BY <2>1 DEF EndWalk
<1>3. row = first_row /\ col = first_col /\ first_row \in Nat /\ first_col \in Nat
  <2>1. ~(row > first_row) /\ ~(col > first_col)
    BY <1>1, <1>2 DEF walking
  <2>2. first_row \in Nat /\ first_col \in Nat /\ cols = first_col .. pair[2] + 1
        /\ pair[2] \in Nat
    BY <1>1, TableFacts DEF cols
  <2>3. di \in Int
    BY <1>1, TableFacts DEF Inv, Table
  <2> HIDE DEF first_row, first_col, cols
  <2> QED
    BY <1>1, <2>1, <2>2, <2>3
<1>4. first_row' = first_row /\ first_col' = first_col
  BY <1>1 DEF first_row, first_col
<1>5. Mapping /\ Mapping' /\ Walking /\ ~Walking'
  BY <1>1, <1>2 DEF Mapping, Walking
<1>6. Stack /\ Ledger
  BY <1>5 DEF Accounts
<1>7. Rest = 0 /\ Rest' = 0
  <2>1. forest[<<first_row, first_col>>] = UNIT * (first_col - first_col)
    <3>1. first_col \in first_col .. pair[2] + 1
      BY <1>1, <1>3 DEF cols
    <3>2. Solves(src, dst, tree, forest, first_row, first_col, di, pair[2] + 1)
      BY <1>1 DEF Current
    <3> HIDE DEF first_row, first_col
    <3>3. \A c \in first_col .. pair[2] + 1 :
            forest[<<first_row, c>>] = UNIT * (c - first_col)
      BY <3>2 DEF Solves
    <3> QED
      BY <3>1, <3>3
  <2>2. first_col - first_col = 0 /\ UNIT * 0 = 0
    <3> HIDE DEF first_col
    <3> QED
      BY <1>3, Units
  <2>3. forest[<<row, col>>] = 0
    BY <1>3, <2>1, <2>2
  <2> QED
    BY <1>1, <1>5, <2>3 DEF Rest
<1>8. first_row .. row - 1 = {} /\ first_col .. col - 1 = {}
  <2>1. \A n \in Nat : n .. n - 1 = {}
    OBVIOUS
  <2> HIDE DEF first_row, first_col
  <2> QED
    BY <1>3, <2>1
<1>9. UndecidedSrc' = UndecidedSrc /\ UndecidedDst' = UndecidedDst
  <2>1. UndecidedSrc' = UNION {Subtree(src, q[1] - 1) : q \in Range(tree_pairs)}
    BY <1>1, <1>5 DEF UndecidedSrc
  <2>2. UndecidedDst' = UNION {Subtree(dst, q[2] - 1) : q \in Range(tree_pairs)}
    BY <1>1, <1>5 DEF UndecidedDst
  <2> QED
    BY <1>5, <1>8, <2>1, <2>2 DEF UndecidedSrc, UndecidedDst
<1>10. Stack'
  <2>1. Separate(tree_pairs)'
    BY <1>1, <1>6 DEF Stack, Separate, Apart
  <2> QED
    BY <1>1, <1>5, <1>6, <1>9, <2>1 DEF Stack
<1>11. Ledger'
  <2>1. Spent' = Spent
    BY <1>1, <1>9, SpentSame
  <2> QED
    BY <1>1, <1>6, <1>7, <2>1 DEF Ledger
<1> QED
  BY <1>1, <1>10, <1>11 DEF Accounts

(* The nodes of the subtrees of the pairs of R and of one more. *)
LEMMA OneSubtreeMore ==
  ASSUME NEW t, NEW i, NEW R, NEW p
  PROVE  UNION {Subtree(t, q[i] - 1) : q \in R \cup {p}}
           = (UNION {Subtree(t, q[i] - 1) : q \in R}) \cup Subtree(t, p[i] - 1)
<1> DEFINE A == UNION {Subtree(t, q[i] - 1) : q \in R \cup {p}}
           B == UNION {Subtree(t, q[i] - 1) : q \in R}
           C == Subtree(t, p[i] - 1)
<1>1. ASSUME NEW z \in A PROVE z \in B \cup C
  <2>1. PICK q \in R \cup {p} : z \in Subtree(t, q[i] - 1)
    OBVIOUS
  <2>2. CASE q \in R
    BY <2>1, <2>2
  <2>3. CASE q = p
    BY <2>1, <2>3
  <2> QED
    BY <2>1, <2>2, <2>3
<1>2. B \subseteq A
  OBVIOUS
<1>3. C \subseteq A
  OBVIOUS
<1>4. A = B \cup C
  <2> HIDE DEF A, B, C
  <2> QED
    BY <1>1, <1>2, <1>3
<1> QED
  BY <1>4

(* The pair popped from the stack becomes the pair that is walked: its     *)
(* distance in the table of the trees is what is left of it.               *)
LEMMA AccountsPop ==
  ASSUME Typed, Stack, Ledger, ~Walking, Walking', ~root_node_pair',
         tree_pairs # <<>>, tree_pairs' = Front(tree_pairs),
         row' = Last(tree_pairs)[1], col' = Last(tree_pairs)[2],
         pair' = <<Last(tree_pairs)[1] - 1, Last(tree_pairs)[2] - 1>>,
         UNCHANGED <<src, dst, tree, mappings>>,
         Rest' = tree[Last(tree_pairs)]
  PROVE  Accounts'
<1> DEFINE p == Last(tree_pairs)
           R == Range(Front(tree_pairs))
<1>1. tree_pairs \in Seq(Ends)
  BY DEF Typed
<1>2. p \in Ends
  BY <1>1, EndsOfSeq
<1>3. /\ Range(tree_pairs) = R \cup {p} /\ Separate(Front(tree_pairs))
      /\ \A q \in R : Apart(q, p)
  BY <1>1, LastOfSeparate DEF Stack
<1>4. row' = p[1] /\ col' = p[2] /\ pair' = <<p[1] - 1, p[2] - 1>> /\ Rest' = tree[p]
      /\ Range(tree_pairs') = R
  OBVIOUS
<1> HIDE DEF p, R
<1>5. /\ Range(tree_pairs) \subseteq Ends /\ Ends \subseteq Cells
      /\ p[1] - 1 \in Subtree(src, p[1] - 1) /\ p[1] \in Nat /\ p[2] \in Nat
  BY <1>2, LedgerTypes
<1>6. p \notin R
  <2>1. ~Apart(p, p)
    BY <1>5 DEF Apart
  <2> QED
    BY <1>3, <2>1
<1>7. /\ first_row' .. row' - 1 = Subtree(src, p[1] - 1)
      /\ first_col' .. col' - 1 = Subtree(dst, p[2] - 1)
  BY <1>4 DEF first_row, first_col, Subtree
<1>8. UndecidedSrc' = UndecidedSrc
  <2>1. UndecidedSrc' = (UNION {Subtree(src, q[1] - 1) : q \in R}) \cup Subtree(src, p[1] - 1)
    BY <1>4, <1>7 DEF UndecidedSrc
  <2>2. UndecidedSrc = UNION {Subtree(src, q[1] - 1) : q \in R \cup {p}}
    BY <1>3 DEF UndecidedSrc
  <2>3. UNION {Subtree(src, q[1] - 1) : q \in R \cup {p}}
          = (UNION {Subtree(src, q[1] - 1) : q \in R}) \cup Subtree(src, p[1] - 1)
    BY OneSubtreeMore
  <2> QED
    BY <2>1, <2>2, <2>3
<1>9. UndecidedDst' = UndecidedDst
  <2>1. UndecidedDst' = (UNION {Subtree(dst, q[2] - 1) : q \in R}) \cup Subtree(dst, p[2] - 1)
    BY <1>4, <1>7 DEF UndecidedDst
  <2>2. UndecidedDst = UNION {Subtree(dst, q[2] - 1) : q \in R \cup {p}}
    BY <1>3 DEF UndecidedDst
  <2>3. UNION {Subtree(dst, q[2] - 1) : q \in R \cup {p}}
          = (UNION {Subtree(dst, q[2] - 1) : q \in R}) \cup Subtree(dst, p[2] - 1)
    BY OneSubtreeMore
  <2> QED
    BY <2>1, <2>2, <2>3
<1>10. Stack'
  <2>1. Separate(tree_pairs)'
    BY <1>3 DEF Separate, Apart
  <2>2. ASSUME NEW q \in R
        PROVE  /\ Subtree(src, q[1] - 1) \cap (first_row' .. row' - 1) = {}
               /\ Subtree(dst, q[2] - 1) \cap (first_col' .. col' - 1) = {}
    BY <1>3, <1>7 DEF Apart
  <2>3. \A x \in UndecidedSrc : mappings.src_to_dst[x] = 0
    BY DEF Stack
  <2>4. \A y \in UndecidedDst : mappings.dst_to_src[y] = 0
    BY DEF Stack
  <2> QED
    BY <1>4, <1>8, <1>9, <2>1, <2>2, <2>3, <2>4 DEF Stack
<1>11. Ledger'
  <2>1. Spent' = Spent /\ Spent \in Int
    BY <1>8, <1>9, SpentSame, SpentTyped
  <2>2. /\ TreeSum(tree, R) \in Nat
        /\ TreeSum(tree, R \cup {p}) = tree[p] + TreeSum(tree, R)
    <3>1. R \in SUBSET Cells /\ p \in Cells \ R
      BY <1>2, <1>3, <1>5, <1>6
    <3>2. \A S \in SUBSET Cells :
            /\ TreeSum(tree, S) \in Nat
            /\ \A q \in Cells \ S : TreeSum(tree, S \cup {q}) = tree[q] + TreeSum(tree, S)
      BY LedgerSums
    <3> QED
      BY <3>1, <3>2
  <2>3. tree[p] \in Nat
    BY <1>2, <1>5 DEF Typed
  <2>4. Rest = 0
    BY DEF Rest
  <2>5. TreeSum(tree, Range(tree_pairs)) = tree[p] + TreeSum(tree, R)
    BY <1>3, <2>2
  <2> DEFINE a == Spent
             b == TreeSum(tree, R)
             c == tree[p]
  <2>6. a \in Int /\ b \in Nat /\ c \in Nat
    BY <2>1, <2>2, <2>3
  <2> HIDE DEF a, b, c
  <2>7. a + (b + c) = a + ((c + b) + 0)
    BY <2>6
  <2>8. Spent' + (TreeSum(tree, Range(tree_pairs)') + Rest')
          = Spent + (TreeSum(tree, Range(tree_pairs)) + Rest)
    BY <1>4, <2>1, <2>4, <2>5, <2>7 DEF a, b, c
  <2>9. Spent' \in Int /\ TreeSum(tree, Range(tree_pairs)') \in Nat /\ Rest \in Nat /\ Rest' \in Nat
    BY <1>4, <2>1, <2>2, <2>3, <2>4
  <2> QED
    BY <2>8, <2>9, LedgerPaid
<1> QED
  BY <1>10, <1>11 DEF Accounts

LEMMA AccountsPopPair == Inv /\ Accounts /\ PopPair => Accounts'
<1> SUFFICES ASSUME Inv, Accounts, PopPair PROVE Accounts'
  OBVIOUS
<1> DEFINE p == Last(tree_pairs)
<1>1. /\ Typed /\ pc = "pop" /\ ~root_node_pair /\ tree_pairs # <<>>
      /\ tree_pairs' = Front(tree_pairs) /\ row' = p[1] /\ col' = p[2]
      /\ pair' = <<p[1] - 1, p[2] - 1>> /\ pc' = "rows"
      /\ UNCHANGED <<src, dst, tree, mappings, root_node_pair>>
  BY DEF Inv, PopPair, StartForest, arenas
<1>2. ~Walking /\ Walking' /\ Mapping /\ ~root_node_pair'
  BY <1>1 DEF Walking, Mapping
<1>3. Stack /\ Ledger
  BY <1>2 DEF Accounts
<1>4. p = <<p[1], p[2]>>
  <2>1. tree_pairs \in Seq(Ends)
    BY <1>1 DEF Typed
  <2>2. p \in Ends
    BY <1>1, <2>1, EndsOfSeq
  <2> QED
    BY <2>2 DEF Ends
<1>5. Rest' = tree[p]
  BY <1>1, <1>2, <1>4 DEF Rest
<1> QED
  BY <1>1, <1>2, <1>3, <1>5, AccountsPop

LEMMA AccountsPopRoots == Inv /\ Tables /\ Accounts /\ PopRoots => Accounts'
<1> SUFFICES ASSUME Inv, Tables, Accounts, PopRoots PROVE Accounts'
  OBVIOUS
<1> DEFINE p == <<src.len, dst.len>>
<1>1. /\ Typed /\ Table /\ Turns /\ pc = "pop" /\ root_node_pair
      /\ tree_pairs' = Front(tree_pairs)
      /\ row' = Last(tree_pairs)[1] /\ col' = Last(tree_pairs)[2]
      /\ pair' = <<Last(tree_pairs)[1] - 1, Last(tree_pairs)[2] - 1>>
      /\ pc' = "walk" /\ ~root_node_pair'
      /\ UNCHANGED <<src, dst, tree, forest, mappings>>
  BY DEF Inv, PopRoots, arenas, tables
<1>2. /\ kr_pairs = <<>> /\ tree_pairs = <<p>> /\ pair = roots /\ di = pair[1] + 1
      /\ tree_pairs # <<>>
  BY <1>1 DEF Table, Turns
<1>3. Last(tree_pairs) = p
  BY <1>2 DEF Last
<1>4. ~Walking /\ Walking' /\ Mapping
  BY <1>1 DEF Walking, Mapping
<1>5. Stack /\ Ledger
  BY <1>4 DEF Accounts
<1>6. tree[p] = forest[p]
  <2>1. Current
    BY <1>1, <1>2 DEF Tables
  <2>2. tree[<<pair[1] + 1, pair[2] + 1>>] = forest[<<pair[1] + 1, pair[2] + 1>>]
    BY <1>1, <1>2, <2>1, PairInTable
  <2>3. pair[1] + 1 = src.len /\ pair[2] + 1 = dst.len
    <3>1. src.len \in Nat /\ dst.len \in Nat
      BY <1>1, TableFacts
    <3> QED
      BY <1>2, <3>1 DEF roots, root
  <2> QED
    BY <2>2, <2>3
<1>7. Rest' = tree[Last(tree_pairs)]
  <2>1. row' = src.len /\ col' = dst.len
    BY <1>1, <1>3
  <2>2. Rest' = forest[p]
    BY <1>1, <1>4, <2>1 DEF Rest
  <2> QED
    BY <1>3, <1>6, <2>2
<1> QED
  BY <1>1, <1>2, <1>4, <1>5, <1>7, AccountsPop

(* One node more is decided, or one on each side that is kept. *)
LEMMA OneMoreSpent ==
  ASSUME NEW a \in Nat, NEW b \in Nat, NEW k \in Nat, NEW c \in Nat, NEW d \in Nat
  PROVE  LET spent == c + UNIT * (a - k) + UNIT * (b - k)
         IN  /\ spent \in Int
             /\ c + UNIT * ((a + 1) - k) + UNIT * (b - k) = spent + UNIT
             /\ c + UNIT * (a - k) + UNIT * ((b + 1) - k) = spent + UNIT
             /\ (d + c) + UNIT * ((a + 1) - (k + 1)) + UNIT * ((b + 1) - (k + 1)) = spent + d
<1> DEFINE x == a - k
           y == b - k
           m == UNIT * x
           n == UNIT * y
<1>1. /\ x \in Int /\ y \in Int /\ UNIT \in Int
      /\ (a + 1) - k = x + 1 /\ (b + 1) - k = y + 1
      /\ (a + 1) - (k + 1) = x /\ (b + 1) - (k + 1) = y
  BY UnitAssumption
<1> HIDE DEF x, y
<1>2. /\ m \in Int /\ n \in Int
      /\ UNIT * (x + 1) = m + UNIT /\ UNIT * (y + 1) = n + UNIT
  BY <1>1
<1>3. c + m + n = c + UNIT * x + UNIT * y
  OBVIOUS
<1> HIDE DEF m, n
<1>4. /\ c + m + n \in Int
      /\ c + (m + UNIT) + n = (c + m + n) + UNIT
      /\ c + m + (n + UNIT) = (c + m + n) + UNIT
      /\ (d + c) + m + n = (c + m + n) + d
  BY <1>1, <1>2
<1> QED
  BY <1>1, <1>2, <1>3, <1>4 DEF x, y, m, n

(* The last node of a range leaves the undecided ones. *)
LEMMA OneNodeLess ==
  ASSUME NEW A, NEW l \in Nat, NEW h \in Nat, l < h, A \cap (l .. h - 1) = {}
  PROVE  /\ A \cup (l .. (h - 1) - 1) = (A \cup (l .. h - 1)) \ {h - 1}
         /\ h - 1 \in A \cup (l .. h - 1)
         /\ l .. (h - 1) - 1 \subseteq l .. h - 1
<1> DEFINE x == h - 1
<1>1. x \in Nat /\ l <= x /\ x \in l .. h - 1
  BY SMT
<1>2. \A z : z \in l .. x - 1 <=> z \in l .. h - 1 /\ z # x
  <2> SUFFICES ASSUME NEW z PROVE z \in l .. x - 1 <=> z \in l .. h - 1 /\ z # x
    OBVIOUS
  <2> QED
    BY <1>1
<1>3. x \notin A
  BY <1>1
<1> HIDE DEF x
<1>4. A \cup (l .. x - 1) = (A \cup (l .. h - 1)) \ {x}
  BY <1>2, <1>3
<1> QED
  BY <1>1, <1>2, <1>4 DEF x

LEMMA DropSrc ==
  ASSUME Typed, Stack, Walking, Walking', row > first_row, row' = row - 1,
         UNCHANGED <<src, pair, tree_pairs>>
  PROVE  /\ first_row' = first_row
         /\ UndecidedSrc' = UndecidedSrc \ {row - 1} /\ row - 1 \in UndecidedSrc
         /\ row - 1 \in nodes(src)
         /\ first_row' .. row' - 1 \subseteq first_row .. row - 1
<1> DEFINE A == UNION {Subtree(src, q[1] - 1) : q \in Range(tree_pairs)}
           l == first_row
<1>1. /\ l \in Nat /\ row \in Nat /\ l < row /\ l' = l /\ row <= src.len
      /\ src.len \in Nat /\ nodes(src) = 0 .. src.len - 1
  <2>1. first_row \in Nat /\ src.len \in Nat /\ nodes(src) = 0 .. src.len - 1
    BY TableFacts
  <2>2. row \in 0 .. src.len
    BY DEF Typed
  <2>3. l' = l
    BY DEF first_row
  <2> HIDE DEF first_row
  <2> QED
    BY <2>1, <2>2, <2>3
<1>2. UndecidedSrc = A \cup (l .. row - 1) /\ UndecidedSrc' = A \cup (l .. (row - 1) - 1)
  BY <1>1 DEF UndecidedSrc
<1>3. A \cap (l .. row - 1) = {}
  <2>1. \A q \in Range(tree_pairs) : Subtree(src, q[1] - 1) \cap (l .. row - 1) = {}
    BY DEF Stack
  <2> HIDE DEF l
  <2> QED
    BY <2>1
<1>4. row - 1 \in nodes(src)
  BY <1>1
<1>5. l' = first_row'
  OBVIOUS
<1> HIDE DEF A, l
<1>6. /\ A \cup (l .. (row - 1) - 1) = (A \cup (l .. row - 1)) \ {row - 1}
      /\ row - 1 \in A \cup (l .. row - 1)
      /\ l .. (row - 1) - 1 \subseteq l .. row - 1
  BY <1>1, <1>3, OneNodeLess
<1> QED
  BY <1>1, <1>2, <1>4, <1>5, <1>6 DEF l

LEMMA DropDst ==
  ASSUME Typed, Stack, Walking, Walking', col > first_col, col' = col - 1,
         UNCHANGED <<dst, pair, tree_pairs>>
  PROVE  /\ first_col' = first_col
         /\ UndecidedDst' = UndecidedDst \ {col - 1} /\ col - 1 \in UndecidedDst
         /\ col - 1 \in nodes(dst)
         /\ first_col' .. col' - 1 \subseteq first_col .. col - 1
<1> DEFINE A == UNION {Subtree(dst, q[2] - 1) : q \in Range(tree_pairs)}
           l == first_col
<1>1. /\ l \in Nat /\ col \in Nat /\ l < col /\ l' = l /\ col <= dst.len
      /\ dst.len \in Nat /\ nodes(dst) = 0 .. dst.len - 1
  <2>1. first_col \in Nat /\ dst.len \in Nat /\ nodes(dst) = 0 .. dst.len - 1
    BY TableFacts
  <2>2. col \in 0 .. dst.len
    BY DEF Typed
  <2>3. l' = l
    BY DEF first_col
  <2> HIDE DEF first_col
  <2> QED
    BY <2>1, <2>2, <2>3
<1>2. UndecidedDst = A \cup (l .. col - 1) /\ UndecidedDst' = A \cup (l .. (col - 1) - 1)
  BY <1>1 DEF UndecidedDst
<1>3. A \cap (l .. col - 1) = {}
  <2>1. \A q \in Range(tree_pairs) : Subtree(dst, q[2] - 1) \cap (l .. col - 1) = {}
    BY DEF Stack
  <2> HIDE DEF l
  <2> QED
    BY <2>1
<1>4. col - 1 \in nodes(dst)
  BY <1>1
<1>5. l' = first_col'
  OBVIOUS
<1> HIDE DEF A, l
<1>6. /\ A \cup (l .. (col - 1) - 1) = (A \cup (l .. col - 1)) \ {col - 1}
      /\ col - 1 \in A \cup (l .. col - 1)
      /\ l .. (col - 1) - 1 \subseteq l .. col - 1
  BY <1>1, <1>3, OneNodeLess
<1> QED
  BY <1>1, <1>2, <1>4, <1>5, <1>6 DEF l

(* A walk that goes on in smaller forests stays clear of the stack. *)
LEMMA StackKept ==
  ASSUME Stack, Walking, UNCHANGED <<src, dst, tree_pairs>>,
         first_row' .. row' - 1 \subseteq first_row .. row - 1,
         first_col' .. col' - 1 \subseteq first_col .. col - 1,
         \A x \in UndecidedSrc' : mappings'.src_to_dst[x] = 0,
         \A y \in UndecidedDst' : mappings'.dst_to_src[y] = 0
  PROVE  Stack'
<1>1. Separate(tree_pairs)'
  BY DEF Stack, Separate, Apart
<1>2. \A q \in Range(tree_pairs) :
        /\ Subtree(src, q[1] - 1) \cap (first_row .. row - 1) = {}
        /\ Subtree(dst, q[2] - 1) \cap (first_col .. col - 1) = {}
  BY DEF Stack
<1>3. \A q \in Range(tree_pairs) :
        /\ Subtree(src, q[1] - 1) \cap (first_row' .. row' - 1) = {}
        /\ Subtree(dst, q[2] - 1) \cap (first_col' .. col' - 1) = {}
  <2> DEFINE R == first_row .. row - 1
             S == first_row' .. row' - 1
             C == first_col .. col - 1
             D == first_col' .. col' - 1
  <2>1. \A q \in Range(tree_pairs) : /\ Subtree(src, q[1] - 1) \cap R = {}
                                     /\ Subtree(dst, q[2] - 1) \cap C = {}
    BY <1>2
  <2>2. S \subseteq R /\ D \subseteq C
    OBVIOUS
  <2> HIDE DEF R, S, C, D
  <2>3. \A q \in Range(tree_pairs) : /\ Subtree(src, q[1] - 1) \cap S = {}
                                     /\ Subtree(dst, q[2] - 1) \cap D = {}
    BY <2>1, <2>2
  <2> QED
    BY <2>3 DEF S, D
<1> QED
  BY <1>1, <1>3 DEF Stack

(* What a walk begins a step with. *)
LEMMA WalkOwes ==
  ASSUME Inv, Tables, Accounts, walking
  PROVE  /\ pc = "walk" /\ ~root_node_pair /\ Walking /\ Stack /\ Ledger /\ Typed /\ Current
         /\ Spent \in Int /\ TreeSum(tree, Range(tree_pairs)) \in Nat
         /\ Rest = forest[<<row, col>>] /\ Rest \in Nat
<1>1. pc = "walk" /\ Typed /\ ~root_node_pair /\ Current
  BY DEF walking, Inv, Turns, Tables
<1>2. Walking /\ Mapping
  BY <1>1 DEF Walking, Mapping
<1>3. Stack /\ Ledger
  BY <1>2 DEF Accounts
<1>4. Rest = forest[<<row, col>>]
  BY <1>1, <1>2 DEF Rest
<1> QED
  BY <1>1, <1>2, <1>3, <1>4, SpentTyped

(* The nodes that are decided and the pairs, as numbers. *)
LEMMA SpentNumbers ==
  ASSUME Typed
  PROVE  /\ UpdateCost(src, dst, Pairs) \in Nat /\ Cardinality(Pairs) \in Nat
         /\ Pairs \subseteq NodePairs
         /\ Cardinality(nodes(src) \ UndecidedSrc) \in Nat
         /\ Cardinality(nodes(dst) \ UndecidedDst) \in Nat
         /\ IsFiniteSet(nodes(src)) /\ IsFiniteSet(nodes(dst))
<1>1. Pairs \subseteq NodePairs
  BY LedgerTypes
<1>2. /\ UpdateCost(src, dst, Pairs) \in Nat /\ Cardinality(Pairs) \in Nat
      /\ IsFiniteSet(nodes(src)) /\ IsFiniteSet(nodes(dst))
  <2> HIDE DEF Typed, Pairs
  <2> QED
    BY <1>1, LedgerSums
<1>3. IsFiniteSet(nodes(src) \ UndecidedSrc) /\ IsFiniteSet(nodes(dst) \ UndecidedDst)
  BY <1>2, FS_Subset
<1>4. /\ Cardinality(nodes(src) \ UndecidedSrc) \in Nat
      /\ Cardinality(nodes(dst) \ UndecidedDst) \in Nat
  BY <1>3, FS_CardinalityType
<1> QED
  BY <1>1, <1>2, <1>4

(* Only nodes of the trees are undecided. *)
LEMMA UndecidedNodes ==
  ASSUME Typed
  PROVE  UndecidedSrc \subseteq nodes(src) /\ UndecidedDst \subseteq nodes(dst)
<1>1. /\ Range(tree_pairs) \subseteq Ends
      /\ \A p \in Ends : p[1] - 1 \in nodes(src) /\ p[2] - 1 \in nodes(dst)
      /\ Walking => row \in 0 .. src.len /\ col \in 0 .. dst.len
  BY LedgerTypes
<1>2. /\ IsTree(src) /\ IsTree(dst) /\ first_row \in Nat /\ first_col \in Nat
      /\ src.len \in Nat /\ nodes(src) = 0 .. src.len - 1
      /\ dst.len \in Nat /\ nodes(dst) = 0 .. dst.len - 1
  BY TableFacts
<1>3. ASSUME NEW p \in Range(tree_pairs)
      PROVE  /\ Subtree(src, p[1] - 1) \subseteq nodes(src)
             /\ Subtree(dst, p[2] - 1) \subseteq nodes(dst)
  BY <1>1, <1>2, SubtreeInNodes
<1>4. \A l, h, n \in Nat : h \in 0 .. n => l .. h - 1 \subseteq 0 .. n - 1
  OBVIOUS
<1>5. /\ Walking => first_row .. row - 1 \subseteq nodes(src)
      /\ Walking => first_col .. col - 1 \subseteq nodes(dst)
  BY <1>1, <1>2, <1>4, SMTT(20)
<1> QED
  BY <1>3, <1>5 DEF UndecidedSrc, UndecidedDst

LEMMA AccountsDelete == Inv /\ Tables /\ Accounts /\ Inv' /\ Delete => Accounts'
<1> SUFFICES ASSUME Inv, Tables, Accounts, Inv', Delete PROVE Accounts'
  OBVIOUS
<1>1. /\ walking /\ deletes /\ row' = row - 1 /\ col' = col
      /\ UNCHANGED <<src, dst, tree, forest, pc, pair, root_node_pair, tree_pairs, mappings>>
  BY DEF Delete, Walked, arenas, tables
<1>2. /\ pc = "walk" /\ ~root_node_pair /\ Walking /\ Stack /\ Ledger /\ Typed
      /\ Spent \in Int /\ TreeSum(tree, Range(tree_pairs)) \in Nat
      /\ Rest = forest[<<row, col>>] /\ Rest \in Nat
  BY <1>1, WalkOwes
<1>3. Walking' /\ Mapping' /\ ~root_node_pair'
  BY <1>1, <1>2 DEF Walking, Mapping
<1>4. row > first_row /\ forest[<<row - 1, col>>] + UNIT = forest[<<row, col>>]
  BY <1>1 DEF deletes
<1>5. /\ first_row' = first_row
      /\ UndecidedSrc' = UndecidedSrc \ {row - 1} /\ row - 1 \in UndecidedSrc
      /\ row - 1 \in nodes(src)
      /\ first_row' .. row' - 1 \subseteq first_row .. row - 1
  BY <1>1, <1>2, <1>3, <1>4, DropSrc
<1>6. UndecidedDst' = UndecidedDst /\ first_col' .. col' - 1 \subseteq first_col .. col - 1
  <2>1. first_col' = first_col
    BY <1>1 DEF first_col
  <2> QED
    BY <1>1, <1>2, <1>3, <2>1 DEF UndecidedDst
<1>7. Stack'
  <2>1. \A x \in UndecidedSrc' : mappings'.src_to_dst[x] = 0
    BY <1>1, <1>2, <1>5 DEF Stack
  <2>2. \A y \in UndecidedDst' : mappings'.dst_to_src[y] = 0
    BY <1>1, <1>2, <1>6 DEF Stack
  <2> QED
    BY <1>1, <1>2, <1>5, <1>6, <2>1, <2>2, StackKept
<1>8. Spent' = Spent + UNIT
  <2>1. Pairs' = Pairs
    BY <1>1 DEF Pairs
  <2> DEFINE a == Cardinality(nodes(src) \ UndecidedSrc)
             b == Cardinality(nodes(dst) \ UndecidedDst)
             k == Cardinality(Pairs)
             c == UpdateCost(src, dst, Pairs)
  <2>2. a \in Nat /\ b \in Nat /\ k \in Nat /\ c \in Nat /\ IsFiniteSet(nodes(src))
    BY <1>2, SpentNumbers
  <2>3. Cardinality(nodes(src) \ UndecidedSrc') = a + 1
    BY <1>5, <2>2, OneDecided
  <2>4. Spent = c + UNIT * (a - k) + UNIT * (b - k)
    BY DEF Spent
  <2>5. Spent' = c + UNIT * ((a + 1) - k) + UNIT * (b - k)
    BY <1>1, <1>6, <2>1, <2>3 DEF Spent
  <2> HIDE DEF a, b, c, k
  <2> QED
    BY <2>2, <2>4, <2>5, OneMoreSpent
<1>9. Ledger'
  <2> DEFINE s == TreeSum(tree, Range(tree_pairs))
             f == forest[<<row - 1, col>>]
  <2>1. Rest' = f
    BY <1>1, <1>2, <1>3 DEF Rest
  <2>2. f \in Nat
    <3>1. row' \in 0 .. src.len /\ col' \in 0 .. dst.len
      BY <1>1 DEF Inv, Typed
    <3> QED
      BY <1>1, <1>2, <3>1, CellTyped
  <2>3. s \in Nat /\ Rest = f + UNIT /\ Range(tree_pairs)' = Range(tree_pairs)
    BY <1>1, <1>2, <1>4
  <2>4. UNIT \in Nat
    BY Units
  <2> HIDE DEF s, f
  <2>5. (Spent + UNIT) + (s + f) = Spent + (s + (f + UNIT)) /\ Spent + UNIT \in Int
    BY <1>2, <2>2, <2>3, <2>4
  <2>6. /\ Spent' \in Int /\ TreeSum(tree, Range(tree_pairs)') \in Nat
        /\ Rest \in Nat /\ Rest' \in Nat
        /\ Spent' + (TreeSum(tree, Range(tree_pairs)') + Rest')
             = Spent + (TreeSum(tree, Range(tree_pairs)) + Rest)
    BY <1>2, <1>8, <2>1, <2>2, <2>3, <2>5 DEF s
  <2> QED
    BY <1>1, <1>2, <2>6, LedgerPaid
<1> QED
  BY <1>3, <1>7, <1>9 DEF Accounts
LEMMA AccountsInsert == Inv /\ Tables /\ Accounts /\ Inv' /\ Insert => Accounts'
<1> SUFFICES ASSUME Inv, Tables, Accounts, Inv', Insert PROVE Accounts'
  OBVIOUS
<1>1. /\ walking /\ inserts /\ row' = row /\ col' = col - 1
      /\ UNCHANGED <<src, dst, tree, forest, pc, pair, root_node_pair, tree_pairs, mappings>>
  BY DEF Insert, Walked, arenas, tables
<1>2. /\ pc = "walk" /\ ~root_node_pair /\ Walking /\ Stack /\ Ledger /\ Typed
      /\ Spent \in Int /\ TreeSum(tree, Range(tree_pairs)) \in Nat
      /\ Rest = forest[<<row, col>>] /\ Rest \in Nat
  BY <1>1, WalkOwes
<1>3. Walking' /\ Mapping' /\ ~root_node_pair'
  BY <1>1, <1>2 DEF Walking, Mapping
<1>4. col > first_col /\ forest[<<row, col - 1>>] + UNIT = forest[<<row, col>>]
  BY <1>1 DEF inserts
<1>5. /\ first_col' = first_col
      /\ UndecidedDst' = UndecidedDst \ {col - 1} /\ col - 1 \in UndecidedDst
      /\ col - 1 \in nodes(dst)
      /\ first_col' .. col' - 1 \subseteq first_col .. col - 1
  BY <1>1, <1>2, <1>3, <1>4, DropDst
<1>6. UndecidedSrc' = UndecidedSrc /\ first_row' .. row' - 1 \subseteq first_row .. row - 1
  <2>1. first_row' = first_row
    BY <1>1 DEF first_row
  <2> QED
    BY <1>1, <1>2, <1>3, <2>1 DEF UndecidedSrc
<1>7. Stack'
  <2>1. \A x \in UndecidedSrc' : mappings'.src_to_dst[x] = 0
    BY <1>1, <1>2, <1>6 DEF Stack
  <2>2. \A y \in UndecidedDst' : mappings'.dst_to_src[y] = 0
    BY <1>1, <1>2, <1>5 DEF Stack
  <2> QED
    BY <1>1, <1>2, <1>5, <1>6, <2>1, <2>2, StackKept
<1>8. Spent' = Spent + UNIT
  <2>1. Pairs' = Pairs
    BY <1>1 DEF Pairs
  <2> DEFINE a == Cardinality(nodes(src) \ UndecidedSrc)
             b == Cardinality(nodes(dst) \ UndecidedDst)
             k == Cardinality(Pairs)
             c == UpdateCost(src, dst, Pairs)
  <2>2. a \in Nat /\ b \in Nat /\ k \in Nat /\ c \in Nat /\ IsFiniteSet(nodes(dst))
    BY <1>2, SpentNumbers
  <2>3. Cardinality(nodes(dst) \ UndecidedDst') = b + 1
    BY <1>5, <2>2, OneDecided
  <2>4. Spent = c + UNIT * (a - k) + UNIT * (b - k)
    BY DEF Spent
  <2>5. Spent' = c + UNIT * (a - k) + UNIT * ((b + 1) - k)
    BY <1>1, <1>6, <2>1, <2>3 DEF Spent
  <2> HIDE DEF a, b, c, k
  <2> QED
    BY <2>2, <2>4, <2>5, OneMoreSpent
<1>9. Ledger'
  <2> DEFINE s == TreeSum(tree, Range(tree_pairs))
             f == forest[<<row, col - 1>>]
  <2>1. Rest' = f
    BY <1>1, <1>2, <1>3 DEF Rest
  <2>2. f \in Nat
    <3>1. row' \in 0 .. src.len /\ col' \in 0 .. dst.len
      BY <1>1 DEF Inv, Typed
    <3> QED
      BY <1>1, <1>2, <3>1, CellTyped
  <2>3. s \in Nat /\ Rest = f + UNIT /\ Range(tree_pairs)' = Range(tree_pairs)
    BY <1>1, <1>2, <1>4
  <2>4. UNIT \in Nat
    BY Units
  <2> HIDE DEF s, f
  <2>5. (Spent + UNIT) + (s + f) = Spent + (s + (f + UNIT)) /\ Spent + UNIT \in Int
    BY <1>2, <2>2, <2>3, <2>4
  <2>6. /\ Spent' \in Int /\ TreeSum(tree, Range(tree_pairs)') \in Nat
        /\ Rest \in Nat /\ Rest' \in Nat
        /\ Spent' + (TreeSum(tree, Range(tree_pairs)') + Rest')
             = Spent + (TreeSum(tree, Range(tree_pairs)) + Rest)
    BY <1>2, <1>8, <2>1, <2>2, <2>3, <2>5 DEF s
  <2> QED
    BY <1>1, <1>2, <2>6, LedgerPaid
<1> QED
  BY <1>3, <1>7, <1>9 DEF Accounts

(* Two nodes that were free are mapped to each other, and nothing else is. *)
LEMMA RootsMapped ==
  ASSUME Inv, Tables, Accounts, MapRoots
  PROVE  /\ <<row - 1, col - 1>> \in NodePairs \ Pairs
         /\ Pairs' = Pairs \cup {<<row - 1, col - 1>>}
         /\ row - 1 \in UndecidedSrc /\ UndecidedSrc' = UndecidedSrc \ {row - 1}
         /\ col - 1 \in UndecidedDst /\ UndecidedDst' = UndecidedDst \ {col - 1}
         /\ first_row' .. row' - 1 \subseteq first_row .. row - 1
         /\ first_col' .. col' - 1 \subseteq first_col .. col - 1
         /\ \A z \in nodes(src) \ {row - 1} : mappings'.src_to_dst[z] = mappings.src_to_dst[z]
         /\ \A z \in nodes(dst) \ {col - 1} : mappings'.dst_to_src[z] = mappings.dst_to_src[z]
<1> DEFINE x == row - 1
           y == col - 1
           p == <<x, y>>
<1>1. /\ walking /\ ~deletes /\ ~inserts /\ whole_trees(x, y)
      /\ row' = row - 1 /\ col' = col - 1 /\ mappings' = link(mappings, x, y)
      /\ UNCHANGED <<src, dst, tree, forest, pc, pair, root_node_pair, tree_pairs>>
  BY DEF MapRoots, Walked, arenas, tables
<1>2. /\ pc = "walk" /\ ~root_node_pair /\ Walking /\ Stack /\ Ledger /\ Typed /\ Current
      /\ Spent \in Int /\ TreeSum(tree, Range(tree_pairs)) \in Nat
      /\ Rest = forest[<<row, col>>] /\ Rest \in Nat
  BY <1>1, WalkOwes
<1>3. Walking' /\ Mapping' /\ ~root_node_pair'
  BY <1>1, <1>2 DEF Walking, Mapping
<1>4. row > first_row /\ col > first_col
  BY <1>1, WalkFacts
<1>5. /\ UndecidedSrc' = UndecidedSrc \ {x} /\ x \in UndecidedSrc /\ x \in nodes(src)
      /\ first_row' .. row' - 1 \subseteq first_row .. row - 1
  BY <1>1, <1>2, <1>3, <1>4, DropSrc
<1>6. /\ UndecidedDst' = UndecidedDst \ {y} /\ y \in UndecidedDst /\ y \in nodes(dst)
      /\ first_col' .. col' - 1 \subseteq first_col .. col - 1
  BY <1>1, <1>2, <1>3, <1>4, DropDst
<1> HIDE DEF x, y
<1>7. /\ nodes(src) = 0 .. src.len - 1 /\ nodes(dst) = 0 .. dst.len - 1
      /\ src.len \in Nat /\ dst.len \in Nat
      /\ DOMAIN mappings.src_to_dst = 0 .. src.len + 1
      /\ DOMAIN mappings.dst_to_src = 0 .. dst.len + 1
  <2>1. /\ nodes(src) = 0 .. src.len - 1 /\ nodes(dst) = 0 .. dst.len - 1
        /\ src.len \in Nat /\ dst.len \in Nat
    BY <1>2, TableFacts
  <2> QED
    BY <1>2, <2>1 DEF Typed, Stores
<1>8. /\ mappings.src_to_dst[x] = 0 /\ mappings.dst_to_src[y] = 0
  BY <1>2, <1>5, <1>6 DEF Stack
<1>9. /\ mappings'.src_to_dst[x] = y + 1 /\ mappings'.dst_to_src[y] = x + 1
      /\ \A z \in nodes(src) \ {x} : mappings'.src_to_dst[z] = mappings.src_to_dst[z]
      /\ \A z \in nodes(dst) \ {y} : mappings'.dst_to_src[z] = mappings.dst_to_src[z]
  <2>1. /\ \A z \in nodes(src) : z \in DOMAIN mappings.src_to_dst
        /\ \A z \in nodes(dst) : z \in DOMAIN mappings.dst_to_src
    BY <1>7
  <2>2. /\ mappings'.src_to_dst = [mappings.src_to_dst EXCEPT ![x] = y + 1]
        /\ mappings'.dst_to_src = [mappings.dst_to_src EXCEPT ![y] = x + 1]
    BY <1>1 DEF link
  <2> QED
    BY <1>5, <1>6, <2>1, <2>2
<1>10. p \in NodePairs \ Pairs /\ Pairs' = Pairs \cup {p}
  <2>1. p \in NodePairs
    BY <1>5, <1>6 DEF NodePairs
  <2>2. ASSUME NEW q \in NodePairs
        PROVE  has(mappings', q[1], q[2]) <=> q = p \/ has(mappings, q[1], q[2])
    <3>1. /\ q[1] \in nodes(src) /\ q[2] \in nodes(dst) /\ q = <<q[1], q[2]>>
          /\ q[1] \in Nat /\ q[2] \in Nat /\ x \in Nat /\ y \in Nat
      BY <1>5, <1>6, <1>7 DEF NodePairs
    <3> DEFINE a == q[1]
               b == q[2]
    <3>2. /\ a \in nodes(src) /\ b \in nodes(dst) /\ a \in Nat /\ b \in Nat
          /\ x \in Nat /\ y \in Nat /\ (q = p <=> a = x /\ b = y)
      BY <3>1
    <3> HIDE DEF a, b
    <3>3. CASE a = x /\ b = y
      BY <1>9, <3>2, <3>3 DEF has, a, b
    <3>4. CASE a = x /\ b # y
      <4>1. mappings.src_to_dst[a] = 0 /\ mappings'.src_to_dst[a] = y + 1
        BY <1>8, <1>9, <3>4
      <4>2. b + 1 # 0 /\ b + 1 # y + 1
        BY <3>2, <3>4
      <4>3. ~has(mappings, a, b) /\ ~has(mappings', a, b)
        BY <4>1, <4>2 DEF has
      <4> QED
        BY <3>2, <3>4, <4>3 DEF a, b
    <3>5. CASE a # x /\ b = y
      <4>1. mappings.dst_to_src[b] = 0 /\ mappings'.dst_to_src[b] = x + 1
        BY <1>8, <1>9, <3>5
      <4>2. a + 1 # 0 /\ a + 1 # x + 1
        BY <3>2, <3>5
      <4>3. ~has(mappings, a, b) /\ ~has(mappings', a, b)
        BY <4>1, <4>2 DEF has
      <4> QED
        BY <3>2, <3>5, <4>3 DEF a, b
    <3>6. CASE a # x /\ b # y
      <4>1. mappings'.src_to_dst[a] = mappings.src_to_dst[a]
        BY <1>9, <3>2, <3>6
      <4>2. mappings'.dst_to_src[b] = mappings.dst_to_src[b]
        BY <1>9, <3>2, <3>6
      <4>3. has(mappings', a, b) <=> has(mappings, a, b)
        BY <4>1, <4>2 DEF has
      <4> QED
        BY <3>2, <3>6, <4>3 DEF a, b
    <3> QED
      BY <3>3, <3>4, <3>5, <3>6
  <2>3. ~has(mappings, p[1], p[2])
    <3>1. y \in Nat /\ mappings.src_to_dst[x] = 0
      BY <1>6, <1>7, <1>8
    <3> QED
      BY <3>1 DEF has
  <2>4. Pairs = {q \in NodePairs : has(mappings, q[1], q[2])}
    BY DEF Pairs, NodePairs
  <2>5. Pairs' = {q \in NodePairs : has(mappings', q[1], q[2])}
    BY <1>1 DEF Pairs, NodePairs
  <2> HIDE DEF p
  <2> QED
    BY <2>1, <2>2, <2>3, <2>4, <2>5
<1> QED
  BY <1>5, <1>6, <1>9, <1>10 DEF x, y

LEMMA AccountsMapRoots == Inv /\ Tables /\ Accounts /\ Inv' /\ MapRoots => Accounts'
<1> SUFFICES ASSUME Inv, Tables, Accounts, Inv', MapRoots PROVE Accounts'
  OBVIOUS
<1> DEFINE x == row - 1
           y == col - 1
           p == <<x, y>>
<1>1. /\ walking /\ ~deletes /\ ~inserts /\ whole_trees(x, y)
      /\ row' = row - 1 /\ col' = col - 1 /\ mappings' = link(mappings, x, y)
      /\ UNCHANGED <<src, dst, tree, forest, pc, pair, root_node_pair, tree_pairs>>
  BY DEF MapRoots, Walked, arenas, tables
<1>2. /\ pc = "walk" /\ ~root_node_pair /\ Walking /\ Stack /\ Ledger /\ Typed /\ Current
      /\ Spent \in Int /\ TreeSum(tree, Range(tree_pairs)) \in Nat
      /\ Rest = forest[<<row, col>>] /\ Rest \in Nat
  BY <1>1, WalkOwes
<1>3. Walking' /\ Mapping' /\ ~root_node_pair'
  BY <1>1, <1>2 DEF Walking, Mapping
<1>4. /\ p \in NodePairs \ Pairs /\ Pairs' = Pairs \cup {p}
      /\ x \in UndecidedSrc /\ UndecidedSrc' = UndecidedSrc \ {x}
      /\ y \in UndecidedDst /\ UndecidedDst' = UndecidedDst \ {y}
      /\ first_row' .. row' - 1 \subseteq first_row .. row - 1
      /\ first_col' .. col' - 1 \subseteq first_col .. col - 1
      /\ \A z \in nodes(src) \ {x} : mappings'.src_to_dst[z] = mappings.src_to_dst[z]
      /\ \A z \in nodes(dst) \ {y} : mappings'.dst_to_src[z] = mappings.dst_to_src[z]
  BY RootsMapped
<1>5. UndecidedSrc \subseteq nodes(src) /\ UndecidedDst \subseteq nodes(dst)
  BY <1>2, UndecidedNodes
<1>6. x \in nodes(src) /\ y \in nodes(dst)
  BY <1>4, <1>5
<1>7. forest[<<row, col>>] = forest[<<x, y>>] + get_update_cost(src, x, dst, y)
  <2>1. forest[<<row, col>>] = keep_last(x, y)
    BY <1>1, <1>2, WalkCosts
  <2> HIDE DEF x, y
  <2> QED
    BY <1>1, <2>1 DEF keep_last
<1>8. /\ forest[<<x, y>>] \in Nat /\ get_update_cost(src, x, dst, y) \in Nat
  <2>1. row' \in 0 .. src.len /\ col' \in 0 .. dst.len
    BY <1>1 DEF Inv, Typed
  <2>2. forest[<<x, y>>] \in Nat
    BY <1>1, <1>2, <2>1, CellTyped
  <2> QED
    BY <1>2, <1>5, <1>6, <2>2, UpdateCosts
<1>9. /\ Rest' = forest[<<x, y>>]
      /\ <<row', col'>> = p
  BY <1>1, <1>2, <1>3 DEF Rest
<1> HIDE DEF x, y
<1>10. Stack'
  <2>1. \A z \in UndecidedSrc' : mappings'.src_to_dst[z] = 0
    BY <1>2, <1>4, <1>5 DEF Stack
  <2>2. \A z \in UndecidedDst' : mappings'.dst_to_src[z] = 0
    BY <1>2, <1>4, <1>5 DEF Stack
  <2> QED
    BY <1>1, <1>2, <1>4, <2>1, <2>2, StackKept
<1> DEFINE d == get_update_cost(src, x, dst, y)
<1>11. Spent' = Spent + d
  <2> DEFINE a == Cardinality(nodes(src) \ UndecidedSrc)
             b == Cardinality(nodes(dst) \ UndecidedDst)
             k == Cardinality(Pairs)
             c == UpdateCost(src, dst, Pairs)
  <2>1. /\ a \in Nat /\ b \in Nat /\ k \in Nat /\ c \in Nat /\ Pairs \subseteq NodePairs
        /\ IsFiniteSet(nodes(src)) /\ IsFiniteSet(nodes(dst))
    BY <1>2, SpentNumbers
  <2>2. Cardinality(nodes(src) \ UndecidedSrc') = a + 1
    BY <1>4, <1>6, <2>1, OneDecided
  <2>3. Cardinality(nodes(dst) \ UndecidedDst') = b + 1
    BY <1>4, <1>6, <2>1, OneDecided
  <2>4. UpdateCost(src, dst, Pairs') = d + c /\ Cardinality(Pairs') = k + 1
    <3>1. \A M \in SUBSET NodePairs : \A q \in NodePairs \ M :
            /\ UpdateCost(src, dst, M \cup {q}) =
                 get_update_cost(src, q[1], dst, q[2]) + UpdateCost(src, dst, M)
            /\ Cardinality(M \cup {q}) = Cardinality(M) + 1
      BY <1>2, LedgerSums
    <3>2. p[1] = x /\ p[2] = y
      OBVIOUS
    <3> HIDE DEF p
    <3>3. /\ UpdateCost(src, dst, Pairs \cup {p}) =
               get_update_cost(src, p[1], dst, p[2]) + UpdateCost(src, dst, Pairs)
          /\ Cardinality(Pairs \cup {p}) = Cardinality(Pairs) + 1
      BY <1>4, <2>1, <3>1
    <3> QED
      BY <1>4, <3>2, <3>3
  <2>5. Spent = c + UNIT * (a - k) + UNIT * (b - k)
    BY DEF Spent
  <2>6. Spent' = (d + c) + UNIT * ((a + 1) - (k + 1)) + UNIT * ((b + 1) - (k + 1))
    BY <1>1, <2>2, <2>3, <2>4 DEF Spent
  <2>7. d \in Nat
    BY <1>8
  <2> HIDE DEF a, b, c, d, k
  <2> QED
    BY <2>1, <2>5, <2>6, <2>7, OneMoreSpent
<1>12. Ledger'
  <2> DEFINE s == TreeSum(tree, Range(tree_pairs))
             f == forest[<<x, y>>]
  <2>1. Rest' = f /\ f \in Nat /\ d \in Nat /\ Rest = f + d
    BY <1>2, <1>7, <1>8, <1>9
  <2>2. s \in Nat /\ Range(tree_pairs)' = Range(tree_pairs)
    BY <1>1, <1>2
  <2> HIDE DEF s, f, d
  <2>3. (Spent + d) + (s + f) = Spent + (s + (f + d)) /\ Spent + d \in Int
    BY <1>2, <2>1, <2>2
  <2>4. /\ Spent' \in Int /\ TreeSum(tree, Range(tree_pairs)') \in Nat
        /\ Rest \in Nat /\ Rest' \in Nat
        /\ Spent' + (TreeSum(tree, Range(tree_pairs)') + Rest')
             = Spent + (TreeSum(tree, Range(tree_pairs)) + Rest)
    BY <1>2, <1>11, <2>1, <2>2, <2>3 DEF s
  <2> QED
    BY <1>1, <1>2, <2>4, LedgerPaid
<1> QED
  BY <1>3, <1>10, <1>12 DEF Accounts

(* A range cut in two. *)
LEMMA CutRange ==
  ASSUME NEW l \in Nat, NEW r \in Nat, NEW x \in Nat, l <= r, r <= x
  PROVE  /\ l .. x = (l .. r - 1) \cup (r .. x)
         /\ (l .. r - 1) \cap (r .. x) = {}
<1>1. \A z : z \in l .. x <=> z \in l .. r - 1 \/ z \in r .. x
  <2> SUFFICES ASSUME NEW z PROVE z \in l .. x <=> z \in l .. r - 1 \/ z \in r .. x
    OBVIOUS
  <2> QED
    OBVIOUS
<1>2. \A z : ~(z \in l .. r - 1 /\ z \in r .. x)
  OBVIOUS
<1>3. l .. x = (l .. r - 1) \cup (r .. x)
  BY <1>1
<1>4. (l .. r - 1) \cap (r .. x) = {}
  BY <1>2
<1> QED
  BY <1>3, <1>4

LEMMA AccountsPushPair == Inv /\ Tables /\ Accounts /\ Inv' /\ PushPair => Accounts'
<1> SUFFICES ASSUME Inv, Tables, Accounts, Inv', PushPair PROVE Accounts'
  OBVIOUS
<1> DEFINE x == row - 1
           y == col - 1
           r == src.lld[x]
           c == dst.lld[y]
           p == <<row, col>>
           R == Range(tree_pairs)
           l == first_row
           m == first_col
           A == UNION {Subtree(src, q[1] - 1) : q \in R}
           B == UNION {Subtree(dst, q[2] - 1) : q \in R}
<1>1. /\ walking /\ ~deletes /\ ~inserts /\ ~whole_trees(x, y)
      /\ tree_pairs' = Append(tree_pairs, p) /\ row' = r /\ col' = c
      /\ UNCHANGED <<src, dst, tree, forest, pc, pair, root_node_pair, mappings>>
  BY DEF PushPair, Walked, arenas, tables
<1>2. /\ pc = "walk" /\ ~root_node_pair /\ Walking /\ Stack /\ Ledger /\ Typed /\ Current
      /\ Spent \in Int /\ TreeSum(tree, Range(tree_pairs)) \in Nat
      /\ Rest = forest[<<row, col>>] /\ Rest \in Nat
  BY <1>1, WalkOwes
<1>3. Walking' /\ Mapping' /\ ~root_node_pair'
  BY <1>1, <1>2 DEF Walking, Mapping
<1>4. /\ x \in Subtree(src, pair[1]) /\ y \in Subtree(dst, pair[2])
  BY <1>1, WalkFacts
<1>5. /\ IsTree(src) /\ IsTree(dst) /\ pair[1] \in nodes(src) /\ pair[2] \in nodes(dst)
      /\ l \in Nat /\ m \in Nat
  BY <1>2, TableFacts
<1>6. /\ x \in nodes(src) /\ x \in Nat /\ r \in Nat /\ l <= r /\ r <= x
  <2>1. \A z \in src.lld[pair[1]] .. pair[1] :
          /\ z \in nodes(src) /\ z \in Nat /\ src.lld[z] \in Nat
          /\ src.lld[pair[1]] <= src.lld[z] /\ src.lld[z] <= z
    BY <1>5, InSubtree
  <2>2. x \in src.lld[pair[1]] .. pair[1]
    BY <1>4 DEF Subtree
  <2> HIDE DEF x
  <2> QED
    BY <2>1, <2>2 DEF first_row
<1>7. /\ y \in nodes(dst) /\ y \in Nat /\ c \in Nat /\ m <= c /\ c <= y
  <2>1. \A z \in dst.lld[pair[2]] .. pair[2] :
          /\ z \in nodes(dst) /\ z \in Nat /\ dst.lld[z] \in Nat
          /\ dst.lld[pair[2]] <= dst.lld[z] /\ dst.lld[z] <= z
    BY <1>5, InSubtree
  <2>2. y \in dst.lld[pair[2]] .. pair[2]
    BY <1>4 DEF Subtree
  <2> HIDE DEF y
  <2> QED
    BY <2>1, <2>2 DEF first_col
<1>8. /\ row \in 0 .. src.len /\ col \in 0 .. dst.len
      /\ row = x + 1 /\ col = y + 1 /\ p[1] - 1 = x /\ p[2] - 1 = y
      /\ Subtree(src, x) = r .. x /\ Subtree(dst, y) = c .. y
  <2>1. row \in 0 .. src.len /\ col \in 0 .. dst.len /\ row \in Nat /\ col \in Nat
    BY <1>2, LedgerTypes DEF Typed
  <2>2. row = x + 1 /\ col = y + 1
    BY <2>1
  <2> QED
    BY <2>1, <2>2 DEF Subtree
<1>9. l' = l /\ m' = m /\ UndecidedSrc = A \cup (l .. x) /\ UndecidedDst = B \cup (m .. y)
  <2>1. l' = l /\ m' = m
    BY <1>1 DEF first_row, first_col
  <2> QED
    BY <1>2, <2>1 DEF UndecidedSrc, UndecidedDst
<1>10. forest[<<row, col>>] = forest[<<r, c>>] + tree[p]
  <2>1. forest[<<row, col>>] = keep_last(x, y)
    BY <1>1, <1>2, WalkCosts
  <2>2. p = <<x + 1, y + 1>>
    BY <1>8
  <2> HIDE DEF x, y, p
  <2> QED
    BY <1>1, <2>1, <2>2 DEF keep_last
<1>11. p \in Ends /\ tree_pairs \in Seq(Ends) /\ Ends \subseteq Cells /\ R \subseteq Ends
  <2>1. tree_pairs \in Seq(Ends)
    BY <1>2 DEF Typed
  <2>2. row \in 1 .. src.len /\ col \in 1 .. dst.len
    <3>1. /\ nodes(src) = 0 .. src.len - 1 /\ nodes(dst) = 0 .. dst.len - 1
          /\ src.len \in Nat /\ dst.len \in Nat
      BY <1>2, TableFacts
    <3> HIDE DEF x, y
    <3> QED
      BY <1>6, <1>7, <1>8, <3>1
  <2>3. p \in Ends
    BY <2>2 DEF Ends
  <2> QED
    BY <1>2, <2>1, <2>3, LedgerTypes
<1>12. /\ \A q \in R : /\ Subtree(src, q[1] - 1) \cap (l .. x) = {}
                       /\ Subtree(dst, q[2] - 1) \cap (m .. y) = {}
       /\ Separate(tree_pairs)
  BY <1>2 DEF Stack
<1>13. Rest' = forest[<<r, c>>] /\ forest[<<r, c>>] \in Nat /\ tree[p] \in Nat
  <2>1. row' \in 0 .. src.len /\ col' \in 0 .. dst.len
    BY <1>1 DEF Inv, Typed
  <2>2. forest[<<row', col'>>] \in Nat
    BY <1>2, <2>1, CellTyped
  <2>3. tree[<<row, col>>] \in Nat
    BY <1>2, <1>8, CellTyped
  <2> QED
    BY <1>1, <1>2, <1>3, <2>2, <2>3 DEF Rest
<1>14. l' = first_row' /\ m' = first_col'
  OBVIOUS
<1>15. row' = r /\ col' = c /\ tree_pairs' = Append(tree_pairs, p)
  BY <1>1
<1>16. R = Range(tree_pairs) /\ x = row - 1 /\ y = col - 1
  OBVIOUS
<1>17. UNION {Subtree(src, q[1] - 1) : q \in R \cup {p}} = A \cup (r .. x)
  BY <1>8, OneSubtreeMore, ZenonT(40)
<1>18. UNION {Subtree(dst, q[2] - 1) : q \in R \cup {p}} = B \cup (c .. y)
  BY <1>8, OneSubtreeMore, ZenonT(40)
<1> HIDE DEF x, y, r, c, p, R, l, m, A, B
<1>19. /\ l .. x = (l .. r - 1) \cup (r .. x) /\ (l .. r - 1) \cap (r .. x) = {}
       /\ m .. y = (m .. c - 1) \cup (c .. y) /\ (m .. c - 1) \cap (c .. y) = {}
  BY <1>5, <1>6, <1>7, CutRange
<1>20. \A q \in R : Apart(q, p)
  <2>1. Subtree(src, p[1] - 1) \subseteq l .. x /\ Subtree(dst, p[2] - 1) \subseteq m .. y
    BY <1>8, <1>19
  <2> QED
    BY <1>12, <2>1 DEF Apart
<1>21. p \notin R
  <2>1. ~Apart(p, p)
    <3>1. x \in r .. x
      BY <1>6
    <3> QED
      BY <1>8, <3>1 DEF Apart
  <2> QED
    BY <1>20, <2>1
<1>22. Range(tree_pairs') = R \cup {p} /\ Separate(tree_pairs')
  BY <1>11, <1>12, <1>15, <1>16, <1>20, AppendSeparate
<1>23. UndecidedSrc' = UndecidedSrc
  <2>1. UndecidedSrc' = (UNION {Subtree(src, q[1] - 1) : q \in R \cup {p}}) \cup (l .. r - 1)
    BY <1>1, <1>3, <1>9, <1>14, <1>22 DEF UndecidedSrc
  <2> QED
    BY <1>9, <1>17, <1>19, <2>1
<1>24. UndecidedDst' = UndecidedDst
  <2>1. UndecidedDst' = (UNION {Subtree(dst, q[2] - 1) : q \in R \cup {p}}) \cup (m .. c - 1)
    BY <1>1, <1>3, <1>9, <1>14, <1>22 DEF UndecidedDst
  <2> QED
    BY <1>9, <1>18, <1>19, <2>1
<1>25. Stack'
  <2>1. Separate(tree_pairs)'
    BY <1>1, <1>22 DEF Separate, Apart
  <2>2. ASSUME NEW q \in R \cup {p}
        PROVE  /\ Subtree(src, q[1] - 1) \cap (l .. r - 1) = {}
               /\ Subtree(dst, q[2] - 1) \cap (m .. c - 1) = {}
    <3>1. CASE q = p
      BY <1>8, <1>19, <3>1
    <3>2. CASE q \in R
      <4>1. l .. r - 1 \subseteq l .. x /\ m .. c - 1 \subseteq m .. y
        BY <1>19
      <4> QED
        BY <1>12, <3>2, <4>1
    <3> QED
      BY <3>1, <3>2
  <2>3. /\ \A z \in UndecidedSrc : mappings.src_to_dst[z] = 0
        /\ \A z \in UndecidedDst : mappings.dst_to_src[z] = 0
    BY <1>2 DEF Stack
  <2>4. first_row' .. row' - 1 = l .. r - 1 /\ first_col' .. col' - 1 = m .. c - 1
    BY <1>9, <1>14, <1>15
  <2> QED
    BY <1>1, <1>22, <1>23, <1>24, <2>1, <2>2, <2>3, <2>4 DEF Stack
<1>26. Ledger'
  <2> DEFINE s == TreeSum(tree, R)
             f == forest[<<r, c>>]
             d == tree[p]
             a == Spent
  <2>1. Spent' = a
    BY <1>1, <1>23, <1>24, SpentSame
  <2>2. TreeSum(tree, R \cup {p}) = d + s
    <3>1. R \in SUBSET Cells /\ p \in Cells \ R
      BY <1>11, <1>21
    <3>2. \A S \in SUBSET Cells : \A q \in Cells \ S :
            TreeSum(tree, S \cup {q}) = tree[q] + TreeSum(tree, S)
      BY <1>2, LedgerSums
    <3> QED
      BY <3>1, <3>2
  <2>3. /\ s \in Nat /\ f \in Nat /\ d \in Nat /\ a \in Int
        /\ Rest = f + d /\ Rest' = f /\ TreeSum(tree, Range(tree_pairs)) = s
    BY <1>2, <1>10, <1>13, <1>16
  <2>4. TreeSum(tree, Range(tree_pairs)') = d + s
    BY <1>22, <2>2
  <2> HIDE DEF s, f, d, a
  <2>5. a + ((d + s) + f) = a + (s + (f + d)) /\ d + s \in Nat /\ f + d \in Nat
    BY <2>3
  <2>6. /\ Spent' \in Int /\ TreeSum(tree, Range(tree_pairs)') \in Nat
        /\ Rest \in Nat /\ Rest' \in Nat
        /\ Spent' + (TreeSum(tree, Range(tree_pairs)') + Rest')
             = Spent + (TreeSum(tree, Range(tree_pairs)) + Rest)
    BY <1>2, <2>1, <2>3, <2>4, <2>5 DEF a
  <2> QED
    BY <1>1, <1>2, <2>6, LedgerPaid
<1> QED
  BY <1>3, <1>25, <1>26 DEF Accounts

LEMMA WholeStep == Whole /\ [Next]_zs_vars => Whole'
<1> SUFFICES ASSUME Inv, Tables, Accounts, [Next]_zs_vars PROVE Whole'
  BY DEF Whole
<1>1. Inv'
  BY InvStep
<1>2. Tables'
  BY TablesStep
<1>3. Accounts'
  <2>1. CASE NextKeyRoots
    BY <2>1, AccountsNextKeyRoots
  <2>2. CASE FillRow
    BY <2>2, AccountsFillRow
  <2>3. CASE EndForest
    BY <2>3, AccountsEndForest
  <2>4. CASE EndDist
    BY <2>4, AccountsEndDist
  <2>5. CASE PopRoots
    BY <2>5, AccountsPopRoots
  <2>6. CASE PopPair
    BY <2>6, AccountsPopPair
  <2>7. CASE Delete
    BY <1>1, <2>7, AccountsDelete
  <2>8. CASE Insert
    BY <1>1, <2>8, AccountsInsert
  <2>9. CASE MapRoots
    BY <1>1, <2>9, AccountsMapRoots
  <2>10. CASE PushPair
    BY <1>1, <2>10, AccountsPushPair
  <2>11. CASE EndWalk
    BY <2>11, AccountsEndWalk
  <2>12. CASE EndMappings
    BY <2>12, AccountsEnd
  <2>13. CASE UNCHANGED zs_vars
    BY <2>13, AccountsEnd
  <2> QED
    BY <2>1, <2>2, <2>3, <2>4, <2>5, <2>6, <2>7, <2>8, <2>9, <2>10, <2>11, <2>12, <2>13
       DEF Next, MatchNext, Ended
<1> QED
  BY <1>1, <1>2, <1>3 DEF Whole

(***************************************************************************)
(* The accounts of the walk back balance at every step, whatever the two   *)
(* trees and the distances of their labels: the decided nodes cost what    *)
(* the distance of the trees says, less what the tables say of the rest.   *)
(***************************************************************************)
THEOREM LedgerStaysBalanced == Spec => []LedgerBalanced
<1>1. Init => Whole
  BY InvInit, TablesInit, AccountsInit DEF Whole
<1>2. Whole => LedgerBalanced
  <2> SUFFICES ASSUME Whole, pc \in {"pop", "walk", "done"}
               PROVE  tree[<<src.len, dst.len>>] =
                        UpdateCost(src, dst, Pairs)
                          + UNIT * (Cardinality(nodes(src) \ UndecidedSrc) - Cardinality(Pairs))
                          + UNIT * (Cardinality(nodes(dst) \ UndecidedDst) - Cardinality(Pairs))
                          + MapThenSumSet(LAMBDA p : tree[p], Range(tree_pairs))
                          + (IF Walking THEN forest[<<row, col>>] ELSE 0)
    BY DEF LedgerBalanced
  <2>1. Mapping
    BY DEF Whole, Inv, Turns, Mapping
  <2>2. Ledger
    BY <2>1 DEF Whole, Accounts
  <2>3. Rest = IF Walking THEN forest[<<row, col>>] ELSE 0
    BY DEF Rest, Walking
  <2> QED
    BY <2>2, <2>3 DEF Ledger, Spent, TreeSum
<1> QED
  BY <1>1, <1>2, WholeStep, PTL DEF Spec

-----------------------------------------------------------------------------
(***************************************************************************)
(* Optimality.  First, what holds of any mapping of two forests: two pairs *)
(* fit when they keep the order and the ancestors, and the script of a     *)
(* mapping costs what its pairs cost, and UNIT for each node left out.     *)
(***************************************************************************)
(* Two nodes of src and their partners are in the same order, and one is  *)
(* below the other on both sides or on none.                              *)
Fit(p, q) ==
  /\ p[1] < q[1] <=> p[2] < q[2]
  /\ q[1] < p[1] <=> q[2] < p[2]
  /\ is_descendant(src, p[1], q[1]) <=> is_descendant(dst, p[2], q[2])
  /\ is_descendant(src, q[1], p[1]) <=> is_descendant(dst, q[2], p[2])

FitAll(A, B) == \A p \in A, q \in B : Fit(p, q)

(* What the pairs of M cost in two forests of a and of b nodes. *)
Script(M, a, b) ==
  UpdateCost(src, dst, M) + UNIT * (a - Cardinality(M)) + UNIT * (b - Cardinality(M))

LEMMA CostsAdd ==
  ASSUME Typed, NEW A \in SUBSET NodePairs, NEW B \in SUBSET NodePairs, A \cap B = {}
  PROVE  /\ UpdateCost(src, dst, A \cup B) = UpdateCost(src, dst, A) + UpdateCost(src, dst, B)
         /\ Cardinality(A \cup B) = Cardinality(A) + Cardinality(B)
<1> DEFINE U(M) == UpdateCost(src, dst, M)
           C(M) == Cardinality(M)
           Adds(M) == U(A \cup M) = U(A) + U(M) /\ C(A \cup M) = C(A) + C(M)
           bad == {n \in Nat : \E M \in SUBSET NodePairs : A \cap M = {} /\ C(M) = n /\ ~Adds(M)}
<1>1. /\ U({}) = 0 /\ C({}) = 0
      /\ \A M \in SUBSET NodePairs :
           /\ U(M) \in Nat /\ C(M) \in Nat
           /\ \A p \in NodePairs \ M :
                /\ U(M \cup {p}) = get_update_cost(src, p[1], dst, p[2]) + U(M)
                /\ C(M \cup {p}) = C(M) + 1
  <2>1. C({}) = 0
    BY FS_EmptySet
  <2> HIDE DEF Typed
  <2> QED
    BY <2>1, LedgerSums
<1>2. \A p \in NodePairs : get_update_cost(src, p[1], dst, p[2]) \in Nat
  BY UpdateCosts DEF NodePairs
<1> HIDE DEF U, C
<1>3. bad = {}
  <2> SUFFICES ASSUME bad # {} PROVE FALSE
    OBVIOUS
  <2>1. PICK n \in bad : \A m \in bad : n <= m
    BY NatMinExists
  <2>2. n \in Nat
    OBVIOUS
  <2>3. PICK M \in SUBSET NodePairs : A \cap M = {} /\ C(M) = n /\ ~Adds(M)
    OBVIOUS
  <2>4. M # {}
    <3> SUFFICES ASSUME M = {} PROVE FALSE
      OBVIOUS
    <3>1. A \cup M = A
      OBVIOUS
    <3> QED
      BY <1>1, <2>3, <3>1
  <2>5. PICK p : p \in M
    BY <2>4
  <2> DEFINE L == M \ {p}
             N == A \cup L
  <2>6. /\ L \in SUBSET NodePairs /\ N \in SUBSET NodePairs /\ A \cap L = {}
        /\ M = L \cup {p} /\ A \cup M = N \cup {p}
        /\ p \in NodePairs \ L /\ p \in NodePairs \ N
    BY <2>3, <2>5
  <2> HIDE DEF L
  <2>7. C(M) = C(L) + 1 /\ C(L) \in Nat
    BY <1>1, <2>6
  <2>8. Adds(L)
    <3>1. C(L) \notin bad
      <4> HIDE DEF bad
      <4> QED
        BY <2>1, <2>2, <2>3, <2>7
    <3> QED
      BY <2>6, <2>7, <3>1
  <2> DEFINE c == get_update_cost(src, p[1], dst, p[2])
  <2>9. U(N \cup {p}) = c + U(N) /\ C(N \cup {p}) = C(N) + 1
    <3> HIDE DEF N
    <3> QED
      BY <1>1, <2>6
  <2>10. U(M) = c + U(L)
    BY <1>1, <2>6
  <2>11. c \in Nat /\ U(A) \in Nat /\ U(L) \in Nat /\ C(A) \in Nat
    BY <1>1, <1>2, <2>6
  <2> HIDE DEF c
  <2>12. Adds(M)
    BY <2>6, <2>7, <2>8, <2>9, <2>10, <2>11
  <2> QED
    BY <2>3, <2>12
<1>4. Adds(B)
  <2>1. C(B) \in Nat
    BY <1>1
  <2> QED
    BY <1>3, <2>1
<1> QED
  BY <1>4 DEF U, C

(* What one more node, on one side or the other, and one more pair cost. *)
LEMMA ScriptSteps ==
  ASSUME Typed, NEW M \in SUBSET NodePairs, NEW a \in Nat, NEW b \in Nat
  PROVE  /\ Script(M, a, b) \in Int
         /\ Script(M, a + 1, b) = Script(M, a, b) + UNIT
         /\ Script(M, a, b + 1) = Script(M, a, b) + UNIT
         /\ \A p \in NodePairs \ M :
              Script(M \cup {p}, a + 1, b + 1)
                = Script(M, a, b) + get_update_cost(src, p[1], dst, p[2])
<1> DEFINE k == Cardinality(M)
           c == UpdateCost(src, dst, M)
<1>1. /\ c \in Nat /\ k \in Nat
      /\ \A p \in NodePairs \ M :
           /\ UpdateCost(src, dst, M \cup {p}) = get_update_cost(src, p[1], dst, p[2]) + c
           /\ Cardinality(M \cup {p}) = k + 1
  <2> HIDE DEF Typed
  <2> QED
    BY LedgerSums
<1> HIDE DEF k, c
<1>2. Script(M, a, b) = c + UNIT * (a - k) + UNIT * (b - k)
  BY DEF Script, k, c
<1>3. /\ Script(M, a + 1, b) = c + UNIT * ((a + 1) - k) + UNIT * (b - k)
      /\ Script(M, a, b + 1) = c + UNIT * (a - k) + UNIT * ((b + 1) - k)
  BY DEF Script, k, c
<1>4. /\ Script(M, a, b) \in Int
      /\ Script(M, a + 1, b) = Script(M, a, b) + UNIT
      /\ Script(M, a, b + 1) = Script(M, a, b) + UNIT
  BY <1>1, <1>2, <1>3, OneMoreSpent
<1>5. ASSUME NEW p \in NodePairs \ M
      PROVE  Script(M \cup {p}, a + 1, b + 1)
               = Script(M, a, b) + get_update_cost(src, p[1], dst, p[2])
  <2> DEFINE d == get_update_cost(src, p[1], dst, p[2])
  <2>1. d \in Nat
    BY UpdateCosts DEF NodePairs
  <2>2. UpdateCost(src, dst, M \cup {p}) = d + c /\ Cardinality(M \cup {p}) = k + 1
    BY <1>1
  <2> HIDE DEF d
  <2>3. Script(M \cup {p}, a + 1, b + 1)
          = (d + c) + UNIT * ((a + 1) - (k + 1)) + UNIT * ((b + 1) - (k + 1))
    BY <2>2 DEF Script
  <2>4. (d + c) + UNIT * ((a + 1) - (k + 1)) + UNIT * ((b + 1) - (k + 1))
          = (c + UNIT * (a - k) + UNIT * (b - k)) + d
    BY <1>1, <2>1, OneMoreSpent, SMTT(20)
  <2>5. Script(M \cup {p}, a + 1, b + 1) = Script(M, a, b) + d
    BY <1>2, <2>3, <2>4, Zenon
  <2> QED
    BY <2>5 DEF d
<1> QED
  BY <1>4, <1>5

-----------------------------------------------------------------------------
(***************************************************************************)
(* The last pair of a mapping of two forests.  Either the last node of one *)
(* of them is left out, or the two last nodes are mapped to each other.    *)
(***************************************************************************)
(* The pairs of M lie in the forests of src from l to i and of dst from m to j. *)
Within(M, l, i, m, j) == \A p \in M : p[1] \in l .. i - 1 /\ p[2] \in m .. j - 1

(* Two pairs that fit have both nodes in common, or none. *)
LEMMA FitPairs ==
  ASSUME Typed, NEW M \in SUBSET NodePairs, FitAll(M, M)
  PROVE  /\ \A p \in M : /\ p[1] \in Nat /\ p[2] \in Nat /\ p = <<p[1], p[2]>>
                         /\ p[1] \in nodes(src) /\ p[2] \in nodes(dst)
         /\ \A p, q \in M : p[1] = q[1] \/ p[2] = q[2] => p = q
<1>1. /\ nodes(src) = 0 .. src.len - 1 /\ nodes(dst) = 0 .. dst.len - 1
      /\ src.len \in Nat /\ dst.len \in Nat
  BY TableFacts
<1>2. ASSUME NEW p \in M
      PROVE  /\ p[1] \in Nat /\ p[2] \in Nat /\ p = <<p[1], p[2]>>
             /\ p[1] \in nodes(src) /\ p[2] \in nodes(dst)
  <2>1. p[1] \in nodes(src) /\ p[2] \in nodes(dst) /\ p = <<p[1], p[2]>>
    BY DEF NodePairs
  <2> QED
    BY <1>1, <2>1
<1>3. ASSUME NEW p \in M, NEW q \in M, p[1] = q[1] \/ p[2] = q[2] PROVE p = q
  <2>1. Fit(p, q)
    BY DEF FitAll
  <2> DEFINE a == p[1]
             b == p[2]
             c == q[1]
             d == q[2]
  <2>2. a \in Nat /\ b \in Nat /\ c \in Nat /\ d \in Nat /\ p = <<a, b>> /\ q = <<c, d>>
    BY <1>2
  <2>3. (a < c <=> b < d) /\ (c < a <=> d < b) /\ (a = c \/ b = d)
    BY <1>3, <2>1 DEF Fit
  <2> HIDE DEF a, b, c, d
  <2>4. a = c /\ b = d
    BY <2>2, <2>3
  <2> QED
    BY <2>2, <2>4
<1> QED
  BY <1>2, <1>3

(* An edit mapping of two forests that uses both last nodes pairs them,    *)
(* and the rest of it lies left of their trees or inside both of them.     *)
LEMMA LastNodes ==
  ASSUME Typed, NEW M \in SUBSET NodePairs, FitAll(M, M),
         NEW l \in Nat, NEW m \in Nat, NEW x \in Nat, NEW y \in Nat,
         Within(M, l, x + 1, m, y + 1),
         \E p \in M : p[1] = x, \E q \in M : q[2] = y
  PROVE  /\ <<x, y>> \in M
         /\ Within(M \ {<<x, y>>}, l, x, m, y)
         /\ \A p \in M : src.lld[x] <= p[1] <=> dst.lld[y] <= p[2]
<1>1. /\ \A p \in M : /\ p[1] \in Nat /\ p[2] \in Nat /\ p = <<p[1], p[2]>>
                      /\ p[1] \in nodes(src) /\ p[2] \in nodes(dst)
      /\ \A p, q \in M : p[1] = q[1] \/ p[2] = q[2] => p = q
  BY FitPairs
<1>2. \A p \in M : l <= p[1] /\ p[1] <= x /\ m <= p[2] /\ p[2] <= y
  BY <1>1 DEF Within
<1>3. PICK p \in M : p[1] = x
  OBVIOUS
<1>4. PICK q \in M : q[2] = y
  OBVIOUS
<1>5. p = q
  <2>1. Fit(p, q)
    BY DEF FitAll
  <2> DEFINE b == p[2]
             c == q[1]
  <2>2. b \in Nat /\ c \in Nat /\ b <= y /\ c <= x /\ (c < x <=> y < b)
    BY <1>1, <1>2, <1>3, <1>4, <2>1 DEF Fit
  <2> HIDE DEF b, c
  <2>3. c = x
    BY <2>2
  <2> QED
    BY <1>1, <1>3, <2>3 DEF c
<1>6. p = <<x, y>> /\ p \in M
  BY <1>1, <1>3, <1>4, <1>5
<1>7. ASSUME NEW q2 \in M, q2 # p
      PROVE  q2[1] # x /\ q2[2] # y /\ q2[1] < x /\ q2[2] < y
  <2>1. q2[1] # x /\ q2[2] # y
    BY <1>1, <1>3, <1>4, <1>5, <1>7
  <2> QED
    BY <1>1, <1>2, <2>1
<1>8. Within(M \ {p}, l, x, m, y)
  <2> SUFFICES ASSUME NEW q2 \in M \ {p}
               PROVE  q2[1] \in l .. x - 1 /\ q2[2] \in m .. y - 1
    BY DEF Within
  <2>1. q2[1] < x /\ q2[2] < y
    BY <1>7
  <2>2. q2[1] \in Nat /\ q2[2] \in Nat /\ l <= q2[1] /\ m <= q2[2]
    BY <1>1, <1>2
  <2> QED
    BY <2>1, <2>2
<1>9. ASSUME NEW q2 \in M PROVE src.lld[x] <= q2[1] <=> dst.lld[y] <= q2[2]
  <2>1. CASE q2 = p
    <3>1. x \in nodes(src) /\ y \in nodes(dst) /\ IsTree(src) /\ IsTree(dst)
      BY <1>1, <1>3, <1>4, <1>5, TableFacts
    <3>2. src.lld[x] <= x /\ dst.lld[y] <= y
      BY <3>1, NodeTypes
    <3> QED
      BY <1>6, <2>1, <3>2
  <2>2. CASE q2 # p
    <3>1. is_descendant(src, q2[1], p[1]) <=> is_descendant(dst, q2[2], p[2])
      BY DEF FitAll, Fit
    <3>2. q2[1] < x /\ q2[2] < y /\ p[1] = x /\ p[2] = y
      BY <1>3, <1>4, <1>5, <1>7, <2>2
    <3> QED
      BY <3>1, <3>2 DEF is_descendant
  <2> QED
    BY <2>1, <2>2
<1> QED
  BY <1>6, <1>8, <1>9

-----------------------------------------------------------------------------
(***************************************************************************)
(* No mapping is cheaper than a cell of a finished forest table says.  The *)
(* cell is the least of three choices; each bounds the mappings that make  *)
(* it, when the cells before it bound all mappings of smaller forests.     *)
(***************************************************************************)
(* No edit mapping of the forests of src from l to i and of dst from m to  *)
(* j costs less than G says.                                               *)
AtMost(G, l, m, i, j) ==
  /\ G[<<i, j>>] \in Nat
  /\ \A M \in SUBSET NodePairs :
       FitAll(M, M) /\ Within(M, l, i, m, j) => G[<<i, j>>] <= Script(M, i - l, j - m)

(* Nothing to map: only deletions, or only insertions. *)
LEMMA EmptyScript ==
  ASSUME Typed, NEW l \in Nat, NEW m \in Nat, NEW i \in Nat, NEW j \in Nat,
         l <= i, m <= j, i = l \/ j = m, NEW G,
         G[<<i, j>>] = UNIT * ((i - l) + (j - m))
  PROVE  AtMost(G, l, m, i, j)
<1> DEFINE a == i - l
           b == j - m
<1>1. a \in Nat /\ b \in Nat /\ a + b \in Nat
  OBVIOUS
<1>2. l .. l - 1 = {} /\ m .. m - 1 = {}
  <2>1. \A n \in Nat : n .. n - 1 = {}
    OBVIOUS
  <2> QED
    BY <2>1
<1>3. ASSUME NEW M \in SUBSET NodePairs, Within(M, l, i, m, j)
      PROVE  M = {}
  BY <1>2, <1>3 DEF Within
<1>4. UpdateCost(src, dst, {}) = 0 /\ Cardinality({}) = 0
  <2>1. Cardinality({}) = 0
    BY FS_EmptySet
  <2>2. UpdateCost(src, dst, {}) = 0
    BY LedgerSums
  <2> QED
    BY <2>1, <2>2
<1>5. Script({}, a, b) = 0 + UNIT * (a - 0) + UNIT * (b - 0)
  BY <1>4 DEF Script
<1> HIDE DEF a, b
<1>6. /\ a - 0 = a /\ b - 0 = b
      /\ UNIT * (a + b) = UNIT * a + UNIT * b
      /\ UNIT * a \in Nat /\ UNIT * b \in Nat /\ UNIT * (a + b) \in Nat
  BY <1>1, UnitAssumption
<1> DEFINE e == UNIT * a
           f == UNIT * b
<1>7. Script({}, a, b) = 0 + e + f /\ G[<<i, j>>] = e + f /\ e \in Nat /\ f \in Nat
  BY <1>5, <1>6 DEF a, b
<1> HIDE DEF e, f
<1>8. G[<<i, j>>] \in Nat /\ G[<<i, j>>] <= Script({}, a, b)
  BY <1>7
<1>9. ASSUME NEW M \in SUBSET NodePairs, Within(M, l, i, m, j)
      PROVE  G[<<i, j>>] <= Script(M, i - l, j - m)
  <2>1. M = {}
    BY <1>3, <1>9
  <2> QED
    BY <1>8, <2>1 DEF a, b
<1> QED
  BY <1>8, <1>9 DEF AtMost

(* One node more, that the mapping leaves out. *)
LEMMA LeaveOutSrc ==
  ASSUME Typed, NEW l \in Nat, NEW m \in Nat, NEW x \in Nat, NEW j \in Nat, l <= x, m <= j,
         NEW G, AtMost(G, l, m, x, j), NEW M \in SUBSET NodePairs, FitAll(M, M),
         Within(M, l, x + 1, m, j), \A p \in M : p[1] # x
  PROVE  G[<<x, j>>] + UNIT <= Script(M, (x + 1) - l, j - m)
<1>1. Within(M, l, x, m, j)
  <2> SUFFICES ASSUME NEW p \in M PROVE p[1] \in l .. x - 1 /\ p[2] \in m .. j - 1
    BY DEF Within
  <2>1. p[1] \in l .. (x + 1) - 1 /\ p[2] \in m .. j - 1 /\ p[1] # x
    BY DEF Within
  <2> QED
    BY <2>1
<1>2. G[<<x, j>>] \in Nat /\ G[<<x, j>>] <= Script(M, x - l, j - m)
  BY <1>1 DEF AtMost
<1> DEFINE a == x - l
           b == j - m
<1>3. a \in Nat /\ b \in Nat /\ (x + 1) - l = a + 1 /\ UNIT \in Nat
  BY UnitAssumption
<1> HIDE DEF a, b
<1>4. Script(M, a, b) \in Int /\ Script(M, a + 1, b) = Script(M, a, b) + UNIT
  <2> HIDE DEF Typed
  <2> QED
    BY <1>3, ScriptSteps
<1>5. G[<<x, j>>] <= Script(M, a, b)
  BY <1>2 DEF a, b
<1>6. G[<<x, j>>] + UNIT <= Script(M, a + 1, b)
  BY <1>2, <1>3, <1>4, <1>5
<1> QED
  BY <1>3, <1>6 DEF b

LEMMA LeaveOutDst ==
  ASSUME Typed, NEW l \in Nat, NEW m \in Nat, NEW i \in Nat, NEW y \in Nat, l <= i, m <= y,
         NEW G, AtMost(G, l, m, i, y), NEW M \in SUBSET NodePairs, FitAll(M, M),
         Within(M, l, i, m, y + 1), \A p \in M : p[2] # y
  PROVE  G[<<i, y>>] + UNIT <= Script(M, i - l, (y + 1) - m)
<1>1. Within(M, l, i, m, y)
  <2> SUFFICES ASSUME NEW p \in M PROVE p[1] \in l .. i - 1 /\ p[2] \in m .. y - 1
    BY DEF Within
  <2>1. p[1] \in l .. i - 1 /\ p[2] \in m .. (y + 1) - 1 /\ p[2] # y
    BY DEF Within
  <2> QED
    BY <2>1
<1>2. G[<<i, y>>] \in Nat /\ G[<<i, y>>] <= Script(M, i - l, y - m)
  BY <1>1 DEF AtMost
<1> DEFINE a == i - l
           b == y - m
<1>3. a \in Nat /\ b \in Nat /\ (y + 1) - m = b + 1 /\ UNIT \in Nat
  BY UnitAssumption
<1> HIDE DEF a, b
<1>4. Script(M, a, b) \in Int /\ Script(M, a, b + 1) = Script(M, a, b) + UNIT
  <2> HIDE DEF Typed
  <2> QED
    BY <1>3, ScriptSteps
<1>5. G[<<i, y>>] <= Script(M, a, b)
  BY <1>2 DEF a, b
<1>6. G[<<i, y>>] + UNIT <= Script(M, a, b + 1)
  BY <1>2, <1>3, <1>4, <1>5
<1> QED
  BY <1>3, <1>6 DEF a

(* A mapping that falls apart costs as much as its parts. *)
LEMMA ApartAtMost ==
  ASSUME Typed, NEW G, NEW l \in Nat, NEW m \in Nat, NEW r \in Nat, NEW c \in Nat,
         NEW i \in Nat, NEW j \in Nat, l <= r, r <= i, m <= c, c <= j,
         NEW A \in SUBSET NodePairs, NEW B \in SUBSET NodePairs, A \cap B = {},
         FitAll(A, A), FitAll(B, B), Within(A, l, r, m, c), Within(B, r, i, c, j),
         AtMost(G, l, m, r, c), AtMost(tree, r, c, i, j)
  PROVE  /\ G[<<r, c>>] \in Nat /\ tree[<<i, j>>] \in Nat
         /\ G[<<r, c>>] + tree[<<i, j>>] <= Script(A \cup B, i - l, j - m)
<1> DEFINE g == G[<<r, c>>]
           t == tree[<<i, j>>]
           a == r - l
           b == c - m
           e == i - r
           f == j - c
<1>1. g \in Nat /\ g <= Script(A, a, b)
  BY DEF AtMost
<1>2. t \in Nat /\ t <= Script(B, e, f)
  BY DEF AtMost
<1>3. /\ a \in Nat /\ b \in Nat /\ e \in Nat /\ f \in Nat
      /\ a + e = i - l /\ b + f = j - m
  OBVIOUS
<1> HIDE DEF a, b, e, f, g, t, Typed
<1>4. Script(A \cup B, a + e, b + f) = Script(A, a, b) + Script(B, e, f)
  <2> DEFINE k == Cardinality(A)
             u == UpdateCost(src, dst, A)
             n == Cardinality(B)
             v == UpdateCost(src, dst, B)
  <2>1. u \in Nat /\ k \in Nat /\ v \in Nat /\ n \in Nat
    BY LedgerSums
  <2>2. UpdateCost(src, dst, A \cup B) = u + v /\ Cardinality(A \cup B) = k + n
    BY CostsAdd
  <2> HIDE DEF k, u, n, v
  <2>3. /\ Script(A, a, b) = u + UNIT * (a - k) + UNIT * (b - k)
        /\ Script(B, e, f) = v + UNIT * (e - n) + UNIT * (f - n)
        /\ Script(A \cup B, a + e, b + f)
             = (u + v) + UNIT * ((a + e) - (k + n)) + UNIT * ((b + f) - (k + n))
    BY <2>2 DEF Script, k, u, n, v
  <2>4. \A x, y \in Int : /\ UNIT * (x + y) = UNIT * x + UNIT * y
                          /\ UNIT * x \in Int
    BY UnitAssumption
  <2>5. /\ (a + e) - (k + n) = (a - k) + (e - n) /\ (b + f) - (k + n) = (b - k) + (f - n)
        /\ a - k \in Int /\ e - n \in Int /\ b - k \in Int /\ f - n \in Int
    BY <1>3, <2>1
  <2>6. /\ UNIT * ((a + e) - (k + n)) = UNIT * (a - k) + UNIT * (e - n)
        /\ UNIT * ((b + f) - (k + n)) = UNIT * (b - k) + UNIT * (f - n)
        /\ UNIT * (a - k) \in Int /\ UNIT * (e - n) \in Int
        /\ UNIT * (b - k) \in Int /\ UNIT * (f - n) \in Int
    BY <2>4, <2>5, SMTT(40)
  <2> DEFINE x1 == UNIT * (a - k)
             x2 == UNIT * (e - n)
             y1 == UNIT * (b - k)
             y2 == UNIT * (f - n)
  <2>7. /\ Script(A, a, b) = u + x1 + y1 /\ Script(B, e, f) = v + x2 + y2
        /\ Script(A \cup B, a + e, b + f) = (u + v) + (x1 + x2) + (y1 + y2)
        /\ x1 \in Int /\ x2 \in Int /\ y1 \in Int /\ y2 \in Int
    BY <2>3, <2>6
  <2> HIDE DEF x1, x2, y1, y2
  <2> QED
    BY <2>1, <2>7
<1>5. Script(A, a, b) \in Int /\ Script(B, e, f) \in Int
  BY <1>3, ScriptSteps
<1>6. g + t <= Script(A \cup B, a + e, b + f)
  BY <1>1, <1>2, <1>4, <1>5
<1> QED
  BY <1>1, <1>2, <1>3, <1>6 DEF g, t

(* A pair added to a mapping costs what it updates. *)
LEMMA PairAtMost ==
  ASSUME Typed, NEW G, NEW l \in Nat, NEW m \in Nat, NEW x \in Nat, NEW y \in Nat, l <= x, m <= y,
         NEW L \in SUBSET NodePairs, NEW p \in NodePairs \ L,
         FitAll(L, L), Within(L, l, x, m, y), AtMost(G, l, m, x, y)
  PROVE  /\ G[<<x, y>>] \in Nat
         /\ G[<<x, y>>] + get_update_cost(src, p[1], dst, p[2])
              <= Script(L \cup {p}, (x + 1) - l, (y + 1) - m)
<1> DEFINE g == G[<<x, y>>]
           k == get_update_cost(src, p[1], dst, p[2])
           a == x - l
           b == y - m
<1>1. g \in Nat /\ g <= Script(L, a, b)
  BY DEF AtMost
<1>2. a \in Nat /\ b \in Nat /\ (x + 1) - l = a + 1 /\ (y + 1) - m = b + 1
  OBVIOUS
<1>3. k \in Nat
  <2>1. p[1] \in nodes(src) /\ p[2] \in nodes(dst)
    BY DEF NodePairs
  <2> QED
    BY <2>1, UpdateCosts
<1> HIDE DEF a, b, g, Typed
<1>4. /\ Script(L, a, b) \in Int
      /\ \A q \in NodePairs \ L :
           Script(L \cup {q}, a + 1, b + 1)
             = Script(L, a, b) + get_update_cost(src, q[1], dst, q[2])
  BY <1>2, ScriptSteps, Zenon
<1>5. Script(L \cup {p}, a + 1, b + 1) = Script(L, a, b) + k
  BY <1>4, Zenon
<1> HIDE DEF k
<1>6. g + k <= Script(L \cup {p}, a + 1, b + 1)
  BY <1>1, <1>3, <1>4, <1>5
<1> QED
  BY <1>1, <1>2, <1>6 DEF g, k

(* Both last nodes are mapped: their roots' trees are the forests, or the  *)
(* mapping falls apart into one of the trees and one left of them.         *)
LEMMA MapBoth ==
  ASSUME Typed, NEW l \in Nat, NEW m \in Nat, NEW x \in Nat, NEW y \in Nat, l <= x, m <= y,
         x \in nodes(src), y \in nodes(dst), l <= src.lld[x], m <= dst.lld[y],
         NEW G, NEW M \in SUBSET NodePairs, FitAll(M, M), Within(M, l, x + 1, m, y + 1),
         \E p \in M : p[1] = x, \E q \in M : q[2] = y,
         src.lld[x] = l /\ dst.lld[y] = m => AtMost(G, l, m, x, y),
         ~(src.lld[x] = l /\ dst.lld[y] = m) =>
           /\ AtMost(G, l, m, src.lld[x], dst.lld[y])
           /\ AtMost(tree, src.lld[x], dst.lld[y], x + 1, y + 1)
  PROVE  Keep(src, dst, tree, G, l, m, x, y) <= Script(M, (x + 1) - l, (y + 1) - m)
<1> DEFINE p == <<x, y>>
           L == M \ {p}
           r == src.lld[x]
           c == dst.lld[y]
<1>1. /\ p \in M /\ Within(L, l, x, m, y)
      /\ \A q \in M : src.lld[x] <= q[1] <=> dst.lld[y] <= q[2]
  <2> HIDE DEF Typed
  <2> QED
    BY LastNodes
<1>2. \A q \in M : q[1] \in Nat /\ q[2] \in Nat
  <2> HIDE DEF Typed
  <2> QED
    BY FitPairs
<1>3. CASE src.lld[x] = l /\ dst.lld[y] = m
  <2>1. L \in SUBSET NodePairs /\ FitAll(L, L) /\ M = L \cup {p} /\ p \in NodePairs \ L
    BY <1>1 DEF FitAll
  <2>2. Keep(src, dst, tree, G, l, m, x, y) = G[<<x, y>>] + get_update_cost(src, p[1], dst, p[2])
    BY <1>3 DEF Keep
  <2>3. AtMost(G, l, m, x, y)
    BY <1>3
  <2> HIDE DEF L, p, Typed
  <2>4. G[<<x, y>>] + get_update_cost(src, p[1], dst, p[2])
          <= Script(L \cup {p}, (x + 1) - l, (y + 1) - m)
    BY <1>1, <2>1, <2>3, PairAtMost
  <2> QED
    BY <2>1, <2>2, <2>4
<1>4. CASE ~(src.lld[x] = l /\ dst.lld[y] = m)
  <2> DEFINE A == {q \in M : ~(r <= q[1])}
             B == {q \in M : r <= q[1]}
  <2>1. /\ r \in Nat /\ c \in Nat /\ r <= x /\ c <= y /\ l <= r /\ m <= c
    <3>1. IsTree(src) /\ IsTree(dst)
      BY TableFacts
    <3> QED
      BY <3>1, NodeTypes
  <2>2. /\ A \in SUBSET NodePairs /\ B \in SUBSET NodePairs /\ A \cap B = {} /\ A \cup B = M
        /\ FitAll(A, A) /\ FitAll(B, B)
    BY DEF FitAll
  <2>3. Within(A, l, r, m, c)
    <3> SUFFICES ASSUME NEW q \in M, ~(r <= q[1])
                 PROVE  q[1] \in l .. r - 1 /\ q[2] \in m .. c - 1
      BY DEF Within
    <3>1. q[1] \in Nat /\ q[2] \in Nat /\ ~(c <= q[2]) /\ l <= q[1] /\ m <= q[2]
      BY <1>1, <1>2 DEF Within
    <3> HIDE DEF r, c
    <3> QED
      BY <2>1, <3>1
  <2>4. Within(B, r, x + 1, c, y + 1)
    <3> SUFFICES ASSUME NEW q \in M, r <= q[1]
                 PROVE  q[1] \in r .. (x + 1) - 1 /\ q[2] \in c .. (y + 1) - 1
      BY DEF Within
    <3>1. /\ q[1] \in Nat /\ q[2] \in Nat /\ c <= q[2]
          /\ q[1] \in l .. (x + 1) - 1 /\ q[2] \in m .. (y + 1) - 1
      BY <1>1, <1>2 DEF Within
    <3> HIDE DEF r, c
    <3> QED
      BY <2>1, <3>1
  <2>5. Keep(src, dst, tree, G, l, m, x, y) = G[<<r, c>>] + tree[<<x + 1, y + 1>>]
    BY <1>4 DEF Keep
  <2>6. AtMost(G, l, m, r, c) /\ AtMost(tree, r, c, x + 1, y + 1)
    BY <1>4
  <2>7. x + 1 \in Nat /\ y + 1 \in Nat /\ r <= x + 1 /\ c <= y + 1
    BY <2>1
  <2> HIDE DEF A, B, r, c, Typed
  <2>8. G[<<r, c>>] + tree[<<x + 1, y + 1>>] <= Script(A \cup B, (x + 1) - l, (y + 1) - m)
    BY <2>1, <2>2, <2>3, <2>4, <2>6, <2>7, ApartAtMost
  <2> QED
    BY <2>2, <2>5, <2>6, <2>8 DEF AtMost
<1> QED
  BY <1>3, <1>4

Final(q, G) ==
  /\ Solves(src, dst, tree, G, src.lld[q[1]], dst.lld[q[2]], q[1] + 1, q[2] + 1)
  /\ Holds(src, dst, tree, G, src.lld[q[1]], dst.lld[q[2]], q[1] + 1, q[2] + 1)

(* The cells before a cell are at most what any mapping costs, so it is. *)
LEMMA NextCell ==
  ASSUME Typed, NEW q \in KeyRoots, NEW G, Final(q, G),
         NEW l, NEW m, l = src.lld[q[1]], m = dst.lld[q[2]],
         NEW x \in l .. q[1], NEW y \in m .. q[2],
         AtMost(G, l, m, x, y + 1), AtMost(G, l, m, x + 1, y),
         src.lld[x] = l /\ dst.lld[y] = m => AtMost(G, l, m, x, y),
         ~(src.lld[x] = l /\ dst.lld[y] = m) =>
           /\ AtMost(G, l, m, src.lld[x], dst.lld[y])
           /\ AtMost(tree, src.lld[x], dst.lld[y], x + 1, y + 1)
  PROVE  AtMost(G, l, m, x + 1, y + 1)
<1>1. q[1] \in nodes(src) /\ q[2] \in nodes(dst) /\ IsTree(src) /\ IsTree(dst)
  <2>1. q \in NodePairs
    BY KeyRootNodes
  <2> QED
    BY <2>1, TableFacts DEF NodePairs
<1>2. /\ l \in Nat /\ m \in Nat /\ q[1] \in Nat /\ q[2] \in Nat
      /\ x \in nodes(src) /\ x \in Nat /\ l <= src.lld[x] /\ src.lld[x] \in Nat
      /\ y \in nodes(dst) /\ y \in Nat /\ m <= dst.lld[y] /\ dst.lld[y] \in Nat
  BY <1>1, InSubtree
<1>3. l <= x /\ m <= y /\ x \in l .. (q[1] + 1) - 1 /\ y \in m .. (q[2] + 1) - 1
  BY <1>2
<1> DEFINE u == G[<<x, y + 1>>] + UNIT
           v == G[<<x + 1, y>>] + UNIT
           w == Keep(src, dst, tree, G, l, m, x, y)
           g == G[<<x + 1, y + 1>>]
<1>4. g = Min({u, v, w})
  BY <1>3 DEF Final, Solves
<1>5. G[<<x, y + 1>>] \in Nat /\ G[<<x + 1, y>>] \in Nat /\ UNIT \in Nat
  BY UnitAssumption DEF AtMost
<1>6. w \in Nat
  <2>1. CASE src.lld[x] = l /\ dst.lld[y] = m
    <3>1. G[<<x, y>>] \in Nat
      BY <2>1 DEF AtMost
    <3>2. get_update_cost(src, x, dst, y) \in Nat
      BY <1>2, UpdateCosts
    <3> QED
      BY <2>1, <3>1, <3>2 DEF Keep
  <2>2. CASE ~(src.lld[x] = l /\ dst.lld[y] = m)
    <3>1. G[<<src.lld[x], dst.lld[y]>>] \in Nat /\ tree[<<x + 1, y + 1>>] \in Nat
      BY <2>2 DEF AtMost
    <3> QED
      BY <2>2, <3>1 DEF Keep
  <2> QED
    BY <2>1, <2>2
<1>7. u \in Nat /\ v \in Nat
  BY <1>5
<1> HIDE DEF u, v, w
<1>8. g \in Nat /\ g <= u /\ g <= v /\ g <= w
  BY <1>4, <1>6, <1>7, MinOfThree
<1> HIDE DEF g
<1>9. ASSUME NEW M \in SUBSET NodePairs, FitAll(M, M), Within(M, l, x + 1, m, y + 1)
      PROVE  g <= Script(M, (x + 1) - l, (y + 1) - m)
  <2> DEFINE s == Script(M, (x + 1) - l, (y + 1) - m)
  <2>1. s \in Int
    <3>1. (x + 1) - l \in Nat /\ (y + 1) - m \in Nat
      BY <1>2, <1>3
    <3> HIDE DEF Typed
    <3> QED
      BY <3>1, ScriptSteps
  <2>2. ASSUME \A p \in M : p[1] # x PROVE g <= s
    <3>1. u <= s
      <4>1. y + 1 \in Nat /\ m <= y + 1
        BY <1>2, <1>3
      <4> HIDE DEF Typed
      <4> QED
        BY <1>2, <1>3, <1>9, <2>2, <4>1, LeaveOutSrc, Zenon DEF u
    <3> HIDE DEF s
    <3> QED
      BY <1>7, <1>8, <2>1, <3>1
  <2>3. ASSUME \A p \in M : p[2] # y PROVE g <= s
    <3>1. v <= s
      <4>1. x + 1 \in Nat /\ l <= x + 1
        BY <1>2, <1>3
      <4> HIDE DEF Typed
      <4> QED
        BY <1>2, <1>3, <1>9, <2>3, <4>1, LeaveOutDst, Zenon DEF v
    <3> HIDE DEF s
    <3> QED
      BY <1>7, <1>8, <2>1, <3>1
  <2>4. ASSUME \E p \in M : p[1] = x, \E p \in M : p[2] = y PROVE g <= s
    <3>1. w <= s
      <4> HIDE DEF Typed
      <4> QED
        BY <1>2, <1>3, <1>9, <2>4, MapBoth, Zenon DEF w
    <3> HIDE DEF s
    <3> QED
      BY <1>6, <1>8, <2>1, <3>1
  <2>5. g <= s
    BY <2>2, <2>3, <2>4
  <2> QED
    BY <2>5
<1> QED
  BY <1>8, <1>9 DEF AtMost, g

(* The first row and the first column. *)
LEMMA FirstCells ==
  ASSUME Typed, NEW q \in KeyRoots, NEW G, Final(q, G),
         NEW l, NEW m, l = src.lld[q[1]], m = dst.lld[q[2]]
  PROVE  /\ \A j \in m .. q[2] + 1 : AtMost(G, l, m, l, j)
         /\ \A x \in l .. q[1] : G[<<x, m>>] = UNIT * (x - l) => AtMost(G, l, m, x + 1, m)
                                   /\ G[<<x + 1, m>>] = UNIT * ((x + 1) - l)
<1>1. /\ l \in Nat /\ m \in Nat /\ q[1] \in Nat /\ q[2] \in Nat /\ l <= q[1] /\ m <= q[2]
  <2>1. q[1] \in nodes(src) /\ q[2] \in nodes(dst) /\ IsTree(src) /\ IsTree(dst)
    <3>1. q \in NodePairs
      BY KeyRootNodes
    <3> QED
      BY <3>1, TableFacts DEF NodePairs
  <2> QED
    BY <2>1, InSubtree
<1>2. ASSUME NEW j \in m .. q[2] + 1 PROVE AtMost(G, l, m, l, j)
  <2>1. G[<<l, j>>] = UNIT * (j - m)
    BY DEF Final, Solves
  <2>2. j \in Nat /\ m <= j /\ l <= l /\ (l - l) + (j - m) = j - m
    BY <1>1
  <2>3. G[<<l, j>>] = UNIT * ((l - l) + (j - m))
    BY <2>1, <2>2, Zenon
  <2> HIDE DEF Typed
  <2> QED
    BY <1>1, <2>2, <2>3, EmptyScript, ZenonT(20)
<1>3. ASSUME NEW x \in l .. q[1], G[<<x, m>>] = UNIT * (x - l)
      PROVE  AtMost(G, l, m, x + 1, m) /\ G[<<x + 1, m>>] = UNIT * ((x + 1) - l)
  <2>1. x \in l .. (q[1] + 1) - 1
    BY <1>1
  <2>2. G[<<x + 1, m>>] = G[<<x, m>>] + UNIT
    BY <2>1 DEF Final, Solves
  <2>3. x - l \in Nat /\ (x + 1) - l = (x - l) + 1 /\ x + 1 \in Nat /\ l <= x + 1
        /\ m <= m /\ ((x + 1) - l) + (m - m) = (x + 1) - l
    BY <1>1
  <2>4. G[<<x + 1, m>>] = UNIT * ((x + 1) - l)
    BY <1>3, <2>2, <2>3, Units
  <2>5. AtMost(G, l, m, x + 1, m)
    <3>1. G[<<x + 1, m>>] = UNIT * (((x + 1) - l) + (m - m))
      BY <2>3, <2>4, Zenon
    <3> HIDE DEF Typed
    <3> QED
      BY <1>1, <2>3, <3>1, EmptyScript, ZenonT(20)
  <2> QED
    BY <2>4, <2>5
<1> QED
  BY <1>2, <1>3

(* What is said of each cell, and of the first column besides. *)
Bounded(q, G, i, j) ==
  LET l == src.lld[q[1]]
      m == dst.lld[q[2]]
  IN  AtMost(G, l, m, i, j) /\ (j = m => G[<<i, m>>] = UNIT * (i - l))

LEMMA NoScriptCheaper ==
  ASSUME Typed, \A q \in KeyRoots : DoneIn(src, dst, tree, q)
  PROVE  \A q \in KeyRoots : \A G : Final(q, G) =>
           \A i \in src.lld[q[1]] .. q[1] + 1, j \in dst.lld[q[2]] .. q[2] + 1 :
             AtMost(G, src.lld[q[1]], dst.lld[q[2]], i, j)
<1> DEFINE Size(q, i, j) == (i - src.lld[q[1]]) + (j - dst.lld[q[2]])
           Fails(q, G, i, j) == Final(q, G) /\ ~Bounded(q, G, i, j)
           Rows(q) == src.lld[q[1]] .. q[1] + 1
           Cols(q) == dst.lld[q[2]] .. q[2] + 1
           bad == {n \in Nat : \E q \in KeyRoots : \E i \in Rows(q), j \in Cols(q) :
                                 Size(q, i, j) = n /\ \E G : Fails(q, G, i, j)}
<1>1. /\ IsTree(src) /\ IsTree(dst)
      /\ \A q \in KeyRoots :
           /\ q[1] \in nodes(src) /\ q[2] \in nodes(dst) /\ q[1] \in kr(src) /\ q[2] \in kr(dst)
           /\ q[1] \in Nat /\ src.lld[q[1]] \in Nat /\ src.lld[q[1]] <= q[1]
           /\ q[2] \in Nat /\ dst.lld[q[2]] \in Nat /\ dst.lld[q[2]] <= q[2]
  <2>1. IsTree(src) /\ IsTree(dst)
    BY TableFacts
  <2>2. ASSUME NEW q \in KeyRoots
        PROVE  q[1] \in nodes(src) /\ q[2] \in nodes(dst) /\ q[1] \in kr(src) /\ q[2] \in kr(dst)
    <3>1. q \in NodePairs
      BY KeyRootNodes
    <3> QED
      BY <3>1 DEF KeyRoots, NodePairs
  <2> QED
    BY <2>1, <2>2, NodeTypes
<1>2. \A q \in KeyRoots : \A i \in Rows(q), j \in Cols(q) : Size(q, i, j) \in Nat
  BY <1>1
<1> HIDE DEF Fails
<1>3. bad = {}
  <2> SUFFICES ASSUME bad # {} PROVE FALSE
    OBVIOUS
  <2>1. PICK n \in bad : \A k \in bad : n <= k
    BY NatMinExists
  <2>2. PICK q \in KeyRoots : \E i \in Rows(q), j \in Cols(q) :
                                Size(q, i, j) = n /\ \E G : Fails(q, G, i, j)
    BY <2>1
  <2>3. PICK i \in Rows(q), j \in Cols(q) : Size(q, i, j) = n /\ \E G : Fails(q, G, i, j)
    BY <2>2
  <2>4. PICK G : Fails(q, G, i, j)
    BY <2>3
  <2>5. ASSUME NEW p \in KeyRoots, NEW H, Final(p, H), NEW a \in Rows(p), NEW b \in Cols(p),
               Size(p, a, b) < n
        PROVE  Bounded(p, H, a, b)
    <3>1. Size(p, a, b) \in Nat /\ n \in Nat
      BY <1>2
    <3>2. Size(p, a, b) \notin bad
      <4> HIDE DEF bad, Size
      <4> QED
        BY <2>1, <2>5, <3>1
    <3>3. ~Fails(p, H, a, b)
      <4> HIDE DEF Size, Rows, Cols
      <4> QED
        BY <3>1, <3>2
    <3> QED
      BY <2>5, <3>3 DEF Fails
  <2> DEFINE l == src.lld[q[1]]
             m == dst.lld[q[2]]
             x == i - 1
             y == j - 1
  <2>6. /\ l \in Nat /\ m \in Nat /\ q[1] \in Nat /\ q[2] \in Nat /\ l <= q[1] /\ m <= q[2]
        /\ i \in Nat /\ l <= i /\ i <= q[1] + 1 /\ j \in Nat /\ m <= j /\ j <= q[2] + 1
        /\ n = (i - l) + (j - m)
    BY <1>1, <2>3
  <2>7. Final(q, G)
    BY <2>4 DEF Fails
  <2>8. /\ \A k \in m .. q[2] + 1 : AtMost(G, l, m, l, k)
        /\ \A z \in l .. q[1] : G[<<z, m>>] = UNIT * (z - l) => AtMost(G, l, m, z + 1, m)
                                   /\ G[<<z + 1, m>>] = UNIT * ((z + 1) - l)
    <3> HIDE DEF Typed
    <3> QED
      BY <2>7, FirstCells
  <2>9. ASSUME NEW a \in Nat, NEW b \in Nat, l <= a, a <= i, m <= b, b <= j, a + b < i + j
        PROVE  Bounded(q, G, a, b)
    <3>1. a \in Rows(q) /\ b \in Cols(q) /\ Size(q, a, b) < n
      BY <2>6, <2>9
    <3> QED
      BY <2>5, <2>7, <3>1
  <2> HIDE DEF l, m, bad, Size, Rows, Cols
  <2>10. ASSUME i = l PROVE Bounded(q, G, i, j)
    <3>1. AtMost(G, l, m, i, j)
      <4>1. j \in m .. q[2] + 1
        BY <2>6
      <4> QED
        BY <2>8, <2>10, <4>1
    <3>2. G[<<i, m>>] = UNIT * (i - l)
      <4>1. m \in m .. q[2] + 1 /\ m - m = l - l
        BY <2>6
      <4>2. G[<<l, m>>] = UNIT * (m - m)
        BY <2>7, <4>1 DEF Final, Solves, l, m
      <4> QED
        BY <2>10, <4>1, <4>2
    <3> QED
      BY <3>1, <3>2 DEF Bounded, l, m
  <2>11. ASSUME i # l, j = m PROVE Bounded(q, G, i, j)
    <3>1. /\ x \in Nat /\ l <= x /\ x <= i /\ x + m < i + j /\ x \in l .. q[1] /\ x + 1 = i
          /\ m <= m /\ m <= j
      BY <2>6, <2>11
    <3> HIDE DEF x
    <3>2. Bounded(q, G, x, m)
      BY <2>6, <2>9, <3>1
    <3>3. G[<<x, m>>] = UNIT * (x - l)
      BY <3>2 DEF Bounded, l, m
    <3>4. AtMost(G, l, m, i, m) /\ G[<<i, m>>] = UNIT * (i - l)
      BY <2>8, <3>1, <3>3
    <3> QED
      BY <2>11, <3>4 DEF Bounded, l, m
  <2>12. ASSUME i # l, j # m PROVE Bounded(q, G, i, j)
    <3>1. /\ x \in Nat /\ l <= x /\ x <= i /\ x \in l .. q[1] /\ x + 1 = i /\ x < i
          /\ y \in Nat /\ m <= y /\ y <= j /\ y \in m .. q[2] /\ y + 1 = j /\ y < j
      BY <2>6, <2>12
    <3> HIDE DEF x, y
    <3> DEFINE r == src.lld[x]
               c == dst.lld[y]
    <3>2. /\ x \in nodes(src) /\ r \in Nat /\ l <= r /\ r <= x
          /\ y \in nodes(dst) /\ c \in Nat /\ m <= c /\ c <= y
      BY <1>1, <3>1, InSubtree DEF l, m
    <3>3. AtMost(G, l, m, x, y + 1) /\ AtMost(G, l, m, x + 1, y) /\ AtMost(G, l, m, x, y)
      <4>1. Bounded(q, G, x, j) /\ Bounded(q, G, i, y) /\ Bounded(q, G, x, y)
        <5>1. x + j < i + j /\ i + y < i + j /\ x + y < i + j /\ i <= i /\ j <= j
          BY <2>6, <3>1
        <5> QED
          BY <2>6, <2>9, <3>1, <5>1
      <4> QED
        BY <3>1, <4>1 DEF Bounded, l, m
    <3>4. AtMost(G, l, m, r, c)
      <4>1. r + c < i + j /\ r <= i /\ c <= j
        BY <2>6, <3>1, <3>2
      <4>2. Bounded(q, G, r, c)
        <5> HIDE DEF r, c
        <5> QED
          BY <2>6, <2>9, <3>1, <3>2, <4>1
      <4> QED
        BY <4>2 DEF Bounded, l, m
    <3>5. ASSUME ~(r = l /\ c = m) PROVE AtMost(tree, r, c, x + 1, y + 1)
      <4>1. PICK a \in kr(src) : a \in nodes(src) /\ src.lld[a] = r /\ x <= a
        BY <1>1, <3>2, KeyRootOf
      <4>2. PICK b \in kr(dst) : b \in nodes(dst) /\ dst.lld[b] = c /\ y <= b
        BY <1>1, <3>2, KeyRootOf
      <4> DEFINE p == <<a, b>>
      <4>3. p \in KeyRoots /\ p[1] = a /\ p[2] = b
        BY DEF KeyRoots
      <4> HIDE DEF p
      <4>4. PICK H : Final(p, H)
        BY <4>3 DEF DoneIn, Final
      <4>5. a \in Nat /\ b \in Nat
        BY <1>1, <4>3
      <4>6. i \in Rows(p) /\ j \in Cols(p)
        BY <2>6, <3>1, <3>2, <4>1, <4>2, <4>3, <4>5 DEF Rows, Cols
      <4>7. Size(p, i, j) < n
        <5>1. Size(p, i, j) = (i - r) + (j - c)
          BY <4>1, <4>2, <4>3 DEF Size
        <5> HIDE DEF r, c
        <5> QED
          BY <2>6, <3>1, <3>2, <3>5, <5>1
      <4>8. Bounded(p, H, i, j)
        BY <2>5, <4>3, <4>4, <4>6, <4>7
      <4>9. AtMost(H, r, c, i, j)
        BY <4>1, <4>2, <4>3, <4>8 DEF Bounded
      <4>10. tree[<<i, j>>] = H[<<i, j>>]
        <5>1. /\ src.lld[p[1]] = r /\ dst.lld[p[2]] = c
              /\ x \in r .. (p[1] + 1) - 1 /\ y \in c .. (p[2] + 1) - 1
          BY <3>1, <3>2, <4>1, <4>2, <4>3, <4>5
        <5> QED
          BY <3>1, <4>4, <5>1 DEF Final, Holds
      <4> QED
        BY <3>1, <4>9, <4>10 DEF AtMost
    <3>6. AtMost(G, l, m, x + 1, y + 1)
      <4>1. l = src.lld[q[1]] /\ m = dst.lld[q[2]]
        BY DEF l, m
      <4> HIDE DEF Typed
      <4> QED
        BY <2>7, <3>1, <3>3, <3>4, <3>5, <4>1, NextCell, ZenonT(40)
    <3> QED
      BY <2>12, <3>1, <3>6 DEF Bounded, l, m
  <2>13. Bounded(q, G, i, j)
    BY <2>10, <2>11, <2>12
  <2> QED
    BY <2>4, <2>13 DEF Fails
<1>4. ASSUME NEW q \in KeyRoots, NEW G, Final(q, G), NEW i \in Rows(q), NEW j \in Cols(q)
      PROVE  AtMost(G, src.lld[q[1]], dst.lld[q[2]], i, j)
  <2>1. Size(q, i, j) \in Nat /\ Size(q, i, j) \notin bad
    <3> HIDE DEF bad
    <3> QED
      BY <1>2, <1>3
  <2>2. ~Fails(q, G, i, j)
    <3> HIDE DEF Size, Rows, Cols
    <3> QED
      BY <2>1
  <2> QED
    BY <1>4, <2>2 DEF Fails, Bounded
<1> QED
  BY <1>4

-----------------------------------------------------------------------------
(***************************************************************************)
(* What the walk back maps fits: the pairs linked so far, those of the     *)
(* boxes of the stack and those of the walk keep order and ancestors.      *)
(***************************************************************************)
(* The node pairs that a pair of the stack, and the walk, may still map. *)
Box(p) == Subtree(src, p[1] - 1) \X Subtree(dst, p[2] - 1)
Open == IF Walking THEN (first_row .. row - 1) \X (first_col .. col - 1) ELSE {}

AllFit(P, O, R) ==
  /\ \A p \in P : src.type[p[1]] = dst.type[p[2]]
  /\ FitAll(P, P) /\ FitAll(P, O)
  /\ \A q \in R : FitAll(P, Box(q)) /\ FitAll(Box(q), O)
  /\ \A q, r \in R : q # r => FitAll(Box(q), Box(r))

(***************************************************************************)
(* What is mapped and what may still be, but for pairs of the same box,    *)
(* keep the order and the ancestors; at the end nothing is left on the     *)
(* stack.                                                                  *)
(***************************************************************************)
Fits ==
  Mapping => /\ pc = "done" => tree_pairs = <<>>
             /\ AllFit(Pairs, Open, Range(tree_pairs))

LEMMA FitsLater ==
  ASSUME UNCHANGED <<src, dst>>, pc' = "done" => tree_pairs' = <<>>,
         AllFit(Pairs', Open', Range(tree_pairs'))
  PROVE  Fits'
<1>1. \A p, q : Fit(p, q)' <=> Fit(p, q)
  BY DEF Fit, is_descendant
<1>2. \A p, q : p \in Box(q)' <=> p \in Box(q)
  BY DEF Box, Subtree
<1>3. AllFit(Pairs, Open, Range(tree_pairs))'
  BY <1>1, <1>2 DEF AllFit, FitAll
<1> QED
  BY <1>3 DEF Fits

LEMMA FitSymmetric == \A p, q : Fit(p, q) <=> Fit(q, p)
BY DEF Fit

LEMMA AllFitLess ==
  ASSUME NEW P, NEW O, NEW R, AllFit(P, O, R), NEW O2, O2 \subseteq O, NEW R2, R2 \subseteq R
  PROVE  AllFit(P, O2, R2)
BY Zenon DEF AllFit, FitAll

LEMMA AllFitPop ==
  ASSUME NEW P, NEW O, NEW R, NEW p, AllFit(P, O, R \cup {p}), p \notin R
  PROVE  AllFit(P, Box(p), R)
<1>1. \A q \in R : q # p
  OBVIOUS
<1> QED
  BY <1>1, Zenon DEF AllFit

LEMMA AllFitPush ==
  ASSUME NEW P, NEW O, NEW R, AllFit(P, O, R), NEW p, Box(p) \subseteq O,
         NEW O2, O2 \subseteq O, FitAll(Box(p), O2)
  PROVE  AllFit(P, O2, R \cup {p})
<1>1. AllFit(P, O2, R)
  BY AllFitLess
<1>2. FitAll(P, Box(p)) /\ \A q \in R : FitAll(Box(q), Box(p)) /\ FitAll(Box(p), Box(q))
  BY FitSymmetric DEF AllFit, FitAll
<1> QED
  BY <1>1, <1>2, Zenon DEF AllFit

LEMMA AllFitMap ==
  ASSUME NEW P, NEW O, NEW R, AllFit(P, O, R), NEW p \in O, Fit(p, p),
         src.type[p[1]] = dst.type[p[2]],
         NEW O2, O2 \subseteq O, FitAll({p}, O2)
  PROVE  AllFit(P \cup {p}, O2, R)
<1>1. AllFit(P, O2, R)
  BY AllFitLess
<1>2. /\ \A q \in P : Fit(q, p) /\ Fit(p, q)
      /\ \A q \in R : FitAll({p}, Box(q))
  BY FitSymmetric DEF AllFit, FitAll
<1>3. FitAll(P \cup {p}, P \cup {p})
  BY <1>1, <1>2 DEF AllFit, FitAll
<1>4. FitAll(P \cup {p}, O2)
  BY <1>1 DEF AllFit, FitAll
<1>5. \A q \in R : FitAll(P \cup {p}, Box(q)) /\ FitAll(Box(q), O2)
  BY <1>1, <1>2 DEF AllFit, FitAll
<1> QED
  BY <1>1, <1>3, <1>4, <1>5 DEF AllFit

(* Nothing new is mapped, pushed or opened. *)
LEMMA FitsQuiet ==
  ASSUME Fits, Mapping, UNCHANGED <<src, dst, mappings>>,
         Range(tree_pairs') \subseteq Range(tree_pairs), Open' \subseteq Open,
         pc' = "done" => tree_pairs' = <<>>
  PROVE  Fits'
<1>1. Pairs' = Pairs
  BY DEF Pairs
<1>2. AllFit(Pairs, Open', Range(tree_pairs'))
  BY AllFitLess DEF Fits
<1> QED
  BY <1>1, <1>2, FitsLater

LEMMA FitsInit == Init => Fits
BY DEF Init, Mapping, Fits

LEMMA FitsDist ==
  Inv /\ Accounts /\ Fits /\ (NextKeyRoots \/ EndDist) => Fits'
<1> SUFFICES ASSUME Inv, Accounts, Fits, NextKeyRoots \/ EndDist PROVE Fits'
  OBVIOUS
<1>1. CASE NextKeyRoots
  <2>1. pc = "dist" /\ pc' = "rows" /\ root_node_pair' = root_node_pair
    BY <1>1 DEF NextKeyRoots, StartForest
  <2>2. ~Mapping'
    BY <2>1 DEF Mapping, Inv, Turns
  <2> QED
    BY <2>2 DEF Fits
<1>2. CASE EndDist
  <2>1. /\ Typed /\ pc = "dist" /\ tree_pairs' = <<<<src.len, dst.len>>>> /\ pc' = "pop"
        /\ root_node_pair /\ UNCHANGED <<src, dst, mappings>>
    BY <1>2 DEF Inv, Turns, EndDist, arenas, tables
  <2>2. Pairs' = {}
    <3>1. Pairs = {}
      BY <2>1, NoPairs DEF Accounts
    <3> QED
      BY <2>1, <3>1 DEF Pairs
  <2>3. Open' = {}
    BY <2>1 DEF Open, Walking
  <2>4. Range(tree_pairs') = {<<src.len, dst.len>>}
    BY <2>1 DEF Range
  <2> DEFINE p == <<src.len, dst.len>>
  <2> HIDE DEF p
  <2>5. AllFit({}, {}, {p})
    BY DEF AllFit, FitAll
  <2> QED
    BY <2>1, <2>2, <2>3, <2>4, <2>5, FitsLater DEF p
<1> QED
  BY <1>1, <1>2

LEMMA FitsRows ==
  Inv /\ Fits /\ (FillRow \/ EndForest \/ EndMappings \/ UNCHANGED zs_vars) => Fits'
<1> SUFFICES ASSUME Inv, Fits, FillRow \/ EndForest \/ EndMappings \/ UNCHANGED zs_vars,
                    Mapping'
             PROVE  Fits'
  BY DEF Fits
<1>1. /\ UNCHANGED <<src, dst, mappings, pair, tree_pairs, row, col, root_node_pair>>
      /\ Mapping /\ (Walking' => Walking)
  <2>1. CASE FillRow
    <3>1. /\ UNCHANGED <<src, dst, mappings, pair, tree_pairs, row, col, root_node_pair>>
          /\ pc = "rows" /\ pc' = "rows"
      BY <2>1 DEF FillRow, arenas
    <3> QED
      BY <3>1 DEF Mapping, Walking
  <2>2. CASE EndForest
    <3>1. /\ UNCHANGED <<src, dst, mappings, pair, tree_pairs, row, col, root_node_pair>>
          /\ pc = "rows" /\ pc' = IF root_node_pair THEN "dist" ELSE "walk"
      BY <2>2 DEF EndForest, arenas
    <3> QED
      BY <3>1 DEF Mapping, Walking
  <2>3. CASE EndMappings
    <3>1. /\ UNCHANGED <<src, dst, mappings, pair, tree_pairs, row, col, root_node_pair>>
          /\ pc = "pop" /\ pc' = "done"
      BY <2>3 DEF EndMappings, arenas
    <3> QED
      BY <3>1 DEF Mapping, Walking
  <2>4. CASE UNCHANGED zs_vars
    <3>1. UNCHANGED <<src, dst, mappings, pair, tree_pairs, row, col, root_node_pair, pc>>
      BY <2>4 DEF zs_vars, arenas
    <3> QED
      BY <3>1 DEF Mapping, Walking
  <2> QED
    BY <2>1, <2>2, <2>3, <2>4
<1>2. pc' = "done" => tree_pairs' = <<>>
  <2>1. pc' = "done" => pc = "done" \/ tree_pairs = <<>>
    BY DEF FillRow, EndForest, EndMappings, zs_vars
  <2> QED
    BY <1>1, <2>1 DEF Fits
<1>3. Open' \subseteq Open
  BY <1>1 DEF Open, first_row, first_col
<1>4. Range(tree_pairs') \subseteq Range(tree_pairs)
  BY <1>1
<1> QED
  BY <1>1, <1>2, <1>3, <1>4, FitsQuiet

LEMMA FitsPop ==
  ASSUME Typed, Stack, Fits, Mapping, Walking', tree_pairs # <<>>, pc' # "done",
         tree_pairs' = Front(tree_pairs),
         row' = Last(tree_pairs)[1], col' = Last(tree_pairs)[2],
         pair' = <<Last(tree_pairs)[1] - 1, Last(tree_pairs)[2] - 1>>,
         UNCHANGED <<src, dst, mappings>>
  PROVE  Fits'
<1> DEFINE p == Last(tree_pairs)
           R == Range(Front(tree_pairs))
<1>1. tree_pairs \in Seq(Ends)
  BY DEF Typed
<1>2. p \in Ends
  BY <1>1, EndsOfSeq
<1>3. /\ Range(tree_pairs) = R \cup {p} /\ \A q \in R : Apart(q, p)
  BY <1>1, LastOfSeparate DEF Stack
<1>4. row' = p[1] /\ col' = p[2] /\ pair' = <<p[1] - 1, p[2] - 1>> /\ Range(tree_pairs') = R
  OBVIOUS
<1> HIDE DEF p, R
<1>5. p \notin R
  <2>1. p[1] - 1 \in Subtree(src, p[1] - 1)
    BY <1>2, LedgerTypes
  <2>2. ~Apart(p, p)
    BY <2>1 DEF Apart
  <2> QED
    BY <1>3, <2>2
<1>6. Open' = Box(p)
  BY <1>4 DEF Open, Box, first_row, first_col, Subtree
<1>7. AllFit(Pairs, Open, R \cup {p})
  BY <1>3 DEF Fits
<1>8. AllFit(Pairs, Box(p), R)
  BY <1>5, <1>7, AllFitPop
<1>9. Pairs' = Pairs
  BY DEF Pairs
<1> QED
  BY <1>4, <1>6, <1>8, <1>9, FitsLater

LEMMA FitsPops == Inv /\ Accounts /\ Fits /\ (PopRoots \/ PopPair) => Fits'
<1> SUFFICES ASSUME Inv, Accounts, Fits, PopRoots \/ PopPair PROVE Fits'
  OBVIOUS
<1>1. /\ pc = "pop" /\ tree_pairs' = Front(tree_pairs) /\ tree_pairs # <<>>
      /\ row' = Last(tree_pairs)[1] /\ col' = Last(tree_pairs)[2]
      /\ pair' = <<Last(tree_pairs)[1] - 1, Last(tree_pairs)[2] - 1>>
      /\ ~root_node_pair' /\ pc' \in {"walk", "rows"}
      /\ UNCHANGED <<src, dst, mappings>>
  <2>1. CASE PopRoots
    <3>1. tree_pairs # <<>>
      <4>1. tree_pairs = <<<<src.len, dst.len>>>>
        BY <2>1 DEF PopRoots, Inv, Turns
      <4> QED
        BY <4>1
    <3> QED
      BY <2>1, <3>1 DEF PopRoots, arenas
  <2>2. CASE PopPair
    BY <2>2 DEF PopPair, StartForest, arenas
  <2> QED
    BY <2>1, <2>2
<1>2. Walking' /\ Mapping /\ Typed /\ pc' # "done"
  BY <1>1 DEF Walking, Mapping, Inv
<1>3. Stack
  BY <1>2 DEF Accounts
<1> QED
  BY <1>1, <1>2, <1>3, FitsPop

LEMMA FitsEndWalk == Inv /\ Fits /\ EndWalk => Fits'
<1> SUFFICES ASSUME Inv, Fits, EndWalk PROVE Fits'
  OBVIOUS
<1>1. /\ pc = "walk" /\ pc' # "done" /\ pc' # "walk" /\ pc' # "rows" /\ ~root_node_pair
      /\ UNCHANGED <<src, dst, mappings, tree_pairs>>
  BY DEF Inv, Turns, EndWalk, arenas
<1>2. Mapping /\ Open' = {}
  BY <1>1 DEF Mapping, Open, Walking
<1> QED
  BY <1>1, <1>2, FitsQuiet

LEMMA FitsLeaveOut == Inv /\ Tables /\ Accounts /\ Fits /\ (Delete \/ Insert) => Fits'
<1> SUFFICES ASSUME Inv, Tables, Accounts, Fits, Delete \/ Insert PROVE Fits'
  OBVIOUS
<1>1. walking /\ UNCHANGED <<src, dst, pc, pair, root_node_pair, tree_pairs, mappings>>
  BY DEF Delete, Insert, Walked, arenas
<1>2. /\ pc = "walk" /\ ~root_node_pair /\ Walking /\ Stack /\ Typed
  BY <1>1, WalkOwes
<1>3. Walking' /\ Mapping
  BY <1>1, <1>2 DEF Walking, Mapping
<1>4. /\ first_row' .. row' - 1 \subseteq first_row .. row - 1
      /\ first_col' .. col' - 1 \subseteq first_col .. col - 1
  <2>1. CASE Delete
    <3>1. row > first_row /\ row' = row - 1 /\ col' = col
      BY <2>1 DEF Delete, deletes, Walked
    <3>2. first_row' .. row' - 1 \subseteq first_row .. row - 1
      BY <1>1, <1>2, <1>3, <3>1, DropSrc
    <3> QED
      BY <1>1, <3>1, <3>2 DEF first_col
  <2>2. CASE Insert
    <3>1. col > first_col /\ col' = col - 1 /\ row' = row
      BY <2>2 DEF Insert, inserts, Walked
    <3>2. first_col' .. col' - 1 \subseteq first_col .. col - 1
      BY <1>1, <1>2, <1>3, <3>1, DropDst
    <3> QED
      BY <1>1, <3>1, <3>2 DEF first_row
  <2> QED
    BY <2>1, <2>2
<1>5. Open' \subseteq Open
  <2> HIDE DEF first_row, first_col
  <2> QED
    BY <1>2, <1>3, <1>4 DEF Open
<1> QED
  BY <1>1, <1>2, <1>3, <1>5, FitsQuiet

(* The two roots of the pair's trees fit all that is below them. *)
LEMMA FitsMapRoots == Inv /\ Tables /\ Accounts /\ Fits /\ MapRoots => Fits'
<1> SUFFICES ASSUME Inv, Tables, Accounts, Fits, MapRoots PROVE Fits'
  OBVIOUS
<1> DEFINE x == row - 1
           y == col - 1
           p == <<x, y>>
           l == first_row
           m == first_col
           O == (l .. x - 1) \X (m .. y - 1)
<1>1. /\ walking /\ ~deletes /\ ~inserts /\ whole_trees(x, y) /\ same_type
      /\ row' = x /\ col' = y
      /\ UNCHANGED <<src, dst, pc, pair, root_node_pair, tree_pairs>>
  BY DEF MapRoots, Walked, arenas
<1>2. pc = "walk" /\ ~root_node_pair /\ Walking /\ Stack /\ Typed
  BY <1>1, WalkOwes
<1>3. Walking' /\ Mapping
  BY <1>1, <1>2 DEF Walking, Mapping
<1>4. /\ p \in NodePairs /\ Pairs' = Pairs \cup {p}
      /\ first_row' .. row' - 1 \subseteq l .. row - 1
      /\ first_col' .. col' - 1 \subseteq m .. col - 1
  BY RootsMapped
<1>5. first_row' = l /\ first_col' = m
  BY <1>1 DEF first_row, first_col
<1>6. /\ x \in Nat /\ y \in Nat /\ l \in Nat /\ m \in Nat
      /\ src.lld[x] = l /\ dst.lld[y] = m /\ l <= x /\ m <= y
      /\ src.type[x] = dst.type[y]
  <2>1. /\ x \in nodes(src) /\ y \in nodes(dst) /\ IsTree(src) /\ IsTree(dst)
        /\ l \in Nat /\ m \in Nat
    BY <1>2, <1>4, TableFacts DEF NodePairs
  <2> QED
    BY <1>1, <2>1, NodeTypes DEF whole_trees, same_type
<1>7. Open = (l .. x) \X (m .. y) /\ Open' = O
  BY <1>1, <1>2, <1>3, <1>5 DEF Open
<1> HIDE DEF x, y, l, m
<1>8. p \in Open /\ O \subseteq Open
  BY <1>6, <1>7
<1>9. Fit(p, p)
  BY <1>6 DEF Fit, is_descendant
<1>10. FitAll({p}, O)
  <2> SUFFICES ASSUME NEW a \in l .. x - 1, NEW b \in m .. y - 1 PROVE Fit(p, <<a, b>>)
    BY DEF FitAll
  <2>1. a < x /\ b < y /\ l <= a /\ m <= b /\ ~(x < a) /\ ~(y < b)
    BY <1>6
  <2> QED
    BY <1>6, <2>1 DEF Fit, is_descendant
<1>11. AllFit(Pairs \cup {p}, O, Range(tree_pairs))
  <2>1. AllFit(Pairs, Open, Range(tree_pairs)) /\ src.type[p[1]] = dst.type[p[2]]
    BY <1>3, <1>6 DEF Fits
  <2> HIDE DEF p, O
  <2> QED
    BY <1>8, <1>9, <1>10, <2>1, AllFitMap
<1> QED
  BY <1>1, <1>2, <1>4, <1>7, <1>11, FitsLater

(* The trees that are pushed lie right of the forests walked on with. *)
LEMMA FitsPushPair == Inv /\ Tables /\ Accounts /\ Fits /\ PushPair => Fits'
<1> SUFFICES ASSUME Inv, Tables, Accounts, Fits, PushPair PROVE Fits'
  OBVIOUS
<1> DEFINE x == row - 1
           y == col - 1
           r == src.lld[x]
           c == dst.lld[y]
           p == <<row, col>>
           l == first_row
           m == first_col
           O == (l .. r - 1) \X (m .. c - 1)
<1>1. /\ walking /\ ~deletes /\ ~inserts
      /\ tree_pairs' = Append(tree_pairs, p) /\ row' = r /\ col' = c
      /\ UNCHANGED <<src, dst, pc, pair, root_node_pair, mappings>>
  BY DEF PushPair, Walked, arenas
<1>2. pc = "walk" /\ ~root_node_pair /\ Walking /\ Stack /\ Typed
  BY <1>1, WalkOwes
<1>3. Walking' /\ Mapping
  BY <1>1, <1>2 DEF Walking, Mapping
<1>4. x \in Subtree(src, pair[1]) /\ y \in Subtree(dst, pair[2])
  BY <1>1, WalkFacts
<1>5. /\ IsTree(src) /\ IsTree(dst) /\ pair[1] \in nodes(src) /\ pair[2] \in nodes(dst)
      /\ l \in Nat /\ m \in Nat
  BY <1>2, TableFacts
<1>6. /\ x \in Nat /\ r \in Nat /\ l <= r /\ r <= x
      /\ \A a \in r .. x : src.lld[a] \in Nat /\ r <= src.lld[a]
  <2>1. /\ x \in nodes(src) /\ x \in Nat /\ r \in Nat /\ l <= r /\ r <= x
    BY <1>4, <1>5, InSubtree DEF Subtree, first_row
  <2> HIDE DEF x
  <2> QED
    BY <1>5, <2>1, InSubtree
<1>7. /\ y \in Nat /\ c \in Nat /\ m <= c /\ c <= y
      /\ \A b \in c .. y : dst.lld[b] \in Nat /\ c <= dst.lld[b]
  <2>1. /\ y \in nodes(dst) /\ y \in Nat /\ c \in Nat /\ m <= c /\ c <= y
    BY <1>4, <1>5, InSubtree DEF Subtree, first_col
  <2> HIDE DEF y
  <2> QED
    BY <1>5, <2>1, InSubtree
<1>8. Box(p) = (r .. x) \X (c .. y)
  BY DEF Box, Subtree
<1>9. Open = (l .. x) \X (m .. y) /\ Open' = O
  <2>1. first_row' = l /\ first_col' = m
    BY <1>1 DEF first_row, first_col
  <2> QED
    BY <1>1, <1>2, <1>3, <2>1 DEF Open
<1>10. Range(tree_pairs') = Range(tree_pairs) \cup {p}
  <2>1. tree_pairs \in Seq(Ends) /\ p \in Ends
    <3>1. row \in 0 .. src.len /\ col \in 0 .. dst.len /\ tree_pairs \in Seq(Ends)
          /\ src.len \in Nat /\ dst.len \in Nat
      BY <1>2, TableFacts DEF Typed
    <3>2. row \in 1 .. src.len /\ col \in 1 .. dst.len
      BY <1>6, <1>7, <3>1
    <3> QED
      BY <3>1, <3>2 DEF Ends
  <2>2. \A q \in Range(tree_pairs) : Apart(q, p)
    <3>1. \A q \in Range(tree_pairs) :
            /\ Subtree(src, q[1] - 1) \cap (l .. x) = {}
            /\ Subtree(dst, q[2] - 1) \cap (m .. y) = {}
      BY <1>2 DEF Stack
    <3>2. Subtree(src, p[1] - 1) = r .. x /\ Subtree(dst, p[2] - 1) = c .. y
      BY DEF Subtree
    <3> HIDE DEF x, y, r, c, l, m, p
    <3>3. r .. x \subseteq l .. x /\ c .. y \subseteq m .. y
      BY <1>5, <1>6, <1>7
    <3> QED
      BY <3>1, <3>2, <3>3 DEF Apart
  <2>3. Separate(tree_pairs)
    BY <1>2 DEF Stack
  <2> HIDE DEF p
  <2> QED
    BY <1>1, <2>1, <2>2, <2>3, AppendSeparate
<1> HIDE DEF x, y, r, c, l, m, p
<1>11. Box(p) \subseteq Open /\ O \subseteq Open
  BY <1>5, <1>6, <1>7, <1>8, <1>9
<1>12. FitAll(Box(p), O)
  <2> SUFFICES ASSUME NEW a \in r .. x, NEW b \in c .. y, NEW e \in l .. r - 1, NEW f \in m .. c - 1
               PROVE  Fit(<<a, b>>, <<e, f>>)
    BY <1>8 DEF FitAll
  <2>1. /\ e < a /\ ~(a < e) /\ e < src.lld[a]
        /\ f < b /\ ~(b < f) /\ f < dst.lld[b]
    BY <1>5, <1>6, <1>7
  <2>2. ~(src.lld[a] <= e) /\ ~(dst.lld[b] <= f)
    BY <1>5, <1>6, <1>7, <2>1
  <2> QED
    BY <2>1, <2>2 DEF Fit, is_descendant
<1>13. AllFit(Pairs, O, Range(tree_pairs) \cup {p})
  <2>1. AllFit(Pairs, Open, Range(tree_pairs))
    BY <1>3 DEF Fits
  <2> HIDE DEF O
  <2> QED
    BY <1>11, <1>12, <2>1, AllFitPush
<1>14. Pairs' = Pairs
  BY <1>1 DEF Pairs
<1> QED
  BY <1>1, <1>2, <1>9, <1>10, <1>13, <1>14, FitsLater

-----------------------------------------------------------------------------
(***************************************************************************)
(* EditMappings is a recursive function over the nodes of the first tree:  *)
(* that it has values, and what they are, is proved by least               *)
(* counterexample.                                                         *)
(***************************************************************************)
(* the edit mappings Ms, and those that a pair of the node i extends *)
Longer(t, u, y, i, Ms) ==
  Ms \cup {Mp[1] \cup {Mp[2]} : Mp \in
             {Mp \in Ms \X {<<i, j>> : j \in {k \in Subtree(u, y) : t.type[i] = u.type[k]}} :
                \A q \in Mp[1] : Compatible(t, u, q, Mp[2])}}

(* f obeys the recursion of EditMappings up to the node x *)
Recursion(f, t, x, u, y) ==
  f = [i \in t.lld[x] - 1 .. x |-> IF i < t.lld[x] THEN {{}} ELSE Longer(t, u, y, i, f[i - 1])]

(* EditMappings is the last value of a function that obeys its recursion. *)
LEMMA EditMappingsRecursion ==
  ASSUME NEW t, IsTree(t), NEW x \in nodes(t), NEW u, NEW y
  PROVE  \E f : EditMappings(t, x, u, y) = f[x] /\ Recursion(f, t, x, u, y)
<1> DEFINE lo == t.lld[x]
           Turn(g, i) == IF i < lo THEN {{}} ELSE Longer(t, u, y, i, g[i - 1])
           Upto(g, n) == g = [i \in lo - 1 .. n |-> Turn(g, i)]
<1>1. EditMappings(t, x, u, y) = (CHOOSE g : Upto(g, x))[x]
  BY DEF EditMappings, Longer
<1>2. lo \in Nat /\ x \in Nat /\ lo <= x
  BY NodeTypes
<1> HIDE DEF lo
<1>3. \E g : Upto(g, x)
  <2> DEFINE bad == {k \in Nat : ~\E g : Upto(g, lo - 1 + k)}
  <2> SUFFICES ASSUME bad # {} PROVE FALSE
    <3>1. bad = {} => x - (lo - 1) \notin bad
      OBVIOUS
    <3>2. x - (lo - 1) \in Nat /\ lo - 1 + (x - (lo - 1)) = x
      BY <1>2
    <3> QED
      BY <3>1, <3>2
  <2>1. PICK k \in bad : \A m \in bad : k <= m
    BY NatMinExists
  <2> DEFINE n == lo - 1 + k
  <2>2. n \in Int /\ lo - 1 <= n /\ k \in Nat
    BY <1>2
  <2>3. CASE k = 0
    <3>1. Upto([i \in lo - 1 .. n |-> {{}}], n)
      BY <1>2, <2>3
    <3> QED
      BY <2>1, <3>1
  <2>4. CASE k # 0
    <3>1. k - 1 \in Nat /\ lo - 1 + (k - 1) = n - 1 /\ lo - 1 <= n - 1
      BY <1>2, <2>2, <2>4
    <3>2. k - 1 \notin bad
      <4> HIDE DEF bad
      <4> QED
        BY <2>1, <2>2, <3>1
    <3>3. \E h : Upto(h, lo - 1 + (k - 1))
      BY <3>1, <3>2
    <3>4. PICK h : Upto(h, n - 1)
      BY <3>1, <3>3
    <3> DEFINE g == [i \in lo - 1 .. n |-> IF i < n THEN h[i] ELSE Turn(h, n)]
    <3> HIDE DEF n
    <3>5. ASSUME NEW i \in lo - 1 .. n PROVE g[i] = Turn(g, i)
      <4>1. \A j \in lo - 1 .. n - 1 : g[j] = h[j]
        BY <1>2, <2>2
      <4>2. i >= lo => i - 1 \in lo - 1 .. n - 1
        BY <1>2, <2>2
      <4>3. Turn(g, i) = Turn(h, i)
        BY <4>1, <4>2, <1>2, <2>2
      <4>4. CASE i < n
        <5>1. i \in lo - 1 .. n - 1
          BY <1>2, <2>2, <4>4
        <5>2. h[i] = Turn(h, i)
          BY <3>4, <5>1
        <5> QED
          BY <4>1, <4>3, <5>1, <5>2
      <4>5. CASE i = n
        BY <4>3, <4>5
      <4> QED
        BY <1>2, <2>2, <4>4, <4>5
    <3>6. Upto(g, n)
      <4>1. g = [i \in lo - 1 .. n |-> g[i]]
        OBVIOUS
      <4> HIDE DEF g
      <4> QED
        BY <3>5, <4>1
    <3> QED
      BY <2>1, <3>6 DEF n
  <2> QED
    BY <2>3, <2>4
<1>4. Upto(CHOOSE g : Upto(g, x), x)
  BY <1>3
<1> QED
  BY <1>1, <1>4 DEF lo, Recursion

(* q is a later pair than p, and may be mapped together with it. *)
Before(t, u, p, q) == p[1] < q[1] /\ Compatible(t, u, p, q)

(* The mappings of the nodes up to n: pairs of one type, in the same order, *)
(* with the same ancestors.                                                *)
MappingsUpto(t, x, u, y, n) ==
  {N \in SUBSET ((t.lld[x] .. n) \X Subtree(u, y)) :
     /\ \A p \in N : t.type[p[1]] = u.type[p[2]]
     /\ \A p, q \in N : p # q => Before(t, u, p, q) \/ Before(t, u, q, p)}

(* Either n is left out, or its pair extends a mapping of the nodes before. *)
LEMMA MappingsUptoNext ==
  ASSUME NEW t, NEW x, NEW u, NEW y, t.lld[x] \in Nat, NEW n \in Nat, t.lld[x] <= n
  PROVE  MappingsUpto(t, x, u, y, n) = Longer(t, u, y, n, MappingsUpto(t, x, u, y, n - 1))
<1> DEFINE lo == t.lld[x]
           Y == Subtree(u, y)
           Ms == MappingsUpto(t, x, u, y, n - 1)
<1>1. /\ lo \in Nat /\ n - 1 \in Int /\ lo .. n - 1 \subseteq lo .. n /\ n \in lo .. n
      /\ \A z \in lo .. n : z # n => z \in lo .. n - 1
      /\ \A z \in lo .. n - 1 : z < n /\ ~(n < z)
  OBVIOUS
<1>2. ASSUME NEW N \in Longer(t, u, y, n, Ms)
      PROVE  N \in MappingsUpto(t, x, u, y, n)
  <2>1. CASE N \in Ms
    <3>1. N \in SUBSET ((lo .. n) \X Y)
      BY <1>1, <2>1 DEF MappingsUpto
    <3> QED
      BY <2>1, <3>1 DEF MappingsUpto
  <2>2. CASE N \notin Ms
    <3>1. PICK Mp \in Ms \X {<<n, j>> : j \in {k \in Y : t.type[n] = u.type[k]}} :
            N = Mp[1] \cup {Mp[2]} /\ \A q \in Mp[1] : Compatible(t, u, q, Mp[2])
      BY <2>2 DEF Longer
    <3>2. PICK L \in Ms, j \in Y :
            /\ N = L \cup {<<n, j>>} /\ t.type[n] = u.type[j]
            /\ \A q \in L : Compatible(t, u, q, <<n, j>>)
      BY <3>1
    <3> HIDE DEF Ms
    <3>3. /\ L \in SUBSET ((lo .. n - 1) \X Y)
          /\ \A p \in L : t.type[p[1]] = u.type[p[2]]
          /\ \A p, q \in L : p # q => Before(t, u, p, q) \/ Before(t, u, q, p)
      BY <3>2 DEF Ms, MappingsUpto
    <3>4. N \in SUBSET ((lo .. n) \X Y)
      BY <1>1, <3>2, <3>3
    <3>5. \A p \in N : t.type[p[1]] = u.type[p[2]]
      BY <3>2, <3>3
    <3>6. \A q \in L : q[1] < n
      BY <1>1, <3>3
    <3>7. \A p, q \in N : p # q => \/ p \in L /\ q \in L
                                   \/ p \in L /\ q = <<n, j>>
                                   \/ q \in L /\ p = <<n, j>>
      BY <3>2
    <3>8. \A p, q \in N : p # q => Before(t, u, p, q) \/ Before(t, u, q, p)
      BY <3>2, <3>3, <3>6, <3>7 DEF Before
    <3> QED
      BY <3>4, <3>5, <3>8 DEF MappingsUpto
  <2> QED
    BY <2>1, <2>2
<1>3. ASSUME NEW N \in MappingsUpto(t, x, u, y, n)
      PROVE  N \in Longer(t, u, y, n, Ms)
  <2>1. /\ N \in SUBSET ((lo .. n) \X Y)
        /\ \A p \in N : t.type[p[1]] = u.type[p[2]]
        /\ \A p, q \in N : p # q => Before(t, u, p, q) \/ Before(t, u, q, p)
    BY DEF MappingsUpto
  <2>2. CASE \A p \in N : p[1] # n
    <3>1. N \in SUBSET ((lo .. n - 1) \X Y)
      BY <1>1, <2>1, <2>2
    <3>2. N \in Ms
      BY <2>1, <3>1 DEF MappingsUpto
    <3> QED
      BY <3>2 DEF Longer
  <2>3. CASE \E p \in N : p[1] = n
    <3>1. PICK p \in N : p[1] = n
      BY <2>3
    <3> DEFINE j == p[2]
               L == N \ {p}
    <3>2. p = <<n, j>> /\ j \in Y /\ t.type[n] = u.type[j] /\ N = L \cup {<<n, j>>}
      BY <2>1, <3>1
    <3>3. \A q \in L : q[1] # n /\ Compatible(t, u, q, p)
      <4> SUFFICES ASSUME NEW q \in N, q # p PROVE q[1] # n /\ Compatible(t, u, q, p)
        OBVIOUS
      <4>1. Before(t, u, p, q) \/ Before(t, u, q, p)
        BY <2>1
      <4>2. q[1] \in lo .. n
        BY <2>1
      <4>3. ~(n < q[1]) /\ (q[1] < n => q[1] # n)
        BY <4>2
      <4> QED
        BY <3>1, <4>1, <4>3 DEF Before
    <3>4. L \in Ms
      <4>1. L \in SUBSET ((lo .. n - 1) \X Y)
        BY <1>1, <2>1, <3>3
      <4> HIDE DEF L
      <4>2. /\ \A q \in L : t.type[q[1]] = u.type[q[2]]
            /\ \A q, r \in L : q # r => Before(t, u, q, r) \/ Before(t, u, r, q)
        BY <2>1 DEF L
      <4> QED
        BY <4>1, <4>2 DEF MappingsUpto
    <3> HIDE DEF j, L, Ms
    <3> DEFINE Mp == <<L, <<n, j>>>>
    <3>5. /\ Mp \in Ms \X {<<n, k>> : k \in {k \in Y : t.type[n] = u.type[k]}}
          /\ \A q \in Mp[1] : Compatible(t, u, q, Mp[2])
          /\ N = Mp[1] \cup {Mp[2]}
      BY <3>2, <3>3, <3>4
    <3> HIDE DEF Mp
    <3> QED
      BY <3>5 DEF Longer
  <2> QED
    BY <2>2, <2>3
<1> QED
  BY <1>2, <1>3

(* What EditMappings collects node by node are all such mappings. *)
LEMMA EditMappingsAre ==
  ASSUME NEW t, IsTree(t), NEW x \in nodes(t), NEW u, NEW y
  PROVE  EditMappings(t, x, u, y) = MappingsUpto(t, x, u, y, x)
<1> DEFINE lo == t.lld[x]
<1>1. PICK f : EditMappings(t, x, u, y) = f[x] /\ Recursion(f, t, x, u, y)
  BY EditMappingsRecursion
<1>2. f = [i \in lo - 1 .. x |-> IF i < lo THEN {{}} ELSE Longer(t, u, y, i, f[i - 1])]
  BY <1>1 DEF Recursion
<1>3. lo \in Nat /\ x \in Nat /\ lo <= x
  BY NodeTypes
<1>4. ASSUME NEW n \in lo .. x, f[n - 1] = MappingsUpto(t, x, u, y, n - 1)
      PROVE  f[n] = MappingsUpto(t, x, u, y, n)
  <2>1. n \in lo - 1 .. x /\ ~(n < lo) /\ n \in Nat /\ lo <= n
    BY <1>3
  <2> HIDE DEF lo
  <2>2. f[n] = Longer(t, u, y, n, f[n - 1])
    BY <1>2, <2>1
  <2> USE DEF lo
  <2>3. MappingsUpto(t, x, u, y, n) = Longer(t, u, y, n, MappingsUpto(t, x, u, y, n - 1))
    BY <1>3, <2>1, MappingsUptoNext
  <2> QED
    BY <1>4, <2>2, <2>3
<1>5. f[lo - 1] = MappingsUpto(t, x, u, y, lo - 1)
  <2>1. lo - 1 \in lo - 1 .. x /\ lo - 1 < lo /\ lo .. lo - 1 = {}
    <3>1. \A n \in Nat : n .. n - 1 = {}
      OBVIOUS
    <3> HIDE DEF lo
    <3> QED
      BY <1>3, <3>1
  <2>2. f[lo - 1] = {{}}
    <3> HIDE DEF lo
    <3> QED
      BY <1>2, <2>1
  <2>3. MappingsUpto(t, x, u, y, lo - 1) = {{}}
    BY <2>1 DEF MappingsUpto
  <2> QED
    BY <2>2, <2>3
<1> DEFINE Is(n) == f[n] = MappingsUpto(t, x, u, y, n)
           bad == {k \in Nat : k <= x - (lo - 1) /\ ~Is(lo - 1 + k)}
<1> HIDE DEF Is, lo
<1>6. bad = {}
  <2> SUFFICES ASSUME bad # {} PROVE FALSE
    OBVIOUS
  <2>1. PICK k \in bad : \A i \in bad : k <= i
    BY NatMinExists
  <2> DEFINE n == lo - 1 + k
  <2>2. n \in Int /\ lo - 1 <= n /\ k \in Nat /\ n <= x /\ ~Is(n)
    BY <1>3
  <2>3. k # 0
    <3>1. Is(lo - 1)
      BY <1>5 DEF Is, lo
    <3> QED
      BY <1>3, <2>2, <3>1
  <2>4. /\ k - 1 \in Nat /\ lo - 1 + (k - 1) = n - 1 /\ k - 1 <= x - (lo - 1)
        /\ n \in lo .. x /\ ~(k <= k - 1)
    BY <1>3, <2>2, <2>3
  <2>5. k - 1 \notin bad
    <3> HIDE DEF bad
    <3> QED
      BY <2>1, <2>2, <2>4
  <2>6. Is(n - 1)
    BY <2>4, <2>5
  <2> HIDE DEF n
  <2>7. Is(n)
    BY <1>4, <2>4, <2>6 DEF Is, lo
  <2> QED
    BY <2>2, <2>7
<1>7. Is(x)
  <2>1. x - (lo - 1) \in Nat /\ lo - 1 + (x - (lo - 1)) = x /\ x - (lo - 1) <= x - (lo - 1)
    BY <1>3
  <2>2. x - (lo - 1) \notin bad
    BY <1>6
  <2> QED
    BY <2>1, <2>2
<1> QED
  BY <1>1, <1>7 DEF Is

-----------------------------------------------------------------------------
(***************************************************************************)
(* The answer is an edit mapping, costs what the ledger has counted, and   *)
(* so as little as any other.                                              *)
(***************************************************************************)
LEMMA FitsStep == Inv /\ Tables /\ Accounts /\ Fits /\ [Next]_zs_vars => Fits'
<1> SUFFICES ASSUME Inv, Tables, Accounts, Fits, [Next]_zs_vars PROVE Fits'
  OBVIOUS
<1>1. CASE NextKeyRoots \/ EndDist
  BY <1>1, FitsDist
<1>2. CASE FillRow \/ EndForest \/ EndMappings \/ UNCHANGED zs_vars
  BY <1>2, FitsRows
<1>3. CASE PopRoots \/ PopPair
  BY <1>3, FitsPops
<1>4. CASE Delete \/ Insert
  BY <1>4, FitsLeaveOut
<1>5. CASE MapRoots
  BY <1>5, FitsMapRoots
<1>6. CASE PushPair
  BY <1>6, FitsPushPair
<1>7. CASE EndWalk
  BY <1>7, FitsEndWalk
<1> QED
  BY <1>1, <1>2, <1>3, <1>4, <1>5, <1>6, <1>7 DEF Next, MatchNext, Ended

(* The edit mappings of the two trees are the sets of pairs that fit. *)
LEMMA MappingsFit ==
  ASSUME Typed
  PROVE  LET all == EditMappings(src, root(src), dst, root(dst))
         IN  \A M : M \in all <=> /\ M \in SUBSET NodePairs /\ FitAll(M, M)
                                  /\ \A p \in M : src.type[p[1]] = dst.type[p[2]]
<1> DEFINE x == root(src)
           y == root(dst)
<1>1. /\ IsTree(src) /\ IsTree(dst) /\ x \in nodes(src) /\ y \in nodes(dst)
      /\ Subtree(src, x) = nodes(src) /\ Subtree(dst, y) = nodes(dst)
      /\ src.lld[x] .. x = nodes(src)
  <2>1. IsTree(src) /\ IsTree(dst) /\ x \in nodes(src) /\ y \in nodes(dst)
    BY TableFacts
  <2> QED
    BY <2>1 DEF IsTree, TreeShape, Subtree, nodes
<1>2. EditMappings(src, x, dst, y) = MappingsUpto(src, x, dst, y, x)
  BY <1>1, EditMappingsAre
<1>3. ASSUME NEW M \in SUBSET NodePairs, FitAll(M, M), NEW p \in M, NEW q \in M, p # q
      PROVE  Before(src, dst, p, q) \/ Before(src, dst, q, p)
  <2>1. p[1] \in Nat /\ q[1] \in Nat /\ p[1] # q[1]
    <3> HIDE DEF Typed
    <3> QED
      BY <1>3, FitPairs
  <2>2. Fit(p, q)
    BY <1>3 DEF FitAll
  <2>3. p[1] < q[1] \/ q[1] < p[1]
    BY <2>1
  <2> QED
    BY <2>2, <2>3 DEF Fit, Compatible, Before
<1>4. ASSUME NEW M \in SUBSET NodePairs,
             \A p, q \in M : p # q => Before(src, dst, p, q) \/ Before(src, dst, q, p)
      PROVE  FitAll(M, M)
  <2> SUFFICES ASSUME NEW p \in M, NEW q \in M PROVE Fit(p, q)
    BY DEF FitAll
  <2>1. p[1] \in Nat /\ p[2] \in Nat /\ q[1] \in Nat /\ q[2] \in Nat
    <3>1. nodes(src) \subseteq Nat /\ nodes(dst) \subseteq Nat
      BY TableFacts
    <3>2. p \in nodes(src) \X nodes(dst) /\ q \in nodes(src) \X nodes(dst)
      BY DEF NodePairs
    <3> QED
      BY <3>1, <3>2
  <2>2. \A a, b \in Nat : a < b => ~(b < a)
    OBVIOUS
  <2>3. CASE p = q
    <3>1. ~(p[1] < p[1]) /\ ~(p[2] < p[2])
      BY <2>1
    <3> QED
      BY <2>3, <3>1 DEF Fit, is_descendant
  <2>4. CASE Before(src, dst, p, q)
    <3>1. ~(q[1] < p[1]) /\ p[2] < q[2] /\ ~(q[2] < p[2])
      BY <2>1, <2>2, <2>4 DEF Compatible, Before
    <3> QED
      BY <2>4, <3>1 DEF Fit, Compatible, Before, is_descendant
  <2>5. CASE Before(src, dst, q, p)
    <3>1. ~(p[1] < q[1]) /\ q[2] < p[2] /\ ~(p[2] < q[2])
      BY <2>1, <2>2, <2>5 DEF Compatible, Before
    <3> QED
      BY <2>5, <3>1 DEF Fit, Compatible, Before, is_descendant
  <2> QED
    BY <1>4, <2>3, <2>4, <2>5
<1>5. ASSUME NEW M
      PROVE  M \in MappingsUpto(src, x, dst, y, x) <=>
               /\ M \in SUBSET NodePairs /\ FitAll(M, M)
               /\ \A p \in M : src.type[p[1]] = dst.type[p[2]]
  <2> HIDE DEF x, y
  <2>1. M \in MappingsUpto(src, x, dst, y, x) <=>
          /\ M \in SUBSET NodePairs
          /\ \A p \in M : src.type[p[1]] = dst.type[p[2]]
          /\ \A p, q \in M : p # q => Before(src, dst, p, q) \/ Before(src, dst, q, p)
    BY <1>1, Zenon DEF MappingsUpto, NodePairs
  <2> QED
    BY <1>3, <1>4, <2>1, Zenon
<1> QED
  BY <1>2, <1>5

(* A tree has as many nodes as it is long. *)
LEMMA NodeCount ==
  ASSUME Typed
  PROVE  /\ nodes(src) = 0 .. src.len - 1 /\ nodes(dst) = 0 .. dst.len - 1
         /\ src.len \in Nat /\ dst.len \in Nat
         /\ Cardinality(nodes(src)) = src.len /\ Cardinality(nodes(dst)) = dst.len
<1>1. /\ nodes(src) = 0 .. src.len - 1 /\ nodes(dst) = 0 .. dst.len - 1
      /\ src.len \in Nat /\ dst.len \in Nat
  BY TableFacts
<1>2. \A n \in Nat : Cardinality(0 .. n - 1) = n
  <2> SUFFICES ASSUME NEW n \in Nat PROVE Cardinality(0 .. n - 1) = n
    OBVIOUS
  <2>1. 0 \in Int /\ n - 1 \in Int
    OBVIOUS
  <2>2. Cardinality(0 .. n - 1) = IF 0 > n - 1 THEN 0 ELSE (n - 1) - 0 + 1
    BY <2>1, FS_Interval
  <2> QED
    BY <2>2
<1> QED
  BY <1>1, <1>2

(* The cost of a mapping of the two trees. *)
LEMMA EditCostIs ==
  ASSUME Typed, NEW M \in SUBSET NodePairs
  PROVE  /\ EditCost(src, root(src), dst, root(dst), M) = Script(M, src.len, dst.len)
         /\ Script(M, src.len, dst.len) \in Int
<1>1. /\ Subtree(src, root(src)) = nodes(src) /\ Subtree(dst, root(dst)) = nodes(dst)
      /\ nodes(src) = 0 .. src.len - 1 /\ nodes(dst) = 0 .. dst.len - 1
      /\ src.len \in Nat /\ dst.len \in Nat
  BY TableFacts DEF IsTree, TreeShape, Subtree, nodes
<1>2. Cardinality(nodes(src)) = src.len /\ Cardinality(nodes(dst)) = dst.len
  BY NodeCount
<1> DEFINE k == Cardinality(M)
           c == UpdateCost(src, dst, M)
           a == src.len
           b == dst.len
<1>3. c \in Nat /\ k \in Nat
  <2> HIDE DEF Typed
  <2> QED
    BY LedgerSums
<1>4. EditCost(src, root(src), dst, root(dst), M) = c + UNIT * (a + b - 2 * k)
  BY <1>1, <1>2 DEF EditCost
<1>5. Script(M, a, b) = c + UNIT * (a - k) + UNIT * (b - k)
  BY DEF Script
<1>6. a \in Nat /\ b \in Nat
  BY <1>1
<1> HIDE DEF a, b, c, k
<1>7. /\ a + b - 2 * k = (a - k) + (b - k) /\ a - k \in Int /\ b - k \in Int
  BY <1>3, <1>6
<1>8. \A u, v \in Int : UNIT * (u + v) = UNIT * u + UNIT * v /\ UNIT * u \in Int
  BY UnitAssumption
<1> DEFINE u == UNIT * (a - k)
           v == UNIT * (b - k)
<1>9. UNIT * (a + b - 2 * k) = u + v /\ u \in Int /\ v \in Int
  BY <1>7, <1>8
<1>10. Script(M, a, b) = c + u + v /\ EditCost(src, root(src), dst, root(dst), M) = c + (u + v)
  BY <1>4, <1>5, <1>9
<1> HIDE DEF u, v
<1>11. c + u + v = c + (u + v) /\ c + u + v \in Int
  BY <1>3, <1>9
<1> QED
  BY <1>10, <1>11 DEF a, b

(* At the end the ledger says what the answer costs. *)
LEMMA AnswerCosts ==
  ASSUME Inv, Accounts, Fits, pc = "done"
  PROVE  /\ tree[<<src.len, dst.len>>] = Script(Pairs, src.len, dst.len)
         /\ Pairs \in EditMappings(src, root(src), dst, root(dst))
<1>1. Typed /\ ~root_node_pair /\ Mapping /\ ~Walking
  BY DEF Inv, Turns, Mapping, Walking
<1>2. tree_pairs = <<>> /\ AllFit(Pairs, Open, Range(tree_pairs)) /\ Ledger
  BY <1>1 DEF Fits, Accounts
<1>3. Range(tree_pairs) = {}
  BY <1>2 DEF Range
<1>4. UndecidedSrc = {} /\ UndecidedDst = {}
  BY <1>1, <1>3 DEF UndecidedSrc, UndecidedDst
<1>5. Cardinality(nodes(src)) = src.len /\ Cardinality(nodes(dst)) = dst.len
  BY <1>1, NodeCount
<1>6. Pairs \in SUBSET NodePairs
  BY DEF Pairs, NodePairs
<1>7. tree[<<src.len, dst.len>>] = Spent + 0 + 0
  <2>1. TreeSum(tree, {}) = 0
    BY <1>1, LedgerSums
  <2>2. Rest = 0
    BY <1>1 DEF Rest
  <2> QED
    BY <1>2, <1>3, <2>1, <2>2 DEF Ledger
<1>8. Spent = Script(Pairs, src.len, dst.len)
  <2>1. nodes(src) \ UndecidedSrc = nodes(src) /\ nodes(dst) \ UndecidedDst = nodes(dst)
    BY <1>4
  <2> QED
    BY <1>5, <2>1 DEF Spent, Script
<1>9. Spent \in Int
  BY <1>1, SpentTyped
<1>10. Spent + 0 + 0 = Spent
  BY <1>9
<1>11. Pairs \in EditMappings(src, root(src), dst, root(dst))
  <2>1. FitAll(Pairs, Pairs) /\ \A p \in Pairs : src.type[p[1]] = dst.type[p[2]]
    BY <1>2 DEF AllFit
  <2> HIDE DEF Pairs, Typed
  <2> QED
    BY <1>1, <1>6, <2>1, MappingsFit
<1> QED
  BY <1>7, <1>8, <1>10, <1>11

(* No edit mapping of the two trees costs less than the table says. *)
LEMMA DistanceIsLeast ==
  ASSUME Inv, Tables, pc = "done",
         NEW M \in EditMappings(src, root(src), dst, root(dst))
  PROVE  /\ M \in SUBSET NodePairs
         /\ tree[<<src.len, dst.len>>] <= Script(M, src.len, dst.len)
<1>1. Typed /\ ~root_node_pair
  BY DEF Inv, Turns
<1>2. M \in SUBSET NodePairs /\ FitAll(M, M)
  BY <1>1, MappingsFit
<1>3. \A q \in KeyRoots : DoneIn(src, dst, tree, q)
  <2>1. Queue /\ ~Filling /\ Left = {}
    BY <1>1 DEF Tables, Queue, Filling
  <2> HIDE DEF Filling, Left, KeyRoots, DoneIn
  <2> QED
    BY <2>1 DEF Queue
<1>4. roots \in KeyRoots
  BY <1>1, KeyRootNodes
<1>5. /\ src.len \in Nat /\ src.len > 0 /\ dst.len \in Nat /\ dst.len > 0
      /\ nodes(src) = 0 .. src.len - 1 /\ nodes(dst) = 0 .. dst.len - 1
      /\ roots[1] = src.len - 1 /\ roots[2] = dst.len - 1
      /\ src.lld[roots[1]] = 0 /\ dst.lld[roots[2]] = 0
  <2>1. /\ IsTree(src) /\ IsTree(dst)
        /\ src.len \in Nat /\ src.len > 0 /\ dst.len \in Nat /\ dst.len > 0
        /\ nodes(src) = 0 .. src.len - 1 /\ nodes(dst) = 0 .. dst.len - 1
    BY <1>1, TableFacts
  <2> QED
    BY <2>1 DEF roots, root, IsTree, TreeShape
<1>6. PICK G : Final(roots, G)
  BY <1>3, <1>4 DEF DoneIn, Final
<1>7. AtMost(G, 0, 0, src.len, dst.len)
  <2>1. /\ src.len \in src.lld[roots[1]] .. roots[1] + 1
        /\ dst.len \in dst.lld[roots[2]] .. roots[2] + 1
    BY <1>5
  <2> HIDE DEF Typed, roots
  <2>2. AtMost(G, src.lld[roots[1]], dst.lld[roots[2]], src.len, dst.len)
    BY <1>1, <1>3, <1>4, <1>6, <2>1, NoScriptCheaper
  <2> QED
    BY <1>5, <2>2
<1>8. tree[<<src.len, dst.len>>] = G[<<src.len, dst.len>>]
  <2>1. src.len - 1 \in 0 .. (roots[1] + 1) - 1 /\ dst.len - 1 \in 0 .. (roots[2] + 1) - 1
        /\ (src.len - 1) + 1 = src.len /\ (dst.len - 1) + 1 = dst.len
    BY <1>5
  <2>2. /\ src.lld[src.len - 1] = src.lld[roots[1]]
        /\ dst.lld[dst.len - 1] = dst.lld[roots[2]]
    BY <1>5
  <2> HIDE DEF roots
  <2>3. \A a \in 0 .. (roots[1] + 1) - 1, b \in 0 .. (roots[2] + 1) - 1 :
          src.lld[a] = src.lld[roots[1]] /\ dst.lld[b] = dst.lld[roots[2]] =>
            tree[<<a + 1, b + 1>>] = G[<<a + 1, b + 1>>]
    BY <1>5, <1>6 DEF Final, Holds
  <2>4. tree[<<(src.len - 1) + 1, (dst.len - 1) + 1>>] = G[<<(src.len - 1) + 1, (dst.len - 1) + 1>>]
    BY <2>1, <2>2, <2>3
  <2> QED
    BY <2>1, <2>4
<1>9. Within(M, 0, src.len, 0, dst.len)
  BY <1>2, <1>5 DEF Within, NodePairs
<1>10. src.len - 0 = src.len /\ dst.len - 0 = dst.len
  BY <1>5
<1>11. G[<<src.len, dst.len>>] <= Script(M, src.len - 0, dst.len - 0)
  BY <1>2, <1>7, <1>9 DEF AtMost
<1> QED
  BY <1>2, <1>8, <1>10, <1>11

(***************************************************************************)
(* For all trees and all distances of labels the answer is an edit mapping *)
(* of the two trees that no other one beats.                               *)
(***************************************************************************)
THEOREM AnswerIsOptimal == Spec => []MappingOptimal
<1>1. Init => Whole /\ Fits
  BY InvInit, TablesInit, AccountsInit, FitsInit DEF Whole
<1>2. Whole /\ Fits /\ [Next]_zs_vars => (Whole /\ Fits)'
  BY WholeStep, FitsStep DEF Whole
<1>3. Whole /\ Fits => MappingOptimal
  <2> SUFFICES ASSUME Inv, Tables, Accounts, Fits, pc = "done"
               PROVE  Pairs \in OptimalMappings(src, root(src), dst, root(dst))
    BY DEF Whole, MappingOptimal
  <2> DEFINE all == EditMappings(src, root(src), dst, root(dst))
             cost(M) == EditCost(src, root(src), dst, root(dst), M)
             S == {cost(M) : M \in all}
  <2>1. Pairs \in all
    BY AnswerCosts
  <2>2. ASSUME NEW M \in all PROVE cost(M) \in Int /\ cost(Pairs) <= cost(M)
    <3>1. Typed
      BY DEF Inv
    <3>2. /\ M \in SUBSET NodePairs
          /\ tree[<<src.len, dst.len>>] <= Script(M, src.len, dst.len)
      BY DistanceIsLeast
    <3>3. Pairs \in SUBSET NodePairs
      BY DEF Pairs, NodePairs
    <3>4. tree[<<src.len, dst.len>>] = Script(Pairs, src.len, dst.len)
      BY AnswerCosts
    <3> HIDE DEF Typed, Pairs
    <3>5. cost(M) = Script(M, src.len, dst.len) /\ cost(M) \in Int
      BY <3>1, <3>2, EditCostIs
    <3>6. cost(Pairs) = Script(Pairs, src.len, dst.len)
      BY <3>1, <3>3, EditCostIs
    <3> QED
      BY <3>2, <3>4, <3>5, <3>6
  <2> HIDE DEF all, cost
  <2>3. Min(S) = cost(Pairs)
    <3>1. cost(Pairs) \in S /\ \A c \in S : c \in Int /\ cost(Pairs) <= c
      BY <2>1, <2>2
    <3> HIDE DEF S
    <3>2. Min(S) \in S /\ \A c \in S : Min(S) <= c
      BY <3>1 DEF Min
    <3> QED
      BY <3>1, <3>2
  <2>4. Pairs \in {M \in all : cost(M) = Min(S)}
    BY <2>1, <2>3
  <2> QED
    BY <2>4 DEF OptimalMappings, all, cost
<1> QED
  BY <1>1, <1>2, <1>3, PTL DEF Spec
=============================================================================
