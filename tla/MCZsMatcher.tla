---------------------------- MODULE MCZsMatcher ----------------------------
(***************************************************************************)
(* The Zhang-Shasha matcher on every pair of trees of at most four nodes,  *)
(* of all the shapes of five, and of larger ones with labels.              *)
(***************************************************************************)
EXTENDS ZsMatcher, MCTrees

(* two thirds of the 3-grams of x and y differ *)
Thirds == 3
MCLabelDist(l, m) == 2

(* P(P(a:x) P(a:y)), its labels swapped, and P(a:y Q(P(a:x))) *)
Labelled ==
  { Tree(<<0, 0, 2, 2, 0>>, <<"a", "P", "a", "P", "P">>,
         <<"x", NoLabel, "y", NoLabel, NoLabel>>),
    Tree(<<0, 0, 2, 2, 0>>, <<"a", "P", "a", "P", "P">>,
         <<"y", NoLabel, "x", NoLabel, NoLabel>>),
    Tree(<<0, 1, 1, 1, 0>>, <<"a", "a", "P", "Q", "P">>,
         <<"y", "x", NoLabel, NoLabel, NoLabel>>) }

ZsTrees ==
  {t : t \in UNION {AllTrees(n, {"a", "b"}, {"P"}) : n \in 1 .. 3}
               \cup AllTrees(4, {"a"}, {"P", "Q"})
               \cup AllTrees(5, {"a"}, {"P"})
               \cup Labelled}
=============================================================================
