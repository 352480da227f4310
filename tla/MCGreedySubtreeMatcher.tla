----------------------- MODULE MCGreedySubtreeMatcher -----------------------
(***************************************************************************)
(* The subtree matcher on every tree of at most four nodes and on larger   *)
(* ones with groups of equal subtrees.                                     *)
(***************************************************************************)
EXTENDS GreedySubtreeMatcher, MCTrees

SmallTrees ==
  UNION {AllTrees(n, {"a", "b"}, {"P"}) : n \in 1 .. 4}
    \cup AllTrees(5, {"a"}, {"P"})
    \cup UNION {AllTrees(n, {"a", Spaces}, {"P"}) : n \in 2 .. 3}

(* P(P(a) P(a) P(b)), P(P(b) P(a) P(a)), P(P(P(a)) P(P(a)) P(a)), and      *)
(* P(P(P(a) P(a)) P(a)): groups of two and three under different parents;  *)
(* P(P(a:x) P(a:y)), P(P(a:y) P(a:y)) and the like: subtrees told apart by *)
(* labels only                                                             *)
LargerTrees ==
  { Unlabelled(<<0, 0, 2, 2, 4, 4, 0>>, <<"a", "P", "a", "P", "b", "P", "P">>),
    Unlabelled(<<0, 0, 2, 2, 4, 4, 0>>, <<"b", "P", "a", "P", "a", "P", "P">>),
    Unlabelled(<<0, 0, 0, 3, 3, 3, 6, 6, 0>>,
               <<"a", "P", "P", "a", "P", "P", "a", "P", "P">>),
    Unlabelled(<<0, 0, 2, 2, 0, 5, 5, 0>>,
               <<"a", "P", "a", "P", "P", "a", "P", "P">>),
    Tree(<<0, 0, 2, 2, 0>>, <<"a", "P", "a", "P", "P">>,
         <<"x", NoLabel, "y", NoLabel, NoLabel>>),
    Tree(<<0, 0, 2, 2, 0>>, <<"a", "P", "a", "P", "P">>,
         <<"y", NoLabel, "y", NoLabel, NoLabel>>),
    Tree(<<0, 0, 2, 2, 0>>, <<"a", "P", "a", "P", "P">>,
         <<"y", NoLabel, "x", NoLabel, NoLabel>>),
    Tree(<<0, 0, 2, 2, 0>>, <<"a", "P", "a", "P", "P">>,
         <<"x", NoLabel, NoLabel, NoLabel, NoLabel>>) }

MatcherTrees == {t : t \in SmallTrees \cup LargerTrees}
=============================================================================
