------------------------------- MODULE MCDiff -------------------------------
(***************************************************************************)
(* Diffs between a few terms, one of which is the other one, wrapped.      *)
(***************************************************************************)
EXTENDS GumTreeDiff, MCTrees

Half == 2
MCLabelDist(l, m) == 1

Pa == Over("P", Leaf("a"))
DiffTrees ==
  {Built(u) : u \in {Pa, Over("R", Pa), Over("R", Beside(Pa, Leaf("b"))), Over("M", Over("R", Pa))}}
=============================================================================
