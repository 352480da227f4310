----------------------------- MODULE MCLazyArena -----------------------------
(***************************************************************************)
(* The lazy arena on every shape of at most six nodes, with leaves and    *)
(* inner nodes of one type each, so that equal subtrees share their ids.   *)
(***************************************************************************)
EXTENDS LazyArena, MCTrees

ArenaTrees ==
  UNION {AllTrees(n, {"a"}, {"P"}) : n \in 1 .. 6}
    \cup AllTrees(3, {"a", "b"}, {"P"})
=============================================================================
