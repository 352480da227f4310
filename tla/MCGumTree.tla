----------------------------- MODULE MCGumTree -----------------------------
(***************************************************************************)
(* Both matchers on trees R(u v), where u and v range over terms that      *)
(* share subtrees, and on some small ones.                                 *)
(***************************************************************************)
EXTENDS GreedyBottomUpMatcher, MCTrees

Half == 2
MCLabelDist(l, m) == 1

Pa == Over("P", Leaf("a"))
Pb == Over("P", Leaf("b"))

Terms ==
  { Leaf("a"), Pa,
    Over("P", Pa),                         \* P(P(a))
    Over("M", Pa),                         \* M(P(a))
    Over("M", Pb),                         \* M(P(b))
    Over("M", Beside(Pa, Leaf("b"))),      \* M(P(a) b)
    Over("M", Beside(Pb, Pa)),             \* M(P(b) P(a))
    Over("M", Beside(Pa, Pa)),             \* M(P(a) P(a))
    Over("M", Beside(Over("M", Pa), Leaf("b"))) }   \* M(M(P(a)) b)

(* R(M(M(P(b) P(a) b) P(a)) a): the ambiguous P(a) draws the M of another  *)
(* tree to the outer M, while the recovery prefers the inner one           *)
Nested ==
  Built(Over("R", Beside(Over("M", Beside(Over("M", Beside(Beside(Pb, Pa), Leaf("b"))), Pa)),
                         Leaf("a"))))

GumTreeTrees ==
  {Built(Over("R", Beside(u, v))) : u, v \in Terms}
    \cup {Built(u) : u \in Terms}
    \cup {Nested, Built(Over("M", Over("M", Beside(Pa, Leaf("b")))))}

ASSUME IsomorphicAgrees(GumTreeTrees)
=============================================================================
