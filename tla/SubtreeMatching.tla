--------------------------- MODULE SubtreeMatching ---------------------------
(***************************************************************************)
(* What a top-down matcher promises, without saying how it looks for the   *)
(* pairs: starting from nothing, each step maps one whole subtree of src   *)
(* onto one isomorphic subtree of dst, node by node, when none of their    *)
(* nodes is mapped yet.  The mapping is therefore one-to-one, closed under *)
(* descendants, made of isomorphic nodes only, and never takes a pair back.*)
(***************************************************************************)
EXTENDS PostOrderTree

CONSTANT Trees
VARIABLES src, dst, pairs

Zip(s, d) == {<<x, x - s + d>> : x \in Subtree(src, s)}

Unmapped(s, d) ==
  \A p \in pairs : p[1] \notin Subtree(src, s) /\ p[2] \notin Subtree(dst, d)

Init == src \in Trees /\ dst \in Trees /\ pairs = {}

Map(s, d) ==
  /\ isomorphic(src, s, dst, d)
  /\ Unmapped(s, d)
  /\ pairs' = pairs \cup Zip(s, d)
  /\ UNCHANGED <<src, dst>>

Next == \E s \in nodes(src), d \in nodes(dst) : Map(s, d)

Spec == Init /\ [][Next]_<<src, dst, pairs>>
=============================================================================
