---------------------------- MODULE EditMapping ----------------------------
(***************************************************************************)
(* The edit mappings of two trees and what they cost                       *)
(* (hyper_diff/src/matchers/optimal/zs/mod.rs): a mapping keeps the order  *)
(* and the ancestors of the nodes; nodes left out are deleted or inserted, *)
(* mapped ones are updated.  Costs are integers, UNIT standing for 1.0.    *)
(***************************************************************************)
EXTENDS PostOrderTree, FiniteSetsExt

CONSTANTS
  UNIT,             \* get_deletion_cost and get_insertion_cost
  LabelDist(_, _)   \* normalised 3-gram distance of two different labels

ASSUME UnitAssumption == UNIT \in Nat \ {0}

(* f64::MAX: more than any script that maps nothing *)
Forbidden(t, u) == UNIT * (t.len + u.len + 1)

(* (variant: another type is as good as another label) *)
get_update_cost_untyped(t, x, u, y) ==
  IF t.label[x] = NoLabel \/ u.label[y] = NoLabel THEN UNIT
  ELSE IF t.label[x] = u.label[y] THEN 0
  ELSE LabelDist(t.label[x], u.label[y])

get_update_cost(t, x, u, y) ==
  IF t.type[x] # u.type[y] THEN Forbidden(t, u)
  ELSE IF t.label[x] = NoLabel \/ u.label[y] = NoLabel THEN UNIT
  ELSE IF t.label[x] = u.label[y] THEN 0
  ELSE LabelDist(t.label[x], u.label[y])

-----------------------------------------------------------------------------
(* q and p, a later pair in t, keep the order and the ancestors *)
Compatible(t, u, q, p) ==
  /\ q[2] < p[2]
  /\ is_descendant(t, q[1], p[1]) <=> is_descendant(u, q[2], p[2])

(* the edit mappings of the subtrees of x and y, node by node of x's *)
EditMappings(t, x, u, y) ==
  LET mates(i) == {<<i, j>> : j \in {k \in Subtree(u, y) : t.type[i] = u.type[k]}}
      upto[i \in t.lld[x] - 1 .. x] ==
        IF i < t.lld[x] THEN {{}}
        ELSE LET Ms == upto[i - 1]
                 more == {Mp \in Ms \X mates(i) : \A q \in Mp[1] : Compatible(t, u, q, Mp[2])}
             IN  Ms \cup {Mp[1] \cup {Mp[2]} : Mp \in more}
  IN  upto[x]

UpdateCost(t, u, M) == MapThenSumSet(LAMBDA p : get_update_cost(t, p[1], u, p[2]), M)

EditCost(t, x, u, y, M) ==
  UpdateCost(t, u, M) + UNIT * (Cardinality(Subtree(t, x)) + Cardinality(Subtree(u, y))
                                 - 2 * Cardinality(M))

(* what a matcher called optimal has to answer *)
OptimalMappings(t, x, u, y) ==
  LET all == EditMappings(t, x, u, y)
      least == Min({EditCost(t, x, u, y, M) : M \in all})
  IN  {M \in all : EditCost(t, x, u, y, M) = least}
=============================================================================
