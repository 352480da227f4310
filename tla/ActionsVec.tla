----------------------------- MODULE ActionsVec -----------------------------
(***************************************************************************)
(* The meaning of a script (hyper_diff/src/actions/action_vec.rs): a list  *)
(* of trees, src at first, that each action edits at the paths it carries. *)
(* A tree is a term; the first number of a path is an index in the list.   *)
(***************************************************************************)
EXTENDS ScriptGenerator

(* what a panic leaves: no tree at all *)
Panicked == [kids |-> <<>>]

term(arena, w) ==
  LET up[u \in DOMAIN arena] ==
        [compressed |-> arena[u].compressed,
         kids |-> [i \in 1 .. Len(arena[u].kids) |-> up[arena[u].kids[i]]]]
  IN  up[w]

(* the list of trees as the children of a node above them *)
above(roots) == [kids |-> roots]
sub_at(t, p) == FoldLeft(LAMBDA u, i : u.kids[i + 1], t, p)
exists(t, p) ==
  LET ok[n \in 0 .. Len(p)] ==
        n = 0 \/ (ok[n - 1] /\ p[n] < Len(sub_at(t, SubSeq(p, 1, n - 1)).kids))
  IN  ok[Len(p)]
with_sub(t, p, u) ==
  LET up[n \in 0 .. Len(p)] ==
        IF n = Len(p) THEN u
        ELSE [sub_at(t, SubSeq(p, 1, n)) EXCEPT !.kids[p[n + 1] + 1] = up[n + 1]]
  IN  up[0]

(* the children of the node above p change *)
with_kids(t, p, kids) ==
  with_sub(t, Front(p), [sub_at(t, Front(p)) EXCEPT !.kids = kids])
kids_above(t, p) == sub_at(t, Front(p)).kids

(* whether there is a parent for the last number of p, and room for it *)
in_tree(t, p) == Len(p) > 1 /\ exists(t, Front(p))
has_room(t, p) == in_tree(t, p) /\ Last(p) <= Len(kids_above(t, p))

inserted_at(t, p, u) ==
  IF has_room(t, p) THEN with_kids(t, p, InsertAt(kids_above(t, p), Last(p) + 1, u)) ELSE Panicked

(* (variant: the node is left where it was) *)
removed_not(t, p) == t
(* the removal of a whole tree leaves it in the list *)
removed_at(t, p) ==
  IF Len(p) = 1 THEN t ELSE with_kids(t, p, RemoveAt(kids_above(t, p), Last(p) + 1))

leaf_of(c) == [compressed |-> c, kids |-> <<>>]

apply_insert(t, a) ==
  IF Len(a.to) = 1 /\ a.to[1] <= Len(t.kids)
  THEN above([i \in 1 .. Max({a.to[1] + 1, Len(t.kids)}) |->
                IF i = a.to[1] + 1 THEN leaf_of(a.sub) ELSE t.kids[i]])
  ELSE inserted_at(t, a.to, leaf_of(a.sub))

apply_move(t, a) ==
  IF exists(t, a.from)
  THEN inserted_at(removed_at(t, a.from), a.to, sub_at(t, a.from)) ELSE Panicked

apply_update(t, a) ==
  IF exists(t, a.to)
  THEN with_sub(t, a.to, [sub_at(t, a.to) EXCEPT !.compressed.label = a.new]) ELSE Panicked

apply_delete(t, a) ==
  IF in_tree(t, a.to) /\ exists(t, a.to) THEN removed_at(t, a.to) ELSE Panicked

apply_action(t, a) ==
  CASE t = Panicked -> t
    [] a.by = "insert" -> apply_insert(t, a)
    [] a.by \in {"move", "align"} -> apply_move(t, a)
    [] a.by \in {"update", "move_update"} -> apply_update(t, a)
    [] a.by = "delete" -> apply_delete(t, a)

apply_actions(seq) ==
  FoldLeft(apply_action, above(<<term(copy(src), root(src))>>), seq)

(***************************************************************************)
(* Each action is right when it is applied: replaying on src the actions   *)
(* emitted so far gives the mid arena (below its last root), as long as none of them moved a     *)
(* child among its siblings, nor renamed a node that moves.                *)
(***************************************************************************)
ReplayFollowsMid ==
  (\A i \in DOMAIN actions : actions[i].by \notin {"align", "move_update"}) =>
    LET t == apply_actions(actions)
    IN  t # Panicked /\ Last(t.kids) = term(mid_arena, Last(mid_root))

(***************************************************************************)
(* Applying the whole script to src gives dst, as the tests of the         *)
(* generator assert (tests/action_generator2_tests.rs:166).                *)
(***************************************************************************)
ScriptGivesDst ==
  pc = "done" =>
    LET t == apply_actions(actions)
    IN  t # Panicked /\ Last(t.kids) = term(copy(dst), root(dst))
=============================================================================
