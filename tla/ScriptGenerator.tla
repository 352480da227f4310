--------------------------- MODULE ScriptGenerator ---------------------------
(***************************************************************************)
(* The edit script of two matched versions                                 *)
(* (hyper_diff/src/actions/script_generator2.rs).  It edits a copy of src, *)
(* the mid arena, into dst: the nodes of dst, breadth first, are inserted, *)
(* moved or renamed under the partner of their parent, then what has no    *)
(* partner is deleted in post-order.  Each edit is also emitted as an      *)
(* action whose paths are read in the mid arena of that moment.            *)
(***************************************************************************)
EXTENDS PostOrderTree, MappingStore, SequencesExt

CONSTANT Inputs   \* records of two arenas and the store that matched them

VARIABLES
  src, dst, ori_mappings,
  mid_arena, mid_root,   \* the copy, and its roots
  cpy_mappings,          \* the mappings, with the inserted nodes
  dst_in_order,          \* nodes of dst whose partner is at its place
  unvisited,             \* rest of iter_bf on dst
  to_move,               \* rest of the children that align_children moves
  stack,                 \* of del: nodes, with the child to go down to
  actions,
  pc   \* "ins_mov_upd", "del", "done", or how the generation went wrong

(***************************************************************************)
(* What the matchers leave: a store of the two arenas, in which a node of  *)
(* dst may be left by its partner, but only for a node above it, and which *)
(* maps nodes of one type to each other, the roots aside                   *)
(* (LostToAncestors and TypesAgree of GreedyBottomUpMatcher).              *)
(***************************************************************************)
Matched(t, u, m) ==
  /\ IsTree(t) /\ IsTree(u)
  /\ m \in Stores(t.len, u.len) /\ ~is_src(m, t.len) /\ ~is_dst(m, u.len)
  /\ \A y \in nodes(u) : is_dst(m, y) =>
       LET x == get_src_unchecked(m, y)
           taker == get_dst_unchecked(m, x)
       IN  has(m, x, taker) /\ (taker = y \/ is_descendant(u, y, taker))
  /\ \A s \in nodes(t) \ {root(t)}, d \in nodes(u) \ {root(u)} :
       has(m, s, d) => t.type[s] = u.type[d]

ASSUME InputsAssumption == \A i \in Inputs : Matched(i.src, i.dst, i.mappings)

given == <<src, dst, ori_mappings>>
mid == <<mid_arena, mid_root, cpy_mappings>>
cursors == <<dst_in_order, unvisited, to_move>>
vars == <<given, mid, cursors, stack, actions, pc>>

Failures == {"err", "cycle", "no_root", "no_label"}
-----------------------------------------------------------------------------
(* the elements of S in the order before *)
sorted(S, before) ==
  CHOOSE q \in [1 .. Cardinality(S) -> S] :
    \A i, j \in DOMAIN q : i < j => <<q[i], q[j]>> \in before
increasing(S) == sorted(S, {p \in S \X S : p[1] < p[2]})

(* what is left of seq when only the elements of S are *)
only(seq, S) ==
  LET places == increasing({i \in DOMAIN seq : seq[i] \in S})
  IN  [i \in DOMAIN places |-> seq[places[i]]]

ChildSeq(t, x) == increasing(children(t, x))
depth(t, x) == Cardinality(Ancestors(t, x))
shallower(t) ==
  {p \in nodes(t) \X nodes(t) :
     \/ depth(t, p[1]) < depth(t, p[2])
     \/ depth(t, p[1]) = depth(t, p[2]) /\ p[1] < p[2]}
iter_bf(t) == sorted(nodes(t), shallower(t))

(* what the store says of a node, its children aside *)
compressed(t, x) == [type |-> t.type[x], label |-> t.label[x]]

copy(t) ==
  [x \in nodes(t) |->
     [parent |-> IF x = root(t) THEN x ELSE parent(t, x),
      kids |-> ChildSeq(t, x), compressed |-> compressed(t, x)]]

index_of(seq, e) == SelectInSeq(seq, LAMBDA f : f = e) - 1
rank(arena, u) == index_of(arena[arena[u].parent].kids, u)

path(arena, z) ==
  LET up[u \in DOMAIN arena] ==
        IF arena[u].parent = u THEN <<index_of(mid_root, u)>>
        ELSE Append(up[arena[u].parent], rank(arena, u))
  IN  up[z]

(* z and the nodes above it, the mid root apart *)
climb(arena, z) ==
  LET up[u \in DOMAIN arena] ==
        IF arena[u].parent = u THEN {} ELSE {u} \cup up[arena[u].parent]
  IN  up[z]
top(arena, z) ==
  LET up[u \in DOMAIN arena] ==
        IF arena[u].parent = u THEN u ELSE up[arena[u].parent]
  IN  up[z]

insert_kid(arena, z, k, w) ==
  [arena EXCEPT ![z].kids = InsertAt(@, k + 1, w), ![w].parent = z]
(* (variant: the old parent keeps the node) *)
remove_kid_not(arena, w) == arena
remove_kid(arena, w) ==
  [arena EXCEPT ![arena[w].parent].kids = RemoveAt(@, rank(arena, w) + 1)]

(* (variant: the left-most sibling that is in order) *)
find_pos_first(arena, x) ==
  LET lefts == {c \in children(dst, parent(dst, x)) : c < x /\ c \in dst_in_order}
  IN  IF lefts = {} THEN 0
      ELSE rank(arena, get_src_unchecked(cpy_mappings, Min(lefts))) + 1

(* after the partner of the last sibling on the left that is in order *)
find_pos(arena, x) ==
  LET lefts == {c \in children(dst, parent(dst, x)) : c < x /\ c \in dst_in_order}
  IN  IF lefts = {} THEN 0
      ELSE rank(arena, get_src_unchecked(cpy_mappings, Max(lefts))) + 1

(***************************************************************************)
(* utils/sequence_algorithms.rs: the table of the lengths, then the walk   *)
(* back from its last cell.  The result is a sequence of pairs out of those *)
(* that the comparison takes for equal.                                    *)
(***************************************************************************)
longest_common_subsequence(s0, s1, equal) ==
  LET cells == (0 .. Len(s0)) \X (0 .. Len(s1))
      lens[c \in cells] ==
        LET i == c[1] j == c[2] IN
        IF i = 0 \/ j = 0 THEN 0
        ELSE IF <<s0[i], s1[j]>> \in equal THEN lens[<<i - 1, j - 1>>] + 1
        ELSE IF lens[<<i, j - 1>>] > lens[<<i - 1, j>>] THEN lens[<<i, j - 1>>]
        ELSE lens[<<i - 1, j>>]
      indexes[c \in cells] ==
        LET i == c[1] j == c[2] IN
        IF i = 0 \/ j = 0 THEN <<>>
        ELSE IF lens[c] = lens[<<i - 1, j>>] THEN indexes[<<i - 1, j>>]
        ELSE IF lens[c] = lens[<<i, j - 1>>] THEN indexes[<<i, j - 1>>]
        ELSE Append(indexes[<<i - 1, j - 1>>], <<s0[i], s1[j]>>)
  IN  indexes[<<Len(s0), Len(s1)>>]
-----------------------------------------------------------------------------
(* init_cpy, the copy of the mappings aside *)
new ==
  /\ mid_arena = copy(src) /\ mid_root = <<root(src)>>
  /\ dst_in_order = {} /\ unvisited = iter_bf(dst) /\ to_move = <<>>
  /\ stack = <<>> /\ actions = <<>>

Init ==
  /\ \E i \in Inputs : src = i.src /\ dst = i.dst /\ ori_mappings = i.mappings
  /\ new
  /\ cpy_mappings = ori_mappings
  /\ pc = "ins_mov_upd"

emit(acts) == actions' = actions \o acts

(* align_children: the children of w that are partners of children of x,   *)
(* in both orders, and those of them out of the common subsequence         *)
kept_src(arena, ms, w, x) ==
  only(arena[w].kids,
       {c \in ToSet(arena[w].kids) :
          is_src(ms, c) /\ get_dst_unchecked(ms, c) \in children(dst, x)})
kept_dst(arena, ms, w, x) ==
  increasing({c \in children(dst, x) :
                is_dst(ms, c) /\ get_src_unchecked(ms, c) \in ToSet(arena[w].kids)})
lcs(ms, s1, s2) ==
  longest_common_subsequence(s1, s2, {p \in ToSet(s1) \X ToSet(s2) : has(ms, p[1], p[2])})
(* (variant: a partner elsewhere than under x counts) *)
misplaced_anywhere(kids, s1, s2, common) ==
  only(kids, {a \in ToSet(kids) \cap nodes(src) :
                LET b == get_dst_unchecked(ori_mappings, a)
                IN  /\ is_src(ori_mappings, a) /\ b # root(dst) /\ has(ori_mappings, a, b)
                    /\ <<a, b>> \notin ToSet(common)})
misplaced(kids, s1, s2, common) ==
  only(s1, {a \in ToSet(s1) :
              LET b == get_dst_unchecked(ori_mappings, a)
              IN  /\ has(ori_mappings, a, b) /\ b \in ToSet(s2)
                  /\ <<a, b>> \notin ToSet(common)})

(* the end of a turn: x is in order, its children are looked at *)
in_order_after(x, common) ==
  ((dst_in_order \cup {x}) \ children(dst, x)) \cup {m[2] : m \in ToSet(common)}

EndTurn(arena, ms, w, x) ==
  /\ mid_arena' = arena /\ cpy_mappings' = ms
  /\ \E s1 \in {kept_src(arena, ms, w, x)}, s2 \in {kept_dst(arena, ms, w, x)} :
       \E common \in {lcs(ms, s1, s2)} :
         /\ dst_in_order' = in_order_after(x, common)
         /\ to_move' = misplaced(arena[w].kids, s1, s2, common)
  /\ unvisited' = Tail(unvisited)
  /\ UNCHANGED <<given, stack, pc>>

Visiting(x) ==
  pc = "ins_mov_upd" /\ to_move = <<>> /\ unvisited # <<>> /\ x = Head(unvisited)
-----------------------------------------------------------------------------
(* make_inserted_node: one slot more on each side of the store, then link *)
slot_added(v) ==
  [i \in 0 .. Cardinality(DOMAIN v) |-> IF i \in DOMAIN v THEN v[i] ELSE 0]
with_inserted(w, x) ==
  link([src_to_dst |-> slot_added(cpy_mappings.src_to_dst),
        dst_to_src |-> slot_added(cpy_mappings.dst_to_src)], w, x)

(* (variant: it skips an id) *)
next_id_skipping == Cardinality(DOMAIN mid_arena) + 1
next_id == Cardinality(DOMAIN mid_arena)

InsertAct(w, x, to) ==
  [by |-> "insert", node |-> w, to |-> to, sub |-> compressed(dst, x)]
inserted(w, x, p) ==
  [u \in DOMAIN mid_arena \cup {w} |->
     IF u = w THEN [parent |-> p, kids |-> <<>>, compressed |-> compressed(dst, x)]
     ELSE mid_arena[u]]

Insert(x) ==
  /\ Visiting(x) /\ ~is_dst(cpy_mappings, x) /\ x # root(dst)
  /\ LET z == get_src_unchecked(cpy_mappings, parent(dst, x))
         w == next_id
         k == find_pos(mid_arena, x)
     IN  /\ emit(<<InsertAct(w, x, Append(path(mid_arena, z), k))>>)
         /\ EndTurn(insert_kid(inserted(w, x, z), z, k, w), with_inserted(w, x), w, x)
  /\ UNCHANGED mid_root

(* the root of dst without partner is a second root *)
InsertRoot(x) ==
  /\ Visiting(x) /\ ~is_dst(cpy_mappings, x) /\ x = root(dst)
  /\ emit(<<InsertAct(next_id, x, <<1>>)>>)
  /\ mid_root' = Append(mid_root, next_id)
  /\ EndTurn(inserted(next_id, x, next_id), with_inserted(next_id, x), next_id, x)
-----------------------------------------------------------------------------
(* the parent that a node should have, and that it has, or NoNode *)
wanted_parent(x) ==
  IF x = root(dst) THEN NoNode ELSE get_src_unchecked(cpy_mappings, parent(dst, x))
mid_parent(w) == IF mid_arena[w].parent = w THEN NoNode ELSE mid_arena[w].parent

renames(w, x) == mid_arena[w].compressed.label # dst.label[x]
(* a rename unwraps the label of x *)
unlabelled(w, x) == renames(w, x) /\ dst.label[x] = NoLabel
(* (variant: the mid arena is not told) *)
renamed_not(arena, w, x) == arena
renamed(arena, w, x) ==
  IF renames(w, x) THEN [arena EXCEPT ![w].compressed = compressed(dst, x)] ELSE arena
UpdateAct(by, w, x, to) == [by |-> by, node |-> w, to |-> to, new |-> dst.label[x]]

Mapped(x, w) ==
  /\ Visiting(x) /\ is_dst(cpy_mappings, x)
  /\ w = get_src_unchecked(cpy_mappings, x)

InPlace(x, w) ==
  /\ Mapped(x, w) /\ wanted_parent(x) = mid_parent(w) /\ ~unlabelled(w, x)
  /\ emit(IF renames(w, x) THEN <<UpdateAct("update", w, x, path(mid_arena, w))>> ELSE <<>>)
  /\ EndTurn(renamed(mid_arena, w, x), cpy_mappings, w, x)
  /\ UNCHANGED mid_root

(* (variant: the path of the new parent is read before the removal) *)
target_before(without, z, k) == Append(path(mid_arena, z), k)
(* the place and its path do not count the moved node *)
target(without, z, k) == Append(path(without, z), k)

(* A renamed node is updated first, at the place it will be moved to. *)
Move(x, w) ==
  LET z == wanted_parent(x)
      without == IF mid_parent(w) = NoNode THEN mid_arena ELSE remove_kid(mid_arena, w)
      k == find_pos(without, x)
      to == target(without, z, k)
  IN  /\ Mapped(x, w) /\ z # mid_parent(w) /\ z # NoNode
      /\ w \notin climb(mid_arena, z) /\ w # top(mid_arena, z) /\ ~unlabelled(w, x)
      /\ emit((IF renames(w, x) THEN <<UpdateAct("move_update", w, x, to)>> ELSE <<>>)
                \o <<[by |-> "move", node |-> w, from |-> path(mid_arena, w), to |-> to]>>)
      /\ EndTurn(insert_kid(renamed(without, w, x), z, k, w), cpy_mappings, w, x)
      /\ UNCHANGED mid_root

(***************************************************************************)
(* A move under a descendant gives up with Err, if the climb meets w; it   *)
(* leaves before it looks at the mid root, and then w becomes its own      *)
(* ancestor: path() or del() does not return.  A node without wanted       *)
(* parent becomes a root that mid_root does not know, and path() panics.   *)
(***************************************************************************)
(* (variant: it climbs from the moved node) *)
gives_up_on_itself(w, z) == w \in climb(mid_arena, w)
gives_up(w, z) == w \in climb(mid_arena, z)

FailMove(x, w) ==
  LET z == wanted_parent(x)
  IN  /\ Mapped(x, w) /\ z # mid_parent(w)
      /\ \/ z # NoNode /\ gives_up(w, z) /\ pc' = "err"
         \/ z # NoNode /\ w = top(mid_arena, z) /\ ~unlabelled(w, x) /\ pc' = "cycle"
         \/ z = NoNode /\ ~unlabelled(w, x) /\ pc' = "no_root"
      /\ UNCHANGED <<given, mid, cursors, stack, actions>>

(* A node cannot lose its label: the rename panics, where x stays as well  *)
(* as where it moves, once the walk up has let the move pass.              *)
FailRename(x, w) ==
  LET z == wanted_parent(x)
  IN  /\ Mapped(x, w) /\ unlabelled(w, x)
      /\ z \notin {NoNode, mid_parent(w)} => ~gives_up(w, z)
      /\ pc' = "no_label"
      /\ UNCHANGED <<given, mid, cursors, stack, actions>>

(***************************************************************************)
(* A child out of the common subsequence moves among its siblings.  Its    *)
(* place is looked for before it is removed, and is not in the path that   *)
(* is emitted, which is the parent's.                                      *)
(***************************************************************************)
AlignMove ==
  /\ pc = "ins_mov_upd" /\ to_move # <<>>
  /\ LET c == Head(to_move)
         w == mid_arena[c].parent
         d == get_dst_unchecked(ori_mappings, c)
         k == find_pos(mid_arena, d)
         without == remove_kid(mid_arena, c)
     IN  /\ emit(<<[by |-> "align", node |-> c,
                    from |-> path(mid_arena, c), to |-> path(mid_arena, w)]>>)
         /\ mid_arena' =
              insert_kid(without, w, IF k < Len(without[w].kids) THEN k ELSE Len(without[w].kids), c)
         /\ dst_in_order' = dst_in_order \cup {d}
  /\ to_move' = Tail(to_move)
  /\ UNCHANGED <<given, mid_root, cpy_mappings, unvisited, stack, pc>>
-----------------------------------------------------------------------------
StartDel ==
  /\ pc = "ins_mov_upd" /\ unvisited = <<>> /\ to_move = <<>>
  /\ pc' = "del"
  /\ stack' = <<[id |-> Last(mid_root), idx |-> 0]>>
  /\ UNCHANGED <<given, mid, cursors, actions>>

kids_of(e) == mid_arena[e.id].kids

moved_on(s, by) == Front(s) \o <<[Last(s) EXCEPT !.idx = @ + by]>>
(* (variant: a node kept counts as one child less too) *)
after_keep_less(s) == IF Len(s) = 1 THEN <<>> ELSE moved_on(Front(s), -1)
after_keep(s) == Front(s)

DelDown ==
  /\ pc = "del" /\ stack # <<>> /\ Last(stack).idx < Len(kids_of(Last(stack)))
  /\ stack' = Append(moved_on(stack, 1), [id |-> kids_of(Last(stack))[Last(stack).idx + 1], idx |-> 0])
  /\ UNCHANGED <<given, mid, cursors, actions, pc>>

(* (variant: on the way down) *)
children_done_early(e) == e.idx = 0
children_done(e) == e.idx = Len(kids_of(e))

DelKeep ==
  /\ pc = "del" /\ stack # <<>> /\ children_done(Last(stack))
  /\ is_src(cpy_mappings, Last(stack).id)
  /\ stack' = after_keep(stack)
  /\ UNCHANGED <<given, mid, cursors, actions, pc>>

(* the parent, next on the stack, has one child less *)
Delete ==
  /\ pc = "del" /\ stack # <<>> /\ children_done(Last(stack))
  /\ LET w == Last(stack).id
     IN  /\ ~is_src(cpy_mappings, w)
         /\ emit(<<[by |-> "delete", node |-> w, to |-> path(mid_arena, w)]>>)
         /\ mid_arena' = remove_kid(mid_arena, w)
         /\ stack' = moved_on(Front(stack), -1)
  /\ UNCHANGED <<given, mid_root, cpy_mappings, cursors, pc>>

EndDel ==
  /\ pc = "del" /\ stack = <<>>
  /\ pc' = "done"
  /\ UNCHANGED <<given, mid, cursors, stack, actions>>
-----------------------------------------------------------------------------
Visit(x) ==
  \/ Insert(x) \/ InsertRoot(x)
  \/ \E w \in DOMAIN mid_arena :
       InPlace(x, w) \/ Move(x, w) \/ FailMove(x, w) \/ FailRename(x, w)

Next ==
  \/ \E x \in nodes(dst) : Visit(x)
  \/ AlignMove \/ StartDel \/ DelDown \/ DelKeep \/ Delete \/ EndDel

Stopped == pc \in Failures \cup {"done"} /\ UNCHANGED vars

Spec == Init /\ [][Next \/ Stopped]_vars /\ WF_vars(Next)
-----------------------------------------------------------------------------
Ids == DOMAIN mid_arena

(***************************************************************************)
(* A move never makes a node its own ancestor: the walk up from the new    *)
(* parent is there to find the moved node on it                            *)
(* (script_generator2.rs:394).                                             *)
(***************************************************************************)
NoCycle == pc # "cycle"

(* Every variable holds values of its kind; a cursor of del stays in range. *)
TypeOK ==
  /\ Ids = 0 .. Cardinality(Ids) - 1
  /\ \A w \in Ids : mid_arena[w].parent \in Ids /\ ToSet(mid_arena[w].kids) \subseteq Ids
  /\ ToSet(mid_root) \subseteq Ids
  /\ dst_in_order \subseteq nodes(dst) /\ ToSet(unvisited) \subseteq nodes(dst)
  /\ ToSet(to_move) \subseteq nodes(src)
  /\ \A e \in ToSet(stack) : e.id \in Ids /\ e.idx \in 0 .. Len(kids_of(e))
  /\ pc \in {"ins_mov_upd", "del", "done"} \cup Failures

(***************************************************************************)
(* The two directions of the mid arena agree while it is edited: a node is *)
(* once in the list of its parent and in no other list.  Only what del     *)
(* took out is in none.                                                    *)
(***************************************************************************)
MidIsAForest ==
  \A w \in Ids : LET p == mid_arena[w].parent IN
    /\ IsInjective(mid_arena[w].kids)
    /\ \A c \in ToSet(mid_arena[w].kids) : mid_arena[c].parent = w
    /\ p # w /\ w \notin ToSet(mid_arena[p].kids) =>
         pc \in {"del", "done"} /\ ~is_src(cpy_mappings, w)

(***************************************************************************)
(* The partner of a visited node keeps its place, under the partner of the *)
(* parent, and its label, whatever is inserted, moved and deleted later.   *)
(* Its type is right too, but for the roots: the matchers link roots of    *)
(* any types, and the generator looks at labels only.                      *)
(***************************************************************************)
VisitedSettled ==
  \A x \in nodes(dst) \ ToSet(unvisited) :
    LET w == get_src_unchecked(cpy_mappings, x)
    IN  /\ has(cpy_mappings, w, x)
        /\ mid_arena[w].compressed.label = dst.label[x]
        /\ x # root(dst) /\ w # root(src) => mid_arena[w].compressed.type = dst.type[x]
        /\ mid_parent(w) = wanted_parent(x)

(***************************************************************************)
(* With one-to-one mappings that keep the roots apart from the rest, no    *)
(* move goes under one of its descendants and every root is known: the     *)
(* generation neither gives up nor turns round.  Then it can only panic on *)
(* a label: with one-to-one mappings it does so only if they map a node    *)
(* with a label to one without, as the matchers may do with the roots,     *)
(* which they link whatever their types.                                   *)
(***************************************************************************)
RootsApart ==
  is_dst(ori_mappings, root(dst)) => get_src_unchecked(ori_mappings, root(dst)) = root(src)
LabelsKept ==
  \A s \in nodes(src), d \in nodes(dst) :
    has(ori_mappings, s, d) /\ dst.label[d] = NoLabel => src.label[s] = NoLabel
FailsOnlyIfIllMatched ==
  OneToOne(ori_mappings, nodes(src), nodes(dst)) =>
    /\ RootsApart => pc \notin Failures \ {"no_label"}
    /\ LabelsKept => pc # "no_label"

(***************************************************************************)
(* A node leaves the mid arena when nothing is left below it: the Delete   *)
(* action takes a whole subtree with it.  A node of src that lost its       *)
(* partner is still taken for a mapped one, and would be lost so.          *)
(***************************************************************************)
NoSourceLost == \A s \in nodes(src) :
  is_src(ori_mappings, s) => has(ori_mappings, s, get_dst_unchecked(ori_mappings, s))
DeletesLeaves ==
  [][NoSourceLost => \A w \in Ids : LET p == mid_arena[w].parent IN
       w \in ToSet(mid_arena[p].kids) /\ (\A q \in Ids : w \notin ToSet(mid_arena'[q].kids))
         => mid_arena[w].kids = <<>>]_vars

(***************************************************************************)
(* At the end the children of each node are the partners of the children   *)
(* of its own partner, and no other (but nodes of src that lost their      *)
(* partner): the mid arena is dst.  In the same                            *)
(* order too, save under a node whose children align_children moved.       *)
(***************************************************************************)
aligned(w) == \E i \in DOMAIN actions :
  actions[i].by = "align" /\ mid_arena[actions[i].node].parent = w
MidBecomesDst ==
  pc = "done" /\ NoSourceLost => \A x \in nodes(dst) :
    LET w == get_src_unchecked(cpy_mappings, x)
        partners == [i \in 1 .. Cardinality(children(dst, x)) |->
                       get_src_unchecked(cpy_mappings, ChildSeq(dst, x)[i])]
    IN  /\ ToSet(mid_arena[w].kids) = ToSet(partners)
        /\ ~aligned(w) => mid_arena[w].kids = partners

(* The script is short: it moves a node of src at most once. *)
MovesOnce ==
  \A i, j \in DOMAIN actions :
    {actions[i].by, actions[j].by} \subseteq {"move", "align"} /\ actions[i].node = actions[j].node
      => i = j

(* The generation ends. *)
Termination == <>(pc \in Failures \cup {"done"})
=============================================================================
