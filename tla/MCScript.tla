------------------------------ MODULE MCScript ------------------------------
(***************************************************************************)
(* Scripts between all the trees of up to four nodes, and between trees of *)
(* a root and four leaves, for every one-to-one mapping that maps the      *)
(* roots together or leaves the root of dst alone, and some overwritten.   *)
(* Nodes have one type, so that any two of them may be mapped, but for some *)
(* roots; at most one node of dst has another label than those of src, or   *)
(* none; or one of src has none, or one of each.                            *)
(***************************************************************************)
EXTENDS ActionsVec, MCTrees

Labelled(n, lld, label) == TreeOf(n, lld, [x \in 0 .. n - 1 |-> "t"], label)
Plain(n) == {Labelled(n, lld, [x \in 0 .. n - 1 |-> "a"]) : lld \in Shapes(n)}
Renamed(n) ==
  {Labelled(n, lld, [x \in 0 .. n - 1 |-> IF x = y THEN "b" ELSE "a"]) :
     lld \in Shapes(n), y \in 0 .. n - 1}
Bared(n) ==
  {[t EXCEPT !.label[y] = NoLabel] : t \in Plain(n), y \in 0 .. n - 1}

(* the stores of the partial injections f from nodes of t to nodes of u *)
StoreOf(t, u, f) ==
  [src_to_dst |-> [s \in 0 .. t.len |-> IF s \in DOMAIN f THEN f[s] + 1 ELSE 0],
   dst_to_src |-> [d \in 0 .. u.len |->
                     IF \E s \in DOMAIN f : f[s] = d
                     THEN 1 + (CHOOSE s \in DOMAIN f : f[s] = d) ELSE 0]]
Injections(S, T) ==
  UNION {{f \in [D -> T] : \A a, b \in D : f[a] = f[b] => a = b} : D \in SUBSET S}

Rooted(t, u) ==
  {[src |-> t, dst |-> u, mappings |-> StoreOf(t, u, f @@ (root(t) :> root(u)))] :
     f \in Injections(nodes(t) \ {root(t)}, nodes(u) \ {root(u)})}
NewRoot(t, u) ==
  {[src |-> t, dst |-> u, mappings |-> StoreOf(t, u, f)] :
     f \in Injections(nodes(t), nodes(u) \ {root(u)})}

(* a link that took its partner from a node below on either side, and a    *)
(* root of dst that is mapped to an inner node                             *)
Overwritten(t, u) ==
  {[i EXCEPT !.mappings = link(@, s, d)] :
     i \in Rooted(t, u) \cup NewRoot(t, u), s \in nodes(t), d \in nodes(u)}
LostBelow(i) ==
  LET dst_of(s) == get_dst_unchecked(i.mappings, s)
      src_of(d) == get_src_unchecked(i.mappings, d)
      lost_src == {s \in nodes(i.src) : is_src(i.mappings, s) /\ ~has(i.mappings, s, dst_of(s))}
      lost_dst == {d \in nodes(i.dst) : is_dst(i.mappings, d) /\ ~has(i.mappings, src_of(d), d)}
  IN  /\ lost_src \cup lost_dst # {}
      /\ \A s \in lost_src : is_descendant(i.src, s, src_of(dst_of(s)))
      /\ \A d \in lost_dst : is_descendant(i.dst, d, dst_of(src_of(d)))
Uprooted(t, u) ==
  {[src |-> t, dst |-> u, mappings |-> StoreOf(t, u, 0 :> root(u))]}

(* roots of two types, linked all the same *)
Retyped(t) == [t EXCEPT !.type[root(t)] = "r"]

(* four children and their reorderings *)
Flat(n) == {t \in Plain(n) : \A x \in nodes(t) \ {root(t)} : is_leaf(t, x)}

Sizes == 1 .. 4
ScriptInputs ==
  UNION {Rooted(t, u) : t \in UNION {Plain(n) : n \in Sizes},
                        u \in UNION {Plain(n) \cup Renamed(n) : n \in Sizes}}
  \cup UNION {NewRoot(t, u) : t, u \in UNION {Plain(n) : n \in 1 .. 3}}
  \cup UNION {Rooted(t, u) : t, u \in Flat(5)}
  \cup {i \in UNION {Overwritten(t, u) : t, u \in Plain(3)} : LostBelow(i)}
  \cup UNION {Uprooted(t, u) : t, u \in Plain(3)}
  \cup UNION {Rooted(t, Retyped(u)) : t, u \in Plain(3)}
  \cup UNION {Rooted(t, u) \cup Rooted(u, t) \cup Uprooted(t, u) : t \in Plain(3), u \in Bared(3)}
  \cup UNION {Rooted(t, u) : t, u \in Bared(3)}

SmallInputs ==
  UNION {Rooted(t, u) : t \in Plain(3), u \in Plain(3) \cup Renamed(3)}

(***************************************************************************)
(* longest_common_subsequence against its definition: its pairs increase   *)
(* on both sides and are equal, and no longer sequence is in both.         *)
(***************************************************************************)
LcsIsLongest(S) ==
  \A s0, s1 \in S :
    LET tag(q) == [i \in DOMAIN q |-> <<q[i], i>>]
        equal == {p \in ToSet(tag(s0)) \X ToSet(tag(s1)) : p[1][1] = p[2][1]}
        r == longest_common_subsequence(tag(s0), tag(s1), equal)
        longest == Max({Len(q) : q \in AllSubSeqs(s0) \cap AllSubSeqs(s1)})
    IN  /\ Len(r) = longest
        /\ \A i \in DOMAIN r : r[i][1][1] = r[i][2][1]
        /\ \A i, j \in DOMAIN r : i < j => r[i][1][2] < r[j][1][2] /\ r[i][2][2] < r[j][2][2]

ASSUME LcsIsLongest(BoundedSeq({"x", "y"}, 4))
=============================================================================
