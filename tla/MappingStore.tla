---------------------------- MODULE MappingStore ----------------------------
(***************************************************************************)
(* VecStore, the one-to-one mapping store of hyper_diff                    *)
(* (matchers/mapping_store.rs): two vectors that hold 0 for an unmapped    *)
(* position and the partner's position plus one otherwise.  Nothing in the *)
(* store makes the two vectors inverse of each other; link overwrites      *)
(* whatever it finds.                                                      *)
(***************************************************************************)
EXTENDS Integers

(* topit: one slot more than the arena's length on each side *)
(* (variant: exact sizes, as the multi-mapping store does) *)
topit_exact(left, right) ==
  [src_to_dst |-> [i \in 0 .. left - 1 |-> 0], dst_to_src |-> [i \in 0 .. right - 1 |-> 0]]

topit(left, right) ==
  [src_to_dst |-> [i \in 0 .. left |-> 0], dst_to_src |-> [i \in 0 .. right |-> 0]]

Stores(left, right) ==
  [src_to_dst : [0 .. left -> 0 .. right], dst_to_src : [0 .. right -> 0 .. left]]

is_src(m, s) == m.src_to_dst[s] # 0
is_dst(m, d) == m.dst_to_src[d] # 0
get_dst_unchecked(m, s) == m.src_to_dst[s] - 1
get_src_unchecked(m, d) == m.dst_to_src[d] - 1

has(m, s, d) == m.src_to_dst[s] = d + 1 /\ m.dst_to_src[d] = s + 1

link(m, s, d) ==
  [src_to_dst |-> [m.src_to_dst EXCEPT ![s] = d + 1],
   dst_to_src |-> [m.dst_to_src EXCEPT ![d] = s + 1]]

(***************************************************************************)
(* Linking position by position two ranges of n positions that end at s    *)
(* and d: the zip of two subtrees' descendants followed by their roots.    *)
(***************************************************************************)
(* (variant: the first descendant is missed) *)
link_ranges_short(m, s, d, n) ==
  [src_to_dst |-> [x \in DOMAIN m.src_to_dst |->
                     IF x \in s - n + 1 .. s THEN x - s + d + 1 ELSE m.src_to_dst[x]],
   dst_to_src |-> [y \in DOMAIN m.dst_to_src |->
                     IF y \in d - n + 1 .. d THEN y - d + s + 1 ELSE m.dst_to_src[y]]]

link_ranges(m, s, d, n) ==
  [src_to_dst |-> [x \in DOMAIN m.src_to_dst |->
                     IF x \in s - n .. s THEN x - s + d + 1 ELSE m.src_to_dst[x]],
   dst_to_src |-> [y \in DOMAIN m.dst_to_src |->
                     IF y \in d - n .. d THEN y - d + s + 1 ELSE m.dst_to_src[y]]]

(* The two vectors are inverse of each other: the store is one-to-one. *)
OneToOne(m, srcs, dsts) ==
  /\ \A s \in srcs : is_src(m, s) => has(m, s, get_dst_unchecked(m, s))
  /\ \A d \in dsts : is_dst(m, d) => has(m, get_src_unchecked(m, d), d)
=============================================================================
