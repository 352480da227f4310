----------------------------- MODULE GumTreeDiff -----------------------------
(***************************************************************************)
(* A whole diff (hyper_diff/src/algorithms/gumtree_lazy.rs): the two       *)
(* matchers, then the script generator on the mappings that they leave,    *)
(* which need not be one-to-one: the links of the bottom-up matcher are    *)
(* unconditional.  An Err of the generator is dropped: no script.          *)
(***************************************************************************)
EXTENDS GreedyBottomUpMatcher

VARIABLES
  mid_arena, mid_root, cpy_mappings, dst_in_order, unvisited_dst, to_move,
  stack, actions,
  script_pc   \* "waiting", then the pc of the generator

Script == INSTANCE ScriptGenerator
  WITH Inputs <- {}, ori_mappings <- mappings, unvisited <- unvisited_dst, pc <- script_pc

script_vars ==
  <<mid_arena, mid_root, cpy_mappings, dst_in_order, unvisited_dst, to_move, stack, actions,
    script_pc>>
matcher_vars == gumtree_vars

DiffInit ==
  /\ GumTreeInit
  /\ Script!new /\ cpy_mappings = mappings /\ script_pc = "waiting"

MatchStep == GumTreeNext /\ UNCHANGED script_vars

StartScript ==
  /\ phase = "matched" /\ script_pc = "waiting"
  /\ cpy_mappings' = mappings /\ script_pc' = "ins_mov_upd"
  /\ UNCHANGED <<matcher_vars, mid_arena, mid_root, dst_in_order, unvisited_dst, to_move, stack,
                 actions>>

ScriptStep == script_pc # "waiting" /\ Script!Next /\ UNCHANGED matcher_vars

DiffNext == MatchStep \/ StartScript \/ ScriptStep

DiffOver ==
  /\ script_pc \in Script!Failures \cup {"done"} \/ pc \in {"pop_panic", "parent_panic"}
  /\ UNCHANGED <<matcher_vars, script_vars>>

DiffSpec == DiffInit /\ [][DiffNext \/ DiffOver]_<<matcher_vars, script_vars>>
-----------------------------------------------------------------------------
(***************************************************************************)
(* A move never makes a node its own ancestor: the generator walks up from *)
(* the new parent, and gives up if it meets the moved node                 *)
(* (script_generator2.rs:394).                                             *)
(***************************************************************************)
MovesUnderOthers == Script!NoCycle
=============================================================================
