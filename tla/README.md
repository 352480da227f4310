# TLA+ models of HyperAST

HyperAST stores the syntax trees of all the versions of a code base as one hash-consed graph,
and compares versions with a lazy variant of GumTree. This directory models its core, the
comparison of two versions from the lazy trees to the edit script, and the concurrent parts around it
that are written by hand: the documents that users share over web sockets, and the fetching of nodes by
the web application. TLC checks the models on small instances; TLAPS proves, for all instances, most of the safety
properties of the two matchers, of the lazy trees, of the script generator, of the list of the shared documents and of the fetching.

Sources are named relative to `src/`; `hd/` stands for `hyper_diff/src/`.

## 1. The system

| Component | State it keeps | Operations | Interacts with |
|---|---|---|---|
| HyperAST stores (`hyper_ast/src/store`) | nodes by id, append-only and deduplicated by hash; labels | insert after lookup, resolve | built by the front ends, read by everything |
| language front ends (`gen/tree-sitter/*`), git processing (`cvs/git`) | stacks of partially built nodes, caches by object id | walk a file or directory, build nodes bottom-up | fill the stores, one commit at a time |
| decompressed trees (`hd/decompressed_tree_store`) | per version: node ids, parents and left-most leaf descendants in post-order | eager construction; lazy: decompress children, a path, a whole subtree | read the stores, read by the matchers, cached by the service |
| mapping stores (`hd/matchers/mapping_store.rs`) | `VecStore`: two vectors, one per direction; `MultiVecStore`: lists both ways | link, cut, queries | written by the matchers, read by the script generator |
| greedy subtree matcher (`hd/.../lazy2_greedy_subtree_matcher.rs`) | two priority lists of subtrees, a multi-mapping, marks | multi-mapping from the top down, selection | first phase of a diff |
| greedy bottom-up matcher (`hd/.../lazy2_greedy_bottom_up_matcher.rs`) | position in the post-order | candidates, similarity, recovery, link | second phase, calls the next one |
| Zhang-Shasha matcher (`hd/matchers/optimal/zs`) | two distance tables, a stack of subtree pairs | fill, walk back | recovery below a pair |
| edit script generator (`hd/actions`) | a mid tree edited step by step, a copy of the mapping, marks | insert, move, rename, delete, align | last phase of a diff |
| diff service (`client/src/{matching,changes,utils}.rs`) | caches of trees and of mappings, shared by requests | full and partial matching | concurrent HTTP requests |
| tracking service (`client/src/track*`) | repositories under one lock, the caches above | follow a node from commit to commit | concurrent HTTP requests |
| shared documents (`client/src/ws.rs`) | documents, one bounded channel per connection, a broadcast channel | connect, sync, create, notify | web sockets, two tasks per connection |
| shared editors (`hyper_app/src/app/{single_repo,crdt_over_ws}.rs`) | a copy of the document, its sync state, the typed text; the list of the documents | greet, reply, reconcile, hydrate, list | other end of the web sockets |
| remote trees of the web app (`hyper_app/src/app/{tree_view,code_aspects}.rs`) | ids waiting, ids pending, nodes fetched, texts and layouts kept | miss, print, lay out, send, answer | HTTP answers in any order; the thread that draws, those that lay texts out and those that answer share locks |

What is hard, by component:

* **Matchers.** They are sequential, but what they do depends on long histories: lists whose cached
  height has to be right, subtrees mapped without looking inside, groups rebuilt from one member,
  tables shared by many pairs, three phases that write one store with different filters, and links
  that overwrite. The properties are about the mapping: one-to-one, made of nodes that may
  be matched, never taken back, and about panics: the code unwraps what it believes
  cannot be absent.
* **Lazy trees.** Operations in any order write parts of one array and must agree with
  the eager construction.
* **Script generator.** The intermediate tree, the mapping copy and the order of moves have to stay
  consistent so that the script turns one version into the other.
* **Services.** Locks are taken per step, one function shares mutable references, bounded
  channels are awaited by their own readers, messages cause replies that must die out, and what one user
  writes must reach the others.
* **Web application.** Answers are assumed to arrive in order; a lock is taken again under itself while others wait for it; two threads
  take two locks in opposite orders; texts with holes are kept.

`PROJECT.json` lists the hazards, each at its line.

## 2. Modules

| Module | Models |
|---|---|
| `PostOrderTree` | a decompressed tree as the matchers see it: post-order numbers, `lld`, parents, types, labels, heights; isomorphism; `IsTree`, what the stores guarantee |
| `MappingStore` | `VecStore` as a record of two functions; 0 is "unmapped", as in the code |
| `SubtreeMatching` | abstract: a mapping that grows by one pair of unmapped isomorphic subtrees at a time |
| `GreedySubtreeMatcher` | the first phase, one action per turn of each loop; implements `SubtreeMatching` |
| `EditMapping` | abstract: the edit mappings of two trees, their costs, the optimal ones |
| `ZsMatcher` | the Zhang-Shasha matcher, row by row and step by step of the walk back |
| `GreedyBottomUpMatcher` | both phases composed: the first one's actions, then the bottom-up loop |
| `LazyArena` | the lazy arena: the three operations that fill it on demand, in any order of calls, against `PostOrderTree` |
| `ScriptGenerator` | the script generator: insertions, moves and renames breadth first, alignment of children, deletions |
| `ActionsVec` | `apply_action`: what a script means; extends `ScriptGenerator` with the properties about replaying it |
| `GumTreeDiff` | the two matchers, then the script generator on the mapping that they leave |
| `SyncSession` | external: what the server and the editors rely on of automerge's sync protocol |
| `SharedDocs` | one shared document: both connection handlers, their tasks, channels and locks, and the editors |
| `DocsDb` | the list of the shared documents: subscription, snapshot, broadcast, and the view of each client |
| `FetchQueue` | frames, missing nodes, printed nodes, requests, answers and failures in the web application |
| `PostOrderTree_proofs`, `GreedySubtreeMatcher_proofs`, `ZsMatcher_proofs`, `GreedyBottomUpMatcher_proofs`, `LazyArena_proofs`, `ScriptGenerator_proofs`, `DocsDb_proofs`, `FetchQueue_proofs` | theorems |
| `MCTrees`, `MC*` | the bounded instances |

How they compose: `GreedyBottomUpMatcher` EXTENDS `GreedySubtreeMatcher` and takes its next-state
relation as one of its own steps, so the second phase starts from every state that the first
one really reaches. It uses `ZsMatcher` only through `EditMapping!OptimalMappings`: the run `zs` shows that
`ZsMatcher` answers one of these, and the bottom-up model accepts any of them. `GumTreeDiff` runs `GreedyBottomUpMatcher` to its end
and hands its final mapping to an INSTANCE of `ScriptGenerator`. `SharedDocs` EXTENDS `SyncSession`. The matchers read
their trees through `PostOrderTree`; that the arena they really read answers the same is what `LazyArena` shows.

### Correspondence with the code

* Positions are the code's post-order ids, from 0. A `Set` of positions in `PriorityTreeList` stands for the
  vectors of one height: inside a level the code compares all pairs, so the order is not observable.
* `pc` names the loop that runs. In `GreedySubtreeMatcher`: `outer`/`inner` are the nested `while` of
  `compute_multimapping` (lines 522 and 524), `filter` and `select` the loops of `filter_mappings`
  (184 and 212); `pop_panic` and `parent_panic` stand for the two unwraps that could fail
  (537 and 304). In `ZsMatcher`: `dist` and `rows` are `compute_dist` and `forest_dist`, `pop`
  and `walk` the loops of `compute_mappings` (290 and 310), `panic` is line 362.
* `FilterUnique` and `SelectPair` link whole subtrees in one step, as
  `add_mapping_recursively` does before anything else runs.
* In `ZsMatcher` a step of `FillRow` fills one row of `forest_dist`; rows and columns keep the code's
  offset by one from the nodes (`tree[x + 1, y + 1]` is the distance of the subtrees of `x` and `y`).
* In `GreedyBottomUpMatcher` a step is one turn of the loop over `iter_df_post`, with the candidate search,
  the recovery and the link it makes; `MapRoots` is the tail of `execute`.

* In `LazyArena`, `pc` is the loop that runs: `seek` is `decompress_to` (line 532 on), `complete` the loop of `complete_subtree` (348),
  `dive` and `rise` are `continuous_aux` and the stack of `decompress_descendants_continuous` (225). `stored` is the version
  in the node store, which no operation reads but through sizes and children, as the code does. The climb of
  `decompress_to` (558-560) has no action: the first decompressed position to the right always holds `x`.
* In `ScriptGenerator` a step is one turn of the loop over `dst` in breadth-first order (`ins_mov_upd`), one move of
  `align_children`, or one step of `del`'s stack. `mid_arena` is a function from ids to parent and children, `actions` the
  emitted script with paths as the code computes them at that moment. `pc` is `err` for the `Err` of line 395,
  `cycle` when a path is asked of a node above itself, which does not return in the code, `no_root` when it is asked of a root that `mid_root`
  does not know, and `no_label` when a rename unwraps a label that is not there (455 and 500).
* In `SharedDocs`, `task[c].pc` is the await where the answering task of a connection stands, `reading` the receiving tasks,
  `members` the vector of senders, `position` the index under which a connection pushed its own. `Join` is `handle_socket`, where both happen under one
  lock; `TakePosition` and `Push` are `handle_socket_automerge_sync`. `Nudge` is the message with no content that makes a task look for
  news. A client's `edit` goes from `typed` to `changed` when the timer reconciles the text, or to `overwritten`
  when a message hydrates the editor first.
* In `DocsDb`, the document of index `i` has id `i`. `Create` and `Broadcast` are two steps (the broadcast is out of the
  lock), so are `Subscribe` and `Snapshot` (an await lies between them).
* In `FetchQueue`, the steps of a frame are those where the drawing thread takes a lock: the store's (`Resolve`) and the pending queue's (`PutWaiting`);
  for a node that is printed, those of `FetchedHyperAST::read` together, while its text is made (`MakeText`, from `show_pp` and `make_pp_code`), and the store's
  again, to find its layout (`LayOut`). The thread that lays it out (`tree_view.rs:2102`) takes the same locks in two steps (`LayoutStep`), and the flush
  between frames in two as well, the other way round: the waiting set (`TakeWaiting`), then the pending ones (`Flush`). An
  answer takes the pending queue (`Answer`), asks for the store (`Write`) and has it (`Extend`). `cached` holds the texts and layouts kept under the
  present size of the store.

### Abstractions

* The order in which the similarity sort puts ambiguous pairs is left open: `SelectPair` and `SkipPair` take any pair.
  All properties of the first phase therefore hold whatever the similarity says. Only the sort's unwraps are kept.
* Equal hashes are taken for equal trees (`isomorphic`). `MCGumTree` has TLC check that the flat
  definition, over ranges of positions, agrees with the recursion of `isomorphic_aux`.
* `t.height` is the stored height minus one, as `PriorityTreeList` indexes it. The grammars count
  spaces as 0 and the store answers 1 for an absent height, hence the two cases of `HeightsLayered`;
  trees with nodes of spaces are among those checked.
* Costs are integers, `UNIT` standing for the code's 1.0, so that label distances are fractions of it.
  `f64::MAX` is a number above every script (`Forbidden`). Rounding of `f64` sums is not modelled; each equality
  of the walk back compares a sum with the result of the same sum, for which rounding plays no part.
* The matchers take the arenas as decompressed: every query of theirs first decompresses what it reads.
* Scripts: the generator works on types and labels only, so nodes of one type and two labels are enough. The paths in the original
  versions, which nothing replays, are left out. `longest_common_subsequence` takes the pairs that its
  closure finds equal; `MCScript` compares it with a definition for all sequences of at most four of two values.
* Documents: a document is the set of the changes it has, one for each client. `SyncSession` is the sync protocol of automerge with an exact answer to "what
  does the other end lack", where automerge uses a Bloom filter. Messages of one web socket are not lost and come in order to
  a client; the client sends each from a task of its own, and the server may receive them in any order. The room in the socket itself is not
  bounded. No client of the repository speaks to `/ws`; for `handle_socket` the editors are taken to be those of the other handler.
* Fetching: nodes are named by the id that the client knows them by, and form a tree. Labels are left out, and with them their own queue and locks, among
  which the same stops are possible, and their part in making texts obsolete. The kinds that are printed do not change during a run (by default
  they are two, `types.rs:121-124`), none is hidden, and everything open is in view. The build is the native one, whose threads are real.

## 3. What is checked

For the runs on trees the large constant is the set of the trees (or, for `script`, of the trees with their mapping);
each run on two trees starts from every ordered pair.

| Run | Instance | States | Shows |
|---|---|---|---|
| `subtree` | all of at most 4 nodes over leaves `a`,`b` and inner `P`; all shapes of 5; spaces; 8 larger ones | 32 051 | see below |
| `subtree_parents` | the same | stops | the finding |
| `zs` | all of at most 3 nodes over `a`,`b`,`P`; of 4 over `a`,`P`,`Q`; all shapes of 5; labelled ones | 74 597 | see below |
| `gumtree` | `R(u v)` with `u`, `v` among 9 terms; the terms; two chosen ones | 453 940 | see below |
| `lazy_arena` | all of at most 6 nodes over `a` and `P`, all of 3 over `a`,`b`,`P`; any calls | 8 752 | see below |
| `lazy_arena_end` | the same | stops | a finding |
| `script` | all pairs of at most 4 nodes and every one-to-one mapping; reorderings of 4 children; overwritten mappings on either side; roots of two types; a node without label on either side | 101 809 | see below |
| `script_replay` | pairs of 3 nodes | stops | a finding |
| `diff_cycle` | four terms that contain each other | stops | a finding |
| `docs` | 2 editing clients, or 3 of which one edits; one may leave; both handlers; channels of 1 | 419 507 | see below |
| `docs_db` | 3 connections, 3 documents, backlog 2 | 260 797 | see below |
| `fetch` | a tree of 4 nodes on 3 levels, of which an inner one may be printed; 2 requests and 1 layout at once, 1 failure | 198 392 | see below |

For the matchers the bounds make the interesting cases happen: groups of two and three equal subtrees on either
side, under one or several parents; groups that fill up on one side only; lists that are one level
apart and lists that are exhausted together; labels and spaces; forests of several trees under both sides
of a pair, walked with more than one pair on the stack; ties among candidates; recovery that maps a node
which the pair's own link then overwrites (`Nested` in `MCGumTree`); subtrees above and below `SIZE_THRESHOLD`.
The recovery threshold is 5 instead of 1000 and `MIN_HEIGHT` is 1 as in the code.

**`subtree`.** `NoPopOnEmpty`: the unwrap of `pop()` never fails although the check before it is commented out.
`FrontierDisjoint`: no subtree of a mapped tree is considered again. `GroupsAreClasses`: the multi-mapping is
made of complete groups, which `filter_mappings` takes for granted. `SymmetricMapping`: the vectors stay
inverse of each other. `NothingOverlooked`: no common subtree that is high enough is missed.
`NoPairLeftOver`: at the end no candidate pair is free on both sides. `RefinesSubtreeMatching`: the
mapping grows as `SubtreeMatching` says. `Termination`.

**`subtree_parents`** (a finding). The comparator of the ambiguous pairs unwraps parents. When one whole version is
isomorphic to two subtrees of the other one that have different parents, the root is in an ambiguous pair and the
unwrap panics. The state after `Sort` in TLC's counterexample has `pc = "parent_panic"`.

**`zs`.** `LedgerBalanced`: at each step of the walk, what
is decided, what the forest table says of the rest of the pair, and what the tree table says of the stacked pairs sum
up to the distance of the trees; it is what the shared table, refilled for each pair, could break.
`MappingOptimal`: the answer is compared with every edit mapping of the two trees. `Termination`: the walk reaches
its end, and not the panic on two types.

**`gumtree`.** `TypesAgree`: below the roots only nodes of one type are mapped, in both directions.
`PairsKept`: the second phase takes no pair back, the pairs of the roots aside. `LostToAncestors`: the unconditional
links of the second phase (lines 227 and 232) do make the store asymmetric; but a node whose partner does not point
back always lies below the node that took the partner (or its partner below the node that it was given up for), and the
taker and what it took are mapped to each other: no chain of losses arises. Whoever reads the store (the script generator)
can rely on no more than that: `SymmetricMapping` does not hold in this phase.

**`lazy_arena`.** In any order of calls: what counts as decompressed is what an eager numbering gives (`KnownIsRight`), although the marker
of a node that is not decompressed is a parent of 0; siblings come together and after their parent
(`SiblingsTogether`), which the walks over siblings take for granted, and count right (`PositionsRight`); a call delivers what it is made
for (`CallsDeliver`) and returns (`CallsReturn`). Two exceptions are in the last one: the assertion below, and
`decompress_to` on a version of a single node, whose root looks not decompressed, and which then runs past the array. A third fault needs no
states: `child()` (428-441) drops a step of the path when `is_empty()`, so it panics on every path that is not empty.

**`lazy_arena_end`** (a finding). The assertion at the end of `decompress_descendants_continuous` takes the node after the cursor for a
proper descendant; the cursor stops at position 0, and when `x` is 1 over the only leaf 0, that node is `x`. It is reached
through `complete_subtree`, as called by the drivers (`gumtree_lazy.rs:71`, `.complete()`) and by `slice_po`, after
`decompress_children` of the parent of `x`.

**`script`.** The mappings that the generator is given are what the matchers leave: `Matched` is `LostToAncestors` and `TypesAgree`
of `gumtree`, said of a finished store, and TLC evaluates it on each input (`InputsAssumption`).
The copy ends equal to `dst` (`MidBecomesDst`) in shape; a node of `dst` that was visited is settled, with its place, its label and its type,
but for the type of the roots, which the matchers link whatever it is (`VisitedSettled`);
a node is moved once at most (`MovesOnce`); deletions take leaves that nothing is mapped to (`DeletesLeaves`); the copy stays a forest
(`MidIsAForest`); with one-to-one mappings that keep the roots apart it neither gives up with `Err` nor turns round, and with one-to-one mappings it panics on a
rename only where they take a label away (`FailsOnlyIfIllMatched`): `x_l.unwrap()` (455 and 500) has no label to take if `x` has none and
its partner has one, which the matchers allow for the roots at least. And the emitted
script, replayed by `ActionsVec`, makes of `src` what the generator made of its copy (`ReplayFollowsMid`). The properties say what
holds, so they name what does not: `align_children` looks for the place of a child before it takes the child out of
the same list, so a child that moves to the right lands one too far (with four children: `a b c d` to `b c a d`; three are not
enough), and the move it emits has the parent's path without that place. And a node of `src` that lost its partner to an ancestor is still taken
for a mapped one: it is not deleted, and when its parent is, it goes with it. `NoSourceLost` excludes this from `DeletesLeaves` and from
`MidBecomesDst`.

**`script_replay`** (a finding). A node that is moved and renamed is renamed first, at the place that it will have only after the move.

**`diff_cycle`** (a finding). When the whole of `src` is found inside `dst`, the bottom-up matcher links the roots over that mapping. The
generator then moves the root under itself: the walk that looks for this stops at the root before it compares. `path` does not
return from such a copy, and `del` would push the root's own child for ever. For the mappings that are caught, the
driver drops the `Err` (`gumtree_lazy.rs:80`, `.ok()`).

**`docs`.** `ComesToRest`: messages, replies, empty replies and nudges die out. `StopsInSync`: when nothing moves any more, each
connected client that ever spoke has the server's document and the server has its changes. Each of its
exceptions was found necessary, TLC gives a run for it: (1) tasks that wait for room in each other's full channels stop for ever, and a
channel of any size can fill; (2) the author of a change that leaves before its last reply leaves a change nobody is told of, because
the others are told only after an empty reply (771-786 of `single_repo.rs`); (3) in
`handle_socket_automerge_sync` two connections can read one position, after which one of them is never nudged (`ws.rs:533`);
(4) a client that only received the first message, to which there is no reply (725-740), is told nothing
until it speaks. Also reached: text typed since the last tick of the timer is overwritten by the next message (`edit` becomes
`overwritten`); and when the receiving task ends, the answering one stays, against "If any one of the tasks exit, abort the other"
(`ws.rs:481`: the `abort` is commented out in that direction).

**`docs_db`.** `MissesOnlyOvertaken`: nothing falls between the subscription and the snapshot. What a client may miss is a
document of a higher id when a lower one is broadcast later, by another connection: `vec.resize` then cuts the list
(`single_repo.rs:843`). Both that, and a receiver that lags (which ends its connection), happen in the run. The backlog is 2 for 50, as the broadcast
of three documents is enough to exceed it.

**`fetch`.** `PendingIsInFlight`: "pending ie. nodes in flight" (`tree_view.rs:118`) holds until an answer overtakes another one; from then on
only the number of sets is right. `ShownIsFetched`: what stays shown is fetched nevertheless, and after failures,
because a frame misses it again. What is printed is fetched level by level, each time the store has grown and the text is made again; after a failure it may
not be, because the text is kept with its hole while the store does not grow, so the property speaks of printed nodes as long as nothing failed.
There are two exceptions (`Stuck`), both of which the run reaches:

* `StuckBehindWriter`: the guard of the store lives to the end of an `if let`, over the drawing of the children and the printing of the node itself, which take
  the store again (`tree_view.rs:1619`); if a waiting writer keeps new readers out, which the standard library leaves open (`writer_first`), the two wait
  for each other. A node just below the root is enough if it is printed, otherwise it takes one level more.
* `StuckInCircle`: the flush keeps the guard of the waiting set while it locks the pending ones (`tree_view.rs:427-432`), and the thread that lays a text out
  locks the pending sets before the waiting one (`read`, 133-145).

Two requests suffice for overtaking, one failure for a set that is lost, one layout for the circle; three levels are what makes the guard nested, and
give a printed node something below it. The root is in the store from the start: a view is made when it has come.

**Fairness.** The matchers, the arena and the generator run on one thread and wait for nothing, hence weak fairness of their steps and
nothing stronger. `gumtree` checks no liveness: the second phase is a `for` over a finite range.
In `docs` each task has weak fairness, users none. Forwarding the oldest message has strong fairness: senders that wait for room
in a channel of tokio get it in turn. In `fetch`, frames have strong fairness (the application repaints at least every 5 s, `app.rs:374`), so have
the timer's flush, the steps of layouts and those of requests, whose locks are free again and again; what a frame or a flush has begun goes on with weak
fairness. The bound on failures is what lets a request succeed in the end.
`docs_db` checks no liveness.

**Deadlock** is checked on trees; a finished matcher or generator stutters (`Terminated`, `Ended`, `GumTreeOver`, `Panicked`). The last three
runs set `CHECK_DEADLOCK FALSE`: users may stop, all documents may be there, and the stops that matter are in the
properties (`Circle`, `StuckBehindWriter`, `StuckInCircle`).

## 4. What is proved

`GreedySubtreeMatcher_proofs` proves, for every set `Trees` of well-formed trees (`TreesAssumption`) and every
natural `MIN_HEIGHT` (`MinHeightAssumption`):

| Theorem | States |
|---|---|
| `Inductive` | `Spec => []IndInv` |
| `TypeCorrect` | `Spec => []TypeOK` |
| `PopNeverPanics` | `Spec => []NoPopOnEmpty` |
| `FrontierStaysDisjoint` | `Spec => []FrontierDisjoint` |
| `GroupsStayClasses` | `Spec => []GroupsAreClasses` |
| `MappingStaysSymmetric` | `Spec => []SymmetricMapping` |

The invariants are not inductive alone; `IndInv` adds:

* `ListOK` and `InnerNotEmpty`: a cached height is the one of the highest listed tree, and neither list is empty in
  the inner loop. Opening the higher list at height `h` leaves its trees of height `h - 1`, by
  `HeightsLayered`, or `h` was the least one and the lists were level: this is why `pop` cannot fail.
* `MultiMappingIsomorphic`: with it the groups are classes of an equivalence (`GroupsAreClasses`),
  isomorphism being reflexive, symmetric and transitive; and linked ranges have the same length.
* `MappedUnderRoots`, `RootsUniqueOrSelected`, `UnvisitedUnmapped`, `AmbiguousPairs`, `NothingMappedYet`: a mapped node lies
  in a multi-mapped tree whose root is mapped; such a root is of a unique pair or was selected. With
  `FrontierDisjoint` the next pair to be linked is then free in all its nodes, so `link` overwrites nothing
  and `SymmetricMapping` is kept.

`PostOrderTree_proofs` has the facts about trees these steps need: subtrees are nested or disjoint, siblings are
disjoint, a descendant is below one child, heights decrease downwards, isomorphic subtrees have the same size and,
descendant by descendant, isomorphic parts.
The proof of a step has one lemma per action, and under it one step per conjunct that the action can disturb.

The same module goes on, from `IndInv`, to what the matcher achieves:

| Theorem | States |
|---|---|
| `Refinement` | `Spec => RefinesSubtreeMatching` |
| `NothingLeftOver` | `Spec => []NoPairLeftOver` |
| `OverlooksNothing` | `Spec => []NothingOverlooked`, if `MIN_HEIGHT > 0` |

* `Refinement`: `LinkIsMap` shows that a step of the filter or of the selection links, position by position, two
  subtrees that are free and isomorphic, which is the abstract step; the other steps change no pair.
* `NothingLeftOver` rests on the invariant `Accounted`: the pairs of a source that was visited, or marked with its
  group, wait in the list or have a mapped side, and what is marked as taken is mapped. A group is marked from one of
  its members, so `GroupsAreClasses` is needed.
* `OverlooksNothing` rests on the invariant `Ahead`: two isomorphic listed nodes are under a multi-mapped tree on one
  side or both under waiting trees. The list with the higher trees is the one opened, and isomorphic nodes have the
  same height (`HeightsAssumption`: they are one node of the store, where the height is kept), so neither node of
  a pair is opened while the other one is deeper in its list; and when they are compared at one level they are
  mates. The last point needs a node to be higher than its descendants, which `SubtreeHeights` proves of heights
  above 0 only: a node that holds only spaces is as high as they are. The code's `MIN_HEIGHT` of 1 excludes those.

`GreedyBottomUpMatcher_proofs` proves of the two matchers together:

| Theorem | States |
|---|---|
| `PairsStayMapped` | `GumTreeSpec => PairsKept` |
| `GumTreeTypeCorrect` | `GumTreeSpec => []GumTreeTypeOK` |
| `TypesStayEqual` | `GumTreeSpec => []TypesAgree` |
| `OnlyAncestorsTake` | `GumTreeSpec => []LostToAncestors` |

`IndInv` holds as long as the first matcher runs, and by the argument of `Refinement` its steps only add pairs. Of
the second one `PairsStayMapped` needs the shape of the store alone (`Kept`): `recovered` and `link` act on nodes that are
unmapped when the candidates are chosen. Nothing is assumed of what the Zhang-Shasha matcher answers.

The others assume that it answers an edit mapping (pairs of two subtrees, one-to-one, keeping types and ancestors), optimal or not.
That it does, for the two trees it is given, is `AnswerIsOptimal` of `ZsMatcher_proofs` below.
`EditMappings` is a recursive function; `EditMappingsRecursion` shows that a function with that recursion exists, and what all its values
have in common follows from a least counterexample, in place of an induction. With `TypesStayEqual` the interesting part is that a recovered pair, an isomorphic one and a
candidate all have one type. For `OnlyAncestorsTake` the invariant `MapInv` says of the store at any moment of the loop that a one-sided link
goes to a node that an ancestor took, by a link that holds both ways (`Returns`), and before the last link that the roots took nothing yet (`Untaken`): the
recovery maps free nodes strictly below a pair, and the link of that pair follows at once, so what it overwrites is below it.

`ZsMatcher_proofs` proves, for every set of trees and every distance of labels that is a natural number (`DistAssumption`; the
code's is between 0 and 1):

| Theorem | States |
|---|---|
| `TypeCorrect` | `Spec => []TypeOK` |
| `NeverPanics` | `Spec => [](pc # "panic")` |
| `LedgerStaysBalanced` | `Spec => []LedgerBalanced` |
| `AnswerIsOptimal` | `Spec => []MappingOptimal` |

The invariant `Table` says of the rows filled so far that they obey the recursion of `forest_dist` (`Filled`): the first row and column count
the nodes, any other cell is explained by a deletion, an insertion or the two last trees, and none costs more than deleting and inserting
everything. `NextRow` shows it of the row that `FillRow` adds, of which each cell depends on the one before it (`RowExists`). So a walk
that is not at its end can go on (`WalkFacts`): in the first row it inserts, in the first column it deletes, and
where only the two last trees explain a cell their roots have one type, or the cell would cost too much. `Turns` is there for the first
walk, which takes the table as `compute_dist` left it: the last pair of key roots is that of the roots (`KeyRootPairs`).

For `LedgerStaysBalanced` the forest table has to be known as a solution of its recursion, not only as one whose cells some choice
explains (`Solves`, `Current`), and a recursion has one solution (`SameSolution`). A pair of the stack lies inside a pair of key roots that
`compute_dist` has done (`KeyRootOf`, `Queue`, `DoneIn`), so the forest that is filled for it again ends in the cost that the table of trees
holds (`RefillSame`). `Stack` says that the subtrees of the stack and the forests still walked share no node and have no mapped one. With it
each step of the walk moves a cost from what is owed to what is spent (`Accounts`; sums over sets of pairs: `TreeSum`, `LedgerSums`).

`AnswerIsOptimal` speaks of all edit mappings of two trees, a set that `EditMapping` collects by recursion; `EditMappingsAre` says which pairs of
nodes it holds. No mapping of two forests costs less than their cell (`NoScriptCheaper`): of all cells and mappings of which this is false,
take the smallest forests. Either the mapping leaves out one of the two last nodes (`LeaveOutSrc`, `LeaveOutDst`), or it maps
them to each other, and then the rest of it lies in front of the two last trees or inside of both (`LastNodes`, `MapBoth`). The answer is one of these mappings by
the invariant `Fits`: mapped pairs keep order and ancestors, with each other and with all pairs that the stack and the walk
may still map. What it costs the ledger says, at the end when nothing is owed (`AnswerCosts`).

`LazyArena_proofs` proves, for every set `Trees` of well-formed trees, any hash-consing of their subtrees and any order of calls:

| Theorem | States |
|---|---|
| `TypeCorrect` | `Spec => []TypeOK`: no cursor leaves the arrays |
| `KnownStaysRight` | `Spec => []KnownIsRight` |
| `SiblingsStayTogether` | `Spec => []SiblingsTogether` |
| `CallsAlwaysDeliver` | `Spec => CallsDeliver` |
| `PositionsStayRight` | `Spec => []PositionsRight` |

Two things make it hold. The writers know the ids of the children of a node but not their places: they compute these from sizes, from
right to left. `IsoChildren` and `PreviousChild` show that the places found are those of the version, whichever
of the equal subtrees the id stands for. And the descent works on a stack of half-used child lists, whose invariant is `on`: each entry is
a node on the way down from where the descent began, and what remains of it are the ids of exactly its children before the one on
the way (`Push`, `Pop` and `Following` keep it, one for each of `Dive`, `Unstack`, `NextSibling`). `IndInv` adds:

* `Calls`: `complete_subtree` has decompressed what lies from its cursor to its argument.
* `Descent`: the same of the descent, from its cursor to where it began, and `on`.
* `Together`: siblings are decompressed together, but for those inside the range of a running descent, which
  `EndContinuousInd` closes.

`PositionsStayRight` follows from these: between calls the siblings of a known node are all known, and each one but the first starts
where the one before it ends (`RankFacts`), so the walk takes as many steps as the node has earlier siblings (`WalkIsRank`).

On the way `UnstackInd` and `NextSiblingInd` show that the assertions on the stack never fail. Those of
`decompress_children` and that each call returns are left to TLC; the one at the end of the descent does fail (`lazy_arena_end`).

`DocsDb_proofs` proves, for any set of connections, any backlog and any number of documents (`DbAssumption`):

| Theorem | States |
|---|---|
| `TypeCorrect` | `Spec => []TypeOK` |
| `NothingFallsBetween` | `Spec => []MissesOnlyOvertaken` |

The property speaks of clients at rest only. The invariant says it of every moment: the ids that wait in a receiver, behind
those on the wire, behind a `Reset` perhaps, end the sequence of all broadcast ids (`Queues`); each id before them is listed, or
covered by that `Reset`, or was overtaken by a lower one (`Told`); ids are broadcast once (`IdsOnce`). It is the same for a
connection that is not yet live, since it subscribed first; that order is what the proof of `FollowingSnapshot` rests on.
That a client lists nothing before its `Reset` is needed too, or the `Reset` could cut.

`ScriptGenerator_proofs` proves, for every pair of trees and every store that the matchers may leave (`InputsAssumption`):

| Theorem | States |
|---|---|
| `InvAlways` | `Spec => []Inv`, the inductive invariant |
| `TypeCorrect` | `Spec => []TypeOK` |
| `AlwaysAForest` | `Spec => []MidIsAForest` |
| `StaysSettled` | `Spec => []VisitedSettled` |
| `MovedOnce` | `Spec => []MovesOnce` |
| `NoFailureOneToOne` | `Spec => []FailsOnlyIfIllMatched` |
| `DeletedWhenEmpty` | `Spec => DeletesLeaves` |
| `BecomesDst` | `Spec => []MidBecomesDst` |

The operators come first: sorting a finite set by an order (the breadth-first order among others), filtering, inserting into and
removing from a list, the walk up a copy whose parents may form any graph (`ClimbUp`, `TopUp`: a recursive function is an arbitrary
value until one shows that a function with that recursion exists), and the table of `longest_common_subsequence`, which is filled diagonal by diagonal
(`TableExists`): its result pairs only what the comparison takes for equal (`LcsEqual`). Of `Inv`:

* `Settled`, with `InOrder`: the partner of a visited node, and that of each node in order, is at its place (`AtPlace`), under the partner of the parent, which is
  visited. It is kept since a turn moves the partner of a node that is not visited, and by `Extends` two nodes have one partner only where
  an ancestor took it: then the ancestor, visited before, points at it and the other node does not. This is where `Matched` is needed in full. With the
  weaker statement that a one-sided link goes to an ancestor's partner, whatever that partner's own link, TLC found two losses in a row
  that unsettle a node; the matchers do not produce them, and `LostToAncestors` now says so.
* `Chain`: so the walk up from the partner of a visited node meets the partners of its ancestors and nothing else. A node that is not visited is not
  among them if mappings are one-to-one, which is why `Move` fails only on others (`NoFailureOneToOne`), and a move makes no cycle.
* `Untouched`: a node of `src` has its contents until it is the partner of a visited node; hence its type, which is never edited alone, and its label, which
  is why a rename has no label to take only where the mapping takes one away (`NoFailedRename`).
* `ToMove` and `MovedToPlace`: what waits for `align_children` was never moved, is at its place, and its own turn, which is to come, finds it there.
* `Roots`: the first turn is that of the root of `dst`, and it leaves its partner as the last root, which `del` starts from.
* `Stacked`: each entry of `del`'s stack is the child that the entry below went down to last, all those before it are kept, and no node is
  twice on the stack. A deletion removes exactly that place from the list (`DeleteFacts`), so stepping the cursor back is right.

There is one lemma per action; the four kinds of turn have their common part in `TurnKeepsInv`, and show that they are turns (`InsertTurn`,
`InsertRootTurn`, `InPlaceTurn`, `MoveTurn`).

`BecomesDst` says that the generator does what it is for, and needs two more invariants on top of `Inv`:

* `Listing`: under the partner of a visited node, the partners of those children that are in order come in the order of the children,
  unless `align_children` moved one of them there; and a child that is at its place is in order, or waits for `align_children`. For a turn
  this is what `find_pos` is for: it counts up to the partner of the last sibling before `x` that is in order, so that the node
  lands after the partners of all siblings on its left and before those on its right (`PlaceFound`, `Arranged`). At the end of a turn the
  marks of the children are cleared and those in the longest common subsequence are marked: its pairs rise on both sides (`LcsOrdered`,
  by induction on the diagonals of the table), so they are in one order; a pair left out waits for `align_children` (`EndTurnOrder`).
* `Swept`: each node of `dst` is still ahead of `del`, because its partner is on the stack or below a child that a cursor has yet
  to reach, or everything under its partner is kept. `DelKeep` leaves a node only when its cursor is at the end; `Delete` shortens a list and
  steps the cursor back, which leaves what is ahead as it was, and takes the partner of nobody.

At the end nothing is ahead: under each partner there are only kept nodes, which are partners of nodes (`KeptIsPartner`, the only use of
`NoSourceLost`), at their places by `Settled`, hence the partners of the children (`SameChildren`); two lists with the same elements, each once,
in the same order are one list (`SameSequence`). What is said of replaying the script stays with TLC.

`FetchQueue_proofs` proves, for any tree of nodes, any number of requests and failures:

| Theorem | States |
|---|---|
| `TypeCorrect` | `Spec => []TypeOK` |
| `PendingStaysInFlight` | `Spec => []PendingIsInFlight` |

As long as no answer overtook another one, the pending sets are, in order, the sets of the requests that hold no answer yet; afterwards
there are still as many. The proof follows each request through the positions of the queue (`Moved` when one before it leaves) and needs that a request that
took its set out of the queue is not counted any more, though it has not written yet. The waiting set grows from three places, the drawing of a node, its
text and its layout, each of which looks in the pending sets first (`WaitingGrows`); a set taken by the flush is counted with it until it is sent.

Checked by TLC only:

* liveness (`Termination`, `CallsReturn`, `ComesToRest`, `ShownIsFetched`), and `StopsInSync`, which speaks of steps that are enabled: both are out of the prover's reach;
* `ReplayFollowsMid` of the script generator: it relates two trees through the paths in the script;
* `TypeOK` of the shared documents.

## 5. Plan

What exists, in the order in which it was built: the trees, the stores and the first matcher with its proofs; Zhang-Shasha; the second
matcher; the lazy arena; the script generator and the whole diff; the shared documents, their list with its
proofs; the fetching of nodes.

What could follow, in this order:

1. A proof that no message is lost in `SharedDocs` without the exceptions.
2. `HiddenMatching`: `link_if_both_unmapped`, whose guard says the opposite of its name, and the experimental matcher that calls it.
3. The caches of the diff service under concurrent requests, and the tracking loop.

## 6. Not modelled

* **Front ends, git processing, positions, bloom filters, the analysis of Java references**, that is most of the lines of the repository:
  sequential conversions driven by grammars or by the contents of a repository, with one thread and one pass.
  A model of them would be either the program again or nothing.
* **The user interface, REST handlers, scripting and the benchmarks**: interfaces whose logic is in the libraries they call.
* **Older matchers, `mapping/compress.rs`, `script_generator.rs`, the matcher with hidden subtrees**: kept for comparison, run by no service.
* **The caches of the diff service.** `bi_sharding` (`client/src/utils.rs:116`) makes mutable references to the shards of a map without their locks. Two
  requests then write one arena at once, which is undefined behaviour; `LazyArena` is about one request at a time.
* **The tracking loop**: its steps are the matchers, on the versions that a history gives it.
* **In `SharedDocs`**: a binary frame that overtakes the first text frame reaches a `panic!` (`ws.rs:318-326`); sharing a text
  that exists already; a client whose socket is full.
* **In `DocsDb`**: clients that leave or come back.
* **In `FetchQueue`**: an answer without text (`code_aspects.rs:515`), which panics with the lock held and ends the program; labels, with
  their locks (the flush and the layouts take theirs in opposite orders too, and the drawing reads their store under its own guard); the choice of the printed and hidden kinds; what
  is scrolled out of view; that ids of 64 bits are cut to 32.

`PROJECT.json` has the reason for each component.
