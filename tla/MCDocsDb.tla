------------------------------ MODULE MCDocsDb ------------------------------
(* Three connections and three documents; receivers that lag more than two *)
(* messages, of which three may be broadcast.                              *)
EXTENDS DocsDb, TLC
CONSTANTS c1, c2, c3
Perms == Permutations({c1, c2, c3})
=============================================================================
