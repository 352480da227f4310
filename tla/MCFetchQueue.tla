---------------------------- MODULE MCFetchQueue ----------------------------
(* A root with two children, one of which may be printed and has a child; *)
(* one failure and at most two requests at once.                          *)
EXTENDS FetchQueue
CONSTANTS r, a, b, c
PreOrder == <<r, a, c, b>>
ThreeLevels == [id \in {r, a, b, c} |->
                  CASE id = r -> <<>> [] id = c -> <<r, a>> [] OTHER -> <<r>>]
=============================================================================
