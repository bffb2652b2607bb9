------------------------------ MODULE MCKgniSm ------------------------------
(* KgniSm for two nodes. *)
EXTENDS KgniSm, TLC

CONSTANTS a, b

TwoNodes == {a, b}
Swap == Permutations(TwoNodes)
BoundOnly == {"bound"}
OpenToo == {"bound", "open"}
=============================================================================
