---------------------------- MODULE MCCheckCache ----------------------------
(* Small instances of CheckCache for TLC. *)
EXTENDS CheckCache, TLC

CONSTANTS r1, r2

TwoRequests == {r1, r2}
Symmetry == Permutations(TwoRequests)
=============================================================================
