---------------------------- MODULE MCBatchCheck ----------------------------
(* Small instances of BatchCheck for TLC. *)
EXTENDS BatchCheck, TLC

CONSTANTS i1, i2, i3, k1, k2

ThreeIds == {i1, i2, i3}
TwoChecks == {k1, k2}
Symmetry == Permutations(ThreeIds) \cup Permutations(TwoChecks)
=============================================================================
