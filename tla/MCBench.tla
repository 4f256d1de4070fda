------------------------------ MODULE MCBench ------------------------------
(* Small instances of Bench for TLC. *)
EXTENDS Bench

CONSTANTS c1, c2, c3

ThreeCallers == {c1, c2, c3}
Halves == {-3, 0, 1, 2, 5, 9}
=============================================================================
