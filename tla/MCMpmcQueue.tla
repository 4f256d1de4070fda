---------------------------- MODULE MCMpmcQueue ----------------------------
(* Small instances of MpmcQueue for TLC. *)
EXTENDS MpmcQueue, TLC

CONSTANTS s1, s2, r1, r2

TwoSenders == {s1, s2}
TwoReceivers == {r1, r2}

Symmetry == Permutations(Senders) \cup Permutations(Receivers)
=============================================================================
