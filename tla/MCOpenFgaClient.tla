-------------------------- MODULE MCOpenFgaClient --------------------------
(* Small instances of OpenFgaClient for TLC. *)
EXTENDS OpenFgaClient, TLC

CONSTANTS c1, c2, i1, i2, i3

TwoClients == {c1, c2}
ThreeIds == {i1, i2, i3}

Symmetry == Permutations(Clients) \cup Permutations(Ids)
=============================================================================
