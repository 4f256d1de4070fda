--------------------------- MODULE MCPostgresBoot ---------------------------
(* A small instance of PostgresBoot for TLC. *)
EXTENDS PostgresBoot
=============================================================================
