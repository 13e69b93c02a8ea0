------------------------------ MODULE MCHarts ------------------------------
(* Harts, for TLC. *)
EXTENDS Harts
=============================================================================
