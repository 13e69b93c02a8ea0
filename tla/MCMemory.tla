------------------------------ MODULE MCMemory ------------------------------
(* Memory, under the discipline, for TLC: the constants are in the cfg.    *)
EXTENDS Memory
=============================================================================
