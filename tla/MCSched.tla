------------------------------ MODULE MCSched ------------------------------
(* Sched with its inductive invariant, for TLC: the constants are in the   *)
(* cfg.                                                                    *)
EXTENDS SchedInv
=============================================================================
