------------------------------- MODULE Queue -------------------------------
(***************************************************************************)
(* A queue of control blocks: a head pointer and the chain of queue_next   *)
(* fields, as the sequence of the control blocks on the chain.             *)
(***************************************************************************)
EXTENDS Integers, Sequences, Functions

(* Insertion at the end does nothing when the process is queued already. *)
Enqueue(q, p) == IF p \in Range(q) THEN q ELSE Append(q, p)

(* The chain without its i-th element. *)
Unlink(q, i) == SubSeq(q, 1, i - 1) \o SubSeq(q, i + 1, Len(q))
=============================================================================
