------------------------------ MODULE SchedInv ------------------------------
(***************************************************************************)
(* The inductive invariant behind the safety properties of Sched.          *)
(*                                                                         *)
(* Consistent is stated over explicit values, because a handler passes     *)
(* through a state in which the previous process is already queued or gone *)
(* and the next one not yet chosen: R and W are the control blocks in the  *)
(* ready and wait queues, C holds the running one or is empty.             *)
(***************************************************************************)
EXTENDS Sched

Active == {"READY", "RUNNING", "BLOCKED"}

(* The queues and the running process are disjoint, with the right status. *)
QueuesOK(st, R, W, C) ==
  /\ R \subseteq PCB /\ W \subseteq PCB /\ C \subseteq PCB
  /\ R \intersect W = {} /\ C \intersect (R \union W) = {}
  /\ \A p \in R : st[p] = "READY"
  /\ \A p \in W : st[p] = "BLOCKED"

(* Live control blocks have their own pid, context, and untouched stack copy. *)
Identity(pd, cx, L) ==
  /\ \A p \in Slot \union L : pd[p] \in Slot /\ cx[p] \in Slot
  /\ \A p, q \in L : p # q => pd[p] # pd[q] /\ cx[p] # cx[q]
  /\ \A p \in L : pd[Copy(cx[p])] = NULL
  /\ \A p \in L : pd[pd[p]] = pd[p]

(* Nothing refers to a FREE entry, whose pid, context and copy are fresh. *)
FreeFresh(st, pd, pa, cx, L) ==
  \A i \in Slot : st[i] = "FREE" =>
    /\ pd[i] = i /\ cx[i] = i /\ pa[i] = NULL
    /\ i \notin L
    /\ pd[Copy(i)] = NULL
    /\ \A q \in PCB : (q # i => pd[q] # i) /\ pa[q] # i
    /\ \A p \in L : cx[p] # i

(* The entries of procs[] account for the live processes. *)
Accounted(st, pd, pa, L) ==
  /\ \A p \in L : st[pd[p]] \notin {"FREE", "ZOMBIE"}
  /\ \A i \in Slot : st[i] \in Active => \E p \in L : pd[p] = pd[i]
  /\ \A i \in Slot : st[i] \in Active =>
       \A p \in L : pd[p] = pd[i] => pa[p] = pa[i]
  /\ \A i \in Slot : st[i] = "USED" => pa[i] = NULL

(* Parent pointers lead to control blocks that have been in use. *)
Parents(pd, pa, L) ==
  /\ \A q \in PCB : pa[q] # NULL => pd[pa[q]] \in Slot
  /\ \A p \in L : pa[p] # NULL => pd[pa[p]] # pd[p]

Consistent(st, pd, pa, cx, R, W, C) ==
  LET L == R \union W \union C
  IN /\ QueuesOK(st, R, W, C)
     /\ Identity(pd, cx, L)
     /\ FreeFresh(st, pd, pa, cx, L)
     /\ Accounted(st, pd, pa, L)
     /\ Parents(pd, pa, L)

(* A process blocked in wait() has a live child that will wake it. *)
Awaited(pd, pa, cx, reg, W, L) ==
  \A p \in W : reg[cx[p]] = SYS_user_wait =>
    \E c \in L : c # p /\ pa[c] # NULL /\ pd[pa[c]] = pd[p]

(***************************************************************************)
(* The inductive invariant of Sched: the kernel is Consistent whenever a   *)
(* process runs in user mode, and what it leaves when the machine stops    *)
(* is what the properties say of a stopped machine (process.c, sched.c).   *)
(***************************************************************************)
IInv ==
  /\ TypeOK
  /\ IsInjective(readyQ) /\ IsInjective(waitQ)
  /\ QueuesOK(status, Range(readyQ), Range(waitQ), {})
  /\ machine # "assert"
  /\ ShutdownOnlyWhenDone
  /\ InUser =>
       /\ Consistent(status, pid, parent, ctx,
                     Range(readyQ), Range(waitQ), {current})
       /\ Awaited(pid, parent, ctx, a0, Range(waitQ),
                  Range(readyQ) \union Range(waitQ) \union {current})
=============================================================================
