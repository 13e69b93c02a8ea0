---------------------------- MODULE SchedClaims ----------------------------
(***************************************************************************)
(* What comments in the kernel and the applications say of process         *)
(* management and the code does not do.  TLC refutes each of them.         *)
(***************************************************************************)
EXTENDS Sched, FiniteSets

(***************************************************************************)
(* sched.c:180-197 says what schedule() does when no process is ready: it  *)
(* shuts down, or panics because some processes are unfinished.  An exit   *)
(* with an empty ready queue and waiting processes, none of them the       *)
(* parent, takes the NULL head of the ready queue instead.                 *)
(***************************************************************************)
NoNullDispatch == machine # "null_ready"

(* The processes asleep in a P operation on s. *)
AsleepIn(s) ==
  {p \in Range(waitQ) : sem[p] = s /\ a0[ctx[p]] = SYS_user_sem_P}

Debt(s) == IF l[s] < 0 THEN -l[s] ELSE 0

(***************************************************************************)
(* syscall.c:90 says V puts the next process into the ready queue.  Then   *)
(* no more processes sleep on a semaphore than its value is below zero.    *)
(* wake_wait_queue wakes only when the value has come back to zero or      *)
(* more, so of two sleepers the first V wakes none.                        *)
(***************************************************************************)
VWakesNext ==
  InUser => \A s \in 1 .. len : Cardinality(AsleepIn(s)) <= Debt(s)
=============================================================================
