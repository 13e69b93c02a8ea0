------------------------------- MODULE Sched -------------------------------
(***************************************************************************)
(* Process management of the kernel on its one hart (NCPU = 1): the        *)
(* process pool and fork, exec, wait, exit (kernel/process.c,              *)
(* kernel/syscall.c), the ready and wait queues and schedule()             *)
(* (kernel/sched.c), the semaphores of lab3 (kernel/syscall.c) and the     *)
(* round-robin timer (kernel/strap.c).                                     *)
(*                                                                         *)
(* A trap runs in S mode with interrupts off until sret, so one handler,   *)
(* the schedule() at its end included, is one action.  What user code may  *)
(* do between two traps is any system call.                                *)
(*                                                                         *)
(* Control blocks.  schedule(1) resumes a waiting parent through `t`, a    *)
(* copy of its control block in schedule()'s own frame, that is on the     *)
(* kernel stack of the process that is exiting.  A control block is        *)
(* therefore an entry 0..NPROC-1 of procs[], or the copy Copy(k) on the    *)
(* k-th kernel stack.  The pages that alloc_process gives to entry k (the  *)
(* kernel stack, the trapframe, the page table) are named k: ctx[p] is the *)
(* set of pages that control block p runs on.                              *)
(***************************************************************************)
EXTENDS Queue

CONSTANTS
  NPROC,    \* entries of procs[] (32 in process.h)
  TIME_SLICE_LEN,   \* ticks in a time slice (2 in rrsched)
  MaxSem,   \* bound on the semaphores made (the array l has room for 99)
  MaxVal    \* bound on the value V operations take a semaphore to

ASSUME NPROCAssumption == NPROC \in Nat \ {0}
ASSUME SliceAssumption == TIME_SLICE_LEN \in Nat \ {0}
ASSUME MaxSemAssumption == MaxSem \in Nat
ASSUME MaxValAssumption == MaxVal \in Nat

NULL == -1
Slot == 0 .. NPROC - 1
PCB == 0 .. 2 * NPROC - 1
Copy(k) == NPROC + k
Sem == 1 .. MaxSem

Status == {"FREE", "READY", "RUNNING", "BLOCKED", "ZOMBIE", "USED"}

(***************************************************************************)
(* "user": some process runs in U mode.  The others are ends of the run:   *)
(* shutdown(0), panic(), a failed assert(), and the two NULL dereferences  *)
(* in S mode (of ready_queue_head, of the file to execute), which          *)
(* smode_trap_handler answers with a panic.                                *)
(***************************************************************************)
Machine == {"user", "shutdown", "panic", "assert", "null_ready", "null_file"}

SYS_user_yield == 69
SYS_user_wait == 94
SYS_user_sem_P == 102

VARIABLES
  machine,
  status, pid, parent, sem, tick, ctx,   \* fields of struct process
  a0,        \* register a0 in the trapframe of each context
  readyQ,    \* ready_queue_head and its queue_next chain
  waitQ,     \* wait_queue_head and its queue_next chain
  current,   \* current[0]
  l, len     \* semaphore values, number of semaphores

ids == <<pid, parent, ctx>>
sems == <<l, len>>
vars == <<machine, status, pid, parent, sem, tick, ctx, a0, readyQ, waitQ,
          current, l, len>>

(***************************************************************************)
(* The state s_start leaves: the pool is initialised, the first program    *)
(* has been given entry 0, queued and scheduled.  The copies are           *)
(* uninitialised stack memory that no pointer leads to.                    *)
(***************************************************************************)
Init ==
  /\ machine = "user"
  /\ status = [p \in PCB |-> IF p = 0 THEN "RUNNING" ELSE "FREE"]
  /\ pid = [p \in PCB |-> IF p \in Slot THEN p ELSE NULL]
  /\ parent = [p \in PCB |-> NULL]
  /\ sem = [p \in PCB |-> 0]
  /\ tick = [p \in PCB |-> 0]
  /\ ctx = [p \in PCB |-> IF p \in Slot THEN p ELSE NULL]
  /\ a0 = [k \in Slot |-> 0]
  /\ readyQ = <<>>
  /\ waitQ = <<>>
  /\ current = 0
  /\ l = [s \in Sem |-> 0]
  /\ len = 0

-----------------------------------------------------------------------------
(* Mutant of Marked: the insertion forgets proc->status. *)
MarkedNot(st, q, p, s) == st

(* The status that an insertion into q leaves. *)
Marked(st, q, p, s) == IF p \in Range(q) THEN st ELSE [st EXCEPT ![p] = s]

(***************************************************************************)
(* schedule().  st and rq are the statuses and the ready queue that the    *)
(* caller has made; the caller says what happens to the other variables.   *)
(***************************************************************************)
Stop(how, st, rq) ==
  /\ machine' = how
  /\ status' = st
  /\ readyQ' = rq
  /\ UNCHANGED current

RunHead(st, rq) ==
  \/ /\ rq = <<>>
     /\ Stop("null_ready", st, rq)
  \/ /\ rq # <<>>
     /\ st[Head(rq)] # "READY"
     /\ Stop("assert", st, rq)
  \/ /\ rq # <<>>
     /\ st[Head(rq)] = "READY"
     /\ current' = Head(rq)
     /\ readyQ' = Tail(rq)
     /\ status' = [st EXCEPT ![Head(rq)] = "RUNNING"]
     /\ UNCHANGED machine

(* Mutant of AllGone: a blocked process does not count as unfinished. *)
AllGoneIfBlocked(st) == \A i \in Slot : st[i] \notin {"READY", "RUNNING"}

AllGone(st) == \A i \in Slot : st[i] \in {"FREE", "ZOMBIE"}

Dispatch(st, rq) ==
  IF rq = <<>>
  THEN Stop(IF AllGone(st) THEN "shutdown" ELSE "panic", st, rq)
  ELSE RunHead(st, rq)

(***************************************************************************)
(* insert_to_ready_queue(current) or insert_to_wait_queue(current), then   *)
(* schedule(0).  schedule() does not return, so handle_syscall never       *)
(* stores a result: a0 keeps the number of the system call.                *)
(***************************************************************************)
GiveUp ==
  /\ Dispatch(Marked(status, readyQ, current, "READY"),
              Enqueue(readyQ, current))
  /\ UNCHANGED <<ids, sem, waitQ, sems>>

Block(number) ==
  /\ waitQ' = Enqueue(waitQ, current)
  /\ Dispatch(Marked(status, waitQ, current, "BLOCKED"), readyQ)
  /\ a0' = [a0 EXCEPT ![ctx[current]] = number]
  /\ UNCHANGED <<ids, tick>>

Return(value) == a0' = [a0 EXCEPT ![ctx[current]] = value]

(* A handler that changes no process: the caller goes on in user mode. *)
Resume == UNCHANGED <<machine, current, ids, tick>>

InUser == machine = "user"

-----------------------------------------------------------------------------
(* sys_user_yield. *)
Yield ==
  /\ InUser
  /\ GiveUp
  /\ a0' = [a0 EXCEPT ![ctx[current]] = SYS_user_yield]
  /\ UNCHANGED tick

(* Mutant of Tick: the count is not reset at the end of the slice. *)
TickNoReset ==
  /\ InUser
  /\ UNCHANGED a0
  /\ tick' = [tick EXCEPT ![current] = @ + 1]
  /\ \/ tick[current] + 1 >= TIME_SLICE_LEN /\ GiveUp
     \/ /\ tick[current] + 1 < TIME_SLICE_LEN
        /\ UNCHANGED <<machine, status, ids, sem, readyQ, waitQ, current, sems>>

(* Mutant of Tick: the process goes back to the head of the queue. *)
TickToHead ==
  /\ InUser
  /\ tick' = [tick EXCEPT ![current] = 0]
  /\ Dispatch(Marked(status, readyQ, current, "READY"), <<current>> \o readyQ)
  /\ UNCHANGED <<a0, ids, sem, waitQ, sems>>

(* The timer interrupt: handle_timer, handle_mtimer_trap, rrsched. *)
Tick ==
  /\ InUser
  /\ UNCHANGED a0
  /\ \/ /\ tick[current] + 1 >= TIME_SLICE_LEN
        /\ tick' = [tick EXCEPT ![current] = 0]
        /\ GiveUp
     \/ /\ tick[current] + 1 < TIME_SLICE_LEN
        /\ tick' = [tick EXCEPT ![current] = @ + 1]
        /\ UNCHANGED <<machine, status, ids, sem, readyQ, waitQ, current, sems>>

(* Mutant of FirstFree: a ZOMBIE entry is taken for a free one. *)
FirstUnused(i) ==
  /\ status[i] \in {"FREE", "ZOMBIE"}
  /\ \A j \in 0 .. i - 1 : status[j] \notin {"FREE", "ZOMBIE"}

(* alloc_process: the first FREE entry. *)
FirstFree(i) ==
  /\ status[i] = "FREE"
  /\ \A j \in 0 .. i - 1 : status[j] # "FREE"

PoolFull == \A i \in Slot : status[i] # "FREE"

(* sys_user_fork, do_fork (its memory is the subject of other modules). *)
Fork ==
  /\ InUser
  /\ \/ /\ PoolFull
        /\ Stop("panic", status, readyQ)
        /\ UNCHANGED <<ids, sem, tick, a0, waitQ, sems>>
     \/ \E child \in Slot :
          /\ FirstFree(child)
          /\ status' = [status EXCEPT ![child] = "READY"]
          /\ parent' = [parent EXCEPT ![child] = current]
          /\ readyQ' = Enqueue(readyQ, child)
          /\ a0' = [a0 EXCEPT ![ctx[child]] = 0, ![ctx[current]] = pid[child]]
          /\ UNCHANGED <<machine, current, pid, ctx, sem, tick, waitQ, sems>>

(***************************************************************************)
(* do_exec.  A new entry p is allocated and loaded; the caller's control   *)
(* block takes over p's pages and p's pid, but keeps its parent, sem and   *)
(* status, except that free_p has just made every entry with its old pid   *)
(* a ZOMBIE, which is the caller's own entry unless it runs as a copy.     *)
(* When the program cannot be opened vfs_open returns NULL, which          *)
(* IS_ERR_VALUE does not recognise, and elf_init dereferences it.          *)
(***************************************************************************)
FreeP(st, p) ==
  [q \in PCB |-> IF q \in Slot /\ pid[q] = pid[p] THEN "ZOMBIE" ELSE st[q]]

(* Mutant of Exec: the new pid is not taken over. *)
ExecKeepsPid(found) ==
  /\ InUser
  /\ \E p \in Slot :
       /\ FirstFree(p)
       /\ status' = FreeP([status EXCEPT ![p] = "USED"], current)
       /\ ctx' = [ctx EXCEPT ![current] = ctx[p]]
       /\ UNCHANGED <<machine, current, pid, parent, sem, tick, a0, readyQ, waitQ, sems>>

Exec(found) ==
  /\ InUser
  /\ \/ /\ PoolFull
        /\ Stop("panic", status, readyQ)
        /\ UNCHANGED <<ids, sem, tick, a0, waitQ, sems>>
     \/ \E p \in Slot :
          LET st == [status EXCEPT ![p] = "USED"]
          IN
          /\ FirstFree(p)
          /\ \/ /\ ~found
                /\ Stop("null_file", st, readyQ)
                /\ UNCHANGED <<ids, sem, tick, a0, waitQ, sems>>
             \/ /\ found
                /\ status' = FreeP(st, current)
                /\ ctx' = [ctx EXCEPT ![current] = ctx[p]]
                /\ tick' = [tick EXCEPT ![current] = tick[p]]
                /\ pid' = [pid EXCEPT ![current] = pid[p]]
                /\ a0' = [a0 EXCEPT ![ctx[p]] = 1]
                /\ UNCHANGED <<machine, current, parent, sem, readyQ, waitQ, sems>>

-----------------------------------------------------------------------------
(***************************************************************************)
(* sys_user_wait, process_wait.  wait(-1) compares control block           *)
(* addresses, wait(n) compares pids; both stop at the first match.  A      *)
(* zombie is reported but never freed: `procs[i].status==FREE;` compares.  *)
(***************************************************************************)
Matches(arg) ==
  {i \in Slot :
     /\ parent[i] # NULL
     /\ \/ arg = -1 /\ parent[i] = current
        \/ arg > 0 /\ pid[parent[i]] = pid[current] /\ pid[i] = arg}

FirstMatch(arg, i) == i \in Matches(arg) /\ \A j \in Matches(arg) : i <= j

Wait(arg) ==
  /\ InUser
  /\ UNCHANGED <<sem, sems>>
  /\ \/ /\ Matches(arg) = {}
        /\ Return(-1)
        /\ Resume
        /\ UNCHANGED <<status, readyQ, waitQ>>
     \/ \E i \in Slot :
          /\ FirstMatch(arg, i)
          /\ \/ /\ status[i] = "ZOMBIE"
                /\ Return(pid[i])
                /\ Resume
                /\ UNCHANGED <<status, readyQ, waitQ>>
             \/ /\ status[i] # "ZOMBIE"
                /\ Block(SYS_user_wait)

(***************************************************************************)
(* sys_user_exit: free_process(current), schedule(1).                      *)
(***************************************************************************)
(* Mutant of FreeProcess: the entry with the caller's pid is forgotten. *)
FreeSelf(st, p) == [st EXCEPT ![p] = "ZOMBIE"]

FreeProcess(st, p) == [FreeP(st, p) EXCEPT ![p] = "ZOMBIE"]

(* Mutant of ParentAt: whoever is first in the wait queue is woken. *)
HeadAt(i) == waitQ # <<>> /\ i = 1

(* The wait queue position of the first process with the parent's pid. *)
ParentAt(i) ==
  /\ i \in DOMAIN waitQ
  /\ parent[current] # NULL
  /\ pid[waitQ[i]] = pid[parent[current]]
  /\ \A j \in 1 .. i - 1 : pid[waitQ[j]] # pid[parent[current]]

(* Mutant of WakeParent: the parent stays in the wait queue. *)
WakeParentQueued(i, st) ==
  LET w == waitQ[i]
      t == Copy(ctx[current])
  IN
  /\ pid' = [pid EXCEPT ![t] = pid[w]]
  /\ parent' = [parent EXCEPT ![t] = parent[w]]
  /\ ctx' = [ctx EXCEPT ![t] = ctx[w]]
  /\ RunHead([st EXCEPT ![t] = "READY"], Enqueue(readyQ, t))
  /\ UNCHANGED <<sem, tick, waitQ>>

WakeParent(i, st) ==
  LET w == waitQ[i]
      t == Copy(ctx[current])
  IN
  /\ waitQ' = Unlink(waitQ, i)
  /\ pid' = [pid EXCEPT ![t] = pid[w]]
  /\ parent' = [parent EXCEPT ![t] = parent[w]]
  /\ sem' = [sem EXCEPT ![t] = sem[w]]
  /\ tick' = [tick EXCEPT ![t] = tick[w]]
  /\ ctx' = [ctx EXCEPT ![t] = ctx[w]]
  /\ \/ /\ readyQ # <<>>
        /\ RunHead(Marked([st EXCEPT ![t] = st[w]], readyQ, t, "READY"),
                   Enqueue(readyQ, t))
     \/ /\ readyQ = <<>>
        /\ current' = t
        /\ status' = [st EXCEPT ![t] = "RUNNING"]
        /\ UNCHANGED <<machine, readyQ>>

Exit ==
  /\ InUser
  /\ UNCHANGED <<a0, sems>>
  /\ LET st == FreeProcess(status, current)
     IN
     \/ /\ waitQ = <<>>
        /\ Dispatch(st, readyQ)
        /\ UNCHANGED <<ids, sem, tick, waitQ>>
     \/ \E i \in DOMAIN waitQ : ParentAt(i) /\ WakeParent(i, st)
     \/ /\ waitQ # <<>>
        /\ \A i \in DOMAIN waitQ : ~ParentAt(i)
        /\ RunHead(st, readyQ)
        /\ UNCHANGED <<ids, sem, tick, waitQ>>

-----------------------------------------------------------------------------
(* sys_user_sem_new, with the index check the code does not have as bound. *)
SemNew(value) ==
  /\ InUser
  /\ len < MaxSem
  /\ len' = len + 1
  /\ l' = [l EXCEPT ![len + 1] = value]
  /\ Return(len + 1)
  /\ Resume
  /\ UNCHANGED <<status, sem, readyQ, waitQ>>

(* Mutant of SemP: the caller does not sleep. *)
SemPNoSleep(s) ==
  /\ InUser
  /\ l' = [l EXCEPT ![s] = @ - 1]
  /\ Return(1)
  /\ Resume
  /\ UNCHANGED <<len, status, sem, readyQ, waitQ>>

(* sys_user_sem_P. *)
SemP(s) ==
  /\ InUser
  /\ l' = [l EXCEPT ![s] = @ - 1]
  /\ UNCHANGED len
  /\ \/ /\ l[s] - 1 >= 0
        /\ Return(1)
        /\ Resume
        /\ UNCHANGED <<status, sem, readyQ, waitQ>>
     \/ /\ l[s] - 1 < 0
        /\ sem' = [sem EXCEPT ![current] = s]
        /\ Block(SYS_user_sem_P)

(* wake_wait_queue: the first process queued whose sem field is s. *)
SleeperAt(s, i) ==
  /\ i \in DOMAIN waitQ
  /\ sem[waitQ[i]] = s
  /\ \A j \in 1 .. i - 1 : sem[waitQ[j]] # s

(* Mutant of WakeSleeper: l[a1] > 0 for l[a1] >= 0. *)
WakeSleeperLate(s, value) ==
  \/ /\ value > 0
     /\ \E i \in DOMAIN waitQ :
          /\ SleeperAt(s, i)
          /\ waitQ' = Unlink(waitQ, i)
          /\ readyQ' = <<waitQ[i]>> \o readyQ
          /\ status' = [status EXCEPT ![waitQ[i]] = "READY"]
  \/ /\ value <= 0 \/ \A i \in DOMAIN waitQ : ~SleeperAt(s, i)
     /\ UNCHANGED <<status, readyQ, waitQ>>

(* Mutant of WakeSleeper: the sleeper is not unlinked. *)
WakeSleeperQueued(s, value) ==
  \/ /\ value >= 0
     /\ \E i \in DOMAIN waitQ :
          /\ SleeperAt(s, i)
          /\ readyQ' = <<waitQ[i]>> \o readyQ
          /\ status' = [status EXCEPT ![waitQ[i]] = "READY"]
          /\ UNCHANGED waitQ
  \/ /\ value < 0 \/ \A i \in DOMAIN waitQ : ~SleeperAt(s, i)
     /\ UNCHANGED <<status, readyQ, waitQ>>

WakeSleeper(s, value) ==
  \/ /\ value >= 0
     /\ \E i \in DOMAIN waitQ :
          /\ SleeperAt(s, i)
          /\ waitQ' = Unlink(waitQ, i)
          /\ readyQ' = <<waitQ[i]>> \o readyQ
          /\ status' = [status EXCEPT ![waitQ[i]] = "READY"]
  \/ /\ value < 0 \/ \A i \in DOMAIN waitQ : ~SleeperAt(s, i)
     /\ UNCHANGED <<status, readyQ, waitQ>>

(* sys_user_sem_V. *)
SemV(s) ==
  /\ InUser
  /\ l[s] < MaxVal
  /\ l' = [l EXCEPT ![s] = @ + 1]
  /\ WakeSleeper(s, l[s] + 1)
  /\ Return(1)
  /\ Resume
  /\ UNCHANGED <<sem, len>>

-----------------------------------------------------------------------------
Semaphores ==
  \/ \E value \in {0, 1} : SemNew(value)
  \/ \E s \in 1 .. len : SemP(s)
  \/ \E s \in 1 .. len : SemV(s)

Next ==
  \/ Yield
  \/ Tick
  \/ Fork
  \/ \E found \in BOOLEAN : Exec(found)
  \/ \E arg \in -1 .. NPROC - 1 : Wait(arg)
  \/ Exit
  \/ Semaphores

Spec == Init /\ [][Next]_vars

(* The machine timer fires again and again whatever the processes do. *)
FairSpec == Spec /\ WF_vars(Tick)

-----------------------------------------------------------------------------
(* The control blocks of the processes that still run, or can. *)
Live == IF InUser THEN {current} \union Range(readyQ) \union Range(waitQ) ELSE {}

(* TypeOK: every variable has its type. *)
TypeOK ==
  /\ machine \in Machine
  /\ status \in [PCB -> Status]
  /\ pid \in [PCB -> Slot \union {NULL}]
  /\ parent \in [PCB -> PCB \union {NULL}]
  /\ sem \in [PCB -> 0 .. MaxSem]
  /\ tick \in [PCB -> 0 .. TIME_SLICE_LEN - 1]
  /\ ctx \in [PCB -> Slot \union {NULL}]
  /\ a0 \in [Slot -> Int]
  /\ readyQ \in Seq(PCB)
  /\ waitQ \in Seq(PCB)
  /\ current \in PCB
  /\ l \in [Sem -> Int]
  /\ len \in 0 .. MaxSem
-----------------------------------------------------------------------------
(* Properties *)

(***************************************************************************)
(* Both queues are threaded through the one field queue_next, so a control *)
(* block may be in one queue at most, once, and the running one in none:   *)
(* otherwise an insertion would cut or close a chain (kernel/sched.c).     *)
(***************************************************************************)
QueueDiscipline ==
  /\ IsInjective(readyQ)
  /\ IsInjective(waitQ)
  /\ Range(readyQ) \intersect Range(waitQ) = {}
  /\ InUser => current \notin Range(readyQ) \union Range(waitQ)

(***************************************************************************)
(* The assertion current->status == READY of schedule() (sched.c:156 and   *)
(* sched.c:201) never fails, although free_process and free_p change the   *)
(* status of every entry that has the pid of the caller.                   *)
(***************************************************************************)
ReadyAssertHolds ==
  /\ machine # "assert"
  /\ \A i \in DOMAIN readyQ : status[readyQ[i]] = "READY"
  /\ \A i \in DOMAIN waitQ : status[waitQ[i]] = "BLOCKED"

(***************************************************************************)
(* No two processes that can still run share a pid or a context (kernel    *)
(* stack, trapframe, page table), although exec hands both over and        *)
(* schedule(1) duplicates control blocks.                                  *)
(***************************************************************************)
DistinctLive ==
  \A p, q \in Live : p # q => pid[p] # pid[q] /\ ctx[p] # ctx[q]

(***************************************************************************)
(* The control block copy in schedule()'s frame is never overwritten while *)
(* it is in use: a kernel stack that a live process runs on holds no       *)
(* control block of a live process.                                        *)
(***************************************************************************)
StackCopySafe ==
  \A p, q \in Live : q # Copy(ctx[p])

(***************************************************************************)
(* schedule() counts the entries of procs[] to decide on shutdown          *)
(* (sched.c:183-198).  It shuts the machine down only when no process is   *)
(* left, though processes may run as copies outside procs[].               *)
(***************************************************************************)
ShutdownOnlyWhenDone ==
  machine = "shutdown" => readyQ = <<>> /\ waitQ = <<>>

(***************************************************************************)
(* No process is dropped: an entry in an active state stands for exactly   *)
(* the process with its pid, which is running or queued; and the entry     *)
(* numbered by a live process's pid is not reported as free or terminated. *)
(***************************************************************************)
NoProcessLost ==
  InUser =>
    /\ \A i \in Slot :
         status[i] \in {"READY", "RUNNING", "BLOCKED"} =>
           \E p \in Live : pid[p] = pid[i]
    /\ \A p \in Live : status[pid[p]] \notin {"FREE", "ZOMBIE"}

(* A process whose last system call was wait() and which is still blocked. *)
BlockedInWait(p) ==
  p \in Range(waitQ) /\ a0[ctx[p]] = SYS_user_wait

ChildOf(c, p) == parent[c] # NULL /\ pid[parent[c]] = pid[p]

(***************************************************************************)
(* wait() loses no wake-up: a process blocked in wait has a live child     *)
(* whose exit will find it by pid in the wait queue, whatever exec and     *)
(* copies have done to parent pointers since (process.c:334-412,           *)
(* sched.c:78-94).                                                         *)
(***************************************************************************)
WaiterHasChild ==
  \A p \in Live : BlockedInWait(p) => \E c \in Live : c # p /\ ChildOf(c, p)

(***************************************************************************)
(* Round robin: a process in the ready queue gets the hart, unless the     *)
(* machine stops, even though V puts the process it wakes at the head of   *)
(* the queue (sched.c:38-54): it leaves the queue only to run, and does    *)
(* not stay there for ever.                                                *)
(***************************************************************************)
ReadyRuns ==
  /\ [][\A p \in Range(readyQ) : p \in Range(readyQ') \/ current' = p \/ ~InUser']_vars
  /\ \A p \in PCB : []<>(p \notin Range(readyQ) \/ ~InUser)
=============================================================================
