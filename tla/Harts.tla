------------------------------- MODULE Harts -------------------------------
(***************************************************************************)
(* The start of the machine on N harts (m_start in machine/minit.c,        *)
(* s_start in kernel.c) until each runs its first process: the barriers    *)
(* and the spinning semaphores of kernel/sync_utils.h, and what the        *)
(* semaphores should keep to one hart at a time: the search of procs[],    *)
(* the free list, and the ready queue, which has no semaphore at all.      *)
(* config.h sets N = NCPU = 1.                                             *)
(*                                                                         *)
(* An instruction on a counter is a step.  The search of procs[], the walk *)
(* along the ready queue, the writes of LinkIn and those of Pop are a step *)
(* each: with one hart in the section nothing comes between them, and that *)
(* a second has been there is recorded in raced.                           *)
(***************************************************************************)
EXTENDS Integers, FiniteSets

CONSTANTS
  N,       \* NCPU
  NPROC,   \* entries of procs[]                             (kernel: 32)
  Pages,   \* calls of alloc_page in alloc_process
  Image    \* calls of alloc_page in elf_load (segments of up to a page)

ASSUME HartsAssumption == {N, NPROC, Pages, Image} \subseteq Nat \ {0} /\ N <= NPROC

Hart == 0 .. N - 1
Entry == 0 .. NPROC - 1

\* No page, no entry.  The pages of the free list are 0, 1, 2, ...
NULL == -1
Pointer == Entry \cup {NULL}
Page == Nat \cup {NULL}
Status == {"FREE", "USED", "READY", "RUNNING"}

VARIABLES
  pc,                 \* where each hart is
  count,              \* counter of the barrier in m_start
  barrier,            \* counter of the barrier in s_start
  count_3,            \* semaphore of alloc_process
  count_5,            \* semaphore of alloc_page
  up,                 \* what hart 0 has initialised: "host", "kernel"
  page,               \* such calls each hart has made for its process
  g_free_mem_list,    \* the first free page
  n,                  \* the page each hart has read there
  mine,               \* the pages each hart has taken
  status,             \* of each entry of procs[]
  proc,               \* the entry each hart has found
  ready_queue_head,
  queue_next,         \* of each entry of procs[]
  last,               \* the end of the ready queue, as each hart has read it
  current,            \* the entry each hart runs
  raced,              \* have two harts been in one section at once?
  machine             \* "on", or "stopped" by a panic or a fault

sync == <<count, barrier, count_3, count_5>>
pages == <<page, g_free_mem_list, n, mine>>
queue == <<ready_queue_head, queue_next, last, current>>
vars == <<pc, sync, up, pages, status, proc, queue, raced, machine>>

Label == {"m_start", "m_add", "m_spin", "s_start", "s_add", "s_spin",
          "P3", "sub3", "search", "P5", "sub5", "take", "put", "V5", "mark", "V3",
          "load", "load_sub", "load_take", "load_put", "load_V",
          "insert", "link", "schedule", "pop", "user"}

\* Past the amoadd of the barrier, past the barrier, between P and V, at the
\* ready queue.
ArrivedM == Label \ {"m_start", "m_add"}
LeftM == ArrivedM \ {"m_spin"}
ArrivedS == LeftM \ {"s_start", "s_add"}
LeftS == ArrivedS \ {"s_spin"}
Holding3 == {"search", "P5", "sub5", "take", "put", "V5", "mark", "V3"}
Holding5 == {"take", "put", "V5", "load_take", "load_put", "load_V"}
Queueing == {"link", "schedule", "pop"}

At(L) == {h \in Hart : pc[h] \in L}

\* Two harts are where one should be.
Crowded == \E L \in {Holding3, Holding5, Queueing} : \E g, h \in At(L) : g # h

Init ==
  /\ pc = [h \in Hart |-> "m_start"]
  /\ count = 0 /\ barrier = 0
  /\ count_3 = 1 /\ count_5 = 1
  /\ up = {}
  /\ page = [h \in Hart |-> 0]
  /\ g_free_mem_list = 0
  /\ n = [h \in Hart |-> NULL] /\ mine = [h \in Hart |-> {}]
  /\ status = [i \in Entry |-> "FREE"]
  /\ proc = [h \in Hart |-> NULL]
  /\ ready_queue_head = NULL /\ queue_next = [i \in Entry |-> NULL]
  /\ last = [h \in Hart |-> NULL] /\ current = [h \in Hart |-> NULL]
  /\ raced = FALSE
  /\ machine = "on"

Goto(h, l) == pc' = [pc EXCEPT ![h] = l] /\ raced' = (raced \/ Crowded')

StopIf(fault) == machine' = IF fault THEN "stopped" ELSE machine

-----------------------------------------------------------------------------
(* sync_barrier(counter, N): the amoadd returns the old value.  A hart that *)
(* is not the last reads the counter until it is N.                         *)

AfterAddEarly(old, spin, on) == IF old + 2 < N THEN spin ELSE on
AfterAdd(old, spin, on) == IF old + 1 < N THEN spin ELSE on
SpinEndsEarly(counter) == counter > 0
SpinEnds(counter) == counter >= N

\* sem_P(semaphore): reads until the value is positive, then subtracts;
\* between the two instructions another hart may do the same.
Positive(semaphore) == semaphore > 0

-----------------------------------------------------------------------------
(* m_start *)

\* Hart 0: spike_file_init, init_dtb.
MStart(h) ==
  /\ pc[h] = "m_start"
  /\ up' = IF h = 0 THEN up \cup {"host"} ELSE up
  /\ Goto(h, "m_add")
  /\ UNCHANGED <<sync, pages, status, proc, queue, machine>>

MAdd(h) ==
  /\ pc[h] = "m_add"
  /\ count' = count + 1
  /\ Goto(h, AfterAdd(count, "m_spin", "s_start"))
  /\ UNCHANGED <<barrier, count_3, count_5, up, pages, status, proc, queue, machine>>

MSpin(h) ==
  /\ pc[h] = "m_spin" /\ SpinEnds(count)
  /\ Goto(h, "s_start")
  /\ UNCHANGED <<sync, up, pages, status, proc, queue, machine>>

-----------------------------------------------------------------------------
(* s_start *)

\* Hart 0: pmm_init, kern_vm_init, enable_paging, init_proc_pool, fs_init.
SStart(h) ==
  /\ pc[h] = "s_start"
  /\ up' = IF h = 0 THEN up \cup {"kernel"} ELSE up
  /\ Goto(h, "s_add")
  /\ UNCHANGED <<sync, pages, status, proc, queue, machine>>

SAdd(h) ==
  /\ pc[h] = "s_add"
  /\ barrier' = barrier + 1
  /\ Goto(h, AfterAdd(barrier, "s_spin", "P3"))
  /\ UNCHANGED <<count, count_3, count_5, up, pages, status, proc, queue, machine>>

SSpin(h) ==
  /\ pc[h] = "s_spin" /\ SpinEnds(barrier)
  /\ Goto(h, "P3")
  /\ UNCHANGED <<sync, up, pages, status, proc, queue, machine>>

-----------------------------------------------------------------------------
(* alloc_page: P(count_5), the first page off the free list, V.  Its        *)
(* callers are at labels of their own.                                      *)

P5(h, at, next) ==
  /\ pc[h] = at /\ Positive(count_5)
  /\ Goto(h, next)
  /\ UNCHANGED <<sync, up, pages, status, proc, queue, machine>>

Sub5(h, at, next) ==
  /\ pc[h] = at
  /\ count_5' = count_5 - 1
  /\ Goto(h, next)
  /\ UNCHANGED <<count, barrier, count_3, up, pages, status, proc, queue, machine>>

Take(h, at, next) ==
  /\ pc[h] = at
  /\ n' = [n EXCEPT ![h] = g_free_mem_list]
  /\ Goto(h, next)
  /\ UNCHANGED <<sync, up, page, g_free_mem_list, mine, status, proc, queue, machine>>

\* n->next, once another hart has the page too, is what that one has made of
\* it: still the link, or cleared or written over, which is no page.
NextPage(pg, taken) == IF taken THEN {pg + 1, NULL} ELSE {pg + 1}

\* The list goes on behind the page.  The caller clears or maps the page at
\* once: without one it faults.
PutKept(h, at, next) ==
  /\ pc[h] = at
  /\ page' = [page EXCEPT ![h] = @ + 1]
  /\ mine' = [mine EXCEPT ![h] = @ \cup {n[h]}]
  /\ Goto(h, next)
  /\ UNCHANGED <<sync, up, g_free_mem_list, n, status, proc, queue, machine>>
Put(h, at, next) ==
  /\ pc[h] = at
  /\ page' = [page EXCEPT ![h] = @ + 1]
  /\ mine' = [mine EXCEPT ![h] = @ \cup {n[h]}]
  /\ g_free_mem_list' \in IF n[h] = NULL THEN {g_free_mem_list}
                           ELSE NextPage(n[h], \E g \in Hart : n[h] \in mine[g])
  /\ StopIf(n[h] = NULL)
  /\ n' = [n EXCEPT ![h] = NULL]
  /\ Goto(h, next)
  /\ UNCHANGED <<sync, up, status, proc, queue>>

\* The caller asks for another page until it has `all'.
V5Lost(h, at, again, next, all) ==
  /\ pc[h] = at
  /\ count_5' = IF page[h] = all THEN count_5 ELSE count_5 + 1
  /\ Goto(h, IF page[h] < all THEN again ELSE next)
  /\ UNCHANGED <<count, barrier, count_3, up, pages, status, proc, queue, machine>>
V5More(h, at, again, next, all) ==
  /\ pc[h] = at
  /\ count_5' = count_5 + 1
  /\ Goto(h, IF page[h] <= all THEN again ELSE next)
  /\ UNCHANGED <<count, barrier, count_3, up, pages, status, proc, queue, machine>>
V5(h, at, again, next, all) ==
  /\ pc[h] = at
  /\ count_5' = count_5 + 1
  /\ Goto(h, IF page[h] < all THEN again ELSE next)
  /\ UNCHANGED <<count, barrier, count_3, up, pages, status, proc, queue, machine>>

-----------------------------------------------------------------------------
(* load_user_program: alloc_process between P(count_3) and V(count_3), then *)
(* load_bincode_from_host_elf.                                              *)

P3(h) ==
  /\ pc[h] = "P3" /\ Positive(count_3)
  /\ Goto(h, "sub3")
  /\ UNCHANGED <<sync, up, pages, status, proc, queue, machine>>

Sub3(h) ==
  /\ pc[h] = "sub3"
  /\ count_3' = count_3 - 1
  /\ Goto(h, "search")
  /\ UNCHANGED <<count, barrier, count_5, up, pages, status, proc, queue, machine>>

\* The first entry that is FREE; it stays so until all its fields are set.
Search(h) ==
  /\ pc[h] = "search"
  /\ \E i \in Pointer :
       /\ \A j \in Entry : (i = NULL \/ j < i) => status[j] # "FREE"
       /\ i # NULL => status[i] = "FREE"
       /\ proc' = [proc EXCEPT ![h] = i]
       /\ StopIf(i = NULL)
  /\ Goto(h, "P5")
  /\ UNCHANGED <<sync, up, pages, status, queue>>

MarkLost(h) ==
  /\ pc[h] = "mark"
  /\ Goto(h, "V3")
  /\ UNCHANGED <<sync, up, pages, status, proc, queue, machine>>
Mark(h) ==
  /\ pc[h] = "mark"
  /\ status' = [status EXCEPT ![proc[h]] = "USED"]
  /\ Goto(h, "V3")
  /\ UNCHANGED <<sync, up, pages, proc, queue, machine>>

AllocProcess(h) ==
  \/ Search(h)
  \/ P5(h, "P5", "sub5") \/ Sub5(h, "sub5", "take") \/ Take(h, "take", "put")
  \/ Put(h, "put", "V5") \/ V5(h, "V5", "P5", "mark", Pages)
  \/ Mark(h)

V3Lost(h) ==
  /\ pc[h] = "V3"
  /\ Goto(h, "load")
  /\ UNCHANGED <<sync, up, pages, status, proc, queue, machine>>
V3(h) ==
  /\ pc[h] = "V3"
  /\ count_3' = count_3 + 1
  /\ Goto(h, "load")
  /\ UNCHANGED <<count, barrier, count_5, up, pages, status, proc, queue, machine>>

LoadElf(h) ==
  \/ P5(h, "load", "load_sub") \/ Sub5(h, "load_sub", "load_take")
  \/ Take(h, "load_take", "load_put") \/ Put(h, "load_put", "load_V")
  \/ V5(h, "load_V", "load", "insert", Pages + Image)

-----------------------------------------------------------------------------
(* insert_to_ready_queue and schedule(0), which does not return: from here  *)
(* on Sched takes over.                                                     *)

\* The entries of the ready queue.
InQueue ==
  LET upto[k \in 0 .. NPROC] ==
        IF k = 0 THEN {ready_queue_head}
        ELSE upto[k - 1] \cup {queue_next[i] : i \in upto[k - 1] \ {NULL}}
  IN  IF ready_queue_head = NULL THEN {} ELSE {i \in Entry : i \in upto[NPROC]}

\* The walk to the end of the queue.  It does not end if there is none.
Insert(h) ==
  /\ pc[h] = "insert"
  /\ \/ /\ proc[h] \in InQueue
        /\ Goto(h, "schedule")
        /\ UNCHANGED last
     \/ /\ proc[h] \notin InQueue
        /\ \E i \in Pointer :
             /\ IF ready_queue_head = NULL THEN i = NULL
                ELSE i \in InQueue /\ queue_next[i] = NULL
             /\ last' = [last EXCEPT ![h] = i]
        /\ Goto(h, "link")
  /\ UNCHANGED <<sync, up, pages, status, proc, ready_queue_head, queue_next, current, machine>>

LinkIn(h) ==
  /\ pc[h] = "link"
  /\ status' = [status EXCEPT ![proc[h]] = "READY"]
  /\ queue_next' = [queue_next EXCEPT ![last[h]] = proc[h], ![proc[h]] = NULL]
  /\ ready_queue_head' = IF last[h] = NULL THEN proc[h] ELSE ready_queue_head
  /\ last' = [last EXCEPT ![h] = NULL]
  /\ Goto(h, "schedule")
  /\ UNCHANGED <<sync, up, pages, proc, current, machine>>

\* With an empty queue the kernel shuts down or panics; the assertion wants
\* a READY process.
Schedule(h) ==
  /\ pc[h] = "schedule"
  /\ current' = [current EXCEPT ![h] = ready_queue_head]
  /\ StopIf(ready_queue_head = NULL \/ status[ready_queue_head] # "READY")
  /\ Goto(h, "pop")
  /\ UNCHANGED <<sync, up, pages, status, proc, ready_queue_head, queue_next, last>>

\* The head is read again.
Pop(h) ==
  /\ pc[h] = "pop"
  /\ StopIf(ready_queue_head = NULL)
  /\ ready_queue_head' = IF ready_queue_head = NULL THEN NULL ELSE queue_next[ready_queue_head]
  /\ status' = [status EXCEPT ![current[h]] = "RUNNING"]
  /\ Goto(h, "user")
  /\ UNCHANGED <<sync, up, pages, proc, queue_next, last, current>>

Instruction(h) ==
  \/ MStart(h) \/ MAdd(h) \/ MSpin(h)
  \/ SStart(h) \/ SAdd(h) \/ SSpin(h)
  \/ P3(h) \/ Sub3(h) \/ AllocProcess(h) \/ V3(h)
  \/ LoadElf(h) \/ Insert(h) \/ LinkIn(h) \/ Schedule(h) \/ Pop(h)

Step(h) == machine = "on" /\ Instruction(h)

Next == \E h \in Hart : Step(h)

\* Every hart goes on executing instructions.
Fairness == \A h \in Hart : WF_vars(Step(h))

Spec == Init /\ [][Next]_vars
FairSpec == Spec /\ Fairness

-----------------------------------------------------------------------------
(* Properties *)

\* Where a hart may be with how many pages.
ControlOK ==
  /\ pc \in [Hart -> Label]
  /\ count \in Int /\ barrier \in Int /\ count_3 \in Int /\ count_5 \in Int
  /\ up \subseteq {"host", "kernel"}
  /\ page \in [Hart -> 0 .. Pages + Image]
  /\ \A h \in Hart :
       /\ pc[h] \in {"V5", "mark", "V3"} => page[h] <= Pages
       /\ pc[h] \in {"load", "load_sub", "load_take", "load_put"} => page[h] < Pages + Image
       /\ pc[h] \in (Label \ LeftS) \cup {"P3", "sub3", "search", "P5", "sub5", "take", "put"}
            => page[h] < Pages

\* Types; alloc_process and elf_load take no page more than they need.
TypeOK ==
  /\ ControlOK
  /\ g_free_mem_list \in Page /\ n \in [Hart -> Page] /\ mine \in [Hart -> SUBSET Page]
  /\ status \in [Entry -> Status] /\ proc \in [Hart -> Pointer]
  /\ ready_queue_head \in Pointer /\ queue_next \in [Entry -> Pointer]
  /\ last \in [Hart -> Pointer] /\ current \in [Hart -> Pointer]
  /\ raced \in BOOLEAN /\ machine \in {"on", "stopped"}

\* No hart gets past the barrier of m_start (minit.c:102) before hart 0 has
\* set up the host interface, nor past that of s_start (kernel.c:118), to
\* take pages and a process, before hart 0 has set up memory, the process
\* pool and the file systems.
BootOrder ==
  \A h \in Hart : /\ pc[h] \in LeftM => "host" \in up
                  /\ pc[h] \in LeftS => "kernel" \in up

\* Every way through alloc_page and alloc_process gives back what it took:
\* a semaphore is 1 less the harts between its P and its V, also after two
\* harts have read the same positive value in sem_P.  Were it not, the next
\* sem_P would spin for ever.
SemBalance ==
  /\ count_3 = 1 - Cardinality(At(Holding3))
  /\ count_5 = 1 - Cardinality(At(Holding5))

MBarrier == INSTANCE Barrier WITH Harts <- Hart, arrived <- At(ArrivedM), left <- At(LeftM)
SBarrier == INSTANCE Barrier WITH Harts <- Hart, arrived <- At(ArrivedS), left <- At(LeftS)

\* Both uses of sync_barrier, which only reads and adds to a counter, are
\* barriers: the harts all arrive before any leaves.
ImplementsBarriers == MBarrier!Spec /\ SBarrier!Spec

\* What the semaphores are for.  As long as no two harts have been in one
\* section at once - sem_P (sync_utils.h:21) lets two through when both read
\* the same positive value, and nothing keeps the second from the ready queue
\* - the harts have found different entries of procs[], have taken different
\* pages, and each runs the entry it has found.
OwnProcess ==
  ~raced =>
    /\ machine = "on"
    /\ \A h \in Hart : pc[h] = "user" => current[h] = proc[h]
    /\ \A g, h \in Hart :
         g # h => mine[g] \cap mine[h] = {} /\ (proc[g] = proc[h] => proc[g] = NULL)

\* No barrier and no semaphore of the start keeps a hart for ever: every hart
\* gets to its first process, unless two harts get into one section.
Boots == <>(raced \/ \A h \in Hart : pc[h] = "user")

-----------------------------------------------------------------------------
(* The inductive invariant: a barrier's counter is the number of harts that *)
(* have arrived, and hart 0 has done its work before it arrives.            *)

Counted == count = Cardinality(At(ArrivedM)) /\ barrier = Cardinality(At(ArrivedS))

AllArrived ==
  \A h \in Hart : /\ pc[h] \in LeftM => At(ArrivedM) = Hart
                  /\ pc[h] \in LeftS => At(ArrivedS) = Hart

WorkDone ==
  /\ pc[0] # "m_start" => "host" \in up
  /\ pc[0] \in LeftM \ {"s_start"} => "kernel" \in up

\* BootOrder and SemBalance follow from this invariant, which every
\* instruction of a hart preserves, whatever the harts do to each other's
\* entries and pages.
IInv == ControlOK /\ Counted /\ AllArrived /\ WorkDone /\ SemBalance

(* For OwnProcess, what a hart knows of shared memory by where it is.       *)

Found == LeftS \ {"P3", "sub3", "search"}
StatusAt(l) ==
  IF l \in Holding3 \ {"V3"} THEN "FREE"
  ELSE IF l \in {"schedule", "pop"} THEN "READY"
  ELSE IF l = "user" THEN "RUNNING" ELSE "USED"

\* The pages taken are behind the head of the free list, and a hart about to
\* move the head has read it.
PagesOwn ==
  /\ g_free_mem_list \in Nat
  /\ \A h \in Hart :
       /\ mine[h] \subseteq 0 .. g_free_mem_list - 1
       /\ pc[h] \in {"put", "load_put"} => n[h] = g_free_mem_list
  /\ \A g, h \in Hart : g # h => mine[g] \cap mine[h] = {}

\* An entry that is not FREE is the entry of a hart, which knows its status.
EntriesOwn ==
  /\ \A h \in Hart :
       IF pc[h] \in Found THEN proc[h] \in Entry /\ status[proc[h]] = StatusAt(pc[h])
                         ELSE proc[h] = NULL
  /\ \A g, h \in Hart : g # h => (proc[g] = proc[h] => proc[g] = NULL)
  /\ \A i \in Entry : status[i] # "FREE" => \E h \in Hart : proc[h] = i

\* The ready queue has the entry of the hart that is about to run it.
QueueOwn ==
  /\ At({"schedule", "pop"}) = {} => ready_queue_head = NULL
  /\ \A h \in Hart :
       /\ pc[h] \in {"schedule", "pop"} =>
            ready_queue_head = proc[h] /\ queue_next[proc[h]] = NULL
       /\ pc[h] = "link" => last[h] = NULL
       /\ pc[h] \in {"pop", "user"} => current[h] = proc[h]

\* As long as the sections have kept the harts apart, each has what it has
\* taken to itself.  OwnProcess follows.
OwnInv ==
  /\ TypeOK
  /\ Crowded => raced
  /\ ~raced => machine = "on" /\ PagesOwn /\ EntriesOwn /\ QueueOwn
=============================================================================
