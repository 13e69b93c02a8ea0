------------------------------- MODULE Memory -------------------------------
(***************************************************************************)
(* User memory: the list of free physical pages (kernel/pmm.c), the page   *)
(* tables (kernel/vmm.c), the page-wise heap (sys_user_allocate_page and   *)
(* sys_user_free_page), the address spaces that fork and exec build, copy  *)
(* on write and the page fault handler (kernel/strap.c).                   *)
(*                                                                         *)
(* Any live process may act at any time: the scheduler is the subject of   *)
(* Sched.  A page is one word of content.  A page table maps the virtual   *)
(* pages of four regions; the pages that alloc_process takes for the       *)
(* trapframe, the page table and the kernel stack are never given back,    *)
(* and are only counted (KPages).                                          *)
(***************************************************************************)
EXTENDS Integers, Sequences, Functions

CONSTANTS
  NPages,          \* physical pages
  KPages,          \* pages of a process that are not mapped for the user
  ImagePages,      \* pages of a program segment, 1 or 2
  MaxProc,         \* bound on the processes created
  MaxHeap,         \* bound on the pages of a heap
  MaxStack,        \* bound on the pages of a stack
  MAX_HEAP_PAGES,  \* room in free_pages_address (32)
  Cleared,         \* entries of free_block_filter that memset clears (8)
  Val              \* what a process may store in a page

ASSUME PagesAssumption == NPages \in Nat /\ KPages \in Nat
ASSUME ImageAssumption == ImagePages \in {1, 2}
ASSUME BoundsAssumption ==
  MaxProc \in Nat \ {0} /\ MaxHeap \in Nat \ {0} /\ MaxStack \in Nat \ {0}
ASSUME HeapAssumption == MAX_HEAP_PAGES \in Nat /\ Cleared \in Nat
ASSUME ValAssumption == Val # {}

NULL == 0
Page == 1 .. NPages
Proc == 0 .. MaxProc - 1

Heap(i) == <<"heap", i>>
Stack(i) == <<"stack", i>>     \* Stack(0) is the page below USER_STACK_TOP
Code(i) == <<"code", i>>
Data(i) == <<"data", i>>
VA ==
  {Heap(i) : i \in 0 .. MaxHeap - 1} \union {Stack(i) : i \in 0 .. MaxStack - 1}
    \union {Code(i) : i \in 0 .. 1} \union {Data(i) : i \in 0 .. 1}

ImageVA == {va \in VA : va[1] \in {"code", "data"}}

(* The bits of a page table entry that matter: PTE_V and PTE_W. *)
PTE == [pa : Page \union {NULL}, v : BOOLEAN, w : BOOLEAN]
Unmapped == [pa |-> NULL, v |-> FALSE, w |-> FALSE]
Mapping(pa, writable) == [pa |-> pa, v |-> TRUE, w |-> writable]

VARIABLES
  machine,  \* "run", or why it stopped: see Stop
  free,     \* g_free_mem_list
  mem,      \* content of the pages
  pt,       \* page tables
  top,      \* user_heap.heap_top, in pages above heap_bottom
  freed,    \* user_heap.free_pages_address
  depth,    \* pages the stack pointer has come down
  reloaded, \* processes whose mapped_info names each image segment twice
  born,     \* number of processes created
  alive     \* processes that have not exited

heaps == <<top, freed>>
vars == <<machine, free, mem, pt, top, freed, depth, reloaded, born, alive>>

lookup_pa(p, va) == IF pt[p][va].v THEN pt[p][va].pa ELSE NULL

(* The list is never empty when alloc_page is called below, or NULL is taken. *)
alloc_page == IF free = <<>> THEN NULL ELSE Head(free)
Rest == IF free = <<>> THEN <<>> ELSE Tail(free)

(* The address reclaimed last, and the list without it. *)
Last(s) == s[Len(s)]
Front(s) == SubSeq(s, 1, Len(s) - 1)

Running(p) == machine = "run" /\ p \in alive

(***************************************************************************)
(* How the machine stops: "nomem", no page is left; "remap", the panic     *)
(* "map_pages fails!"; "fault", the process accessed or freed an address   *)
(* it does not have; "overflow", free_pages_address is full; "corrupt", a  *)
(* page of the free list was written or freed again.                       *)
(***************************************************************************)
Stop(how) ==
  /\ machine' = how
  /\ UNCHANGED <<free, mem, pt, top, freed, depth, reloaded, born, alive>>

-----------------------------------------------------------------------------
(***************************************************************************)
(* Address spaces.  A segment of one page comes from alloc_page, one of    *)
(* two from alloc_two_page: the first two neighbours in the list, after    *)
(* its first element, whose addresses are neighbours too.                  *)
(***************************************************************************)
PairAt(fr, i) == i \in 2 .. Len(fr) - 1 /\ fr[i] - 1 = fr[i + 1]

(* The possible results of elf_alloc_mb: none when the memory is short. *)
TakeImage(fr) ==
  IF ImagePages = 1
  THEN {[pages |-> <<fr[1], NULL>>, rest |-> Tail(fr)] : n \in {1} \intersect DOMAIN fr}
  ELSE {[pages |-> <<fr[i + 1], fr[i]>>,
         rest |-> SubSeq(fr, 1, i - 1) \o SubSeq(fr, i + 2, Len(fr))] :
          i \in {j \in DOMAIN fr : PairAt(fr, j) /\ \A k \in 1 .. j - 1 : ~PairAt(fr, k)}}

Segment(pages, i) == IF i < ImagePages THEN Mapping(pages[i + 1], TRUE) ELSE Unmapped

(* alloc_process and elf_load on the free list fr. *)
NewSpaces(fr) ==
  IF Len(fr) <= KPages THEN {}
  ELSE UNION {
         {[pt |-> [va \in VA |->
                     CASE va = Stack(0) -> Mapping(fr[KPages + 1], TRUE)
                       [] va[1] = "code" -> Segment(c.pages, va[2])
                       [] va[1] = "data" -> Segment(d.pages, va[2])
                       [] OTHER -> Unmapped],
           rest |-> d.rest] : d \in TakeImage(c.rest)}
         : c \in TakeImage(SubSeq(fr, KPages + 2, Len(fr)))}

(* What elf_load and memset leave in the pages of a new program. *)
Image == CHOOSE x \in Val : TRUE
Loaded(pages) == mem' = [pa \in Page |-> IF pa \in pages THEN Image ELSE mem[pa]]

(* create_freepage_list frees the pages from the lowest up. *)
InitialList == [i \in Page |-> NPages + 1 - i]

(* The first program is loaded: load_user_program. *)
Init ==
  \E s \in NewSpaces(InitialList) :
    /\ machine = "run"
    /\ free = s.rest
    /\ mem = [pa \in Page |-> Image]
    /\ pt = [p \in Proc |-> IF p = 0 THEN s.pt ELSE [va \in VA |-> Unmapped]]
    /\ top = [p \in Proc |-> 0]
    /\ freed = [p \in Proc |-> <<>>]
    /\ depth = [p \in Proc |-> 1]
    /\ reloaded = {}
    /\ born = 1
    /\ alive = {0}

-----------------------------------------------------------------------------
(* Mutant of Malloc: a reclaimed address is not taken off the list. *)
MallocKeeps(p) ==
  /\ Running(p)
  /\ freed[p] # <<>>
  /\ pt' = [pt EXCEPT ![p][Heap(Last(freed[p]))] = Mapping(alloc_page, TRUE)]
  /\ free' = Rest
  /\ UNCHANGED <<machine, mem, heaps, depth, reloaded, born, alive>>

(***************************************************************************)
(* sys_user_allocate_page: a reclaimed address first, else the heap grows. *)
(* It panics when assert(va < heap_top) fails or the address is mapped.    *)
(***************************************************************************)
Malloc(p) ==
  LET reuse == freed[p] # <<>>
      i == IF reuse THEN Last(freed[p]) ELSE top[p]
      bad == (reuse /\ i >= top[p]) \/ pt[p][Heap(i)].v
  IN
  /\ Running(p)
  /\ i < MaxHeap
  /\ \/ bad /\ Stop("remap")
     \/ /\ ~bad
        /\ pt' = [pt EXCEPT ![p][Heap(i)] = Mapping(alloc_page, TRUE)]
        /\ free' = Rest
        /\ freed' = IF reuse THEN [freed EXCEPT ![p] = Front(@)] ELSE freed
        /\ top' = IF reuse THEN top ELSE [top EXCEPT ![p] = @ + 1]
        /\ UNCHANGED <<machine, mem, depth, reloaded, born, alive>>

(* Mutants of Free: free_page takes any address; PTE_V is not cleared. *)
FreeUnchecked(p, i) ==
  /\ Running(p)
  /\ i < top[p]
  /\ free' = <<lookup_pa(p, Heap(i))>> \o free
  /\ pt' = [pt EXCEPT ![p][Heap(i)].v = FALSE]
  /\ freed' = [freed EXCEPT ![p] = Append(@, i)]
  /\ UNCHANGED <<machine, mem, top, depth, reloaded, born, alive>>

FreeStillMapped(p, i) ==
  /\ Running(p)
  /\ i < top[p]
  /\ free' = <<lookup_pa(p, Heap(i))>> \o free
  /\ freed' = [freed EXCEPT ![p] = Append(@, i)]
  /\ UNCHANGED <<machine, mem, pt, top, depth, reloaded, born, alive>>

(***************************************************************************)
(* sys_user_free_page of a heap page.  free_page panics on the address 0   *)
(* of a page that is not mapped.  It does not notice a page that is free   *)
(* already: from then on the list has a cycle.                             *)
(***************************************************************************)
Free(p, i) ==
  LET pa == lookup_pa(p, Heap(i))
  IN
  /\ Running(p)
  /\ i < top[p]
  /\ \/ pa = NULL /\ Stop("fault")
     \/ pa \in Range(free) /\ Stop("corrupt")
     \/ /\ pa # NULL
        /\ pa \notin Range(free)
        /\ Len(freed[p]) >= MAX_HEAP_PAGES
        /\ Stop("overflow")
     \/ /\ pa # NULL
        /\ pa \notin Range(free)
        /\ Len(freed[p]) < MAX_HEAP_PAGES
        /\ free' = <<pa>> \o free
        /\ pt' = [pt EXCEPT ![p][Heap(i)].v = FALSE]
        /\ freed' = [freed EXCEPT ![p] = Append(@, i)]
        /\ UNCHANGED <<machine, mem, top, depth, reloaded, born, alive>>

-----------------------------------------------------------------------------
(***************************************************************************)
(* do_fork.  The heap is shared, read only for the child; the stack's top  *)
(* page and the first data page are copied; the first code page is shared. *)
(* Heap pages in free_block_filter are skipped: the freed ones, and where  *)
(* memset has not cleared it, whatever the kernel stack happens to hold.   *)
(***************************************************************************)
Uncleared(p) == {i \in 0 .. top[p] - 1 : i >= Cleared}

ChildPT(p, skip, stackPa, dataPa) ==
  [va \in VA |->
     CASE va[1] = "heap" /\ va[2] < top[p] /\ va[2] \notin skip -> Mapping(lookup_pa(p, va), FALSE)
       [] va = Stack(0) -> Mapping(stackPa, TRUE)
       [] va = Code(0) -> Mapping(lookup_pa(p, va), FALSE)
       [] va = Data(0) -> Mapping(dataPa, TRUE)
       [] OTHER -> Unmapped]

Fork(p) ==
  /\ Running(p)
  /\ born < MaxProc
  /\ \/ Len(free) < KPages + 2 /\ Stop("nomem")
     \/ Len(free) >= KPages + 2 /\ p \in reloaded /\ Stop("remap")
     \/ /\ Len(free) >= KPages + 2 /\ p \notin reloaded
        /\ LET stackPa == free[KPages + 1]
               dataPa == free[KPages + 2]
           IN
           /\ free' = SubSeq(free, KPages + 3, Len(free))
           /\ \E dirty \in SUBSET Uncleared(p) :
                pt' = [pt EXCEPT ![born] = ChildPT(p, Range(freed[p]) \union dirty, stackPa, dataPa)]
           /\ mem' = [mem EXCEPT ![stackPa] = mem[lookup_pa(p, Stack(0))],
                                 ![dataPa] = mem[lookup_pa(p, Data(0))]]
        /\ top' = [top EXCEPT ![born] = top[p]]
        /\ freed' = [freed EXCEPT ![born] = freed[p]]
        /\ depth' = [depth EXCEPT ![born] = depth[p]]
        /\ alive' = alive \union {born}
        /\ born' = born + 1
        /\ UNCHANGED <<machine, reloaded>>

(* do_exec: a new space, with one heap page; the old one is abandoned. *)
Exec(p) ==
  /\ Running(p)
  /\ \/ NewSpaces(free) = {} /\ Stop("nomem")
     \/ \E s \in NewSpaces(free) :
          \/ s.rest = <<>> /\ Stop("nomem")
          \/ /\ s.rest # <<>>
             /\ free' = Tail(s.rest)
             /\ pt' = [pt EXCEPT ![p] = [s.pt EXCEPT ![Heap(0)] = Mapping(Head(s.rest), TRUE)]]
             /\ top' = [top EXCEPT ![p] = 1]
             /\ freed' = [freed EXCEPT ![p] = <<>>]
             /\ depth' = [depth EXCEPT ![p] = 1]
             /\ reloaded' = reloaded \ {p}
             /\ Loaded({s.pt[va].pa : va \in ImageVA} \union {Head(s.rest)})
             /\ UNCHANGED <<machine, born, alive>>

(***************************************************************************)
(* sys_user_exec1 loads over the caller's image.  elf_alloc_mb frees the   *)
(* first page of each segment and takes pages for the new one, and with    *)
(* two pages meets the second page of the old one.  elf_load records the   *)
(* segments in mapped_info again: a later fork would map them twice.       *)
(***************************************************************************)
Exec1(p) ==
  LET olds == {lookup_pa(p, Code(0)), lookup_pa(p, Data(0))}
  IN
  /\ Running(p)
  /\ \/ olds \intersect Range(free) # {} /\ Stop("corrupt")
     \/ ImagePages = 2 /\ pt[p][Code(1)].v /\ Stop("remap")
     \/ /\ olds \intersect Range(free) = {}
        /\ ImagePages = 1 \/ ~pt[p][Code(1)].v
        /\ \E c \in TakeImage(<<lookup_pa(p, Code(0))>> \o free) :
             \E d \in TakeImage(<<lookup_pa(p, Data(0))>> \o c.rest) :
               /\ free' = d.rest
               /\ pt' = [pt EXCEPT ![p] = [va \in VA |->
                           CASE va[1] = "code" -> Segment(c.pages, va[2])
                             [] va[1] = "data" -> Segment(d.pages, va[2])
                             [] OTHER -> pt[p][va]]]
               /\ Loaded(Range(c.pages) \union Range(d.pages))
        /\ reloaded' = reloaded \union {p}
        /\ UNCHANGED <<machine, heaps, depth, born, alive>>

(* sys_user_exit: nothing is reclaimed. *)
Exit(p) ==
  /\ Running(p)
  /\ alive' = alive \ {p}
  /\ UNCHANGED <<machine, free, mem, pt, top, freed, depth, reloaded, born>>

-----------------------------------------------------------------------------
(* A function call or return moves the stack pointer by a page. *)
MoveStack(p) ==
  /\ Running(p)
  /\ \E d \in 1 .. MaxStack :
       /\ d \in {depth[p] - 1, depth[p] + 1}
       /\ depth' = [depth EXCEPT ![p] = d]
  /\ UNCHANGED <<machine, free, mem, pt, heaps, reloaded, born, alive>>

(* Every address but a stack page in use is below the stack pointer. *)
BelowStack(p, va) == ~(va[1] = "stack" /\ va[2] < depth[p])

(* The pages a program stores to: not its code. *)
Writable == {va \in VA : va[1] # "code"}

(* A store that the page table lets through. *)
Store(p, va, x) ==
  /\ Running(p)
  /\ pt[p][va].v /\ pt[p][va].w
  /\ \/ pt[p][va].pa = NULL /\ Stop("fault")
     \/ pt[p][va].pa \in Range(free) /\ Stop("corrupt")
     \/ /\ pt[p][va].pa \notin Range(free) \union {NULL}
        /\ mem' = [mem EXCEPT ![pt[p][va].pa] = x]
        /\ UNCHANGED <<machine, free, pt, heaps, depth, reloaded, born, alive>>

(* Mutant of StoreFault: the page is made writable where it is. *)
StoreFaultInPlace(p, va) ==
  /\ Running(p)
  /\ pt[p][va].v /\ ~pt[p][va].w
  /\ pt' = [pt EXCEPT ![p][va].w = TRUE]
  /\ UNCHANGED <<machine, free, mem, heaps, depth, reloaded, born, alive>>

(* handle_user_page_fault for CAUSE_STORE_PAGE_FAULT. *)
StoreFault(p, va) ==
  /\ Running(p)
  /\ ~(pt[p][va].v /\ pt[p][va].w)
  /\ \/ BelowStack(p, va) /\ lookup_pa(p, va) = NULL /\ Stop("fault")
     \/ /\ ~BelowStack(p, va) \/ lookup_pa(p, va) # NULL
        /\ pt' = [pt EXCEPT ![p][va] = Mapping(alloc_page, TRUE)]
        /\ free' = Rest
        /\ UNCHANGED <<machine, mem, heaps, depth, reloaded, born, alive>>

(* The steps that leave the pages of other processes alone. *)
Ordinary(p) ==
  \/ Malloc(p) \/ Fork(p) \/ Exec(p) \/ Exit(p) \/ MoveStack(p)
  \/ \E va \in Writable : StoreFault(p, va) \/ \E x \in Val : Store(p, va, x)

Next ==
  \E p \in Proc :
    Ordinary(p) \/ Exec1(p) \/ \E i \in 0 .. MaxHeap - 1 : Free(p, i)

Spec == Init /\ [][Next]_vars

(***************************************************************************)
(* The discipline that the kernel needs and does not enforce: a process    *)
(* frees a heap page, or loads over its image with exec1, only while no    *)
(* other live process shares the page.                                     *)
(***************************************************************************)
Maps(p, va, pa) == pt[p][va].v /\ pt[p][va].pa = pa

Unshared(p, va) ==
  \A q \in alive \ {p}, vb \in VA : ~Maps(q, vb, lookup_pa(p, va))

NextUnshared ==
  \E p \in Proc :
    \/ Ordinary(p)
    \/ Unshared(p, Code(0)) /\ Exec1(p)
    \/ \E i \in 0 .. MaxHeap - 1 : Unshared(p, Heap(i)) /\ Free(p, i)

UnsharedSpec == Init /\ [][NextUnshared]_vars

-----------------------------------------------------------------------------
(* Properties *)

(* TypeOK: every variable has its type. *)
TypeOK ==
  /\ machine \in {"run", "nomem", "remap", "fault", "overflow", "corrupt"}
  /\ free \in Seq(Page)
  /\ mem \in [Page -> Val]
  /\ pt \in [Proc -> [VA -> PTE]]
  /\ top \in [Proc -> 0 .. MaxHeap]
  /\ freed \in [Proc -> Seq(0 .. MaxHeap - 1)]
  /\ depth \in [Proc -> 1 .. MaxStack]
  /\ reloaded \subseteq 0 .. born - 1
  /\ born \in 1 .. MaxProc
  /\ alive \subseteq 0 .. born - 1

(***************************************************************************)
(* g_free_mem_list is a list of free pages (pmm.c:24): no page is in it    *)
(* twice, and no live process has a page of the list mapped.               *)
(***************************************************************************)
FreeUnmapped ==
  /\ machine # "corrupt"
  /\ IsInjective(free)
  /\ \A p \in alive, va \in VA, i \in DOMAIN free : ~Maps(p, va, free[i])

(***************************************************************************)
(* Whatever is forked, written, freed and reallocated, a page that one     *)
(* process can write is not writable at another address, in its own table  *)
(* or in another live process's: that is what PROT_COW is for.             *)
(***************************************************************************)
OneWriter ==
  \A p, q \in alive, va, vb \in VA :
    /\ pt[p][va].v /\ pt[p][va].w /\ pt[p][va].pa # NULL
    /\ Maps(q, vb, pt[p][va].pa) /\ pt[q][vb].w
    => p = q /\ va = vb

(***************************************************************************)
(* The heap manager and the page table agree, in children as well, so that *)
(* neither assert(va < heap_top) nor "map_pages fails!" can stop a malloc: *)
(* a heap page that is mapped is below heap_top and not reclaimed.  The    *)
(* converse holds for the pages whose filter entry do_fork has cleared; a  *)
(* child may lack the others (process.c:244).                              *)
(***************************************************************************)
HeapAgrees ==
  \A p \in alive :
    /\ IsInjective(freed[p])
    /\ \A i \in 0 .. MaxHeap - 1 :
         LET inUse == i < top[p] /\ i \notin Range(freed[p])
         IN /\ pt[p][Heap(i)].v => inUse
            /\ inUse /\ i < Cleared => pt[p][Heap(i)].v
=============================================================================
