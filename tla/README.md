# A TLA+ model of the HUST_OS kernel

HUST_OS is a RISC-V proxy kernel (riscv-pke with its labs and challenges worked
out): one hart, user processes behind page tables, a round-robin scheduler,
semaphores, a heap, copy-on-write fork, and a small VFS over a RAM disk and the
host's files. This directory holds TLA+ models of it, TLC configurations that
check them on small instances, and TLAPS proofs for instances of any size.

## 1. The system and its parts

| Part | Source | Module | Status |
|---|---|---|---|
| Scheduler, process life cycle | `kernel/sched.c`, `kernel/process.c` | `Queue`, `Sched`, `SchedInv` | modelled, proved |
| Semaphores of user programs | `kernel/syscall.c:48-93`, `sched.c:232-265` | `Sched` | modelled, proved |
| Round-robin timer | `kernel/strap.c:142-158`, `machine/mtrap.c` | `Sched` | modelled, proved |
| Trap entry, dispatch, results | `kernel/strap.c`, `syscall.c:1013-1088` | `Sched` | partly |
| User programs on these calls | `user/app_wait_challengex.c`, `app_semaphore_challengex.c`, `app_shell.c` | `UserApp`, `MCApps` | modelled |
| Page allocator, page tables, heap, copy on write, page faults | `kernel/pmm.c`, `vmm.c`, `syscall.c:727-756`, `strap.c:93-137` | `Memory` | modelled, proved |
| Program loading | `kernel/elf.c` | `Memory` (pages), `UserApp` (effect) | partly |
| Harts, barriers, boot | `kernel/sync_utils.h`, `kernel.c`, `machine/minit.c` | `Harts`, `Barrier` | modelled, proved |
| VFS, hash table | `kernel/vfs.c`, `util/hash_table.c` | `Vfs`, `FileStore` | modelled |
| RAM file system, RAM disk | `kernel/rfs.c`, `ramdev.c` | `Rfs`, `Vfs` | modelled |
| Process file table, cwd | `kernel/proc_file.c` | `Vfs` | partly: no working directory |
| Host files | `kernel/hostfs.c`, `spike_interface/spike_file.c` | `HostFs` | partly: handles |
| Sub-page heap | `kernel/syscall.c:96-473` | | not modelled, see section 5 |
| HTIF, device tree, backtrace, error lines, formatting, strings | `spike_interface/`, `util/` | `Rfs` (`strcpy`) | not modelled otherwise: I/O and output |

A trap enters `smode_trap_handler`, which dispatches to a system call, the timer
or the page fault handler. A handler runs with interrupts off until `sret`, so a
handler, with the `schedule()` and `switch_to()` at its end, is one step. Between
two traps a process may do anything: the models let it make any call. The
exception is `UserApp`, where the calls are those of three real programs. At the
start of the machine there are no handlers yet: `Harts` interleaves the harts in
smaller steps.

The hazards, with the line where each bites and the properties that watch it,
are in `PROJECT.json`.

## 2. The modules

### `Sched` (with `Queue`): processes

State: the fields of `struct process` as functions over control blocks (`status`,
`pid`, `parent`, `sem`, `tick`, `ctx`), `readyQ` and `waitQ` (the two chains through
`queue_next`), `current`, the semaphores `l` and `len`, and `a0`, the register in
which a call's result is delivered.

The point that needs most care is the *control block copy*. When a process exits,
`schedule(1)` looks for its parent in the wait queue and resumes it, not through
its entry of `procs[]`, but through `t`, a copy in `schedule()`'s own frame. That
frame is on the kernel stack of the process that exits. A control block is therefore
an entry `0 .. NPROC-1` or the copy `Copy(k)` on the k-th kernel stack. `ctx[p]` names
the pages (kernel stack, trapframe, page table) that `p` runs on; exec changes them.

| Action | Code |
|---|---|
| `Yield`, `Tick` | `sys_user_yield`; timer trap, `rrsched` |
| `Fork`, `Exec`, `Wait`, `Exit` | `do_fork`, `do_exec`, `process_wait`, `sys_user_exit` with `schedule(1)` |
| `SemNew`, `SemP`, `SemV` | `sys_user_sem_new`, `_P`, `_V` with `wake_wait_queue` |

`machine` says whether a process runs, or how the machine stopped: shutdown, panic,
a failed assertion, or one of two NULL dereferences in S mode.

`SchedInv` has the inductive invariant `IInv`; `SchedClaims` what comments say and the
code does not do; `UserApp` puts programs, given as sequences of instructions, on top of
`Sched`: it adds a program counter, saved results and the output, and its actions conjoin an
instruction with the call of `Sched` it makes. `MCApps` holds the three programs; the
variable `app` says which of them runs.

### `Memory`: user memory

State: the free list as a sequence of pages, the content of a page (one word), a page
table per process over the virtual pages of four regions (heap, stack, code, data),
the heap manager (`top`, `freed`), the depth of the stack, and the processes whose
image regions are recorded twice (`reloaded`). Any live process may act at any time.
Actions: `Malloc`, `Free`, `Fork`, `Exec`, `Exec1`, `Exit`, `MoveStack`, `Store`,
`StoreFault`. `MoveStack` and `Store` are instructions of the program. A load page
fault changes nothing, and so is a stutter here; the real process repeats it for ever.

Abstracted: the levels of the page table and the pages they take, and the four pages of a
process that the user cannot reach (`KPages` counts those the model should reserve).

`UnsharedSpec` adds the discipline the kernel needs and does not enforce: a process frees
a heap page, or execs over its image with exec1, only while it does not share it.

### `Rfs` and `Vfs`: files on the RAM disk

`Rfs` says what `rfs.c` computes, as operators on a disk: the block map, directory entries
in blocks, reads put together from parts of blocks, writes through the i/o buffer. `Vfs` has
the state (disk inodes, blocks, map, i/o buffer, the dentry and vinode caches, the
descriptor table of each process) and one action per call: `Open`, `Close`, `Read`, `Write`,
`Lseek`, `DiskStat`, `Link`, `Unlink`, `Mkdir`, `Opendir`, `Readdir`, `Closedir`, and
`Abandon` for the table that exec and exit leave behind.

A block is `BLKSIZE` cells; a cell holds a directory entry or file data. So a directory
and a file fill blocks in the same way as in the code, where both are made of bytes.
A hash table is the set of its entries; a dentry is found by its path, a vinode by its
inode number, as the hash keys have it. `sys_user_read` and `sys_user_write` cut a
buffer at page boundaries and call `do_read` and `do_write` for each piece: a piece is a
`Read` or `Write` here. A program uses descriptors it holds (`get_opened_file` does not
check the number). `machine` says why the kernel stopped: a failed assertion, a full disk,
directory or table, a use of a directory copy that was freed, or a read through NULL.

`rfs_read` and `do_read` hand data over with `strcpy`: `CString` cuts it at the first zero
byte (`Zero`, one of the values of a cell) while the length returned counts all of it.

`rfs_link` ignores that `rfs_add_direntry` refuses a parent that is a file. `Link` does
what the code does then: the link count rises, the inode is written back, the name is cached,
no entry is made, and the call succeeds. `Unlink` of such a name finds no entry and
fails, or reads through NULL if the file is empty (`NotFound`, rfs.c:631). `MCVfs`
checks programs that link only below directories, which the kernel does not enforce, and
`MCFiles` has names in the root only; `VfsClaims` is about the others.

`FileStore` is the abstract specification: names stand for files, a file is a sequence of
cells, a descriptor is a place in a file. `MCFiles` shows that `Vfs` implements it. The
mapping reads a name from the entries of the root directory, the cells of a file through its
cached vinode if there is one and its disk inode otherwise, and a descriptor from the
table. What it cannot hide is the constant `Slack`: a write may change up to a block less
one cell behind its data (run `claim_write_only_data`). With that, everything else of
the store is exact: other files, other descriptors, and the cells before and in the data.

### `HostFs`: handles on host files

`spike_files[]` and `spike_fds[]`, the descriptors the host has open, and the cached dentries
and vinodes of host names, under `Open` and `Close`. What the host does is external: it gives
its lowest free descriptor, or refuses a name it does not know.

### `Harts` and `Barrier`: the start of the machine

`Harts` follows N harts from `m_start` to their first process. Each instruction on a shared
counter is a step (the `lw` and the `amoadd` of `sync_utils.h` are separate steps), and so
are the read and the write of the head of the free list. The search of `procs[]`, the walk along the ready
queue, the writes that link an entry in and those that take it off are one step each. That loses
nothing while one hart is in the section; once two have been, `raced` says so, and the model
goes on with coarser steps than the code. `up` records what hart 0 has initialised, `mine`
the pages a hart has taken, `proc` the entry it has found. The free list does not run out at the start, and
`Image` counts the calls of `alloc_page` for segments of up to a page. `config.h` sets N to 1; the
code is written for more, and the model and its proofs take any N. `Barrier` is the abstract
barrier, with the sets of harts that have arrived and left.

## 3. What TLC checks

Runs that pass:

| Run | Instance | What it shows |
|---|---|---|
| `sched` | 3 entries, 1 semaphore | `QueueDiscipline`, `ReadyAssertHolds`, `DistinctLive`, `StackCopySafe`, `ShutdownOnlyWhenDone`, `NoProcessLost`, `WaiterHasChild` whatever three processes call and wherever the timer strikes; and `IInv`, the invariant of the proofs; with a timer that keeps firing, no process in the ready queue starves (`ReadyRuns`) |
| `apps` | 7 entries, slice of 2, 3 semaphores; all 10 rounds, 3 commands | `app_wait_challengex.c` prints grandchild, child, parent (`ChildrenPrintFirst`) and ends in shutdown (`FamilyTerminates`); the shell's script runs to its end (`ScriptCompletes`); the semaphores print in turn (`PrintInTurn`) and every round completes (`RoundsComplete`), wherever the timer interrupts |
| `memory` | 7 pages, 2 processes, 2 heap and 2 stack pages | `FreeUnmapped`, `OneWriter`, `HeapAgrees` under the discipline |
| `vfs` | 2 processes, 5 blocks of 2 cells, 5 inodes | for programs that link only below directories: the disk stays a tree with counted links (`TreeSound`); the caches agree with it (`CacheAgrees`), their counts are right (`RefCounts`), a descriptor is free when the count says so (`OpenFindsSlot`), no assertion fails (`NoAssert`) |
| `files` | 2 names, 2 descriptors, files of up to 2 blocks | `ReadExact`: a read returns the number of cells there are and delivers them up to the first zero; `ImplementsFileStore`: the refinement; while files grow and are linked and unlinked, no block has two owners (`BlocksOwned`), `CacheAgrees` and `NoAssert` |
| `harts` | 2 harts, 2 entries, 2 + 2 allocations each | `BootOrder`, `SemBalance`, `ImplementsBarriers` (refinement of `Barrier`, twice); unless two harts get into one section, each has its own entry and pages and runs that entry (`OwnProcess`), and all get to a process (`Boots`); and `IInv`, `OwnInv`, the invariants of the proofs |

Runs that end in a violation show where a comment and the code disagree; `PROJECT.json`
quotes the comment for each.

| Run | What happens |
|---|---|
| `claim_no_null_dispatch` | an exit with nothing ready, and waiting processes none of which is the parent, dispatches the NULL head of the ready queue |
| `claim_v_wakes_next` | a V with two sleepers wakes nobody |
| `claim_cow_copies` | the copy-on-write fault maps a new page and copies nothing |
| `claim_write_only_data` | a write that starts at a block boundary and ends inside the block destroys the rest of it |
| `claim_links_counted` | a link to a name below a file succeeds, raises the file's link count and makes no entry |
| `claim_handle_open` | three descriptors of a host file, two closes: the third has lost its handle |

The actions show further deviations that no run is spent on, since each is a single
guard or assignment: exec leaves its caller running as a ZOMBIE (`FreeP`, process.c:210);
a call that blocked returns its own number (`Block`, process.c:371); a parent resumed as a
copy is told by wait(-1) that it has no child (`Matches`, process.c:349); wait does not
reclaim (`Wait`, process.c:356); the parent's stores show in the child (`ChildPT`,
process.c:271); a child's exit gets its parent past a P that nobody answered (`WakeParent`,
sched.c:84); exec changes the pid that the shell waits for, so that it reports the end of a
command that has not printed (`Exec`, syscall.c:501); the heap may outgrow `free_pages_address` (`Free`, syscall.c:754); fork loses
the second page of a segment (elf.c:313) and the deeper pages of the stack (process.c:237),
may lose heap pages above the eighth (`Uncleared`, process.c:244), and panics after exec1
(`reloaded`, elf.c:312). In the file system: a link's dentry that nobody opened keeps a
vinode from being written back at the last close (`Close`, vfs.c:383; the cached vinode still
serves later opens); two opendirs of a directory share the newest copy and the second closedir
frees it again (`Closedir`); a directory never gets a second block (`DirFull`, rfs.c:216);
nothing closes the files of a process that ends (`Abandon`); a host file that is opened and
closed once stays open on the host (`spike_file_close`, spike_file.c:49), and a host name that
could not be opened once is a directory from then on (`hostfs_lookup`), so that O_CREAT
never creates a host file. With more than one hart, `sem_P` lets two harts in when both read
before either subtracts (`P5`, `Sub5`), and the ready queue has no lock: the counters stay
balanced, but two harts may take one page or one entry, and a process may drop out of the
queue. `OwnProcess` and `Boots` say nothing of the time after that. NCPU is 1.

**Bounds.** Three processes are the least with a waiting parent, an exiting child and a
bystander in a queue; the proofs cover any number. The
run `sched` sets `TIME_SLICE_LEN` to 1, so that the timer may preempt at every
instruction; for safety the real 2 gives a subset of these behaviours. For `ReadyRuns` that
is no argument: it was checked once by hand with a slice of 2 as well (3.5 million states,
`MaxVal` 1), which takes too long to be a run. `apps` uses the real 2. `MaxSem` stands in for the 99 usable entries of `l`, and `MaxVal`
bounds V. In `memory` seven pages let a process allocate, fork, fault, free and reuse a page,
and let the memory run out; `MAX_HEAP_PAGES` is 1 there so that the list of freed
addresses does fill up, and `Cleared` is 1 for 8 so that a fork meets the part of its
filter that is not cleared. In `vfs` and `files` blocks of two cells make one write cross a block
boundary and three entries fill a directory; five blocks let the disk fill up. `vfs` splits
the calls into three scenes (names in two levels, directories that are read, one file's data in
every mode), since all calls at once are beyond TLC; `files` takes names and data together, in
one directory. `MaxRef` and `MaxOpens` bound the opens that are never closed. The two
processes of `vfs` and the two names of `files` are symmetric. Two harts meet
in every section; three or more are beyond TLC with the queue and the pages modelled, and
the proofs cover any number for everything but `Boots`.

**Fairness.** `WF(Tick)`: the timer is raised by hardware whatever the programs do and
`handle_timer` re-arms it each time. In the program runs also weak fairness of the
program's next instruction: a hart in user mode keeps executing. In `harts` each hart goes on
executing instructions, and a spinning hart reads again: weak fairness of each hart's step.
Deadlock is not checked where the machine may stop (shutdown, panic), where the bounds
of the file runs are reached, and where all harts have entered their processes.

## 4. What is proved

`SchedProof` proves, for every `NPROC`, slice, number of semaphores and bound on them,
that `IInv` is an invariant of `Sched`, and from it every safety property of the run
`sched`: `TypeCorrect`, `QueuesSafe`, `AssertSafe`, `IdentitySafe`, `CopySafe`,
`ShutdownSafe`, `NothingLost`, `WaitSafe`. The assumptions are that `NPROC` and the
slice are positive and the two bounds natural numbers.

Why the properties are not inductive, and what `IInv` adds:

- A copy is safe because the stack it lies on belonged to a process that has exited
  and will not be used again. `Identity` therefore says that the copy slot of every live
  context was never used, and `FreeFresh` that nothing at all (a pid, a parent pointer, a
  context, a copy) refers to a FREE entry, since fork and exec take theirs from there.
- Entries of `procs[]` and live processes correspond by pid, not by address. `Accounted`
  says that each active entry stands for a live process with its pid *and its parent*.
- exec leaves `USED` entries behind; `Accounted` says that they are nobody's child, so that
  wait never blocks on one.
- A waiter has a live child (`Awaited`), also when the exiting process was the only one
  wait had found: the exit wakes the waiter in the same step.

A handler passes through states in which the old process is queued and the new one not
yet chosen. `Consistent` is therefore stated over explicit values; `DispatchOK` and the
lemmas on `GiveUp`, `Block` and `RunHead` carry it through `schedule()`, and there is one
lemma per action. The first lemmas of the module are facts about appending, unlinking,
heads and tails of sequences without repetition.

`HartsProof` proves for every number of harts (and of allocations) that `IInv` is an
invariant of `Harts`, and from it `BootInOrder`, `SemaphoresBalanced` and
`BarriersImplemented`: both uses of `sync_barrier` implement `Barrier`. `BootOrder` is not
inductive: that a hart beyond the barrier finds hart 0's work done depends on the counter
being the number of harts that have arrived (`Counted`), on everybody having arrived once
somebody has left (`AllArrived`), and on hart 0 working before it arrives (`WorkDone`). The
lemma `Moved` says how one instruction changes the number of harts at a set of labels, `InStep`
that each instruction changes the counters in the same way; `StepShape` shows this for each
instruction, and everything else follows from it. None of this depends on whether the
harts race.

`ProcessesOwned` (that is `OwnProcess`) does, and rests on a second invariant, `OwnInv`. While
no section has been crowded, the pages taken lie behind the head of the free list and a hart
about to move the head has read it (`PagesOwn`); an entry that is not FREE is some hart's, with the
status that hart's place implies (`EntriesOwn`); and the ready queue is empty or holds the one entry
of the hart that is about to run it (`QueueOwn`). That the search finds a FREE entry is a
pigeonhole argument: the entries in use belong to the other harts, and there are no more harts than
entries. The assumptions are that the four constants are positive and `N <= NPROC`.

`MemoryProof` proves for any number of pages, processes and heap and stack pages, and for image
segments of one and of two pages: `TypeCorrect`, `HeapConsistent` (`HeapAgrees`) and `MallocSafe`
(no malloc stops the machine) for `Spec`, whatever the processes do; and `FreeListSound`
(`FreeUnmapped`) and `CopyOnWriteSound` (`OneWriter`) for `UnsharedSpec`, the discipline. The
first three follow from an invariant `Inv` of page tables and heap managers alone. The other two
add `Apart`: besides the two properties it says that a page mapped by two processes is mapped
at the same address in both (`SamePlace`).

Only model-checked: liveness (`ReadyRuns`, `FamilyTerminates`, `ScriptCompletes`,
`RoundsComplete`, `Boots`), which is out of the prover's reach, the programs and the file
systems.

## 5. Not modelled

- **Sub-page heap** (`better_malloc`, `better_free`, syscall.c:96-473). It keeps two lists
  whose nodes are copies of each other and drift apart, looks at one block of a page only,
  marks an exact fit without returning it, and advances the next page by a size in bytes. What it
  does beyond the three calls of `app_singlepageheap_challengex.c` depends on raw memory
  contents, and nothing says what it should do.
- **Working directory** (`sys_user_rcwd`, `sys_user_ccwd`, proc_file.c:228): string functions on
  top of absolute paths. The name is kept in the shared root dentry, so one process's change is
  everybody's.
- **Data of host files, HTIF, device tree**: I/O with the emulator.
- **ELF and DWARF decoding, backtrace, error lines, formatting, strings**: they hold no state
  that the properties depend on.
- **Page table levels and the kernel's own mapping**: `Memory` maps virtual to physical pages.
- **Files across fork**: `do_fork` copies no descriptors (`alloc_process` gives the child an
  empty table), so the tables of `Vfs` are independent.

## 6. What would come next

Inductive invariants for `BlocksOwned` and `RefCounts` of `Vfs`, with their proofs, and a model of
the sub-page heap.
