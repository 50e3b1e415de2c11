# Lizarx: specifications, model checking and proofs

Lizarx is a small SMP operating system for x86 and x86_64: a kernel
(`src/src/kernel`) with one run queue per processor, virtual memory, and System V
style IPC; a user library, hlib (`src/src/usr/hlib`); a file-system daemon
(`src/src/usr/Daemons/VFS`); and a test program (`src/src/usr/VFS_unit_test`).
These modules state what its parts promise, from the mode the processors are
brought into to the files a program opens, check that on small instances with TLC,
and prove the most important part for every size with TLAPS.

Run a configuration with `tlc -config MCScheduler.cfg MCScheduler.tla`, a proof
with `tlapm SchedulerProofs.tla`.  `PROJECT.json` lists the runs, the theorems,
and for each definition the lines of code it stands for.

## Inventory

| Component | State | Operations | What is hard | What makes it correct |
|---|---|---|---|---|
| Spinlock, `lib/libOS/lock.h` | one byte; register AL | `spinlock_ackquire`, `spinlock_release` | instructions of several processors interleave; AL is not loaded | exclusion; somebody gets in |
| Array list, `lib/libOS/list.c` | chain of chunks, count per chunk | add, remove, get by index or value, count | long histories of holes and full chunks | walks end, index and count agree |
| Threads and scheduler, `mt/threads.c`, `mt/proc.c`, `mt/sched.c`, `intr/irq.c` | list, current thread, index and load per processor; state and registers per thread; processes | create, dispatch, move, sleep, wakeup, exit | tests outside the lock, wakeups between sleep and dispatch, address spaces of dead processes | a thread is on one list, runs once, with its own registers; everyone gets a turn |
| System calls, `intr/syscall.c` | saved registers | dispatch of 21 calls | registers are saved before the lock is taken | as above |
| Semaphores, `ipc/sem.c` | value, list of sleepers | `semget`, `semop` | order of ups and downs, wake loop over a shrinking list | exclusion; sleepers get in |
| Message queues, `ipc/msg.c` | chains of heap blocks | `msgget`, `msgsnd`, `msgrcv` | blocks are used again; size must match | FIFO; no block lost or shared |
| Shared memory, `ipc/shm.c` | segments | `shmget`, `shmat` | pages survive the creator or not | same pages for everyone |
| Kernel heap, `mm/vheap.c` | list of blocks | `kmalloc`, `kfree`, `vheap_enlarge` | splitting; endless loop when full | blocks disjoint, inside the heap |
| Physical memory, `mm/pmm.c` | stack of pages | `pmm_malloc_4k`, `pmm_free_4k` | empty stack | a page has one owner |
| Virtual memory, `mm/vmm.c` | free ranges and tables per context, stack of ranges to invalidate | map, malloc, free, share, delete, `sync_addr_space` | TLBs of other processors, merging of ranges | a range is reused only when no TLB knows it |
| Boot, `boot/init.c`, `local_apic.c`, `trampoline.S` | count of processors, two locks, list of processors | start of the processors, loading of programs | hand-over of a lock from processor to processor | all come up, one after the other |
| ELF loader, `mt/elf.c` | none | `init_elf`, symbol search | none: sequential | process and thread in pairs |
| Exceptions, `intr/err.c` | `err_ocurred` | handler | every processor must stop | machine halts |
| VFS daemon, `Daemons/VFS/vfs.cpp` | open files, mounts, its queue | `loop`: open, read, write | two queues, a semaphore and a wakeup between two programs | every request is answered |
| tmpFS, `FS/tmpFS/tmpfs.cpp` | archive in memory | open, pread, pwrite | none: sequential | finds the file of the path |
| hlib | a client's queue, semaphore, open files | `hlib_open`, `hlib_read`, `hlib_write`, ... | readers and writers in shared memory | open returns; readers exclude writers |
| Dynamic linker, `usr/ld_a/ld.c` | loaded images | symbol hash, relocation | tables made by another program | finds the symbol |
| Interrupt stubs, `intr_stub_*.S`, `syscall.S` | registers and frames on the stack | entry, return | every register has its place; sysret restores less than iret | a thread goes on with its own registers |
| Loader, `boot_longmode.c`, `easy_map.c`, trampoline | GDT, page tables, control registers | mode switches | code runs where it was copied to, in the mode it was assembled for | the processor arrives |
| Console, `drv/vga-txt_graphics/vram.c` | screen memory, cursor | `kputc`, `kprintf` | the end of a line, the last line | what is printed last is shown |
| Clock, `hwtime.c`, `lib/time.c` | registers of the clock | `get_time`, `mktime`, `gmtime_r` | nobody calls it: init.c:129-134 is commented out | not modelled |
| Memory functions, `lib/string.c` | none | `memcpy`, `memmove`, `memset` | tails, overlap, words | the bytes meant, no others |
| Tables and identification | GDT, IDT, cpuid | | data layouts | |

How they interact: programs enter the kernel through `handle_syscall`, the timer
through `handle_irq`; both call `schedule`.  Semaphores call `sleep` and `wakeup`
of the scheduler while they hold `sem_atomic`.  Message queues, threads and
processes take memory from the heap, the heap from virtual memory, that from
physical memory, each under a lock of its own.  The daemon and its clients share
nothing but queues, semaphores, the wakeup of thread 2 and the pages of opened
files.  The hazards this leads to are listed with their lines in `PROJECT.json`.

## Modules

| Module | Stands for | State |
|---|---|---|
| `ModeSwitch` | `boot_longmode.c`, `easy_map.c`, the trampoline, the descriptor tables | instructions, control registers, page tables |
| `Boot` | `init.c`, `check_mp`, `startup_APs`, `init_gdt_AP` | program counter per processor, two locks, counts, `cpu_list` |
| `Pmm` | `pmm.c` and the loader's cutting of the memory map | the map, the modules, the stack of free pages |
| `FreeRanges` | operators on `mm_stack`: search, take, push, merge | |
| `KernelSpace` | the ranges of the kernel's space, freed pages, `sync_addr_space` | `mm_stack`, `vmm_lock` and what its owner has found, the stack of ranges to invalidate, `invld_lock` and where its owner's loop is, TLBs |
| `Contexts`, `ContextDelete` | page tables, contexts, stacks, heaps and segments; `vmm_delcontext` | tables, frames, the spaces of the processes |
| `Heap` | `vheap.c` | `blocks`, `stuck`; history `overlapped` |
| `Allocator` | what a heap promises | `given` |
| `Spinlock` | `lock.h`, `lock.c`, one step per instruction that touches the byte | `lock`, `al` and `pc` per processor; history `stolen` |
| `KernelLocks` | the locks each call of the kernel takes and gives back, in order | call and place per processor, `owner` |
| `Interrupts` | the stubs and handlers on x86 and x86_64 | registers, frames, threads |
| `SlotRow`, `SlotList` | what a list promises: a row of slots | `list` |
| `AList` | `list.c`, and the template `OO/AList.h`, as they are stored | `chunks` |
| `Threads` | what the scheduler promises: sequential threads that block and are woken | `status`, `progress` |
| `Scheduler` | `threads.c`, `proc.c`, `sched.c`, and the calls leading there | as in the code, see below |
| `Semaphore` | `sem.c` as `Sem::up` and `Sem::down` use it | `semval`, `asleep`, `exc_state`; history `counted` |
| `MessageQueues` | what queues promise | `queue`, `received` |
| `MsgQueue` | `msg.c` as it is stored | `first_message`, `next`, `body`, `allocated` |
| `FileOpen` | daemon and client, one step per system call | queues, semaphores, two program counters, the shared file |
| `Descriptors` | the descriptors of a program in `hlib_vfs.c`, kept in the list of `AList` | `chunks`, `file_header`, where `hlib_stat` is; histories `handed`, `statted` |
| `TmpFS` | `tmpfs.cpp`, mounts, the boot archive | `nodes`, their blocks, `mount_points`; histories `faulted`, `torn` |
| `FileStore` | what a file system promises the daemon | what is found under each path, `answer`, which directories are `torn` |
| `Linker` | `ld.c`, `elf.c`: loading, relocation, symbol search | memory cell by cell, images |
| `Console`, `Strings` | `vram.c` and `stdlib.c`; `string.c` | screen and cursor; bytes, with histories `astray`, `repeated` |
| `MC*` | the instances for TLC | |
| `MachineProofs` | the theorems about `Spinlock`, `KernelLocks`, `Interrupts`, `Strings` and `Console` | |
| `ListProofs` | those about `AList` and `Descriptors` | |
| `IpcProofs` | those about `Semaphore` and `MsgQueue` | |
| `BootProofs` | those about `Boot` and `Pmm` | |
| `HeapProofs`, `KernelSpaceProofs`, `SchedulerProofs`, `FileOpenProofs` | those about the module of the name | |

`AList` implements `SlotRow`, whose operators (`SlotList`) the scheduler and the
semaphores are written with.  `Scheduler` implements `Threads`; `FileOpen` is
written in the terms of `Threads` (a wakeup of a thread that is awake is lost), of
`Semaphore` and of `MessageQueues`.  `Heap` implements `Allocator`, whose blocks
`MsgQueue` is built on; `MsgQueue` implements `MessageQueues`; `TmpFS` implements
`FileStore`; `Descriptors` extends `AList`.  `KernelSpace` and
`Contexts` are written with `FreeRanges`.  An MC module puts several modules that
share nothing next to each other: its variable `subject` says which one a behaviour
is about, and the others stand still.  It extends the modules there are theorems
about (`MCMachine` those of `Spinlock`, `KernelLocks`, `Interrupts`, `Strings`, `Console` and
`Descriptors`; `MCStructures` `Heap`, `AList` and `MsgQueue`; `MCSystem` `Semaphore`,
`Boot`, `Pmm` and `FileOpen`), so that a property a
run checks and the property a theorem states are the same definition, and the
assumptions of the theorems are evaluated; the rest it instantiates.

Next to some definitions stands a *slip*: the same definition with a mistake a
programmer might make.  No specification uses them; `PROJECT.json` says which
property fails when a slip takes the definition's place, which shows that the
property depends on the code being as it is.

### Scheduler

Variables have the names of the fields: `thread_list`, `thread_count`,
`current_thread` and `current_thread_index` are those of `struct cpu_info`,
`exc_state` and `state` those of `struct thread`; `cpu_state` are the registers a
processor runs with, `cr3` the address space it has loaded.  Registers are
represented by their owner and by one bit, which every step of the program flips:
that is enough to tell a register set from another thread's and from one that is
one step older.  `done` records the bit a thread should have.

All shared state is changed under `multi_threading_lock`, so a critical section is
one step, enabled when no other processor is in the loop of `dispatch_thread`,
which alone is split into steps (`pick`, `move`) that keep the lock.  What happens
outside the lock is a step of its own: the first test of `dispatch_thread`
(threads.c:178), the saving of registers in SYS_SLEEP and SYS_SEMOP
(syscall.c:107), the timer interrupt.  A spinning processor is one whose next step
is not enabled.  Interrupts are off in the kernel.

`Scheduler` takes the lock to be exclusive.  `Spinlock` shows when it holds:
as long as no `cmpxchg` runs with 1 in AL on a byte that is 1.

`init_elf` creates a process with one thread for each program and nothing else
creates either, so a process and its thread share a number.  Programs do anything:
a step of their own, SYS_SLEEP if they are in `MaySleep`, SYS_WAKEUP of any
thread, SYS_EXIT.

### Memory

Addresses are counted in pages and tables have `Fan` entries.  In `KernelSpace` the
search of `kvmm_malloc` and its change of the entry found are two steps, because
`sync_addr_space` runs on another processor under another lock in between
(vmm.c:555).  `sync_addr_space` itself is one step for each round of its loop
(`BeginSync`, `SyncAddrSpace`, `EndSync`): another processor may search and take
between two rounds, and the pointer the loop uses was read before it.  A processor's TLB is the set of freed pages it may still know.  In
`Contexts` the kernel reaches a table through one page that it maps to it, the
window, as in the code; an operation is one step under `vmm_lock`, except
`make_guard_page`, which does not take it.  `ContextDelete` adds the deletion, in
the modelled order of looking and moving.

### Boot and modes

In `Boot` the variable `stack` of `AP_init` is one variable for all processors,
since they run on one small stack one after the other; that this is sound is what
`ProcessorsStartInOrder` is about.  `ModeSwitch` executes the instructions that
change the mode; an instruction that is assembled for another width, lies in a page
that is not mapped, or loads a descriptor that is not there is a fault.

### FileOpen

Thread 1 is the daemon, thread 2 a client like `tst.c`, which sleeps, calls
`init_ipc`, and opens and reads a file, or several, one after the other.  A system call
is one step, since the kernel executes each under locks; what lies between two
calls touches no shared state, except the header of the file, whose count of
readers has steps of its own.  Undefined behaviour is a choice: the byte behind
the path's buffer, and the count of readers, which is copied from an uninitialised
variable.  A path message is received by a call that asks for its length, so a
message is one of `"path"`, `"request"`, `"reply"`, whose sizes differ.

### Linker

A file is a record whose parts have the names of the structures in `elf.h`;
`ElfFile` says which files ld makes, and the instance has only such.

## Runs

| Run | Instance | Shows |
|---|---|---|
| `scheduler` | 2 processors, 3 threads, all may sleep | all safety properties, the refinement of `Threads`, and that every active thread runs unless threads in front of it on its list go to sleep again and again |
| `structures` | heap of 16 words; chunks of 2, up to 3; 2 queues, 3 blocks; free ranges of 1, 2 and 2 pages, 1 processor, room for 1 freed page | the heap's blocks tile it and it implements `Allocator`; the chunks implement the row of slots, and walks and readers agree; the chains implement FIFO queues and share no block; where an entry has moved down and left its bounds behind the pointer, a page is lost by being merged with them, or by being freed when the stack is full, and in no other way |
| `memory` | 2 processors, ranges of 1 and 2 pages, room for 2 freed pages; 2 processes, 2 segments, 50 frames, `Fan` 4 | a page is taken by one caller unless a named race happened; a page is free only when no TLB knows it; a page that waits comes back unless what lies behind the pointer takes it; contexts share the kernel, nothing else but segments |
| `tmpfs` | archive of 5 files, 3 requests, also to the directory `/etc`, pages of 3 cells | refinement of `FileStore`; the archive is there |
| `machine` | locks: 3 processors, AL from {0, 1, 2}; lock order: 2 processors; stubs: 2 threads, both architectures; screen of 2 by 4; 6 bytes; hash tables of 1 and 2 buckets; up to 5 descriptors of 3 blocks | exclusion unless stolen, progress, no circle of waiting, registers, screen, bytes, linked libraries, descriptors lead to their files |
| `system` | 4 processors, any boots; both architectures; memory maps of small pages; 1 processor with 3 threads on its list; 5 threads, 2 units; up to 2 files | processors arrive and all start, the kernel's pages stay its own, a thread behind two others gets its turn unless one of them sleeps again and again, semaphores, order and completeness of opening a file |
| `spinlock_stale` | 2 processors, AL always 0 at a call | exclusion fails |
| `semaphore_mutex` | 3 threads, 1 unit | with two threads more than units, sleepers do not get in |
| `delete_context` | 2 processes | deleting a context gives back page tables of the kernel |
| `file_open_wakeup`, `_missing`, `_path` | one circumstance each | three ways in which opening a file goes wrong |

Why the bounds are enough. Scheduler: two processors have every interleaving of two
critical sections, and three threads put two on one list, so that heads, tails and
wrap-around differ, and give the balancer an uneven load; the proofs cover the rest.
Starving needs three threads on one list: one in front, one in the middle that sleeps,
and the one passed over, which `system` has. Heap: the sizes leave rests of every
length, zero and less than a header included, and one is so large that the heap must
grow. With two entries a chunk is filled in the middle and at the end, and three chunks
have one that is neither first nor last. Three blocks in two queues let a chain have a
middle and a block change its queue. Kernel space: an entry of the length wanted and a
longer one, two neighbours that merge, and a third freed page that finds the stack full;
in `structures`, three ranges, so that taking the lowest moves the others down and
leaves a copy of the last behind the pointer. Tables: four levels of four entries make
segments, stacks and heaps share tables of some levels and not of others. Five threads
and two units leave three sleepers, of which the wake loop takes two. tmpFS: pages of
three cells with entries of two let an entry cross a page, and two direct blocks are
soon full, so that the page of pointers is used. A directory is written to at its first
entry and behind it, with content that may name a node, another one or none. Lock order:
two processors make every circle of two locks; the proof covers the rest. Screen: a tab,
a full line and a scroll happen within four messages. Boot: with four processors the
boot processor is first, in the middle or last of the tables, and two others wait for
the trampoline. Descriptors: a block is freed and used again while the struck entry
stays, in the first chunk and behind it. In `FileOpen` the client tries a second file;
one more would show nothing new, because the daemon serves one.

The runs that expect a violation are disagreements between what a comment or a test
says and what the code does; `PROJECT.json` quotes them under `findings`.  In short:
the lock does not load AL; an up that leaves a semaphore negative puts its caller to
sleep; the loops that delete a context move their pointers before they look, so that
the last round reads behind the table, where the entry for the kernel's page
directory lies; the daemon's only wakeup can come too early; a missing file stops the
machine; and a non-zero byte behind a path leaves the client waiting forever.

Other facts of the code are conditions of the properties that hold, named in them or
in the abstract specification:

- Scheduler: threads that sleep again and again starve those behind them on their list,
  because the search starts at the head after each sleep.  The one that sleeps need not
  be the head: the head may wake the second, the timer goes on to it, it sleeps, and the
  third never has its turn (`OneInFrontSleeps`).
- Scheduler: proc.c:59 reads the next thread of a process from the block that
  `kill_thread` has freed, and takes it to be still NULL, as the model does; and
  threads.c:178 may walk into a chunk that list.c:96 has linked and not yet cleared,
  which the model takes as no part of the list.
- Kernel space: `sync_addr_space` pushes a free range without `vmm_lock`
  (vmm.c:555, `raced`); the boot processor is counted last, and
  whoever frees a range before does not wait for it (init.c:127, `early`).  Pages are lost in two ways
  (`PagesAreLostInTwoWays`): a freed one is forgotten when the stack of those that wait
  is full (vmm.c:401), and one that comes back is merged with what an entry has left
  behind the pointer (vmm.c:377).  A range whose start lies above KERNEL_SPACE has its
  end moved down only (vmm.c:87-90), and its unsigned length is huge (vmm.c:358); the
  assumption that ranges begin before they end leaves such maps out.
- Contexts: `make_guard_page` moves the window without `vmm_lock` (threads.c:39);
  the loop of `shmat` runs a page's number of bytes too often (vmm.c:287), so it maps
  what was never asked for, which `overlaid` and `rewritten` record.
- Deletion of a context: the loops leave out entry 0 of each table, so frames of the
  user's that only it names are not given back.
- Heap: a rest may be shorter than a header (vheap.c:61, `overlapped`), the unsigned
  difference may wrap around (vheap.c:58), and enlarging never ends (vheap.c:123,
  `stuck`).
- Pmm: the base of a region is moved without its length (pmm.c:105, `Overhang`), nobody
  tests whether a region fitted (`RoomIsThere`), addresses are cut to 32 bits, on x86
  also those of memory above 4 GB (pmm.c:182, `AddressesFit`), and the stack is popped
  without a test (pmm.c:198).  The pages in use that are handed out nevertheless are
  `Exposed`: on x86 the page of the free ranges, five pages behind the first table where
  four are cut (vmm.c:125); on x86_64 that page, too, when the region has just the room
  asked for, which is a page less than is cut (pmm.c:96); and the first page of the boot
  stack when the region begins inside of it (pmm.c:98, pmm.c:104).
- Loader: the size it means to clear of the kernel's `.bss` reads as 0
  (boot_longmode.c:136), so nothing is cleared; the descriptor table that was filled
  before, and lies there, survives because of that.
- Console: a newline after a full line leaves a blank line; a backspace at the first
  place copies from address 0; the buffer of `itoa` is too short for numbers from
  10^16 on (stdlib.c:27); an exception inside `kprintf` waits for `console_lock`.
- Strings: `memset` puts the bytes of an odd tail into the wrong word (string.c:114,
  `astray`); `memcpy` reads again what it has written where its destination begins inside
  its source (string.c:27, `repeated`), although its comment says that it handles
  overlapping regions correctly (string.c:18).
- Linker: the tail of a segment's memory is not cleared and a word behind it is
  (st_string.c:127, `Words`, `Beside`), which may be bytes of a segment loaded before
  (`FilledLater`); two kinds of relocation are left as they are, a name that is not found is
  left too, and `get_func` returns symbols of no section.
- tmpFS: one failing path leaves its error for every later answer, reading beyond the
  end makes a file longer, a page of pointers is not cleared (behind an access through it,
  `faulted`, nothing is promised and the model ends), a directory can be written to like
  a file (tmpfs.cpp:154), which overwrites its entries: from then on nothing is promised of
  the paths through it, and nothing of any path after a transfer to one of those
  (`torn`, `Tear`, `Grope` and `Wreck` of `FileStore`); a second file of a name
  is unreachable, files of size 0 become directories, and a double slash is never
  found.
- hlib: `hlib_stat` assigns the outcome of a comparison to its descriptor
  (hlib_vfs.c:144): it reports on the file of descriptor 0 and closes that one
  (`statted`); each open makes semaphores and a copy of its own; the daemon ends in an
  endless loop after its first file, so only the first open is promised an answer; and
  a reader enters without the semaphore when the header's count of readers, copied
  from an uninitialised variable, is not 0 at first.

### Fairness

- `Spinlock`: a processor inside the routine or its critical section goes on
  (weak fairness); it need not ask for the lock.  Interrupts are off there.
- `Scheduler`: the kernel's steps are strongly fair and the timer weakly: it is
  periodic (local_apic.c:132), and a processor that waits for the lock gets it
  eventually.  The code has no queue of waiters, so this is an assumption; what
  supports it is that critical sections are short against the timer period.
  Programs promise nothing: they may compute forever.
- `Semaphore`: a thread that holds a unit comes up eventually; none has to go down.
- `KernelSpace`: a processor that is starting starts, one that has found a range
  takes it, and one in the loop of `sync_addr_space` goes on with it (weak fairness);
  the timer's `sync_addr_space` gets its lock again and again (strong fairness of
  `BeginSync`, as for the scheduler).
- `Boot`: every processor goes on with its program (weak fairness).  That is enough
  for those that wait for the trampoline's lock: each takes it once, so it is free for
  good when the others are through.
- `FileOpen`: both threads get their turn while active, which the runs `scheduler`
  and `system` show, unless one in front on the same list sleeps again and again:
  until the first open is answered, client and daemon sleep a bounded number of times.

Deadlock is checked in `scheduler`, `tmpfs` and `spinlock_stale`.  Elsewhere the
system may really stop: the heap in its endless loop, ranges and frames used up,
everybody asleep at a semaphore, a processor halted after an exception, the daemon in
its loop, or the number of calls the bound allows made.

## Proofs

TLAPS proves, for every value of the constants:

- `MachineProofs`, of a lock: types, and `OnlyStealingBreaksTheLock`.  Its inductive
  invariant says that, while nothing was stolen, the byte is 1 exactly when one
  processor is in its critical section.  Of the locks together: `LocksNeverCircle`.
  The inductive invariant says that whoever owns a lock is at a step of a call at
  which that lock is held.  Who waits therefore waits for a lock of a higher rank
  than any it owns, ranks rise along a circle of waiting, and there are six.
  A `kmalloc` that finds no block enlarges the heap below `heap_lock`, which takes
  `console_lock`, `vmm_lock` and `pmm_lock` there (vheap.c:121-122), and keeps all of its
  caller's locks for ever; every call has such an outcome for each of its allocations.
  Whoever waits for it waits for one who waits for nobody, which is no circle.
  `KernelCallsAssumption` states that in every call locks nest and ranks rise: a fact
  about a finite list, which TLC evaluates.  Of the stubs: `RegistersSurvive`.  Lemmas
  say that the words the stubs push are, read upwards, a `cpu_state`, on both
  architectures and on both ways in, and that what they pop are its fields; the
  inductive invariant is that the `cpu_state` of every thread that does not run is
  what its program left, with the segments its way out needs.  Of the memory
  functions: `BytesAreRight`, for any memory, any word and any blocks.  The loops of
  `memcpy` and `memmove` are given in closed form (`MemcpyCopies`, `BackwardsCopies`):
  in the direction `memmove` takes, no byte is overwritten before it is read; `memcpy`
  takes one direction only, and what it reads after it has written it is `repeated`.  Of the
  console: `TheScreenShowsTheEnd`.  The inductive invariant adds to the property that
  the sheet is empty below the line written last and, when a new line was begun that
  the screen has not moved for, on that line too: so the row that scrolls in is right
  to be blank.
- `ListProofs`: `TheChainAlwaysServes` and the refinement `TheChainIsARow`.  The
  inductive invariant `ListInv` is that each chunk's count is the number of its used
  pointers, and that the last chunk is not full, so the walk of `alist_add` ends.  What
  the loops compute is expressed by cardinalities: the counter at a slot is the number
  of used slots in front of it (`PassedCounts`), the sum of the counts the number of
  all.  `DescriptorsAreKept` rests on that: an entry that is struck out keeps its
  place, so replacing and appending leave all other indices alone.  `IdsInv` adds that
  an allocated block is in one slot, and a handed number in reach.
- `IpcProofs`, of message queues: `OwnersStayOne` and the refinement `ChainsAreFifo`.
  The inductive invariant `QueuesInv` says that there are sequences of blocks, one for
  each queue, which the words in memory link, which share no block, and which together
  are what is allocated.  `ChainIs` says that the walk over the words finds just that
  sequence; sending appends to one of them and receiving takes its head, and the words
  of the others stay as they are.
- `HeapProofs`: `HeapIsTiled`, with the types as inductive invariant: a block that is
  split is cut in two that share nothing (`CutInTwo`), and every other step leaves
  the extents alone.  And the refinement `HeapImplementsAllocator`, step by step, as
  long as no header was laid over another.
- `KernelSpaceProofs`: `OnlyARaceSharesPages` and `FreeIsForgotten`.  The first speaks
  of pages that are free, in use and waiting; the inductive invariant says it of
  ranges, pairwise (`NoneShared`), and adds what makes two-step operations safe: the
  entry that was found stays below `mm_stack_ptr` (`FoundIsThere`), since only the
  owner of `vmm_lock` moves that down, and stays as it was found unless a race is
  recorded (`FoundIsAsItWas`).  Of the state after a race only `FoundIsThere` is left.
  `Forgotten` says of the second that whoever has marked an entry has forgotten its
  page; an entry is given back when all counted processors have marked it, which are
  all there are unless `early`.  Lemmas on the operators of `FreeRanges`: what
  pushing makes free is one page, at one entry (`PushedAddsThePage`), whichever entry
  it is merged with, and what taking leaves is what was there without the range taken.
- `BootProofs`: `ProcessorsStartInOrder`, for any tables.  `OneAtATime`: who is between
  the ends of TRAMPOLINE_LOCK is alone, and the bootstrap processor waits.  That makes
  the shared variable `stack` and the two steps of counting (`Counted`: what was read
  is still what is there) those of one processor.  `Records` and `Stacks` say whose
  the records are, the last of them perhaps half filled, and that a stack has one
  owner; `Phases` that nobody is at work when the bootstrap processor goes on, because
  the last processor is the one that makes the count `cores_from_tables`.
  `TheKernelKeepsItsPages`, for any map that names no address twice, any modules and
  sizes.  The inductive invariant `PmmInv` follows the map through its stages: the loader
  finds the first region that seems large enough and moves the modules into it, the
  kernel finds the same region again in what the loader left (`IsPlaced`), and from then
  on, if that region has the room it seems to have, `IsCut` says where its base is now,
  and where stack, tables and modules lie in front of that.  Then pages are numbers: what
  is in use lies between the first page of the region and the first one that is left
  (`CutFirst`, `CutEnd`), and only the page of the free ranges may lie at or behind that;
  the pages that are pushed are those of whole regions, and pages of two regions differ,
  also where the regions adjoin; only those that the cut region has too many, since its
  length is not shortened, may be those of another one, and these are `Overhang`.
  Allocating and freeing move a page from one side to the other.
- `FileOpenProofs`: `WhatIsAskedForIsThere`, `ReadersAndWritersAreApart`, and that only
  one open ever returns (`OnlyOneOpenReturns`), which is why liveness is promised for
  the first alone.  The properties speak of moments of a dialogue; the inductive
  invariant describes all of it, by the parts of a client's life: before it is woken
  (`ClientStarts`), on its way to the first request (`FirstCalls`), waiting, where the
  contents of the queues say how far the daemon is (`FirstWaits`), and everything
  after (`Later`).  `SemaphoresOfTheFile` gives the values of `read_sem` and
  `write_sem` for each place of a reader and a writer.  All of it holds whatever byte
  lies behind the path and whatever the header's count of readers begins with; only
  that a reader keeps writers out is about a count that says there is one.
- `SchedulerProofs`, three layers.  Types: `TypeInv` adds what the types alone do not
  give: counts and indices are natural, `first_thread` names a thread while it is used,
  and so on.  Lemmas: the processor with the least difference is the next in turn
  (`BestCpuIsNextInTurn`), and the search that starts from the bootstrap
  processor's difference never leaves home (`BestFitIsHome`); both rest on
  `DivMod`, the arithmetic of an average that is rounded down.  Then `SafeInv`, the
  conjunction of the round-robin counts, the control invariant, the partition of
  threads into lists, and the place of current threads.  The parts need each other:
  that a thread stays where it is needs the counts, that the walk over blocked
  threads ends needs the lock, that a current thread is active needs that only its own
  processor blocks it.  On top of that `RegInv` (registers on the processor or
  in memory are the thread's latest), `SpaceInv` (loaded address spaces belong to
  existing processes), `CountInv`, and the refinement `SchedulerImplementsThreads`:
  every step of the scheduler is a step of `Threads` or leaves it unchanged.
- `IpcProofs`, of a semaphore: the value plus the threads counted is `Initial`, the list
  names the sleepers, and the holders are at most `Initial`, because a sleeper
  leaves its claim in the value.  `FewInv` adds that with at most one thread more
  than units there is at most one sleeper, so the wake loop
  wakes everybody (`FewSleepForAReason`, the safety half of `SleepersOfFewGetIn`).

The assumptions are those on the constants, and TLC evaluates each of them on the
instance of a run: positive numbers of processors, threads and units, leftover values
of AL that are bytes, a heap larger than a header, the list of calls named above; for
`KernelSpace`, that the memory map names no page twice, has no range that ends before it
begins, and fits into `mm_stack`, and that lengths are not zero; for the lists, that chunks have room for a pointer, memory for
a chunk, and NULL is no entry; for descriptors, that `FD_FREED` is no block and the
value for "not allocated" no file; for queues, that 0 is no block and that the blocks
are finitely many; that addresses are finitely many integers and a word has at least
one byte; for the stubs, that a thread's number is not the one for nobody; for the console,
that the tab stops divide a row and that formats come with the arguments they name; for
`FileOpen`, that some file may be opened and that the tests whose outcome is undefined
have boolean outcomes.  `Boot` needs none.

`Pmm` has two.  `SizesAssumption`: sizes are natural, the kernel's image lies below
2 MB, a module does not end before it begins.  `MapsAssumption`: no address is named as
usable twice.  Regions may adjoin, begin and end anywhere, and reach beyond what the
code's masks keep.  What the code takes for granted beyond that stands in the property,
where it can be read: that the first region that seems large enough is so, and ends
before addresses wrap around (`RoomIsThere`; pmm.c:96 subtracts without sign, so that a
region shorter than a page may seem huge), and on x86, that no usable region begins above
4 GB (`AddressesFit`).  The pages which are in use and handed out even then are named
one by one (`Exposed`).

Some theorems state facts that no run checks any more, since they are parts of the
inductive invariants: the types, the control invariant, that current threads run at
home and on one processor, the counts of threads and processes, that the list
of a semaphore names the sleepers, that nobody sleeps for nothing, that one processor starts at a time, and that one open returns.

Only model-checked:

- Liveness (`SomeoneGetsIn`, `EveryActiveThreadRuns`, `EveryThreadOfARowRuns`, `WaitingPagesComeBack`,
  `AllProcessorsStart`, `SleepersOfFewGetIn`, `AnOpenIsAnswered`), which is outside
  TLAPS' reach.
- The refinement of `FileStore`, `TheArchiveIsComplete` and `TheLibraryIsLinked`, which
  nested recursive functions over records compute; and the tables of `Contexts`, which loops over whole states fill
  (`KernelIsCommon`, `FramesAreSeparate`, `SegmentsAreShared`).
- `PagesAreLostInTwoWays`.
- `ProcessorsReachTheKernel`: a program of fixed length, which TLC executes whole.

A recursive function in a definition (the counter of a loop, a walk along a chain) is
handled without induction on an operator: a closed form is shown to satisfy the
function's equation, and what satisfies the equation agrees with the closed form,
because there is no least argument at which it does not.  A fold (`Sheet`) has no closed
form; there it is shown, again by a least argument, that its equation has a solution
for as many elements as wanted, that solutions agree, and so that one element more is
one step more.

## Plan

1. Done: everything in the table of modules.
2. Done: proofs of the locks, the stubs, the memory functions, the array list and the
   descriptors, the message queues, the heap, the kernel's ranges, the start of the
   processors, the physical memory, the scheduler, the semaphores and the opening of a
   file.
3. Open, proofs: that processes share the kernel's tables, and the refinement of
   `FileStore`.
4. Then the requests VFS_READ and VFS_WRITE, once a client sends them.

## Not modelled

The keyboard driver, which is never initialised; the clock (`hwtime.c`, `cmos.h`,
`lib/time.c`), whose only call, in init.c:129-134, is commented out; the printing of registers, stack
traces and names of processors; and the contents of descriptors beyond what
decides which code is executed.  `spinlock_lock`, `switchto_thread`, `vmm_free`,
`kvmm_free`, `cpyin` have no callers, `msgctl`, `shmctl` and `shmdt` return -1.
VFS_READ and VFS_WRITE requests are sent by nobody in the repository.  `strlen`, `strcmp` and their like are loops without
state.  The toolchain patches under `src/host` are not part of the running system.
The scheduler is modelled once for both architectures: where they differ there (the
return to the idle loop), the effect is the same; `Interrupts` and `ModeSwitch` model
each.

Of what is modelled, some circumstances are left out.  Memory maps: on x86 a region above
KERNEL_SPACE (4 MB) becomes a range that ends before it begins, whose unsigned length is
huge (vmm.c:87, vmm.c:358), and the region that was cut is always one, so that
`KernelSpace` is the x86_64 kernel's; x86 also maps only the marked pages below
KERNEL_SPACE although the stack of free pages alone has 16 MB; with more than 8 GB on
x86_64 the stack of free pages is longer than the room reserved for it (pmm.c:185).  What
follows after memory is overwritten: `Heap` ends when a header is laid over another
block, `TmpFS` after an access through an uncleared page, `KernelSpace` after a race.
`Linker` gives each image the room `init_shared_lib` asks for; a word that is cleared
behind that room is in nobody's image there.  The reading of freed or uncleared words in
proc.c:59 and list.c:96 is named above under the scheduler.
