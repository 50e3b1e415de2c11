---------------------------- MODULE KernelLocks ----------------------------
(***************************************************************************)
(* Who holds which of the kernel's spinlocks while waiting for which       *)
(* other: the calls of the kernel as the locks they take and release, one  *)
(* inside the other.  In the kernel interrupts are disabled, so a          *)
(* processor goes through one call after the other.  What the calls do is  *)
(* the subject of the other modules; here a call that has a choice (a list *)
(* that grows, a segment that is attached first) takes it either way.  A   *)
(* call that has to enlarge the heap never returns (vheap.c:123): it ends  *)
(* with all it holds.                                                      *)
(***************************************************************************)
EXTENDS Integers, Sequences, FiniteSets

CONSTANTS Cpu, NoOne

ASSUME NoOneAssumption == NoOne \notin Cpu

Lock == {"process_system_lock", "sem_atomic", "multi_threading_lock", "msq_lock", "shm_lock",
         "TRAMPOLINE_LOCK", "heap_lock", "vmm_lock", "pmm_lock", "invld_lock", "console_lock"}

Under(lock, body) == <<[take |-> TRUE, lock |-> lock]>> \o body \o <<[take |-> FALSE, lock |-> lock]>>

-----------------------------------------------------------------------------
(* The memory of the kernel. *)
kprintf == Under("console_lock", <<>>)
pmm_malloc_4k == Under("pmm_lock", <<>>)
pmm_free_4k_glob == Under("pmm_lock", <<>>)
virt_to_phys == Under("vmm_lock", <<>>)
(* vmm_malloc and vmm_map_range_glob; vmm_share_to_user is like them. *)
vmm_malloc == Under("vmm_lock", pmm_malloc_4k \o kprintf)
vmm_remind_to_mark_free == Under("invld_lock", <<>>)
vmm_delcontext ==
    Under("vmm_lock", pmm_malloc_4k \o pmm_free_4k_glob \o kprintf \o vmm_remind_to_mark_free)
sync_addr_space == Under("invld_lock", kprintf)
kfree == Under("heap_lock", <<>>)

(* kmalloc goes through the blocks.  Where it finds none, it has to        *)
(* enlarge the heap, with heap_lock and all that its caller holds: it      *)
(* prints, asks for pages, and loops for ever.                             *)
search == [take |-> FALSE, lock |-> "none, a block is looked for"]
kmalloc == Under("heap_lock", <<search>>)
vheap_enlarge == kprintf \o kprintf \o vmm_malloc
list_add == kmalloc

(* Threads and processes. *)
create_proc ==
    kmalloc \o vmm_malloc \o virt_to_phys \o Under("process_system_lock", list_add)
create_thread == kmalloc \o vmm_malloc \o Under("multi_threading_lock", list_add)
sleep == Under("multi_threading_lock", virt_to_phys)
wakeup == Under("multi_threading_lock", kprintf)
dispatch_thread == Under("multi_threading_lock", virt_to_phys \o kprintf \o list_add)
exit ==
    Under("process_system_lock",
          Under("multi_threading_lock", virt_to_phys \o kfree \o vmm_delcontext \o kfree))

(* The calls between processes. *)
semget == Under("sem_atomic", kmalloc \o list_add)
semop == Under("sem_atomic", list_add \o sleep \o wakeup)
msgget == Under("msq_lock", kmalloc \o list_add)
msgsnd == Under("msq_lock", kmalloc)
msgrcv == Under("msq_lock", kfree)
shmget == Under("shm_lock", kmalloc \o list_add)
shmat == Under("shm_lock", vmm_malloc)

(* The timer, and a processor that starts. *)
timer == sync_addr_space \o dispatch_thread
AP_init == Under("TRAMPOLINE_LOCK", vmm_malloc \o kmalloc \o list_add \o kprintf)

(* A call as its locks: every block is found, or one is not.               *)
IsLockStep(step) == step # search
Outcomes(steps) ==
    {SelectSeq(steps, IsLockStep)} \cup
    {SelectSeq(SubSeq(steps, 1, i), IsLockStep) \o vheap_enlarge :
        i \in {j \in DOMAIN steps : steps[j] = search}}

KernelCall ==
    UNION {Outcomes(steps) : steps \in
        {create_proc \o create_thread, exit, semget, semop, msgget, msgsnd, msgrcv, shmget,
         shmat, sleep, wakeup, timer, AP_init}}

-----------------------------------------------------------------------------
(* The order in which locks may be held together. *)
Rank(l) ==
    CASE l \in {"process_system_lock", "sem_atomic", "msq_lock", "shm_lock", "TRAMPOLINE_LOCK"} -> 1
      [] l = "multi_threading_lock" -> 2
      [] l = "heap_lock" -> 3
      [] l = "vmm_lock" -> 4
      [] l \in {"pmm_lock", "invld_lock"} -> 5
      [] l = "console_lock" -> 6

(* The locks that a call holds when i is its next step. *)
HeldAt(steps, i) ==
    {steps[j].lock : j \in {k \in 1 .. i - 1 :
        /\ steps[k].take
        /\ \A m \in k + 1 .. i - 1 : steps[m].lock # steps[k].lock}}

(* Of every call: the locks rise.  TLC evaluates this; nothing else is     *)
(* assumed about the calls.                                                *)
ASSUME KernelCallsAssumption ==
    \A steps \in KernelCall :
        /\ steps \in Seq([take : BOOLEAN, lock : Lock])
        /\ \A i \in 1 .. Len(steps) :
              steps[i].take => \A l \in HeldAt(steps, i) : Rank(l) < Rank(steps[i].lock)

-----------------------------------------------------------------------------
VARIABLES
    call,           \* what a processor executes, and which of its steps is next
    at,
    owner           \* of each lock, or nobody

lockVars == <<call, at, owner>>

LocksInit ==
    /\ call = [c \in Cpu |-> <<>>]
    /\ at = [c \in Cpu |-> 1]
    /\ owner = [l \in Lock |-> NoOne]

Busy(c) == at[c] \in 1 .. Len(call[c])
NextStep(c) == call[c][at[c]]

(* At the end of a call that holds locks there is the loop of              *)
(* vheap_enlarge: the processor waits for nobody, and nobody gets what it  *)
(* holds.                                                                  *)
Loops(c) == ~Busy(c) /\ HeldAt(call[c], at[c]) # {}

(* Interrupts are disabled in the kernel.  Slip: the timer interrupts it. *)
BeginAnyTime(c) ==
    /\ \E steps \in KernelCall :
          call' = [call EXCEPT ![c] = steps \o SubSeq(@, at[c], Len(@))]
    /\ at' = [at EXCEPT ![c] = 1]
    /\ UNCHANGED owner
Begin(c) ==
    /\ ~Busy(c) /\ ~Loops(c)
    /\ \E steps \in KernelCall : call' = [call EXCEPT ![c] = steps]
    /\ at' = [at EXCEPT ![c] = 1]
    /\ UNCHANGED owner

Acquire(c) ==
    /\ Busy(c)
    /\ NextStep(c).take
    /\ owner[NextStep(c).lock] = NoOne
    /\ owner' = [owner EXCEPT ![NextStep(c).lock] = c]
    /\ at' = [at EXCEPT ![c] = @ + 1]
    /\ UNCHANGED call

GiveBack(c) ==
    /\ Busy(c)
    /\ ~NextStep(c).take
    /\ owner' = [owner EXCEPT ![NextStep(c).lock] = NoOne]
    /\ at' = [at EXCEPT ![c] = @ + 1]
    /\ UNCHANGED call

LocksNext == \E c \in Cpu : Begin(c) \/ Acquire(c) \/ GiveBack(c)
LocksSpec == LocksInit /\ [][LocksNext]_lockVars

-----------------------------------------------------------------------------
WaitsFor(c, d) == Busy(c) /\ NextStep(c).take /\ owner[NextStep(c).lock] = d

(* The processors never wait for each other in a circle, nor one for       *)
(* itself, although exit has four locks at a time (proc.c:53), and one     *)
(* that enlarges the heap takes three more below all that its caller holds *)
(* (vheap.c:121).  That it then keeps them for ever is no circle: those    *)
(* who wait for it wait for one who waits for nobody.                      *)
NoCircularWait ==
    \A S \in SUBSET Cpu : S # {} => \E c \in S : \A d \in S : ~WaitsFor(c, d)
=============================================================================
