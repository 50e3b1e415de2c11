----------------------------- MODULE Scheduler -----------------------------
(***************************************************************************)
(* Threads, processes and the SMP scheduler of the Lizarx kernel:          *)
(* src/src/kernel/mt/threads.c, mt/proc.c, mt/sched.c, and the paths of    *)
(* intr/irq.c and intr/syscall.c that lead into them.                      *)
(*                                                                         *)
(* Every processor has a list of its own threads and picks the next one    *)
(* from it at each timer interrupt.  The shared state is only touched      *)
(* under multi_threading_lock, so what the code does between taking and    *)
(* releasing the lock is one step here, except in dispatch_thread, whose   *)
(* loop is split into steps during which the lock stays taken.  What it    *)
(* does before taking the lock (the first test of dispatch_thread, saving  *)
(* the registers in SYS_SLEEP) is a step of its own.                       *)
(*                                                                         *)
(* init_elf gives every program one process with one thread, and nothing   *)
(* else creates either; pid_counter and total_thread_count run together,   *)
(* so a process has the number of its thread.                              *)
(***************************************************************************)
EXTENDS Integers, SlotList

CONSTANTS
    NCpu,       \* cores_from_tables, the processors that were booted
    NThread,    \* the programs started at boot
    MaySleep    \* the threads whose program issues SYS_SLEEP

ASSUME NCpuAssumption == NCpu \in Nat \ {0}
ASSUME NThreadAssumption == NThread \in Nat \ {0}
ASSUME MaySleepAssumption == MaySleep \subseteq 1..NThread

CPU == 0 .. NCpu - 1            \* in the order of cpu_list
Bsp == 0                        \* &bsp_info, the head of cpu_list
Thread == 1 .. NThread
Slot == 1 .. NThread
STARTUP == 0                    \* startup_context, the kernel's own

VARIABLES
    total_thread_count,     \* threads created so far
    thread_list,            \* per processor, the threads assigned to it
    thread_count,           \* per processor, its share as the balancer sees it
    current_thread,         \* per processor, the thread it runs, or NULL
    current_thread_index,   \* per processor, the position it searches from
    exc_state,              \* per thread: ACTIVE, BLCKD; NONE before, FREED after
    proc_list,              \* the processes that exist
    num_proc,               \* and their count
    state,                  \* per thread, the registers saved for it
    cpu_state,              \* per processor, the registers it runs with
    cr3,                    \* per processor, whose address space is loaded
    pc,                     \* per processor, where it is
    first_thread,           \* dispatch_thread's local variable
    curcontext,             \* dispatch_thread's local variable
    done                    \* history: per thread, how far it has come

sched == <<total_thread_count, thread_list, thread_count>>
running == <<current_thread, current_thread_index, exc_state>>
procs == <<proc_list, num_proc>>
regs == <<state, cpu_state, cr3, done>>
locals == <<first_thread, curcontext>>
vars == <<sched, running, procs, regs, pc, locals>>

(* A register set is represented by the thread it belongs to and the point *)
(* that thread has reached; two points are enough to tell stale registers  *)
(* from fresh ones.                                                        *)
Registers == [owner : Thread \cup {NULL}, point : {0, 1}]
Fresh(t) == [owner |-> t, point |-> 0]
IdleState == Fresh(NULL)

Labels == {"create_proc", "create_thread", "idle", "user", "sleep",
           "dispatch", "lock", "pick", "move"}

Init ==
    /\ total_thread_count = 0
    /\ thread_list = [c \in CPU |-> EmptyList(Slot)]
    /\ thread_count = [c \in CPU |-> 0]
    /\ current_thread = [c \in CPU |-> NULL]
    /\ current_thread_index = [c \in CPU |-> 0]
    /\ exc_state = [t \in Thread |-> "NONE"]
    /\ proc_list = {}
    /\ num_proc = 0
    /\ state = [t \in Thread |-> IdleState]
    /\ cpu_state = [c \in CPU |-> IdleState]
    /\ cr3 = [c \in CPU |-> STARTUP]
    /\ pc = [c \in CPU |-> IF c = Bsp THEN "create_proc" ELSE "idle"]
    /\ first_thread = [c \in CPU |-> NULL]
    /\ curcontext = [c \in CPU |-> STARTUP]
    /\ done = [t \in Thread |-> 0]

-----------------------------------------------------------------------------
(* Next to some definitions stands a slip of the kind the properties below  *)
(* are there to catch, under a name of its own: with the slip in place of  *)
(* the definition that follows it, the run named in PROJECT.json fails.    *)

(* multi_threading_lock is held across steps only inside dispatch_thread.  *)
MultiThreadingLockFree == \A c \in CPU : pc[c] \notin {"pick", "move"}

ActiveSlots(c) ==
    {s \in Occupied(thread_list[c]) : exc_state[thread_list[c][s]] = "ACTIVE"}

(* Slip: blocked threads are counted too. *)
AnyThreads(c) == Occupied(thread_list[c]) # {}
are_there_still_threads(c) == ActiveSlots(c) # {}

(* How far processor c is from the average load with one more thread; the  *)
(* average is an integer division, stored in a float afterwards.           *)
Diff(total, count, c) ==
    LET d == count[c] + 1 - total \div NCpu
    IN  IF d < 0 THEN -d ELSE d

(* get_best_cpu: the first processor of cpu_list with the least difference. *)
IsBestCpu(total, count, cpu) ==
    \A c \in CPU : IF c < cpu THEN Diff(total, count, cpu) < Diff(total, count, c)
                              ELSE Diff(total, count, cpu) <= Diff(total, count, c)

(* The search in move_if_it_make_sense starts from this_cpu, but with the  *)
(* difference of the bootstrap processor: only a processor that is better  *)
(* than the bootstrap processor takes the place of this_cpu.               *)
IsBestFit(total, count, this_cpu, best_fit) ==
    IF IsBestCpu(total, count, Bsp)
    THEN best_fit = this_cpu
    ELSE IsBestCpu(total, count, best_fit)

-----------------------------------------------------------------------------
(* The loop over the boot modules in init. *)
MorePrograms(t) == t < NThread

(* create_proc, under process_system_lock. *)
CreateProc ==
    /\ pc[Bsp] = "create_proc"
    /\ proc_list' = proc_list \cup {total_thread_count + 1}
    /\ num_proc' = num_proc + 1
    /\ pc' = [pc EXCEPT ![Bsp] = "create_thread"]
    /\ UNCHANGED <<sched, running, regs, locals>>

(* create_thread, called by init_elf right after create_proc.  After the   *)
(* last program the bootstrap processor enables interrupts and idles.      *)
CreateThread ==
    /\ pc[Bsp] = "create_thread"
    /\ MultiThreadingLockFree
    /\ LET t == total_thread_count + 1 IN
       /\ total_thread_count' = t
       /\ \E cpu \in CPU, s \in Slot :
            /\ IsBestCpu(t, thread_count, cpu)
            /\ IsAddSlot(thread_list[cpu], s)
            /\ thread_list' = [thread_list EXCEPT ![cpu][s] = t]
            /\ thread_count' = [thread_count EXCEPT ![cpu] = @ + 1]
       /\ exc_state' = [exc_state EXCEPT ![t] = "ACTIVE"]
       /\ state' = [state EXCEPT ![t] = Fresh(t)]
       /\ pc' = [pc EXCEPT ![Bsp] = IF MorePrograms(t) THEN "create_proc" ELSE "idle"]
    /\ UNCHANGED <<current_thread, current_thread_index, procs, cpu_state, cr3,
                   done, locals>>

-----------------------------------------------------------------------------
(* The thread running on c executes some of its program. *)
UserStep(c) ==
    /\ pc[c] = "user"
    /\ cpu_state' = [cpu_state EXCEPT ![c].point = 1 - @]
    /\ done' = [done EXCEPT ![current_thread[c]] = 1 - @]
    /\ UNCHANGED <<sched, running, procs, state, cr3, pc, locals>>

(* The timer interrupt, vector 28: handle_irq calls schedule. *)
Timer(c) ==
    /\ pc[c] \in {"user", "idle"}
    /\ pc' = [pc EXCEPT ![c] = "dispatch"]
    /\ UNCHANGED <<sched, running, procs, regs, locals>>

(* SYS_SLEEP stores the registers before it takes the lock in sleep.  Slip: *)
(* they are not stored.                                                    *)
SysSleepUnsaved(c) ==
    /\ pc[c] = "user"
    /\ current_thread[c] \in MaySleep
    /\ pc' = [pc EXCEPT ![c] = "sleep"]
    /\ UNCHANGED <<sched, running, procs, regs, locals>>
SysSleep(c) ==
    /\ pc[c] = "user"
    /\ current_thread[c] \in MaySleep
    /\ state' = [state EXCEPT ![current_thread[c]] = cpu_state[c]]
    /\ pc' = [pc EXCEPT ![c] = "sleep"]
    /\ UNCHANGED <<sched, running, procs, cpu_state, cr3, done, locals>>

(* sleep and kill_thread take the current thread off the processor, which  *)
(* goes on in the kernel's own address space; schedule follows.  Slip: the *)
(* address space stays.                                                    *)
LeaveInPlace(c) ==
    /\ current_thread' = [current_thread EXCEPT ![c] = NULL]
    /\ current_thread_index' = [current_thread_index EXCEPT ![c] = 0]
    /\ pc' = [pc EXCEPT ![c] = "dispatch"]
    /\ UNCHANGED cr3
LeaveThread(c) ==
    /\ cr3' = [cr3 EXCEPT ![c] = STARTUP]
    /\ current_thread' = [current_thread EXCEPT ![c] = NULL]
    /\ current_thread_index' = [current_thread_index EXCEPT ![c] = 0]
    /\ pc' = [pc EXCEPT ![c] = "dispatch"]

(* sleep: the current thread is blocked. *)
Sleep(c) ==
    /\ pc[c] = "sleep"
    /\ MultiThreadingLockFree
    /\ exc_state' = [exc_state EXCEPT ![current_thread[c]] = "BLCKD"]
    /\ LeaveThread(c)
    /\ UNCHANGED <<sched, procs, state, cpu_state, done, locals>>

(* SYS_WAKEUP: wakeup sets the thread active if get_thread finds it on     *)
(* some processor's list, asleep or not, and returns to the caller.        *)
SysWakeup(c, t) ==
    /\ pc[c] = "user"
    /\ MultiThreadingLockFree
    /\ \E d \in CPU : t \in Entries(thread_list[d])
    /\ exc_state' = [exc_state EXCEPT ![t] = "ACTIVE"]
    /\ UNCHANGED <<sched, current_thread, current_thread_index, procs, regs, pc,
                   locals>>

(* SYS_EXIT: exit kills the threads of the caller's process, which is the  *)
(* caller alone, and deletes the process; schedule follows.  thread_count  *)
(* and total_thread_count keep counting the dead thread.  Its next_in_proc *)
(* is read after it was freed (proc.c:59), and is taken to be NULL still.  *)
SysExit(c) ==
    /\ pc[c] = "user"
    /\ MultiThreadingLockFree
    /\ LET t == current_thread[c] IN
       /\ thread_list' = [thread_list EXCEPT ![c] = alist_remove(@, t)]
       /\ exc_state' = [exc_state EXCEPT ![t] = "FREED"]
       /\ proc_list' = proc_list \ {t}
    /\ num_proc' = num_proc - 1
    /\ LeaveThread(c)
    /\ UNCHANGED <<total_thread_count, thread_count, state, cpu_state, done, locals>>

-----------------------------------------------------------------------------
(* dispatch_thread, the test made without the lock: a processor with no    *)
(* active thread returns to its idle loop.  The list it walks is taken as  *)
(* it is at one moment; a chunk that is not cleared yet (list.c:96) is not *)
(* part of it.                                                             *)
DispatchTest(c) ==
    /\ pc[c] = "dispatch"
    /\ IF are_there_still_threads(c)
       THEN /\ pc' = [pc EXCEPT ![c] = "lock"]
            /\ UNCHANGED cpu_state
       ELSE /\ pc' = [pc EXCEPT ![c] = "idle"]
            /\ cpu_state' = [cpu_state EXCEPT ![c] = IdleState]
    /\ UNCHANGED <<sched, running, procs, state, cr3, done, locals>>

(* The lock is taken and the test repeated; the head of the list is read   *)
(* into first_thread once, before the loop.                                *)
DispatchLock(c) ==
    /\ pc[c] = "lock"
    /\ MultiThreadingLockFree
    /\ IF are_there_still_threads(c)
       THEN /\ \E s \in Slot :
                 /\ IsFirstSlot(thread_list[c], s)
                 /\ first_thread' = [first_thread EXCEPT ![c] = thread_list[c][s]]
            /\ pc' = [pc EXCEPT ![c] = "pick"]
       ELSE /\ pc' = [pc EXCEPT ![c] = "dispatch"]
            /\ UNCHANGED first_thread
    /\ UNCHANGED <<sched, running, procs, regs, curcontext>>

(* The search from position `from` on, without wrapping around.  Slip: it  *)
(* does not skip blocked threads.                                          *)
IsNextOfAny(c, from, s) ==
    /\ s \in Occupied(thread_list[c])
    /\ Position(thread_list[c], s) >= from
    /\ \A r \in Occupied(thread_list[c]) : Position(thread_list[c], r) >= from => s <= r
IsNextActive(c, from, s) ==
    /\ s \in ActiveSlots(c)
    /\ Position(thread_list[c], s) >= from
    /\ \A r \in ActiveSlots(c) : Position(thread_list[c], r) >= from => s <= r

(* Loop body, no current thread: start with first_thread and walk on while *)
(* the thread is blocked.  The repeated test matters after a move only.    *)
PickFirst(c) ==
    /\ pc[c] = "pick"
    /\ current_thread[c] = NULL
    /\ IF are_there_still_threads(c)
       THEN /\ \E s \in Slot :
                 /\ IF exc_state[first_thread[c]] # "BLCKD"
                    THEN /\ current_thread' = [current_thread EXCEPT ![c] = first_thread[c]]
                         /\ UNCHANGED current_thread_index
                    ELSE /\ IsNextActive(c, current_thread_index[c] + 1, s)
                         /\ current_thread' = [current_thread EXCEPT ![c] = thread_list[c][s]]
                         /\ current_thread_index' = [current_thread_index EXCEPT
                                                      ![c] = Position(thread_list[c], s)]
            /\ curcontext' = [curcontext EXCEPT ![c] = STARTUP]
            /\ pc' = [pc EXCEPT ![c] = "move"]
       ELSE /\ pc' = [pc EXCEPT ![c] = "dispatch"]
            /\ UNCHANGED <<current_thread, current_thread_index, curcontext>>
    /\ UNCHANGED <<sched, exc_state, procs, regs, first_thread>>

(* The position after the interrupted thread's.  Slip: its own position. *)
SamePosition(c) == current_thread_index[c] % alist_get_entry_n(thread_list[c])
NextPosition(c) == (current_thread_index[c] + 1) % alist_get_entry_n(thread_list[c])

(* Loop body, a thread was interrupted: store its registers and take the   *)
(* next active thread, wrapping around at the end of the list.             *)
PickNext(c) ==
    /\ pc[c] = "pick"
    /\ current_thread[c] # NULL
    /\ state' = [state EXCEPT ![current_thread[c]] = cpu_state[c]]
    /\ curcontext' = [curcontext EXCEPT ![c] = current_thread[c]]
    /\ LET list == thread_list[c]
           start == NextPosition(c)
       IN  \E s \in Slot :
              /\ IF \E r \in ActiveSlots(c) : Position(list, r) >= start
                 THEN IsNextActive(c, start, s)
                 ELSE IsNextActive(c, 0, s)
              /\ current_thread' = [current_thread EXCEPT ![c] = list[s]]
              /\ current_thread_index' =
                    [current_thread_index EXCEPT ![c] = Position(list, s)]
    /\ pc' = [pc EXCEPT ![c] = "move"]
    /\ UNCHANGED <<sched, exc_state, procs, cpu_state, cr3, done, first_thread>>

(* move_if_it_make_sense has found another processor for the thread: the   *)
(* loop starts over without it.                                            *)
MoveTo(c, t, best_fit) ==
    /\ \E s \in Slot :
          /\ IsAddSlot(thread_list[best_fit], s)
          /\ thread_list' = [thread_list EXCEPT ![c] = alist_remove(@, t),
                                                ![best_fit][s] = t]
    /\ thread_count' = [thread_count EXCEPT ![c] = @ - 1]
    /\ current_thread' = [current_thread EXCEPT ![c] = NULL]
    /\ current_thread_index' = [current_thread_index EXCEPT ![c] = 0]
    /\ pc' = [pc EXCEPT ![c] = "pick"]
    /\ UNCHANGED <<cpu_state, cr3>>

(* The end of dispatch_thread: the thread's registers are loaded and, if   *)
(* it is not the loaded one, its address space; the lock is released.      *)
LoadThread(c, t) ==
    /\ cpu_state' = [cpu_state EXCEPT ![c] = state[t]]
    /\ cr3' = [cr3 EXCEPT ![c] = IF t = curcontext[c] THEN @ ELSE t]
    /\ pc' = [pc EXCEPT ![c] = "user"]
    /\ UNCHANGED <<thread_list, thread_count, current_thread, current_thread_index>>

(* The search does not count the thread itself.  Slip: it does. *)
WithThread(c) == thread_count
WithoutThread(c) == [thread_count EXCEPT ![c] = @ - 1]

(* The condition of the loop: does the thread stay on this processor?      *)
Move(c) ==
    /\ pc[c] = "move"
    /\ LET t == current_thread[c]
       IN \E best_fit \in CPU :
            /\ IsBestFit(total_thread_count, WithoutThread(c), c, best_fit)
            /\ IF best_fit # c THEN MoveTo(c, t, best_fit) ELSE LoadThread(c, t)
    /\ UNCHANGED <<total_thread_count, exc_state, procs, state, done, locals>>

-----------------------------------------------------------------------------
Boot == CreateProc \/ CreateThread

(* What a processor does in the kernel until it is back in a program. *)
Kernel(c) == Sleep(c) \/ DispatchTest(c) \/ DispatchLock(c) \/ PickFirst(c)
                \/ PickNext(c) \/ Move(c)

(* What the program running on the processor may ask for. *)
Program(c) == UserStep(c) \/ SysSleep(c) \/ (\E t \in Thread : SysWakeup(c, t))
                \/ SysExit(c)

Next == Boot \/ \E c \in CPU : Timer(c) \/ Kernel(c) \/ Program(c)

Spec == Init /\ [][Next]_vars

(* The kernel's own code keeps running and the periodic timer keeps        *)
(* interrupting.  A spinning processor is assumed to get the lock          *)
(* eventually: critical sections are short against the timer period, so    *)
(* the lock is free nearly always.  Programs promise nothing.              *)
Fairness ==
    /\ SF_vars(Boot)
    /\ \A c \in CPU : SF_vars(Kernel(c)) /\ WF_vars(Timer(c))

FairSpec == Spec /\ Fairness

-----------------------------------------------------------------------------
Live(t) == exc_state[t] \in {"ACTIVE", "BLCKD"}

TypeOK ==
    /\ total_thread_count \in 0..NThread
    /\ thread_list \in [CPU -> [Slot -> Thread \cup {NULL}]]
    /\ thread_count \in [CPU -> Int]
    /\ current_thread \in [CPU -> Thread \cup {NULL}]
    /\ current_thread_index \in [CPU -> Nat]
    /\ exc_state \in [Thread -> {"NONE", "ACTIVE", "BLCKD", "FREED"}]
    /\ proc_list \subseteq Thread
    /\ num_proc \in Int
    /\ state \in [Thread -> Registers]
    /\ cpu_state \in [CPU -> Registers]
    /\ cr3 \in [CPU -> Thread \cup {STARTUP}]
    /\ pc \in [CPU -> Labels]
    /\ first_thread \in [CPU -> Thread \cup {NULL}]
    /\ curcontext \in [CPU -> Thread \cup {STARTUP}]
    /\ done \in [Thread -> {0, 1}]

(* The processors' places in the kernel fit together: one at a time is     *)
(* inside the loop of dispatch_thread, only the bootstrap processor        *)
(* creates threads, in the order of their numbers, a processor in a        *)
(* program has a current thread and an idle one has none.                  *)
KernelControl ==
    /\ \A c, d \in CPU : pc[c] \in {"pick", "move"} /\ pc[d] \in {"pick", "move"} => c = d
    /\ \A c \in CPU :
        /\ pc[c] \in {"create_proc", "create_thread"} =>
              c = Bsp /\ total_thread_count < NThread
        /\ pc[c] \in {"user", "sleep", "move"} => current_thread[c] # NULL
        /\ pc[c] \in {"create_proc", "create_thread", "idle"} => current_thread[c] = NULL
        /\ current_thread[c] = NULL => current_thread_index[c] = 0
    /\ \A t \in Thread : exc_state[t] = "NONE" <=> t > total_thread_count

(* Whatever the boot, dispatch and exit paths of several processors do to  *)
(* the lists, a thread that exists sits in one slot of one processor's     *)
(* list, and a thread that was not created yet or was freed in none.       *)
EveryThreadOnOneList ==
    \A t \in Thread :
        /\ Live(t) <=> \E c \in CPU, s \in Slot : thread_list[c][s] = t
        /\ \A c, d \in CPU, r, s \in Slot :
              thread_list[c][r] = t /\ thread_list[d][s] = t => c = d /\ r = s

(* The current thread of a processor is one of its own, so no thread runs  *)
(* on two processors, and it is not blocked: neither a sleep, nor an exit, *)
(* nor a wakeup from another processor in the window between sleep and     *)
(* dispatch_thread leaves a thread running that should not.                *)
CurrentThreadsRunAtHome ==
    \A c \in CPU : current_thread[c] # NULL =>
        /\ current_thread[c] \in Entries(thread_list[c])
        /\ exc_state[current_thread[c]] = "ACTIVE"

NoThreadRunsTwice ==
    \A c, d \in CPU :
        current_thread[c] = current_thread[d] /\ current_thread[c] # NULL => c = d

(* A thread that is preempted, or sleeps, and is resumed later goes on     *)
(* exactly where it stopped: the registers loaded are its own and none of  *)
(* its steps is lost or repeated.                                          *)
OnProcessor(t) == \E c \in CPU : current_thread[c] = t /\ pc[c] # "move"

RegistersAreNeverMixedUp ==
    /\ \A c \in CPU : pc[c] = "user" =>
          cpu_state[c] = [owner |-> current_thread[c], point |-> done[current_thread[c]]]
    /\ \A t \in Thread : Live(t) /\ ~OnProcessor(t) =>
          state[t] = [owner |-> t, point |-> done[t]]

(* A program runs in its own address space, and no processor is left in    *)
(* the address space of a process that is gone.                            *)
AddressSpacesMatch ==
    \A c \in CPU :
        /\ pc[c] = "user" => cr3[c] = current_thread[c]
        /\ cr3[c] \in proc_list \cup {STARTUP}

(* Every thread has its process, and num_proc counts the processes also    *)
(* when the bootstrap processor creates one while another one exits.       *)
ProcessesAreCounted ==
    /\ num_proc = Cardinality(proc_list)
    /\ \A t \in Thread : Live(t) => t \in proc_list

(* The walk of dispatch_thread over a list never runs past the end, that   *)
(* is, onto a NULL entry: when it starts there is an active thread ahead.  *)
TheWalkFindsAThread ==
    \A c \in CPU : pc[c] = "pick" /\ current_thread[c] = NULL =>
        /\ first_thread[c] \in Entries(thread_list[c])
        /\ current_thread_index[c] = 0
        /\ ActiveSlots(c) # {}

(* get_best_cpu, comparing differences from an average that is rounded     *)
(* down, deals the threads out round robin: the closed form of the counts. *)
Dealt(n, c) == (n \div NCpu) + (IF c < n % NCpu THEN 1 ELSE 0)

DealtRoundRobin == \A c \in CPU : thread_count[c] = Dealt(total_thread_count, c)

(* The balancer never finds a better place: since the counts are dealt out *)
(* evenly and no exit ever lowers them, move_if_it_make_sense keeps every  *)
(* thread where create_thread put it.  The loop of dispatch_thread is      *)
(* executed once, and its stale first_thread is never used.                *)
NoMigration ==
    [][\A t \in Thread, c \in CPU :
          t \in Entries(thread_list[c]) =>
              \A d \in CPU \ {c} : t \notin Entries(thread_list[d])']_vars

(* Every active thread gets its turn: it runs, unless it is blocked or     *)
(* gone before.  The exception: each sleep sends the search back to the    *)
(* head of the list (threads.c:154), so a thread may be passed over for    *)
(* ever, but only by threads in front of it that go to sleep again and     *)
(* again.                                                                  *)
Runs(t) == \E c \in CPU : current_thread[c] = t /\ pc[c] = "user"
OneInFrontSleeps(t) ==
    \E c \in CPU, r, s \in Slot :
        /\ r < s /\ thread_list[c][s] = t
        /\ pc[c] = "sleep" /\ current_thread[c] = thread_list[c][r]

EveryActiveThreadRuns ==
    \A t \in Thread :
        \/ []<>OneInFrontSleeps(t)
        \/ exc_state[t] = "ACTIVE" ~> Runs(t) \/ exc_state[t] # "ACTIVE"

(* Seen from the programs, all of this is the abstract machine of module   *)
(* Threads: no interleaving of dispatch, sleep, wakeup and exit on several *)
(* processors lets a blocked thread proceed, wakes one up by itself or     *)
(* brings a dead one back.                                                 *)
Abstract == INSTANCE Threads WITH status <- exc_state, progress <- done

ImplementsThreads == Abstract!Spec
=============================================================================
