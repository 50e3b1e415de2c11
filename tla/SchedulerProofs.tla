-------------------------- MODULE SchedulerProofs --------------------------
(* Machine-checked proofs about Scheduler, for any number of processors    *)
(* and of programs, whichever programs sleep.  First: the balancer deals   *)
(* threads out evenly.  Then: therefore it never moves one, every thread   *)
(* is on one list, and what a processor runs is its own and is not         *)
(* blocked.  Last: every thread runs with its own registers in its own     *)
(* address space, the processes are counted, and the scheduler implements  *)
(* the threads of module Threads.                                          *)
EXTENDS Scheduler, FiniteSetTheorems, TLAPS

-----------------------------------------------------------------------------
(* Arithmetic of the balancer: total_thread_count divided by the number of *)
(* processors.                                                             *)
LEMMA DivMod ==
    ASSUME NEW n \in Nat
    PROVE  /\ n \div NCpu \in Nat
           /\ n % NCpu \in CPU
           /\ (n + 1) \div NCpu = IF (n % NCpu) + 1 = NCpu THEN (n \div NCpu) + 1
                                                          ELSE n \div NCpu
           /\ (n + 1) % NCpu = IF (n % NCpu) + 1 = NCpu THEN 0 ELSE (n % NCpu) + 1
BY NCpuAssumption, SMTT(30) DEF CPU

(* With n threads dealt out, get_best_cpu gives thread n + 1 to the        *)
(* processor whose turn it is.                                             *)
LEMMA BestCpuIsNextInTurn ==
    ASSUME NEW n \in Nat, NEW count \in [CPU -> Int], NEW cpu \in CPU,
           \A c \in CPU : count[c] = Dealt(n, c),
           IsBestCpu(n + 1, count, cpu)
    PROVE  cpu = n % NCpu
<1> DEFINE q == n \div NCpu
           r == n % NCpu
<1>0. \A c \in CPU : c \in Nat
  BY NCpuAssumption DEF CPU
<1>1. q \in Nat /\ r \in CPU /\ r \in Nat /\ cpu \in Nat
  BY <1>0, DivMod
<1>2. \A c \in CPU : count[c] = q + (IF c < r THEN 1 ELSE 0)
  BY DEF Dealt
<1>3. (n + 1) \div NCpu = IF r + 1 = NCpu THEN q + 1 ELSE q
  BY DivMod
<1> HIDE DEF q, r
<1>4. CASE r + 1 = NCpu
  <2>1. \A c \in CPU : Diff(n + 1, count, c) = IF c < r THEN 1 ELSE 0
    BY <1>1, <1>2, <1>3, <1>4, NCpuAssumption DEF Diff, CPU
  <2>2. \A c \in CPU : c <= r
    BY <1>1, <1>4, NCpuAssumption DEF CPU
  <2>3. QED
    BY <1>1, <2>1, <2>2 DEF IsBestCpu, q, r
<1>5. CASE r + 1 # NCpu
  <2>1. \A c \in CPU : Diff(n + 1, count, c) = IF c < r THEN 2 ELSE 1
    BY <1>1, <1>2, <1>3, <1>5, NCpuAssumption DEF Diff, CPU
  <2>2. QED
    BY <1>1, <2>1 DEF IsBestCpu, CPU, r
<1>6. QED
  BY <1>4, <1>5

(* With n threads dealt out, a processor that takes one thread out of its  *)
(* count and looks for the best place finds itself.                        *)
LEMMA BestFitIsHome ==
    ASSUME NEW n \in Nat, NEW count \in [CPU -> Int], NEW c \in CPU, NEW best \in CPU,
           \A d \in CPU : count[d] = Dealt(n, d),
           IsBestFit(n, [count EXCEPT ![c] = @ - 1], c, best)
    PROVE  best = c
<1> DEFINE q == n \div NCpu
           r == n % NCpu
           without == [count EXCEPT ![c] = @ - 1]
<1>0. \A d \in CPU : d \in Nat
  BY NCpuAssumption DEF CPU
<1>1. q \in Nat /\ r \in CPU /\ r \in Nat /\ c \in Nat /\ best \in Nat
  BY <1>0, DivMod
<1>2. \A d \in CPU : without[d] = q + (IF d < r THEN 1 ELSE 0) - (IF d = c THEN 1 ELSE 0)
  BY <1>1 DEF Dealt, CPU
<1>3. /\ Bsp \in CPU
      /\ \A d \in CPU : d \in Nat
  BY NCpuAssumption DEF Bsp, CPU
<1> HIDE DEF q, r, without
<1>4. \A d \in CPU : Diff(n, without, d) =
          IF d = c THEN (IF d < r THEN 1 ELSE 0) ELSE (IF d < r THEN 2 ELSE 1)
  BY <1>1, <1>2, <1>3 DEF Diff, q
<1>5. CASE IsBestCpu(n, without, Bsp)
  BY <1>5 DEF IsBestFit, without
<1>6. CASE ~IsBestCpu(n, without, Bsp)
  <2>1. IsBestCpu(n, without, best)
    BY <1>6 DEF IsBestFit, without
  <2>2. CASE c < r
    <3>1. \A d \in CPU : d < c => Diff(n, without, d) = 2
      BY <1>1, <1>3, <1>4, <2>2
    <3>2. \A d \in CPU : Diff(n, without, d) >= 1
      BY <1>1, <1>3, <1>4, <2>2
    <3>3. Diff(n, without, c) = 1
      BY <1>4, <2>2
    <3>4. ~(best < c)
      BY <2>1, <3>1, <3>3, <1>1 DEF IsBestCpu
    <3>5. ~(c < best)
      <4>1. Diff(n, without, best) >= 1
        BY <3>2
      <4>2. c < best => Diff(n, without, best) < Diff(n, without, c)
        BY <2>1 DEF IsBestCpu
      <4>3. Diff(n, without, best) \in Nat
        BY <1>4
      <4>4. QED
        BY <4>1, <4>2, <4>3, <3>3
    <3>6. QED
      BY <1>1, <3>4, <3>5
  <2>3. CASE ~(c < r)
    <3>1. Diff(n, without, c) = 0
      BY <1>4, <2>3
    <3>2. \A d \in CPU : d # c => Diff(n, without, d) >= 1
      BY <1>4
    <3>3. Diff(n, without, best) <= Diff(n, without, c)
      BY <2>1, <1>1, <1>4 DEF IsBestCpu
    <3>4. QED
      BY <3>1, <3>2, <3>3, <1>4
  <2>4. QED
    BY <2>2, <2>3
<1>7. QED
  BY <1>5, <1>6

-----------------------------------------------------------------------------
(* The position of a slot is a number: the slots are finitely many.        *)
LEMMA PositionType ==
    ASSUME NEW list \in [Slot -> Thread \cup {NULL}], NEW s \in Slot
    PROVE  Position(list, s) \in Nat
<1>1. IsFiniteSet(Slot)
  BY NThreadAssumption, FS_Interval DEF Slot
<1>2. {r \in Occupied(list) : r < s} \subseteq Slot
  BY DEF Occupied
<1>3. QED
  BY <1>1, <1>2, FS_Subset, FS_CardinalityType DEF Position

(* alist_remove returns a list over the same slots. *)
LEMMA RemoveType ==
    ASSUME NEW list \in [Slot -> Thread \cup {NULL}], NEW t
    PROVE  alist_remove(list, t) \in [Slot -> Thread \cup {NULL}]
BY DEF alist_remove, NULL

(* When an entry sits in one slot only, alist_remove empties that slot and *)
(* leaves the others alone.                                                *)
LEMMA RemoveUnique ==
    ASSUME NEW list \in [Slot -> Thread \cup {NULL}], NEW t \in Thread,
           NEW s \in Slot, list[s] = t,
           \A r \in Slot : list[r] = t => r = s
    PROVE  alist_remove(list, t) = [list EXCEPT ![s] = NULL]
<1>1. s <= s
  BY NThreadAssumption DEF Slot
<1>2. \A r \in Slot : alist_remove(list, t)[r] = IF r = s THEN NULL ELSE list[r]
  BY <1>1 DEF alist_remove
<1>3. QED
  BY <1>2 DEF alist_remove

(* An entry of a list is the content of one of its slots. *)
LEMMA EntriesOf ==
    ASSUME NEW list \in [Slot -> Thread \cup {NULL}], NEW t \in Thread
    PROVE  t \in Entries(list) <=> \E s \in Slot : list[s] = t
BY DEF Entries, Occupied, Thread, NULL

(* What type correctness rests on: threads are created by the bootstrap    *)
(* processor only, while programs are left, and dispatch_thread holds real *)
(* threads where its loop uses them.                                       *)
BootInv ==
    \A c \in CPU :
        /\ pc[c] \in {"create_proc", "create_thread"} =>
              c = Bsp /\ total_thread_count < NThread
        /\ pc[c] \in {"pick", "move"} => first_thread[c] # NULL
        /\ pc[c] = "move" => current_thread[c] # NULL

TypeInv == TypeOK /\ BootInv

LEMMA TypeInvariantStep == TypeInv /\ [Next]_vars => TypeInv'
<1> USE DEF Labels
<1>a. /\ Bsp \in CPU
      /\ NULL \notin Thread /\ NULL = 0 /\ STARTUP = 0
      /\ IdleState \in Registers
      /\ \A t \in Thread : Fresh(t) \in Registers
  BY NCpuAssumption DEF Bsp, CPU, NULL, Thread, STARTUP, IdleState, Fresh, Registers
<1> SUFFICES ASSUME TypeOK, BootInv, [Next]_vars
             PROVE  TypeOK' /\ BootInv'
  BY DEF TypeInv
<1> USE DEF TypeOK, BootInv
<1>1. CASE CreateProc
  <2>1. total_thread_count + 1 \in Thread
    BY <1>1, <1>a, NThreadAssumption DEF CreateProc, Thread
  <2>2. QED
    BY <2>1, <1>1, <1>a DEF CreateProc, sched, running, regs, locals
<1>2. CASE CreateThread
  <2>1. /\ total_thread_count + 1 \in Thread
        /\ total_thread_count + 1 \in 0..NThread
    BY <1>2, <1>a, NThreadAssumption DEF CreateThread, MorePrograms, Thread
  <2>2. total_thread_count + 1 # NThread => total_thread_count + 1 < NThread
    BY <2>1, NThreadAssumption
  <2>3. PICK cpu \in CPU, s \in Slot :
          /\ thread_list' = [thread_list EXCEPT ![cpu][s] = total_thread_count + 1]
          /\ thread_count' = [thread_count EXCEPT ![cpu] = @ + 1]
    BY <1>2 DEF CreateThread, MorePrograms
  <2>4. /\ thread_list' \in [CPU -> [Slot -> Thread \cup {NULL}]]
        /\ thread_count' \in [CPU -> Int]
    BY <2>1, <2>3
  <2>5. QED
    BY <2>1, <2>2, <2>4, <1>2, <1>a DEF CreateThread, MorePrograms, procs, locals
<1>3. ASSUME NEW c \in CPU, UserStep(c)
      PROVE  TypeOK' /\ BootInv'
  <2>a. [cpu_state[c] EXCEPT !.point = 1 - @] \in Registers
    <3>1. cpu_state[c] \in Registers
      OBVIOUS
    <3>2. PICK o \in Thread \cup {NULL}, p \in {0, 1} :
            cpu_state[c] = [owner |-> o, point |-> p]
      BY <3>1 DEF Registers
    <3>3. /\ [cpu_state[c] EXCEPT !.point = 1 - @] = [owner |-> o, point |-> 1 - p]
          /\ 1 - p \in {0, 1}
      BY <3>2
    <3>4. QED
      BY <3>3 DEF Registers
  <2>1. cpu_state' \in [CPU -> Registers]
    BY <2>a, <1>3 DEF UserStep
  <2>b. done' \in [Thread -> {0, 1}]
    <3>1. done' = [done EXCEPT ![current_thread[c]] = 1 - @]
      BY <1>3 DEF UserStep
    <3>2. \A x \in {0, 1} : 1 - x \in {0, 1}
      OBVIOUS
    <3>3. current_thread[c] \in Thread => 1 - done[current_thread[c]] \in {0, 1}
      BY <3>2
    <3>4. QED
      BY <3>1, <3>3
  <2>2. QED
    BY <2>1, <2>b, <1>3 DEF UserStep, sched, running, procs, locals
<1>4. ASSUME NEW c \in CPU, Timer(c)
      PROVE  TypeOK' /\ BootInv'
  BY <1>4 DEF Timer, sched, running, procs, regs, locals
<1>5. ASSUME NEW c \in CPU, SysSleep(c)
      PROVE  TypeOK' /\ BootInv'
  BY <1>5 DEF SysSleep, sched, running, procs, locals
<1>6. ASSUME NEW c \in CPU, Sleep(c)
      PROVE  TypeOK' /\ BootInv'
  BY <1>6, <1>a DEF Sleep, LeaveThread, sched, procs, locals
<1>7. ASSUME NEW c \in CPU, NEW t \in Thread, SysWakeup(c, t)
      PROVE  TypeOK' /\ BootInv'
  BY <1>7 DEF SysWakeup, sched, procs, regs, locals
<1>8. ASSUME NEW c \in CPU, SysExit(c)
      PROVE  TypeOK' /\ BootInv'
  <2>1. thread_list' \in [CPU -> [Slot -> Thread \cup {NULL}]]
    BY <1>8, RemoveType DEF SysExit, LeaveThread
  <2>2. /\ pc' = [pc EXCEPT ![c] = "dispatch"]
        /\ UNCHANGED <<total_thread_count, thread_count, state, cpu_state, done, locals>>
    BY <1>8 DEF SysExit, LeaveThread
  <2>3. exc_state' \in [Thread -> {"NONE", "ACTIVE", "BLCKD", "FREED"}]
    BY <1>8 DEF SysExit, LeaveThread
  <2>4. proc_list' \subseteq Thread /\ num_proc' \in Int
    BY <1>8 DEF SysExit, LeaveThread
  <2>5. cr3' \in [CPU -> Thread \cup {STARTUP}]
    BY <1>8 DEF SysExit, LeaveThread
  <2>6. current_thread' \in [CPU -> Thread \cup {NULL}]
    BY <1>8 DEF SysExit, LeaveThread
  <2>7. current_thread_index' \in [CPU -> Nat]
    BY <1>8 DEF SysExit, LeaveThread
  <2>8. /\ pc' \in [CPU -> Labels]
        /\ pc'[c] = "dispatch"
        /\ \A d \in CPU : d # c => pc'[d] = pc[d] /\ current_thread'[d] = current_thread[d]
    BY <2>2, <1>8 DEF SysExit, LeaveThread
  <2>9. BootInv'
    BY <2>2, <2>8 DEF locals
  <2>10. TypeOK'
    BY <2>1, <2>2, <2>3, <2>4, <2>5, <2>6, <2>7, <2>8 DEF locals
  <2>11. QED
    BY <2>9, <2>10
<1>9. ASSUME NEW c \in CPU, DispatchTest(c)
      PROVE  TypeOK' /\ BootInv'
  <2>1. /\ pc' \in [CPU -> Labels]
        /\ \A d \in CPU : d # c => pc'[d] = pc[d]
        /\ pc'[c] \in {"lock", "idle"}
    BY <1>9 DEF DispatchTest
  <2>2. cpu_state' \in [CPU -> Registers]
    BY <1>9, <1>a DEF DispatchTest
  <2>3. UNCHANGED <<sched, running, procs, state, cr3, done, locals>>
    BY <1>9 DEF DispatchTest
  <2>4. QED
    BY <2>1, <2>2, <2>3 DEF sched, running, procs, locals
<1>10. ASSUME NEW c \in CPU, DispatchLock(c)
       PROVE  TypeOK' /\ BootInv'
  <2>1. /\ pc' \in [CPU -> Labels]
        /\ \A d \in CPU : d # c => pc'[d] = pc[d]
        /\ pc'[c] \in {"pick", "dispatch"}
        /\ pc'[c] = "pick" => first_thread'[c] # NULL
    BY <1>10 DEF DispatchLock, IsFirstSlot, Occupied
  <2>2. /\ first_thread' \in [CPU -> Thread \cup {NULL}]
        /\ \A d \in CPU : d # c => first_thread'[d] = first_thread[d]
    BY <1>10 DEF DispatchLock
  <2>3. UNCHANGED <<sched, running, procs, regs, curcontext>>
    BY <1>10 DEF DispatchLock
  <2>4. QED
    BY <2>1, <2>2, <2>3 DEF sched, running, procs, regs
<1>11. ASSUME NEW c \in CPU, PickFirst(c)
       PROVE  TypeOK' /\ BootInv'
  <2>1. /\ pc' \in [CPU -> Labels]
        /\ \A d \in CPU : d # c => pc'[d] = pc[d]
        /\ pc'[c] \in {"move", "dispatch"}
    BY <1>11 DEF PickFirst
  <2>2. \/ /\ current_thread' = current_thread
           /\ pc'[c] = "dispatch"
        \/ \E t \in Thread : current_thread' = [current_thread EXCEPT ![c] = t]
    <3>1. first_thread[c] \in Thread
      BY <1>11 DEF PickFirst
    <3>2. \A s \in ActiveSlots(c) : thread_list[c][s] \in Thread
      BY DEF ActiveSlots, Occupied
    <3>3. QED
      BY <3>1, <3>2, <1>11 DEF PickFirst, IsNextActive
  <2>a. /\ current_thread' \in [CPU -> Thread \cup {NULL}]
        /\ \A d \in CPU : d # c => current_thread'[d] = current_thread[d]
        /\ pc'[c] = "move" => current_thread'[c] # NULL
    BY <2>1, <2>2, <1>a
  <2>3. current_thread_index' \in [CPU -> Nat]
    BY <1>11, PositionType DEF PickFirst
  <2>4. curcontext' \in [CPU -> Thread \cup {STARTUP}]
    BY <1>11 DEF PickFirst
  <2>5. UNCHANGED <<sched, exc_state, procs, regs, first_thread>>
    BY <1>11 DEF PickFirst
  <2>6. BootInv'
    <3>1. first_thread'[c] # NULL
      BY <1>11, <2>5 DEF PickFirst
    <3>2. QED
      BY <2>1, <2>a, <2>5, <3>1 DEF sched
  <2>7. TypeOK'
    BY <2>1, <2>a, <2>3, <2>4, <2>5 DEF sched, procs, regs
  <2>8. QED
    BY <2>6, <2>7
<1>12. ASSUME NEW c \in CPU, PickNext(c)
       PROVE  TypeOK' /\ BootInv'
  <2>1. PICK s \in Slot :
          /\ s \in ActiveSlots(c)
          /\ current_thread' = [current_thread EXCEPT ![c] = thread_list[c][s]]
          /\ current_thread_index' =
               [current_thread_index EXCEPT ![c] = Position(thread_list[c], s)]
    BY <1>12 DEF PickNext, IsNextActive
  <2>2. current_thread[c] \in Thread
    BY <1>12, <1>a DEF PickNext
  <2>3. thread_list[c][s] # NULL
    BY <2>1 DEF ActiveSlots, Occupied
  <2>4. /\ current_thread' \in [CPU -> Thread \cup {NULL}]
        /\ current_thread'[c] # NULL
        /\ \A d \in CPU : d # c => current_thread'[d] = current_thread[d]
    BY <2>1, <2>3
  <2>5. current_thread_index' \in [CPU -> Nat]
    BY <2>1, PositionType
  <2>6. /\ state' \in [Thread -> Registers]
        /\ curcontext' \in [CPU -> Thread \cup {STARTUP}]
    BY <1>12, <2>2 DEF PickNext
  <2>7. /\ pc' = [pc EXCEPT ![c] = "move"]
        /\ pc[c] = "pick"
        /\ UNCHANGED <<sched, exc_state, procs, cpu_state, cr3, done, first_thread>>
    BY <1>12 DEF PickNext
  <2>8. BootInv'
    BY <2>4, <2>7 DEF sched
  <2>9. TypeOK'
    BY <2>4, <2>5, <2>6, <2>7 DEF sched, procs
  <2>10. QED
    BY <2>8, <2>9
<1>13. ASSUME NEW c \in CPU, Move(c)
       PROVE  TypeOK' /\ BootInv'
  <2>1. PICK best \in CPU :
          IF best # c
          THEN /\ \E s \in Slot :
                    thread_list' = [thread_list EXCEPT
                        ![c] = alist_remove(@, current_thread[c]),
                        ![best][s] = current_thread[c]]
               /\ thread_count' = [thread_count EXCEPT ![c] = @ - 1]
               /\ current_thread' = [current_thread EXCEPT ![c] = NULL]
               /\ current_thread_index' = [current_thread_index EXCEPT ![c] = 0]
               /\ pc' = [pc EXCEPT ![c] = "pick"]
               /\ UNCHANGED <<cpu_state, cr3>>
          ELSE /\ cpu_state' = [cpu_state EXCEPT ![c] = state[current_thread[c]]]
               /\ cr3' = [cr3 EXCEPT ![c] = IF current_thread[c] = curcontext[c]
                                            THEN @ ELSE current_thread[c]]
               /\ pc' = [pc EXCEPT ![c] = "user"]
               /\ UNCHANGED <<thread_list, thread_count, current_thread,
                              current_thread_index>>
    BY <1>13 DEF Move, MoveTo, LoadThread, WithoutThread
  <2>2. UNCHANGED <<total_thread_count, exc_state, procs, state, done, locals>>
    BY <1>13 DEF Move, MoveTo, LoadThread, WithoutThread
  <2>3. CASE best # c
    <3>1. PICK s \in Slot :
            thread_list' = [thread_list EXCEPT
                ![c] = alist_remove(@, current_thread[c]),
                ![best][s] = current_thread[c]]
      BY <2>1, <2>3
    <3>2. thread_list' \in [CPU -> [Slot -> Thread \cup {NULL}]]
      BY <3>1, RemoveType
    <3>3. /\ thread_count' = [thread_count EXCEPT ![c] = @ - 1]
          /\ current_thread' = [current_thread EXCEPT ![c] = NULL]
          /\ current_thread_index' = [current_thread_index EXCEPT ![c] = 0]
          /\ pc' = [pc EXCEPT ![c] = "pick"]
          /\ UNCHANGED <<cpu_state, cr3>>
      BY <2>1, <2>3
    <3>4. thread_count' \in [CPU -> Int]
      BY <3>3
    <3>5. current_thread' \in [CPU -> Thread \cup {NULL}]
      BY <3>3
    <3>6. current_thread_index' \in [CPU -> Nat]
      BY <3>3
    <3>7. BootInv'
      BY <1>13, <2>2, <3>3 DEF Move, MoveTo, LoadThread, WithoutThread, locals
    <3>8. TypeOK'
      BY <2>2, <3>2, <3>3, <3>4, <3>5, <3>6 DEF procs, locals
    <3>9. QED
      BY <3>7, <3>8
  <2>4. CASE best = c
    <3>1. /\ cpu_state' \in [CPU -> Registers]
          /\ cr3' \in [CPU -> Thread \cup {STARTUP}]
      <4>1. current_thread[c] \in Thread
        BY <1>13 DEF Move, MoveTo, LoadThread, WithoutThread
      <4>2. cpu_state' = [cpu_state EXCEPT ![c] = state[current_thread[c]]]
        BY <2>1, <2>4
      <4>3. \/ cr3' = [cr3 EXCEPT ![c] = cr3[c]]
            \/ cr3' = [cr3 EXCEPT ![c] = current_thread[c]]
        BY <2>1, <2>4
      <4>4. cpu_state' \in [CPU -> Registers]
        BY <4>1, <4>2
      <4>5. cr3' \in [CPU -> Thread \cup {STARTUP}]
        BY <4>1, <4>3
      <4>6. QED
        BY <4>4, <4>5
    <3>2. /\ pc' = [pc EXCEPT ![c] = "user"]
          /\ UNCHANGED <<thread_list, thread_count, current_thread,
                         current_thread_index>>
      BY <2>1, <2>4
    <3>3. QED
      BY <2>2, <3>1, <3>2 DEF procs, locals
  <2>5. QED
    BY <2>3, <2>4
<1>14. CASE UNCHANGED vars
  BY <1>14 DEF vars, sched, running, procs, regs, locals
<1>15. QED
  BY <1>1, <1>2, <1>3, <1>4, <1>5, <1>6, <1>7, <1>8, <1>9, <1>10, <1>11, <1>12,
     <1>13, <1>14 DEF Next, Boot, Kernel, Program
LEMMA TypeInvariant == Spec => []TypeInv
<1> USE DEF Labels
<1>a. /\ Bsp \in CPU
      /\ NULL \notin Thread /\ NULL = 0 /\ STARTUP = 0
      /\ IdleState \in Registers
      /\ \A t \in Thread : Fresh(t) \in Registers
  BY NCpuAssumption DEF Bsp, CPU, NULL, Thread, STARTUP, IdleState, Fresh, Registers
<1>1. Init => TypeInv
  BY <1>a, NThreadAssumption DEF Init, TypeInv, TypeOK, BootInv, EmptyList
<1>2. QED
  BY <1>1, TypeInvariantStep, PTL DEF Spec

(* Type correctness of the scheduler's tables, registers and program       *)
(* counters under boot, dispatch, sleep, wakeup and exit.                  *)
THEOREM TypeCorrect == Spec => []TypeOK
<1>1. TypeInv => TypeOK
  BY DEF TypeInv
<1>2. QED
  BY <1>1, TypeInvariant, PTL
-----------------------------------------------------------------------------
(* A thread that reaches the balancer in dispatch_thread stays: the branch *)
(* of move_if_it_make_sense that moves it is never taken.                  *)
LEMMA MoveStaysHome ==
    ASSUME TypeInv, DealtRoundRobin, NEW c \in CPU, Move(c)
    PROVE  /\ cpu_state' = [cpu_state EXCEPT ![c] = state[current_thread[c]]]
           /\ cr3' = [cr3 EXCEPT ![c] = IF current_thread[c] = curcontext[c]
                                        THEN @ ELSE current_thread[c]]
           /\ pc[c] = "move"
           /\ pc' = [pc EXCEPT ![c] = "user"]
           /\ UNCHANGED <<sched, running, procs, state, done, locals>>
<1>1. PICK best \in CPU :
        /\ IsBestFit(total_thread_count, [thread_count EXCEPT ![c] = @ - 1], c, best)
        /\ best = c =>
             /\ cpu_state' = [cpu_state EXCEPT ![c] = state[current_thread[c]]]
             /\ cr3' = [cr3 EXCEPT ![c] = IF current_thread[c] = curcontext[c]
                                          THEN @ ELSE current_thread[c]]
             /\ pc' = [pc EXCEPT ![c] = "user"]
             /\ UNCHANGED <<thread_list, thread_count, current_thread,
                            current_thread_index>>
  BY DEF Move, MoveTo, LoadThread, WithoutThread
<1>2. /\ total_thread_count \in Nat
      /\ thread_count \in [CPU -> Int]
      /\ \A d \in CPU : thread_count[d] = Dealt(total_thread_count, d)
  BY NThreadAssumption DEF TypeInv, TypeOK, DealtRoundRobin
<1>3. best = c
  BY <1>1, <1>2, BestFitIsHome
<1>4. /\ pc[c] = "move"
      /\ UNCHANGED <<total_thread_count, exc_state, procs, state, done, locals>>
  BY DEF Move, MoveTo, LoadThread, WithoutThread
<1>5. QED
  BY <1>1, <1>3, <1>4 DEF sched, running

(* The counts of the balancer: CreateThread is the only step that changes  *)
(* them.                                                                   *)
LEMMA Balance == Spec => [](TypeInv /\ DealtRoundRobin)
<1>1. Init => DealtRoundRobin
  <2>1. \A c \in CPU : Dealt(0, c) = 0
    <3>1. 0 \div NCpu = 0 /\ 0 % NCpu = 0
      BY NCpuAssumption, SMTT(30)
    <3>2. QED
      BY <3>1 DEF Dealt, CPU
  <2>2. QED
    BY <2>1 DEF Init, DealtRoundRobin
<1>2. TypeInv /\ DealtRoundRobin /\ [Next]_vars => DealtRoundRobin'
  <2> SUFFICES ASSUME TypeInv, DealtRoundRobin, [Next]_vars
               PROVE  DealtRoundRobin'
    OBVIOUS
  <2>1. CASE CreateThread
    <3> DEFINE n == total_thread_count
    <3>1. PICK cpu \in CPU :
            /\ IsBestCpu(n + 1, thread_count, cpu)
            /\ thread_count' = [thread_count EXCEPT ![cpu] = @ + 1]
      BY <2>1 DEF CreateThread, MorePrograms
    <3>2. n' = n + 1
      BY <2>1 DEF CreateThread, MorePrograms
    <3>3. /\ n \in Nat
          /\ thread_count \in [CPU -> Int]
          /\ \A c \in CPU : thread_count[c] = Dealt(n, c)
      BY NThreadAssumption DEF TypeInv, TypeOK, DealtRoundRobin
    <3>4. cpu = n % NCpu
      <4> HIDE DEF n
      <4>1. QED
        BY <3>1, <3>3, BestCpuIsNextInTurn
    <3>5. \A c \in CPU : Dealt(n + 1, c) = Dealt(n, c) + (IF c = cpu THEN 1 ELSE 0)
      <4> HIDE DEF n
      <4>0. \A c \in CPU : c \in 0 .. NCpu - 1
        BY DEF CPU
      <4>1. /\ n \div NCpu \in Nat /\ n % NCpu \in CPU
            /\ (n + 1) \div NCpu = IF cpu + 1 = NCpu THEN (n \div NCpu) + 1
                                                     ELSE n \div NCpu
            /\ (n + 1) % NCpu = IF cpu + 1 = NCpu THEN 0 ELSE cpu + 1
        BY <3>3, <3>4, DivMod
      <4>2. QED
        BY <4>0, <4>1, <3>4, NCpuAssumption DEF Dealt
    <3>6. \A c \in CPU : thread_count'[c] = Dealt(n + 1, c)
      BY <3>1, <3>3, <3>5
    <3>7. QED
      BY <3>2, <3>6 DEF DealtRoundRobin
  <2>2. ASSUME NEW c \in CPU, Move(c)
        PROVE  DealtRoundRobin'
    BY <2>2, MoveStaysHome DEF DealtRoundRobin, sched
  <2>3. CASE UNCHANGED sched
    BY <2>3 DEF DealtRoundRobin, sched
  <2>4. ASSUME NEW c \in CPU, SysExit(c)
        PROVE  DealtRoundRobin'
    BY <2>4 DEF SysExit, LeaveThread, DealtRoundRobin
  <2>5. QED
    BY <2>1, <2>2, <2>3, <2>4 DEF Next, Boot, Kernel, Program, vars, CreateProc, UserStep,
       Timer, SysSleep, Sleep, SysWakeup, DispatchTest, DispatchLock, PickFirst,
       PickNext, sched
<1>3. QED
  BY <1>1, <1>2, TypeInvariant, PTL DEF Spec

(* get_best_cpu and move_if_it_make_sense keep the number of threads per   *)
(* processor at the round-robin closed form through every boot and run.    *)
THEOREM CountsAreRoundRobin == Spec => []DealtRoundRobin
BY Balance, PTL

-----------------------------------------------------------------------------
(* While a processor is inside the loop of dispatch_thread, the head of    *)
(* the list that it read before the loop stays on the list, and an active  *)
(* thread remains.                                                         *)
WalkInv ==
    \A c \in CPU : pc[c] = "pick" =>
        /\ first_thread[c] \in Entries(thread_list[c])
        /\ are_there_still_threads(c)

(* The inductive invariant behind the safety theorems.  The lists and the  *)
(* current threads need each other: a thread that is taken off its list    *)
(* must not be current elsewhere, and a current thread is at home because  *)
(* only its own processor takes it off the list.                           *)
SafeInv ==
    /\ TypeInv
    /\ DealtRoundRobin
    /\ KernelControl
    /\ EveryThreadOnOneList
    /\ CurrentThreadsRunAtHome
    /\ WalkInv

(* Only these steps change the lists or a thread's state. *)
LEMMA ListFrame ==
    ASSUME TypeInv, DealtRoundRobin, [Next]_vars
    PROVE  \/ UNCHANGED <<thread_list, exc_state>>
           \/ CreateThread
           \/ \E c \in CPU : Sleep(c) \/ SysExit(c) \/ \E t \in Thread : SysWakeup(c, t)
<1>1. ASSUME NEW c \in CPU, Move(c)
      PROVE  UNCHANGED <<thread_list, exc_state>>
  BY <1>1, MoveStaysHome DEF sched, running
<1>2. QED
  BY <1>1 DEF Next, Boot, Kernel, Program, vars, CreateProc, UserStep,
     Timer, SysSleep, DispatchTest, DispatchLock, PickFirst,
     PickNext, sched, running

(* The slot that create_thread fills, and the list afterwards. *)
LEMMA CreateEffect ==
    ASSUME TypeInv, CreateThread
    PROVE  \E cpu \in CPU, s \in Slot :
             /\ thread_list[cpu][s] = NULL
             /\ thread_list' = [thread_list EXCEPT ![cpu][s] = total_thread_count + 1]
             /\ total_thread_count + 1 \in Thread
             /\ total_thread_count' = total_thread_count + 1
             /\ exc_state' = [exc_state EXCEPT ![total_thread_count + 1] = "ACTIVE"]
<1>1. total_thread_count + 1 \in Thread
  BY NCpuAssumption, NThreadAssumption DEF TypeInv, TypeOK, BootInv, CreateThread,
     Thread, Bsp, CPU
<1>2. PICK cpu \in CPU, s \in Slot :
        /\ IsAddSlot(thread_list[cpu], s)
        /\ thread_list' = [thread_list EXCEPT ![cpu][s] = total_thread_count + 1]
  BY DEF CreateThread, MorePrograms
<1>3. thread_list[cpu][s] = NULL
  BY <1>2 DEF IsAddSlot, Occupied, TypeInv, TypeOK
<1>4. QED
  BY <1>1, <1>2, <1>3 DEF CreateThread, MorePrograms

(* The exiting thread sits in one slot of its processor's list; that slot  *)
(* is emptied and nothing else changes in the lists.                       *)
LEMMA ExitEffect ==
    ASSUME SafeInv, NEW c \in CPU, SysExit(c)
    PROVE  /\ current_thread[c] \in Thread
           /\ exc_state' = [exc_state EXCEPT ![current_thread[c]] = "FREED"]
           /\ current_thread' = [current_thread EXCEPT ![c] = NULL]
           /\ \E s \in Slot :
                /\ thread_list[c][s] = current_thread[c]
                /\ thread_list' = [thread_list EXCEPT ![c][s] = NULL]
<1> DEFINE t == current_thread[c]
<1>1. t \in Thread
  BY DEF SysExit, LeaveThread, SafeInv, KernelControl, TypeInv, TypeOK
<1>2. thread_list \in [CPU -> [Slot -> Thread \cup {NULL}]]
  BY DEF SafeInv, TypeInv, TypeOK
<1>3. t \in Entries(thread_list[c])
  BY <1>1 DEF SafeInv, CurrentThreadsRunAtHome, Thread, NULL
<1>4. PICK s \in Slot : thread_list[c][s] = t
  BY <1>1, <1>2, <1>3, EntriesOf
<1>5. \A r \in Slot : thread_list[c][r] = t => r = s
  BY <1>1, <1>4 DEF SafeInv, EveryThreadOnOneList
<1>6. alist_remove(thread_list[c], t) = [thread_list[c] EXCEPT ![s] = NULL]
  BY <1>1, <1>2, <1>4, <1>5, RemoveUnique
<1>7. thread_list' = [thread_list EXCEPT ![c][s] = NULL]
  BY <1>6, <1>2 DEF SysExit, LeaveThread
<1>8. QED
  BY <1>1, <1>4, <1>7 DEF SysExit, LeaveThread

LEMMA ListsPreserved ==
    ASSUME SafeInv, [Next]_vars
    PROVE  EveryThreadOnOneList'
<1> USE DEF Live
<1>a. /\ thread_list \in [CPU -> [Slot -> Thread \cup {NULL}]]
      /\ exc_state \in [Thread -> {"NONE", "ACTIVE", "BLCKD", "FREED"}]
      /\ NULL \notin Thread
  BY DEF SafeInv, TypeInv, TypeOK, Thread, NULL
<1>b. EveryThreadOnOneList
  BY DEF SafeInv
<1>1. CASE UNCHANGED <<thread_list, exc_state>>
  BY <1>1, <1>b DEF EveryThreadOnOneList
<1>2. CASE CreateThread
  <2> DEFINE new == total_thread_count + 1
  <2>1. PICK cpu \in CPU, s \in Slot :
          /\ thread_list[cpu][s] = NULL
          /\ thread_list' = [thread_list EXCEPT ![cpu][s] = new]
          /\ new \in Thread
          /\ exc_state' = [exc_state EXCEPT ![new] = "ACTIVE"]
    BY <1>2, CreateEffect DEF SafeInv
  <2>2. exc_state[new] = "NONE"
    BY <2>1, NThreadAssumption DEF SafeInv, KernelControl, TypeInv, TypeOK
  <2>3. \A c \in CPU, r \in Slot : thread_list[c][r] # new
    BY <2>1, <2>2, <1>b DEF EveryThreadOnOneList
  <2>4. \A c \in CPU, r \in Slot :
          thread_list'[c][r] = IF c = cpu /\ r = s THEN new ELSE thread_list[c][r]
    BY <2>1, <1>a
  <2> HIDE DEF new
  <2>5. \A t \in Thread : t # new => exc_state'[t] = exc_state[t]
    BY <2>1, <1>a
  <2>6. exc_state'[new] = "ACTIVE"
    BY <2>1, <1>a
  <2>7. QED
    BY <2>1, <2>3, <2>4, <2>5, <2>6, <1>a, <1>b DEF EveryThreadOnOneList
<1>3. ASSUME NEW c \in CPU, Sleep(c)
      PROVE  EveryThreadOnOneList'
  <2>1. current_thread[c] \in Thread
    BY <1>3 DEF Sleep, LeaveThread, SafeInv, KernelControl, TypeInv, TypeOK
  <2>2. exc_state[current_thread[c]] = "ACTIVE"
    BY <2>1, <1>a DEF SafeInv, CurrentThreadsRunAtHome
  <2>3. QED
    BY <1>3, <1>a, <1>b, <2>1, <2>2 DEF Sleep, LeaveThread, sched, EveryThreadOnOneList
<1>4. ASSUME NEW c \in CPU, NEW t \in Thread, SysWakeup(c, t)
      PROVE  EveryThreadOnOneList'
  <2>1. Live(t)
    BY <1>4, <1>a, <1>b, EntriesOf DEF SysWakeup, EveryThreadOnOneList
  <2>2. QED
    BY <1>4, <1>a, <1>b, <2>1 DEF SysWakeup, sched, EveryThreadOnOneList
<1>5. ASSUME NEW c \in CPU, SysExit(c)
      PROVE  EveryThreadOnOneList'
  <2>1. PICK s \in Slot :
          /\ thread_list[c][s] = current_thread[c]
          /\ thread_list' = [thread_list EXCEPT ![c][s] = NULL]
          /\ current_thread[c] \in Thread
          /\ exc_state' = [exc_state EXCEPT ![current_thread[c]] = "FREED"]
    BY <1>5, ExitEffect
  <2>2. \A d \in CPU, r \in Slot :
          thread_list'[d][r] = IF d = c /\ r = s THEN NULL ELSE thread_list[d][r]
    BY <2>1, <1>a
  <2>3. QED
    BY <2>1, <2>2, <1>a, <1>b DEF EveryThreadOnOneList
<1>6. QED
  BY <1>1, <1>2, <1>3, <1>4, <1>5, ListFrame DEF SafeInv

-----------------------------------------------------------------------------
(* What the loop of dispatch_thread chooses is an active thread of the     *)
(* processor's own list.                                                   *)
LEMMA PickEffect ==
    ASSUME SafeInv, NEW c \in CPU, PickFirst(c) \/ PickNext(c)
    PROVE  /\ pc[c] = "pick"
           /\ pc' = [pc EXCEPT ![c] = "move"]
           /\ \E t \in Thread :
                /\ t \in Entries(thread_list[c])
                /\ exc_state[t] = "ACTIVE"
                /\ current_thread' = [current_thread EXCEPT ![c] = t]
           /\ UNCHANGED <<sched, exc_state>>
           /\ \A d \in CPU : d # c => current_thread_index'[d] = current_thread_index[d]
<1>a. /\ thread_list \in [CPU -> [Slot -> Thread \cup {NULL}]]
      /\ exc_state \in [Thread -> {"NONE", "ACTIVE", "BLCKD", "FREED"}]
      /\ first_thread \in [CPU -> Thread \cup {NULL}]
      /\ current_thread_index \in [CPU -> Nat]
      /\ NULL \notin Thread
  BY DEF SafeInv, TypeInv, TypeOK, Thread, NULL
<1>b. \A s \in ActiveSlots(c) :
        /\ thread_list[c][s] \in Thread
        /\ thread_list[c][s] \in Entries(thread_list[c])
        /\ exc_state[thread_list[c][s]] = "ACTIVE"
  BY <1>a DEF ActiveSlots, Occupied, Entries
<1>1. CASE PickFirst(c)
  <2>1. /\ pc[c] = "pick"
        /\ first_thread[c] \in Entries(thread_list[c])
        /\ are_there_still_threads(c)
    BY <1>1 DEF PickFirst, SafeInv, WalkInv
  <2>2. first_thread[c] \in Thread
    BY <2>1, <1>a DEF Entries, Occupied
  <2>3. Live(first_thread[c])
    BY <2>1, <2>2, <1>a, EntriesOf DEF SafeInv, EveryThreadOnOneList
  <2>4. exc_state[first_thread[c]] # "BLCKD" => exc_state[first_thread[c]] = "ACTIVE"
    BY <2>3 DEF Live
  <2>5. PICK s \in Slot :
          IF exc_state[first_thread[c]] # "BLCKD"
          THEN /\ current_thread' = [current_thread EXCEPT ![c] = first_thread[c]]
               /\ UNCHANGED current_thread_index
          ELSE /\ IsNextActive(c, current_thread_index[c] + 1, s)
               /\ current_thread' = [current_thread EXCEPT ![c] = thread_list[c][s]]
               /\ current_thread_index' = [current_thread_index EXCEPT
                                            ![c] = Position(thread_list[c], s)]
    BY <1>1, <2>1 DEF PickFirst
  <2>6. /\ pc' = [pc EXCEPT ![c] = "move"]
        /\ UNCHANGED <<sched, exc_state>>
    BY <1>1, <2>1 DEF PickFirst
  <2>7. CASE exc_state[first_thread[c]] # "BLCKD"
    BY <2>1, <2>2, <2>4, <2>5, <2>6, <2>7
  <2>8. CASE exc_state[first_thread[c]] = "BLCKD"
    <3>1. s \in ActiveSlots(c)
      BY <2>5, <2>8 DEF IsNextActive
    <3>2. \A d \in CPU : d # c => current_thread_index'[d] = current_thread_index[d]
      BY <2>5, <2>8, <1>a
    <3>3. QED
      BY <2>1, <2>5, <2>6, <2>8, <3>1, <3>2, <1>b
  <2>9. QED
    BY <2>7, <2>8
<1>2. CASE PickNext(c)
  <2>1. PICK s \in Slot :
          /\ s \in ActiveSlots(c)
          /\ current_thread' = [current_thread EXCEPT ![c] = thread_list[c][s]]
          /\ current_thread_index' =
                [current_thread_index EXCEPT ![c] = Position(thread_list[c], s)]
    BY <1>2 DEF PickNext, IsNextActive
  <2>2. /\ pc[c] = "pick"
        /\ pc' = [pc EXCEPT ![c] = "move"]
        /\ UNCHANGED <<sched, exc_state>>
    BY <1>2 DEF PickNext
  <2>3. \A d \in CPU : d # c => current_thread_index'[d] = current_thread_index[d]
    BY <2>1, <1>a
  <2>4. QED
    BY <2>1, <2>2, <2>3, <1>b
<1>3. QED
  BY <1>1, <1>2

LEMMA CurrentPreserved ==
    ASSUME SafeInv, [Next]_vars
    PROVE  CurrentThreadsRunAtHome'
<1>a. /\ thread_list \in [CPU -> [Slot -> Thread \cup {NULL}]]
      /\ current_thread \in [CPU -> Thread \cup {NULL}]
      /\ exc_state \in [Thread -> {"NONE", "ACTIVE", "BLCKD", "FREED"}]
      /\ NULL \notin Thread
  BY DEF SafeInv, TypeInv, TypeOK, Thread, NULL
<1>b. \A c \in CPU : current_thread[c] # NULL =>
        /\ current_thread[c] \in Thread
        /\ exc_state[current_thread[c]] = "ACTIVE"
        /\ current_thread[c] \in Entries(thread_list[c])
        /\ \E s \in Slot : thread_list[c][s] = current_thread[c]
  BY <1>a, EntriesOf DEF SafeInv, CurrentThreadsRunAtHome
<1>c. \A c, d \in CPU : current_thread[c] = current_thread[d] /\ current_thread[c] # NULL
        => c = d
  BY <1>b DEF SafeInv, EveryThreadOnOneList
<1>1. CASE UNCHANGED <<thread_list, exc_state, current_thread>>
  BY <1>1 DEF SafeInv, CurrentThreadsRunAtHome
<1>2. CASE CreateThread
  <2>1. PICK cpu \in CPU, s \in Slot :
          /\ thread_list[cpu][s] = NULL
          /\ thread_list' = [thread_list EXCEPT ![cpu][s] = total_thread_count + 1]
          /\ total_thread_count + 1 \in Thread
          /\ exc_state' = [exc_state EXCEPT ![total_thread_count + 1] = "ACTIVE"]
    BY <1>2, CreateEffect DEF SafeInv
  <2>2. current_thread' = current_thread
    BY <1>2 DEF CreateThread, MorePrograms
  <2>3. \A c \in CPU, r \in Slot :
          thread_list[c][r] # NULL => thread_list'[c][r] = thread_list[c][r]
    BY <2>1, <1>a
  <2>4. thread_list' \in [CPU -> [Slot -> Thread \cup {NULL}]]
    BY <2>1, <1>a
  <2>5. \A t \in Thread : exc_state[t] = "ACTIVE" => exc_state'[t] = "ACTIVE"
    BY <2>1, <1>a
  <2>6. ASSUME NEW c \in CPU, current_thread[c] # NULL
        PROVE  /\ current_thread[c] \in Entries(thread_list'[c])
               /\ exc_state'[current_thread[c]] = "ACTIVE"
    <3>1. \E r \in Slot : thread_list'[c][r] = current_thread[c]
      BY <1>b, <2>3, <2>6
    <3>2. QED
      BY <3>1, <1>b, <2>4, <2>5, <2>6, EntriesOf
  <2>7. QED
    BY <2>2, <2>6 DEF CurrentThreadsRunAtHome
<1>3. ASSUME NEW c \in CPU, Sleep(c)
      PROVE  CurrentThreadsRunAtHome'
  <2>1. current_thread[c] \in Thread
    BY <1>3, <1>a DEF Sleep, LeaveThread, SafeInv, KernelControl
  <2>2. \A d \in CPU : current_thread'[d] # NULL =>
          d # c /\ current_thread'[d] = current_thread[d]
    BY <1>3, <1>a DEF Sleep, LeaveThread
  <2>3. \A t \in Thread : t # current_thread[c] => exc_state'[t] = exc_state[t]
    BY <1>3, <1>a DEF Sleep, LeaveThread
  <2>4. thread_list' = thread_list
    BY <1>3 DEF Sleep, LeaveThread, sched
  <2>5. QED
    BY <2>1, <2>2, <2>3, <2>4, <1>b, <1>c, <1>a DEF CurrentThreadsRunAtHome
<1>4. ASSUME NEW c \in CPU, NEW t \in Thread, SysWakeup(c, t)
      PROVE  CurrentThreadsRunAtHome'
  BY <1>4, <1>a, <1>b DEF SysWakeup, sched, CurrentThreadsRunAtHome
<1>5. ASSUME NEW c \in CPU, SysExit(c)
      PROVE  CurrentThreadsRunAtHome'
  <2>1. PICK s \in Slot :
          /\ thread_list[c][s] = current_thread[c]
          /\ thread_list' = [thread_list EXCEPT ![c][s] = NULL]
    BY <1>5, ExitEffect
  <2>2. /\ current_thread[c] \in Thread
        /\ current_thread' = [current_thread EXCEPT ![c] = NULL]
        /\ exc_state' = [exc_state EXCEPT ![current_thread[c]] = "FREED"]
    BY <1>5, ExitEffect
  <2>3. \A d \in CPU : current_thread'[d] # NULL =>
          d # c /\ current_thread'[d] = current_thread[d]
    BY <2>2, <1>a
  <2>4. \A d \in CPU : d # c => thread_list'[d] = thread_list[d]
    BY <2>1, <1>a
  <2>5. \A t \in Thread : t # current_thread[c] => exc_state'[t] = exc_state[t]
    BY <2>2, <1>a
  <2>6. QED
    BY <2>2, <2>3, <2>4, <2>5, <1>b, <1>c, <1>a DEF CurrentThreadsRunAtHome
<1>6. ASSUME NEW c \in CPU, PickFirst(c) \/ PickNext(c)
      PROVE  CurrentThreadsRunAtHome'
  <2>1. PICK t \in Thread :
          /\ t \in Entries(thread_list[c])
          /\ exc_state[t] = "ACTIVE"
          /\ current_thread' = [current_thread EXCEPT ![c] = t]
    BY <1>6, PickEffect
  <2>2. UNCHANGED <<thread_list, exc_state>>
    BY <1>6, PickEffect DEF sched
  <2>3. QED
    BY <2>1, <2>2, <1>a, <1>b DEF CurrentThreadsRunAtHome
<1>7. ASSUME NEW c \in CPU, Move(c)
      PROVE  CurrentThreadsRunAtHome'
  <2>1. UNCHANGED <<thread_list, exc_state, current_thread>>
    BY <1>7, MoveStaysHome DEF SafeInv, sched, running
  <2>2. QED
    BY <2>1, <1>1
<1>8. QED
  <2>1. \/ UNCHANGED <<thread_list, exc_state, current_thread>>
        \/ CreateThread
        \/ \E c \in CPU : \/ Sleep(c) \/ SysExit(c) \/ PickFirst(c) \/ PickNext(c)
                          \/ Move(c) \/ \E t \in Thread : SysWakeup(c, t)
    BY DEF Next, Boot, Kernel, Program, vars, CreateProc, UserStep, Timer, SysSleep,
       DispatchTest, DispatchLock, sched, running
  <2>2. QED
    BY <2>1, <1>1, <1>2, <1>3, <1>4, <1>5, <1>6, <1>7

-----------------------------------------------------------------------------
(* Inside dispatch_thread's loop the lists and the threads' states stand   *)
(* still, since every step that changes them takes multi_threading_lock.   *)
LEMMA WalkPreserved ==
    ASSUME SafeInv, [Next]_vars
    PROVE  WalkInv'
<1> USE DEF MultiThreadingLockFree
<1>a. /\ thread_list \in [CPU -> [Slot -> Thread \cup {NULL}]]
      /\ first_thread \in [CPU -> Thread \cup {NULL}]
      /\ pc \in [CPU -> Labels]
      /\ Bsp \in CPU
  BY NCpuAssumption DEF SafeInv, TypeInv, TypeOK, Bsp, CPU
<1>b. WalkInv
  BY DEF SafeInv
<1>1. CASE /\ UNCHANGED <<thread_list, exc_state, first_thread>>
           /\ \A c \in CPU : pc'[c] = "pick" => pc[c] = "pick"
  BY <1>1, <1>b DEF WalkInv, are_there_still_threads, ActiveSlots
<1>2. CASE /\ MultiThreadingLockFree
           /\ \A c \in CPU : pc'[c] = "pick" => pc[c] = "pick"
  BY <1>2 DEF WalkInv
<1>3. ASSUME NEW c \in CPU, DispatchLock(c)
      PROVE  WalkInv'
  <2>1. \A d \in CPU : d # c => pc'[d] # "pick"
    BY <1>3, <1>a DEF DispatchLock
  <2>2. UNCHANGED <<thread_list, exc_state>>
    BY <1>3 DEF DispatchLock, sched, running
  <2>3. CASE are_there_still_threads(c)
    <3>1. PICK s \in Slot :
            /\ s \in Occupied(thread_list[c])
            /\ first_thread' = [first_thread EXCEPT ![c] = thread_list[c][s]]
      BY <1>3, <2>3 DEF DispatchLock, IsFirstSlot
    <3>2. first_thread'[c] \in Entries(thread_list'[c])
      BY <3>1, <1>a, <2>2 DEF Entries
    <3>3. (are_there_still_threads(c))'
      BY <2>2, <2>3 DEF are_there_still_threads, ActiveSlots
    <3>4. QED
      BY <2>1, <3>2, <3>3 DEF WalkInv
  <2>4. CASE ~are_there_still_threads(c)
    <3>1. pc'[c] # "pick"
      BY <1>3, <1>a, <2>4 DEF DispatchLock
    <3>2. QED
      BY <2>1, <3>1 DEF WalkInv
  <2>5. QED
    BY <2>3, <2>4
<1>4. ASSUME NEW c \in CPU, PickFirst(c) \/ PickNext(c)
      PROVE  WalkInv'
  <2>1. UNCHANGED <<thread_list, exc_state>> /\ pc' = [pc EXCEPT ![c] = "move"]
    BY <1>4, PickEffect DEF sched
  <2>2. UNCHANGED first_thread
    BY <1>4 DEF PickFirst, PickNext
  <2>3. QED
    BY <2>1, <2>2, <1>a, <1>1
<1>5. ASSUME NEW c \in CPU, Move(c)
      PROVE  WalkInv'
  <2>1. /\ UNCHANGED <<thread_list, exc_state, first_thread>>
        /\ pc' = [pc EXCEPT ![c] = "user"]
    BY <1>5, MoveStaysHome DEF SafeInv, sched, running, locals
  <2>2. QED
    BY <2>1, <1>a, <1>1
<1>6. CASE CreateProc
  BY <1>6, <1>a, <1>1 DEF CreateProc, sched, running, locals
<1>7. CASE CreateThread
  BY <1>7, <1>a, <1>2 DEF CreateThread, MorePrograms
<1>8. ASSUME NEW c \in CPU, UserStep(c) \/ Timer(c) \/ SysSleep(c) \/ DispatchTest(c)
      PROVE  WalkInv'
  <2>1. UNCHANGED <<thread_list, exc_state, first_thread>>
    BY <1>8 DEF UserStep, Timer, SysSleep, DispatchTest, sched, running, locals
  <2>2. \A d \in CPU : pc'[d] = "pick" => pc[d] = "pick"
    BY <1>8, <1>a DEF UserStep, Timer, SysSleep, DispatchTest
  <2>3. QED
    BY <2>1, <2>2, <1>1
<1>9. ASSUME NEW c \in CPU,
             Sleep(c) \/ SysExit(c) \/ \E t \in Thread : SysWakeup(c, t)
      PROVE  WalkInv'
  BY <1>9, <1>a, <1>2 DEF Sleep, LeaveThread, SysExit, SysWakeup
<1>10. CASE UNCHANGED vars
  BY <1>10, <1>1 DEF vars, sched, running, locals
<1>11. QED
  BY <1>3, <1>4, <1>5, <1>6, <1>7, <1>8, <1>9, <1>10 DEF Next, Boot, Kernel, Program

-----------------------------------------------------------------------------
(* The parts of KernelControl. *)
OneDispatches ==
    \A c, d \in CPU : pc[c] \in {"pick", "move"} /\ pc[d] \in {"pick", "move"} => c = d

CurrentFitsPc ==
    \A c \in CPU :
        /\ pc[c] \in {"user", "sleep", "move"} => current_thread[c] # NULL
        /\ pc[c] \in {"create_proc", "create_thread", "idle"} => current_thread[c] = NULL
        /\ current_thread[c] = NULL => current_thread_index[c] = 0

CreatedInOrder ==
    \A t \in Thread : exc_state[t] = "NONE" <=> t > total_thread_count

LEMMA OneDispatchesPreserved ==
    ASSUME SafeInv, [Next]_vars
    PROVE  OneDispatches'
<1>a. pc \in [CPU -> Labels] /\ OneDispatches
  BY DEF SafeInv, KernelControl, OneDispatches, TypeInv, TypeOK
<1>1. CASE \A c \in CPU : pc'[c] \in {"pick", "move"} => pc[c] \in {"pick", "move"}
  BY <1>1, <1>a DEF OneDispatches
<1>2. ASSUME NEW c \in CPU, DispatchLock(c)
      PROVE  OneDispatches'
  BY <1>2, <1>a DEF DispatchLock, MultiThreadingLockFree, OneDispatches
<1>3. ASSUME NEW c \in CPU, PickFirst(c) \/ PickNext(c)
      PROVE  OneDispatches'
  BY <1>3, <1>a, <1>1, PickEffect
<1>4. ASSUME NEW c \in CPU, Move(c)
      PROVE  OneDispatches'
  BY <1>4, <1>a, <1>1, MoveStaysHome DEF SafeInv
<1>5. CASE CreateProc \/ CreateThread
  <2>1. Bsp \in CPU
    BY NCpuAssumption DEF Bsp, CPU
  <2>2. \E l \in {"create_thread", "create_proc", "idle"} : pc' = [pc EXCEPT ![Bsp] = l]
    BY <1>5 DEF CreateProc, CreateThread, MorePrograms
  <2>3. QED
    BY <2>1, <2>2, <1>a, <1>1
<1>6. ASSUME NEW c \in CPU,
             \/ UserStep(c) \/ Timer(c) \/ SysSleep(c) \/ Sleep(c) \/ SysExit(c)
             \/ DispatchTest(c) \/ \E t \in Thread : SysWakeup(c, t)
      PROVE  OneDispatches'
  <2>1. pc' = pc \/ \E l \in {"dispatch", "sleep", "lock", "idle"} :
                        pc' = [pc EXCEPT ![c] = l]
    BY <1>6 DEF UserStep, Timer, SysSleep, Sleep, LeaveThread, SysExit, DispatchTest, SysWakeup
  <2>2. QED
    BY <2>1, <1>a, <1>1
<1>7. CASE UNCHANGED vars
  BY <1>7, <1>1 DEF vars
<1>8. QED
  BY <1>2, <1>3, <1>4, <1>5, <1>6, <1>7 DEF Next, Boot, Kernel, Program

LEMMA CurrentFitsPcPreserved ==
    ASSUME SafeInv, [Next]_vars
    PROVE  CurrentFitsPc'
<1>a. /\ pc \in [CPU -> Labels]
      /\ current_thread \in [CPU -> Thread \cup {NULL}]
      /\ current_thread_index \in [CPU -> Nat]
      /\ NULL \notin Thread /\ Bsp \in CPU
  BY NCpuAssumption DEF SafeInv, TypeInv, TypeOK, Thread, NULL, Bsp, CPU
<1>b. CurrentFitsPc
  BY DEF SafeInv, KernelControl, CurrentFitsPc
<1>1. CASE CreateProc \/ CreateThread
  <2>1. /\ pc[Bsp] \in {"create_proc", "create_thread"}
        /\ \E l \in {"create_thread", "create_proc", "idle"} : pc' = [pc EXCEPT ![Bsp] = l]
        /\ UNCHANGED <<current_thread, current_thread_index>>
    BY <1>1 DEF CreateProc, CreateThread, MorePrograms, running
  <2>2. QED
    BY <2>1, <1>a, <1>b DEF CurrentFitsPc
<1>2. ASSUME NEW c \in CPU, Sleep(c) \/ SysExit(c)
      PROVE  CurrentFitsPc'
  <2>1. /\ pc' = [pc EXCEPT ![c] = "dispatch"]
        /\ current_thread' = [current_thread EXCEPT ![c] = NULL]
        /\ current_thread_index' = [current_thread_index EXCEPT ![c] = 0]
    BY <1>2 DEF Sleep, LeaveThread, SysExit
  <2>2. QED
    BY <2>1, <1>a, <1>b DEF CurrentFitsPc
<1>3. ASSUME NEW c \in CPU, PickFirst(c) \/ PickNext(c)
      PROVE  CurrentFitsPc'
  <2>1. PICK t \in Thread : current_thread' = [current_thread EXCEPT ![c] = t]
    BY <1>3, PickEffect
  <2>2. /\ pc' = [pc EXCEPT ![c] = "move"]
        /\ \A d \in CPU : d # c => current_thread_index'[d] = current_thread_index[d]
    BY <1>3, PickEffect
  <2>3. QED
    BY <2>1, <2>2, <1>a, <1>b DEF CurrentFitsPc
<1>4. ASSUME NEW c \in CPU, Move(c)
      PROVE  CurrentFitsPc'
  <2>1. /\ pc[c] = "move"
        /\ pc' = [pc EXCEPT ![c] = "user"]
        /\ UNCHANGED <<current_thread, current_thread_index>>
    BY <1>4, MoveStaysHome DEF SafeInv, running
  <2>2. QED
    BY <2>1, <1>a, <1>b DEF CurrentFitsPc
<1>5. ASSUME NEW c \in CPU, DispatchTest(c)
      PROVE  CurrentFitsPc'
  <2>1. UNCHANGED <<current_thread, current_thread_index>>
    BY <1>5 DEF DispatchTest, running
  <2>2. CASE are_there_still_threads(c)
    BY <1>5, <2>1, <2>2, <1>a, <1>b DEF DispatchTest, CurrentFitsPc
  <2>3. CASE ~are_there_still_threads(c)
    <3>1. current_thread[c] = NULL
      <4>1. SUFFICES ASSUME current_thread[c] # NULL
                     PROVE  ActiveSlots(c) # {}
        BY <2>3 DEF are_there_still_threads
      <4>2. /\ current_thread[c] \in Thread
            /\ current_thread[c] \in Entries(thread_list[c])
            /\ exc_state[current_thread[c]] = "ACTIVE"
        BY <4>1, <1>a DEF SafeInv, CurrentThreadsRunAtHome
      <4>3. QED
        BY <4>2 DEF Entries, ActiveSlots
    <3>2. pc' = [pc EXCEPT ![c] = "idle"]
      BY <1>5, <2>3 DEF DispatchTest
    <3>3. QED
      BY <2>1, <3>1, <3>2, <1>a, <1>b DEF CurrentFitsPc
  <2>4. QED
    BY <2>2, <2>3
<1>6. ASSUME NEW c \in CPU,
             \/ UserStep(c) \/ Timer(c) \/ SysSleep(c) \/ DispatchLock(c)
             \/ \E t \in Thread : SysWakeup(c, t)
      PROVE  CurrentFitsPc'
  <2>1. UNCHANGED <<current_thread, current_thread_index>>
    BY <1>6 DEF UserStep, Timer, SysSleep, DispatchLock, SysWakeup, running
  <2>2. \/ pc' = pc
        \/ pc[c] = "user" /\ pc' = [pc EXCEPT ![c] = "sleep"]
        \/ \E l \in {"dispatch", "pick"} : pc' = [pc EXCEPT ![c] = l]
    BY <1>6 DEF UserStep, Timer, SysSleep, DispatchLock, SysWakeup
  <2>3. QED
    BY <2>1, <2>2, <1>a, <1>b DEF CurrentFitsPc
<1>7. CASE UNCHANGED vars
  BY <1>7, <1>b DEF vars, running, CurrentFitsPc
<1>8. QED
  BY <1>1, <1>2, <1>3, <1>4, <1>5, <1>6, <1>7 DEF Next, Boot, Kernel, Program

LEMMA CreatedInOrderPreserved ==
    ASSUME SafeInv, [Next]_vars
    PROVE  CreatedInOrder'
<1>a. /\ exc_state \in [Thread -> {"NONE", "ACTIVE", "BLCKD", "FREED"}]
      /\ total_thread_count \in Nat
      /\ \A t \in Thread : t \in Nat
      /\ CreatedInOrder
  BY NThreadAssumption DEF SafeInv, KernelControl, CreatedInOrder, TypeInv, TypeOK, Thread
<1>b. \A t \in Thread : (\E c \in CPU : t \in Entries(thread_list[c])) => exc_state[t] # "NONE"
  <2>1. thread_list \in [CPU -> [Slot -> Thread \cup {NULL}]]
    BY DEF SafeInv, TypeInv, TypeOK
  <2>2. QED
    BY <2>1, EntriesOf DEF SafeInv, EveryThreadOnOneList, Live
<1>1. CASE UNCHANGED <<thread_list, exc_state>> /\ total_thread_count' = total_thread_count
  BY <1>1, <1>a DEF CreatedInOrder
<1>2. CASE CreateThread
  <2>1. /\ total_thread_count + 1 \in Thread
        /\ total_thread_count' = total_thread_count + 1
        /\ exc_state' = [exc_state EXCEPT ![total_thread_count + 1] = "ACTIVE"]
    BY <1>2, CreateEffect DEF SafeInv
  <2>2. QED
    BY <2>1, <1>a DEF CreatedInOrder
<1>3. ASSUME NEW c \in CPU, Sleep(c) \/ SysExit(c)
      PROVE  CreatedInOrder'
  <2>1. current_thread[c] \in Thread
    BY <1>3 DEF Sleep, LeaveThread, SysExit, SafeInv, KernelControl, TypeInv, TypeOK
  <2>2. exc_state[current_thread[c]] = "ACTIVE"
    BY <2>1 DEF SafeInv, CurrentThreadsRunAtHome, Thread, NULL
  <2>3. /\ total_thread_count' = total_thread_count
        /\ \E x \in {"BLCKD", "FREED"} :
              exc_state' = [exc_state EXCEPT ![current_thread[c]] = x]
    BY <1>3 DEF Sleep, LeaveThread, SysExit, sched
  <2>4. QED
    BY <2>1, <2>2, <2>3, <1>a DEF CreatedInOrder
<1>4. ASSUME NEW c \in CPU, NEW t \in Thread, SysWakeup(c, t)
      PROVE  CreatedInOrder'
  <2>1. exc_state[t] # "NONE"
    BY <1>4, <1>b DEF SysWakeup
  <2>2. QED
    BY <1>4, <2>1, <1>a DEF SysWakeup, sched, CreatedInOrder
<1>5. QED
  <2>1. ASSUME NEW c \in CPU, Move(c)
        PROVE  total_thread_count' = total_thread_count
    BY <2>1 DEF Move, MoveTo, LoadThread, WithoutThread
  <2>2. \/ total_thread_count' = total_thread_count
        \/ CreateThread
    BY <2>1 DEF Next, Boot, Kernel, Program, vars, CreateProc, UserStep, Timer, SysSleep,
       Sleep, SysWakeup, SysExit, DispatchTest, DispatchLock, PickFirst, PickNext, sched
  <2>3. QED
    BY <2>2, <1>1, <1>2, <1>3, <1>4, ListFrame DEF SafeInv

-----------------------------------------------------------------------------
LEMMA SafeInvariant == Spec => []SafeInv
<1>1. Init => KernelControl /\ EveryThreadOnOneList /\ CurrentThreadsRunAtHome /\ WalkInv
  <2> SUFFICES ASSUME Init
               PROVE  KernelControl /\ EveryThreadOnOneList /\ CurrentThreadsRunAtHome
                         /\ WalkInv
    OBVIOUS
  <2>1. KernelControl
    BY NCpuAssumption, NThreadAssumption DEF Init, KernelControl, Thread, CPU, Bsp
  <2>2. EveryThreadOnOneList
    BY DEF Init, EveryThreadOnOneList, EmptyList, Live, Thread, NULL
  <2>3. CurrentThreadsRunAtHome /\ WalkInv
    BY DEF Init, CurrentThreadsRunAtHome, WalkInv
  <2>4. QED
    BY <2>1, <2>2, <2>3
<1>2. SafeInv /\ [Next]_vars =>
        KernelControl' /\ EveryThreadOnOneList' /\ CurrentThreadsRunAtHome' /\ WalkInv'
  <2> SUFFICES ASSUME SafeInv, [Next]_vars, TypeInv', SafeInv
               PROVE  KernelControl' /\ EveryThreadOnOneList' /\ CurrentThreadsRunAtHome'
                         /\ WalkInv'
    BY TypeInvariantStep DEF SafeInv
  <2>1. KernelControl'
    BY OneDispatchesPreserved, CurrentFitsPcPreserved, CreatedInOrderPreserved
       DEF KernelControl, OneDispatches, CurrentFitsPc, CreatedInOrder, TypeInv, BootInv
  <2>2. QED
    BY <2>1, ListsPreserved, CurrentPreserved, WalkPreserved
<1>3. SafeInv <=> (TypeInv /\ DealtRoundRobin) /\ KernelControl /\ EveryThreadOnOneList
                     /\ CurrentThreadsRunAtHome /\ WalkInv
  BY DEF SafeInv
<1>4. QED
  BY <1>1, <1>2, <1>3, Balance, PTL DEF Spec

(* The processors' places in the kernel always fit together. *)
THEOREM ControlIsConsistent == Spec => []KernelControl
<1>1. SafeInv => KernelControl
  BY DEF SafeInv
<1>2. QED
  BY <1>1, SafeInvariant, PTL

(* No thread is lost, or entered twice, by boot, dispatch or exit.         *)
THEOREM ListsPartitionThreads == Spec => []EveryThreadOnOneList
<1>1. SafeInv => EveryThreadOnOneList
  BY DEF SafeInv
<1>2. QED
  BY <1>1, SafeInvariant, PTL

(* A processor runs a thread of its own list that is not blocked.          *)
THEOREM CurrentIsAtHome == Spec => []CurrentThreadsRunAtHome
<1>1. SafeInv => CurrentThreadsRunAtHome
  BY DEF SafeInv
<1>2. QED
  BY <1>1, SafeInvariant, PTL

(* No thread runs on two processors at once.                               *)
THEOREM OneProcessorPerThread == Spec => []NoThreadRunsTwice
<1>1. SafeInv => NoThreadRunsTwice
  <2> SUFFICES ASSUME SafeInv, NEW c \in CPU, NEW d \in CPU,
                      current_thread[c] = current_thread[d], current_thread[c] # NULL
               PROVE  c = d
    BY DEF NoThreadRunsTwice
  <2>1. /\ thread_list \in [CPU -> [Slot -> Thread \cup {NULL}]]
        /\ current_thread[c] \in Thread
    BY DEF SafeInv, TypeInv, TypeOK
  <2>2. /\ \E s \in Slot : thread_list[c][s] = current_thread[c]
        /\ \E s \in Slot : thread_list[d][s] = current_thread[c]
    BY <2>1, EntriesOf DEF SafeInv, CurrentThreadsRunAtHome
  <2>3. QED
    BY <2>1, <2>2 DEF SafeInv, EveryThreadOnOneList
<1>2. QED
  BY <1>1, SafeInvariant, PTL

(* The search of dispatch_thread never runs off the end of the list.       *)
THEOREM WalkEnds == Spec => []TheWalkFindsAThread
<1>1. SafeInv => TheWalkFindsAThread
  BY DEF SafeInv, WalkInv, KernelControl, TheWalkFindsAThread, are_there_still_threads
<1>2. QED
  BY <1>1, SafeInvariant, PTL

(* A thread never moves from one processor's list to another's.            *)
THEOREM ThreadsStay == Spec => NoMigration
<1>1. ASSUME SafeInv, [Next]_vars, NEW t \in Thread, NEW c \in CPU,
             t \in Entries(thread_list[c]), NEW d \in CPU \ {c}
      PROVE  t \notin Entries(thread_list[d])'
  <2>a. /\ thread_list \in [CPU -> [Slot -> Thread \cup {NULL}]]
        /\ exc_state \in [Thread -> {"NONE", "ACTIVE", "BLCKD", "FREED"}]
        /\ NULL \notin Thread
    BY <1>1 DEF SafeInv, TypeInv, TypeOK, Thread, NULL
  <2>b. thread_list' \in [CPU -> [Slot -> Thread \cup {NULL}]]
    BY <1>1, TypeInvariantStep DEF SafeInv, TypeInv, TypeOK
  <2>1. PICK r \in Slot : thread_list[c][r] = t
    BY <1>1, <2>a, EntriesOf
  <2>2. \A s \in Slot : thread_list[d][s] # t
    BY <1>1, <2>1 DEF SafeInv, EveryThreadOnOneList
  <2>3. CASE UNCHANGED thread_list
    BY <2>3, <2>2, <2>a, <1>1, EntriesOf
  <2>4. CASE CreateThread
    <3>1. PICK cpu \in CPU, s \in Slot :
            /\ thread_list' = [thread_list EXCEPT ![cpu][s] = total_thread_count + 1]
            /\ total_thread_count + 1 \in Thread
      BY <1>1, <2>4, CreateEffect DEF SafeInv
    <3>2. total_thread_count + 1 # t
      <4>1. Live(t)
        BY <1>1, <2>1 DEF SafeInv, EveryThreadOnOneList
      <4>2. exc_state[total_thread_count + 1] = "NONE"
        BY <1>1, <3>1, NThreadAssumption DEF SafeInv, KernelControl, TypeInv, TypeOK
      <4>3. QED
        BY <4>1, <4>2 DEF Live
    <3>3. \A s2 \in Slot : thread_list'[d][s2] # t
      BY <3>1, <3>2, <2>2, <2>a
    <3>4. QED
      BY <3>3, <2>b, EntriesOf
  <2>5. ASSUME NEW e \in CPU, SysExit(e)
        PROVE  t \notin Entries(thread_list[d])'
    <3>1. PICK s \in Slot : thread_list' = [thread_list EXCEPT ![e][s] = NULL]
      BY <1>1, <2>5, ExitEffect
    <3>2. \A s2 \in Slot : thread_list'[d][s2] # t
      BY <3>1, <2>2, <2>a
    <3>3. QED
      BY <3>2, <2>b, EntriesOf
  <2>6. ASSUME NEW e \in CPU, Sleep(e) \/ \E u \in Thread : SysWakeup(e, u)
        PROVE  UNCHANGED thread_list
    BY <2>6 DEF Sleep, LeaveThread, SysWakeup, sched
  <2>7. QED
    BY <2>3, <2>4, <2>5, <2>6, <1>1, ListFrame DEF SafeInv
<1>2. SafeInv /\ [Next]_vars =>
        [\A t \in Thread, c \in CPU :
            t \in Entries(thread_list[c]) =>
                \A d \in CPU \ {c} : t \notin Entries(thread_list[d])']_vars
  BY <1>1
<1>3. QED
  BY <1>2, SafeInvariant, PTL DEF Spec, NoMigration
-----------------------------------------------------------------------------
(* A processor that is about to block a thread came from SYS_SLEEP.        *)
SleepInv == \A c \in CPU : pc[c] = "sleep" => current_thread[c] \in MaySleep

LEMMA SleepInvariant == Spec => []SleepInv
<1>1. Init => SleepInv
  BY DEF Init, SleepInv
<1>2. SafeInv /\ SleepInv /\ [Next]_vars => SleepInv'
  <2> SUFFICES ASSUME SafeInv, SleepInv, [Next]_vars
               PROVE  SleepInv'
    OBVIOUS
  <2>a. /\ pc \in [CPU -> Labels] /\ Bsp \in CPU
        /\ current_thread \in [CPU -> Thread \cup {NULL}]
    BY NCpuAssumption DEF SafeInv, TypeInv, TypeOK, Bsp, CPU
  <2>1. CASE CreateProc \/ CreateThread
    BY <2>1, <2>a DEF CreateProc, CreateThread, MorePrograms, running, SleepInv
  <2>2. ASSUME NEW c \in CPU, SysSleep(c)
        PROVE  SleepInv'
    BY <2>2, <2>a DEF SysSleep, running, SleepInv
  <2>3. ASSUME NEW c \in CPU, Sleep(c) \/ SysExit(c)
        PROVE  SleepInv'
    BY <2>3, <2>a DEF Sleep, SysExit, LeaveThread, SleepInv
  <2>4. ASSUME NEW c \in CPU, PickFirst(c) \/ PickNext(c)
        PROVE  SleepInv'
    BY <2>4, <2>a, PickEffect DEF SleepInv
  <2>5. ASSUME NEW c \in CPU, Move(c)
        PROVE  SleepInv'
    BY <2>5, <2>a, MoveStaysHome DEF SafeInv, running, SleepInv
  <2>6. ASSUME NEW c \in CPU,
               \/ UserStep(c) \/ Timer(c) \/ DispatchTest(c) \/ DispatchLock(c)
               \/ \E t \in Thread : SysWakeup(c, t)
        PROVE  SleepInv'
    <3>1. UNCHANGED current_thread
      BY <2>6 DEF UserStep, Timer, DispatchTest, DispatchLock, SysWakeup, running
    <3>2. pc' = pc \/ \E l \in {"dispatch", "lock", "idle", "pick"} :
                         pc' = [pc EXCEPT ![c] = l]
      BY <2>6 DEF UserStep, Timer, DispatchTest, DispatchLock, SysWakeup
    <3>3. QED
      BY <3>1, <3>2, <2>a DEF SleepInv
  <2>7. CASE UNCHANGED vars
    BY <2>7 DEF vars, running, SleepInv
  <2>8. QED
    BY <2>1, <2>2, <2>3, <2>4, <2>5, <2>6, <2>7 DEF Next, Boot, Kernel, Program
<1>3. QED
  BY <1>1, <1>2, SafeInvariant, PTL DEF Spec

(* What the steps do that change a thread's state, in terms of Threads.    *)
LEMMA StepsOfThreads ==
    ASSUME SafeInv, SleepInv, [Next]_vars
    PROVE  [Abstract!Next]_(Abstract!vars)
<1> USE DEF Abstract!Next, Abstract!vars
<1>a. /\ exc_state \in [Thread -> {"NONE", "ACTIVE", "BLCKD", "FREED"}]
      /\ current_thread \in [CPU -> Thread \cup {NULL}]
      /\ thread_list \in [CPU -> [Slot -> Thread \cup {NULL}]]
  BY DEF SafeInv, TypeInv, TypeOK
<1>b. \A c \in CPU : pc[c] \in {"user", "sleep"} =>
        current_thread[c] \in Thread /\ exc_state[current_thread[c]] = "ACTIVE"
  BY <1>a DEF SafeInv, KernelControl, CurrentThreadsRunAtHome
<1>1. CASE UNCHANGED <<exc_state, done>>
  BY <1>1
<1>2. CASE CreateThread
  <2> DEFINE t == total_thread_count + 1
  <2>1. /\ t \in Thread
        /\ exc_state' = [exc_state EXCEPT ![t] = "ACTIVE"]
    BY <1>2, CreateEffect DEF SafeInv
  <2>2. exc_state[t] = "NONE"
    BY <2>1, NThreadAssumption DEF SafeInv, KernelControl, TypeInv, TypeOK
  <2>3. done' = done
    BY <1>2 DEF CreateThread, MorePrograms
  <2> HIDE DEF t
  <2>4. Abstract!Start(t)
    BY <2>1, <2>2, <2>3 DEF Abstract!Start, Abstract!Become
  <2>5. QED
    BY <2>1, <2>4
<1>3. ASSUME NEW c \in CPU, UserStep(c)
      PROVE  [Abstract!Next]_(Abstract!vars)
  <2>1. Abstract!Proceed(current_thread[c])
    BY <1>3, <1>b DEF UserStep, running, Abstract!Proceed
  <2>2. QED
    BY <1>3, <1>b, <2>1 DEF UserStep
<1>4. ASSUME NEW c \in CPU, Sleep(c), current_thread[c] \in MaySleep
      PROVE  [Abstract!Next]_(Abstract!vars)
  <2>1. Abstract!Block(current_thread[c])
    BY <1>4, <1>b DEF Sleep, Abstract!Block, Abstract!Become
  <2>2. QED
    BY <1>4, <1>b, <2>1 DEF Sleep
<1>5. ASSUME NEW c \in CPU, NEW t \in Thread, SysWakeup(c, t)
      PROVE  [Abstract!Next]_(Abstract!vars)
  <2>a. PICK d \in CPU : t \in Entries(thread_list[d])
    BY <1>5 DEF SysWakeup
  <2>b. \E s \in Slot : thread_list[d][s] = t
    BY <2>a, <1>a, EntriesOf
  <2>1. exc_state[t] \in {"ACTIVE", "BLCKD"}
    BY <2>b DEF SafeInv, EveryThreadOnOneList, Live
  <2>2. Abstract!Wake(current_thread[c], t)
    BY <1>5, <1>b, <2>1 DEF SysWakeup, regs, Abstract!Wake, Abstract!Become
  <2>3. QED
    BY <1>5, <1>b, <2>2 DEF SysWakeup
<1>6. ASSUME NEW c \in CPU, SysExit(c)
      PROVE  [Abstract!Next]_(Abstract!vars)
  <2>1. Abstract!Exit(current_thread[c])
    BY <1>6, <1>b DEF SysExit, Abstract!Exit, Abstract!Become
  <2>2. QED
    BY <1>6, <1>b, <2>1 DEF SysExit
<1>7. ASSUME NEW c \in CPU, Move(c)
      PROVE  UNCHANGED <<exc_state, done>>
  BY <1>7, MoveStaysHome DEF SafeInv, running
<1>8. QED
  <2>1. \/ UNCHANGED <<exc_state, done>>
        \/ CreateThread
        \/ \E c \in CPU : \/ UserStep(c) \/ Sleep(c) \/ SysExit(c) \/ Move(c)
                          \/ \E t \in Thread : SysWakeup(c, t)
    BY DEF Next, Boot, Kernel, Program, vars, CreateProc, Timer, SysSleep, DispatchTest,
       DispatchLock, PickFirst, PickNext, running, regs
  <2>2. \A c \in CPU : Sleep(c) => current_thread[c] \in MaySleep
    BY DEF Sleep, SleepInv
  <2>3. QED
    BY <2>1, <2>2, <1>1, <1>2, <1>3, <1>4, <1>5, <1>6, <1>7

(* The scheduler implements the abstract threads.                          *)
THEOREM SchedulerImplementsThreads == Spec => ImplementsThreads
<1>1. Init => Abstract!Init
  BY DEF Init, Abstract!Init
<1>2. SafeInv /\ SleepInv /\ [Next]_vars => [Abstract!Next]_(Abstract!vars)
  BY StepsOfThreads
<1>3. QED
  BY <1>1, <1>2, SafeInvariant, SleepInvariant, PTL DEF Spec, ImplementsThreads, Abstract!Spec

-----------------------------------------------------------------------------
(* Where the registers of a thread are: with the processor that runs or    *)
(* interrupted it, in the thread's own structure from the moment it is off *)
(* the processor or about to block, and there also when it is chosen but   *)
(* not yet loaded.                                                         *)
RegistersOf(t) == [owner |-> t, point |-> done[t]]

RegInv ==
    /\ \A c \in CPU : current_thread[c] # NULL /\ pc[c] # "move" =>
          cpu_state[c] = RegistersOf(current_thread[c])
    /\ \A c \in CPU : pc[c] = "sleep" =>
          state[current_thread[c]] = RegistersOf(current_thread[c])
    /\ \A t \in Thread : Live(t) /\ ~OnProcessor(t) => state[t] = RegistersOf(t)
    /\ \A t \in Thread : exc_state[t] = "NONE" => done[t] = 0

LEMMA RegPreserved ==
    ASSUME SafeInv, RegInv, [Next]_vars
    PROVE  RegInv'
<1> USE DEF RegistersOf
<1>a. /\ pc \in [CPU -> Labels]
      /\ current_thread \in [CPU -> Thread \cup {NULL}]
      /\ exc_state \in [Thread -> {"NONE", "ACTIVE", "BLCKD", "FREED"}]
      /\ state \in [Thread -> Registers]
      /\ cpu_state \in [CPU -> Registers]
      /\ done \in [Thread -> {0, 1}]
      /\ NULL \notin Thread
      /\ Bsp \in CPU
  BY NCpuAssumption DEF SafeInv, TypeInv, TypeOK, Bsp, CPU, Thread, NULL
<1>b. \A c, d \in CPU : current_thread[c] = current_thread[d] /\ current_thread[c] # NULL
        => c = d
  <2>1. thread_list \in [CPU -> [Slot -> Thread \cup {NULL}]]
    BY DEF SafeInv, TypeInv, TypeOK
  <2>2. \A c \in CPU : current_thread[c] # NULL =>
          \E s \in Slot : thread_list[c][s] = current_thread[c]
    BY <1>a, <2>1, EntriesOf DEF SafeInv, CurrentThreadsRunAtHome
  <2>3. QED
    BY <1>a, <2>2 DEF SafeInv, EveryThreadOnOneList
<1>c. \A c \in CPU :
        /\ pc[c] \in {"user", "sleep", "move"} => current_thread[c] \in Thread
        /\ current_thread[c] # NULL => /\ current_thread[c] \in Thread
                                       /\ exc_state[current_thread[c]] = "ACTIVE"
        /\ pc[c] \in {"create_proc", "create_thread", "idle"} => current_thread[c] = NULL
  BY <1>a DEF SafeInv, KernelControl, CurrentThreadsRunAtHome
<1>1. CASE /\ UNCHANGED <<current_thread, cpu_state, state, exc_state, done>>
           /\ \A c \in CPU : pc'[c] = "sleep" => pc[c] = "sleep"
           /\ \A c \in CPU : (pc'[c] = "move") <=> (pc[c] = "move")
  BY <1>1, <1>a DEF RegInv, OnProcessor, Live
<1>2. CASE CreateThread
  <2> DEFINE t == total_thread_count + 1
  <2>1. /\ t \in Thread
        /\ exc_state' = [exc_state EXCEPT ![t] = "ACTIVE"]
    BY <1>2, CreateEffect DEF SafeInv
  <2>2. exc_state[t] = "NONE"
    BY <2>1, NThreadAssumption DEF SafeInv, KernelControl, TypeInv, TypeOK
  <2>a. /\ pc[Bsp] = "create_thread"
        /\ state' = [state EXCEPT ![t] = Fresh(t)]
        /\ UNCHANGED <<current_thread, cpu_state, done>>
    BY <1>2 DEF CreateThread
  <2>b. \E l \in {"create_proc", "idle"} : pc' = [pc EXCEPT ![Bsp] = l]
    BY <1>2 DEF CreateThread, MorePrograms
  <2>3. /\ pc[Bsp] = "create_thread"
        /\ \E l \in {"create_proc", "idle"} : pc' = [pc EXCEPT ![Bsp] = l]
        /\ state' = [state EXCEPT ![t] = Fresh(t)]
        /\ UNCHANGED <<current_thread, cpu_state, done>>
    BY <2>a, <2>b
  <2> HIDE DEF t
  <2>4. \A c \in CPU : current_thread[c] # t
    BY <1>a, <1>c, <2>1, <2>2
  <2>5. done[t] = 0
    BY <2>1, <2>2 DEF RegInv
  <2>6. \A u \in Thread : OnProcessor(u)' <=> OnProcessor(u)
    BY <2>3, <1>a DEF OnProcessor
  <2>7. QED
    BY <2>1, <2>2, <2>3, <2>4, <2>5, <2>6, <1>a, <1>c DEF RegInv, Live, Fresh
<1>3. ASSUME NEW c \in CPU, UserStep(c)
      PROVE  RegInv'
  <2>1. /\ pc[c] = "user"
        /\ cpu_state' = [cpu_state EXCEPT ![c].point = 1 - @]
        /\ done' = [done EXCEPT ![current_thread[c]] = 1 - @]
        /\ UNCHANGED <<pc, current_thread, state, exc_state>>
    BY <1>3 DEF UserStep, running
  <2>2. current_thread[c] \in Thread /\ exc_state[current_thread[c]] = "ACTIVE"
    BY <2>1, <1>a, <1>c
  <2>3. cpu_state[c] = [owner |-> current_thread[c], point |-> done[current_thread[c]]]
    BY <2>1, <2>2, <1>a DEF RegInv
  <2>4. cpu_state'[c] = [owner |-> current_thread[c], point |-> done'[current_thread[c]]]
    BY <2>1, <2>2, <2>3, <1>a
  <2>5. \A t \in Thread : t # current_thread[c] => done'[t] = done[t]
    BY <2>1, <1>a
  <2>6. \A d \in CPU : d # c => cpu_state'[d] = cpu_state[d]
    BY <2>1, <1>a
  <2>7. OnProcessor(current_thread[c])
    BY <2>1 DEF OnProcessor
  <2>8. QED
    BY <2>1, <2>2, <2>4, <2>5, <2>6, <2>7, <1>a, <1>b, <1>c DEF RegInv, Live, OnProcessor
<1>4. ASSUME NEW c \in CPU, SysSleep(c)
      PROVE  RegInv'
  <2>1. /\ pc[c] = "user"
        /\ pc' = [pc EXCEPT ![c] = "sleep"]
        /\ state' = [state EXCEPT ![current_thread[c]] = cpu_state[c]]
        /\ UNCHANGED <<current_thread, cpu_state, exc_state, done>>
    BY <1>4 DEF SysSleep, running
  <2>2. current_thread[c] \in Thread
    BY <2>1, <1>a, <1>c
  <2>3. cpu_state[c] = [owner |-> current_thread[c], point |-> done[current_thread[c]]]
    BY <2>1, <2>2, <1>a DEF RegInv
  <2>4. QED
    BY <2>1, <2>2, <2>3, <1>a, <1>b, <1>c DEF RegInv, Live, OnProcessor
<1>5. ASSUME NEW c \in CPU, Sleep(c) \/ SysExit(c)
      PROVE  RegInv'
  <2>1. /\ pc[c] \in {"sleep", "user"}
        /\ pc' = [pc EXCEPT ![c] = "dispatch"]
        /\ current_thread' = [current_thread EXCEPT ![c] = NULL]
        /\ \/ pc[c] = "sleep"
           \/ exc_state' = [exc_state EXCEPT ![current_thread[c]] = "FREED"]
        /\ \E x \in {"BLCKD", "FREED"} :
              exc_state' = [exc_state EXCEPT ![current_thread[c]] = x]
        /\ UNCHANGED <<cpu_state, state, done>>
    BY <1>5 DEF Sleep, SysExit, LeaveThread
  <2>2. current_thread[c] \in Thread /\ exc_state[current_thread[c]] = "ACTIVE"
    BY <2>1, <1>a, <1>c
  <2>3. \A t \in Thread : t # current_thread[c] =>
           /\ OnProcessor(t)' <=> OnProcessor(t)
           /\ exc_state'[t] = exc_state[t]
    BY <2>1, <2>2, <1>a DEF OnProcessor
  <2>4. \A d \in CPU : d # c => current_thread[d] # current_thread[c]
    BY <2>2, <1>a, <1>b
  <2>5. QED
    BY <2>1, <2>2, <2>3, <2>4, <1>a, <1>c DEF RegInv, Live
<1>6. ASSUME NEW c \in CPU, NEW t \in Thread, SysWakeup(c, t)
      PROVE  RegInv'
  <2>a. PICK d \in CPU : t \in Entries(thread_list[d])
    BY <1>6 DEF SysWakeup
  <2>b. \E s \in Slot : thread_list[d][s] = t
    BY <2>a, EntriesOf DEF SafeInv, TypeInv, TypeOK
  <2>c. Live(t)
    BY <2>b DEF SafeInv, EveryThreadOnOneList
  <2>1. /\ exc_state' = [exc_state EXCEPT ![t] = "ACTIVE"]
        /\ UNCHANGED <<pc, current_thread, cpu_state, state, done>>
    BY <1>6 DEF SysWakeup, regs
  <2>2. QED
    BY <2>1, <2>c, <1>a DEF RegInv, Live, OnProcessor
<1>7. ASSUME NEW c \in CPU, DispatchTest(c)
      PROVE  RegInv'
  <2>1. /\ pc[c] = "dispatch"
        /\ UNCHANGED <<current_thread, state, exc_state, done>>
    BY <1>7 DEF DispatchTest, running
  <2>2. \/ cpu_state' = cpu_state /\ pc' = [pc EXCEPT ![c] = "lock"]
        \/ /\ current_thread[c] = NULL
           /\ cpu_state' = [cpu_state EXCEPT ![c] = IdleState]
           /\ pc' = [pc EXCEPT ![c] = "idle"]
    <3>1. CASE are_there_still_threads(c)
      BY <1>7, <3>1 DEF DispatchTest
    <3>2. CASE ~are_there_still_threads(c)
      <4>1. current_thread[c] = NULL
        <5>1. SUFFICES ASSUME current_thread[c] # NULL
                       PROVE  ActiveSlots(c) # {}
          BY <3>2 DEF are_there_still_threads
        <5>2. /\ current_thread[c] \in Entries(thread_list[c])
              /\ exc_state[current_thread[c]] = "ACTIVE"
          BY <5>1 DEF SafeInv, CurrentThreadsRunAtHome
        <5>3. QED
          BY <5>2 DEF Entries, ActiveSlots
      <4>2. QED
        BY <1>7, <3>2, <4>1 DEF DispatchTest
    <3>3. QED
      BY <3>1, <3>2
  <2>3. \A t \in Thread : OnProcessor(t)' <=> OnProcessor(t)
    BY <2>1, <2>2, <1>a DEF OnProcessor
  <2>4. QED
    BY <2>1, <2>2, <2>3, <1>a DEF RegInv, Live
<1>8. ASSUME NEW c \in CPU, PickFirst(c)
      PROVE  RegInv'
  <2>1. PICK t \in Thread :
          /\ t \in Entries(thread_list[c])
          /\ exc_state[t] = "ACTIVE"
          /\ current_thread' = [current_thread EXCEPT ![c] = t]
    BY <1>8, PickEffect
  <2>2. /\ pc[c] = "pick"
        /\ pc' = [pc EXCEPT ![c] = "move"]
        /\ current_thread[c] = NULL
        /\ UNCHANGED <<exc_state, cpu_state, state, done>>
    BY <1>8, PickEffect DEF PickFirst, regs
  <2>3. \A u \in Thread : OnProcessor(u)' <=> OnProcessor(u)
    BY <2>1, <2>2, <1>a DEF OnProcessor
  <2>4. QED
    BY <2>1, <2>2, <2>3, <1>a DEF RegInv, Live
<1>9. ASSUME NEW c \in CPU, PickNext(c)
      PROVE  RegInv'
  <2>1. PICK t \in Thread : current_thread' = [current_thread EXCEPT ![c] = t]
    BY <1>9, PickEffect
  <2> DEFINE old == current_thread[c]
  <2>2. /\ pc[c] = "pick"
        /\ pc' = [pc EXCEPT ![c] = "move"]
        /\ old # NULL
        /\ state' = [state EXCEPT ![old] = cpu_state[c]]
        /\ UNCHANGED <<exc_state, cpu_state, done>>
    BY <1>9, PickEffect DEF PickNext
  <2>3. old \in Thread /\ cpu_state[c] = RegistersOf(old)
    BY <2>2, <1>a DEF RegInv
  <2>4. \A u \in Thread : u # old => (OnProcessor(u)' <=> OnProcessor(u))
    BY <2>1, <2>2, <1>a DEF OnProcessor
  <2>5. QED
    BY <2>1, <2>2, <2>3, <2>4, <1>a, <1>b DEF RegInv, Live
<1>10. ASSUME NEW c \in CPU, Move(c)
       PROVE  RegInv'
  <2>1. /\ pc[c] = "move"
        /\ pc' = [pc EXCEPT ![c] = "user"]
        /\ cpu_state' = [cpu_state EXCEPT ![c] = state[current_thread[c]]]
        /\ UNCHANGED <<current_thread, exc_state, state, done>>
    BY <1>10, MoveStaysHome DEF SafeInv, running
  <2>2. /\ current_thread[c] \in Thread
        /\ Live(current_thread[c])
    BY <2>1, <1>a, <1>c DEF Live
  <2>3. ~OnProcessor(current_thread[c])
    BY <2>1, <2>2, <1>a, <1>b DEF OnProcessor
  <2>4. state[current_thread[c]] = RegistersOf(current_thread[c])
    BY <2>2, <2>3 DEF RegInv
  <2>5. \A u \in Thread : u # current_thread[c] => (OnProcessor(u)' <=> OnProcessor(u))
    BY <2>1, <1>a DEF OnProcessor
  <2>6. OnProcessor(current_thread[c])'
    BY <2>1, <1>a DEF OnProcessor
  <2>7. QED
    BY <2>1, <2>2, <2>4, <2>5, <2>6, <1>a DEF RegInv, Live
<1>11. CASE CreateProc
  BY <1>11, <1>a, <1>1 DEF CreateProc, running, regs
<1>12. ASSUME NEW c \in CPU, Timer(c) \/ DispatchLock(c)
       PROVE  RegInv'
  <2>1. /\ UNCHANGED <<current_thread, cpu_state, state, exc_state, done>>
        /\ pc[c] \in {"user", "idle", "lock"}
        /\ \E l \in {"dispatch", "pick"} : pc' = [pc EXCEPT ![c] = l]
    BY <1>12 DEF Timer, DispatchLock, running, regs
  <2>2. QED
    BY <2>1, <1>a, <1>1
<1>13. CASE UNCHANGED vars
  BY <1>13, <1>1 DEF vars, running, regs
<1>14. QED
  BY <1>2, <1>3, <1>4, <1>5, <1>6, <1>7, <1>8, <1>9, <1>10, <1>11, <1>12, <1>13
     DEF Next, Boot, Kernel, Program

(* A thread resumes exactly where it stopped, with its own registers.      *)
THEOREM RegistersAreRight == Spec => []RegistersAreNeverMixedUp
<1>1. Init => RegInv
  BY DEF Init, RegInv, Live, Thread, NULL
<1>2. SafeInv /\ RegInv /\ [Next]_vars => RegInv'
  BY RegPreserved
<1>3. SafeInv /\ RegInv => RegistersAreNeverMixedUp
  BY DEF SafeInv, KernelControl, RegInv, RegistersOf, RegistersAreNeverMixedUp
<1>4. QED
  BY <1>1, <1>2, <1>3, SafeInvariant, PTL DEF Spec

-----------------------------------------------------------------------------
(* Whose address space a processor is in.  Between choosing a thread and   *)
(* loading it, it is the one dispatch_thread keeps in curcontext; that     *)
(* process cannot exit meanwhile, since exit takes the lock.               *)
SpaceInv ==
    /\ \A c \in CPU :
        /\ pc[c] # "move" => cr3[c] = IF current_thread[c] = NULL THEN STARTUP
                                                                 ELSE current_thread[c]
        /\ pc[c] = "move" => /\ cr3[c] = curcontext[c]
                             /\ curcontext[c] \in proc_list \cup {STARTUP}
    /\ \A t \in Thread : Live(t) => t \in proc_list
    /\ \A t \in proc_list : Live(t) \/ t = total_thread_count + 1
    /\ \A t \in proc_list : t = total_thread_count + 1 => pc[Bsp] = "create_thread"
    /\ pc[Bsp] = "create_thread" => total_thread_count + 1 \in proc_list
    /\ num_proc = Cardinality(proc_list)

LEMMA SpacePreserved ==
    ASSUME SafeInv, SpaceInv, [Next]_vars
    PROVE  SpaceInv'
<1>a. /\ pc \in [CPU -> Labels]
      /\ current_thread \in [CPU -> Thread \cup {NULL}]
      /\ exc_state \in [Thread -> {"NONE", "ACTIVE", "BLCKD", "FREED"}]
      /\ cr3 \in [CPU -> Thread \cup {STARTUP}]
      /\ curcontext \in [CPU -> Thread \cup {STARTUP}]
      /\ total_thread_count \in 0..NThread
      /\ proc_list \subseteq Thread
      /\ NULL \notin Thread /\ STARTUP \notin Thread /\ NULL = STARTUP
      /\ Bsp \in CPU
      /\ \A c \in CPU : pc[c] \in {"create_proc", "create_thread"} =>
            c = Bsp /\ total_thread_count < NThread
  BY NCpuAssumption DEF SafeInv, TypeInv, TypeOK, BootInv, Bsp, CPU, Thread, NULL, STARTUP
<1>b. \A c, d \in CPU : current_thread[c] = current_thread[d] /\ current_thread[c] # NULL
        => c = d
  <2>1. thread_list \in [CPU -> [Slot -> Thread \cup {NULL}]]
    BY DEF SafeInv, TypeInv, TypeOK
  <2>2. \A c \in CPU : current_thread[c] # NULL =>
          \E s \in Slot : thread_list[c][s] = current_thread[c]
    BY <1>a, <2>1, EntriesOf DEF SafeInv, CurrentThreadsRunAtHome
  <2>3. QED
    BY <1>a, <2>2 DEF SafeInv, EveryThreadOnOneList
<1>c. \A c \in CPU :
        /\ pc[c] \in {"user", "sleep", "move"} => current_thread[c] \in Thread
        /\ current_thread[c] # NULL => /\ current_thread[c] \in Thread
                                       /\ Live(current_thread[c])
                                       /\ current_thread[c] \in proc_list
  BY <1>a DEF SafeInv, KernelControl, CurrentThreadsRunAtHome, Live, SpaceInv
<1>d. IsFiniteSet(proc_list)
  <2>1. IsFiniteSet(Thread)
    BY NThreadAssumption, FS_Interval DEF Thread
  <2>2. QED
    BY <2>1, <1>a, FS_Subset
<1>1. CASE /\ UNCHANGED <<current_thread, cr3, curcontext, exc_state, proc_list, num_proc,
                          total_thread_count>>
           /\ \A c \in CPU : (pc'[c] = "move") <=> (pc[c] = "move")
           /\ (pc'[Bsp] = "create_thread") <=> (pc[Bsp] = "create_thread")
  BY <1>1, <1>a DEF SpaceInv, Live
<1>2. CASE CreateProc
  <2> DEFINE t == total_thread_count + 1
  <2>1. /\ pc[Bsp] = "create_proc"
        /\ pc' = [pc EXCEPT ![Bsp] = "create_thread"]
        /\ proc_list' = proc_list \cup {t}
        /\ num_proc' = num_proc + 1
        /\ UNCHANGED <<current_thread, cr3, curcontext, exc_state, total_thread_count>>
    BY <1>2 DEF CreateProc, sched, running, regs, locals
  <2>2. t \notin proc_list
    BY <2>1 DEF SpaceInv
  <2>3. num_proc' = Cardinality(proc_list')
    BY <2>1, <2>2, <1>d, FS_AddElement DEF SpaceInv
  <2>4. \A u \in proc_list' : Live(u)' \/ u = t'
    BY <2>1 DEF SpaceInv, Live
  <2>5. QED
    BY <2>1, <2>3, <2>4, <1>a DEF SpaceInv, Live
<1>3. CASE CreateThread
  <2> DEFINE t == total_thread_count + 1
  <2>1. /\ t \in Thread
        /\ exc_state' = [exc_state EXCEPT ![t] = "ACTIVE"]
        /\ total_thread_count' = t
    BY <1>3, CreateEffect DEF SafeInv
  <2>2. /\ pc[Bsp] = "create_thread"
        /\ \E l \in {"create_proc", "idle"} : pc' = [pc EXCEPT ![Bsp] = l]
        /\ UNCHANGED <<current_thread, cr3, curcontext, proc_list, num_proc>>
    BY <1>3 DEF CreateThread, MorePrograms, procs, locals
  <2>3. exc_state[t] = "NONE"
    BY <2>1, NThreadAssumption DEF SafeInv, KernelControl, TypeInv, TypeOK
  <2>4. t \in proc_list
    BY <2>2 DEF SpaceInv
  <2>5. \A u \in proc_list' : Live(u)' /\ u # t + 1
    <3>1. \A u \in proc_list : u # t => Live(u)
      BY DEF SpaceInv
    <3>2. \A u \in proc_list : u = t + 1 => exc_state[u] = "NONE"
      BY <1>a, <2>1, NThreadAssumption DEF SafeInv, KernelControl, Thread
    <3>3. QED
      BY <3>1, <3>2, <2>1, <2>2, <1>a, NThreadAssumption DEF Live, Thread
  <2> HIDE DEF t
  <2>6. \A u \in Thread : Live(u)' => u \in proc_list'
    BY <2>1, <2>2, <2>4, <1>a DEF SpaceInv, Live
  <2>7. QED
    BY <2>1, <2>2, <2>5, <2>6, <1>a DEF SpaceInv
<1>4. ASSUME NEW c \in CPU, Sleep(c)
      PROVE  SpaceInv'
  <2>1. /\ pc[c] = "sleep"
        /\ pc' = [pc EXCEPT ![c] = "dispatch"]
        /\ cr3' = [cr3 EXCEPT ![c] = STARTUP]
        /\ current_thread' = [current_thread EXCEPT ![c] = NULL]
        /\ exc_state' = [exc_state EXCEPT ![current_thread[c]] = "BLCKD"]
        /\ UNCHANGED <<curcontext, proc_list, num_proc, total_thread_count>>
    BY <1>4 DEF Sleep, LeaveThread, sched, procs, locals
  <2>2. \A t \in Thread : Live(t)' <=> Live(t)
    BY <2>1, <1>a, <1>c DEF Live
  <2>3. QED
    BY <2>1, <2>2, <1>a DEF SpaceInv
<1>5. ASSUME NEW c \in CPU, SysExit(c)
      PROVE  SpaceInv'
  <2> DEFINE t == current_thread[c]
  <2>1. /\ pc[c] = "user"
        /\ MultiThreadingLockFree
        /\ pc' = [pc EXCEPT ![c] = "dispatch"]
        /\ cr3' = [cr3 EXCEPT ![c] = STARTUP]
        /\ current_thread' = [current_thread EXCEPT ![c] = NULL]
        /\ exc_state' = [exc_state EXCEPT ![t] = "FREED"]
        /\ proc_list' = proc_list \ {t}
        /\ num_proc' = num_proc - 1
        /\ UNCHANGED <<curcontext, total_thread_count>>
    BY <1>5 DEF SysExit, LeaveThread, locals
  <2>2. t \in Thread /\ t \in proc_list /\ Live(t)
    BY <2>1, <1>a, <1>c
  <2>3. num_proc' = Cardinality(proc_list')
    BY <2>1, <2>2, <1>d, FS_RemoveElement DEF SpaceInv
  <2>4. \A u \in Thread : Live(u)' <=> Live(u) /\ u # t
    BY <2>1, <2>2, <1>a DEF Live
  <2>5. t # total_thread_count + 1
    <3>1. t \in Nat
      BY <2>2 DEF Thread
    <3>2. exc_state[t] # "NONE"
      BY <2>2 DEF Live
    <3>3. ~(t > total_thread_count)
      BY <2>2, <3>2 DEF SafeInv, KernelControl
    <3>4. QED
      BY <3>1, <3>3, <1>a
  <2>6. \A d \in CPU : pc'[d] # "move"
    BY <2>1, <1>a DEF MultiThreadingLockFree
  <2> HIDE DEF t
  <2>7. \A d \in CPU : cr3'[d] = IF current_thread'[d] = NULL THEN STARTUP
                                                             ELSE current_thread'[d]
    BY <2>1, <1>a DEF SpaceInv, MultiThreadingLockFree
  <2>8. QED
    BY <2>1, <2>3, <2>4, <2>5, <2>6, <2>7, <1>a DEF SpaceInv
<1>6. ASSUME NEW c \in CPU, NEW t \in Thread, SysWakeup(c, t)
      PROVE  SpaceInv'
  <2>a. PICK d \in CPU : t \in Entries(thread_list[d])
    BY <1>6 DEF SysWakeup
  <2>b. \E s \in Slot : thread_list[d][s] = t
    BY <2>a, EntriesOf DEF SafeInv, TypeInv, TypeOK
  <2>c. Live(t)
    BY <2>b DEF SafeInv, EveryThreadOnOneList
  <2>1. /\ exc_state' = [exc_state EXCEPT ![t] = "ACTIVE"]
        /\ UNCHANGED <<pc, current_thread, cr3, curcontext, proc_list, num_proc,
                       total_thread_count>>
    BY <1>6 DEF SysWakeup, sched, procs, regs, locals
  <2>2. \A u \in Thread : Live(u)' <=> Live(u)
    BY <2>1, <2>c, <1>a DEF Live
  <2>3. QED
    BY <2>1, <2>2, <1>a DEF SpaceInv
<1>7. ASSUME NEW c \in CPU, PickFirst(c) \/ PickNext(c)
      PROVE  SpaceInv'
  <2>1. PICK t \in Thread : current_thread' = [current_thread EXCEPT ![c] = t]
    BY <1>7, PickEffect
  <2>2. /\ pc[c] = "pick"
        /\ pc' = [pc EXCEPT ![c] = "move"]
        /\ UNCHANGED <<exc_state, total_thread_count>>
    BY <1>7, PickEffect DEF sched
  <2>3. UNCHANGED <<cr3, proc_list, num_proc>>
    BY <1>7 DEF PickFirst, PickNext, procs, regs
  <2>4. curcontext' = [curcontext EXCEPT ![c] = IF current_thread[c] = NULL THEN STARTUP
                                                           ELSE current_thread[c]]
    <3>1. CASE PickFirst(c)
      <4>1. are_there_still_threads(c)
        BY <2>2 DEF SafeInv, WalkInv
      <4>2. QED
        BY <3>1, <4>1 DEF PickFirst
    <3>2. CASE PickNext(c)
      BY <3>2 DEF PickNext
    <3>3. QED
      BY <1>7, <3>1, <3>2
  <2>5. /\ cr3'[c] = curcontext'[c]
        /\ curcontext'[c] \in proc_list' \cup {STARTUP}
    BY <2>2, <2>3, <2>4, <1>a, <1>c DEF SpaceInv
  <2>6. QED
    BY <2>1, <2>2, <2>3, <2>4, <2>5, <1>a DEF SpaceInv, Live
<1>8. ASSUME NEW c \in CPU, Move(c)
      PROVE  SpaceInv'
  <2>1. /\ pc[c] = "move"
        /\ pc' = [pc EXCEPT ![c] = "user"]
        /\ cr3' = [cr3 EXCEPT ![c] = IF current_thread[c] = curcontext[c]
                                     THEN @ ELSE current_thread[c]]
        /\ UNCHANGED <<current_thread, exc_state, proc_list, num_proc, curcontext,
                       total_thread_count>>
    BY <1>8, MoveStaysHome DEF SafeInv, sched, running, procs, locals
  <2>2. current_thread[c] \in Thread /\ cr3[c] = curcontext[c]
    BY <2>1, <1>a, <1>c DEF SpaceInv
  <2>3. cr3'[c] = current_thread[c]
    BY <2>1, <2>2, <1>a
  <2>4. QED
    BY <2>1, <2>2, <2>3, <1>a DEF SpaceInv, Live
<1>9. ASSUME NEW c \in CPU,
             \/ UserStep(c) \/ Timer(c) \/ SysSleep(c) \/ DispatchTest(c) \/ DispatchLock(c)
      PROVE  SpaceInv'
  <2>1. UNCHANGED <<current_thread, cr3, curcontext, exc_state, proc_list, num_proc,
                    total_thread_count>>
    BY <1>9 DEF UserStep, Timer, SysSleep, DispatchTest, DispatchLock, sched, running,
       procs, regs, locals
  <2>2. \/ pc' = pc
        \/ /\ pc[c] \in {"user", "idle", "dispatch", "lock"}
           /\ \E l \in {"dispatch", "sleep", "lock", "idle", "pick"} :
                pc' = [pc EXCEPT ![c] = l]
    BY <1>9 DEF UserStep, Timer, SysSleep, DispatchTest, DispatchLock
  <2>3. QED
    BY <2>1, <2>2, <1>a, <1>1
<1>10. CASE UNCHANGED vars
  BY <1>10, <1>1 DEF vars, sched, running, procs, regs, locals
<1>11. QED
  BY <1>2, <1>3, <1>4, <1>5, <1>6, <1>7, <1>8, <1>9, <1>10
     DEF Next, Boot, Kernel, Program

LEMMA SpaceInvariant == Spec => [](SafeInv /\ SpaceInv)
<1>1. Init => SpaceInv
  <2> SUFFICES ASSUME Init
               PROVE  SpaceInv
    OBVIOUS
  <2>1. num_proc = Cardinality(proc_list)
    BY FS_EmptySet DEF Init
  <2>2. Bsp \in CPU
    BY NCpuAssumption DEF Bsp, CPU
  <2>3. \A c \in CPU : pc[c] # "move" /\ cr3[c] = STARTUP /\ current_thread[c] = NULL
    BY DEF Init
  <2>4. /\ proc_list = {}
        /\ pc[Bsp] = "create_proc"
        /\ \A t \in Thread : ~Live(t)
    BY <2>2 DEF Init, Live
  <2>5. QED
    BY <2>1, <2>3, <2>4 DEF SpaceInv
<1>2. SafeInv /\ SpaceInv /\ [Next]_vars => SpaceInv'
  BY SpacePreserved
<1>3. QED
  BY <1>1, <1>2, SafeInvariant, PTL DEF Spec

(* A program runs in its own address space, and no processor stays in that *)
(* of a process that has been deleted.                                     *)
THEOREM AddressSpacesAreRight == Spec => []AddressSpacesMatch
<1>1. SafeInv /\ SpaceInv => AddressSpacesMatch
  BY DEF SafeInv, TypeInv, TypeOK, KernelControl, CurrentThreadsRunAtHome, SpaceInv, Live,
     AddressSpacesMatch, STARTUP, Thread, NULL
<1>2. QED
  BY <1>1, SpaceInvariant, PTL

(* num_proc is the number of processes, and every thread has its process.  *)
THEOREM ProcessCount == Spec => []ProcessesAreCounted
<1>1. SpaceInv => ProcessesAreCounted
  BY DEF SpaceInv, ProcessesAreCounted
<1>2. QED
  BY <1>1, SpaceInvariant, PTL
=============================================================================
