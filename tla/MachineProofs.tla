---------------------------- MODULE MachineProofs ----------------------------
(***************************************************************************)
(* Proofs about the kernel's locks, about the way into it and out, about   *)
(* the copying of bytes, and about the console.                            *)
(*                                                                         *)
(* One lock, instruction by instruction, for any set of processors and any *)
(* contents of AL at the calls: only a cmpxchg on a byte in use breaks it. *)
(* And all of them together: the processors never wait for each other in a *)
(* circle, however many they are.  The inductive invariant says that       *)
(* whoever owns a lock is at a step of a call at which that lock is held.  *)
(* A processor that waits then waits for a lock of a higher rank than      *)
(* those it owns, and so in a circle the ranks would rise for ever; but    *)
(* there are five.                                                         *)
(*                                                                         *)
(* The stubs, for any threads, exceptions and system calls, on both        *)
(* architectures: a thread goes on with the registers its program must     *)
(* find.  First what the stubs do with the stack: the words they push are  *)
(* a cpu_state, read upwards, and what they pop are its fields.  The       *)
(* inductive invariant then says of every thread that does not run that    *)
(* its cpu_state is what its program left.                                 *)
(*                                                                         *)
(* The copying of bytes, for any memory and any blocks: what each loop     *)
(* computes is given in closed form.  The closed form satisfies the loop's *)
(* equations, so there is a function that does; and what satisfies them    *)
(* agrees with it turn by turn, for there is no first turn at which it     *)
(* does not.                                                               *)
(*                                                                         *)
(* The console, for any messages and any screen whose rows are a whole     *)
(* number of tab stops: the screen is a window on the sheet on which all   *)
(* was put.  The sheet is a fold, of which it is shown first that it       *)
(* exists and that one more character is one more step.                    *)
(***************************************************************************)
EXTENDS Spinlock, KernelLocks, Interrupts, Strings, Console, TLAPS,
        NaturalsInduction, FiniteSetTheorems, WellFoundedInduction

-----------------------------------------------------------------------------
(* The lock byte. *)

(* Type correctness of the lock byte, the AL registers and the program     *)
(* counters of spinlock_ackquire and spinlock_release.                     *)
THEOREM TypeCorrect == Spec => []TypeOK
<1>1. Init => TypeOK
  BY EntryALAssumption DEF Init, TypeOK, Labels, LOCK_FREE, LOCK_USED
<1>2. TypeOK /\ [Next]_vars => TypeOK'
  <2> SUFFICES ASSUME TypeOK, [Next]_vars
               PROVE  TypeOK'
    OBVIOUS
  <2> USE DEF TypeOK, Labels, LOCK_FREE, LOCK_USED
  <2>1. ASSUME NEW c \in CPU, Call(c)
        PROVE  TypeOK'
    BY <2>1, EntryALAssumption DEF Call
  <2>2. ASSUME NEW c \in CPU, SpinLock(c)
        PROVE  TypeOK'
    BY <2>2 DEF SpinLock
  <2>3. ASSUME NEW c \in CPU, GetLock(c)
        PROVE  TypeOK'
    BY <2>3 DEF GetLock
  <2>4. ASSUME NEW c \in CPU, Retry(c)
        PROVE  TypeOK'
    BY <2>4 DEF Retry
  <2>5. ASSUME NEW c \in CPU, Release(c)
        PROVE  TypeOK'
    BY <2>5 DEF Release
  <2>6. CASE UNCHANGED vars
    BY <2>6 DEF vars
  <2>7. QED
    BY <2>1, <2>2, <2>3, <2>4, <2>5, <2>6 DEF Next, Step
<1>3. QED
  BY <1>1, <1>2, PTL DEF Spec

(* Losing mutual exclusion takes a cmpxchg that runs with AL = 1 on a byte *)
(* that is 1.  MutualExclusionUnlessStolen is itself inductive: while      *)
(* nothing has been stolen a successful cmpxchg finds the byte free, hence *)
(* nobody inside, and only the one processor inside can release.           *)
THEOREM OnlyStealingBreaksTheLock == Spec => []MutualExclusionUnlessStolen
<1>1. Init => MutualExclusionUnlessStolen
  BY DEF Init, MutualExclusionUnlessStolen, MutualExclusion, InCritical,
         LOCK_FREE, LOCK_USED
<1>2. TypeOK /\ MutualExclusionUnlessStolen /\ [Next]_vars
        => MutualExclusionUnlessStolen'
  <2> SUFFICES ASSUME TypeOK, MutualExclusionUnlessStolen, [Next]_vars
               PROVE  MutualExclusionUnlessStolen'
    OBVIOUS
  <2> USE DEF TypeOK, MutualExclusionUnlessStolen, MutualExclusion, InCritical,
              Labels, LOCK_FREE, LOCK_USED
  <2>1. ASSUME NEW c \in CPU, Call(c)
        PROVE  MutualExclusionUnlessStolen'
    BY <2>1 DEF Call
  <2>2. ASSUME NEW c \in CPU, SpinLock(c)
        PROVE  MutualExclusionUnlessStolen'
    BY <2>2 DEF SpinLock
  <2>3. ASSUME NEW c \in CPU, GetLock(c)
        PROVE  MutualExclusionUnlessStolen'
    <3>1. CASE lock = LOCK_USED
      BY <3>1, <2>3 DEF GetLock
    <3>2. CASE lock = LOCK_FREE
      <4>1. SUFFICES ASSUME ~stolen
                     PROVE  MutualExclusion' /\ lock' = LOCK_USED /\ InCritical' # {}
        BY <2>3, <3>2 DEF GetLock
      <4>2. InCritical = {}
        BY <3>2, <4>1
      <4>3. InCritical' = {c}
        BY <4>2, <2>3 DEF GetLock
      <4>4. QED
        BY <4>3, <2>3 DEF GetLock
    <3>3. QED
      BY <3>1, <3>2
  <2>4. ASSUME NEW c \in CPU, Retry(c)
        PROVE  MutualExclusionUnlessStolen'
    BY <2>4 DEF Retry
  <2>5. ASSUME NEW c \in CPU, Release(c)
        PROVE  MutualExclusionUnlessStolen'
    BY <2>5 DEF Release
  <2>6. CASE UNCHANGED vars
    BY <2>6 DEF vars
  <2>7. QED
    BY <2>1, <2>2, <2>3, <2>4, <2>5, <2>6 DEF Next, Step
<1>3. QED
  BY <1>1, <1>2, TypeCorrect, PTL DEF Spec

-----------------------------------------------------------------------------
(* The order of the locks. *)
Steps == Seq([take : BOOLEAN, lock : Lock])

(* The strengthening: what is owned is held by the call of the owner.      *)
OwnersHold ==
    \A c \in Cpu, l \in Lock : owner[l] = c => l \in HeldAt(call[c], at[c])
LocksTypeOK ==
    /\ call \in [Cpu -> KernelCall \cup {<<>>}]
    /\ at \in [Cpu -> Nat]
    /\ \A c \in Cpu : at[c] \in 1 .. Len(call[c]) + 1
    /\ owner \in [Lock -> Cpu \cup {NoOne}]
LocksInv == LocksTypeOK /\ OwnersHold

-----------------------------------------------------------------------------
(* The calls are sequences of steps. *)
LEMMA CallsAreSteps == ASSUME NEW s \in KernelCall \cup {<<>>} PROVE s \in Steps
<1>1. CASE s \in KernelCall BY <1>1, KernelCallsAssumption DEF Steps
<1>2. CASE s = <<>> BY <1>2 DEF Steps
<1>3. QED BY <1>1, <1>2

(* A step leaves held what it is not about. *)
LEMMA OthersStayHeld ==
    ASSUME NEW s \in Steps, NEW i \in 1 .. Len(s), NEW l \in HeldAt(s, i), l # s[i].lock
    PROVE  l \in HeldAt(s, i + 1)
<1>1. PICK j \in 1 .. i - 1 :
        /\ s[j].take
        /\ \A m \in j + 1 .. i - 1 : s[m].lock # s[j].lock
        /\ l = s[j].lock
  BY DEF HeldAt
<1>2. j \in 1 .. (i + 1) - 1 BY <1>1
<1>3. ASSUME NEW m \in j + 1 .. (i + 1) - 1 PROVE s[m].lock # s[j].lock
  <2>1. CASE m = i
    <3>1. s[m].lock = s[i].lock BY <2>1
    <3>2. l = s[j].lock BY <1>1
    <3>3. QED BY <3>1, <3>2
  <2>2. CASE m # i
    <3>1. m \in j + 1 .. i - 1 BY <1>1, <1>3, <2>2
    <3>2. QED BY <1>1, <3>1
  <2>3. QED BY <2>1, <2>2
<1>4. QED BY <1>1, <1>2, <1>3 DEF HeldAt

(* What a step takes is held after it. *)
LEMMA TheLockIsHeld ==
    ASSUME NEW s \in Steps, NEW i \in 1 .. Len(s), s[i].take
    PROVE  s[i].lock \in HeldAt(s, i + 1)
<1>1. i \in 1 .. (i + 1) - 1 OBVIOUS
<1>2. i + 1 .. (i + 1) - 1 = {} OBVIOUS
<1>3. \A m \in i + 1 .. (i + 1) - 1 : s[m].lock # s[i].lock BY <1>2
<1>4. QED BY <1>1, <1>3 DEF HeldAt

(* There are six ranks. *)
LEMMA SixRanks == ASSUME NEW l \in Lock PROVE Rank(l) \in 1 .. 6
BY DEF Lock, Rank

-----------------------------------------------------------------------------
(* At the beginning nobody owns anything. *)
THEOREM LocksInitHolds == LocksInit => LocksInv
<1> SUFFICES ASSUME LocksInit PROVE LocksInv OBVIOUS
<1>1. LocksTypeOK
  <2>1. call \in [Cpu -> KernelCall \cup {<<>>}] BY DEF LocksInit
  <2>2. at \in [Cpu -> Nat] BY DEF LocksInit
  <2>3. \A c \in Cpu : at[c] \in 1 .. Len(call[c]) + 1 BY DEF LocksInit
  <2>4. owner \in [Lock -> Cpu \cup {NoOne}] BY DEF LocksInit
  <2>5. QED BY <2>1, <2>2, <2>3, <2>4 DEF LocksTypeOK
<1>2. OwnersHold BY NoOneAssumption DEF LocksInit, OwnersHold
<1>3. QED BY <1>1, <1>2 DEF LocksInv

(* A new call begins when the old one is over, and holds nothing. *)
LEMMA BeginKeeps == ASSUME LocksInv, NEW c \in Cpu, Begin(c) PROVE LocksInv'
<1>1. PICK s \in KernelCall : call' = [call EXCEPT ![c] = s] BY DEF Begin
<1>2. at' = [at EXCEPT ![c] = 1] /\ owner' = owner BY DEF Begin
<1>3. s \in Steps /\ Len(s) \in Nat
  <2>1. s \in KernelCall \cup {<<>>} BY <1>1
  <2>2. s \in Steps BY <2>1, CallsAreSteps
  <2>3. Len(s) \in Nat BY <2>2 DEF Steps
  <2>4. QED BY <2>2, <2>3
<1>4. HeldAt(call[c], at[c]) = {} BY DEF Begin, Loops
<1>5. LocksTypeOK'
  <2>1. call' \in [Cpu -> KernelCall \cup {<<>>}] BY <1>1 DEF LocksInv, LocksTypeOK
  <2>2. at' \in [Cpu -> Nat] BY <1>2 DEF LocksInv, LocksTypeOK
  <2>3. ASSUME NEW d \in Cpu PROVE at'[d] \in 1 .. Len(call'[d]) + 1
    <3>1. CASE d = c
      <4>1. at'[d] = 1 /\ call'[d] = s BY <1>1, <1>2, <3>1 DEF LocksInv, LocksTypeOK
      <4>2. QED BY <1>3, <4>1
    <3>2. CASE d # c
      <4>1. at'[d] = at[d] /\ call'[d] = call[d] BY <1>1, <1>2, <3>2 DEF LocksInv, LocksTypeOK
      <4>2. QED BY <4>1 DEF LocksInv, LocksTypeOK
    <3>3. QED BY <3>1, <3>2
  <2>4. owner' \in [Lock -> Cpu \cup {NoOne}] BY <1>2 DEF LocksInv, LocksTypeOK
  <2>5. QED BY <2>1, <2>2, <2>3, <2>4 DEF LocksTypeOK
<1>6. ASSUME NEW d \in Cpu, NEW l \in Lock, owner'[l] = d
      PROVE  l \in HeldAt(call'[d], at'[d])
  <2>1. owner[l] = d BY <1>2, <1>6
  <2>2. l \in HeldAt(call[d], at[d]) BY <2>1 DEF LocksInv, OwnersHold
  <2>3. d # c BY <1>4, <2>2
  <2>4. at'[d] = at[d] /\ call'[d] = call[d] BY <1>1, <1>2, <2>3 DEF LocksInv, LocksTypeOK
  <2>5. QED BY <2>2, <2>4
<1>7. QED BY <1>5, <1>6 DEF LocksInv, OwnersHold

(* A step forward: what the processor owned before and still owns is held  *)
(* after it as well.                                                       *)
LEMMA StepKeeps ==
    ASSUME LocksInv, NEW c \in Cpu, Busy(c),
           call' = call, at' = [at EXCEPT ![c] = @ + 1],
           owner' \in [Lock -> Cpu \cup {NoOne}],
           NEW n, n = NextStep(c).lock,
           \A l \in Lock : l # n => owner'[l] = owner[l],
           owner'[n] \in Cpu => owner'[n] = c /\ NextStep(c).take
    PROVE  LocksInv'
<1>1. call[c] \in Steps /\ Len(call[c]) \in Nat
  <2>1. call[c] \in KernelCall \cup {<<>>} BY DEF LocksInv, LocksTypeOK
  <2>2. call[c] \in Steps BY <2>1, CallsAreSteps
  <2>3. Len(call[c]) \in Nat BY <2>2 DEF Steps
  <2>4. QED BY <2>2, <2>3
<1>2. at[c] \in 1 .. Len(call[c]) BY DEF Busy
<1>3. LocksTypeOK'
  <2>1. call' \in [Cpu -> KernelCall \cup {<<>>}] BY DEF LocksInv, LocksTypeOK
  <2>2. at' \in [Cpu -> Nat] BY DEF LocksInv, LocksTypeOK
  <2>3. ASSUME NEW d \in Cpu PROVE at'[d] \in 1 .. Len(call'[d]) + 1
    <3>1. CASE d = c
      <4>1. at'[d] = at[c] + 1 /\ call'[d] = call[c] BY <3>1 DEF LocksInv, LocksTypeOK
      <4>2. QED BY <1>1, <1>2, <4>1
    <3>2. CASE d # c
      <4>1. at'[d] = at[d] /\ call'[d] = call[d] BY <3>2 DEF LocksInv, LocksTypeOK
      <4>2. QED BY <4>1 DEF LocksInv, LocksTypeOK
    <3>3. QED BY <3>1, <3>2
  <2>4. QED BY <2>1, <2>2, <2>3 DEF LocksTypeOK
<1>4. ASSUME NEW d \in Cpu, NEW l \in Lock, owner'[l] = d
      PROVE  l \in HeldAt(call'[d], at'[d])
  <2>1. CASE l = n
    <3>1. d = c /\ NextStep(c).take BY <1>4, <2>1
    <3>2. at'[c] = at[c] + 1 BY DEF LocksInv, LocksTypeOK
    <3>3. call[c][at[c]].take BY <3>1 DEF NextStep
    <3>4. call[c][at[c]].lock \in HeldAt(call[c], at[c] + 1)
      BY <1>1, <1>2, <3>3, TheLockIsHeld
    <3>5. QED BY <2>1, <3>1, <3>2, <3>4 DEF NextStep
  <2>2. CASE l # n
    <3>1. owner[l] = d BY <1>4, <2>2
    <3>2. l \in HeldAt(call[d], at[d]) BY <3>1 DEF LocksInv, OwnersHold
    <3>3. CASE d = c
      <4>1. l # call[c][at[c]].lock BY <2>2 DEF NextStep
      <4>2. l \in HeldAt(call[c], at[c] + 1)
        BY <1>1, <1>2, <3>2, <3>3, <4>1, OthersStayHeld
      <4>3. at'[c] = at[c] + 1 BY DEF LocksInv, LocksTypeOK
      <4>4. QED BY <3>3, <4>2, <4>3
    <3>4. CASE d # c
      <4>1. at'[d] = at[d] BY <3>4 DEF LocksInv, LocksTypeOK
      <4>2. QED BY <3>2, <4>1
    <3>5. QED BY <3>3, <3>4
  <2>3. QED BY <2>1, <2>2
<1>5. QED BY <1>3, <1>4 DEF LocksInv, OwnersHold

(* The lock a step is about is one of the locks. *)
LEMMA NextIsALock == ASSUME LocksInv, NEW c \in Cpu, Busy(c) PROVE NextStep(c).lock \in Lock
<1>1. call[c] \in Steps
  <2>1. call[c] \in KernelCall \cup {<<>>} BY DEF LocksInv, LocksTypeOK
  <2>2. QED BY <2>1, CallsAreSteps
<1>2. at[c] \in 1 .. Len(call[c]) BY DEF Busy
<1>3. call[c][at[c]] \in [take : BOOLEAN, lock : Lock]
  <2> DEFINE OneStep == [take : BOOLEAN, lock : Lock]
  <2>1. call[c] \in Seq(OneStep) BY <1>1 DEF Steps
  <2> HIDE DEF OneStep
  <2>2. call[c][at[c]] \in OneStep BY <1>2, <2>1
  <2>3. QED BY <2>2 DEF OneStep
<1>4. QED BY <1>3 DEF NextStep

LEMMA AcquireKeeps == ASSUME LocksInv, NEW c \in Cpu, Acquire(c) PROVE LocksInv'
<1> DEFINE n == NextStep(c).lock
<1>1. Busy(c) /\ NextStep(c).take BY DEF Acquire
<1>2. n \in Lock BY <1>1, NextIsALock
<1>3. owner' = [owner EXCEPT ![n] = c] BY DEF Acquire
<1>4. owner' \in [Lock -> Cpu \cup {NoOne}] BY <1>3 DEF LocksInv, LocksTypeOK
<1>5. \A l \in Lock : l # n => owner'[l] = owner[l] BY <1>3 DEF LocksInv, LocksTypeOK
<1>6. owner'[n] = c BY <1>2, <1>3 DEF LocksInv, LocksTypeOK
<1>7. call' = call /\ at' = [at EXCEPT ![c] = @ + 1] BY DEF Acquire
<1> HIDE DEF n
<1>8. n = NextStep(c).lock BY DEF n
<1>9. QED BY <1>1, <1>4, <1>5, <1>6, <1>7, <1>8, StepKeeps

LEMMA GiveBackKeeps == ASSUME LocksInv, NEW c \in Cpu, GiveBack(c) PROVE LocksInv'
<1> DEFINE n == NextStep(c).lock
<1>1. Busy(c) BY DEF GiveBack
<1>2. n \in Lock BY <1>1, NextIsALock
<1>3. owner' = [owner EXCEPT ![n] = NoOne] BY DEF GiveBack
<1>4. owner' \in [Lock -> Cpu \cup {NoOne}] BY <1>3 DEF LocksInv, LocksTypeOK
<1>5. \A l \in Lock : l # n => owner'[l] = owner[l] BY <1>3 DEF LocksInv, LocksTypeOK
<1>6. owner'[n] \notin Cpu BY <1>2, <1>3, NoOneAssumption DEF LocksInv, LocksTypeOK
<1>7. call' = call /\ at' = [at EXCEPT ![c] = @ + 1] BY DEF GiveBack
<1> HIDE DEF n
<1>8. n = NextStep(c).lock BY DEF n
<1>9. QED BY <1>1, <1>4, <1>5, <1>6, <1>7, <1>8, StepKeeps

(* Every step keeps the invariant. *)
THEOREM LocksNextKeeps == LocksInv /\ [LocksNext]_lockVars => LocksInv'
<1> SUFFICES ASSUME LocksInv, [LocksNext]_lockVars PROVE LocksInv' OBVIOUS
<1>1. ASSUME NEW c \in Cpu, Begin(c) PROVE LocksInv' BY <1>1, BeginKeeps
<1>2. ASSUME NEW c \in Cpu, Acquire(c) PROVE LocksInv' BY <1>2, AcquireKeeps
<1>3. ASSUME NEW c \in Cpu, GiveBack(c) PROVE LocksInv' BY <1>3, GiveBackKeeps
<1>4. CASE UNCHANGED lockVars BY <1>4 DEF lockVars, LocksInv, LocksTypeOK, OwnersHold
<1>5. QED BY <1>1, <1>2, <1>3, <1>4 DEF LocksNext

-----------------------------------------------------------------------------
(* One who waits for another that waits too: the other one waits for a     *)
(* lock of a higher rank.                                                  *)
LEMMA RanksRise ==
    ASSUME LocksInv, NEW c \in Cpu, NEW d \in Cpu, NEW e \in Cpu, WaitsFor(c, d), WaitsFor(d, e)
    PROVE  Rank(NextStep(c).lock) < Rank(NextStep(d).lock)
<1> DEFINE l == NextStep(c).lock
<1>1. l \in Lock BY NextIsALock DEF WaitsFor
<1>2. l \in HeldAt(call[d], at[d]) BY <1>1 DEF WaitsFor, LocksInv, OwnersHold
<1>3. at[d] \in 1 .. Len(call[d]) BY DEF WaitsFor, Busy
<1>4. call[d] \in KernelCall
  <2>1. call[d] # <<>> BY <1>3
  <2>2. QED BY <2>1 DEF LocksInv, LocksTypeOK
<1>5. call[d][at[d]].take BY DEF WaitsFor, NextStep
<1>6. Rank(l) < Rank(call[d][at[d]].lock)
  BY <1>2, <1>3, <1>4, <1>5, KernelCallsAssumption
<1>7. QED BY <1>6 DEF NextStep

(* A set in which everyone waits for another one of the set: no rank is    *)
(* the highest.                                                            *)
LEMMA NoCircle == LocksInv => NoCircularWait
<1> SUFFICES ASSUME LocksInv, NEW S \in SUBSET Cpu, S # {},
                    \A c \in S : \E d \in S : WaitsFor(c, d)
             PROVE  FALSE
  BY DEF NoCircularWait
<1> DEFINE rank(c) == Rank(NextStep(c).lock)
<1>1. ASSUME NEW c \in S PROVE rank(c) \in 1 .. 6
  <2>1. PICK d \in S : WaitsFor(c, d) OBVIOUS
  <2>2. NextStep(c).lock \in Lock BY <2>1, NextIsALock DEF WaitsFor
  <2>3. QED BY <2>2, SixRanks
<1>2. ASSUME NEW c \in S PROVE \E d \in S : rank(c) < rank(d)
  <2>1. PICK d \in S : WaitsFor(c, d) OBVIOUS
  <2>2. PICK e \in S : WaitsFor(d, e) OBVIOUS
  <2>3. rank(c) < rank(d) BY <2>1, <2>2, RanksRise
  <2>4. QED BY <2>3
<1> HIDE DEF rank
<1>3. \A c \in S : rank(c) # 6 BY <1>1, <1>2
<1>4. \A c \in S : rank(c) # 5 BY <1>1, <1>2, <1>3
<1>5. \A c \in S : rank(c) # 4 BY <1>1, <1>2, <1>3, <1>4
<1>6. \A c \in S : rank(c) # 3 BY <1>1, <1>2, <1>3, <1>4, <1>5
<1>7. \A c \in S : rank(c) # 2 BY <1>1, <1>2, <1>3, <1>4, <1>5, <1>6
<1>8. \A c \in S : rank(c) # 1 BY <1>1, <1>2, <1>3, <1>4, <1>5, <1>6, <1>7
<1>9. QED BY <1>1, <1>3, <1>4, <1>5, <1>6, <1>7, <1>8

(* The kernel's locks are taken in an order: whatever calls any number of  *)
(* processors execute, there is no circle of processors that wait for one  *)
(* another (exit in proc.c:53 takes four locks, and a call that has to     *)
(* enlarge the heap takes vmm_lock, below it pmm_lock, and console_lock    *)
(* below heap_lock, vheap.c:121).                                          *)
THEOREM LocksNeverCircle == LocksSpec => []NoCircularWait
<1>1. LocksInit => LocksInv BY LocksInitHolds
<1>2. LocksInv /\ [LocksNext]_lockVars => LocksInv' BY LocksNextKeeps
<1>3. LocksInv => NoCircularWait BY NoCircle
<1>4. QED BY <1>1, <1>2, <1>3, PTL DEF LocksSpec

-----------------------------------------------------------------------------
(* The stubs: the inductive invariant. *)

Registers == Range(General) \cup {"ip", "flags", "sp", "cs", "ss", "ds"}

StubsTypeOK ==
    /\ arch \in {"x86", "x86_64"}
    /\ cur \in active \cup {Nobody}
    /\ active \subseteq Thread \ gone
    /\ gone \subseteq Thread
    /\ DOMAIN regs = Registers
    /\ DOMAIN state = Thread /\ DOMAIN program = Thread
    /\ err_ocurred \in BOOLEAN

(* A cpu_state with which t goes on as its program left off, as a user.    *)
GoesOn(cpu, t) ==
    /\ Of(cpu) = program[t]
    /\ gdtable[cpu["cs"][3]] = "user code" /\ gdtable[cpu["ss"][3]] = "user data"
    /\ arch = "x86" => cpu["kernel_mode"][3] # 1

StubsInv ==
    /\ StubsTypeOK
    /\ ThreadsFindTheirRegisters
    /\ \A t \in Thread \ gone : t # cur => GoesOn(state[t], t)
    /\ shown # Nothing => err_ocurred

-----------------------------------------------------------------------------
(* The fields of a cpu_state, one by one. *)
LEMMA FieldsOfX86 ==
    ASSUME arch = "x86"
    PROVE  /\ DOMAIN cpu_state = 1 .. 15
           /\ cpu_state[1] = "kernel_mode" /\ cpu_state[2] = "ax" /\ cpu_state[3] = "bx"
           /\ cpu_state[4] = "cx" /\ cpu_state[5] = "dx" /\ cpu_state[6] = "si"
           /\ cpu_state[7] = "di" /\ cpu_state[8] = "bp" /\ cpu_state[9] = "intr"
           /\ cpu_state[10] = "error" /\ cpu_state[11] = "ip" /\ cpu_state[12] = "cs"
           /\ cpu_state[13] = "flags" /\ cpu_state[14] = "sp" /\ cpu_state[15] = "ss"
BY DEF General, cpu_state

LEMMA FieldsOfX86_64 ==
    ASSUME arch = "x86_64"
    PROVE  /\ DOMAIN cpu_state = 1 .. 22
           /\ cpu_state[1] = "ax" /\ cpu_state[2] = "bx" /\ cpu_state[3] = "cx"
           /\ cpu_state[4] = "dx" /\ cpu_state[5] = "si" /\ cpu_state[6] = "di"
           /\ cpu_state[7] = "bp" /\ cpu_state[8] = "r8" /\ cpu_state[9] = "r9"
           /\ cpu_state[10] = "r10" /\ cpu_state[11] = "r11" /\ cpu_state[12] = "r12"
           /\ cpu_state[13] = "r13" /\ cpu_state[14] = "r14" /\ cpu_state[15] = "r15"
           /\ cpu_state[16] = "intr" /\ cpu_state[17] = "error" /\ cpu_state[18] = "ip"
           /\ cpu_state[19] = "cs" /\ cpu_state[20] = "flags" /\ cpu_state[21] = "sp"
           /\ cpu_state[22] = "ss"
BY DEF General, cpu_state

(* What lies on the stack, read from its end, is a cpu_state.  In the      *)
(* kernel of x86 its last two fields are missing.                          *)
LEMMA FrameOfX86 ==
    ASSUME arch = "x86", cur # Nobody, NEW vector
    PROVE  /\ DOMAIN Reverse(Frame(vector)) = 1 .. 15
           /\ \A i \in 1 .. 15 : Reverse(Frame(vector))[i] = cpu_state[i]
<1> DEFINE f == Frame(vector)
<1>1. /\ Len(f) = 15
      /\ f[15] = "kernel_mode" /\ f[14] = "ax" /\ f[13] = "bx" /\ f[12] = "cx" /\ f[11] = "dx"
      /\ f[10] = "si" /\ f[9] = "di" /\ f[8] = "bp" /\ f[7] = "intr" /\ f[6] = "error"
      /\ f[5] = "ip" /\ f[4] = "cs" /\ f[3] = "flags" /\ f[2] = "sp" /\ f[1] = "ss"
  BY DEF Frame, HardwareFrame, PushesErrorCode, INTR_STUB_ERROR, SAVE_CPU
<1> HIDE DEF f
<1>2. \A i \in 1 .. 15 : f[16 - i] = cpu_state[i]
  BY <1>1, FieldsOfX86
<1>3. DOMAIN Reverse(f) = 1 .. 15 /\ \A i \in 1 .. 15 : Reverse(f)[i] = f[16 - i]
  BY <1>1 DEF Reverse
<1>4. QED
  BY <1>2, <1>3 DEF f

LEMMA FrameOfX86InTheKernel ==
    ASSUME arch = "x86", cur = Nobody, NEW vector
    PROVE  /\ DOMAIN Reverse(Frame(vector)) = 1 .. 13
           /\ \A i \in 1 .. 13 : Reverse(Frame(vector))[i] = cpu_state[i]
<1> DEFINE f == Frame(vector)
<1>1. /\ Len(f) = 13
      /\ f[13] = "kernel_mode" /\ f[12] = "ax" /\ f[11] = "bx" /\ f[10] = "cx" /\ f[9] = "dx"
      /\ f[8] = "si" /\ f[7] = "di" /\ f[6] = "bp" /\ f[5] = "intr" /\ f[4] = "error"
      /\ f[3] = "ip" /\ f[2] = "cs" /\ f[1] = "flags"
  BY DEF Frame, HardwareFrame, PushesErrorCode, INTR_STUB_ERROR, SAVE_CPU
<1> HIDE DEF f
<1>2. \A i \in 1 .. 13 : f[14 - i] = cpu_state[i]
  BY <1>1, FieldsOfX86
<1>3. DOMAIN Reverse(f) = 1 .. 13 /\ \A i \in 1 .. 13 : Reverse(f)[i] = f[14 - i]
  BY <1>1 DEF Reverse
<1>4. QED
  BY <1>2, <1>3 DEF f

LEMMA FrameOfX86_64 ==
    ASSUME arch = "x86_64", NEW vector
    PROVE  /\ DOMAIN Reverse(Frame(vector)) = 1 .. 22
           /\ \A i \in 1 .. 22 : Reverse(Frame(vector))[i] = cpu_state[i]
<1> DEFINE f == Frame(vector)
<1>1. /\ Len(f) = 22
      /\ f[22] = "ax" /\ f[21] = "bx" /\ f[20] = "cx" /\ f[19] = "dx" /\ f[18] = "si"
      /\ f[17] = "di" /\ f[16] = "bp" /\ f[15] = "r8" /\ f[14] = "r9" /\ f[13] = "r10"
      /\ f[12] = "r11" /\ f[11] = "r12" /\ f[10] = "r13" /\ f[9] = "r14" /\ f[8] = "r15"
      /\ f[7] = "intr" /\ f[6] = "error" /\ f[5] = "ip" /\ f[4] = "cs" /\ f[3] = "flags"
      /\ f[2] = "sp" /\ f[1] = "ss"
  BY DEF Frame, HardwareFrame, PushesErrorCode, INTR_STUB_ERROR, SAVE_CPU
<1> HIDE DEF f
<1>2. \A i \in 1 .. 22 : f[23 - i] = cpu_state[i]
  BY <1>1, FieldsOfX86_64
<1>3. DOMAIN Reverse(f) = 1 .. 22 /\ \A i \in 1 .. 22 : Reverse(f)[i] = f[23 - i]
  BY <1>1 DEF Reverse
<1>4. QED
  BY <1>2, <1>3 DEF f

(* So the handler finds under a name what was pushed for it. *)
LEMMA SavedIsPushed ==
    ASSUME arch \in {"x86", "x86_64"}, cur # Nobody, NEW vector, NEW name \in Range(cpu_state)
    PROVE  Saved(vector)[name] = Pushed(vector, name)
<1> DEFINE found == Reverse(Frame(vector))
           i == CHOOSE k \in DOMAIN cpu_state : cpu_state[k] = name
<1>1. i \in DOMAIN cpu_state /\ cpu_state[i] = name
  BY DEF Range
<1>2. i \in DOMAIN found /\ found[i] = cpu_state[i]
  BY <1>1, FieldsOfX86, FieldsOfX86_64, FrameOfX86, FrameOfX86_64
<1>3. Saved(vector)[name] = IF i \in DOMAIN found THEN Pushed(vector, found[i]) ELSE Nothing
  BY DEF Saved
<1> HIDE DEF found, i
<1>4. QED
  BY <1>1, <1>2, <1>3

(* The code segment is saved in the kernel, too. *)
LEMMA SavedCodeSegment ==
    ASSUME arch \in {"x86", "x86_64"}, NEW vector
    PROVE  "cs" \in Range(cpu_state) /\ Saved(vector)["cs"] = regs["cs"]
<1> DEFINE found == Reverse(Frame(vector))
           i == CHOOSE k \in DOMAIN cpu_state : cpu_state[k] = "cs"
<1>1. i \in DOMAIN cpu_state /\ cpu_state[i] = "cs" /\ "cs" \in Range(cpu_state)
  BY FieldsOfX86, FieldsOfX86_64 DEF Range
<1>2. Saved(vector)["cs"] = IF i \in DOMAIN found THEN Pushed(vector, found[i]) ELSE Nothing
  BY <1>1 DEF Saved
<1>3. arch = "x86" => 12 \in DOMAIN found /\ found[12] = cpu_state[12]
  BY FrameOfX86, FrameOfX86InTheKernel
<1>4. arch = "x86_64" => DOMAIN found = 1 .. 22 /\ \A k \in 1 .. 22 : found[k] = cpu_state[k]
  BY FrameOfX86_64
<1> HIDE DEF found, i
<1>5. i \in DOMAIN found /\ found[i] = "cs"
  BY <1>1, <1>3, <1>4, FieldsOfX86, FieldsOfX86_64
<1>6. Pushed(vector, "cs") = regs["cs"]
  BY DEF Pushed
<1>7. QED
  BY <1>1, <1>2, <1>5, <1>6

-----------------------------------------------------------------------------
(* The names.  Those of the general registers are fields of a cpu_state,   *)
(* and so are the five that the processor pushes.                          *)
GeneralNames ==
    {"ax", "bx", "cx", "dx", "si", "di", "bp",
     "r8", "r9", "r10", "r11", "r12", "r13", "r14", "r15"}

LEMMA GeneralAreGeneral ==
    ASSUME arch \in {"x86", "x86_64"}
    PROVE  /\ Range(General) \subseteq GeneralNames
           /\ arch = "x86_64" => "r11" \in Range(General)
           /\ "cx" \in Range(General)
<1>1. CASE arch = "x86"
  <2>1. General = <<"ax", "bx", "cx", "dx", "si", "di", "bp">>
    BY <1>1 DEF General
  <2>2. QED
    BY <1>1, <2>1 DEF Range, GeneralNames
<1>2. CASE arch = "x86_64"
  <2>1. General = <<"ax", "bx", "cx", "dx", "si", "di", "bp",
                    "r8", "r9", "r10", "r11", "r12", "r13", "r14", "r15">>
    BY <1>2 DEF General
  <2>2. QED
    BY <1>2, <2>1 DEF Range, GeneralNames
<1>3. QED
  BY <1>1, <1>2

(* The pops take the registers from their fields. *)
LEMMA PoppedIsTheField ==
    ASSUME arch \in {"x86", "x86_64"}, NEW cpu, NEW name \in Range(General)
    PROVE  name \in Range(cpu_state) /\ Popped(cpu, name) = cpu[name]
<1> DEFINE k == CHOOSE i \in DOMAIN RESTORE_CPU : RESTORE_CPU[i] = name
           field == IF arch = "x86" THEN k + 1 ELSE k
<1>1. RESTORE_CPU = General
  BY DEF RESTORE_CPU, General
<1>2. k \in DOMAIN RESTORE_CPU /\ RESTORE_CPU[k] = name
  BY <1>1 DEF Range
<1>3. Popped(cpu, name) = cpu[cpu_state[field]]
  BY DEF Popped
<1> HIDE DEF k
<1>4. field \in DOMAIN cpu_state /\ cpu_state[field] = RESTORE_CPU[k]
  <2>1. CASE arch = "x86"
    <3>1. RESTORE_CPU = <<"ax", "bx", "cx", "dx", "si", "di", "bp">>
      BY <2>1 DEF RESTORE_CPU
    <3>2. k \in 1 .. 7
      BY <1>2, <3>1
    <3>3. QED
      BY <2>1, <3>1, <3>2, FieldsOfX86
  <2>2. CASE arch = "x86_64"
    <3>1. RESTORE_CPU = <<"ax", "bx", "cx", "dx", "si", "di", "bp",
                          "r8", "r9", "r10", "r11", "r12", "r13", "r14", "r15">>
      BY <2>2 DEF RESTORE_CPU
    <3>2. k \in 1 .. 15
      BY <1>2, <3>1
    <3>3. QED
      BY <2>2, <3>1, <3>2, FieldsOfX86_64
  <2>3. QED
    BY <2>1, <2>2
<1> HIDE DEF field
<1>5. QED
  BY <1>2, <1>3, <1>4 DEF Range

LEMMA TheFieldsAreThere ==
    ASSUME arch \in {"x86", "x86_64"}
    PROVE  /\ Visible \cup {"cs", "ss"} \subseteq Range(cpu_state)
           /\ Visible \subseteq GeneralNames \cup {"ip", "flags", "sp"}
           /\ arch = "x86" => "kernel_mode" \in Range(cpu_state)
<1>1. {"ip", "cs", "flags", "sp", "ss"} \subseteq Range(cpu_state)
  BY FieldsOfX86, FieldsOfX86_64 DEF Range
<1>2. arch = "x86" => "kernel_mode" \in Range(cpu_state)
  BY FieldsOfX86 DEF Range
<1>3. Range(General) \subseteq Range(cpu_state)
  BY PoppedIsTheField
<1>4. QED
  BY <1>1, <1>2, <1>3, GeneralAreGeneral DEF Visible

(* Both ways out put a cpu_state into the registers. *)
LEMMA IretRestores ==
    ASSUME StubsTypeOK, NEW cpu
    PROVE  /\ DOMAIN Iret(cpu) = Registers
           /\ Of(Iret(cpu)) = Of(cpu)
           /\ Iret(cpu)["cs"] = cpu["cs"] /\ Iret(cpu)["ss"] = cpu["ss"]
           /\ (arch = "x86" => cpu["kernel_mode"][3] # 1)
                 => gdtable[Iret(cpu)["ds"][3]] = "user data"
<1>1. arch \in {"x86", "x86_64"} /\ DOMAIN regs = Registers
  BY DEF StubsTypeOK
<1>2. ASSUME NEW name \in Visible PROVE name \in Registers /\ Iret(cpu)[name] = cpu[name]
  <2>1. name \in Registers /\ name # "ds"
    BY <1>1, TheFieldsAreThere DEF Registers, Visible, GeneralNames
  <2>2. CASE name \in {"ip", "flags", "sp"}
    BY <1>1, <2>1, <2>2 DEF Iret
  <2>3. CASE name \in Range(General)
    <3>1. name \notin {"ip", "cs", "flags", "sp", "ss"}
      BY <1>1, <2>3, GeneralAreGeneral DEF GeneralNames
    <3>2. Iret(cpu)[name] = Popped(cpu, name)
      BY <1>1, <2>1, <3>1 DEF Iret
    <3>3. QED
      BY <1>1, <2>1, <2>3, <3>2, PoppedIsTheField
  <2>4. QED
    BY <2>2, <2>3 DEF Visible
<1>3. {"cs", "ss", "ds"} \subseteq Registers
  BY DEF Registers
<1>4. Iret(cpu)["cs"] = cpu["cs"] /\ Iret(cpu)["ss"] = cpu["ss"] /\ DOMAIN Iret(cpu) = Registers
  BY <1>1, <1>3 DEF Iret
<1>5. Of(Iret(cpu)) = Of(cpu)
  BY <1>2 DEF Of
<1>6. ASSUME arch = "x86" => cpu["kernel_mode"][3] # 1
      PROVE  gdtable[Iret(cpu)["ds"][3]] = "user data"
  <2>1. Iret(cpu)["ds"] = <<"ds", 0, USER_DATA_SEG_N>>
    BY <1>1, <1>3, <1>6 DEF Iret
  <2>2. QED
    BY <2>1 DEF gdtable, USER_DATA_SEG_N
<1>7. QED
  BY <1>4, <1>5, <1>6

(* sysretq leaves nothing of cx and r11: what it takes from them are the   *)
(* saved ip and the saved r11, and the segments are a user's.              *)
LEMMA SysretRestores ==
    ASSUME StubsTypeOK, arch = "x86_64", NEW cpu
    PROVE  /\ DOMAIN Sysret(cpu) = Registers
           /\ Sysret(cpu)["ip"] = cpu["ip"] /\ Sysret(cpu)["cx"] = cpu["ip"]
           /\ Sysret(cpu)["flags"] = cpu["r11"]
           /\ \A name \in Visible \ {"ip", "cx", "flags"} : Sysret(cpu)[name] = cpu[name]
           /\ gdtable[Sysret(cpu)["cs"][3]] = "user code"
           /\ gdtable[Sysret(cpu)["ss"][3]] = "user data"
           /\ gdtable[Sysret(cpu)["ds"][3]] = "user data"
<1>1. arch \in {"x86", "x86_64"} /\ DOMAIN regs = Registers
  BY DEF StubsTypeOK
<1>2. ASSUME NEW name \in Visible \ {"ip", "cx", "flags"} PROVE Sysret(cpu)[name] = cpu[name]
  <2>1. name \in Registers /\ name \notin {"ds", "cs", "ss"}
    BY <1>1, TheFieldsAreThere DEF Registers, Visible, GeneralNames
  <2>2. CASE name = "sp"
    BY <1>1, <2>1, <2>2 DEF Sysret
  <2>3. CASE name \in Range(General)
    <3>1. name \notin {"ip", "cs", "flags", "sp", "ss"}
      BY <1>1, <2>3, GeneralAreGeneral DEF GeneralNames
    <3>2. Sysret(cpu)[name] = Popped(cpu, name)
      BY <1>1, <1>2, <2>1, <3>1 DEF Sysret
    <3>3. QED
      BY <1>1, <2>3, <3>2, PoppedIsTheField
  <2>4. QED
    BY <1>2, <2>2, <2>3 DEF Visible
<1>3. {"cs", "ss", "ds", "ip", "cx", "flags"} \subseteq Registers
  BY <1>1, GeneralAreGeneral DEF Registers
<1>4. /\ Sysret(cpu)["cs"] = <<"cs", 0, SysretCode>> /\ Sysret(cpu)["ss"] = <<"ss", 0, SysretStack>>
      /\ Sysret(cpu)["ds"] = <<"ds", 0, USER_DATA_SEG_N>> /\ DOMAIN Sysret(cpu) = Registers
      /\ Sysret(cpu)["ip"] = cpu["ip"] /\ Sysret(cpu)["cx"] = cpu["ip"]
  BY <1>1, <1>3 DEF Sysret
<1>5. Sysret(cpu)["flags"] = cpu["r11"]
  <2>1. Sysret(cpu)["flags"] = Popped(cpu, "r11")
    BY <1>1, <1>3 DEF Sysret
  <2>2. QED
    BY <1>1, <2>1, GeneralAreGeneral, PoppedIsTheField
<1>6. QED
  BY <1>2, <1>4, <1>5 DEF gdtable, SysretCode, SysretStack, USER_CODE_SEG32_N, USER_DATA_SEG_N

(* A cpu_state saved while a thread ran holds the thread's registers.      *)
LEMMA SavedGoesOn ==
    ASSUME StubsInv, cur # Nobody, NEW vector
    PROVE  /\ Of(Saved(vector)) = Of(regs)
           /\ gdtable[Saved(vector)["cs"][3]] = "user code"
           /\ gdtable[Saved(vector)["ss"][3]] = "user data"
           /\ arch = "x86" => Saved(vector)["kernel_mode"][3] # 1
<1>1. arch \in {"x86", "x86_64"}
  BY DEF StubsInv, StubsTypeOK
<1>2. \A name \in Visible \cup {"cs", "ss"} : Saved(vector)[name] = Pushed(vector, name)
  BY <1>1, SavedIsPushed, TheFieldsAreThere
<1>3. \A name \in Visible \cup {"cs", "ss"} : Pushed(vector, name) = regs[name]
  BY <1>1, TheFieldsAreThere DEF Pushed, GeneralNames
<1>4. Of(Saved(vector)) = Of(regs)
  BY <1>2, <1>3 DEF Of
<1>5. arch = "x86" => Saved(vector)["kernel_mode"][3] # 1
  <2>1. arch = "x86" => Saved(vector)["kernel_mode"] = Pushed(vector, "kernel_mode")
    BY <1>1, SavedIsPushed, TheFieldsAreThere
  <2>2. Pushed(vector, "kernel_mode") = <<"kernel_mode", 0, 0>>
    BY DEF Pushed
  <2>3. QED
    BY <2>1, <2>2
<1>6. Saved(vector)["cs"] = regs["cs"] /\ Saved(vector)["ss"] = regs["ss"]
  BY <1>2, <1>3
<1>7. QED
  BY <1>4, <1>5, <1>6 DEF StubsInv, ThreadsFindTheirRegisters

(* idle_thread runs in the kernel, a new thread as a user. *)
LEMMA IdleIsInTheKernel ==
    ASSUME arch \in {"x86", "x86_64"}
    PROVE  gdtable[idle_state["cs"][3]] = "kernel code"
<1>1. idle_state["cs"] = <<"cs", 0, KERNEL_CODE_SEG_N>>
  BY TheFieldsAreThere DEF idle_state
<1>2. QED
  BY <1>1 DEF gdtable, KERNEL_CODE_SEG_N

LEMMA NewGoesOn ==
    ASSUME arch \in {"x86", "x86_64"}, NEW t
    PROVE  /\ gdtable[INIT_STATE(t)["cs"][3]] = "user code"
           /\ gdtable[INIT_STATE(t)["ss"][3]] = "user data"
           /\ arch = "x86" => INIT_STATE(t)["kernel_mode"][3] # 1
<1>1. /\ INIT_STATE(t)["cs"] = <<"cs", 0, USER_CODE_SEG32_N>>
      /\ INIT_STATE(t)["ss"] = <<"ss", 0, USER_DATA_SEG_N>>
  BY TheFieldsAreThere DEF INIT_STATE
<1>2. arch = "x86" => INIT_STATE(t)["kernel_mode"] = <<"kernel_mode", 0, 0>>
  BY TheFieldsAreThere DEF INIT_STATE
<1>3. QED
  BY <1>1, <1>2 DEF gdtable, USER_CODE_SEG32_N, USER_DATA_SEG_N

-----------------------------------------------------------------------------
(* The invariant holds at the start. *)
LEMMA StubsInitHolds == StubsInit => StubsInv
<1> SUFFICES ASSUME StubsInit PROVE StubsInv
  OBVIOUS
<1>1. arch \in {"x86", "x86_64"} /\ cur = Nobody /\ active = Thread /\ gone = {}
      /\ shown = Nothing /\ err_ocurred = FALSE
  BY DEF StubsInit
<1>2. StubsTypeOK
  BY <1>1 DEF StubsInit, StubsTypeOK, Registers
<1>3. gdtable[regs["cs"][3]] = "kernel code"
  <2>1. regs["cs"] = idle_state["cs"]
    BY DEF StubsInit
  <2>2. QED
    BY <1>1, <2>1, IdleIsInTheKernel
<1>4. ThreadsFindTheirRegisters
  BY <1>1, <1>3 DEF ThreadsFindTheirRegisters
<1>5. \A t \in Thread : GoesOn(state[t], t)
  BY <1>1, NewGoesOn DEF StubsInit, GoesOn
<1>6. QED
  BY <1>1, <1>2, <1>4, <1>5 DEF StubsInv

-----------------------------------------------------------------------------
(* What a thread and its cpu_state look like does not change with the      *)
(* state: the names depend on the architecture alone.                      *)
LEMMA NamesStay ==
    ASSUME arch' = arch
    PROVE  General' = General /\ Visible' = Visible /\ Registers' = Registers
<1>1. General' = General
  BY DEF General
<1>2. QED
  BY <1>1 DEF Visible, Registers

(* The programs go on from the cpu_states in saved. *)
AllGoOn(saved, who, programs) ==
    \A t \in who :
        /\ Of(saved[t]) = programs[t]
        /\ gdtable[saved[t]["cs"][3]] = "user code" /\ gdtable[saved[t]["ss"][3]] = "user data"
        /\ arch = "x86" => saved[t]["kernel_mode"][3] # 1

(* dispatch_thread: whoever is answered with goes on, and the others could. *)
LEMMA DispatchGoesOn ==
    ASSUME StubsTypeOK, arch' = arch, NEW saved,
           active' \subseteq Thread \ gone', gone' \subseteq Thread,
           DOMAIN saved = Thread, DOMAIN program' = Thread,
           err_ocurred' \in BOOLEAN, shown' = Nothing,
           AllGoOn(saved, Thread \ gone', program'),
           state' = saved,
           IF active' = {} THEN cur' = Nobody /\ regs' = Iret(idle_state)
           ELSE \E t \in active' : cur' = t /\ regs' = Iret(saved[t])
    PROVE  StubsInv'
<1>1. arch \in {"x86", "x86_64"} /\ General' = General /\ Visible' = Visible /\ Registers' = Registers
  BY NamesStay DEF StubsTypeOK
<1>2. \A t \in Thread \ gone' : GoesOn(state[t], t)'
  BY <1>1 DEF AllGoOn, GoesOn, Of, gdtable
<1>3. CASE active' = {}
  <2>1. cur' = Nobody /\ regs' = Iret(idle_state)
    BY <1>3
  <2>2. DOMAIN regs' = Registers /\ regs'["cs"] = idle_state["cs"]
    BY <2>1, IretRestores
  <2>3. gdtable[regs'["cs"][3]] = "kernel code"
    BY <1>1, <2>2, IdleIsInTheKernel
  <2>4. ThreadsFindTheirRegisters'
    BY <2>1, <2>3 DEF ThreadsFindTheirRegisters, gdtable
  <2>5. StubsTypeOK'
    BY <1>1, <2>1, <2>2 DEF StubsTypeOK
  <2>6. QED
    BY <1>2, <2>4, <2>5 DEF StubsInv
<1>4. CASE active' # {}
  <2>1. PICK t \in active' : cur' = t /\ regs' = Iret(saved[t])
    BY <1>4
  <2>2. t \in Thread \ gone'
    BY <2>1
  <2>3. /\ Of(saved[t]) = program'[t]
        /\ gdtable[saved[t]["cs"][3]] = "user code" /\ gdtable[saved[t]["ss"][3]] = "user data"
        /\ arch = "x86" => saved[t]["kernel_mode"][3] # 1
    BY <2>2 DEF AllGoOn
  <2>4. /\ DOMAIN regs' = Registers /\ Of(regs') = program'[t]
        /\ gdtable[regs'["cs"][3]] = "user code"
        /\ gdtable[regs'["ss"][3]] = "user data" /\ gdtable[regs'["ds"][3]] = "user data"
    BY <2>1, <2>3, IretRestores
  <2>5. Of(regs)' = Of(regs')
    BY <1>1 DEF Of
  <2>6. cur' # Nobody
    BY <2>1, <2>2, ThreadAssumption
  <2>7. ThreadsFindTheirRegisters'
    BY <2>1, <2>4, <2>5, <2>6 DEF ThreadsFindTheirRegisters, gdtable
  <2>8. StubsTypeOK'
    BY <1>1, <2>1, <2>4 DEF StubsTypeOK
  <2>9. QED
    BY <1>2, <2>7, <2>8 DEF StubsInv
<1>5. QED
  BY <1>3, <1>4

(* The thread that ran runs on, and the others are left as they were. *)
LEMMA SameGoesOn ==
    ASSUME StubsInv, arch' = arch, cur # Nobody, cur' = cur,
           DOMAIN regs' = Registers, Of(regs') = program'[cur],
           gdtable[regs'["cs"][3]] = "user code",
           gdtable[regs'["ss"][3]] = "user data", gdtable[regs'["ds"][3]] = "user data",
           gone' = gone, active \subseteq active', active' \subseteq Thread \ gone,
           err_ocurred' = err_ocurred, shown = Nothing, shown' = Nothing,
           DOMAIN state' = Thread, DOMAIN program' = Thread,
           \A t \in Thread \ {cur} : state'[t] = state[t] /\ program'[t] = program[t]
    PROVE  StubsInv'
<1>1. General' = General /\ Visible' = Visible /\ Registers' = Registers
  BY NamesStay
<1>2. StubsTypeOK'
  BY <1>1 DEF StubsInv, StubsTypeOK
<1>3. Of(regs)' = Of(regs')
  BY <1>1 DEF Of
<1>4. ThreadsFindTheirRegisters'
  BY <1>3 DEF ThreadsFindTheirRegisters, gdtable
<1>5. ASSUME NEW t \in Thread \ gone, t # cur PROVE GoesOn(state[t], t)'
  <2>1. GoesOn(state[t], t) /\ state'[t] = state[t] /\ program'[t] = program[t]
    BY <1>5 DEF StubsInv
  <2>2. QED
    BY <1>1, <2>1 DEF GoesOn, Of, gdtable
<1>6. QED
  BY <1>2, <1>4, <1>5 DEF StubsInv

LEMMA ComputeKeeps ==
    ASSUME StubsInv, NEW t \in Thread, Compute(t)
    PROVE  StubsInv'
<1>1. /\ cur = t /\ cur # Nobody /\ err_ocurred = FALSE /\ shown = Nothing
      /\ arch \in {"x86", "x86_64"} /\ DOMAIN regs = Registers /\ DOMAIN program = Thread
      /\ DOMAIN state = Thread
  BY ThreadAssumption DEF Compute, Running, StubsInv, StubsTypeOK
<1>2. /\ arch' = arch /\ cur' = cur /\ gone' = gone /\ active' = active /\ state' = state
      /\ err_ocurred' = err_ocurred /\ shown' = shown
  BY DEF Compute, kernel
<1>3. General' = General /\ Visible' = Visible /\ Registers' = Registers
  BY <1>2, NamesStay
<1>4. /\ DOMAIN regs' = Registers
      /\ \A name \in {"cs", "ss", "ds"} : regs'[name] = regs[name]
  BY <1>1 DEF Compute, Registers
<1>5. program' = [program EXCEPT ![t] = Of(regs')]
  BY <1>3 DEF Compute, Of
<1>6. DOMAIN program' = Thread /\ program'[cur] = Of(regs')
  BY <1>1, <1>5
<1>7. \A s \in Thread \ {cur} : state'[s] = state[s] /\ program'[s] = program[s]
  BY <1>1, <1>2, <1>5
<1>8. /\ gdtable[regs'["cs"][3]] = "user code"
      /\ gdtable[regs'["ss"][3]] = "user data" /\ gdtable[regs'["ds"][3]] = "user data"
  BY <1>1, <1>4 DEF StubsInv, ThreadsFindTheirRegisters
<1>9. active \subseteq active' /\ active' \subseteq Thread \ gone
  BY <1>2 DEF StubsInv, StubsTypeOK
<1>10. QED
  BY <1>1, <1>2, <1>4, <1>6, <1>7, <1>8, <1>9, SameGoesOn

(* The scheduler, called from the flush vector, keeps what it was given.   *)
LEMMA handle_irqKeeps ==
    ASSUME StubsInv, NEW vector \in IrqVectors, handle_irq(vector)
    PROVE  StubsInv'
<1>1. /\ arch \in {"x86", "x86_64"} /\ DOMAIN regs = Registers /\ DOMAIN program = Thread
      /\ DOMAIN state = Thread /\ err_ocurred = FALSE /\ shown = Nothing /\ StubsTypeOK
      /\ active \subseteq Thread \ gone /\ gone \subseteq Thread /\ cur \in active \cup {Nobody}
  BY DEF handle_irq, StubsInv, StubsTypeOK
<1>2. /\ arch' = arch /\ gone' = gone /\ active' = active /\ program' = program
      /\ err_ocurred' = err_ocurred /\ shown' = shown
  BY DEF handle_irq
<1>3. CASE vector = FlushVector
  <2> DEFINE saved == IF cur = Nobody THEN state ELSE [state EXCEPT ![cur] = Saved(vector)]
  <2>1. /\ state' = saved
        /\ IF active = {} THEN cur' = Nobody /\ regs' = Iret(idle_state)
           ELSE \E t \in active : cur' = t /\ regs' = Iret(saved[t])
    BY <1>3 DEF handle_irq, dispatched
  <2>2. DOMAIN saved = Thread
    BY <1>1
  <2>3. AllGoOn(saved, Thread \ gone, program)
    <3> SUFFICES ASSUME NEW t \in Thread \ gone
                 PROVE  /\ Of(saved[t]) = program[t]
                        /\ gdtable[saved[t]["cs"][3]] = "user code"
                        /\ gdtable[saved[t]["ss"][3]] = "user data"
                        /\ arch = "x86" => saved[t]["kernel_mode"][3] # 1
      BY DEF AllGoOn
    <3>1. CASE t = cur
      <4>1. cur # Nobody /\ saved[t] = Saved(vector)
        BY <1>1, <3>1, ThreadAssumption
      <4>2. Of(Saved(vector)) = program[t]
        BY <3>1, <4>1, SavedGoesOn DEF StubsInv, ThreadsFindTheirRegisters
      <4>3. QED
        BY <4>1, <4>2, SavedGoesOn
    <3>2. CASE t # cur
      <4>1. saved[t] = state[t]
        BY <1>1, <3>2
      <4>2. GoesOn(state[t], t)
        BY <3>2 DEF StubsInv
      <4> HIDE DEF saved
      <4>3. QED
        BY <4>1, <4>2 DEF GoesOn
    <3>3. QED
      BY <3>1, <3>2
  <2> HIDE DEF saved
  <2>4. QED
    BY <1>1, <1>2, <2>1, <2>2, <2>3, DispatchGoesOn
<1>4. CASE vector # FlushVector
  <2>1. regs' = Iret(Saved(vector)) /\ state' = state /\ cur' = cur
    BY <1>4 DEF handle_irq
  <2>2. DOMAIN regs' = Registers
    BY <1>1, <2>1, IretRestores
  <2>3. CASE cur # Nobody
    <3>1. /\ Of(regs') = program'[cur]
          /\ gdtable[regs'["cs"][3]] = "user code"
          /\ gdtable[regs'["ss"][3]] = "user data" /\ gdtable[regs'["ds"][3]] = "user data"
      <4>1. Of(regs') = Of(Saved(vector)) /\ gdtable[regs'["ds"][3]] = "user data"
        BY <1>1, <2>1, <2>3, IretRestores, SavedGoesOn
      <4>2. regs'["cs"] = Saved(vector)["cs"] /\ regs'["ss"] = Saved(vector)["ss"]
        BY <1>1, <2>1, IretRestores
      <4>3. Of(Saved(vector)) = program'[cur]
        BY <1>2, <2>3, SavedGoesOn DEF StubsInv, ThreadsFindTheirRegisters
      <4>4. QED
        BY <2>3, <4>1, <4>2, <4>3, SavedGoesOn
    <3>2. QED
      BY <1>1, <1>2, <2>1, <2>2, <2>3, <3>1, SameGoesOn
  <2>4. CASE cur = Nobody
    <3>1. regs'["cs"] = regs["cs"]
      BY <1>1, <2>1, IretRestores, SavedCodeSegment
    <3>2. ThreadsFindTheirRegisters'
      BY <1>1, <1>2, <2>1, <2>4, <3>1 DEF StubsInv, ThreadsFindTheirRegisters, gdtable
    <3>3. General' = General /\ Visible' = Visible /\ Registers' = Registers
      BY <1>2, NamesStay
    <3>4. StubsTypeOK'
      BY <1>1, <1>2, <2>1, <2>2, <3>3 DEF StubsTypeOK
    <3>5. ASSUME NEW t \in Thread \ gone, t # cur PROVE GoesOn(state[t], t)'
      <4>1. GoesOn(state[t], t)
        BY <3>5 DEF StubsInv
      <4>2. QED
        BY <1>2, <2>1, <3>3, <4>1 DEF GoesOn, Of, gdtable
    <3>6. QED
      BY <1>1, <1>2, <2>1, <3>2, <3>4, <3>5 DEF StubsInv
  <2>5. QED
    BY <2>3, <2>4
<1>5. QED
  BY <1>3, <1>4

(* The registers an error shows are those of the program that made it.     *)
LEMMA handle_exceptionKeeps ==
    ASSUME StubsInv, NEW vector \in Raised, handle_exception(vector)
    PROVE  StubsInv'
<1>1. /\ cur # Nobody /\ err_ocurred' = TRUE /\ shown' = Saved(vector)
      /\ arch' = arch /\ cur' = cur /\ regs' = regs /\ state' = state /\ active' = active
      /\ gone' = gone /\ program' = program
  BY DEF handle_exception
<1>2. General' = General /\ Visible' = Visible /\ Registers' = Registers
  BY <1>1, NamesStay
<1>3. StubsTypeOK'
  BY <1>1, <1>2 DEF StubsInv, StubsTypeOK
<1>4. Of(shown)' = Of(Saved(vector)) /\ Of(regs)' = Of(regs) /\ Of(Saved(vector)) = Of(regs)
  BY <1>1, <1>2, SavedGoesOn DEF Of
<1>5. ThreadsFindTheirRegisters'
  BY <1>1, <1>4 DEF StubsInv, ThreadsFindTheirRegisters, gdtable
<1>6. ASSUME NEW t \in Thread \ gone, t # cur PROVE GoesOn(state[t], t)'
  BY <1>1, <1>2, <1>6 DEF StubsInv, GoesOn, Of, gdtable
<1>7. QED
  BY <1>1, <1>3, <1>5, <1>6 DEF StubsInv

(* The results of a call touch none of the fields the way out depends on.  *)
LEMMA AnsweredIsKept ==
    ASSUME StubsInv, cur # Nobody, NEW sys, NEW cpu, NEW t,
           DOMAIN cpu = Range(cpu_state)
    PROVE  /\ \A name \in {"cs", "ss", "ip", "cx", "flags", "sp", "kernel_mode", "r11"} \cap Range(cpu_state) :
                Answered(cpu, sys, t)[name] = cpu[name]
           /\ \A name \in Visible : Answered(cpu, sys, t)[name] =
                IF name \in Results(sys) THEN <<name, t, 9>> ELSE cpu[name]
<1>1. arch \in {"x86", "x86_64"} /\ Visible \subseteq Range(cpu_state)
  BY TheFieldsAreThere DEF StubsInv, StubsTypeOK
<1>2. Results(sys) \subseteq {"dx", "bx"}
  BY DEF Results
<1>3. \A name \in Range(cpu_state) : Answered(cpu, sys, t)[name] =
        IF name \in Results(sys) THEN <<name, t, 9>> ELSE cpu[name]
  BY DEF Answered
<1>4. QED
  BY <1>1, <1>2, <1>3

(* A call that returns: the results, and nothing else the program expects. *)
LEMMA ReturnKeeps ==
    ASSUME StubsInv, NEW t \in Thread, NEW sys \in Calls, Return(t, sys)
    PROVE  StubsInv'
<1> DEFINE cpu == Answered(Entered(sys), sys, t)
<1>1. /\ cur = t /\ cur # Nobody /\ err_ocurred = FALSE /\ shown = Nothing
      /\ arch \in {"x86", "x86_64"} /\ StubsTypeOK /\ DOMAIN program = Thread
      /\ DOMAIN state = Thread /\ active \subseteq Thread \ gone
  BY ThreadAssumption DEF Return, Running, StubsInv, StubsTypeOK
<1>2. /\ arch' = arch /\ cur' = cur /\ gone' = gone
      /\ err_ocurred' = err_ocurred /\ shown' = shown
  BY DEF Return
<1>3. active \subseteq active' /\ active' \subseteq Thread \ gone
  BY <1>1 DEF Return
<1>4. /\ DOMAIN state' = Thread /\ DOMAIN program' = Thread
      /\ program'[cur] = Expected(sys, t, TRUE)
      /\ \A s \in Thread \ {cur} : state'[s] = state[s] /\ program'[s] = program[s]
  BY <1>1 DEF Return
<1>5. regs' = IF ByInterrupt(sys) THEN Iret(cpu) ELSE Sysret(cpu)
  BY DEF Return
<1>6. Visible \subseteq Range(cpu_state) /\ {"cs", "ss"} \subseteq Range(cpu_state)
      /\ (arch = "x86" => "kernel_mode" \in Range(cpu_state))
      /\ {"ip", "flags", "sp", "cx"} \subseteq Visible
  BY <1>1, TheFieldsAreThere, GeneralAreGeneral DEF Visible
<1>7. Of(regs) = program[cur] /\ Of(regs) = [name \in Visible |-> regs[name]]
  BY <1>1 DEF StubsInv, ThreadsFindTheirRegisters, Of
<1>8. CASE ByInterrupt(sys)
  <2>1. Entered(sys) = Saved(48) /\ DOMAIN Saved(48) = Range(cpu_state)
    BY <1>8 DEF Entered, Saved
  <2>2. Of(Saved(48)) = Of(regs) /\ Of(Saved(48)) = [name \in Visible |-> Saved(48)[name]]
    BY <1>1, SavedGoesOn DEF Of
  <2>3. \A name \in Visible : Saved(48)[name] = regs[name]
    BY <1>7, <2>2
  <2>4. Expected(sys, t, TRUE) = [name \in Visible |->
          IF name \in Results(sys) THEN <<name, t, 9>> ELSE regs[name]]
    BY <1>8 DEF Expected, ByInterrupt
  <2>5. Of(cpu) = Expected(sys, t, TRUE)
    <3>1. \A name \in Visible : cpu[name] =
            IF name \in Results(sys) THEN <<name, t, 9>> ELSE Saved(48)[name]
      BY <1>1, <2>1, AnsweredIsKept
    <3> HIDE DEF cpu
    <3>2. QED
      BY <2>3, <2>4, <3>1 DEF Of
  <2>6. /\ cpu["cs"] = Saved(48)["cs"] /\ cpu["ss"] = Saved(48)["ss"]
        /\ arch = "x86" => cpu["kernel_mode"] = Saved(48)["kernel_mode"]
    BY <1>1, <1>6, <2>1, AnsweredIsKept
  <2> HIDE DEF cpu
  <2>7. /\ gdtable[cpu["cs"][3]] = "user code" /\ gdtable[cpu["ss"][3]] = "user data"
        /\ arch = "x86" => cpu["kernel_mode"][3] # 1
    BY <1>1, <2>6, SavedGoesOn
  <2>8. /\ DOMAIN regs' = Registers /\ Of(regs') = program'[cur]
        /\ gdtable[regs'["cs"][3]] = "user code"
        /\ gdtable[regs'["ss"][3]] = "user data" /\ gdtable[regs'["ds"][3]] = "user data"
    BY <1>1, <1>4, <1>5, <1>8, <2>5, <2>7, IretRestores
  <2>9. QED
    BY <1>1, <1>2, <1>3, <1>4, <2>8, SameGoesOn
<1>9. CASE ~ ByInterrupt(sys)
  <2>1. arch = "x86_64" /\ Entered(sys) = SavedBySyscall
    BY <1>1, <1>9 DEF ByInterrupt, Entered
  <2>2. "r11" \in Visible /\ DOMAIN SavedBySyscall = Range(cpu_state)
    BY <1>1, <2>1, GeneralAreGeneral DEF Visible, SavedBySyscall
  <2>3. /\ SavedBySyscall["ip"] = regs["ip"] /\ SavedBySyscall["r11"] = regs["flags"]
        /\ \A name \in Visible \ {"flags", "cx", "ip", "r11"} : SavedBySyscall[name] = regs[name]
    BY <1>1, <1>6, <2>2, TheFieldsAreThere DEF SavedBySyscall, GeneralNames
  <2>4. /\ cpu["ip"] = regs["ip"] /\ cpu["r11"] = regs["flags"]
        /\ \A name \in Visible \ {"flags", "cx", "ip", "r11"} :
             cpu[name] = IF name \in Results(sys) THEN <<name, t, 9>> ELSE regs[name]
    BY <1>1, <1>6, <2>1, <2>2, <2>3, AnsweredIsKept
  <2> HIDE DEF cpu
  <2>5. Results(sys) \subseteq {"dx", "bx"}
    BY DEF Results
  <2>6. Expected(sys, t, TRUE) = [name \in Visible |->
          IF name = "cx" THEN regs["ip"] ELSE IF name = "r11" THEN regs["flags"]
          ELSE IF name \in Results(sys) THEN <<name, t, 9>> ELSE regs[name]]
    BY <1>9, <2>5 DEF Expected, ByInterrupt
  <2>7. /\ \A name \in {"ip", "cx"} : Sysret(cpu)[name] = regs["ip"]
        /\ \A name \in {"flags", "r11"} : Sysret(cpu)[name] = regs["flags"]
        /\ \A name \in Visible \ {"flags", "cx", "ip", "r11"} : Sysret(cpu)[name] =
             IF name \in Results(sys) THEN <<name, t, 9>> ELSE regs[name]
    <3>1. /\ Sysret(cpu)["ip"] = cpu["ip"] /\ Sysret(cpu)["cx"] = cpu["ip"]
          /\ Sysret(cpu)["flags"] = cpu["r11"]
          /\ \A name \in Visible \ {"ip", "cx", "flags"} : Sysret(cpu)[name] = cpu[name]
      BY <1>1, <2>1, SysretRestores
    <3>2. QED
      BY <2>2, <2>4, <3>1
  <2>8. \A name \in Visible : Sysret(cpu)[name] = Expected(sys, t, TRUE)[name]
    BY <2>5, <2>6, <2>7
  <2>9. Of(regs') = program'[cur]
    BY <1>4, <1>5, <1>9, <2>6, <2>8 DEF Of
  <2>10. /\ DOMAIN regs' = Registers
         /\ gdtable[regs'["cs"][3]] = "user code"
         /\ gdtable[regs'["ss"][3]] = "user data" /\ gdtable[regs'["ds"][3]] = "user data"
    BY <1>1, <1>5, <1>9, <2>1, SysretRestores
  <2>11. QED
    BY <1>1, <1>2, <1>3, <1>4, <2>9, <2>10, SameGoesOn
<1>10. QED
  BY <1>8, <1>9

(* A thread that blocks has its registers in its cpu_state before it is put *)
(* down: it came in by the interrupt, which restores everything.            *)
LEMMA BlockKeeps ==
    ASSUME StubsInv, NEW t \in Thread, NEW sys \in Calls, Block(t, sys)
    PROVE  StubsInv'
<1> DEFINE kept == [state EXCEPT ![t] = Saved(48)]
<1>1. /\ cur = t /\ cur # Nobody /\ err_ocurred = FALSE /\ shown = Nothing
      /\ arch \in {"x86", "x86_64"} /\ StubsTypeOK /\ DOMAIN program = Thread
      /\ DOMAIN state = Thread /\ active \subseteq Thread \ gone /\ gone \subseteq Thread
  BY ThreadAssumption DEF Block, Running, StubsInv, StubsTypeOK
<1>2. /\ arch' = arch /\ gone' = gone /\ active' = active \ {t}
      /\ err_ocurred' = err_ocurred /\ shown' = shown
  BY DEF Block
<1>3. ByInterrupt(sys)
  BY DEF Block, ByInterrupt
<1>4. /\ state' = kept
      /\ IF active' = {} THEN cur' = Nobody /\ regs' = Iret(idle_state)
         ELSE \E s \in active' : cur' = s /\ regs' = Iret(kept[s])
  BY <1>3 DEF Block, dispatched, Entered
<1>5. /\ program' = [program EXCEPT ![t] = Expected(sys, t, FALSE)]
      /\ Expected(sys, t, FALSE) = [name \in Visible |-> regs[name]]
  BY <1>3 DEF Block, Expected
<1>6. DOMAIN kept = Thread /\ DOMAIN program' = Thread
  BY <1>1, <1>5
<1>7. AllGoOn(kept, Thread \ gone, program')
  <2> SUFFICES ASSUME NEW s \in Thread \ gone
               PROVE  /\ Of(kept[s]) = program'[s]
                      /\ gdtable[kept[s]["cs"][3]] = "user code"
                      /\ gdtable[kept[s]["ss"][3]] = "user data"
                      /\ arch = "x86" => kept[s]["kernel_mode"][3] # 1
    BY DEF AllGoOn
  <2>1. CASE s = t
    <3>1. kept[s] = Saved(48) /\ program'[s] = Of(regs)
      BY <1>1, <1>5, <2>1 DEF Of
    <3> HIDE DEF kept
    <3>2. QED
      BY <1>1, <3>1, SavedGoesOn
  <2>2. CASE s # t
    <3>1. kept[s] = state[s] /\ program'[s] = program[s] /\ GoesOn(state[s], s)
      BY <1>1, <1>5, <2>2 DEF StubsInv
    <3> HIDE DEF kept
    <3>2. QED
      BY <3>1 DEF GoesOn
  <2>3. QED
    BY <2>1, <2>2
<1> HIDE DEF kept
<1>8. QED
  BY <1>1, <1>2, <1>4, <1>6, <1>7, DispatchGoesOn

LEMMA ExitKeeps ==
    ASSUME StubsInv, NEW t \in Thread, Exit(t)
    PROVE  StubsInv'
<1> DEFINE kept == [state EXCEPT ![t] = Nothing]
<1>1. /\ cur = t /\ err_ocurred = FALSE /\ shown = Nothing
      /\ arch \in {"x86", "x86_64"} /\ StubsTypeOK /\ DOMAIN program = Thread
      /\ DOMAIN state = Thread /\ active \subseteq Thread \ gone /\ gone \subseteq Thread
  BY DEF Exit, Running, StubsInv, StubsTypeOK
<1>2. /\ arch' = arch /\ gone' = gone \cup {t} /\ active' = active \ {t}
      /\ err_ocurred' = err_ocurred /\ shown' = shown
      /\ program' = [program EXCEPT ![t] = Nothing]
  BY DEF Exit
<1>3. /\ state' = kept
      /\ IF active' = {} THEN cur' = Nobody /\ regs' = Iret(idle_state)
         ELSE \E s \in active' : cur' = s /\ regs' = Iret(kept[s])
  BY DEF Exit, dispatched, ByInterrupt
<1>4. DOMAIN kept = Thread /\ DOMAIN program' = Thread
  BY <1>1, <1>2
<1>5. \A s \in Thread \ gone' :
        kept[s] = state[s] /\ program'[s] = program[s] /\ GoesOn(state[s], s)
  BY <1>1, <1>2 DEF StubsInv
<1> HIDE DEF kept
<1>6. AllGoOn(kept, Thread \ gone', program')
  <2> SUFFICES ASSUME NEW s \in Thread \ gone'
               PROVE  /\ Of(kept[s]) = program'[s]
                      /\ gdtable[kept[s]["cs"][3]] = "user code"
                      /\ gdtable[kept[s]["ss"][3]] = "user data"
                      /\ arch = "x86" => kept[s]["kernel_mode"][3] # 1
    BY DEF AllGoOn
  <2>1. kept[s] = state[s] /\ program'[s] = program[s] /\ GoesOn(state[s], s)
    BY <1>5
  <2>2. QED
    BY <2>1 DEF GoesOn
<1>7. QED
  BY <1>1, <1>2, <1>3, <1>4, <1>6, DispatchGoesOn

LEMMA WokenFromOutsideKeeps ==
    ASSUME StubsInv, NEW t \in Thread, WokenFromOutside(t)
    PROVE  StubsInv'
<1>1. /\ arch' = arch /\ gone' = gone /\ active' = active \cup {t} /\ cur' = cur
      /\ regs' = regs /\ state' = state /\ program' = program
      /\ err_ocurred' = err_ocurred /\ shown' = shown /\ t \notin gone
  BY DEF WokenFromOutside
<1>2. General' = General /\ Visible' = Visible /\ Registers' = Registers
  BY <1>1, NamesStay
<1>3. StubsTypeOK'
  BY <1>1, <1>2 DEF StubsInv, StubsTypeOK
<1>4. ThreadsFindTheirRegisters'
  BY <1>1, <1>2 DEF StubsInv, ThreadsFindTheirRegisters, Of, gdtable
<1>5. ASSUME NEW s \in Thread \ gone, s # cur PROVE GoesOn(state[s], s)'
  BY <1>1, <1>2, <1>5 DEF StubsInv, GoesOn, Of, gdtable
<1>6. QED
  BY <1>1, <1>3, <1>4, <1>5 DEF StubsInv

LEMMA StubsNextKeeps == StubsInv /\ [StubsNext]_stubVars => StubsInv'
<1> SUFFICES ASSUME StubsInv, [StubsNext]_stubVars PROVE StubsInv'
  OBVIOUS
<1>1. CASE StubsNext
  BY <1>1, ComputeKeeps, ExitKeeps, WokenFromOutsideKeeps, ReturnKeeps, BlockKeeps,
     handle_irqKeeps, handle_exceptionKeeps DEF StubsNext
<1>2. CASE UNCHANGED stubVars
  <2>1. /\ arch' = arch /\ gone' = gone /\ active' = active /\ cur' = cur
        /\ regs' = regs /\ state' = state /\ program' = program
        /\ err_ocurred' = err_ocurred /\ shown' = shown
    BY <1>2 DEF stubVars, kernel
  <2>2. General' = General /\ Visible' = Visible /\ Registers' = Registers
    BY <2>1, NamesStay
  <2>3. StubsTypeOK'
    BY <2>1, <2>2 DEF StubsInv, StubsTypeOK
  <2>4. ThreadsFindTheirRegisters'
    BY <2>1, <2>2 DEF StubsInv, ThreadsFindTheirRegisters, Of, gdtable
  <2>5. ASSUME NEW s \in Thread \ gone, s # cur PROVE GoesOn(state[s], s)'
    BY <2>1, <2>2, <2>5 DEF StubsInv, GoesOn, Of, gdtable
  <2>6. QED
    BY <2>1, <2>3, <2>4, <2>5 DEF StubsInv
<1>3. QED
  BY <1>1, <1>2

-----------------------------------------------------------------------------
(* The processor runs a thread that may run, or nobody; the registers and   *)
(* the cpu_states are always whole.                                         *)
THEOREM StubsTypeCorrect == StubsSpec => []StubsTypeOK
<1>1. StubsInv => StubsTypeOK
  BY DEF StubsInv
<1>2. QED
  BY <1>1, StubsInitHolds, StubsNextKeeps, PTL DEF StubsSpec

(* Whatever interrupts, calls, switches and exits lie in between, on either *)
(* architecture, for any threads and any number of steps: a thread finds    *)
(* its registers, and an error shows the ones it happened with.             *)
THEOREM RegistersSurvive == StubsSpec => []ThreadsFindTheirRegisters
<1>1. StubsInv => ThreadsFindTheirRegisters
  BY DEF StubsInv
<1>2. QED
  BY <1>1, StubsInitHolds, StubsNextKeeps, PTL DEF StubsSpec

-----------------------------------------------------------------------------
(* The copying of bytes. *)

(* A set of numbers has a first element. *)
LEMMA FirstOne ==
    ASSUME NEW S, S \subseteq Nat, S # {}
    PROVE  \E x \in S : \A y \in S : x <= y
<1> DEFINE less == OpToRel(<, Nat)
<1>1. \E x \in S : \A y \in S : ~ (<<y, x>> \in less)
  BY NatLessThanWellFounded, WFMin, Zenon
<1>2. \A x, y \in Nat : y < x => <<y, x>> \in less
  BY Zenon DEF OpToRel
<1> HIDE DEF less
<1>3. PICK x \in S : \A y \in S : ~ (<<y, x>> \in less)
  BY <1>1
<1>4. \A y \in S : ~ (y < x)
  BY <1>2, <1>3, Zenon
<1>5. QED
  BY <1>4

(* One turn of memcpy's loop. *)
Turned(m, dst, src, k) == [m EXCEPT ![dst + k - 1] = m[src + k - 1]]

AreTurns(g, memory, dst, src, len) ==
    /\ g = [k \in 0 .. len |-> g[k]] /\ g[0] = memory
    /\ \A k \in 1 .. len : g[k] = Turned(g[k - 1], dst, src, k)

(* A loop that computes a memory after each turn: what is known to satisfy *)
(* the loop's equations is what the loop computes.                         *)
LEMMA MemcpyIs ==
    ASSUME NEW memory, NEW dst, NEW src, NEW len \in Nat, NEW g,
           AreTurns(g, memory, dst, src, len)
    PROVE  memcpy(memory, dst, src, len) = g[len]
<1> DEFINE D == 0 .. len
           Turn(m, k) == Turned(m, dst, src, k)
           Loop(f) == [k \in D |-> IF k = 0 THEN memory ELSE Turn(f[k - 1], k)]
           after == CHOOSE f : f = Loop(f)
<1>1. g = Loop(g)
  <2> DEFINE step(k) == IF k = 0 THEN memory ELSE Turn(g[k - 1], k)
  <2>1. ASSUME NEW k \in D
        PROVE  g[k] = step(k)
    <3>1. CASE k = 0
      BY <3>1 DEF AreTurns
    <3>2. CASE k # 0
      <4>1. k \in 1 .. len
        BY <3>2
      <4>2. QED
        BY <3>2, <4>1 DEF AreTurns
    <3>3. QED
      BY <3>1, <3>2
  <2>2. Loop(g) = [k \in D |-> step(k)] /\ g = [k \in D |-> g[k]]
    BY DEF AreTurns
  <2> HIDE DEF step
  <2>3. QED
    BY <2>1, <2>2
<1>2. after = Loop(after)
  <2> HIDE DEF Loop
  <2>1. QED
    BY <1>1
<1> HIDE DEF after
<1>3. \A k \in D : after[k] = g[k]
  <2> DEFINE Bad == {k \in D : after[k] # g[k]}
  <2> SUFFICES ASSUME Bad # {} PROVE FALSE
    OBVIOUS
  <2>1. Bad \subseteq Nat
    OBVIOUS
  <2> HIDE DEF Bad
  <2>2. PICK k \in Bad : \A q \in Bad : k <= q
    BY <2>1, FirstOne
  <2>3. k \in D /\ after[k] # g[k]
    BY <2>2 DEF Bad
  <2>4. \A q \in D : /\ after[q] = (IF q = 0 THEN memory ELSE Turn(after[q - 1], q))
                     /\ g[q] = (IF q = 0 THEN memory ELSE Turn(g[q - 1], q))
    BY <1>1, <1>2
  <2> HIDE DEF Turn
  <2>5. CASE k = 0
    BY <2>3, <2>4, <2>5
  <2>6. CASE k # 0
    <3>1. k - 1 \in D /\ k - 1 \notin Bad
      BY <2>1, <2>2, <2>3, <2>6
    <3>2. after[k - 1] = g[k - 1]
      BY <3>1 DEF Bad
    <3>3. QED
      BY <2>3, <2>4, <2>6, <3>2
  <2>7. QED
    BY <2>5, <2>6
<1>4. memcpy(memory, dst, src, len) = after[len]
  BY DEF memcpy, after, Turned
<1>5. QED
  BY <1>3, <1>4

(* From front to back, nothing is read that was written before, if the     *)
(* destination is below the source or elsewhere.                           *)
LEMMA MemcpyCopies ==
    ASSUME NEW memory \in [Address -> Int], NEW dst \in Address, NEW src \in Address,
           NEW len \in Nat, Fits(dst, len), Fits(src, len),
           dst <= src \/ Span(dst, len) \cap Span(src, len) = {}
    PROVE  memcpy(memory, dst, src, len) = Moved(memory, dst, src, len)
<1> DEFINE D == 0 .. len
           Turn(m, k) == Turned(m, dst, src, k)
           g == [k \in D |-> Moved(memory, dst, src, k)]
<1>1. dst \in Int /\ src \in Int
  BY AddressAssumption
<1>2. Moved(memory, dst, src, 0) = memory
  <2>1. Span(dst, 0) = {}
    BY <1>1 DEF Span
  <2>2. QED
    BY <2>1 DEF Moved
<1>3. ASSUME NEW k \in D, k # 0
      PROVE  Moved(memory, dst, src, k) = Turn(Moved(memory, dst, src, k - 1), k)
  <2> DEFINE before == Moved(memory, dst, src, k - 1)
  <2>1. /\ dst + k - 1 \in Span(dst, len) /\ src + k - 1 \in Span(src, len)
        /\ dst + k - 1 \in Int /\ src + k - 1 \in Int
    BY <1>1, <1>3 DEF Span
  <2>2. dst + k - 1 \in Address /\ src + k - 1 \in Address
    BY <2>1 DEF Fits
  <2>3. src + k - 1 \notin Span(dst, k - 1)
    <3>1. CASE dst <= src
      BY <1>1, <1>3, <3>1 DEF Span
    <3>2. CASE Span(dst, len) \cap Span(src, len) = {}
      <4>1. src + k - 1 \notin Span(dst, len)
        BY <2>1, <3>2
      <4>2. QED
        BY <1>1, <1>3, <4>1 DEF Span
    <3>3. QED
      BY <3>1, <3>2
  <2>4. before[src + k - 1] = memory[src + k - 1]
    BY <2>2, <2>3 DEF Moved
  <2>5. ASSUME NEW a \in Address
        PROVE  Moved(memory, dst, src, k)[a] = Turn(before, k)[a]
    <3>0. a \in Int
      BY AddressAssumption
    <3>1. CASE a = dst + k - 1
      <4>1. a \in Span(dst, k) /\ src + (a - dst) = src + k - 1
        BY <1>1, <1>3, <3>0, <3>1 DEF Span
      <4>2. Moved(memory, dst, src, k)[a] = memory[src + k - 1]
        BY <4>1 DEF Moved
      <4>3. Turn(before, k)[a] = before[src + k - 1]
        BY <3>1 DEF Moved, Turned
      <4>4. QED
        BY <2>4, <4>2, <4>3
    <3>2. CASE a # dst + k - 1
      <4>1. a \in Span(dst, k) <=> a \in Span(dst, k - 1)
        BY <1>1, <1>3, <3>0, <3>2 DEF Span
      <4>2. Moved(memory, dst, src, k)[a] = before[a]
        BY <4>1 DEF Moved
      <4>3. Turn(before, k)[a] = before[a]
        BY <3>2 DEF Moved, Turned
      <4>4. QED
        BY <4>2, <4>3
    <3>3. QED
      BY <3>1, <3>2
  <2>6. QED
    BY <2>5 DEF Moved, Turned
<1>4. \A k \in 1 .. len : g[k] = Turn(g[k - 1], k)
  <2>1. \A k \in 1 .. len : k \in D /\ k - 1 \in D /\ k # 0
    OBVIOUS
  <2>2. \A k \in D : g[k] = Moved(memory, dst, src, k)
    OBVIOUS
  <2> HIDE DEF g, D, Turn
  <2>3. QED
    BY <1>3, <2>1, <2>2
<1>5. g[0] = memory /\ g[len] = Moved(memory, dst, src, len) /\ g = [k \in 0 .. len |-> g[k]]
  BY <1>2
<1> HIDE DEF g
<1>6. AreTurns(g, memory, dst, src, len)
  BY <1>4, <1>5 DEF AreTurns
<1>7. QED
  BY <1>5, <1>6, MemcpyIs

(* The rest of a division by d. *)
LEMMA ModShift ==
    ASSUME NEW d \in Nat \ {0}, NEW x \in Nat
    PROVE  x % d = IF x < d THEN x ELSE (x - d) % d
<1>1. CASE x < d
  BY <1>1, SMTT(30)
<1>2. CASE ~ x < d
  <2> DEFINE q == x \div d
             p == (x - d) \div d
             r == x % d
             t == (x - d) % d
  <2>1. q \in Int /\ r \in 0 .. d - 1 /\ x = d * q + r
    OBVIOUS
  <2>2. p \in Int /\ t \in 0 .. d - 1 /\ x - d = d * p + t
    BY <1>2
  <2> HIDE DEF q, p, r, t
  <2>3. d * (q - 1 - p) = t - r
    BY <2>1, <2>2
  <2>4. q - 1 - p = 0
    <3>1. CASE q - 1 - p >= 1
      BY <2>1, <2>2, <2>3, <3>1
    <3>2. CASE q - 1 - p <= -1
      BY <2>1, <2>2, <2>3, <3>2
    <3>3. QED
      BY <2>1, <2>2, <3>1, <3>2
  <2>5. r = t
    BY <2>1, <2>2, <2>3, <2>4
  <2>6. QED
    BY <1>2, <2>5 DEF r, t
<1>3. QED
  BY <1>1, <1>2

(* With a destination above the source, the bytes between them are what is *)
(* written, again and again.                                               *)
Back(a, dst, src) == src + ((a - dst) % (dst - src))
Repeating(memory, dst, src, len) ==
    [a \in Address |-> IF a \in Span(dst, len) THEN memory[Back(a, dst, src)] ELSE memory[a]]

LEMMA BackIs ==
    ASSUME NEW a, NEW dst, NEW src, NEW x, a - dst = x
    PROVE  Back(a, dst, src) = src + (x % (dst - src))
BY DEF Back

LEMMA MemcpyRepeats ==
    ASSUME NEW memory \in [Address -> Int], NEW dst \in Address, NEW src \in Address,
           NEW len \in Nat, Fits(dst, len), Fits(src, len), src < dst
    PROVE  memcpy(memory, dst, src, len) = Repeating(memory, dst, src, len)
<1> DEFINE D == 0 .. len
           Turn(m, k) == Turned(m, dst, src, k)
           g == [k \in D |-> Repeating(memory, dst, src, k)]
           d == dst - src
<1>1. dst \in Int /\ src \in Int /\ d \in Nat \ {0}
  BY AddressAssumption
<1>2. Repeating(memory, dst, src, 0) = memory
  <2>1. Span(dst, 0) = {}
    BY <1>1 DEF Span
  <2>2. QED
    BY <2>1 DEF Repeating
<1>3. ASSUME NEW k \in D, k # 0
      PROVE  Repeating(memory, dst, src, k) = Turn(Repeating(memory, dst, src, k - 1), k)
  <2> DEFINE before == Repeating(memory, dst, src, k - 1)
  <2>1. /\ dst + k - 1 \in Span(dst, len) /\ src + k - 1 \in Span(src, len)
        /\ dst + k - 1 \in Int /\ src + k - 1 \in Int
    BY <1>1, <1>3 DEF Span
  <2>2. dst + k - 1 \in Address /\ src + k - 1 \in Address
    BY <2>1 DEF Fits
  <2>3. before[src + k - 1] = memory[src + ((k - 1) % d)]
    <3>0. k - 1 \in Nat /\ src + k - 1 = dst + (k - 1 - d)
      BY <1>1, <1>3
    <3>1. CASE k - 1 < d
      <4>1. src + k - 1 \notin Span(dst, k - 1)
        BY <1>1, <1>3, <3>1 DEF Span
      <4>2. (k - 1) % d = k - 1
        BY <1>1, <3>0, <3>1, ModShift
      <4>3. src + (k - 1) = src + k - 1
        BY <1>1, <3>0
      <4>4. before[src + k - 1] = memory[src + k - 1]
        BY <2>2, <4>1 DEF Repeating
      <4> HIDE DEF before, d
      <4>5. QED
        BY <4>2, <4>3, <4>4
    <3>2. CASE ~ k - 1 < d
      <4>1. src + k - 1 \in Span(dst, k - 1)
        BY <1>1, <1>3, <3>2 DEF Span
      <4>2. (k - 1) % d = (k - 1 - d) % d
        BY <1>1, <3>0, <3>2, ModShift
      <4>3. (src + k - 1) - dst = k - 1 - d
        BY <1>1, <3>0
      <4>4. before[src + k - 1] = memory[Back(src + k - 1, dst, src)]
        BY <2>2, <4>1 DEF Repeating
      <4> DEFINE place == src + k - 1
                 x == k - 1 - d
      <4>5. place - dst = x
        BY <4>3
      <4> HIDE DEF before, place, x
      <4>6. Back(place, dst, src) = src + (x % d)
        BY <4>5, BackIs
      <4> HIDE DEF d
      <4>7. QED
        BY <4>2, <4>4, <4>6 DEF place, x
    <3>3. QED
      BY <3>1, <3>2
  <2>4. ASSUME NEW a \in Address
        PROVE  Repeating(memory, dst, src, k)[a] = Turn(before, k)[a]
    <3>0. a \in Int
      BY AddressAssumption
    <3>1. CASE a = dst + k - 1
      <4>1. a \in Span(dst, k) /\ a - dst = k - 1
        BY <1>1, <1>3, <3>0, <3>1 DEF Span
      <4>2. Repeating(memory, dst, src, k)[a] = memory[Back(a, dst, src)]
        BY <4>1 DEF Repeating
      <4>3. Turn(before, k)[a] = before[src + k - 1]
        BY <3>1 DEF Repeating, Turned
      <4>4. Back(a, dst, src) = src + ((k - 1) % d)
        BY <4>1 DEF Back
      <4> HIDE DEF before, d, Turn
      <4>5. QED
        BY <2>3, <4>2, <4>3, <4>4
    <3>2. CASE a # dst + k - 1
      <4>1. a \in Span(dst, k) <=> a \in Span(dst, k - 1)
        BY <1>1, <1>3, <3>0, <3>2 DEF Span
      <4>2. Repeating(memory, dst, src, k)[a] = before[a]
        BY <4>1 DEF Repeating
      <4>3. Turn(before, k)[a] = before[a]
        BY <3>2 DEF Repeating, Turned
      <4>4. QED
        BY <4>2, <4>3
    <3>3. QED
      BY <3>1, <3>2
  <2>5. QED
    BY <2>4 DEF Repeating, Turned
<1>4. \A k \in 1 .. len : g[k] = Turn(g[k - 1], k)
  <2>1. \A k \in 1 .. len : k \in D /\ k - 1 \in D /\ k # 0
    OBVIOUS
  <2>2. \A k \in D : g[k] = Repeating(memory, dst, src, k)
    OBVIOUS
  <2> HIDE DEF g, D, Turn
  <2>3. QED
    BY <1>3, <2>1, <2>2
<1>5. g[0] = memory /\ g[len] = Repeating(memory, dst, src, len) /\ g = [k \in 0 .. len |-> g[k]]
  BY <1>2
<1> HIDE DEF g
<1>6. AreTurns(g, memory, dst, src, len)
  BY <1>4, <1>5 DEF AreTurns
<1>7. QED
  BY <1>5, <1>6, MemcpyIs

LEMMA RestIsLess ==
    ASSUME NEW d \in Nat \ {0}, NEW x \in Nat, NEW len \in Nat, x \in 0 .. len - 1
    PROVE  x % d \in 0 .. len - 1
<1> DEFINE q == x \div d
           r == x % d
<1>1. q \in Nat /\ r \in 0 .. d - 1 /\ x = d * q + r
  OBVIOUS
<1> HIDE DEF q, r
<1>2. d * q \in Nat
  BY <1>1
<1>3. r \in 0 .. len - 1
  BY <1>1, <1>2
<1>4. QED
  BY <1>3 DEF r

LEMMA MovedIsAMemory ==
    ASSUME NEW memory \in [Address -> Int], NEW dst \in Address, NEW src \in Address,
           NEW len \in Nat, Fits(src, len)
    PROVE  Moved(memory, dst, src, len) \in [Address -> Int]
<1>1. ASSUME NEW a \in Address, a \in Span(dst, len)
      PROVE  src + (a - dst) \in Address
  <2>1. a \in Int /\ dst \in Int /\ src \in Int
    BY AddressAssumption
  <2>2. src + (a - dst) \in Span(src, len)
    BY <1>1, <2>1 DEF Span
  <2>3. QED
    BY <2>2 DEF Fits
<1>2. QED
  BY <1>1 DEF Moved

(* So what is behind the first dst - src bytes is wrong, and no other. *)
LEMMA MemcpyOverruns ==
    ASSUME NEW memory \in [Address -> Int], NEW dst \in Address, NEW src \in Address,
           NEW len \in Nat, Fits(dst, len), Fits(src, len)
    PROVE  /\ memcpy(memory, dst, src, len) \in [Address -> Int]
           /\ \A a \in Address \ Overrun(dst, src, len) :
                 memcpy(memory, dst, src, len)[a] = Moved(memory, dst, src, len)[a]
<1>1. dst \in Int /\ src \in Int
  BY AddressAssumption
<1>2. CASE dst <= src
  <2>1. Moved(memory, dst, src, len) \in [Address -> Int]
    BY MovedIsAMemory
  <2>2. QED
    BY <1>2, <2>1, MemcpyCopies
<1>3. CASE src < dst
  <2>1. memcpy(memory, dst, src, len) = Repeating(memory, dst, src, len)
    BY <1>3, MemcpyRepeats
  <2>2. ASSUME NEW a \in Address, a \in Span(dst, len)
        PROVE  /\ Back(a, dst, src) \in Address
               /\ a - dst < dst - src => Back(a, dst, src) = src + (a - dst)
    <3> DEFINE d == dst - src
               x == a - dst
               r == x % d
    <3>1. a \in Int /\ d \in Nat \ {0}
      BY <1>1, <1>3, AddressAssumption
    <3>2. x \in 0 .. len - 1 /\ x \in Nat
      BY <1>1, <2>2, <3>1 DEF Span
    <3>3. Back(a, dst, src) = src + r
      BY DEF Back
    <3> HIDE DEF d, x
    <3>4. r \in 0 .. len - 1
      BY <3>1, <3>2, RestIsLess
    <3>5. x < d => r = x
      BY <3>1, <3>2, ModShift
    <3> HIDE DEF r
    <3>6. src + r \in Span(src, len)
      BY <1>1, <3>4 DEF Span
    <3>7. Back(a, dst, src) \in Address
      BY <3>3, <3>6 DEF Fits
    <3>8. QED
      BY <3>3, <3>5, <3>7 DEF d, x
  <2>3. Repeating(memory, dst, src, len) \in [Address -> Int]
    BY <2>2 DEF Repeating
  <2>4. ASSUME NEW a \in Address \ Overrun(dst, src, len)
        PROVE  Repeating(memory, dst, src, len)[a] = Moved(memory, dst, src, len)[a]
    <3>1. CASE a \in Span(dst, len)
      <4>1. a \in Int
        BY AddressAssumption
      <4>2. a - dst < dst - src
        BY <1>1, <1>3, <2>4, <3>1, <4>1 DEF Overrun
      <4>3. Back(a, dst, src) = src + (a - dst)
        BY <2>2, <3>1, <4>2
      <4>4. QED
        BY <3>1, <4>3 DEF Repeating, Moved
    <3>2. CASE a \notin Span(dst, len)
      BY <3>2 DEF Repeating, Moved
    <3>3. QED
      BY <3>1, <3>2
  <2>5. QED
    BY <2>1, <2>3, <2>4
<1>4. QED
  BY <1>1, <1>2, <1>3

(* memmove's unit divides the length. *)
LEMMA UnitDivides ==
    ASSUME NEW dst, NEW src, NEW len \in Nat
    PROVE  LET unit == Unit(dst, src, len)
           IN  /\ unit \in Nat \ {0} /\ len \div unit \in Nat
               /\ (len \div unit) * unit = len
               /\ \A k \in 1 .. len \div unit :
                     /\ k * unit \in Nat /\ (k - 1) * unit \in Nat
                     /\ (k - 1) * unit = k * unit - unit /\ k * unit <= len
<1> DEFINE unit == Unit(dst, src, len)
           q == len \div unit
<1>1. unit \in Nat \ {0} /\ len % unit = 0
  BY WordAssumption DEF Unit
<1> HIDE DEF unit
<1>2. q \in Nat /\ q * unit = len
  BY <1>1
<1> HIDE DEF q
<1>3. ASSUME NEW k \in 1 .. q
      PROVE  /\ k * unit \in Nat /\ (k - 1) * unit \in Nat
             /\ (k - 1) * unit = k * unit - unit /\ k * unit <= len
  <2>1. k * unit \in Nat /\ (k - 1) * unit \in Nat /\ (k - 1) * unit = k * unit - unit
    BY <1>1, <1>2
  <2>2. q * unit = k * unit + (q - k) * unit
    BY <1>1, <1>2
  <2>3. (q - k) * unit \in Nat
    BY <1>1, <1>2
  <2>4. QED
    BY <1>2, <2>1, <2>2, <2>3
<1>4. QED
  BY <1>1, <1>2, <1>3 DEF unit, q

(* From back to front, what has been copied is the end of the block. *)
MovedFrom(memory, dst, src, first, len) ==
    [a \in Address |-> IF a \in Span(dst + first, len - first) THEN memory[src + (a - dst)] ELSE memory[a]]

LEMMA BackwardsCopies ==
    ASSUME NEW memory \in [Address -> Int], NEW dst \in Address, NEW src \in Address,
           NEW len \in Nat, Fits(dst, len), Fits(src, len), ~ dst < src
    PROVE  Backwards(memory, dst, src, len) = Moved(memory, dst, src, len)
<1> DEFINE unit == Unit(dst, src, len)
           D == 0 .. len \div unit
           Turn(m, k) == LET from == len - k * unit
                         IN [a \in Address |-> IF a \in Span(dst + from, unit)
                                               THEN m[src + (a - dst)] ELSE m[a]]
           Loop(f) == [k \in D |-> IF k = 0 THEN memory ELSE Turn(f[k - 1], k)]
           g == [k \in D |-> MovedFrom(memory, dst, src, len - k * unit, len)]
           after == CHOOSE f : f = Loop(f)
<1>1. dst \in Int /\ src \in Int
  BY AddressAssumption
<1>u. /\ unit \in Nat \ {0} /\ len \div unit \in Nat
      /\ (len \div unit) * unit = len
      /\ \A k \in 1 .. len \div unit :
            /\ k * unit \in Nat /\ (k - 1) * unit \in Nat
            /\ (k - 1) * unit = k * unit - unit /\ k * unit <= len
  BY UnitDivides
<1>q. Backwards(memory, dst, src, len) = after[len \div unit]
  BY DEF Backwards, after
<1> HIDE DEF unit
<1>z. 0 * unit = 0
  BY <1>u
<1>2. MovedFrom(memory, dst, src, len - 0 * unit, len) = memory
  <2>1. Span(dst + (len - 0 * unit), len - (len - 0 * unit)) = {}
    BY <1>1, <1>z DEF Span
  <2>2. QED
    BY <2>1 DEF MovedFrom
<1>3. ASSUME NEW k \in D, k # 0
      PROVE  MovedFrom(memory, dst, src, len - k * unit, len)
               = Turn(MovedFrom(memory, dst, src, len - (k - 1) * unit, len), k)
  <2> DEFINE from == len - k * unit
             before == MovedFrom(memory, dst, src, len - (k - 1) * unit, len)
  <2>0. k \in 1 .. len \div unit
    BY <1>u, <1>3
  <2>1. from \in Nat /\ from + unit <= len /\ len - (k - 1) * unit = from + unit
    BY <1>u, <2>0
  <2> HIDE DEF from
  <2>2. before = MovedFrom(memory, dst, src, from + unit, len)
    BY <2>1
  <2> HIDE DEF before
  <2>3. ASSUME NEW a \in Address
        PROVE  MovedFrom(memory, dst, src, from, len)[a]
                 = IF a \in Span(dst + from, unit) THEN before[src + (a - dst)] ELSE before[a]
    <3>0. a \in Int
      BY AddressAssumption
    <3>1. CASE a \in Span(dst + from, unit)
      <4>1. a \in Span(dst + from, len - from) /\ src + (a - dst) \in Span(src, len)
        BY <1>1, <1>u, <2>1, <3>0, <3>1 DEF Span
      <4>2. src + (a - dst) \in Address
        BY <4>1 DEF Fits
      <4>3. src + (a - dst) \notin Span(dst + (from + unit), len - (from + unit))
        BY <1>1, <1>u, <2>1, <3>0, <3>1 DEF Span
      <4>4. before[src + (a - dst)] = memory[src + (a - dst)]
        BY <2>2, <4>2, <4>3 DEF MovedFrom
      <4>5. MovedFrom(memory, dst, src, from, len)[a] = memory[src + (a - dst)]
        BY <4>1 DEF MovedFrom
      <4>6. QED
        BY <3>1, <4>4, <4>5
    <3>2. CASE a \notin Span(dst + from, unit)
      <4>1. a \in Span(dst + from, len - from) <=> a \in Span(dst + (from + unit), len - (from + unit))
        BY <1>1, <1>u, <2>1, <3>0, <3>2 DEF Span
      <4>2. QED
        BY <2>2, <3>2, <4>1 DEF MovedFrom
    <3>3. QED
      BY <3>1, <3>2
  <2>4. MovedFrom(memory, dst, src, from, len)
          = [a \in Address |-> MovedFrom(memory, dst, src, from, len)[a]]
    BY DEF MovedFrom
  <2>5. MovedFrom(memory, dst, src, from, len)
          = [a \in Address |-> IF a \in Span(dst + from, unit) THEN before[src + (a - dst)] ELSE before[a]]
    BY <2>3, <2>4
  <2>6. QED
    BY <2>5 DEF from, before
<1>4. g = Loop(g)
  <2>1. ASSUME NEW k \in D
        PROVE  g[k] = IF k = 0 THEN memory ELSE Turn(g[k - 1], k)
    <3>1. CASE k = 0
      BY <1>2, <1>u, <3>1
    <3>2. CASE k # 0
      <4>1. k - 1 \in D
        BY <1>u, <3>2
      <4>2. g[k] = MovedFrom(memory, dst, src, len - k * unit, len) /\ g[k - 1] = MovedFrom(memory, dst, src, len - (k - 1) * unit, len)
        BY <4>1
      <4> HIDE DEF g
      <4>3. QED
        BY <1>3, <3>2, <4>2
    <3>3. QED
      BY <3>1, <3>2
  <2> DEFINE step(k) == IF k = 0 THEN memory ELSE Turn(g[k - 1], k)
  <2>2. \A k \in D : g[k] = step(k)
    BY <2>1
  <2>3. Loop(g) = [k \in D |-> step(k)] /\ g = [k \in D |-> g[k]]
    OBVIOUS
  <2> HIDE DEF g, step
  <2>4. QED
    BY <2>2, <2>3
<1> HIDE DEF g
<1>5. after = Loop(after)
  <2> HIDE DEF Loop
  <2>1. QED
    BY <1>4
<1> HIDE DEF after
<1>6. \A k \in D : after[k] = g[k]
  <2> DEFINE Bad == {k \in D : after[k] # g[k]}
  <2> SUFFICES ASSUME Bad # {} PROVE FALSE
    OBVIOUS
  <2>1. Bad \subseteq Nat
    BY <1>u
  <2> HIDE DEF Bad
  <2>2. PICK k \in Bad : \A q \in Bad : k <= q
    BY <2>1, FirstOne
  <2>3. k \in D /\ after[k] # g[k]
    BY <2>2 DEF Bad
  <2>4. \A q \in D : /\ after[q] = (IF q = 0 THEN memory ELSE Turn(after[q - 1], q))
                     /\ g[q] = (IF q = 0 THEN memory ELSE Turn(g[q - 1], q))
    BY <1>4, <1>5
  <2> HIDE DEF Turn
  <2>5. CASE k = 0
    BY <1>u, <2>3, <2>4, <2>5
  <2>6. CASE k # 0
    <3>1. k - 1 \in D /\ k - 1 \notin Bad
      BY <1>u, <2>1, <2>2, <2>3, <2>6
    <3>2. after[k - 1] = g[k - 1]
      BY <3>1 DEF Bad
    <3>3. QED
      BY <2>3, <2>4, <2>6, <3>2
  <2>7. QED
    BY <2>5, <2>6
<1>7. g[len \div unit] = Moved(memory, dst, src, len)
  <2>1. g[len \div unit] = MovedFrom(memory, dst, src, 0, len)
    BY <1>u DEF g
  <2>2. Span(dst + 0, len - 0) = Span(dst, len)
    BY <1>1 DEF Span
  <2>3. QED
    BY <2>1, <2>2 DEF Moved, MovedFrom
<1>8. QED
  BY <1>6, <1>7, <1>q, <1>u

LEMMA MemmoveCopies ==
    ASSUME NEW memory \in [Address -> Int], NEW dst \in Address, NEW src \in Address,
           NEW len \in Nat, Fits(dst, len), Fits(src, len)
    PROVE  memmove(memory, dst, src, len) = Moved(memory, dst, src, len)
<1>1. dst \in Int /\ src \in Int
  BY AddressAssumption
<1>2. CASE dst < src
  <2>1. dst <= src
    BY <1>1, <1>2
  <2>2. QED
    BY <1>2, <2>1, MemcpyCopies DEF memmove
<1>3. CASE ~ dst < src
  BY <1>3, BackwardsCopies DEF memmove
<1>4. QED
  BY <1>2, <1>3

(* Copying takes right bytes to right bytes, and wrong ones to wrong ones. *)
LEMMA MovedIsMeant ==
    ASSUME StringsTypeOK, BytesAreAsMeant,
           NEW dst \in Address, NEW src \in Address, NEW len \in Nat,
           Fits(dst, len), Fits(src, len), Written,
           NEW wrong \in SUBSET Address, bytes' \in [Address -> Int],
           \A a \in Address \ wrong : bytes'[a] = Moved(bytes, dst, src, len)[a],
           Meant(dst, src, len), repeated' = Taken(repeated, dst, src, len) \cup wrong
    PROVE  StringsTypeOK' /\ BytesAreAsMeant'
<1>1. dst \in Int /\ src \in Int
  BY AddressAssumption
<1>2. ASSUME NEW a \in Address, a \in Span(dst, len)
      PROVE  src + (a - dst) \in Address
  <2>1. a \in Int
    BY AddressAssumption
  <2>2. src + (a - dst) \in Span(src, len)
    BY <1>1, <1>2, <2>1 DEF Span
  <2>3. QED
    BY <2>2 DEF Fits
<1>3. bytes' \in [Address -> Int] /\ meant' \in [Address -> Int]
  BY MovedIsAMemory DEF StringsTypeOK, Meant
<1>4. astray' \subseteq Address /\ repeated' \subseteq Address
  BY DEF StringsTypeOK, Meant, Taken, Fits
<1>5. writes' \in Nat
  BY DEF StringsTypeOK, Written
<1>6. ASSUME NEW a \in Address, a \notin astray' \cup repeated'
      PROVE  bytes'[a] = meant'[a]
  <2>0. bytes'[a] = Moved(bytes, dst, src, len)[a]
    BY <1>6
  <2>1. CASE a \in Span(dst, len)
    <3>1. src + (a - dst) \in Address /\ src + (a - dst) \notin astray \cup repeated
      BY <1>2, <1>6, <2>1 DEF Meant, Taken
    <3>2. bytes[src + (a - dst)] = meant[src + (a - dst)]
      BY <3>1 DEF BytesAreAsMeant
    <3>3. QED
      BY <2>0, <2>1, <3>2 DEF Moved, Meant
  <2>2. CASE a \notin Span(dst, len)
    <3>1. a \notin astray \cup repeated
      BY <1>6, <2>2 DEF Meant, Taken
    <3>2. bytes[a] = meant[a]
      BY <3>1 DEF BytesAreAsMeant
    <3>3. QED
      BY <2>0, <2>2, <3>2 DEF Moved, Meant
  <2>3. QED
    BY <2>1, <2>2
<1>7. QED
  BY <1>3, <1>4, <1>5, <1>6 DEF StringsTypeOK, BytesAreAsMeant

(* memset fills the whole words of the block, and beside it touches only   *)
(* the word behind the next.                                               *)
LEMMA MemsetIsMeant ==
    ASSUME StringsTypeOK, BytesAreAsMeant,
           NEW ptr \in Address, NEW val \in Values, NEW len \in Nat, Set(ptr, val, len)
    PROVE  StringsTypeOK' /\ BytesAreAsMeant'
<1> DEFINE rest == len % 4
           whole == 4 * (len \div 4)
           missed == Span(ptr + len - rest, rest)
           beside == IF rest = 0 THEN {} ELSE Span(ptr + len - rest + 4, 4)
           value(a) == val[((a - ptr) % 4) + 1]
<1>1. ptr \in Int
  BY AddressAssumption
<1>2. rest \in 0 .. 3 /\ whole \in Nat /\ whole + rest = len
  OBVIOUS
<1>3. ASSUME NEW a \in Address
      PROVE  value(a) \in Int
  <2>1. a \in Int
    BY AddressAssumption
  <2>2. ((a - ptr) % 4) + 1 \in 1 .. 4
    BY <1>1, <2>1
  <2>3. \A i \in 1 .. 4 : val[i] \in Int
    BY DEF Values
  <2>4. QED
    BY <2>2, <2>3
<1>4. /\ bytes' = memset(bytes, ptr, val, len)
      /\ meant' = [a \in Address |-> IF a \in Span(ptr, len) THEN value(a) ELSE meant[a]]
      /\ astray' = ((astray \ Span(ptr, len - rest)) \cup missed \cup beside) \cap Address
      /\ repeated' = repeated \ Span(ptr, len - rest)
      /\ writes' = writes + 1
  BY DEF Set, Written
<1>5. bytes' = [a \in Address |->
                  IF a - ptr \in Span(0, whole) THEN value(a)
                  ELSE IF a - ptr \in TailWord(len)
                       THEN (IF (a - ptr) % 4 < rest THEN value(a) ELSE 0)
                       ELSE bytes[a]]
  BY <1>4 DEF memset
<1> HIDE DEF value
<1>6. bytes' \in [Address -> Int]
  BY <1>3, <1>5 DEF StringsTypeOK
<1>7. meant' \in [Address -> Int]
  BY <1>3, <1>4 DEF StringsTypeOK
<1>8. ASSUME NEW a \in Address
      PROVE  /\ a - ptr \in Span(0, whole) <=> a \in Span(ptr, len - rest)
             /\ a \in Span(ptr, len) <=> a \in Span(ptr, len - rest) \/ a \in missed
             /\ a - ptr \in TailWord(len) <=> a \in beside
             /\ ~ (a \in Span(ptr, len - rest) /\ a \in missed)
  <2>1. a \in Int
    BY AddressAssumption
  <2>2. /\ a - ptr \in Span(0, whole) <=> a \in Span(ptr, len - rest)
        /\ a \in Span(ptr, len) <=> a \in Span(ptr, len - rest) \/ a \in missed
        /\ ~ (a \in Span(ptr, len - rest) /\ a \in missed)
    <3> HIDE DEF rest, whole
    <3>1. QED
      BY <1>1, <1>2, <2>1 DEF Span
  <2>3. a - ptr \in TailWord(len) <=> a \in beside
    <3>1. CASE rest = 0
      BY <3>1 DEF TailWord
    <3>2. CASE rest # 0
      <4>1. TailWord(len) = Span(whole + 4, 4) /\ beside = Span(ptr + len - rest + 4, 4)
        BY <3>2 DEF TailWord
      <4> HIDE DEF rest, whole, beside
      <4>2. QED
        BY <1>1, <1>2, <2>1, <4>1 DEF Span
    <3>3. QED
      BY <3>1, <3>2
  <2>4. QED
    BY <2>2, <2>3
<1> HIDE DEF rest, whole, missed, beside
<1>9. ASSUME NEW a \in Address, a \notin astray' \cup repeated'
      PROVE  bytes'[a] = meant'[a]
  <2>1. a \notin missed /\ a \notin beside
    BY <1>4, <1>9
  <2>2. CASE a \in Span(ptr, len - rest)
    BY <1>4, <1>5, <1>8, <2>2
  <2>3. CASE a \notin Span(ptr, len - rest)
    <3>1. a \notin astray \cup repeated
      BY <1>4, <1>9, <2>3
    <3>2. bytes[a] = meant[a]
      BY <3>1 DEF BytesAreAsMeant
    <3>3. QED
      BY <1>4, <1>5, <1>8, <2>1, <2>3, <3>2
  <2>4. QED
    BY <2>2, <2>3
<1>10. astray' \subseteq Address /\ repeated' \subseteq Address /\ writes' \in Nat
  BY <1>4 DEF StringsTypeOK
<1>11. QED
  BY <1>6, <1>7, <1>9, <1>10 DEF StringsTypeOK, BytesAreAsMeant

LEMMA BytesInitHolds == StringsInit => StringsTypeOK /\ BytesAreAsMeant
BY AddressAssumption DEF StringsInit, StringsTypeOK, BytesAreAsMeant

LEMMA BytesNextKeeps ==
    StringsTypeOK /\ BytesAreAsMeant /\ [StringsNext]_stringVars
      => StringsTypeOK' /\ BytesAreAsMeant'
<1> SUFFICES ASSUME StringsTypeOK, BytesAreAsMeant, [StringsNext]_stringVars
             PROVE  StringsTypeOK' /\ BytesAreAsMeant'
  OBVIOUS
<1>0. \A len \in 1 .. Cardinality(Address) : len \in Nat
  BY AddressAssumption, FS_CardinalityType
<1>1. ASSUME NEW dst \in Address, NEW src \in Address, NEW len \in Nat, Copy(dst, src, len)
      PROVE  StringsTypeOK' /\ BytesAreAsMeant'
  <2> DEFINE wrong == Overrun(dst, src, len)
  <2>1. /\ bytes' \in [Address -> Int]
        /\ \A a \in Address \ wrong : bytes'[a] = Moved(bytes, dst, src, len)[a]
    BY <1>1, MemcpyOverruns DEF Copy, StringsTypeOK
  <2>2. wrong \in SUBSET Address /\ repeated' = Taken(repeated, dst, src, len) \cup wrong
    BY <1>1 DEF Copy, Overrun, Fits
  <2> HIDE DEF wrong
  <2>3. Fits(dst, len) /\ Fits(src, len) /\ Written /\ Meant(dst, src, len)
    BY <1>1 DEF Copy
  <2>4. QED
    BY <2>1, <2>2, <2>3, MovedIsMeant
<1>2. ASSUME NEW dst \in Address, NEW src \in Address, NEW len \in Nat, Move(dst, src, len)
      PROVE  StringsTypeOK' /\ BytesAreAsMeant'
  <2>1. bytes' = Moved(bytes, dst, src, len) /\ bytes' \in [Address -> Int]
    BY <1>2, MemmoveCopies, MovedIsAMemory DEF Move, StringsTypeOK
  <2>2. Fits(dst, len) /\ Fits(src, len) /\ Written /\ Meant(dst, src, len)
    BY <1>2 DEF Move
  <2>3. repeated' = Taken(repeated, dst, src, len) \cup {} /\ {} \in SUBSET Address
    BY <1>2 DEF Move
  <2>4. \A a \in Address \ {} : bytes'[a] = Moved(bytes, dst, src, len)[a]
    BY <2>1
  <2>5. QED
    BY <2>1, <2>2, <2>3, <2>4, MovedIsMeant
<1>3. ASSUME NEW ptr \in Address, NEW val \in Values, NEW len \in Nat, Set(ptr, val, len)
      PROVE  StringsTypeOK' /\ BytesAreAsMeant'
  BY <1>3, MemsetIsMeant
<1>4. CASE UNCHANGED stringVars
  BY <1>4 DEF stringVars, StringsTypeOK, BytesAreAsMeant
<1>5. QED
  BY <1>0, <1>1, <1>2, <1>3, <1>4 DEF StringsNext

(* Type correctness of the memory.                                         *)
THEOREM StringsTypeCorrect == StringsSpec => []StringsTypeOK
BY BytesInitHolds, BytesNextKeeps, PTL DEF StringsSpec

(* For any memory, any size of a word, and any blocks, overlapping or not, *)
(* memory is what the calls of memcpy, memmove and memset mean, but for    *)
(* the bytes memset leaves out or writes besides (string.c:114), those     *)
(* that memcpy repeats where its destination begins inside its source      *)
(* (string.c:27), and copies of either.  The property is inductive with    *)
(* the types.                                                              *)
THEOREM BytesAreRight == StringsSpec => []BytesAreAsMeant
BY BytesInitHolds, BytesNextKeeps, PTL DEF StringsSpec

-----------------------------------------------------------------------------
(* The console: the sheet, character by character. *)

Char == UNION {Range(kprintfstrcol_scr(message.fmt, message.args)) : message \in Messages}
Cells == UNION {[places -> Char \cup {Blank}] : places \in SUBSET (Int \X Nat)}
SheetSpace == [x : 0 .. VIDEO_X, y : Nat, cells : Cells]
EmptySheet == [x |-> 0, y |-> 0, cells |-> <<>>]

SheetOf(text) == FoldLeft(OnSheet, EmptySheet, text)

(* The equation FoldLeft solves on the sets of positions. *)
SheetTurn(text, f, s) == IF s = {} THEN EmptySheet ELSE OnSheet(f[s \ {Max(s)}], text[Max(s)])
SheetLoop(text, f) == [s \in SUBSET DOMAIN text |-> SheetTurn(text, f, s)]
SolvesSheet(text, n, f) == \A s \in SUBSET (1 .. n) : f[s] = SheetTurn(text, f, s)

LEMMA SheetIsFold ==
    ASSUME NEW text
    PROVE  SheetOf(text) = (CHOOSE f : f = SheetLoop(text, f))[DOMAIN text]
  BY DEF SheetOf, FoldLeft, MapThenFoldSet, SheetLoop, SheetTurn

(* A new line begins at a tab stop: the row is a whole number of them. *)
LEMMA TabStops ==
    ASSUME NEW x \in 0 .. VIDEO_X - 1
    PROVE  /\ (x \div Tab + 1) * Tab \in Nat
           /\ x < (x \div Tab + 1) * Tab /\ (x \div Tab + 1) * Tab <= VIDEO_X
<1> DEFINE q == x \div Tab
           n == VIDEO_X \div Tab
<1>1. q \in Nat /\ n \in Nat /\ VIDEO_X = n * Tab /\ q * Tab <= x /\ x < q * Tab + Tab
  BY ScreenAssumption
<1> HIDE DEF q, n
<1>2. (q + 1) * Tab = q * Tab + Tab /\ q * Tab \in Nat
  BY <1>1, ScreenAssumption
<1>3. q * Tab < n * Tab
  BY <1>1, <1>2, ScreenAssumption
<1>4. q < n
  BY <1>1, <1>3, ScreenAssumption
<1>5. (q + 1) * Tab <= n * Tab
  BY <1>1, <1>4, ScreenAssumption
<1>6. QED
  BY <1>1, <1>2, <1>5, ScreenAssumption DEF q

LEMMA WrittenCells ==
    ASSUME NEW cells \in Cells, NEW p \in Int \X Nat, NEW c \in Char \cup {Blank}
    PROVE  WithCell(cells, p, c) \in Cells
<1>1. PICK places \in SUBSET (Int \X Nat) : cells \in [places -> Char \cup {Blank}]
  BY DEF Cells
<1>2. WithCell(cells, p, c) \in [places \cup {p} -> Char \cup {Blank}]
  BY <1>1 DEF WithCell
<1>3. places \cup {p} \in SUBSET (Int \X Nat)
  BY <1>1
<1>4. QED
  BY <1>2, <1>3 DEF Cells

LEMMA SheetClosed ==
    ASSUME NEW sheet \in SheetSpace, NEW c \in Char
    PROVE  OnSheet(sheet, c) \in SheetSpace
<1> DEFINE x == IF sheet.x = VIDEO_X THEN 0 ELSE sheet.x
           y == IF sheet.x = VIDEO_X THEN sheet.y + 1 ELSE sheet.y
           before == IF x = 0 THEN 0 ELSE x - 1
<1>1. /\ sheet = [x |-> sheet.x, y |-> sheet.y, cells |-> sheet.cells]
      /\ x \in 0 .. VIDEO_X - 1 /\ y \in Nat /\ before \in 0 .. VIDEO_X - 1
      /\ sheet.cells \in Cells
  BY ScreenAssumption DEF SheetSpace
<1>2. <<before, y>> \in Int \X Nat /\ <<x, y>> \in Int \X Nat
  BY <1>1
<1>3. (x \div Tab + 1) * Tab \in 0 .. VIDEO_X
  BY <1>1, TabStops
<1>4. WithCell(sheet.cells, <<before, y>>, Blank) \in Cells /\ WithCell(sheet.cells, <<x, y>>, c) \in Cells
  BY <1>1, <1>2, WrittenCells
<1> DEFINE tab == (x \div Tab + 1) * Tab
           b == WithCell(sheet.cells, <<before, y>>, Blank)
           w == WithCell(sheet.cells, <<x, y>>, c)
<1>5. OnSheet(sheet, c) =
        CASE c = "newline" -> [x |-> 0, y |-> y + 1, cells |-> sheet.cells]
          [] c = "tab" -> [x |-> tab, y |-> y, cells |-> sheet.cells]
          [] c = "backspace" -> [x |-> before, y |-> y, cells |-> b]
          [] OTHER -> [x |-> x + 1, y |-> y, cells |-> w]
  BY DEF OnSheet
<1>6. /\ 0 \in 0 .. VIDEO_X /\ y + 1 \in Nat /\ tab \in 0 .. VIDEO_X
      /\ before \in 0 .. VIDEO_X /\ x + 1 \in 0 .. VIDEO_X /\ b \in Cells /\ w \in Cells
  BY <1>1, <1>3, <1>4, ScreenAssumption
<1> HIDE DEF x, y, before, tab, b, w
<1>7. OnSheet(sheet, c) \in
        {[x |-> 0, y |-> y + 1, cells |-> sheet.cells], [x |-> tab, y |-> y, cells |-> sheet.cells],
         [x |-> before, y |-> y, cells |-> b], [x |-> x + 1, y |-> y, cells |-> w]}
  BY <1>5
<1>8. QED
  BY <1>1, <1>6, <1>7 DEF SheetSpace

LEMMA EmptyIsSheet == EmptySheet \in SheetSpace
<1>1. <<>> \in [{} -> Char \cup {Blank}]
  OBVIOUS
<1>2. <<>> \in Cells
  BY <1>1 DEF Cells
<1>3. QED
  BY <1>2, ScreenAssumption DEF EmptySheet, SheetSpace

(* What Max chooses. *)
LEMMA LastOne ==
    ASSUME NEW n \in Nat, NEW s \in SUBSET (1 .. n), s # {}
    PROVE  Max(s) \in s /\ \A y \in s : Max(s) >= y
<1> DEFINE Rest == {n - x : x \in s}
<1>1. Rest \subseteq Nat /\ Rest # {}
  <2>1. \A x \in s : n - x \in Nat
    OBVIOUS
  <2>2. QED
    BY <2>1
<1>2. PICK r \in Rest : \A q \in Rest : r <= q
  <2> HIDE DEF Rest
  <2>1. QED
    BY <1>1, FirstOne
<1>3. PICK x \in s : r = n - x
  OBVIOUS
<1>4. \A y \in s : x >= y
  <2>1. ASSUME NEW y \in s
        PROVE  x >= y
    <3>1. n - y \in Rest
      OBVIOUS
    <3>2. n - x <= n - y
      BY <1>2, <1>3, <3>1
    <3>3. QED
      BY <3>2
  <2>2. QED
    BY <2>1
<1>5. QED
  BY <1>3, <1>4 DEF Max

(* There is a solution, for as many positions as wanted: ... *)
LEMMA SolutionExists ==
    ASSUME NEW text \in Seq(Char)
    PROVE  \A n \in 0 .. Len(text) : \E f \in [SUBSET (1 .. n) -> SheetSpace] : SolvesSheet(text, n, f)
<1> DEFINE Good(n) == \E f \in [SUBSET (1 .. n) -> SheetSpace] : SolvesSheet(text, n, f)
           Bad == {n \in 0 .. Len(text) : ~ Good(n)}
<1> SUFFICES ASSUME Bad # {} PROVE FALSE
  OBVIOUS
<1>0. Bad \subseteq Nat
  OBVIOUS
<1>1. PICK n \in Bad : \A k \in Bad : n <= k
  <2> HIDE DEF Bad
  <2>1. QED
    BY <1>0, FirstOne
<1>2. n \in 0 .. Len(text) /\ ~ Good(n)
  OBVIOUS
<1>3. CASE n = 0
  <2> DEFINE g == [s \in SUBSET (1 .. 0) |-> EmptySheet]
  <2>1. g \in [SUBSET (1 .. 0) -> SheetSpace]
    BY EmptyIsSheet
  <2>2. \A s \in SUBSET (1 .. 0) : s = {}
    OBVIOUS
  <2>3. SolvesSheet(text, 0, g)
    BY <2>2 DEF SolvesSheet, SheetTurn
  <2>4. QED
    BY <1>2, <1>3, <2>1, <2>3
<1>4. CASE n # 0
  <2>1. n - 1 \in 0 .. Len(text) /\ n \in 1 .. Len(text) /\ n \in Nat
    BY <1>2, <1>4
  <2>2. Good(n - 1)
    <3>1. n - 1 \notin Bad
      <4> HIDE DEF Bad
      <4>1. QED
        BY <1>0, <1>1
    <3>2. QED
      BY <2>1, <3>1
  <2>3. PICK f \in [SUBSET (1 .. n - 1) -> SheetSpace] : SolvesSheet(text, n - 1, f)
    BY <2>2
  <2> DEFINE rest(s) == s \ {n}
             g == [s \in SUBSET (1 .. n) |-> IF n \in s THEN OnSheet(f[rest(s)], text[n]) ELSE f[s]]
  <2>4. \A s \in SUBSET (1 .. n) : rest(s) \in SUBSET (1 .. n - 1) /\ (n \notin s => s \in SUBSET (1 .. n - 1))
    OBVIOUS
  <2>5. text[n] \in Char
    BY <2>1
  <2>6. g \in [SUBSET (1 .. n) -> SheetSpace]
    <3>1. ASSUME NEW s \in SUBSET (1 .. n)
          PROVE  (IF n \in s THEN OnSheet(f[rest(s)], text[n]) ELSE f[s]) \in SheetSpace
      <4>1. CASE n \in s
        <5>1. f[rest(s)] \in SheetSpace
          BY <2>3, <2>4
        <5>2. QED
          BY <2>5, <4>1, <5>1, SheetClosed
      <4>2. CASE n \notin s
        BY <2>3, <2>4, <4>2
      <4>3. QED
        BY <4>1, <4>2
    <3>2. QED
      BY <3>1
  <2>7. SolvesSheet(text, n, g)
    <3> SUFFICES ASSUME NEW s \in SUBSET (1 .. n)
                 PROVE  g[s] = SheetTurn(text, g, s)
      BY DEF SolvesSheet
    <3>1. CASE n \in s
      <4>1. Max(s) = n
        <5>1. Max(s) \in s /\ Max(s) >= n
          BY <2>1, <3>1, LastOne
        <5>2. Max(s) \in 1 .. n
          BY <5>1
        <5>3. QED
          BY <2>1, <5>1, <5>2
      <4>2. rest(s) \in SUBSET (1 .. n) /\ n \notin rest(s)
        OBVIOUS
      <4>3. g[rest(s)] = f[rest(s)]
        BY <4>2
      <4>4. g[s] = OnSheet(f[rest(s)], text[n])
        BY <3>1
      <4> HIDE DEF g
      <4>5. QED
        BY <3>1, <4>1, <4>3, <4>4 DEF SheetTurn
    <3>2. CASE n \notin s
      <4>1. s \in SUBSET (1 .. n - 1)
        BY <2>4, <3>2
      <4>2. f[s] = SheetTurn(text, f, s)
        BY <2>3, <4>1 DEF SolvesSheet
      <4>3. g[s] = f[s]
        BY <3>2
      <4>4. g[s \ {Max(s)}] = f[s \ {Max(s)}]
        BY <3>2
      <4> HIDE DEF g
      <4>5. QED
        BY <4>2, <4>3, <4>4 DEF SheetTurn
    <3>3. QED
      BY <3>1, <3>2
  <2>8. QED
    BY <1>2, <2>6, <2>7
<1>5. QED
  BY <1>3, <1>4

(* ... and on the same text solutions agree. *)
LEMMA SolutionsAgree ==
    ASSUME NEW text, NEW other, NEW n \in Nat, \A k \in 1 .. n : text[k] = other[k],
           NEW f, NEW g, SolvesSheet(text, n, f), SolvesSheet(other, n, g)
    PROVE  \A s \in SUBSET (1 .. n) : f[s] = g[s]
<1> DEFINE Bad == {k \in 0 .. n : \E s \in SUBSET (1 .. k) : f[s] # g[s]}
<1>1. Bad \subseteq Nat
  OBVIOUS
<1>2. ASSUME Bad # {} PROVE FALSE
  <2>1. PICK k \in Bad : \A q \in Bad : k <= q
    <3> HIDE DEF Bad
    <3>1. QED
      BY <1>1, <1>2, FirstOne
  <2>2. k \in 0 .. n
    OBVIOUS
  <2>3. PICK s \in SUBSET (1 .. k) : f[s] # g[s]
    OBVIOUS
  <2>4. s \in SUBSET (1 .. n)
    BY <2>2
  <2>5. f[s] = SheetTurn(text, f, s) /\ g[s] = SheetTurn(other, g, s)
    BY <2>4 DEF SolvesSheet
  <2>6. s # {}
    BY <2>3, <2>5 DEF SheetTurn
  <2>7. Max(s) \in s /\ \A y \in s : Max(s) >= y
    <3>1. k \in Nat /\ s \in SUBSET (1 .. k)
      BY <2>2, <2>3
    <3>2. QED
      BY <2>6, <3>1, LastOne
  <2> DEFINE last == Max(s)
  <2> HIDE DEF last, Bad
  <2>8. last \in 1 .. k /\ k # 0 /\ k \in Nat /\ s \subseteq 1 .. k
    <3>1. last \in s /\ s \subseteq 1 .. k
      BY <2>3, <2>7 DEF last
    <3>2. QED
      BY <2>2, <3>1
  <2>9. s \ {last} \in SUBSET (1 .. k - 1)
    <3>1. ASSUME NEW y \in s, y # last
          PROVE  y \in 1 .. k - 1
      BY <2>7, <2>8, <3>1 DEF last
    <3>2. QED
      BY <3>1
  <2> USE DEF Bad
  <2>10. k - 1 \in 0 .. n /\ k - 1 \notin Bad
    <3>1. k - 1 \in 0 .. n
      BY <2>2, <2>8
    <3> HIDE DEF Bad
    <3>2. QED
      BY <1>1, <2>1, <2>2, <3>1
  <2>11. f[s \ {Max(s)}] = g[s \ {Max(s)}]
    BY <2>9, <2>10 DEF last
  <2>12. text[Max(s)] = other[Max(s)]
    BY <2>2, <2>8 DEF last
  <2>13. QED
    BY <2>3, <2>5, <2>6, <2>11, <2>12 DEF SheetTurn
<1>3. n \notin Bad
  BY <1>2
<1>4. QED
  BY <1>3

(* One more character. *)
LEMMA SheetGrows ==
    /\ SheetOf(<<>>) = EmptySheet
    /\ \A text \in Seq(Char) :
         /\ SheetOf(text) \in SheetSpace
         /\ \A c \in Char : SheetOf(Append(text, c)) = OnSheet(SheetOf(text), c)
<1> DEFINE Chosen(text) == CHOOSE f : f = SheetLoop(text, f)
<1>1. ASSUME NEW text \in Seq(Char)
      PROVE  /\ SolvesSheet(text, Len(text), Chosen(text))
             /\ SheetOf(text) = Chosen(text)[1 .. Len(text)]
             /\ SheetOf(text) \in SheetSpace
  <2>1. DOMAIN text = 1 .. Len(text) /\ Len(text) \in Nat
    OBVIOUS
  <2>2. PICK f \in [SUBSET (1 .. Len(text)) -> SheetSpace] : SolvesSheet(text, Len(text), f)
    <3>1. Len(text) \in 0 .. Len(text)
      BY <2>1
    <3>2. QED
      BY <3>1, SolutionExists
  <2>3. f = SheetLoop(text, f)
    BY <2>1, <2>2 DEF SolvesSheet, SheetLoop
  <2>4. Chosen(text) = SheetLoop(text, Chosen(text))
    BY <2>3
  <2> HIDE DEF Chosen
  <2>5. SolvesSheet(text, Len(text), Chosen(text))
    BY <2>1, <2>4 DEF SolvesSheet, SheetLoop
  <2>6. Chosen(text)[1 .. Len(text)] = f[1 .. Len(text)]
    BY <2>1, <2>2, <2>5, SolutionsAgree
  <2>7. SheetOf(text) = Chosen(text)[1 .. Len(text)]
    BY <2>1, SheetIsFold DEF Chosen
  <2>8. QED
    BY <2>2, <2>5, <2>6, <2>7
<1>2. SheetOf(<<>>) = EmptySheet
  <2>1. <<>> \in Seq(Char) /\ Len(<<>>) = 0 /\ 1 .. 0 = {}
    OBVIOUS
  <2> HIDE DEF Chosen
  <2>2. Chosen(<<>>)[{}] = SheetTurn(<<>>, Chosen(<<>>), {})
    BY <1>1, <2>1 DEF SolvesSheet
  <2>3. QED
    BY <1>1, <2>1, <2>2 DEF SheetTurn
<1>3. ASSUME NEW text \in Seq(Char), NEW c \in Char
      PROVE  SheetOf(Append(text, c)) = OnSheet(SheetOf(text), c)
  <2> DEFINE n == Len(text)
             longer == Append(text, c)
             f == Chosen(text)
             g == Chosen(longer)
  <2>1. /\ n \in Nat /\ longer \in Seq(Char) /\ Len(longer) = n + 1 /\ longer[n + 1] = c
        /\ \A k \in 1 .. n : text[k] = longer[k]
    OBVIOUS
  <2> HIDE DEF Chosen, longer
  <2>2. SolvesSheet(text, n, f) /\ SolvesSheet(longer, n + 1, g)
    BY <1>1, <2>1
  <2>3. SheetOf(text) = f[1 .. n] /\ SheetOf(longer) = g[1 .. n + 1]
    BY <1>1, <2>1
  <2> HIDE DEF n, f, g
  <2>4. SolvesSheet(longer, n, g)
    <3>1. 1 .. n \subseteq 1 .. n + 1
      BY <2>1
    <3>2. \A s \in SUBSET (1 .. n) : s \in SUBSET (1 .. n + 1)
      BY <3>1
    <3>3. QED
      BY <2>2, <3>2 DEF SolvesSheet
  <2>5. f[1 .. n] = g[1 .. n]
    <3>1. \A s \in SUBSET (1 .. n) : f[s] = g[s]
      BY <2>1, <2>2, <2>4, SolutionsAgree
    <3>2. QED
      BY <3>1
  <2>6. Max(1 .. n + 1) = n + 1
    <3>1. n + 1 \in Nat /\ n + 1 \in 1 .. n + 1 /\ 1 .. n + 1 \in SUBSET (1 .. n + 1)
      BY <2>1
    <3>2. Max(1 .. n + 1) \in 1 .. n + 1 /\ Max(1 .. n + 1) >= n + 1
      BY <3>1, LastOne
    <3>3. QED
      BY <2>1, <3>2
  <2>7. (1 .. n + 1) \ {n + 1} = 1 .. n /\ 1 .. n + 1 # {}
    <3>1. \A k : (k \in 1 .. n + 1 /\ k # n + 1) <=> k \in 1 .. n
      BY <2>1
    <3>2. n + 1 \in 1 .. n + 1
      BY <2>1
    <3>3. QED
      BY <3>1, <3>2
  <2>8. g[1 .. n + 1] = SheetTurn(longer, g, 1 .. n + 1)
    <3>1. 1 .. n + 1 \in SUBSET (1 .. n + 1)
      OBVIOUS
    <3>2. QED
      BY <2>2, <3>1 DEF SolvesSheet
  <2>9. QED
    BY <2>1, <2>3, <2>5, <2>6, <2>7, <2>8 DEF SheetTurn, longer
<1>4. QED
  BY <1>1, <1>2, <1>3

(* FlattenSeq in closed form: the texts one behind the other. *)
FlatTurn(texts, f, i) == IF i = 1 THEN texts[i] ELSE f[i - 1] \o texts[i]
FlatLoop(texts, f) == [i \in 1 .. Len(texts) |-> FlatTurn(texts, f, i)]
Flattens(texts, n, f) == \A i \in 1 .. n : f[i] = FlatTurn(texts, f, i)

LEMMA FlatIsLoop ==
    ASSUME NEW texts
    PROVE  FlattenSeq(texts) =
             IF Len(texts) = 0 THEN texts ELSE (CHOOSE f : f = FlatLoop(texts, f))[Len(texts)]
  BY DEF FlattenSeq, FlatLoop, FlatTurn

LEMMA FlatExists ==
    ASSUME NEW texts \in Seq(Seq(Char))
    PROVE  \A n \in 0 .. Len(texts) : \E f \in [1 .. n -> Seq(Char)] : Flattens(texts, n, f)
<1> DEFINE Good(n) == \E f \in [1 .. n -> Seq(Char)] : Flattens(texts, n, f)
           Bad == {n \in 0 .. Len(texts) : ~ Good(n)}
<1> SUFFICES ASSUME Bad # {} PROVE FALSE
  OBVIOUS
<1>0. Bad \subseteq Nat
  OBVIOUS
<1>1. PICK n \in Bad : \A k \in Bad : n <= k
  <2> HIDE DEF Bad
  <2>1. QED
    BY <1>0, FirstOne
<1>2. n \in 0 .. Len(texts) /\ ~ Good(n)
  OBVIOUS
<1>3. CASE n = 0
  <2> DEFINE g == [i \in 1 .. 0 |-> <<>>]
  <2>1. g \in [1 .. 0 -> Seq(Char)] /\ Flattens(texts, 0, g)
    BY DEF Flattens
  <2>2. QED
    BY <1>2, <1>3, <2>1
<1>4. CASE n # 0
  <2>1. n - 1 \in 0 .. Len(texts) /\ n \in 1 .. Len(texts) /\ n \in Nat
    BY <1>2, <1>4
  <2>2. Good(n - 1)
    <3>1. n - 1 \notin Bad
      <4> HIDE DEF Bad
      <4>1. QED
        BY <1>0, <1>1
    <3>2. QED
      BY <2>1, <3>1
  <2>3. PICK f \in [1 .. n - 1 -> Seq(Char)] : Flattens(texts, n - 1, f)
    BY <2>2
  <2> DEFINE g == [i \in 1 .. n |-> IF i = n THEN FlatTurn(texts, f, n) ELSE f[i]]
  <2>4. FlatTurn(texts, f, n) \in Seq(Char)
    <3>1. texts[n] \in Seq(Char)
      BY <2>1
    <3>2. CASE n = 1
      BY <3>1, <3>2 DEF FlatTurn
    <3>3. CASE n # 1
      <4>1. n - 1 \in 1 .. n - 1
        BY <2>1, <3>3
      <4>2. f[n - 1] \in Seq(Char)
        BY <2>3, <4>1
      <4>3. QED
        BY <3>1, <3>3, <4>2 DEF FlatTurn
    <3>4. QED
      BY <3>2, <3>3
  <2>5. g \in [1 .. n -> Seq(Char)]
    <3>1. \A i \in 1 .. n : i # n => i \in 1 .. n - 1
      BY <2>1
    <3>2. QED
      BY <2>3, <2>4, <3>1
  <2>6. Flattens(texts, n, g)
    <3> SUFFICES ASSUME NEW i \in 1 .. n
                 PROVE  g[i] = FlatTurn(texts, g, i)
      BY DEF Flattens
    <3>1. i # 1 => i - 1 \in 1 .. n /\ i - 1 # n
      BY <2>1
    <3>2. i # 1 => g[i - 1] = f[i - 1]
      BY <3>1
    <3>3. g[i] = FlatTurn(texts, f, i)
      <4>1. CASE i = n
        BY <4>1
      <4>2. CASE i # n
        <5>1. i \in 1 .. n - 1
          BY <2>1, <4>2
        <5>2. QED
          BY <2>3, <4>2, <5>1 DEF Flattens
      <4>3. QED
        BY <4>1, <4>2
    <3> HIDE DEF g
    <3>4. QED
      BY <3>2, <3>3 DEF FlatTurn
  <2>7. QED
    BY <1>2, <2>5, <2>6
<1>5. QED
  BY <1>3, <1>4

LEMMA FlatsAgree ==
    ASSUME NEW texts, NEW other, NEW n \in Nat, \A k \in 1 .. n : texts[k] = other[k],
           NEW f, NEW g, Flattens(texts, n, f), Flattens(other, n, g), n # 0
    PROVE  f[n] = g[n]
<1> DEFINE Bad == {i \in 1 .. n : f[i] # g[i]}
<1>1. Bad \subseteq Nat
  OBVIOUS
<1>2. ASSUME Bad # {} PROVE FALSE
  <2>1. PICK k \in Bad : \A q \in Bad : k <= q
    <3> HIDE DEF Bad
    <3>1. QED
      BY <1>1, <1>2, FirstOne
  <2>2. k \in 1 .. n /\ f[k] # g[k]
    OBVIOUS
  <2>3. k # 1 => k - 1 \in 1 .. n /\ k - 1 \notin Bad
    <3>1. k # 1 => k - 1 \in 1 .. n
      BY <2>2
    <3> HIDE DEF Bad
    <3>2. QED
      BY <1>1, <2>1, <2>2, <3>1
  <2>4. k # 1 => f[k - 1] = g[k - 1]
    BY <2>3
  <2>5. f[k] = FlatTurn(texts, f, k) /\ g[k] = FlatTurn(other, g, k)
    BY <2>2 DEF Flattens
  <2>6. QED
    BY <2>2, <2>4, <2>5 DEF FlatTurn
<1>3. n \in 1 .. n /\ n \notin Bad
  BY <1>2
<1>4. QED
  BY <1>3

LEMMA FlatGrows ==
    /\ FlattenSeq(<<>>) = <<>>
    /\ \A texts \in Seq(Seq(Char)) :
         /\ FlattenSeq(texts) \in Seq(Char)
         /\ \A text \in Seq(Char) : FlattenSeq(Append(texts, text)) = FlattenSeq(texts) \o text
<1> DEFINE Chosen(texts) == CHOOSE f : f = FlatLoop(texts, f)
<1>1. FlattenSeq(<<>>) = <<>>
  BY FlatIsLoop
<1>2. ASSUME NEW texts \in Seq(Seq(Char)), Len(texts) # 0
      PROVE  /\ Flattens(texts, Len(texts), Chosen(texts))
             /\ FlattenSeq(texts) = Chosen(texts)[Len(texts)]
             /\ FlattenSeq(texts) \in Seq(Char)
  <2>1. Len(texts) \in Nat /\ Len(texts) \in 0 .. Len(texts) /\ Len(texts) \in 1 .. Len(texts)
    BY <1>2
  <2>2. PICK f \in [1 .. Len(texts) -> Seq(Char)] : Flattens(texts, Len(texts), f)
    BY <2>1, FlatExists
  <2>3. f = FlatLoop(texts, f)
    BY <2>2 DEF Flattens, FlatLoop
  <2>4. Chosen(texts) = FlatLoop(texts, Chosen(texts))
    BY <2>3
  <2> HIDE DEF Chosen
  <2>5. Flattens(texts, Len(texts), Chosen(texts))
    BY <2>4 DEF Flattens, FlatLoop
  <2>6. Chosen(texts)[Len(texts)] = f[Len(texts)]
    BY <1>2, <2>1, <2>2, <2>5, FlatsAgree
  <2>7. FlattenSeq(texts) = Chosen(texts)[Len(texts)]
    BY <1>2, FlatIsLoop DEF Chosen
  <2>8. QED
    BY <2>1, <2>2, <2>5, <2>6, <2>7
<1>3. ASSUME NEW texts \in Seq(Seq(Char))
      PROVE  FlattenSeq(texts) \in Seq(Char)
  <2>1. CASE Len(texts) = 0
    <3>1. texts = <<>> /\ <<>> \in Seq(Char)
      BY <2>1
    <3>2. QED
      BY <1>1, <3>1
  <2>2. QED
    BY <1>2, <2>1
<1>4. ASSUME NEW texts \in Seq(Seq(Char)), NEW text \in Seq(Char)
      PROVE  FlattenSeq(Append(texts, text)) = FlattenSeq(texts) \o text
  <2> DEFINE n == Len(texts)
             longer == Append(texts, text)
             f == Chosen(texts)
             g == Chosen(longer)
  <2>1. /\ n \in Nat /\ longer \in Seq(Seq(Char)) /\ Len(longer) = n + 1 /\ longer[n + 1] = text
        /\ \A k \in 1 .. n : texts[k] = longer[k]
    OBVIOUS
  <2> HIDE DEF Chosen, longer
  <2>2. Flattens(longer, n + 1, g) /\ FlattenSeq(longer) = g[n + 1]
    BY <1>2, <2>1
  <2>3. g[n + 1] = FlatTurn(longer, g, n + 1)
    BY <2>1, <2>2 DEF Flattens
  <2>4. CASE n = 0
    <3>1. texts = <<>>
      BY <2>4
    <3>2. FlattenSeq(texts) \o text = text
      BY <1>1, <3>1
    <3>3. QED
      BY <2>1, <2>2, <2>3, <2>4, <3>2 DEF FlatTurn, longer
  <2>5. CASE n # 0
    <3>1. Flattens(texts, n, f) /\ FlattenSeq(texts) = f[n]
      BY <1>2, <2>5
    <3> HIDE DEF n, f, g
    <3>2. Flattens(longer, n, g)
      BY <2>1, <2>2 DEF Flattens
    <3>3. f[n] = g[n]
      <4>0. n \in Nat /\ (\A k \in 1 .. n : texts[k] = longer[k])
        BY <2>1
      <4>1. QED
        BY <2>5, <3>1, <3>2, <4>0, FlatsAgree
    <3>4. n + 1 # 1 /\ (n + 1) - 1 = n
      BY <2>1, <2>5
    <3>5. QED
      BY <2>1, <2>2, <2>3, <3>1, <3>3, <3>4 DEF FlatTurn, longer
  <2>6. QED
    BY <2>4, <2>5
<1>5. QED
  BY <1>1, <1>3, <1>4

(* The inductive invariant: what is on the screen, the cursor, and what is *)
(* left to put is the end of what is to be put.  Below the line that was   *)
(* written last the sheet is empty, and behind a new line on the last row, *)
(* for which the screen has not moved yet, that line is empty too.         *)
Shown(cells, p) == IF p \in DOMAIN cells THEN cells[p] ELSE Blank
WindowAt(rows, cells, first) ==
    \A y \in 0 .. VIDEO_Y - 1, x \in 0 .. VIDEO_X - 1 : rows[y][x] = Shown(cells, <<x, first + y>>)

ScreenTypeOK ==
    /\ video \in [0 .. VIDEO_Y - 1 -> [0 .. VIDEO_X - 1 -> Char \cup {Blank}]]
    /\ curx \in 0 .. VIDEO_X /\ cury \in 0 .. VIDEO_Y
    /\ left \in Seq(Char) /\ printed \in Seq(Seq(Char))

IsWindow(sheet) ==
    /\ sheet.y - cury >= 0 /\ curx = sheet.x
    /\ sheet.y - cury > 0 => cury >= VIDEO_Y - 1
    /\ WindowAt(video, sheet.cells, sheet.y - cury)
    /\ cury = VIDEO_Y => curx = 0
    /\ \A p \in DOMAIN sheet.cells : p[2] <= sheet.y /\ (cury = VIDEO_Y => p[2] < sheet.y)

LeftIsTheEnd ==
    /\ Len(left) <= Len(AllPut)
    /\ \A k \in 1 .. Len(left) : left[k] = AllPut[Len(AllPut) - Len(left) + k]

ConsoleInv == ScreenTypeOK /\ IsWindow(Sheet) /\ LeftIsTheEnd

(* Room for the next character: the row and the column it is put in are on *)
(* the screen, which still is a window.                                    *)
LEMMA RoomIsMade ==
    ASSUME ScreenTypeOK, NEW sheet \in SheetSpace, IsWindow(sheet),
           NEW x, x = (IF sheet.x = VIDEO_X THEN 0 ELSE sheet.x),
           NEW y, y = (IF sheet.x = VIDEO_X THEN sheet.y + 1 ELSE sheet.y)
    PROVE  /\ PutRows \in [0 .. VIDEO_Y - 1 -> [0 .. VIDEO_X - 1 -> Char \cup {Blank}]]
           /\ PutRow \in 0 .. VIDEO_Y - 1 /\ PutColumn \in 0 .. VIDEO_X - 1 /\ PutColumn = x
           /\ y \in Nat /\ y - PutRow >= 0 /\ (y - PutRow > 0 => PutRow = VIDEO_Y - 1)
           /\ WindowAt(PutRows, sheet.cells, y - PutRow)
           /\ \A p \in DOMAIN sheet.cells : p[2] <= y
<1>0. /\ VIDEO_X \in Nat \ {0} /\ VIDEO_Y \in Nat \ {0}
      /\ curx \in 0 .. VIDEO_X /\ cury \in 0 .. VIDEO_Y
      /\ video \in [0 .. VIDEO_Y - 1 -> [0 .. VIDEO_X - 1 -> Char \cup {Blank}]]
      /\ sheet.x = curx /\ sheet.y \in Nat /\ sheet.y - cury >= 0
      /\ sheet.y - cury > 0 => cury >= VIDEO_Y - 1
      /\ cury = VIDEO_Y => curx = 0
  BY ScreenAssumption DEF ScreenTypeOK, IsWindow, SheetSpace
<1>1. DOMAIN sheet.cells \subseteq Int \X Nat
  BY DEF SheetSpace, Cells
<1>2. \A p \in DOMAIN sheet.cells : p[2] \in Nat /\ p[2] <= sheet.y /\ (cury = VIDEO_Y => p[2] < sheet.y)
  BY <1>1 DEF IsWindow
<1>3. WindowAt(video, sheet.cells, sheet.y - cury)
  BY DEF IsWindow
<1>4. CASE Scrolls
  <2>1. /\ PutRow = VIDEO_Y - 1 /\ PutColumn = 0 /\ x = 0 /\ y \in Nat
        /\ y - PutRow = sheet.y - cury + 1
        /\ PutRows = scroll(video, 1)
        /\ sheet.y <= y
    BY <1>0, <1>4 DEF Scrolls, Wrapped, PutRow, PutColumn, PutRows
  <2>2. ASSUME NEW r \in 0 .. VIDEO_Y - 1
        PROVE  scroll(video, 1)[r] = IF r + 1 \in 0 .. VIDEO_Y - 1 THEN video[r + 1] ELSE EmptyRow
    BY <1>0 DEF scroll
  <2>3. PutRows \in [0 .. VIDEO_Y - 1 -> [0 .. VIDEO_X - 1 -> Char \cup {Blank}]]
    BY <1>0, <2>1 DEF scroll, EmptyRow
  <2>4. ASSUME NEW r \in 0 .. VIDEO_Y - 1, NEW c \in 0 .. VIDEO_X - 1
        PROVE  PutRows[r][c] = Shown(sheet.cells, <<c, (y - PutRow) + r>>)
    <3>1. CASE r + 1 \in 0 .. VIDEO_Y - 1
      <4>1. PutRows[r][c] = video[r + 1][c]
        BY <2>1, <2>2, <3>1
      <4>2. video[r + 1][c] = Shown(sheet.cells, <<c, (sheet.y - cury) + (r + 1)>>)
        BY <1>3, <3>1 DEF WindowAt
      <4>3. (sheet.y - cury) + (r + 1) = (y - PutRow) + r
        <5> DEFINE old == sheet.y - cury
                   now == y - PutRow
        <5>1. old \in Int /\ now = old + 1 /\ r \in Int
          BY <1>0, <2>1
        <5> HIDE DEF old, now
        <5>2. old + (r + 1) = now + r
          BY <5>1
        <5>3. QED
          BY <5>2 DEF old, now
      <4>4. QED
        BY <4>1, <4>2, <4>3
    <3>2. CASE r + 1 \notin 0 .. VIDEO_Y - 1
      <4>1. PutRows[r][c] = Blank
        BY <2>1, <2>2, <3>2 DEF EmptyRow
      <4>2. r = VIDEO_Y - 1
        BY <1>0, <3>2
      <4>3. (y - PutRow) + r = y
        BY <1>0, <2>1, <4>2
      <4>4. cury # VIDEO_Y => y = sheet.y + 1
        BY <1>0, <1>4 DEF Scrolls
      <4>5. <<c, y>> \notin DOMAIN sheet.cells
        BY <1>0, <1>2, <2>1, <4>4
      <4>6. QED
        BY <4>1, <4>3, <4>5 DEF Shown
    <3>3. QED
      BY <3>1, <3>2
  <2>5. ASSUME NEW p \in DOMAIN sheet.cells
        PROVE  p[2] <= y
    <3>1. p[2] \in Nat /\ p[2] <= sheet.y
      BY <1>2
    <3>2. sheet.y \in Nat /\ y \in Nat /\ sheet.y <= y
      BY <1>0, <2>1
    <3>3. QED
      BY <3>1, <3>2
  <2>6. PutRow \in 0 .. VIDEO_Y - 1 /\ PutColumn \in 0 .. VIDEO_X - 1 /\ y - PutRow >= 0
    BY <1>0, <2>1
  <2>7. QED
    BY <2>1, <2>3, <2>4, <2>5, <2>6 DEF WindowAt
<1>5. CASE ~ Scrolls
  <2>1. /\ PutRow \in 0 .. VIDEO_Y - 1 /\ PutColumn \in 0 .. VIDEO_X - 1 /\ PutColumn = x /\ y \in Nat
        /\ y - PutRow = sheet.y - cury
        /\ y - PutRow > 0 => PutRow = VIDEO_Y - 1
        /\ PutRows = video
        /\ sheet.y <= y
    BY <1>0, <1>5 DEF Scrolls, Wrapped, PutRow, PutColumn, PutRows
  <2>2. \A p \in DOMAIN sheet.cells : p[2] <= y
    BY <1>0, <1>2, <2>1
  <2>3. QED
    BY <1>0, <1>3, <2>1, <2>2
<1>6. QED
  BY <1>4, <1>5

(* A place is written, on the screen and on the sheet. *)
BothWritten(rows, cells, first, r, c, char) ==
    LET new == WithCell(cells, <<c, first + r>>, char)
        after == [rows EXCEPT ![r] = WithCell(rows[r], c, char)]
    IN  /\ after \in [0 .. VIDEO_Y - 1 -> [0 .. VIDEO_X - 1 -> Char \cup {Blank}]]
        /\ WindowAt(after, new, first)
        /\ DOMAIN new = DOMAIN cells \cup {<<c, first + r>>}

LEMMA BothAreWritten ==
    ASSUME NEW cells, DOMAIN cells \subseteq Int \X Nat,
           NEW rows \in [0 .. VIDEO_Y - 1 -> [0 .. VIDEO_X - 1 -> Char \cup {Blank}]],
           NEW first \in Int, WindowAt(rows, cells, first),
           NEW r \in 0 .. VIDEO_Y - 1, NEW c \in 0 .. VIDEO_X - 1,
           NEW char \in Char \cup {Blank}
    PROVE  BothWritten(rows, cells, first, r, c, char)
<1> DEFINE new == WithCell(cells, <<c, first + r>>, char)
           after == [rows EXCEPT ![r] = WithCell(rows[r], c, char)]
<1>1. DOMAIN new = DOMAIN cells \cup {<<c, first + r>>}
  BY DEF WithCell
<1>2. rows[r] \in [0 .. VIDEO_X - 1 -> Char \cup {Blank}]
  OBVIOUS
<1>3. DOMAIN rows[r] \cup {c} = 0 .. VIDEO_X - 1
  BY <1>2
<1>4. WithCell(rows[r], c, char) = [rows[r] EXCEPT ![c] = char]
  BY <1>2, <1>3 DEF WithCell
<1>5. after \in [0 .. VIDEO_Y - 1 -> [0 .. VIDEO_X - 1 -> Char \cup {Blank}]]
  BY <1>2, <1>4
<1>6. ASSUME NEW y \in 0 .. VIDEO_Y - 1, NEW x \in 0 .. VIDEO_X - 1
      PROVE  after[y][x] = Shown(new, <<x, first + y>>)
  <2>1. rows[y][x] = Shown(cells, <<x, first + y>>)
    BY DEF WindowAt
  <2>2. CASE y = r /\ x = c
    <3>1. after[y][x] = char
      BY <1>2, <1>4, <2>2
    <3>2. Shown(new, <<x, first + y>>) = char
      BY <2>2 DEF Shown, WithCell
    <3>3. QED
      BY <3>1, <3>2
  <2>3. CASE ~ (y = r /\ x = c)
    <3>1. after[y][x] = rows[y][x]
      BY <1>2, <1>4, <2>3
    <3>2. <<x, first + y>> # <<c, first + r>>
      <4>1. x # c \/ first + y # first + r
        BY <2>3, ScreenAssumption
      <4>2. QED
        BY <4>1
    <3>3. Shown(new, <<x, first + y>>) = Shown(cells, <<x, first + y>>)
      BY <3>2 DEF Shown, WithCell
    <3>4. QED
      BY <2>1, <3>1, <3>3
  <2>4. QED
    BY <2>2, <2>3
<1>7. QED
  BY <1>1, <1>5, <1>6 DEF WindowAt, BothWritten

(* kput puts the same on the screen as on the sheet. *)
LEMMA PutKeepsTheWindow ==
    ASSUME ScreenTypeOK, NEW sheet \in SheetSpace, IsWindow(sheet),
           NEW char \in Char, kput(char), NEW new, new = OnSheet(sheet, char)
    PROVE  /\ video' \in [0 .. VIDEO_Y - 1 -> [0 .. VIDEO_X - 1 -> Char \cup {Blank}]]
           /\ curx' \in 0 .. VIDEO_X /\ cury' \in 0 .. VIDEO_Y
           /\ new.y - cury' >= 0 /\ curx' = new.x
           /\ new.y - cury' > 0 => cury' >= VIDEO_Y - 1
           /\ WindowAt(video', new.cells, new.y - cury')
           /\ cury' = VIDEO_Y => curx' = 0
           /\ \A p \in DOMAIN new.cells : p[2] <= new.y /\ (cury' = VIDEO_Y => p[2] < new.y)
<1> DEFINE x == IF sheet.x = VIDEO_X THEN 0 ELSE sheet.x
           y == IF sheet.x = VIDEO_X THEN sheet.y + 1 ELSE sheet.y
           before == IF x = 0 THEN 0 ELSE x - 1
           first == y - PutRow
<1>0. VIDEO_X \in Nat \ {0} /\ VIDEO_Y \in Nat \ {0}
  BY ScreenAssumption
<1>1. /\ PutRows \in [0 .. VIDEO_Y - 1 -> [0 .. VIDEO_X - 1 -> Char \cup {Blank}]]
      /\ PutRow \in 0 .. VIDEO_Y - 1 /\ PutColumn \in 0 .. VIDEO_X - 1 /\ PutColumn = x
      /\ y \in Nat /\ first >= 0 /\ (first > 0 => PutRow = VIDEO_Y - 1)
      /\ WindowAt(PutRows, sheet.cells, first)
      /\ \A p \in DOMAIN sheet.cells : p[2] <= y
  BY RoomIsMade
<1>2. DOMAIN sheet.cells \subseteq Int \X Nat
  BY DEF SheetSpace, Cells
<1>3. /\ x \in 0 .. VIDEO_X - 1 /\ before \in 0 .. VIDEO_X - 1
      /\ first \in Int /\ first + PutRow = y
  <2>1. x \in 0 .. VIDEO_X - 1
    BY <1>1
  <2>2. before \in 0 .. VIDEO_X - 1
    <3> HIDE DEF x
    <3>1. QED
      BY <1>0, <2>1
  <2>3. first \in Int /\ first + PutRow = y
    <3>1. y \in Nat /\ PutRow \in Int
      BY <1>0, <1>1
    <3> HIDE DEF y
    <3>2. QED
      BY <3>1
  <2>4. QED
    BY <2>1, <2>2, <2>3
<1>4. OnSheet(sheet, char) =
        CASE char = "newline" -> [x |-> 0, y |-> y + 1, cells |-> sheet.cells]
          [] char = "tab" -> [x |-> (x \div Tab + 1) * Tab, y |-> y, cells |-> sheet.cells]
          [] char = "backspace" -> [x |-> before, y |-> y, cells |-> WithCell(sheet.cells, <<before, y>>, Blank)]
          [] OTHER -> [x |-> x + 1, y |-> y, cells |-> WithCell(sheet.cells, <<x, y>>, char)]
  BY DEF OnSheet
<1>5. /\ (x \div Tab + 1) * Tab \in 0 .. VIDEO_X
  BY <1>1, TabStops
<1> HIDE DEF x, y, before, first
<1>6. CASE char = "newline"
  <2>1. new.x = 0 /\ new.y = y + 1 /\ new.cells = sheet.cells
    BY <1>4, <1>6
  <2>2. video' = PutRows /\ cury' = PutRow + 1 /\ curx' = 0
    BY <1>6 DEF kput
  <2>3. new.y - cury' = first
    BY <1>1, <2>1, <2>2 DEF first
  <2>4. WindowAt(video', new.cells, first)
    BY <1>1, <2>1, <2>2 DEF WindowAt, Shown
  <2>5. cury' \in 0 .. VIDEO_Y /\ curx' \in 0 .. VIDEO_X /\ (first > 0 => cury' >= VIDEO_Y - 1)
    BY <1>0, <1>1, <2>2
  <2>6. ASSUME NEW p \in DOMAIN new.cells
        PROVE  p[2] <= new.y /\ p[2] < new.y
    <3>1. p[2] \in Nat /\ p[2] <= y
      BY <1>1, <1>2, <2>1
    <3>2. QED
      BY <1>1, <2>1, <3>1
  <2>7. QED
    BY <1>1, <2>1, <2>2, <2>3, <2>4, <2>5, <2>6
<1>7. ASSUME char # "newline", cury' = PutRow, curx' = new.x, new.y = y, curx' \in 0 .. VIDEO_X,
             video' \in [0 .. VIDEO_Y - 1 -> [0 .. VIDEO_X - 1 -> Char \cup {Blank}]],
             WindowAt(video', new.cells, first),
             \A p \in DOMAIN new.cells : p \in DOMAIN sheet.cells \/ p[2] = y
      PROVE  /\ video' \in [0 .. VIDEO_Y - 1 -> [0 .. VIDEO_X - 1 -> Char \cup {Blank}]]
             /\ curx' \in 0 .. VIDEO_X /\ cury' \in 0 .. VIDEO_Y
             /\ new.y - cury' >= 0 /\ curx' = new.x
             /\ new.y - cury' > 0 => cury' >= VIDEO_Y - 1
             /\ WindowAt(video', new.cells, new.y - cury')
             /\ cury' = VIDEO_Y => curx' = 0
             /\ \A p \in DOMAIN new.cells : p[2] <= new.y /\ (cury' = VIDEO_Y => p[2] < new.y)
  <2>1. new.y - cury' = first
    BY <1>7 DEF first
  <2>2. cury' \in 0 .. VIDEO_Y /\ cury' # VIDEO_Y /\ (first > 0 => cury' >= VIDEO_Y - 1)
    BY <1>0, <1>1, <1>7
  <2>3. \A p \in DOMAIN new.cells : p[2] <= new.y
    BY <1>1, <1>7
  <2>4. QED
    BY <1>1, <1>7, <2>1, <2>2, <2>3
<1>8. CASE char = "tab"
  <2>1. new.x = (x \div Tab + 1) * Tab /\ new.y = y /\ new.cells = sheet.cells
    BY <1>4, <1>8
  <2>2. video' = PutRows /\ cury' = PutRow /\ curx' = (x \div Tab + 1) * Tab
    BY <1>1, <1>8 DEF kput
  <2>3. WindowAt(video', new.cells, first)
    BY <1>1, <2>1, <2>2 DEF WindowAt, Shown
  <2>4. QED
    BY <1>1, <1>5, <1>7, <1>8, <2>1, <2>2, <2>3
<1>9. CASE char = "backspace"
  <2>1. new.x = before /\ new.y = y /\ new.cells = WithCell(sheet.cells, <<before, first + PutRow>>, Blank)
    BY <1>3, <1>4, <1>9
  <2>2. cury' = PutRow /\ curx' = before /\ video' = [PutRows EXCEPT ![PutRow] = WithCell(PutRows[PutRow], before, Blank)]
    BY <1>1, <1>9 DEF kput, before
  <2>3. /\ video' \in [0 .. VIDEO_Y - 1 -> [0 .. VIDEO_X - 1 -> Char \cup {Blank}]]
        /\ WindowAt(video', new.cells, first)
        /\ DOMAIN new.cells = DOMAIN sheet.cells \cup {<<before, first + PutRow>>}
    <3> DEFINE cells == WithCell(sheet.cells, <<before, first + PutRow>>, Blank)
               rows == [PutRows EXCEPT ![PutRow] = WithCell(PutRows[PutRow], before, Blank)]
    <3>1. Blank \in Char \cup {Blank}
      OBVIOUS
    <3>2. BothWritten(PutRows, sheet.cells, first, PutRow, before, Blank)
      BY <1>1, <1>2, <1>3, <3>1, BothAreWritten
    <3>3. /\ rows \in [0 .. VIDEO_Y - 1 -> [0 .. VIDEO_X - 1 -> Char \cup {Blank}]]
          /\ WindowAt(rows, cells, first)
          /\ DOMAIN cells = DOMAIN sheet.cells \cup {<<before, first + PutRow>>}
      BY <3>2 DEF BothWritten
    <3> HIDE DEF cells, rows
    <3>4. new.cells = cells /\ video' = rows
      BY <2>1, <2>2 DEF cells, rows
    <3>5. QED
      BY <3>3, <3>4
  <2>4. \A p \in DOMAIN new.cells : p \in DOMAIN sheet.cells \/ p[2] = y
    BY <1>3, <2>3
  <2>5. curx' \in 0 .. VIDEO_X
    BY <1>0, <1>3, <2>2
  <2>6. QED
    BY <1>7, <1>9, <2>1, <2>2, <2>3, <2>4, <2>5
<1>10. CASE char \notin {"newline", "tab", "backspace"}
  <2>1. new.x = x + 1 /\ new.y = y /\ new.cells = WithCell(sheet.cells, <<x, first + PutRow>>, char)
    BY <1>3, <1>4, <1>10
  <2>2. cury' = PutRow /\ curx' = x + 1 /\ video' = [PutRows EXCEPT ![PutRow] = WithCell(PutRows[PutRow], x, char)]
    BY <1>1, <1>10 DEF kput
  <2>3. /\ video' \in [0 .. VIDEO_Y - 1 -> [0 .. VIDEO_X - 1 -> Char \cup {Blank}]]
        /\ WindowAt(video', new.cells, first)
        /\ DOMAIN new.cells = DOMAIN sheet.cells \cup {<<x, first + PutRow>>}
    <3> DEFINE cells == WithCell(sheet.cells, <<x, first + PutRow>>, char)
               rows == [PutRows EXCEPT ![PutRow] = WithCell(PutRows[PutRow], x, char)]
    <3>1. char \in Char \cup {Blank}
      OBVIOUS
    <3>2. BothWritten(PutRows, sheet.cells, first, PutRow, x, char)
      BY <1>1, <1>2, <1>3, <3>1, BothAreWritten
    <3>3. /\ rows \in [0 .. VIDEO_Y - 1 -> [0 .. VIDEO_X - 1 -> Char \cup {Blank}]]
          /\ WindowAt(rows, cells, first)
          /\ DOMAIN cells = DOMAIN sheet.cells \cup {<<x, first + PutRow>>}
      BY <3>2 DEF BothWritten
    <3> HIDE DEF cells, rows
    <3>4. new.cells = cells /\ video' = rows
      BY <2>1, <2>2 DEF cells, rows
    <3>5. QED
      BY <3>3, <3>4
  <2>4. \A p \in DOMAIN new.cells : p \in DOMAIN sheet.cells \/ p[2] = y
    BY <1>3, <2>3
  <2>5. curx' \in 0 .. VIDEO_X
    BY <1>0, <1>1, <2>2
  <2>6. QED
    BY <1>7, <1>10, <2>1, <2>2, <2>3, <2>4, <2>5
<1>11. QED
  BY <1>6, <1>8, <1>9, <1>10

(* Something is left to put: the sheet gets the next character. *)
LEMMA PutWritesTheSheet ==
    ASSUME ScreenTypeOK, LeftIsTheEnd, kputs
    PROVE  /\ AllPut \in Seq(Char) /\ Head(left) \in Char /\ Sheet \in SheetSpace
           /\ Sheet' = OnSheet(Sheet, Head(left))
           /\ left' \in Seq(Char) /\ LeftIsTheEnd'
<1> DEFINE all == AllPut
           n == Len(all) - Len(left)
<1>1. all \in Seq(Char) /\ left \in Seq(Char) /\ left # <<>> /\ left' = Tail(left) /\ printed' = printed
  BY FlatGrows DEF ScreenTypeOK, kputs, AllPut
<1>2. all' = all
  BY <1>1 DEF AllPut
<1>3. /\ Len(left) \in Nat \ {0} /\ Len(left) <= Len(all) /\ Len(all) \in Nat
      /\ \A k \in 1 .. Len(left) : left[k] = all[Len(all) - Len(left) + k]
  BY <1>1 DEF LeftIsTheEnd
<1>4. /\ Len(left') = Len(left) - 1 /\ left' \in Seq(Char)
      /\ \A k \in 1 .. Len(left) - 1 : left'[k] = left[k + 1]
      /\ Head(left) = left[1] /\ Head(left) \in Char
  BY <1>1
<1> HIDE DEF all
<1>5. n \in 0 .. Len(all) - 1 /\ n + 1 = Len(all) - Len(left') /\ Head(left) = all[n + 1]
  BY <1>3, <1>4
<1> HIDE DEF n
<1>6. SubSeq(all, 1, n) \in Seq(Char) /\ SubSeq(all, 1, n + 1) = Append(SubSeq(all, 1, n), all[n + 1])
  BY <1>1, <1>3, <1>5
<1>7. Sheet = SheetOf(SubSeq(all, 1, n)) /\ Sheet' = SheetOf(SubSeq(all, 1, n + 1))
  <2>1. Sheet = SheetOf(SubSeq(all, 1, n))
    BY DEF Sheet, SheetOf, EmptySheet, all, n
  <2>2. Sheet' = SheetOf(SubSeq(all', 1, Len(all') - Len(left')))
    BY DEF Sheet, SheetOf, EmptySheet, all
  <2>3. QED
    BY <1>2, <1>5, <2>1, <2>2
<1>8. LeftIsTheEnd'
  <2>1. Len(left') <= Len(all)
    BY <1>3, <1>4
  <2>2. ASSUME NEW k \in 1 .. Len(left')
        PROVE  left'[k] = all[Len(all) - Len(left') + k]
    <3>1. k + 1 \in 1 .. Len(left) /\ k \in 1 .. Len(left) - 1
      BY <1>3, <1>4
    <3>2. Len(all) - Len(left) + (k + 1) = Len(all) - Len(left') + k
      BY <1>3, <1>4
    <3>3. QED
      BY <1>3, <1>4, <3>1, <3>2
  <2>3. QED
    BY <1>2, <2>1, <2>2 DEF LeftIsTheEnd, all
<1>9. Sheet \in SheetSpace /\ Sheet' = OnSheet(Sheet, Head(left))
  <2> DEFINE before == SubSeq(all, 1, n)
  <2>1. before \in Seq(Char) /\ Sheet = SheetOf(before) /\ Sheet' = SheetOf(Append(before, Head(left)))
    BY <1>5, <1>6, <1>7
  <2> HIDE DEF before
  <2>2. QED
    BY <1>4, <2>1, SheetGrows
<1>10. QED
  BY <1>1, <1>4, <1>8, <1>9 DEF all

(* A message is taken: it is at the end of what is to be put. *)
LEMMA PrintfKeepsTheSheet ==
    ASSUME ScreenTypeOK, NEW message \in Messages, kprintf_message(message)
    PROVE  ScreenTypeOK' /\ Sheet' = Sheet /\ LeftIsTheEnd'
<1> DEFINE text == kprintfstrcol_scr(message.fmt, message.args)
<1>1. text \in Seq(Char)
  <2>1. text \in Seq(Range(text))
    BY ScreenAssumption
  <2>2. Range(text) \subseteq Char
    BY DEF Char
  <2> HIDE DEF text
  <2>3. QED
    BY <2>1, <2>2
<1>2. left = <<>> /\ left' = text /\ printed' = Append(printed, text) /\ UNCHANGED <<video, curx, cury>>
  BY DEF kprintf_message
<1> HIDE DEF text
<1>3. printed \in Seq(Seq(Char)) /\ printed' \in Seq(Seq(Char))
  BY <1>1, <1>2 DEF ScreenTypeOK
<1>4. AllPut \in Seq(Char) /\ AllPut' = AllPut \o text
  BY <1>1, <1>2, <1>3, FlatGrows DEF AllPut
<1> DEFINE all == AllPut
<1>5. ScreenTypeOK'
  BY <1>1, <1>2, <1>3 DEF ScreenTypeOK
<1> HIDE DEF all
<1>6. all \in Seq(Char) /\ all' = all \o text /\ all' \in Seq(Char) /\ Len(left) = 0
  BY <1>1, <1>2, <1>4 DEF all
<1>7. Len(all') = Len(all) + Len(text) /\ Len(all) \in Nat /\ Len(text) \in Nat
  BY <1>1, <1>6
<1>8. SubSeq(all', 1, Len(all') - Len(left')) = SubSeq(all, 1, Len(all) - Len(left))
  <2>1. Len(all') - Len(left') = Len(all) /\ Len(all) - Len(left) = Len(all)
    BY <1>2, <1>6, <1>7
  <2>2. SubSeq(all \o text, 1, Len(all)) = SubSeq(all, 1, Len(all))
    BY <1>1, <1>6
  <2>3. QED
    BY <1>6, <2>1, <2>2
<1>9. Sheet' = Sheet
  BY <1>8 DEF Sheet, all
<1>10. LeftIsTheEnd'
  <2>1. Len(left') <= Len(all')
    BY <1>2, <1>7
  <2>2. ASSUME NEW k \in 1 .. Len(left')
        PROVE  left'[k] = all'[Len(all') - Len(left') + k]
    <3>1. Len(all') - Len(left') + k = Len(all) + k /\ k \in 1 .. Len(text)
      BY <1>2, <1>7
    <3>2. (all \o text)[Len(all) + k] = text[k]
      BY <1>1, <1>6, <1>7, <3>1
    <3>3. QED
      BY <1>2, <1>6, <3>1, <3>2
  <2>3. QED
    BY <2>1, <2>2 DEF LeftIsTheEnd, all
<1>11. QED
  BY <1>5, <1>9, <1>10

LEMMA ConsoleInitHolds == ConsoleInit => ConsoleInv
<1> SUFFICES ASSUME ConsoleInit PROVE ConsoleInv
  OBVIOUS
<1>1. /\ video = [y \in 0 .. VIDEO_Y - 1 |-> EmptyRow] /\ curx = 0 /\ cury = 0
      /\ left = <<>> /\ printed = <<>>
  BY DEF ConsoleInit
<1>2. ScreenTypeOK
  <2>1. video \in [0 .. VIDEO_Y - 1 -> [0 .. VIDEO_X - 1 -> Char \cup {Blank}]]
    BY <1>1 DEF EmptyRow
  <2>2. QED
    BY <1>1, <2>1, ScreenAssumption DEF ScreenTypeOK
<1>3. AllPut = <<>>
  BY <1>1, FlatGrows DEF AllPut
<1>4. Sheet = EmptySheet
  <2> DEFINE put == SubSeq(AllPut, 1, Len(AllPut) - Len(left))
  <2>1. put = <<>>
    BY <1>1, <1>3
  <2>2. Sheet = SheetOf(put)
    BY DEF Sheet, SheetOf, EmptySheet
  <2> HIDE DEF put
  <2>3. QED
    BY <2>1, <2>2, SheetGrows
<1>5. DOMAIN EmptySheet.cells = {} /\ EmptySheet.x = 0 /\ EmptySheet.y = 0
  BY DEF EmptySheet
<1>6. WindowAt(video, EmptySheet.cells, EmptySheet.y - cury)
  BY <1>1, <1>5 DEF WindowAt, Shown, EmptyRow
<1>7. IsWindow(Sheet)
  BY <1>1, <1>4, <1>5, <1>6, ScreenAssumption DEF IsWindow
<1>8. LeftIsTheEnd
  BY <1>1, <1>3 DEF LeftIsTheEnd
<1>9. QED
  BY <1>2, <1>7, <1>8 DEF ConsoleInv

LEMMA ConsoleNextKeeps == ConsoleInv /\ [ConsoleNext]_consoleVars => ConsoleInv'
<1> SUFFICES ASSUME ConsoleInv, [ConsoleNext]_consoleVars
             PROVE  ConsoleInv'
  OBVIOUS
<1>0. ScreenTypeOK /\ IsWindow(Sheet) /\ LeftIsTheEnd
  BY DEF ConsoleInv
<1>1. CASE kputs
  <2> DEFINE sheet == Sheet
             new == Sheet'
             char == Head(left)
  <2>1. /\ char \in Char /\ sheet \in SheetSpace /\ new = OnSheet(sheet, char)
        /\ left' \in Seq(Char) /\ LeftIsTheEnd'
    BY <1>0, <1>1, PutWritesTheSheet
  <2>2. kput(char) /\ printed' = printed /\ IsWindow(sheet)
    BY <1>0, <1>1 DEF kputs
  <2> HIDE DEF sheet, new, char
  <2>3. /\ video' \in [0 .. VIDEO_Y - 1 -> [0 .. VIDEO_X - 1 -> Char \cup {Blank}]]
        /\ curx' \in 0 .. VIDEO_X /\ cury' \in 0 .. VIDEO_Y
        /\ new.y - cury' >= 0 /\ curx' = new.x
        /\ new.y - cury' > 0 => cury' >= VIDEO_Y - 1
        /\ WindowAt(video', new.cells, new.y - cury')
        /\ cury' = VIDEO_Y => curx' = 0
        /\ \A p \in DOMAIN new.cells : p[2] <= new.y /\ (cury' = VIDEO_Y => p[2] < new.y)
    BY <1>0, <2>1, <2>2, PutKeepsTheWindow, Zenon
  <2>4. ScreenTypeOK'
    BY <1>0, <2>1, <2>2, <2>3 DEF ScreenTypeOK
  <2>5. IsWindow(Sheet)'
    BY <2>3 DEF IsWindow, WindowAt, Shown, new
  <2>6. QED
    BY <2>1, <2>4, <2>5 DEF ConsoleInv
<1>2. ASSUME NEW message \in Messages, kprintf_message(message)
      PROVE  ConsoleInv'
  <2>1. ScreenTypeOK' /\ Sheet' = Sheet /\ LeftIsTheEnd'
    BY <1>0, <1>2, PrintfKeepsTheSheet
  <2>2. UNCHANGED <<video, curx, cury>>
    BY <1>2 DEF kprintf_message
  <2>3. IsWindow(Sheet)'
    BY <1>0, <2>1, <2>2 DEF IsWindow, WindowAt, Shown
  <2>4. QED
    BY <2>1, <2>3 DEF ConsoleInv
<1>3. CASE UNCHANGED consoleVars
  <2>1. /\ video' = video /\ curx' = curx /\ cury' = cury /\ left' = left /\ printed' = printed
    BY <1>3 DEF consoleVars
  <2>2. AllPut' = AllPut
    BY <2>1 DEF AllPut
  <2>3. Sheet' = Sheet
    BY <2>1, <2>2 DEF Sheet
  <2>4. QED
    BY <1>0, <2>1, <2>2, <2>3 DEF ConsoleInv, ScreenTypeOK, IsWindow, WindowAt, Shown, LeftIsTheEnd
<1>4. QED
  BY <1>1, <1>2, <1>3 DEF ConsoleNext

(* Whatever is printed, on a screen of any size with tab stops that divide *)
(* its rows: it shows the end of the sheet everything was written on.      *)
THEOREM TheScreenShowsTheEnd == ConsoleSpec => []TheScreenIsAWindow
<1>1. ConsoleInv => TheScreenIsAWindow
  BY DEF ConsoleInv, ScreenTypeOK, IsWindow, WindowAt, Shown, TheScreenIsAWindow
<1>2. QED
  BY <1>1, ConsoleInitHolds, ConsoleNextKeeps, PTL DEF ConsoleSpec
=============================================================================
