------------------------------ MODULE IpcProofs ------------------------------
(***************************************************************************)
(* Proofs about the semaphores, for any number of threads and units, and   *)
(* about the message queues, for any number of queues and blocks and       *)
(* whichever free block the heap hands out.                                *)
(*                                                                         *)
(* The value of a semaphore is what the threads that went down and did not *)
(* come up yet leave of it, and its list is of those that sleep.           *)
(*                                                                         *)
(* The inductive invariant of the queues does not follow the pointers: it  *)
(* says that there is a sequence of blocks for every queue along which     *)
(* they lead, that no block is in two places, and that together they are   *)
(* what is allocated.  What the loop over the pointers computes is then    *)
(* that sequence.                                                          *)
(***************************************************************************)
EXTENDS Semaphore, MsgQueue, TLAPS, NaturalsInduction, FiniteSetTheorems, WellFoundedInduction

-----------------------------------------------------------------------------
(* The semaphores. *)

LEMMA ThreadsAreFinite ==
    /\ IsFiniteSet(Thread)
    /\ \A S \in SUBSET Thread : IsFiniteSet(S) /\ Cardinality(S) \in Nat
    /\ NULL \notin Thread
<1>1. IsFiniteSet(Thread)
  BY NThreadAssumption, FS_Interval DEF Thread
<1>2. \A S \in SUBSET Thread : IsFiniteSet(S)
  BY <1>1, FS_Subset
<1>3. \A S \in SUBSET Thread : Cardinality(S) \in Nat
  BY <1>2, FS_CardinalityType
<1>4. NULL \notin Thread
  BY DEF Thread, NULL
<1>5. QED
  BY <1>1, <1>2, <1>3, <1>4

(* The value is what the threads that went down and did not come up yet    *)
(* have left; while it is not negative at the end of a call, at most       *)
(* Initial threads are counted.                                            *)
CountInv ==
    /\ SemTypeOK
    /\ semval = Initial - Cardinality(counted)
    /\ AtMostInitialHold

LEMMA CountInvariant == SemSpec => []CountInv
<1>1. SemInit => CountInv
  <2> SUFFICES ASSUME SemInit
               PROVE  CountInv
    OBVIOUS
  <2>1. Cardinality(counted) = 0 /\ Holders = {}
    BY FS_EmptySet DEF SemInit, Holders
  <2>2. Cardinality(Holders) = 0
    BY <2>1, FS_EmptySet
  <2>3. QED
    BY <2>1, <2>2, InitialAssumption DEF SemInit, CountInv, SemTypeOK, AtMostInitialHold, EmptyList
<1>2. CountInv /\ [SemNext]_semVars => CountInv'
  <2> SUFFICES ASSUME CountInv, [SemNext]_semVars
               PROVE  CountInv'
    OBVIOUS
  <2> USE DEF CountInv, SemTypeOK
  <2>1. ASSUME NEW t \in Thread, NEW op \in {-1, 1}, semop(t, op),
               counted' \subseteq Thread,
               Cardinality(counted') = Cardinality(counted) - op,
               semval + op < 0 => Holders' \subseteq Holders
        PROVE  CountInv'
    <3>0. Initial \in Nat /\ Cardinality(counted) \in Nat
      BY InitialAssumption, ThreadsAreFinite
    <3>1. semval' = Initial - Cardinality(counted')
      BY <2>1, <3>0 DEF semop
    <3>2. CASE semval + op < 0
      <4>1. SemTypeOK'
        BY <2>1, <3>0, <3>2 DEF semop, FallAsleep
      <4>2. Cardinality(Holders') <= Cardinality(Holders)
        BY <2>1, <3>2, ThreadsAreFinite, FS_Subset DEF Holders
      <4>3. /\ Cardinality(Holders) \in Nat /\ Cardinality(Holders) <= Initial
        BY ThreadsAreFinite DEF Holders, AtMostInitialHold
      <4>4. Cardinality(Holders') \in Nat
        BY <4>1, ThreadsAreFinite DEF Holders
      <4>5. Cardinality(Holders') <= Initial
        BY <4>2, <4>3, <4>4, <3>0
      <4>6. QED
        BY <3>1, <4>1, <4>5 DEF AtMostInitialHold
    <3>3. CASE semval + op >= 0
      <4>1. SemTypeOK'
        BY <2>1, <3>0, <3>3 DEF semop, WakeFirstHalf
      <4>2. Cardinality(counted') <= Initial
        <5>1. semval' >= 0
          BY <2>1, <3>3 DEF semop
        <5>2. Cardinality(counted') \in Nat
          BY <4>1, ThreadsAreFinite
        <5>3. QED
          BY <3>0, <3>1, <5>1, <5>2
      <4>3. Cardinality(Holders') <= Cardinality(counted')
        BY <4>1, ThreadsAreFinite, FS_Subset DEF Holders
      <4>4. Cardinality(Holders') \in Nat /\ Cardinality(counted') \in Nat
        BY <4>1, ThreadsAreFinite DEF Holders
      <4>5. Cardinality(Holders') <= Initial
        BY <4>2, <4>3, <4>4, <3>0
      <4>6. QED
        BY <3>1, <4>1, <4>5 DEF AtMostInitialHold
    <3>4. QED
      BY <2>1, <3>2, <3>3
  <2>2. ASSUME NEW t \in Thread, down(t)
        PROVE  CountInv'
    <3>1. /\ counted' = counted \cup {t} /\ t \notin counted /\ semop(t, -1)
      BY <2>2 DEF down
    <3>2. Cardinality(counted') = Cardinality(counted) - (-1)
      BY <3>1, ThreadsAreFinite, FS_AddElement
    <3>3. semval + (-1) < 0 => Holders' \subseteq Holders
      BY <3>1 DEF semop, FallAsleep, Holders
    <3>4. QED
      BY <3>1, <3>2, <3>3, <2>1
  <2>3. ASSUME NEW t \in Thread, up(t)
        PROVE  CountInv'
    <3>1. /\ counted' = counted \ {t} /\ t \in counted /\ semop(t, 1)
      BY <2>3 DEF up
    <3>2. Cardinality(counted') = Cardinality(counted) - 1
      BY <3>1, ThreadsAreFinite, FS_RemoveElement
    <3>3. semval + 1 < 0 => Holders' \subseteq Holders
      BY <3>1 DEF semop, FallAsleep, Holders
    <3>4. QED
      BY <3>1, <3>2, <3>3, <2>1
  <2>4. CASE UNCHANGED semVars
    BY <2>4 DEF semVars, AtMostInitialHold, Holders
  <2>5. QED
    BY <2>2, <2>3, <2>4 DEF SemNext
<1>3. QED
  BY <1>1, <1>2, PTL DEF SemSpec

(* Type correctness of the semaphore. *)
THEOREM TypeCorrect == SemSpec => []SemTypeOK
<1>1. CountInv => SemTypeOK
  BY DEF CountInv
<1>2. QED
  BY <1>1, CountInvariant, PTL

(* Mutual exclusion: no number of threads and no order of calls lets more  *)
(* than Initial of them hold a unit, whomever the wake-up loop wakes.      *)
THEOREM UnitsAreExclusive == SemSpec => []AtMostInitialHold
<1>1. CountInv => AtMostInitialHold
  BY DEF CountInv
<1>2. QED
  BY <1>1, CountInvariant, PTL

-----------------------------------------------------------------------------
(* Sleeping and waking keep the list and the threads' states together.     *)
ListInv ==
    /\ \A s \in Slot : asleep[s] # NULL => exc_state[asleep[s]] = "BLCKD"
    /\ \A t \in Thread : exc_state[t] = "BLCKD" => \E s \in Slot : asleep[s] = t
    /\ \A r, s \in Slot : asleep[r] = asleep[s] /\ asleep[r] # NULL => r = s

LEMMA ListStep ==
    ASSUME SemTypeOK, ListInv, NEW t \in Thread, NEW op \in {-1, 1}, semop(t, op)
    PROVE  ListInv'
<1> USE DEF SemTypeOK, ListInv
<1>a. NULL \notin Thread
  BY ThreadsAreFinite
<1>1. CASE semval + op < 0
  <2>1. PICK s \in Slot : IsAddSlot(asleep, s) /\ asleep' = [asleep EXCEPT ![s] = t]
    BY <1>1 DEF semop, FallAsleep
  <2>2. asleep[s] = NULL
    BY <2>1 DEF IsAddSlot, Occupied
  <2>3. /\ exc_state' = [exc_state EXCEPT ![t] = "BLCKD"]
        /\ exc_state[t] = "ACTIVE"
    BY <1>1 DEF semop, FallAsleep
  <2>4. \A r \in Slot : asleep[r] # t
    BY <2>3, <1>a
  <2>5. \A r \in Slot : asleep'[r] = IF r = s THEN t ELSE asleep[r]
    BY <2>1
  <2>6. \A u \in Thread : exc_state'[u] = IF u = t THEN "BLCKD" ELSE exc_state[u]
    BY <2>3
  <2>7. \A r \in Slot : asleep'[r] # NULL => exc_state'[asleep'[r]] = "BLCKD"
    BY <2>5, <2>6
  <2>8. \A u \in Thread : exc_state'[u] = "BLCKD" => \E r \in Slot : asleep'[r] = u
    BY <2>2, <2>5, <2>6, <1>a
  <2>9. \A r, q \in Slot : asleep'[r] = asleep'[q] /\ asleep'[r] # NULL => r = q
    BY <2>4, <2>5
  <2>10. QED
    BY <2>7, <2>8, <2>9
<1>2. CASE semval + op >= 0
  <2>1. /\ exc_state' = [u \in Thread |-> IF \E s \in FirstHalf(asleep) : asleep[s] = u
                                          THEN "ACTIVE" ELSE exc_state[u]]
        /\ asleep' = [s \in Slot |-> IF s \in FirstHalf(asleep) THEN NULL ELSE asleep[s]]
    BY <1>2 DEF semop, WakeFirstHalf
  <2>2. FirstHalf(asleep) \subseteq Slot
    BY DEF FirstHalf, Occupied
  <2>3. QED
    BY <2>1, <2>2, <1>a
<1>3. QED
  BY <1>1, <1>2

LEMMA ListInvariant == SemSpec => [](CountInv /\ ListInv)
<1>1. SemInit => ListInv
  BY DEF SemInit, ListInv, EmptyList
<1>2. CountInv /\ ListInv /\ [SemNext]_semVars => ListInv'
  <2> SUFFICES ASSUME CountInv, ListInv, [SemNext]_semVars
               PROVE  ListInv'
    OBVIOUS
  <2>1. CASE UNCHANGED semVars
    BY <2>1 DEF semVars, ListInv
  <2>2. QED
    BY <2>1, ListStep DEF CountInv, SemNext, down, up
<1>3. QED
  BY <1>1, <1>2, CountInvariant, PTL DEF SemSpec

(* No wakeup is lost or misdirected between semop's list and the threads.  *)
THEOREM ListIsRight == SemSpec => []ListNamesSleepers
<1>1. CountInv /\ ListInv => ListNamesSleepers
  <2> SUFFICES ASSUME SemTypeOK, ListInv
               PROVE  ListNamesSleepers
    BY DEF CountInv
  <2>1. Entries(asleep) = {asleep[s] : s \in {r \in Slot : asleep[r] # NULL}}
    BY DEF Entries, Occupied, SemTypeOK
  <2>2. \A t \in Thread : t \in Entries(asleep) <=> t \in Sleepers
    BY <2>1, ThreadsAreFinite DEF ListInv, Sleepers
  <2>3. Entries(asleep) \subseteq Thread /\ Sleepers \subseteq Thread
    BY <2>1 DEF SemTypeOK, Sleepers
  <2>4. QED
    BY <2>2, <2>3 DEF ListNamesSleepers, ListInv
<1>2. QED
  BY <1>1, ListInvariant, PTL

-----------------------------------------------------------------------------
(* With at most one thread more than units, at most one sleeps, and then   *)
(* the value is -1: the next up makes it 0 and wakes the sleeper, and no   *)
(* up leaves the value negative.                                           *)
FewInv ==
    \/ Sleepers = {} /\ semval >= 0
    \/ semval = -1 /\ \E t \in counted : Sleepers = {t}

LEMMA FewStep ==
    ASSUME NThread <= Initial + 1, CountInv, ListInv, FewInv, [SemNext]_semVars
    PROVE  FewInv'
<1> USE DEF CountInv, SemTypeOK
<1>a. Initial \in Nat /\ Cardinality(counted) \in Nat /\ NULL \notin Thread
  BY InitialAssumption, ThreadsAreFinite
<1>b. Cardinality(Thread) = NThread
  BY NThreadAssumption, FS_Interval DEF Thread
<1>1. CASE UNCHANGED semVars
  BY <1>1 DEF semVars, FewInv, Sleepers
<1>2. ASSUME NEW t \in Thread, down(t)
      PROVE  FewInv'
  <2>1. t \notin counted /\ semop(t, -1) /\ counted' = counted \cup {t}
    BY <1>2 DEF down
  <2>2. Cardinality(counted) + 1 <= NThread
    <3>1. Cardinality(counted \cup {t}) = Cardinality(counted) + 1
      BY <2>1, ThreadsAreFinite, FS_AddElement
    <3>2. Cardinality(counted \cup {t}) <= Cardinality(Thread)
      BY ThreadsAreFinite, FS_Subset
    <3>3. QED
      BY <3>1, <3>2, <1>b
  <2>3. semval >= 0
    BY <2>2, <1>a, NThreadAssumption
  <2>4. Sleepers = {}
    BY <2>3 DEF FewInv
  <2>5. CASE semval = 0
    <3>1. exc_state' = [exc_state EXCEPT ![t] = "BLCKD"] /\ semval' = -1
      BY <2>1, <2>5 DEF semop, FallAsleep
    <3>2. Sleepers' = {t}
      BY <3>1, <2>4 DEF Sleepers
    <3>3. QED
      BY <3>1, <3>2, <2>1 DEF FewInv
  <2>6. CASE semval > 0
    <3>1. semval' >= 0 /\ WakeFirstHalf
      BY <2>1, <2>6 DEF semop
    <3>2. Sleepers' \subseteq Sleepers
      BY <3>1 DEF WakeFirstHalf, Sleepers
    <3>3. QED
      BY <3>1, <3>2, <2>4 DEF FewInv
  <2>7. QED
    BY <2>3, <2>5, <2>6
<1>3. ASSUME NEW t \in Thread, up(t)
      PROVE  FewInv'
  <2>1. t \in counted /\ semop(t, 1)
    BY <1>3 DEF up
  <2>2. semval' >= 0 /\ WakeFirstHalf
    BY <2>1 DEF semop, FewInv
  <2>3. Sleepers' \subseteq Sleepers
    BY <2>2 DEF WakeFirstHalf, Sleepers
  <2>4. CASE Sleepers = {}
    BY <2>2, <2>3, <2>4 DEF FewInv
  <2>5. CASE Sleepers # {}
    <3>1. PICK u \in counted : Sleepers = {u}
      BY <2>5 DEF FewInv
    <3>2. PICK s \in Slot : asleep[s] = u
      BY <3>1 DEF Sleepers, ListInv
    <3>3. \A r \in Slot : asleep[r] # NULL => r = s
      BY <3>1, <3>2 DEF ListInv, Sleepers
    <3>4. Occupied(asleep) = {s}
      BY <3>2, <3>3, <1>a DEF Occupied
    <3>5. Position(asleep, s) = 0 /\ alist_get_entry_n(asleep) = 1
      <4>1. {r \in Occupied(asleep) : r < s} = {}
        BY <3>4, NThreadAssumption DEF Slot
      <4>2. QED
        BY <4>1, <3>4, FS_EmptySet, FS_Singleton DEF Position, alist_get_entry_n
    <3>6. s \in FirstHalf(asleep)
      <4>1. (1 + 1) \div 2 = 1
        BY SMTT(30)
      <4>2. QED
        BY <3>4, <3>5, <4>1 DEF FirstHalf
    <3>7. Sleepers' = {}
      BY <2>2, <3>1, <3>2, <3>6 DEF WakeFirstHalf, Sleepers
    <3>8. QED
      BY <3>7, <2>2 DEF FewInv
  <2>6. QED
    BY <2>4, <2>5
<1>4. QED
  BY <1>1, <1>2, <1>3 DEF SemNext

(* With at most one thread more than units, in particular for two threads  *)
(* and a mutual exclusion semaphore, nobody sleeps while a unit is free,   *)
(* and nobody sleeps after coming up.                                      *)
THEOREM FewSleepForAReason == NThread <= Initial + 1 => (SemSpec => []NobodySleepsForNothing)
<1> SUFFICES ASSUME NThread <= Initial + 1
             PROVE  SemSpec => []NobodySleepsForNothing
  OBVIOUS
<1>1. SemInit => FewInv
  BY InitialAssumption DEF SemInit, FewInv, Sleepers
<1>2. CountInv /\ ListInv /\ FewInv /\ [SemNext]_semVars => FewInv'
  BY FewStep
<1>3. CountInv /\ FewInv => NobodySleepsForNothing
  <2> SUFFICES ASSUME CountInv, FewInv, Sleepers # {}
               PROVE  Cardinality(Holders) = Initial /\ Sleepers \subseteq counted
    BY DEF NobodySleepsForNothing
  <2>1. PICK t \in counted : Sleepers = {t} /\ semval = -1
    BY DEF FewInv
  <2>2. Holders = counted \ {t}
    BY <2>1 DEF Holders, Sleepers, CountInv, SemTypeOK
  <2>3. Cardinality(Holders) = Cardinality(counted) - 1
    BY <2>1, <2>2, ThreadsAreFinite, FS_RemoveElement DEF CountInv, SemTypeOK
  <2>4. Cardinality(counted) = Initial + 1
    BY <2>1, InitialAssumption, ThreadsAreFinite DEF CountInv, SemTypeOK
  <2>5. QED
    BY <2>1, <2>3, <2>4, InitialAssumption
<1>4. QED
  BY <1>1, <1>2, <1>3, ListInvariant, PTL DEF SemSpec
-----------------------------------------------------------------------------
(* The message queues: the chains as sequences of blocks. *)

Longest == Cardinality(MsgBlock)

(* Where the walk along c is after n blocks. *)
WalkAt(c, n) == IF n < Len(c) THEN c[n + 1] ELSE NoMessage

Leads(c, b, nxt) ==
    /\ b = WalkAt(c, 0)
    /\ \A n \in 1 .. Len(c) : nxt[c[n]] = WalkAt(c, n)

LEMMA LongestIsANumber == Longest \in Nat
BY BlockAssumption, FS_CardinalityType DEF Longest

(* A set of numbers has a first element. *)
LEMMA FirstOne ==
    ASSUME NEW S, S \subseteq Nat, S # {}
    PROVE  \E n \in S : \A r \in S : n <= r
<1> DEFINE less == OpToRel(<, Nat)
<1>1. \E x \in S : \A y \in S : ~ (<<y, x>> \in less)
  BY NatLessThanWellFounded, WFMin, Zenon
<1>2. \A x, y \in Nat : y < x => <<y, x>> \in less
  BY Zenon DEF OpToRel
<1> HIDE DEF less
<1>3. PICK x \in S : \A y \in S : ~ (<<y, x>> \in less)
  BY <1>1
<1>4. \A y \in S : ~ (y < x)
  BY <1>2, <1>3, Zenon
<1>5. QED
  BY <1>4

(* What Chain computes, block by block, is the chain of blocks. *)
LEMMA ChainIs ==
    ASSUME NEW c \in Seq(MsgBlock), Len(c) <= Longest, NEW b, Leads(c, b, next)
    PROVE  Chain(b) = c
<1> DEFINE D == 0 .. Longest
           Loop(f) == [n \in D |->
               IF n = 0 THEN b ELSE IF f[n - 1] = NoMessage THEN NoMessage ELSE next[f[n - 1]]]
           g == [n \in D |-> WalkAt(c, n)]
           at == CHOOSE f : f = Loop(f)
<1>1. Longest \in Nat /\ Len(c) \in Nat
  BY LongestIsANumber
<1>2. \A i \in 1 .. Len(c) : c[i] # NoMessage
  BY BlockAssumption
<1>3. ASSUME NEW n \in D
      PROVE  g[n] = IF n = 0 THEN b
                    ELSE IF g[n - 1] = NoMessage THEN NoMessage ELSE next[g[n - 1]]
  <2>1. CASE n = 0
    BY <2>1 DEF Leads
  <2>2. CASE n # 0
    <3>1. n \in Nat /\ n - 1 \in D /\ n - 1 + 1 = n /\ n - 1 \in Nat
      BY <1>1, <2>2
    <3>2. g[n] = WalkAt(c, n) /\ g[n - 1] = WalkAt(c, n - 1)
      BY <3>1
    <3>3. CASE n <= Len(c)
      <4>1. g[n - 1] = c[n] /\ c[n] # NoMessage /\ n \in 1 .. Len(c)
        BY <1>1, <1>2, <2>2, <3>1, <3>2, <3>3 DEF WalkAt
      <4>2. next[c[n]] = WalkAt(c, n)
        BY <4>1 DEF Leads
      <4> HIDE DEF g
      <4>3. QED
        BY <2>2, <3>2, <4>1, <4>2
    <3>4. CASE ~ n <= Len(c)
      <4>1. WalkAt(c, n) = NoMessage /\ WalkAt(c, n - 1) = NoMessage
        BY <1>1, <3>1, <3>4 DEF WalkAt
      <4> HIDE DEF g
      <4>2. QED
        BY <2>2, <3>2, <4>1
    <3>5. QED
      BY <3>3, <3>4
  <2>3. QED
    BY <2>1, <2>2
<1>4. g = Loop(g)
  <2> DEFINE step(n) == IF n = 0 THEN b
                        ELSE IF g[n - 1] = NoMessage THEN NoMessage ELSE next[g[n - 1]]
  <2>1. \A n \in D : g[n] = step(n)
    BY <1>3
  <2>2. Loop(g) = [n \in D |-> step(n)] /\ g = [n \in D |-> g[n]]
    OBVIOUS
  <2> HIDE DEF g, step
  <2>3. QED
    BY <2>1, <2>2
<1> HIDE DEF g
<1>5. at = Loop(at)
  <2> HIDE DEF Loop
  <2>1. QED
    BY <1>4
<1> HIDE DEF at
<1>6. \A n \in D : at[n] = g[n]
  <2> DEFINE Bad == {n \in D : at[n] # g[n]}
  <2> SUFFICES ASSUME Bad # {} PROVE FALSE
    OBVIOUS
  <2>1. Bad \subseteq Nat
    BY <1>1
  <2> HIDE DEF Bad
  <2>2. PICK n \in Bad : \A q \in Bad : n <= q
    BY <2>1, FirstOne
  <2>3. n \in D /\ at[n] # g[n]
    BY <2>2 DEF Bad
  <2>4. CASE n = 0
    BY <1>4, <1>5, <2>3, <2>4
  <2>5. CASE n # 0
    <3>1. n - 1 \in D /\ n - 1 \notin Bad
      BY <1>1, <2>1, <2>2, <2>3, <2>5
    <3>2. at[n - 1] = g[n - 1]
      BY <3>1 DEF Bad
    <3>3. g[n] = IF g[n - 1] = NoMessage THEN NoMessage ELSE next[g[n - 1]]
      BY <1>3, <2>3, <2>5
    <3>4. at[n] = IF at[n - 1] = NoMessage THEN NoMessage ELSE next[at[n - 1]]
      BY <1>5, <2>3, <2>5
    <3>5. QED
      BY <2>3, <3>2, <3>3, <3>4
  <2>6. QED
    BY <2>4, <2>5
<1>7. \A n \in D : at[n] = WalkAt(c, n)
  BY <1>6 DEF g
<1>8. Chain(b) = [n \in {i \in 1 .. Longest : at[i - 1] # NoMessage} |-> at[n - 1]]
  BY DEF Chain, at, Longest
<1>9. ASSUME NEW i \in 1 .. Longest
      PROVE  /\ at[i - 1] # NoMessage <=> i \in 1 .. Len(c)
             /\ i \in 1 .. Len(c) => at[i - 1] = c[i]
  <2>1. i - 1 \in D /\ i - 1 + 1 = i /\ i \in Nat \ {0}
    BY <1>1
  <2>2. at[i - 1] = WalkAt(c, i - 1)
    BY <1>7, <2>1
  <2>3. QED
    BY <1>1, <1>2, <2>1, <2>2 DEF WalkAt
<1>10. {i \in 1 .. Longest : at[i - 1] # NoMessage} = 1 .. Len(c)
  <2>1. \A i \in 1 .. Len(c) : i \in 1 .. Longest
    BY <1>1
  <2>2. QED
    BY <1>9, <2>1
<1>11. \A i \in 1 .. Len(c) : at[i - 1] = c[i]
  <2>1. \A i \in 1 .. Len(c) : i \in 1 .. Longest
    BY <1>1
  <2>2. QED
    BY <1>9, <2>1
<1>12. Chain(b) = [n \in 1 .. Len(c) |-> c[n]]
  BY <1>8, <1>10, <1>11
<1>13. QED
  BY <1>12

-----------------------------------------------------------------------------
(* The inductive invariant: there is a chain for every queue, from its     *)
(* first message to a next word that is 0; no two of their blocks are the  *)
(* same, and together they are what is allocated.                          *)
Ids(first) == 0 .. Len(first) - 1

Chained(ch, first, nxt, alloc) ==
    /\ \A id \in Ids(first) : ch[id] \in Seq(MsgBlock) /\ Leads(ch[id], first[id + 1], nxt)
    /\ \A id, jd \in Ids(first) :
          \A i \in 1 .. Len(ch[id]), j \in 1 .. Len(ch[jd]) :
             ch[id][i] = ch[jd][j] => id = jd /\ i = j
    /\ \A b : b \in alloc <=> \E id \in Ids(first) : \E i \in 1 .. Len(ch[id]) : ch[id][i] = b

QueuesInv == QueuesTypeOK /\ \E ch : Chained(ch, first_message, next, allocated)

(* A chain is no longer than there are blocks. *)
LEMMA ChainIsShort ==
    ASSUME NEW ch, NEW first \in Seq(MsgBlock \cup {NoMessage}), NEW nxt, NEW alloc,
           Chained(ch, first, nxt, alloc), NEW id \in Ids(first)
    PROVE  Len(ch[id]) <= Longest
<1> DEFINE c == ch[id]
<1>1. c \in Seq(MsgBlock)
  BY DEF Chained
<1>2. \A i, j \in 1 .. Len(c) : c[i] = c[j] => i = j
  BY DEF Chained
<1> HIDE DEF c
<1>3. c \in Injection(1 .. Len(c), MsgBlock)
  BY <1>1, <1>2 DEF Injection, IsInjective
<1>4. Cardinality(1 .. Len(c)) <= Longest
  BY <1>3, BlockAssumption, FS_Injection DEF Longest
<1>5. Len(c) \in Nat
  BY <1>1
<1>6. Cardinality(1 .. Len(c)) = Len(c)
  <2>1. \A n \in Nat : Cardinality(1 .. n) = n
    BY FS_Interval
  <2>2. QED
    BY <1>5, <2>1
<1>7. QED
  BY <1>4, <1>6 DEF c

LEMMA BlocksAre ==
    ASSUME first_message \in Seq(MsgBlock \cup {NoMessage})
    PROVE  \A ch : Chained(ch, first_message, next, allocated) =>
              \A id \in Queues : Blocks(id) = ch[id]
<1> SUFFICES ASSUME NEW ch, Chained(ch, first_message, next, allocated), NEW id \in Queues
             PROVE  Blocks(id) = ch[id]
  OBVIOUS
<1>1. id \in Ids(first_message)
  BY DEF Queues, Ids
<1>2. ch[id] \in Seq(MsgBlock) /\ Leads(ch[id], first_message[id + 1], next)
  BY <1>1 DEF Chained
<1>3. Len(ch[id]) <= Longest
  BY <1>1, ChainIsShort
<1>4. QED
  BY <1>2, <1>3, ChainIs DEF Blocks

BlocksFollow ==
    \A ch : Chained(ch, first_message, next, allocated) =>
       \A id \in Queues : Blocks(id) = ch[id]

LEMMA BlocksFollowNow == QueuesTypeOK => BlocksFollow
BY BlocksAre DEF QueuesTypeOK, BlocksFollow

LEMMA BlocksFollowNext == QueuesTypeOK' => BlocksFollow'
BY BlocksFollowNow, PTL

LEMMA QueuesInitHolds == QueuesInit => QueuesInv
<1> SUFFICES ASSUME QueuesInit PROVE QueuesInv
  OBVIOUS
<1>1. Chained([id \in {} |-> << >>], first_message, next, allocated)
  BY DEF QueuesInit, Chained, Ids
<1>2. QueuesTypeOK
  BY MaxQueueAssumption DEF QueuesInit, QueuesTypeOK
<1>3. QED
  BY <1>1, <1>2 DEF QueuesInv

-----------------------------------------------------------------------------
(* What each call does to the chains. *)

LEMMA GetAddsAChain ==
    ASSUME QueuesTypeOK, NEW ch, Chained(ch, first_message, next, allocated), msgget
    PROVE  /\ QueuesTypeOK'
           /\ \E ch2 : /\ Chained(ch2, first_message', next', allocated')
                       /\ \A id \in Queues : ch2[id] = ch[id]
                       /\ ch2[Len(first_message)] = << >>
<1> DEFINE n == Len(first_message)
           ch2 == [id \in 0 .. n |-> IF id = n THEN << >> ELSE ch[id]]
<1>1. /\ first_message \in Seq(MsgBlock \cup {NoMessage}) /\ n \in Nat /\ n < MaxQueue
      /\ first_message' = Append(first_message, NoMessage)
      /\ next' = next /\ body' = body /\ allocated' = allocated /\ received' = received
  BY DEF QueuesTypeOK, msgget
<1>2. /\ first_message' \in Seq(MsgBlock \cup {NoMessage}) /\ Len(first_message') = n + 1
      /\ \A i \in 1 .. n : first_message'[i] = first_message[i]
      /\ first_message'[n + 1] = NoMessage
  BY <1>1
<1> HIDE DEF n
<1>3. QueuesTypeOK'
  BY <1>1, <1>2, MaxQueueAssumption DEF QueuesTypeOK
<1> DEFINE I == Queues
<1>4. /\ Ids(first_message') = I \cup {n} /\ Ids(first_message) = I /\ n \notin I
      /\ \A id \in I : first_message'[id + 1] = first_message[id + 1]
  BY <1>1, <1>2 DEF Ids, Queues, n
<1>5. /\ \A id \in I : ch2[id] = ch[id]
      /\ ch2[n] = << >>
  BY <1>1, <1>4 DEF Ids
<1> HIDE DEF ch2, I
<1>6. ASSUME NEW id \in I \cup {n}
      PROVE  ch2[id] \in Seq(MsgBlock) /\ Leads(ch2[id], first_message'[id + 1], next')
  <2>1. CASE id = n
    <3>1. << >> \in Seq(MsgBlock) /\ Len(<< >>) = 0
      OBVIOUS
    <3>2. Leads(<< >>, NoMessage, next')
      BY <3>1 DEF Leads, WalkAt
    <3>3. QED
      BY <1>2, <1>5, <2>1, <3>1, <3>2
  <2>2. CASE id # n
    <3>1. ch[id] \in Seq(MsgBlock) /\ Leads(ch[id], first_message[id + 1], next)
      BY <1>4, <2>2 DEF Chained
    <3>2. QED
      BY <1>1, <1>4, <1>5, <2>2, <3>1
  <2>3. QED
    BY <2>1, <2>2
<1>7. \A id \in I \cup {n} : \A i \in 1 .. Len(ch2[id]) : id \in I
  <2>1. 1 .. Len(<< >>) = {}
    OBVIOUS
  <2>2. QED
    BY <1>5, <2>1
<1>8. Chained(ch2, first_message', next', allocated')
  <2>1. ASSUME NEW id \in I \cup {n}, NEW jd \in I \cup {n},
               NEW i \in 1 .. Len(ch2[id]), NEW j \in 1 .. Len(ch2[jd]),
               ch2[id][i] = ch2[jd][j]
        PROVE  id = jd /\ i = j
    <3>1. id \in I /\ jd \in I /\ ch2[id] = ch[id] /\ ch2[jd] = ch[jd]
      BY <1>5, <1>7
    <3>2. QED
      BY <1>4, <2>1, <3>1 DEF Chained
  <2>2. ASSUME NEW a
        PROVE  a \in allocated <=>
                 \E id \in I \cup {n} : \E i \in 1 .. Len(ch2[id]) : ch2[id][i] = a
    <3>1. a \in allocated <=> \E id \in I : \E i \in 1 .. Len(ch[id]) : ch[id][i] = a
      BY <1>4 DEF Chained
    <3>2. QED
      BY <1>5, <1>7, <3>1
  <2>3. \A id \in Ids(first_message') :
          ch2[id] \in Seq(MsgBlock) /\ Leads(ch2[id], first_message'[id + 1], next')
    BY <1>4, <1>6
  <2>4. \A id, jd \in Ids(first_message') :
          \A i \in 1 .. Len(ch2[id]), j \in 1 .. Len(ch2[jd]) :
             ch2[id][i] = ch2[jd][j] => id = jd /\ i = j
    BY <1>4, <2>1
  <2>5. \A a : a \in allocated' <=>
          \E id \in Ids(first_message') : \E i \in 1 .. Len(ch2[id]) : ch2[id][i] = a
    BY <1>1, <1>4, <2>2
  <2>6. QED
    BY <2>3, <2>4, <2>5 DEF Chained
<1>9. QED
  BY <1>3, <1>5, <1>8 DEF n, I

(* A message is sent: its block ends the chain of its queue. *)
LEMMA SndAppends ==
    ASSUME QueuesTypeOK, NEW ch, Chained(ch, first_message, next, allocated),
           NEW id \in Queues, NEW m \in Message, msgsnd(id, m)
    PROVE  /\ QueuesTypeOK'
           /\ \E ch2, b : /\ Chained(ch2, first_message', next', allocated')
                          /\ b \in MsgBlock \ allocated /\ body' = [body EXCEPT ![b] = m]
                          /\ ch2[id] = Append(ch[id], b)
                          /\ \A jd \in Queues : jd # id => ch2[jd] = ch[jd]
                          /\ Len(first_message') = Len(first_message)
<1>1. PICK b \in MsgBlock \ allocated :
        /\ allocated' = allocated \cup {b}
        /\ body' = [body EXCEPT ![b] = m]
        /\ \/ /\ first_message[id + 1] = NoMessage
              /\ first_message' = [first_message EXCEPT ![id + 1] = b]
              /\ next' = NextCleared(b)
           \/ /\ first_message[id + 1] # NoMessage
              /\ \E last \in MsgBlock : /\ IsLastOf(id, last)
                                     /\ next' = [NextCleared(b) EXCEPT ![last] = b]
              /\ UNCHANGED first_message
        /\ UNCHANGED received
  BY DEF msgsnd
<1> DEFINE c == ch[id]
           c2 == Append(c, b)
           ch2 == [jd \in Queues |-> IF jd = id THEN c2 ELSE ch[jd]]
<1>2. /\ first_message \in Seq(MsgBlock \cup {NoMessage})
      /\ next \in [MsgBlock -> MsgBlock \cup {NoMessage}]
      /\ body \in [MsgBlock -> Message] /\ allocated \subseteq MsgBlock
      /\ Queues = Ids(first_message) /\ id + 1 \in 1 .. Len(first_message)
      /\ b \in MsgBlock /\ b \notin allocated /\ b # NoMessage
  BY BlockAssumption DEF QueuesTypeOK, Queues, Ids
<1>3. /\ c \in Seq(MsgBlock) /\ Len(c) \in Nat
      /\ first_message[id + 1] = WalkAt(c, 0)
      /\ \A n \in 1 .. Len(c) : next[c[n]] = WalkAt(c, n)
      /\ \A n \in 1 .. Len(c) : c[n] # b /\ c[n] \in MsgBlock /\ c[n] # NoMessage
  BY <1>2, BlockAssumption DEF Chained, Leads
<1>4. /\ c2 \in Seq(MsgBlock) /\ Len(c2) = Len(c) + 1
      /\ \A n \in 1 .. Len(c) : c2[n] = c[n]
      /\ c2[Len(c) + 1] = b
  BY <1>2, <1>3
<1>5. Len(c) > 0 => IsLastOf(id, c[Len(c)])
  <2>1. Blocks(id) = c
    BY BlocksFollowNow DEF BlocksFollow
  <2>2. QED
    BY <2>1 DEF IsLastOf
<1> HIDE DEF c, c2
<1>6. /\ first_message' = IF Len(c) = 0 THEN [first_message EXCEPT ![id + 1] = b] ELSE first_message
      /\ next' = IF Len(c) = 0 THEN NextCleared(b) ELSE [NextCleared(b) EXCEPT ![c[Len(c)]] = b]
  <2>1. first_message[id + 1] = NoMessage <=> Len(c) = 0
    BY <1>3 DEF WalkAt
  <2>2. ASSUME NEW last \in MsgBlock, IsLastOf(id, last) PROVE last = c[Len(c)]
    <3>1. Blocks(id) = c
      BY BlocksFollowNow DEF BlocksFollow, c
    <3>2. QED
      BY <2>2, <3>1 DEF IsLastOf
  <2>3. QED
    BY <1>1, <2>1, <2>2
<1>7. /\ next' \in [MsgBlock -> MsgBlock \cup {NoMessage}]
      /\ next'[b] = NoMessage
      /\ \A a \in MsgBlock : a # b /\ (Len(c) > 0 => a # c[Len(c)]) => next'[a] = next[a]
      /\ Len(c) > 0 => next'[c[Len(c)]] = b
  <2>1. CASE Len(c) = 0
    BY <1>2, <1>6, <2>1 DEF NextCleared
  <2>2. CASE Len(c) # 0
    <3>1. Len(c) \in 1 .. Len(c) /\ Len(c) > 0
      BY <1>3, <2>2
    <3>2. PICK last \in MsgBlock : last = c[Len(c)] /\ last # b
      BY <1>3, <3>1
    <3>3. next' = [[next EXCEPT ![b] = NoMessage] EXCEPT ![last] = b]
      BY <1>6, <2>2, <3>2 DEF NextCleared
    <3>4. QED
      BY <1>2, <3>1, <3>2, <3>3
  <2>3. QED
    BY <2>1, <2>2
<1>8. /\ first_message' \in Seq(MsgBlock \cup {NoMessage})
      /\ Len(first_message') = Len(first_message)
      /\ \A jd \in Queues : jd # id => first_message'[jd + 1] = first_message[jd + 1]
      /\ first_message'[id + 1] = IF Len(c) = 0 THEN b ELSE first_message[id + 1]
  BY <1>2, <1>6 DEF Queues
<1>9. QueuesTypeOK'
  <2>1. body' \in [MsgBlock -> Message] /\ allocated' \subseteq MsgBlock /\ received' = received
    BY <1>1, <1>2
  <2>2. QED
    BY <1>7, <1>8, <2>1 DEF QueuesTypeOK
<1>10. Leads(c2, first_message'[id + 1], next')
  <2>1. first_message'[id + 1] = WalkAt(c2, 0)
    BY <1>3, <1>4, <1>8 DEF WalkAt
  <2>2. ASSUME NEW n \in 1 .. Len(c2) PROVE next'[c2[n]] = WalkAt(c2, n)
    <3>1. CASE n = Len(c) + 1
      BY <1>3, <1>4, <1>7, <3>1 DEF WalkAt
    <3>2. CASE n = Len(c) /\ n > 0
      <4>1. n \in 1 .. Len(c) /\ n < Len(c2) /\ n + 1 = Len(c) + 1
        BY <1>3, <1>4, <3>2
      <4>2. c2[n] = c[Len(c)] /\ WalkAt(c2, n) = b
        BY <1>4, <3>2, <4>1 DEF WalkAt
      <4>3. QED
        BY <1>7, <3>2, <4>2
    <3>3. CASE n < Len(c)
      <4>1. n \in 1 .. Len(c) /\ n + 1 \in 1 .. Len(c) /\ n < Len(c2) /\ Len(c) \in 1 .. Len(c)
        BY <1>3, <1>4, <3>3
      <4>2. WalkAt(c2, n) = c[n + 1] /\ WalkAt(c, n) = c[n + 1] /\ c2[n] = c[n]
        BY <1>4, <3>3, <4>1 DEF WalkAt
      <4>3. c[n] # c[Len(c)]
        <5>1. \A i, j \in 1 .. Len(c) : c[i] = c[j] => i = j
          BY <1>2 DEF Chained, c
        <5>2. QED
          BY <3>3, <4>1, <5>1
      <4>4. next'[c[n]] = next[c[n]]
        BY <1>3, <1>7, <4>1, <4>3
      <4>5. QED
        BY <1>3, <4>1, <4>2, <4>4
    <3>4. QED
      BY <1>3, <1>4, <3>1, <3>2, <3>3
  <2>3. QED
    BY <2>1, <2>2 DEF Leads
<1>11. ASSUME NEW jd \in Queues, jd # id
       PROVE  ch[jd] \in Seq(MsgBlock) /\ Leads(ch[jd], first_message'[jd + 1], next')
  <2>1. ch[jd] \in Seq(MsgBlock) /\ Leads(ch[jd], first_message[jd + 1], next)
    BY <1>2 DEF Chained
  <2>2. ASSUME NEW n \in 1 .. Len(ch[jd]) PROVE next'[ch[jd][n]] = next[ch[jd][n]]
    <3>1. ch[jd][n] \in MsgBlock /\ ch[jd][n] # b
      BY <1>2, <2>1 DEF Chained
    <3>2. ASSUME Len(c) > 0 PROVE ch[jd][n] # c[Len(c)]
      <4>1. Len(c) \in 1 .. Len(c)
        BY <1>3, <3>2
      <4>2. QED
        BY <1>2, <1>11, <4>1 DEF Chained, c
    <3>3. QED
      BY <1>7, <3>1, <3>2
  <2>3. QED
    BY <1>8, <1>11, <2>1, <2>2 DEF Leads
<1>12. /\ ch2[id] = c2
       /\ \A jd \in Queues : jd # id => ch2[jd] = ch[jd]
       /\ Ids(first_message') = Queues
  BY <1>2, <1>8 DEF Ids, Queues
<1> HIDE DEF ch2
<1>13. Chained(ch2, first_message', next', allocated')
  <2>1. ASSUME NEW jd \in Queues
        PROVE  ch2[jd] \in Seq(MsgBlock) /\ Leads(ch2[jd], first_message'[jd + 1], next')
    BY <1>4, <1>10, <1>11, <1>12
  <2>2. ASSUME NEW jd \in Queues, NEW j \in 1 .. Len(ch2[jd])
        PROVE  \/ jd = id /\ j = Len(c) + 1 /\ ch2[jd][j] = b
               \/ j \in 1 .. Len(ch[jd]) /\ ch2[jd][j] = ch[jd][j] /\ ch2[jd][j] # b
    <3>1. CASE jd = id
      BY <1>3, <1>4, <1>12, <3>1 DEF c
    <3>2. CASE jd # id
      BY <1>2, <1>12, <3>2 DEF Chained
    <3>3. QED
      BY <3>1, <3>2
  <2>3. ASSUME NEW jd \in Queues, NEW kd \in Queues,
               NEW j \in 1 .. Len(ch2[jd]), NEW k \in 1 .. Len(ch2[kd]),
               ch2[jd][j] = ch2[kd][k]
        PROVE  jd = kd /\ j = k
    <3>1. CASE ch2[jd][j] = b
      <4>1. jd = id /\ j = Len(c) + 1
        BY <2>2, <3>1
      <4>2. kd = id /\ k = Len(c) + 1
        BY <2>2, <2>3, <3>1
      <4>3. QED
        BY <4>1, <4>2
    <3>2. CASE ch2[jd][j] # b
      <4>1. j \in 1 .. Len(ch[jd]) /\ k \in 1 .. Len(ch[kd]) /\ ch[jd][j] = ch[kd][k]
        BY <2>2, <2>3, <3>2
      <4>2. QED
        BY <1>2, <4>1 DEF Chained
    <3>3. QED
      BY <3>1, <3>2
  <2>4. ASSUME NEW a
        PROVE  a \in allocated' <=> \E jd \in Queues : \E j \in 1 .. Len(ch2[jd]) : ch2[jd][j] = a
    <3>1. a \in allocated <=> \E jd \in Queues : \E j \in 1 .. Len(ch[jd]) : ch[jd][j] = a
      BY <1>2 DEF Chained
    <3>2. ASSUME NEW jd \in Queues, NEW j \in 1 .. Len(ch[jd])
          PROVE  j \in 1 .. Len(ch2[jd]) /\ ch2[jd][j] = ch[jd][j]
      <4>1. CASE jd = id
        BY <1>3, <1>4, <1>12, <4>1 DEF c
      <4>2. CASE jd # id
        BY <1>12, <4>2
      <4>3. QED
        BY <4>1, <4>2
    <3>3. Len(c) + 1 \in 1 .. Len(ch2[id]) /\ ch2[id][Len(c) + 1] = b
      BY <1>3, <1>4, <1>12
    <3>4. CASE a = b
      BY <1>1, <3>3, <3>4
    <3>5. CASE a # b
      BY <1>1, <2>2, <3>1, <3>2, <3>5
    <3>6. QED
      BY <3>4, <3>5
  <2>5. QED
    BY <1>12, <2>1, <2>3, <2>4 DEF Chained
<1>14. QED
  BY <1>1, <1>8, <1>9, <1>12, <1>13 DEF c2, c

(* A message is received: the chain loses its first block, which is freed. *)
LEMMA RcvTakesTheFirst ==
    ASSUME QueuesTypeOK, NEW ch, Chained(ch, first_message, next, allocated),
           NEW id \in Queues, NEW size \in Size, msgrcv(id, size)
    PROVE  /\ QueuesTypeOK'
           /\ \E ch2 : /\ Chained(ch2, first_message', next', allocated')
                       /\ ch[id] # << >> /\ ch2[id] = Tail(ch[id])
                       /\ body[ch[id][1]].size = size
                       /\ received' = << body[ch[id][1]] >>
                       /\ \A jd \in Queues : jd # id => ch2[jd] = ch[jd]
                       /\ Len(first_message') = Len(first_message) /\ body' = body
<1> DEFINE c == ch[id]
           c2 == Tail(c)
           b == first_message[id + 1]
           ch2 == [jd \in Queues |-> IF jd = id THEN c2 ELSE ch[jd]]
<1>1. /\ b # NoMessage /\ body[b].size = size
      /\ received' = << [size |-> size, content |-> body[b].content] >>
      /\ first_message' = [first_message EXCEPT ![id + 1] = next[b]]
      /\ allocated' = allocated \ {b}
      /\ next' = next /\ body' = body
  BY DEF msgrcv, HasSize, Freed
<1>2. /\ first_message \in Seq(MsgBlock \cup {NoMessage})
      /\ next \in [MsgBlock -> MsgBlock \cup {NoMessage}]
      /\ body \in [MsgBlock -> Message] /\ allocated \subseteq MsgBlock
      /\ Queues = Ids(first_message) /\ id + 1 \in 1 .. Len(first_message)
  BY DEF QueuesTypeOK, Queues, Ids
<1>3. /\ c \in Seq(MsgBlock) /\ Len(c) \in Nat
      /\ b = WalkAt(c, 0)
      /\ \A n \in 1 .. Len(c) : next[c[n]] = WalkAt(c, n)
  BY <1>2 DEF Chained, Leads
<1>4. Len(c) > 0 /\ b = c[1] /\ b \in MsgBlock
  BY <1>1, <1>3 DEF WalkAt
<1>5. /\ c2 \in Seq(MsgBlock) /\ Len(c2) = Len(c) - 1 /\ c # << >>
      /\ \A n \in 1 .. Len(c2) : n + 1 \in 1 .. Len(c) /\ c2[n] = c[n + 1]
  BY <1>3, <1>4
<1> HIDE DEF c, c2, b
<1>6. body[b] = [size |-> size, content |-> body[b].content] /\ body[b] \in Message
  <2>1. body[b] \in Message
    BY <1>2, <1>4
  <2>2. QED
    BY <1>1, <2>1 DEF Message
<1>7. /\ first_message' \in Seq(MsgBlock \cup {NoMessage})
      /\ Len(first_message') = Len(first_message)
      /\ \A jd \in Queues : jd # id => first_message'[jd + 1] = first_message[jd + 1]
      /\ first_message'[id + 1] = next[b]
  BY <1>1, <1>2, <1>4 DEF Queues
<1>8. QueuesTypeOK'
  <2>1. received' = << body[b] >>
    BY <1>1, <1>6
  <2>2. QED
    BY <1>1, <1>2, <1>6, <1>7, <2>1 DEF QueuesTypeOK
<1>9. Leads(c2, first_message'[id + 1], next')
  <2>1. first_message'[id + 1] = WalkAt(c2, 0)
    <3>1. next[b] = WalkAt(c, 1)
      BY <1>3, <1>4
    <3>2. QED
      BY <1>3, <1>4, <1>5, <1>7, <3>1 DEF WalkAt
  <2>2. ASSUME NEW n \in 1 .. Len(c2) PROVE next'[c2[n]] = WalkAt(c2, n)
    <3>1. next'[c2[n]] = WalkAt(c, n + 1)
      BY <1>1, <1>3, <1>5
    <3>2. WalkAt(c, n + 1) = WalkAt(c2, n)
      <4>1. n \in Nat /\ Len(c2) \in Nat
        BY <1>3, <1>4, <1>5
      <4>2. CASE n < Len(c2)
        <5>1. n + 1 \in 1 .. Len(c2) /\ n + 1 < Len(c)
          BY <1>3, <1>5, <4>1, <4>2
        <5>2. QED
          BY <1>5, <4>2, <5>1 DEF WalkAt
      <4>3. CASE ~ n < Len(c2)
        BY <1>3, <1>5, <4>1, <4>3 DEF WalkAt
      <4>4. QED
        BY <4>2, <4>3
    <3>3. QED
      BY <3>1, <3>2
  <2>3. QED
    BY <2>1, <2>2 DEF Leads
<1>10. /\ ch2[id] = c2
       /\ \A jd \in Queues : jd # id => ch2[jd] = ch[jd]
       /\ Ids(first_message') = Queues
  BY <1>2, <1>7 DEF Ids, Queues
<1> HIDE DEF ch2
<1>11. Chained(ch2, first_message', next', allocated')
  <2>1. ASSUME NEW jd \in Queues
        PROVE  ch2[jd] \in Seq(MsgBlock) /\ Leads(ch2[jd], first_message'[jd + 1], next')
    <3>1. CASE jd = id
      BY <1>5, <1>9, <1>10, <3>1
    <3>2. CASE jd # id
      <4>1. ch[jd] \in Seq(MsgBlock) /\ Leads(ch[jd], first_message[jd + 1], next)
        BY <1>2 DEF Chained
      <4>2. QED
        BY <1>1, <1>7, <1>10, <3>2, <4>1
    <3>3. QED
      BY <3>1, <3>2
  <2> DEFINE Old(jd, j) == IF jd = id THEN j + 1 ELSE j
  <2>2. ASSUME NEW jd \in Queues, NEW j \in 1 .. Len(ch2[jd])
        PROVE  Old(jd, j) \in 1 .. Len(ch[jd]) /\ ch2[jd][j] = ch[jd][Old(jd, j)]
    BY <1>5, <1>10 DEF c
  <2>3. ASSUME NEW jd \in Queues, NEW kd \in Queues,
               NEW j \in 1 .. Len(ch2[jd]), NEW k \in 1 .. Len(ch2[kd]),
               ch2[jd][j] = ch2[kd][k]
        PROVE  jd = kd /\ j = k
    <3>1. Old(jd, j) \in 1 .. Len(ch[jd]) /\ ch2[jd][j] = ch[jd][Old(jd, j)]
      BY <2>2
    <3>2. Old(kd, k) \in 1 .. Len(ch[kd]) /\ ch2[kd][k] = ch[kd][Old(kd, k)]
      BY <2>2
    <3> HIDE DEF Old
    <3>3. jd = kd /\ Old(jd, j) = Old(kd, k)
      <4>1. PICK u \in 1 .. Len(ch[jd]), v \in 1 .. Len(ch[kd]) :
              u = Old(jd, j) /\ v = Old(kd, k) /\ ch[jd][u] = ch[kd][v]
        BY <2>3, <3>1, <3>2
      <4>2. jd = kd /\ u = v
        BY <1>2, <4>1 DEF Chained
      <4>3. QED
        BY <4>1, <4>2
    <3>4. j \in Int /\ k \in Int
      OBVIOUS
    <3>5. QED
      BY <3>3, <3>4 DEF Old
  <2>4. ASSUME NEW a
        PROVE  a \in allocated' <=> \E jd \in Queues : \E j \in 1 .. Len(ch2[jd]) : ch2[jd][j] = a
    <3>1. a \in allocated <=> \E jd \in Queues : \E j \in 1 .. Len(ch[jd]) : ch[jd][j] = a
      BY <1>2 DEF Chained
    <3>2. 1 \in 1 .. Len(ch[id]) /\ ch[id][1] = b
      BY <1>3, <1>4 DEF c
    <3>3. ASSUME NEW jd \in Queues, NEW j \in 1 .. Len(ch2[jd]) PROVE ch2[jd][j] # b
      <4>1. Old(jd, j) \in 1 .. Len(ch[jd]) /\ ch2[jd][j] = ch[jd][Old(jd, j)]
        BY <2>2
      <4>2. jd = id => Old(jd, j) # 1
        OBVIOUS
      <4> HIDE DEF Old
      <4>3. QED
        BY <1>2, <3>2, <4>1, <4>2 DEF Chained
    <3>4. ASSUME NEW jd \in Queues, NEW j \in 1 .. Len(ch[jd]), ch[jd][j] # b
          PROVE  \E k \in 1 .. Len(ch2[jd]) : ch2[jd][k] = ch[jd][j]
      <4>1. CASE jd = id
        <5>1. j # 1 /\ j \in 1 .. Len(c)
          BY <3>2, <3>4, <4>1 DEF c
        <5>2. j - 1 \in 1 .. Len(c2) /\ j - 1 + 1 = j
          BY <1>3, <1>5, <5>1
        <5>3. QED
          BY <1>5, <1>10, <4>1, <5>2 DEF c
      <4>2. CASE jd # id
        BY <1>10, <4>2
      <4>3. QED
        BY <4>1, <4>2
    <3>5. CASE a = b
      BY <1>1, <3>3, <3>5
    <3>6. CASE a # b
      <4>1. (\E jd \in Queues : \E j \in 1 .. Len(ch2[jd]) : ch2[jd][j] = a) =>
               \E jd \in Queues : \E j \in 1 .. Len(ch[jd]) : ch[jd][j] = a
        <5> HIDE DEF Old
        <5>1. QED
          BY <2>2
      <4>2. (\E jd \in Queues : \E j \in 1 .. Len(ch[jd]) : ch[jd][j] = a) =>
               \E jd \in Queues : \E j \in 1 .. Len(ch2[jd]) : ch2[jd][j] = a
        BY <3>4, <3>6
      <4>3. QED
        BY <1>1, <3>1, <3>6, <4>1, <4>2
    <3>7. QED
      BY <3>5, <3>6
  <2>5. QED
    BY <1>10, <2>1, <2>3, <2>4 DEF Chained
<1>12. QED
  BY <1>1, <1>4, <1>5, <1>6, <1>7, <1>8, <1>10, <1>11 DEF c2, c

LEMMA QueuesNextKeeps == QueuesInv /\ [QueuesNext]_queueVars => QueuesInv'
<1> SUFFICES ASSUME QueuesInv, [QueuesNext]_queueVars PROVE QueuesInv'
  OBVIOUS
<1>1. QueuesTypeOK
  BY DEF QueuesInv
<1>2. PICK ch : Chained(ch, first_message, next, allocated)
  BY DEF QueuesInv
<1>3. CASE msgget
  BY <1>1, <1>2, <1>3, GetAddsAChain DEF QueuesInv
<1>4. ASSUME NEW id \in Queues, NEW m \in Message, msgsnd(id, m) PROVE QueuesInv'
  BY <1>1, <1>2, <1>4, SndAppends DEF QueuesInv
<1>5. ASSUME NEW id \in Queues, NEW size \in Size, msgrcv(id, size) PROVE QueuesInv'
  BY <1>1, <1>2, <1>5, RcvTakesTheFirst DEF QueuesInv
<1>6. CASE UNCHANGED queueVars
  <2>1. Chained(ch, first_message', next', allocated')
    BY <1>2, <1>6 DEF queueVars
  <2>2. QueuesTypeOK'
    BY <1>1, <1>6 DEF queueVars, QueuesTypeOK
  <2>3. QED
    BY <2>1, <2>2 DEF QueuesInv
<1>7. QED
  BY <1>3, <1>4, <1>5, <1>6 DEF QueuesNext

(* The queues, the words of the blocks and what was received are of their  *)
(* types, whichever blocks the heap hands out (msg.c).                     *)
THEOREM QueuesTypeCorrect == QueuesSpec => []QueuesTypeOK
<1>1. QueuesInv => QueuesTypeOK
  BY DEF QueuesInv
<1>2. QED
  BY <1>1, QueuesInitHolds, QueuesNextKeeps, PTL DEF QueuesSpec

LEMMA OwnersAreOne == QueuesInv => BlocksHaveOneOwner
<1> SUFFICES ASSUME QueuesInv PROVE BlocksHaveOneOwner
  OBVIOUS
<1>1. PICK ch : Chained(ch, first_message, next, allocated)
  BY DEF QueuesInv
<1>2. /\ first_message \in Seq(MsgBlock \cup {NoMessage}) /\ allocated \subseteq MsgBlock
      /\ \A id \in Queues : Blocks(id) = ch[id]
      /\ Queues = Ids(first_message)
  BY <1>1, BlocksFollowNow DEF QueuesInv, QueuesTypeOK, BlocksFollow, Queues, Ids
<1>3. ASSUME NEW id \in Queues
      PROVE  /\ ch[id] \in Seq(MsgBlock) /\ Leads(ch[id], first_message[id + 1], next)
             /\ \A i, j \in 1 .. Len(ch[id]) : ch[id][i] = ch[id][j] => i = j
             /\ BlocksOf(id) = {ch[id][i] : i \in 1 .. Len(ch[id])}
  <2>1. /\ ch[id] \in Seq(MsgBlock) /\ Leads(ch[id], first_message[id + 1], next)
        /\ \A i, j \in 1 .. Len(ch[id]) : ch[id][i] = ch[id][j] => i = j
    BY <1>1, <1>2 DEF Chained
  <2>2. DOMAIN ch[id] = 1 .. Len(ch[id])
    BY <2>1
  <2>3. BlocksOf(id) = {ch[id][i] : i \in 1 .. Len(ch[id])}
    BY <1>2, <2>2 DEF BlocksOf
  <2>4. QED
    BY <2>1, <2>3
<1>4. ASSUME NEW id \in Queues
      PROVE  LET chain == Blocks(id) IN
             /\ chain # << >> => next[chain[Len(chain)]] = NoMessage
             /\ Len(chain) = Cardinality(BlocksOf(id))
  <2> DEFINE c == ch[id]
  <2>1. c \in Seq(MsgBlock) /\ Len(c) \in Nat /\ Leads(c, first_message[id + 1], next)
    BY <1>3
  <2>2. /\ \A i, j \in 1 .. Len(c) : c[i] = c[j] => i = j
        /\ BlocksOf(id) = {c[i] : i \in 1 .. Len(c)}
    BY <1>3
  <2> HIDE DEF c
  <2>3. c # << >> => next[c[Len(c)]] = NoMessage
    <3>1. c # << >> => Len(c) \in 1 .. Len(c)
      BY <2>1
    <3>2. WalkAt(c, Len(c)) = NoMessage
      BY <2>1 DEF WalkAt
    <3>3. QED
      BY <2>1, <3>1, <3>2 DEF Leads
  <2>4. Cardinality(BlocksOf(id)) = Len(c)
    <3> DEFINE f == [i \in 1 .. Len(c) |-> c[i]]
    <3>1. f \in Bijection(1 .. Len(c), BlocksOf(id))
      BY <2>2 DEF Bijection, Injection, IsInjective, Surjection
    <3>2. ExistsBijection(1 .. Len(c), BlocksOf(id))
      BY <3>1 DEF ExistsBijection
    <3>3. PICK n \in Nat : n = Len(c)
      BY <2>1
    <3>4. ExistsBijection(1 .. n, BlocksOf(id))
      BY <3>2, <3>3
    <3>5. QED
      BY <3>3, <3>4, FS_CountingElements
  <2>5. Blocks(id) = c
    BY <1>2 DEF c
  <2>6. QED
    BY <2>3, <2>4, <2>5
<1>5. allocated = UNION {BlocksOf(id) : id \in Queues}
  <2>1. \A b : b \in allocated <=> \E id \in Queues : \E i \in 1 .. Len(ch[id]) : ch[id][i] = b
    BY <1>1, <1>2 DEF Chained
  <2>2. \A b : b \in allocated <=> \E id \in Queues : b \in BlocksOf(id)
    BY <1>3, <2>1
  <2>3. QED
    BY <2>2
<1>6. ASSUME NEW id \in Queues, NEW jd \in Queues, id # jd
      PROVE  BlocksOf(id) \cap BlocksOf(jd) = {}
  <2> SUFFICES ASSUME NEW b \in BlocksOf(id), b \in BlocksOf(jd) PROVE FALSE
    OBVIOUS
  <2>1. PICK i \in 1 .. Len(ch[id]), j \in 1 .. Len(ch[jd]) : ch[id][i] = b /\ ch[jd][j] = b
    BY <1>3
  <2>2. QED
    BY <1>1, <1>2, <1>6, <2>1 DEF Chained
<1>7. QED
  BY <1>4, <1>5, <1>6 DEF BlocksHaveOneOwner

(* Every allocated block is in the chain of exactly one queue, once, and   *)
(* every chain ends, however often msgrcv frees blocks and msgsnd gets     *)
(* them again (msg.c), for any number of queues and blocks.                *)
THEOREM OwnersStayOne == QueuesSpec => []BlocksHaveOneOwner
BY OwnersAreOne, QueuesInitHolds, QueuesNextKeeps, PTL DEF QueuesSpec

-----------------------------------------------------------------------------
(* The refinement. *)
Contents(c) == [i \in DOMAIN c |-> body[c[i]]]

QueueRow == [i \in DOMAIN first_message |-> QueueOf(i - 1)]

IsQueueRow ==
    \A ch : Chained(ch, first_message, next, allocated) =>
       QueueRow = [i \in 1 .. Len(first_message) |-> Contents(ch[i - 1])]

LEMMA QueueRowNow == QueuesTypeOK => IsQueueRow
<1> SUFFICES ASSUME QueuesTypeOK, NEW ch, Chained(ch, first_message, next, allocated)
             PROVE  QueueRow = [i \in 1 .. Len(first_message) |-> Contents(ch[i - 1])]
  BY DEF IsQueueRow
<1>1. DOMAIN first_message = 1 .. Len(first_message) /\ Len(first_message) \in Nat
  BY DEF QueuesTypeOK
<1>2. \A i \in 1 .. Len(first_message) : i - 1 \in Queues
  BY <1>1 DEF Queues
<1>3. \A id \in Queues : QueueOf(id) = Contents(ch[id])
  BY BlocksFollowNow DEF BlocksFollow, QueueOf, Contents
<1>4. QED
  BY <1>1, <1>2, <1>3 DEF QueueRow

LEMMA QueueRowNext == QueuesTypeOK' => IsQueueRow'
BY QueueRowNow, PTL

(* Rows as sequences. *)
LEMMA RowIsASequence ==
    ASSUME NEW n \in Nat, NEW T, NEW f \in [1 .. n -> T]
    PROVE  f \in Seq(T) /\ Len(f) = n
<1>1. f \in Seq(T)
  OBVIOUS
<1>2. Len(f) \in Nat /\ 1 .. Len(f) = 1 .. n
  BY <1>1
<1>3. Len(f) = n
  BY <1>2
<1>4. QED
  BY <1>1, <1>3

LEMMA SequenceIsARow ==
    ASSUME NEW T, NEW f \in Seq(T)
    PROVE  f = [i \in 1 .. Len(f) |-> f[i]]
OBVIOUS

LEMMA RowIsAppended ==
    ASSUME NEW n \in Nat, NEW T, NEW f \in [1 .. n -> T], NEW e \in T
    PROVE  Append(f, e) = [i \in 1 .. n + 1 |-> IF i = n + 1 THEN e ELSE f[i]]
<1>1. f \in Seq(T) /\ Len(f) = n
  BY RowIsASequence
<1>2. PICK g \in Seq(T) : g = Append(f, e)
  <2>1. Append(f, e) \in Seq(T)
    BY <1>1
  <2>2. QED
    BY <2>1
<1>3. Len(g) = n + 1 /\ \A i \in 1 .. n + 1 : g[i] = IF i = n + 1 THEN e ELSE f[i]
  BY <1>1, <1>2
<1>4. g = [i \in 1 .. n + 1 |-> g[i]]
  BY <1>3, SequenceIsARow
<1>5. QED
  BY <1>2, <1>3, <1>4

LEMMA FifoInit == QueuesInit => Fifo!Init
BY DEF QueuesInit, Fifo!Init, QueueRow

LEMMA FifoMessage == Fifo!Message = Message
BY DEF Fifo!Message, Message

LEMMA FifoGet == QueuesInv /\ msgget => Fifo!Next
<1> SUFFICES ASSUME QueuesInv, msgget PROVE Fifo!Msgget
  BY DEF Fifo!Next
<1> DEFINE n == Len(first_message)
<1>1. QueuesTypeOK
  BY DEF QueuesInv
<1>2. PICK ch : Chained(ch, first_message, next, allocated)
  BY DEF QueuesInv
<1>3. PICK ch2 : /\ Chained(ch2, first_message', next', allocated')
                 /\ \A id \in Queues : ch2[id] = ch[id]
                 /\ ch2[n] = << >>
  BY <1>1, <1>2, GetAddsAChain
<1>4. QueuesTypeOK'
  BY <1>1, <1>2, GetAddsAChain
<1>5. /\ n \in Nat /\ Len(first_message') = n + 1
      /\ \A i \in 1 .. n : i - 1 \in Queues
      /\ body' = body /\ received' = received
  BY <1>1 DEF msgget, QueuesTypeOK, Queues
<1> HIDE DEF n
<1>6. QueueRow = [i \in 1 .. n |-> Contents(ch[i - 1])]
  BY <1>1, <1>2, QueueRowNow DEF IsQueueRow, n
<1>7. QueueRow' = [i \in 1 .. n + 1 |-> Contents(ch2[i - 1])]
  <2>1. QueueRow' = [i \in 1 .. Len(first_message') |-> Contents(ch2[i - 1])']
    BY <1>3, <1>4, QueueRowNext DEF IsQueueRow
  <2>2. \A c : Contents(c)' = Contents(c)
    BY <1>5 DEF Contents
  <2>3. QED
    BY <1>5, <2>1, <2>2
<1>8. Contents(<< >>) = << >>
  BY DEF Contents
<1>9. QueueRow' = Append(QueueRow, << >>)
  <2>1. QueueRow' = [i \in 1 .. n + 1 |-> IF i = n + 1 THEN << >> ELSE QueueRow[i]]
    <3>1. ASSUME NEW i \in 1 .. n + 1
          PROVE  Contents(ch2[i - 1]) = IF i = n + 1 THEN << >> ELSE QueueRow[i]
      <4>1. CASE i = n + 1
        BY <1>3, <1>5, <1>8, <4>1 DEF n
      <4>2. CASE i # n + 1
        <5>1. i \in 1 .. n
          BY <1>5, <4>2
        <5>2. QED
          BY <1>3, <1>5, <1>6, <4>2, <5>1
      <4>3. QED
        BY <4>1, <4>2
    <3>2. QED
      BY <1>7, <3>1
  <2> DEFINE T == {Contents(ch[i - 1]) : i \in 1 .. n} \cup {<< >>}
  <2>2. QueueRow \in [1 .. n -> T]
    BY <1>6
  <2> HIDE DEF T
  <2>3. Append(QueueRow, << >>) = [i \in 1 .. n + 1 |-> IF i = n + 1 THEN << >> ELSE QueueRow[i]]
    <3>1. << >> \in T
      BY DEF T
    <3>2. QED
      BY <1>5, <2>2, <3>1, RowIsAppended
  <2>4. QED
    BY <2>1, <2>3
<1>10. QED
  BY <1>5, <1>9 DEF Fifo!Msgget, QueueRow

LEMMA FifoSnd ==
    ASSUME QueuesInv, NEW id \in Queues, NEW m \in Message, msgsnd(id, m)
    PROVE  Fifo!Next
<1> DEFINE n == Len(first_message)
<1>1. QueuesTypeOK /\ body \in [MsgBlock -> Message]
  BY DEF QueuesInv, QueuesTypeOK
<1>2. PICK ch : Chained(ch, first_message, next, allocated)
  BY DEF QueuesInv
<1>3. PICK ch2, b : /\ Chained(ch2, first_message', next', allocated')
                    /\ b \in MsgBlock \ allocated /\ body' = [body EXCEPT ![b] = m]
                    /\ ch2[id] = Append(ch[id], b)
                    /\ \A jd \in Queues : jd # id => ch2[jd] = ch[jd]
                    /\ Len(first_message') = n
  BY <1>1, <1>2, SndAppends
<1>4. QueuesTypeOK'
  BY <1>1, <1>2, SndAppends
<1>5. /\ n \in Nat /\ Queues = 0 .. n - 1 /\ Ids(first_message) = Queues
      /\ \A i \in 1 .. n : i - 1 \in Queues
      /\ id + 1 \in 1 .. n /\ id + 1 - 1 = id
      /\ received' = received
  BY <1>1 DEF msgsnd, QueuesTypeOK, Queues, Ids
<1> HIDE DEF n
<1>6. QueueRow = [i \in 1 .. n |-> Contents(ch[i - 1])]
  BY <1>1, <1>2, QueueRowNow DEF IsQueueRow, n
<1>7. QueueRow' = [i \in 1 .. n |-> Contents(ch2[i - 1])']
  BY <1>3, <1>4, QueueRowNext DEF IsQueueRow
<1>8. ASSUME NEW jd \in Queues
      PROVE  /\ ch[jd] \in Seq(MsgBlock)
             /\ \A j \in 1 .. Len(ch[jd]) : ch[jd][j] \in MsgBlock /\ ch[jd][j] # b
  <2>1. ch[jd] \in Seq(MsgBlock)
    BY <1>2, <1>5 DEF Chained
  <2>2. \A j \in 1 .. Len(ch[jd]) : ch[jd][j] \in allocated
    BY <1>2, <1>5 DEF Chained
  <2>3. QED
    BY <1>3, <2>1, <2>2
<1>9. ASSUME NEW jd \in Queues, jd # id PROVE Contents(ch2[jd])' = Contents(ch[jd])
  <2> DEFINE c == ch[jd]
  <2>1. DOMAIN c = 1 .. Len(c)
    BY <1>8
  <2>2. \A j \in 1 .. Len(c) : body'[c[j]] = body[c[j]]
    BY <1>1, <1>3, <1>8
  <2>3. ch2[jd] = c
    BY <1>3, <1>9
  <2> HIDE DEF c
  <2>4. [j \in DOMAIN c |-> body'[c[j]]] = [j \in DOMAIN c |-> body[c[j]]]
    BY <2>1, <2>2
  <2>5. QED
    BY <2>3, <2>4 DEF Contents, c
<1>10. Contents(ch2[id])' = Append(Contents(ch[id]), m)
  <2> DEFINE c == ch[id]
             c2 == ch2[id]
             k == Len(c)
  <2>1. /\ c \in Seq(MsgBlock) /\ c2 = Append(c, b) /\ b \in MsgBlock
        /\ \A j \in 1 .. k : c[j] \in MsgBlock /\ c[j] # b
    BY <1>3, <1>8
  <2> HIDE DEF c, c2
  <2>2. /\ c2 \in Seq(MsgBlock) /\ Len(c2) = k + 1 /\ k \in Nat
        /\ \A j \in 1 .. k : c2[j] = c[j]
        /\ c2[k + 1] = b
    BY <2>1
  <2>3. DOMAIN c = 1 .. k /\ DOMAIN c2 = 1 .. k + 1
    BY <2>1, <2>2
  <2> HIDE DEF k
  <2>4. \A j \in 1 .. k + 1 : body'[c2[j]] = IF j = k + 1 THEN m ELSE body[c[j]]
    <3>1. \A j \in 1 .. k + 1 : j # k + 1 => j \in 1 .. k
      BY <2>2
    <3>2. body'[b] = m /\ \A a \in MsgBlock : a # b => body'[a] = body[a]
      BY <1>1, <1>3
    <3>3. QED
      BY <2>1, <2>2, <3>1, <3>2
  <2>5. [j \in DOMAIN c2 |-> body'[c2[j]]] = [j \in 1 .. k + 1 |-> IF j = k + 1 THEN m ELSE body[c[j]]]
    BY <2>3, <2>4
  <2>6. Contents(c) \in [1 .. k -> Message] /\ \A j \in 1 .. k : Contents(c)[j] = body[c[j]]
    BY <1>1, <2>1, <2>3 DEF Contents
  <2>7. Append(Contents(c), m) = [j \in 1 .. k + 1 |-> IF j = k + 1 THEN m ELSE Contents(c)[j]]
    BY <2>2, <2>6, RowIsAppended
  <2>8. \A j \in 1 .. k + 1 : j # k + 1 => j \in 1 .. k
    BY <2>2
  <2>9. [j \in 1 .. k + 1 |-> IF j = k + 1 THEN m ELSE Contents(c)[j]] =
          [j \in 1 .. k + 1 |-> IF j = k + 1 THEN m ELSE body[c[j]]]
    BY <2>6, <2>8
  <2>10. Contents(c2)' = [j \in DOMAIN c2 |-> body'[c2[j]]]
    BY DEF Contents, c2
  <2>11. QED
    BY <2>5, <2>7, <2>9, <2>10 DEF c, c2
<1>11. QueueRow' = [QueueRow EXCEPT ![id + 1] = Append(@, m)]
  <2>1. ASSUME NEW i \in 1 .. n
        PROVE  Contents(ch2[i - 1])' = IF i = id + 1 THEN Append(QueueRow[id + 1], m) ELSE QueueRow[i]
    <3>1. CASE i = id + 1
      BY <1>5, <1>6, <1>10, <3>1
    <3>2. CASE i # id + 1
      <4>1. i - 1 \in Queues /\ i - 1 # id
        BY <1>5, <3>2
      <4>2. QED
        BY <1>6, <1>9, <3>2, <4>1
    <3>3. QED
      BY <3>1, <3>2
  <2>2. DOMAIN QueueRow = 1 .. n
    BY <1>6
  <2>3. [QueueRow EXCEPT ![id + 1] = Append(@, m)] =
          [i \in 1 .. n |-> IF i = id + 1 THEN Append(QueueRow[id + 1], m) ELSE QueueRow[i]]
    BY <2>2
  <2>4. QED
    BY <1>7, <2>1, <2>3
<1>12. id + 1 \in DOMAIN QueueRow /\ id \in 0 .. Len(QueueRow) - 1
  <2>1. QueueRow \in [1 .. n -> {Contents(ch[i - 1]) : i \in 1 .. n}]
    BY <1>6
  <2>2. Len(QueueRow) = n
    BY <1>5, <2>1, RowIsASequence
  <2>3. QED
    BY <1>5, <2>1, <2>2
<1>13. Fifo!Msgsnd(id, m)
  BY <1>5, <1>11, <1>12 DEF Fifo!Msgsnd, QueueRow
<1>14. QED
  BY <1>12, <1>13, FifoMessage DEF Fifo!Next, QueueRow

LEMMA FifoRcv ==
    ASSUME QueuesInv, NEW id \in Queues, NEW size \in Size, msgrcv(id, size)
    PROVE  Fifo!Next
<1> DEFINE n == Len(first_message)
<1>1. QueuesTypeOK /\ body \in [MsgBlock -> Message]
  BY DEF QueuesInv, QueuesTypeOK
<1>2. PICK ch : Chained(ch, first_message, next, allocated)
  BY DEF QueuesInv
<1>3. PICK ch2 : /\ Chained(ch2, first_message', next', allocated')
                 /\ ch[id] # << >> /\ ch2[id] = Tail(ch[id])
                 /\ body[ch[id][1]].size = size
                 /\ received' = << body[ch[id][1]] >>
                 /\ \A jd \in Queues : jd # id => ch2[jd] = ch[jd]
                 /\ Len(first_message') = n /\ body' = body
  BY <1>1, <1>2, RcvTakesTheFirst
<1> DEFINE c == ch[id]
           c2 == ch2[id]
           k == Len(c)
<1>4. QueuesTypeOK'
  BY <1>1, <1>2, RcvTakesTheFirst
<1>5. /\ n \in Nat /\ Queues = 0 .. n - 1 /\ Ids(first_message) = Queues
      /\ \A i \in 1 .. n : i - 1 \in Queues
      /\ id + 1 \in 1 .. n /\ id + 1 - 1 = id
  BY <1>1 DEF QueuesTypeOK, Queues, Ids
<1> HIDE DEF n
<1>6. QueueRow = [i \in 1 .. n |-> Contents(ch[i - 1])]
  BY <1>1, <1>2, QueueRowNow DEF IsQueueRow, n
<1>7. QueueRow' = [i \in 1 .. n |-> Contents(ch2[i - 1])]
  <2>1. QueueRow' = [i \in 1 .. n |-> Contents(ch2[i - 1])']
    BY <1>3, <1>4, QueueRowNext DEF IsQueueRow
  <2>2. \A d : Contents(d)' = Contents(d)
    BY <1>3 DEF Contents
  <2>3. QED
    BY <2>1, <2>2
<1>8. c \in Seq(MsgBlock) /\ c # << >> /\ c2 = Tail(c)
  BY <1>2, <1>3, <1>5 DEF Chained
<1> HIDE DEF c, c2
<1>9. /\ k \in Nat /\ k > 0 /\ DOMAIN c = 1 .. k /\ 1 \in 1 .. k
      /\ c2 \in Seq(MsgBlock) /\ Len(c2) = k - 1 /\ DOMAIN c2 = 1 .. k - 1
      /\ \A j \in 1 .. k - 1 : c2[j] = c[j + 1] /\ j + 1 \in 1 .. k
  BY <1>8
<1> HIDE DEF k
<1>10. /\ Contents(c) \in [1 .. k -> Message]
       /\ \A j \in 1 .. k : Contents(c)[j] = body[c[j]]
  BY <1>1, <1>8, <1>9 DEF Contents
<1>11. Contents(c) \in Seq(Message) /\ Len(Contents(c)) = k
  BY <1>9, <1>10, RowIsASequence
<1>12. /\ Contents(c) # << >> /\ Head(Contents(c)) = body[c[1]]
       /\ Contents(c2) = Tail(Contents(c))
  <2>1. PICK g \in Seq(Message) : g = Contents(c)
    BY <1>11
  <2>2. g # << >> /\ Head(g) = g[1]
    BY <1>9, <1>11, <2>1
  <2>3. PICK t \in Seq(Message) : t = Tail(g)
    <3>1. Tail(g) \in Seq(Message)
      BY <2>2
    <3>2. QED
      BY <3>1
  <2>4. Len(t) = k - 1 /\ \A j \in 1 .. k - 1 : t[j] = g[j + 1]
    BY <1>9, <1>11, <2>1, <2>2, <2>3
  <2>5. t = [j \in 1 .. k - 1 |-> t[j]]
    BY <2>4, SequenceIsARow
  <2>6. \A j \in 1 .. k - 1 : t[j] = body[c2[j]]
    BY <1>9, <1>10, <2>1, <2>4
  <2>7. Contents(c2) = [j \in 1 .. k - 1 |-> body[c2[j]]]
    BY <1>9 DEF Contents
  <2>8. Contents(c2) = t
    BY <2>5, <2>6, <2>7
  <2>9. QED
    BY <1>9, <1>10, <2>1, <2>2, <2>3, <2>8
<1>13. QueueRow[id + 1] = Contents(c) /\ DOMAIN QueueRow = 1 .. n
  BY <1>5, <1>6 DEF c
<1>14. QueueRow' = [QueueRow EXCEPT ![id + 1] = Tail(@)]
  <2>1. ASSUME NEW i \in 1 .. n
        PROVE  Contents(ch2[i - 1]) = IF i = id + 1 THEN Tail(QueueRow[id + 1]) ELSE QueueRow[i]
    <3>1. CASE i = id + 1
      <4>1. i - 1 = id
        BY <1>5, <3>1
      <4>2. Contents(ch2[i - 1]) = Contents(c2)
        BY <4>1 DEF c2
      <4>3. QED
        BY <1>12, <1>13, <3>1, <4>2
    <3>2. CASE i # id + 1
      <4>1. i - 1 \in Queues /\ i - 1 # id
        BY <1>5, <3>2
      <4>2. QED
        BY <1>3, <1>6, <3>2, <4>1
    <3>3. QED
      BY <3>1, <3>2
  <2>2. [QueueRow EXCEPT ![id + 1] = Tail(@)] =
          [i \in 1 .. n |-> IF i = id + 1 THEN Tail(QueueRow[id + 1]) ELSE QueueRow[i]]
    BY <1>13
  <2>3. QED
    BY <1>7, <2>1, <2>2
<1>15. id + 1 \in DOMAIN QueueRow /\ id \in 0 .. Len(QueueRow) - 1
  <2>1. QueueRow \in [1 .. n -> {Contents(ch[i - 1]) : i \in 1 .. n}]
    BY <1>6
  <2>2. Len(QueueRow) = n
    BY <1>5, <2>1, RowIsASequence
  <2>3. QED
    BY <1>5, <2>1, <2>2
<1>16. Head(QueueRow[id + 1]).size = size /\ received' = << Head(QueueRow[id + 1]) >>
       /\ QueueRow[id + 1] # << >>
  BY <1>3, <1>12, <1>13 DEF c
<1>17. Fifo!Msgrcv(id, size)
  BY <1>14, <1>15, <1>16 DEF Fifo!Msgrcv, QueueRow
<1>18. QED
  BY <1>15, <1>17 DEF Fifo!Next, QueueRow

(* The chains of blocks implement first-in-first-out queues of whole       *)
(* messages: msgsnd adds at one end, msgrcv takes from the other and only  *)
(* what has the size it names (msg.c).                                     *)
THEOREM ChainsAreFifo == QueuesSpec => ImplementsMessageQueues
<1>1. QueuesInv /\ [QueuesNext]_queueVars => [Fifo!Next]_<<QueueRow, received>>
  <2> SUFFICES ASSUME QueuesInv, [QueuesNext]_queueVars
               PROVE  Fifo!Next \/ UNCHANGED <<QueueRow, received>>
    OBVIOUS
  <2>1. CASE UNCHANGED queueVars
    <3>1. QueuesTypeOK /\ QueuesTypeOK'
      BY QueuesNextKeeps DEF QueuesInv
    <3>2. PICK ch : Chained(ch, first_message, next, allocated)
      BY DEF QueuesInv
    <3>3. Chained(ch, first_message', next', allocated')
      BY <2>1, <3>2 DEF queueVars
    <3>4. QueueRow = [i \in 1 .. Len(first_message) |-> Contents(ch[i - 1])]
      BY <3>1, <3>2, QueueRowNow DEF IsQueueRow
    <3>5. QueueRow' = [i \in 1 .. Len(first_message') |-> Contents(ch[i - 1])']
      BY <3>1, <3>3, QueueRowNext DEF IsQueueRow
    <3>6. QED
      BY <2>1, <3>4, <3>5 DEF queueVars, Contents
  <2>2. CASE msgget
    BY <2>2, FifoGet
  <2>3. ASSUME NEW id \in Queues, NEW m \in Message, msgsnd(id, m) PROVE Fifo!Next
    BY <2>3, FifoSnd
  <2>4. ASSUME NEW id \in Queues, NEW size \in Size, msgrcv(id, size) PROVE Fifo!Next
    BY <2>4, FifoRcv
  <2>5. QED
    BY <2>1, <2>2, <2>3, <2>4 DEF QueuesNext
<1>2. QueuesInv /\ [QueuesNext]_queueVars => [Fifo!Next]_Fifo!vars
  BY <1>1 DEF Fifo!vars, QueueRow
<1>3. QED
  BY <1>2, FifoInit, QueuesInitHolds, QueuesNextKeeps, PTL
     DEF QueuesSpec, ImplementsMessageQueues, Fifo!Spec
=============================================================================
