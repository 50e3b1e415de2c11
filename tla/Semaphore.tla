----------------------------- MODULE Semaphore -----------------------------
(***************************************************************************)
(* The semaphores of src/src/kernel/ipc/sem.c as hlib's Sem::down and      *)
(* Sem::up use them: one semaphore, brought to Initial by calls of up      *)
(* before it is shared, and threads that go down, hold a unit, and come up *)
(* again.  semop holds sem_atomic from beginning to end, so a call is one  *)
(* step.  A thread that semop puts to sleep has already been counted, and  *)
(* goes on after its call when it is woken up.                             *)
(***************************************************************************)
EXTENDS Integers, SlotList

CONSTANTS
    NThread,    \* the threads that use the semaphore
    Initial     \* the number of ups before it is shared

ASSUME NThreadAssumption == NThread \in Nat \ {0}
ASSUME InitialAssumption == Initial \in Nat \ {0}

Thread == 1 .. NThread          \* their t_id
Slot == 1 .. NThread

VARIABLES
    semval,
    asleep,         \* the list of sleepers, by t_id
    exc_state,      \* ACTIVE or BLCKD, see module Threads
    counted         \* the threads that went down and have not come up yet

semVars == <<semval, asleep, exc_state, counted>>

SemInit ==
    /\ semval = Initial
    /\ asleep = EmptyList(Slot)
    /\ exc_state = [t \in Thread |-> "ACTIVE"]
    /\ counted = {}

-----------------------------------------------------------------------------
(* The loop `for(j=0; j<alist_get_entry_n(asleep); j++)` wakes the first   *)
(* sleeper and removes it; since the list gets shorter while j grows, it   *)
(* ends half way, and the first half of the list, rounded up, is woken.    *)
FirstHalf(list) ==
    {s \in Occupied(list) : Position(list, s) < (alist_get_entry_n(list) + 1) \div 2}

(* Slip: the sleepers stay on the list. *)
WakeAndKeep ==
    /\ exc_state' = [t \in Thread |-> IF \E s \in FirstHalf(asleep) : asleep[s] = t
                                      THEN "ACTIVE" ELSE exc_state[t]]
    /\ UNCHANGED asleep
WakeFirstHalf ==
    /\ exc_state' = [t \in Thread |-> IF \E s \in FirstHalf(asleep) : asleep[s] = t
                                      THEN "ACTIVE" ELSE exc_state[t]]
    /\ asleep' = [s \in Slot |-> IF s \in FirstHalf(asleep) THEN NULL ELSE asleep[s]]

FallAsleep(t) ==
    /\ exc_state' = [exc_state EXCEPT ![t] = "BLCKD"]
    /\ \E s \in Slot : IsAddSlot(asleep, s) /\ asleep' = [asleep EXCEPT ![s] = t]

(* semop with a single operation.  Whoever leaves the value negative is    *)
(* put to sleep, also a thread that comes up.  Slip: the test is <= 0 on   *)
(* the old value, which lets one thread too many pass.                     *)
SemopLate(t, op) ==
    /\ exc_state[t] = "ACTIVE"
    /\ semval' = semval + op
    /\ IF semval < 0 THEN FallAsleep(t) ELSE WakeFirstHalf
semop(t, op) ==
    /\ exc_state[t] = "ACTIVE"
    /\ semval' = semval + op
    /\ IF semval + op < 0 THEN FallAsleep(t) ELSE WakeFirstHalf

down(t) == t \notin counted /\ semop(t, -1) /\ counted' = counted \cup {t}
up(t) == t \in counted /\ semop(t, 1) /\ counted' = counted \ {t}

SemNext == \E t \in Thread : down(t) \/ up(t)

SemSpec == SemInit /\ [][SemNext]_semVars

(* A thread that holds a unit comes up eventually; none has to go down. *)
SemFairSpec == SemSpec /\ \A t \in Thread : WF_semVars(up(t))

-----------------------------------------------------------------------------
Holders == {t \in counted : exc_state[t] = "ACTIVE"}
Sleepers == {t \in Thread : exc_state[t] = "BLCKD"}

SemTypeOK ==
    /\ semval \in Int
    /\ asleep \in [Slot -> Thread \cup {NULL}]
    /\ exc_state \in [Thread -> {"ACTIVE", "BLCKD"}]
    /\ counted \subseteq Thread

(* The list names exactly the threads that sleep, each once: no wakeup is  *)
(* sent to the wrong thread and none finds its thread awake.               *)
ListNamesSleepers ==
    /\ Entries(asleep) = Sleepers
    /\ \A r, s \in Slot : asleep[r] = asleep[s] /\ asleep[r] # NULL => r = s

(* However many threads compete and whatever the order of their calls,     *)
(* never more than Initial of them hold a unit: with Initial = 1 the       *)
(* semaphore is a mutual exclusion lock.                                   *)
AtMostInitialHold == Cardinality(Holders) <= Initial

(* A thread sleeps only while the semaphore has no unit to give: nobody is *)
(* forgotten, and nobody sleeps after coming up.  This needs at most one   *)
(* thread more than there are units.                                       *)
NobodySleepsForNothing ==
    Sleepers # {} => /\ Cardinality(Holders) = Initial
                     /\ Sleepers \subseteq counted

(* A thread that sleeps in down gets its unit when the holders come up.    *)
SleepersGetIn == \A t \in Thread : t \in Sleepers ~> t \in Holders

(* And it does so, without ever sleeping for nothing, as long as at most   *)
(* one thread more than there are units wants one at a time.               *)
FewSleepersGetIn ==
    [](Cardinality(counted) <= Initial + 1) => []NobodySleepsForNothing /\ SleepersGetIn
=============================================================================
