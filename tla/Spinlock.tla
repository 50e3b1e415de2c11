------------------------------ MODULE Spinlock ------------------------------
(***************************************************************************)
(* The lock of src/src/kernel/lib/libOS/lock.h, instruction by             *)
(* instruction.  Every shared structure of the kernel is guarded by one of *)
(* these bytes.  spinlock_ackquire first waits with a plain compare until  *)
(* the byte is 0 and then runs `lock cmpxchgb %cl, (lock)`, which compares *)
(* the byte with AL.  The routine never loads AL: on entry AL is whatever  *)
(* the compiler left there, and a failed cmpxchg loads the byte into it.   *)
(***************************************************************************)
EXTENDS Integers

CONSTANTS
    CPU,        \* the processors competing for the lock
    EntryAL     \* the values AL may hold when the inline assembly is entered

ASSUME EntryALAssumption == EntryAL # {} /\ EntryAL \subseteq 0..255

LOCK_FREE == 0
LOCK_USED == 1

VARIABLES
    lock,       \* the lock byte
    al,         \* register AL of each processor
    pc,         \* where each processor is
    stolen      \* history: some cmpxchg succeeded on a byte already in use

vars == <<lock, al, pc, stolen>>

Labels == {"outside", "spin_lock", "get_lock", "critical"}

Init ==
    /\ lock = LOCK_FREE
    /\ al \in [CPU -> EntryAL]
    /\ pc = [c \in CPU |-> "outside"]
    /\ stolen = FALSE

-----------------------------------------------------------------------------
(* A processor calls spinlock_ackquire; AL holds some leftover value. *)
Call(c) ==
    /\ pc[c] = "outside"
    /\ \E v \in EntryAL : al' = [al EXCEPT ![c] = v]
    /\ pc' = [pc EXCEPT ![c] = "spin_lock"]
    /\ UNCHANGED <<lock, stolen>>

(* cmpb $0,(lock); je get_lock.  While the byte is not 0 the processor     *)
(* executes pause and jumps back, which changes nothing.                   *)
SpinLock(c) ==
    /\ pc[c] = "spin_lock"
    /\ lock = LOCK_FREE
    /\ pc' = [pc EXCEPT ![c] = "get_lock"]
    /\ UNCHANGED <<lock, al, stolen>>

(* lock cmpxchgb, comparison successful: the byte becomes LOCK_USED and    *)
(* the jne falls through.                                                  *)
GetLock(c) ==
    /\ pc[c] = "get_lock"
    /\ lock = al[c]
    /\ lock' = LOCK_USED
    /\ stolen' = (stolen \/ lock = LOCK_USED)
    /\ pc' = [pc EXCEPT ![c] = "critical"]
    /\ UNCHANGED al

(* lock cmpxchgb, comparison failed: the byte is loaded into AL and jne    *)
(* goes back to spin_lock.  Slips: the jne is missing; AL stays as it was. *)
FallThrough(c) ==
    /\ pc[c] = "get_lock"
    /\ lock # al[c]
    /\ al' = [al EXCEPT ![c] = lock]
    /\ pc' = [pc EXCEPT ![c] = "critical"]
    /\ UNCHANGED <<lock, stolen>>
RetryWithSameAL(c) ==
    /\ pc[c] = "get_lock"
    /\ lock # al[c]
    /\ pc' = [pc EXCEPT ![c] = "spin_lock"]
    /\ UNCHANGED <<lock, al, stolen>>
Retry(c) ==
    /\ pc[c] = "get_lock"
    /\ lock # al[c]
    /\ al' = [al EXCEPT ![c] = lock]
    /\ pc' = [pc EXCEPT ![c] = "spin_lock"]
    /\ UNCHANGED <<lock, stolen>>

(* spinlock_release stores LOCK_FREE, whoever holds the lock. *)
Release(c) ==
    /\ pc[c] = "critical"
    /\ lock' = LOCK_FREE
    /\ pc' = [pc EXCEPT ![c] = "outside"]
    /\ UNCHANGED <<al, stolen>>

Step(c) == SpinLock(c) \/ GetLock(c) \/ Retry(c) \/ Release(c)

Next == \E c \in CPU : Call(c) \/ Step(c)

Spec == Init /\ [][Next]_vars

(* Processors never stop executing the routine once they are in it, and a  *)
(* critical section of the kernel runs with interrupts off until its       *)
(* release; whether a processor ever asks for the lock is its own affair.  *)
FairSpec == Spec /\ \A c \in CPU : WF_vars(Step(c))

-----------------------------------------------------------------------------
TypeOK ==
    /\ lock \in {LOCK_FREE, LOCK_USED}
    /\ al \in [CPU -> 0..255]
    /\ pc \in [CPU -> Labels]
    /\ stolen \in BOOLEAN

InCritical == {c \in CPU : pc[c] = "critical"}

(* No two processors are between spinlock_ackquire and spinlock_release:   *)
(* what every user of a lock in the kernel relies on.                      *)
MutualExclusion ==
    \A c, d \in CPU : pc[c] = "critical" /\ pc[d] = "critical" => c = d

(* The only way to lose mutual exclusion is a cmpxchg that runs with AL = 1 *)
(* on a byte that is 1: as long as none has, the processors in their       *)
(* critical sections are at most one, and the byte says whether there is   *)
(* one, however calls, retries and releases interleave and whatever AL     *)
(* held at the calls.                                                      *)
MutualExclusionUnlessStolen ==
    ~stolen => /\ MutualExclusion
               /\ lock = LOCK_USED <=> InCritical # {}

(* The retry loop cannot livelock: when processors compete for the lock,   *)
(* some processor is let in, also when all of them start with an AL that   *)
(* matches nothing and their first cmpxchg is bound to fail.               *)
SomeoneGetsIn ==
    (\E c \in CPU : pc[c] \in {"spin_lock", "get_lock"})
        ~> (\E c \in CPU : pc[c] = "critical")
=============================================================================
