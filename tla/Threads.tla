------------------------------ MODULE Threads ------------------------------
(***************************************************************************)
(* What the kernel promises to its threads, whatever the number of         *)
(* processors: each is a sequential process that is started once, goes on  *)
(* only while it is active, may block itself, and goes on after a block    *)
(* only when another thread has woken it up.  Module Scheduler implements  *)
(* this; modules about programs that sleep and wake each other up are      *)
(* written in these terms.                                                 *)
(***************************************************************************)
EXTENDS Naturals

CONSTANTS
    Thread,
    MaySleep    \* the threads that may block themselves

VARIABLES
    status,     \* NONE, ACTIVE, BLCKD or FREED
    progress    \* the point the thread has reached, 0 or 1 in turn

vars == <<status, progress>>

Init ==
    /\ status = [t \in Thread |-> "NONE"]
    /\ progress = [t \in Thread |-> 0]

Become(t, value) == status' = [status EXCEPT ![t] = value] /\ UNCHANGED progress

Start(t) == status[t] = "NONE" /\ Become(t, "ACTIVE")

Proceed(t) ==
    /\ status[t] = "ACTIVE"
    /\ progress' = [progress EXCEPT ![t] = 1 - @]
    /\ UNCHANGED status

Block(t) == t \in MaySleep /\ status[t] = "ACTIVE" /\ Become(t, "BLCKD")

(* A wakeup that comes too early is lost: it leaves no trace. *)
Wake(by, t) ==
    /\ status[by] = "ACTIVE"
    /\ status[t] \in {"ACTIVE", "BLCKD"}
    /\ Become(t, "ACTIVE")

Exit(t) == status[t] = "ACTIVE" /\ Become(t, "FREED")

Next == \E t \in Thread :
    Start(t) \/ Proceed(t) \/ Block(t) \/ Exit(t) \/ \E by \in Thread : Wake(by, t)

Spec == Init /\ [][Next]_vars
=============================================================================
