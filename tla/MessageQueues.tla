---------------------------- MODULE MessageQueues ----------------------------
(***************************************************************************)
(* What the message queues promise to programs: msgget makes a new queue,  *)
(* a queue is first in, first out, a message sent to a queue that does not *)
(* exist is refused, and a message is received only by a call that names   *)
(* its exact size; every other call gets nothing and changes nothing.      *)
(***************************************************************************)
EXTENDS Naturals, Sequences

CONSTANTS
    Size,       \* the sizes of messages
    Content     \* what they say

VARIABLES
    queue,      \* the queues, the one with id i at i + 1
    received    \* what the last successful msgrcv returned

vars == <<queue, received>>

Message == [size : Size, content : Content]

Init == queue = << >> /\ received = << >>

Msgget == queue' = Append(queue, << >>) /\ UNCHANGED received

Msgsnd(id, m) ==
    /\ id + 1 \in DOMAIN queue
    /\ queue' = [queue EXCEPT ![id + 1] = Append(@, m)]
    /\ UNCHANGED received

Msgrcv(id, size) ==
    /\ id + 1 \in DOMAIN queue
    /\ queue[id + 1] # << >>
    /\ Head(queue[id + 1]).size = size
    /\ received' = << Head(queue[id + 1]) >>
    /\ queue' = [queue EXCEPT ![id + 1] = Tail(@)]

Next ==
    \/ Msgget
    \/ \E id \in 0 .. Len(queue) - 1 : \/ \E m \in Message : Msgsnd(id, m)
                                       \/ \E size \in Size : Msgrcv(id, size)

Spec == Init /\ [][Next]_vars
=============================================================================
