------------------------------ MODULE MsgQueue ------------------------------
(***************************************************************************)
(* The message queues of src/src/kernel/ipc/msg.c as they are stored: each *)
(* queue has a pointer to its first message block, a piece of the kernel   *)
(* heap that holds the pointer to the next block, the size and the text.   *)
(* The three calls run under msq_lock from beginning to end; the heap they *)
(* allocate the blocks from is shared with everything else and may hand    *)
(* out any free block, also one that was a message before and still holds  *)
(* its old words.                                                          *)
(***************************************************************************)
EXTENDS Integers, Sequences, FiniteSets

CONSTANTS
    MsgBlock,   \* bound: the addresses kmalloc may return, not 0
    MaxQueue,   \* bound: the queues created
    Size,
    Content

NoMessage == 0
ASSUME MaxQueueAssumption == MaxQueue \in Nat
ASSUME BlockAssumption == NoMessage \notin MsgBlock /\ IsFiniteSet(MsgBlock)

VARIABLES
    first_message,  \* per queue, in the order of their ids from 0 on
    next,           \* the first word of a block
    body,           \* its size and text
    allocated,      \* the blocks kmalloc has handed out
    received        \* what the last successful msgrcv copied out

queueVars == <<first_message, next, body, allocated, received>>

Message == [size : Size, content : Content]

QueuesInit ==
    /\ first_message = << >>
    /\ next \in [MsgBlock -> MsgBlock \cup {NoMessage}]
    /\ \E m \in Message : body = [b \in MsgBlock |-> m]
    /\ allocated = {}
    /\ received = << >>

-----------------------------------------------------------------------------
(* The chain of blocks from b on: where the walk is after n blocks, as     *)
(* long as it has not come to a next word that is 0.                       *)
Chain(b) ==
    LET at[n \in 0 .. Cardinality(MsgBlock)] ==
            IF n = 0 THEN b ELSE IF at[n - 1] = NoMessage THEN NoMessage ELSE next[at[n - 1]]
    IN  [n \in {i \in 1 .. Cardinality(MsgBlock) : at[i - 1] # NoMessage} |-> at[n - 1]]

Blocks(id) == Chain(first_message[id + 1])

Queues == 0 .. Len(first_message) - 1

(* msgget: an entry of msqid_list, whose index is the id; it has no first  *)
(* message.                                                                *)
msgget ==
    /\ Len(first_message) < MaxQueue
    /\ first_message' = Append(first_message, NoMessage)
    /\ UNCHANGED <<next, body, allocated, received>>

(* msgsnd: the new block is filled, and its address goes to first_message  *)
(* or into the last block of the chain.                                    *)
NextCleared(b) == [next EXCEPT ![b] = NoMessage]

IsLastOf(id, last) == LET chain == Blocks(id) IN last = chain[Len(chain)]

msgsnd(id, m) ==
    /\ id \in Queues
    /\ \E b \in MsgBlock \ allocated :
        /\ allocated' = allocated \cup {b}
        /\ body' = [body EXCEPT ![b] = m]
        /\ \/ /\ first_message[id + 1] = NoMessage
              /\ first_message' = [first_message EXCEPT ![id + 1] = b]
              /\ next' = NextCleared(b)
           \/ /\ first_message[id + 1] # NoMessage
              /\ \E last \in MsgBlock : /\ IsLastOf(id, last)
                                     /\ next' = [NextCleared(b) EXCEPT ![last] = b]
              /\ UNCHANGED first_message
    /\ UNCHANGED received

(* msgrcv: only the first message is looked at, and only if the size asked *)
(* for is its size; as many bytes are copied.  Slips: the size is not      *)
(* compared; the block is not freed.                                       *)
AnySize(b, size) == TRUE
HasSize(b, size) == body[b].size = size

NotFreed(b) == allocated
Freed(b) == allocated \ {b}

msgrcv(id, size) ==
    /\ id \in Queues
    /\ LET b == first_message[id + 1] IN
       /\ b # NoMessage /\ HasSize(b, size)
       /\ received' = << [size |-> size, content |-> body[b].content] >>
       /\ first_message' = [first_message EXCEPT ![id + 1] = next[b]]
       /\ allocated' = Freed(b)
    /\ UNCHANGED <<next, body>>

QueuesNext ==
    \/ msgget
    \/ \E id \in Queues : \/ \E m \in Message : msgsnd(id, m)
                          \/ \E size \in Size : msgrcv(id, size)

QueuesSpec == QueuesInit /\ [][QueuesNext]_queueVars

-----------------------------------------------------------------------------
QueuesTypeOK ==
    /\ first_message \in Seq(MsgBlock \cup {NoMessage}) /\ Len(first_message) <= MaxQueue
    /\ next \in [MsgBlock -> MsgBlock \cup {NoMessage}]
    /\ body \in [MsgBlock -> Message]
    /\ allocated \subseteq MsgBlock
    /\ received = << >> \/ \E m \in Message : received = << m >>

BlocksOf(id) == LET chain == Blocks(id) IN {chain[i] : i \in DOMAIN chain}

(* Every block belongs to exactly one queue, once, for as long as it is    *)
(* allocated: no chain runs into another or into freed memory or in a      *)
(* circle, also when blocks are used again, and no block is lost.          *)
BlocksHaveOneOwner ==
    /\ \A id \in Queues : LET chain == Blocks(id) IN
          /\ chain # << >> => next[chain[Len(chain)]] = NoMessage
          /\ Len(chain) = Cardinality(BlocksOf(id))
    /\ allocated = UNION {BlocksOf(id) : id \in Queues}
    /\ \A id, jd \in Queues : id # jd => BlocksOf(id) \cap BlocksOf(jd) = {}

(* The chains implement first-in-first-out queues of whole messages.       *)
QueueOf(id) == LET chain == Blocks(id) IN [i \in DOMAIN chain |-> body[chain[i]]]

Fifo == INSTANCE MessageQueues
    WITH queue <- [i \in DOMAIN first_message |-> QueueOf(i - 1)]

ImplementsMessageQueues == Fifo!Spec
=============================================================================
