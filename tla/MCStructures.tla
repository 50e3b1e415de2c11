---------------------------- MODULE MCStructures ----------------------------
(***************************************************************************)
(* Model checking of the kernel's data structures: the heap, the array     *)
(* list, the message queues, and the free ranges of one processor, which   *)
(* are three, so that those above one that is given out move down, and one *)
(* of them comes to lie behind mm_stack_ptr.  A behaviour works on one of  *)
(* the four.                                                               *)
(***************************************************************************)
EXTENDS Heap, AList, MsgQueue

VARIABLES structure,
          mm_stack, mm_stack_ptr, vmm_lock, found, used, invalid_stack, invld_lock,
          to_invalid_cur, all_cores_mask, tlb, raced, early

(* A page alone, and two ranges of two pages that adjoin; one page may wait. *)
MCThreeRanges ==
    <<[start |-> 1, end |-> 2], [start |-> 3, end |-> 5], [start |-> 5, end |-> 7]>>
R == INSTANCE KernelSpace WITH
        NCpu <- 1, Ranges <- MCThreeRanges, MAX_STACK_INVLD_SIZ <- 1, Length <- {1, 2}, MaxEntry <- 7
rangeVars == <<mm_stack, mm_stack_ptr, vmm_lock, found, used, invalid_stack, invld_lock,
               to_invalid_cur, all_cores_mask, tlb, raced, early>>

allVars == <<structure, vars, chunks, queueVars, rangeVars>>

(* What the blocks held before matters to the queues only. *)
MCInit ==
    /\ structure \in {"heap", "list", "queues", "ranges"}
    /\ Init /\ ListInit /\ QueuesInit /\ R!Init
    /\ structure # "queues" =>
          /\ next = [b \in MsgBlock |-> 0]
          /\ body = CHOOSE f \in [MsgBlock -> Message] : TRUE

MCNext ==
    \/ structure = "heap" /\ Next /\ UNCHANGED <<structure, chunks, queueVars, rangeVars>>
    \/ structure = "list" /\ ListNext /\ UNCHANGED <<structure, vars, queueVars, rangeVars>>
    \/ structure = "queues" /\ QueuesNext /\ UNCHANGED <<structure, vars, chunks, rangeVars>>
    \/ structure = "ranges" /\ R!Next /\ UNCHANGED <<structure, vars, chunks, queueVars>>

MCSpec == MCInit /\ [][MCNext]_allVars

-----------------------------------------------------------------------------
(* KernelSpace: no step loses a page, but in the two ways it names         *)
(* (vmm.c:401 and vmm.c:377).                                              *)
PagesAreLostInTwoWays == R!PagesAreLostInTwoWays
=============================================================================
