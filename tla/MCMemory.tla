------------------------------ MODULE MCMemory ------------------------------
(***************************************************************************)
(* Model checking of the two sides of virtual memory: the free ranges of   *)
(* the kernel's space, which the processors share and invalidate, and the  *)
(* page tables of the kernel and of the processes.  A behaviour is about   *)
(* one of them.                                                            *)
(***************************************************************************)
EXTENDS KernelSpace

CONSTANTS Fan, NFrame, Proc, Program, STDRD_STACKSIZ, LoopsPerPage, MaxFree, MaxSegment
VARIABLES subject, tables, pmm_stack, spaces, shmid_list, guard, attached, overlaid, rewritten

T == INSTANCE Contexts WITH MaxEntry <- MaxFree, raced <- rewritten
tableVars == <<tables, pmm_stack, spaces, shmid_list, guard, attached, overlaid, rewritten>>
mcvars == <<subject, vars, tableVars>>

Ranging(A) == subject = "ranges" /\ A /\ UNCHANGED <<subject, tableVars>>

MCInit == subject \in {"ranges", "tables"} /\ Init /\ T!Init
MCNext ==
    \/ Ranging(Next)
    \/ subject = "tables" /\ T!Next /\ UNCHANGED <<subject, vars>>

MCSpec ==
    /\ MCInit /\ [][MCNext]_mcvars
    /\ \A c \in Cpu : /\ WF_mcvars(Ranging(Join(c))) /\ WF_mcvars(Ranging(Take(c)))
                      /\ SF_mcvars(Ranging(BeginSync(c)))
                      /\ WF_mcvars(Ranging(SyncAddrSpace(c))) /\ WF_mcvars(Ranging(EndSync(c)))

-----------------------------------------------------------------------------
(* Contexts: the kernel is the same in all address spaces (vmm.c:519), a   *)
(* frame belongs to one of them (pmm.c:195), and a segment is the same     *)
(* frames for everybody (shm.c:30).                                        *)
KernelIsCommon == subject = "tables" => T!KernelIsCommon
FramesAreSeparate == subject = "tables" => T!FramesAreSeparate
SegmentsAreShared == subject = "tables" => T!SegmentsAreShared

(* A page alone, and two behind a gap.                                     *)
MCRanges == <<[start |-> 1, end |-> 2], [start |-> 4, end |-> 6]>>
(* The fourth and fifth page above the kernel, in two different tables.    *)
MCProgram == [start |-> Fan * Fan + 3, end |-> Fan * Fan + 5]
=============================================================================
