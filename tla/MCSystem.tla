------------------------------ MODULE MCSystem ------------------------------
(***************************************************************************)
(* Model checking of the way from the boot loader to a file: the mode of   *)
(* the processors, the memory the kernel finds, the start of the           *)
(* processors, three threads on the list of one processor, semaphores, and *)
(* the daemon and its client.  A behaviour is about one of the six.        *)
(***************************************************************************)
EXTENDS Semaphore, Boot, FileOpen, Pmm

CONSTANTS Fan, TRAMPOLINE, LoaderPage, KernelPage, Kernels
VARIABLES subject,
          mode_arch, elf, at, cs, pe, pae, lme, pg, gdtr, cr3, tables, maps, pieces, fault,
          total_thread_count, thread_list, thread_count, current_thread, current_thread_index,
          thread_state, proc_list, num_proc, state, cpu_state, loaded, place, first_thread,
          curcontext, done

M == INSTANCE ModeSwitch WITH arch <- mode_arch, file <- elf
modeVars == <<mode_arch, elf, at, cs, pe, pae, lme, pg, gdtr, cr3, tables, maps, pieces, fault>>

(* One thread in front, one in the middle and one at the end, each of      *)
(* which may sleep, wake another or exit.                                  *)
S == INSTANCE Scheduler WITH
        NCpu <- 1, NThread <- 3, MaySleep <- {1, 2, 3},
        exc_state <- thread_state, cr3 <- loaded, pc <- place
rowVars == <<total_thread_count, thread_list, thread_count, current_thread, current_thread_index,
             thread_state, proc_list, num_proc, state, cpu_state, loaded, place, first_thread,
             curcontext, done>>
machineVars == <<modeVars, pmmVars, rowVars>>
allVars == <<subject, semVars, bootVars, machineVars, vars>>

Boots(A) == subject = "boot" /\ A /\ UNCHANGED <<subject, semVars, machineVars, vars>>
Waits(A) == subject = "semaphore" /\ A /\ UNCHANGED <<subject, bootVars, machineVars, vars>>
Schedules(A) == subject = "row" /\ A /\ UNCHANGED <<subject, semVars, bootVars, modeVars, pmmVars, vars>>
Opens(A) == subject = "file" /\ A /\ UNCHANGED <<subject, semVars, bootVars, machineVars>>

(* Where the start begins matters to the start only, the map to the memory only. *)
MCInit ==
    /\ subject \in {"mode", "memory", "boot", "row", "semaphore", "file"}
    /\ SemInit /\ BootInit /\ PmmInit /\ M!Init /\ S!Init /\ Init
    /\ subject # "mode" => mode_arch = "x86" /\ elf = (CHOOSE k \in Kernels : TRUE)
    /\ subject # "boot" => bsp = 0 /\ cores_from_tables = 1
    /\ subject # "memory" => /\ arch = "x86"
                             /\ given = (CHOOSE map \in Maps : TRUE)
                             /\ modules = (CHOOSE mods \in Modules : TRUE)
MCNext ==
    \/ Boots(BootNext)
    \/ /\ subject = "memory" /\ PmmNext
       /\ UNCHANGED <<subject, semVars, bootVars, modeVars, rowVars, vars>>
    \/ /\ subject = "mode" /\ M!Next
       /\ UNCHANGED <<subject, semVars, bootVars, pmmVars, rowVars, vars>>
    \/ Schedules(S!Next)
    \/ Waits(SemNext)
    \/ Opens(Next)

(* The fairness of each part's own FairSpec. *)
MCSpec ==
    /\ MCInit /\ [][MCNext]_allVars
    /\ WF_allVars(Boots(BspStep))
    /\ \A c \in Processor : WF_allVars(Boots(ApStep(c))) /\ WF_allVars(Boots(EnableIntr(c)))
    /\ SF_allVars(Schedules(S!Boot)) /\ SF_allVars(Schedules(S!Kernel(0))) /\ WF_allVars(Schedules(S!Timer(0)))
    /\ \A t \in Thread : WF_allVars(Waits(up(t)))
    /\ WF_allVars(Opens(CreateClient)) /\ WF_allVars(Opens(VFSNext))
    /\ WF_allVars(Opens(ClientNext))

-----------------------------------------------------------------------------
(* ModeSwitch: the processors come into the mode the kernel is written for *)
(* (boot_longmode.c:136).                                                  *)
ProcessorsReachTheKernel == M!ProcessorsReachTheKernel
(* Boot: every processor comes into operation (init.c:165). *)
AllProcessorsStart == subject = "boot" => EveryProcessorStarts
(* Scheduler: an active thread runs, unless threads in front of it on its  *)
(* list sleep again and again (threads.c:154).                             *)
EveryThreadOfARowRuns == subject = "row" => S!EveryActiveThreadRuns
(* Semaphore: sleepers get in while few compete (sem.c:55). *)
SleepersOfFewGetIn == subject = "semaphore" => FewSleepersGetIn
(* FileOpen: the first open is answered (vfs.cpp:143).                     *)
AnOpenIsAnswered == subject = "file" => FirstOpenIsAnswered

(* The loop as it is written: j counts up, the list shrinks. *)
RECURSIVE WakeLoop(_, _, _)
WakeLoop(list, j, woken) ==
    IF j < alist_get_entry_n(list)
    THEN LET first == CHOOSE s \in DOMAIN list : IsFirstSlot(list, s)
         IN  WakeLoop(alist_remove(list, list[first]), j + 1, woken \cup {first})
    ELSE woken

(* The loop of semop, whose bound shrinks while it runs, wakes the first   *)
(* half of the sleepers, which is the closed form Semaphore uses.  On a    *)
(* list a thread occurs once.                                              *)
Lists == {list \in [Slot -> Thread \cup {NULL}] :
             \A r, s \in Slot : list[r] = list[s] /\ list[r] # NULL => r = s}
ASSUME WakeLoopIsFirstHalf == \A list \in Lists : WakeLoop(list, 0, {}) = FirstHalf(list)

(* A count of readers that is right, one that passes through zero when a   *)
(* reader comes, and one that stays positive.                              *)
MCStackGarbage == {-1, 0, 1}

(* The map of the boot loader: memory below and above the hole at 1 MB,    *)
(* what firmware keeps, and memory behind it.  The first map has so small  *)
(* a hole behind the large region that its end, moved, reaches into the    *)
(* next one, and memory above what the masks keep; the second a small      *)
(* region before the large one; in the third only such memory seems large  *)
(* enough.  In the others two usable regions adjoin: inside of a page,     *)
(* which is the first of the boot stack, and where the first has just the  *)
(* room that is asked for.                                                 *)
PartOf(base, length, type) == [base |-> base, length |-> length, type |-> type]
MCMaps ==
    {<<PartOf(0, 6, 1), PartOf(6, 2, 2), PartOf(8, 60, 1), PartOf(68, 4, 2), PartOf(80, 8, 1),
       PartOf(250, 6, 2), PartOf(256, 8, 1)>>,
     <<PartOf(0, 5, 1), PartOf(8, 9, 1), PartOf(18, 3, 2), PartOf(21, 61, 1)>>,
     <<PartOf(0, 7, 1), PartOf(8, 10, 1), PartOf(256, 40, 1)>>,
     <<PartOf(0, 5, 1), PartOf(17, 4, 1), PartOf(21, 61, 1)>>,
     <<PartOf(0, 5, 1), PartOf(16, 26, 1), PartOf(42, 10, 1)>>}
Module(start, end) == [start |-> start, end |-> end]
MCModules == {<<Module(16, 17)>>, <<Module(16, 19), Module(20, 22)>>}

(* Two kernel files, their program headers word by word: one to be loaded, *)
(* at 20, four bytes in the file and eight in memory; and the same with a  *)
(* second one that is not.  The table lies in the part the file lacks.     *)
LoadHeader == <<1, 7, 4096, 0, 20, 0, 20, 0, 4, 0, 8, 0, 4096, 0>>
StackHeader == <<7, 6, 0, 0, 0, 0, 0, 0, 0, 0, 0, 0, 16, 0>>
MCKernels ==
    {[ph |-> LoadHeader, ph_entry_count |-> 1, gdtable |-> 26],
     [ph |-> LoadHeader \o StackHeader, ph_entry_count |-> 2, gdtable |-> 26]}

Core == [type |-> "processor", enabled |-> TRUE]
NoCore == [type |-> "processor", enabled |-> FALSE]
Bus == [type |-> "bus", enabled |-> FALSE]
Other == [type |-> "other", enabled |-> FALSE]
(* All four processors; three, while the fourth answers the call           *)
(* nevertheless; one; and an entry that check_mp does not get past.        *)
MCTables == {<<Core, Core, Bus, Core, Core>>, <<Core, NoCore, Core, Core>>, <<NoCore, Core, Bus>>,
             <<Core, Core, Other, Core>>}
=============================================================================
