-------------------------------- MODULE Boot --------------------------------
(***************************************************************************)
(* The start of the processors: init and AP_init in                        *)
(* src/src/kernel/boot/init.c, with check_mp, cpu_caps, startup_APs and    *)
(* init_gdt_AP.  The bootstrap processor wakes all the others at once.     *)
(* They run the same trampoline on the same small stack, and one after     *)
(* the other, under TRAMPOLINE_LOCK, become processors of the system; the  *)
(* last one lets the bootstrap processor go on and load the programs.      *)
(* The stack frame of AP_init is shared too: its variable `stack' is one   *)
(* variable for all of them.  The model is of a machine whose local APICs  *)
(* the kernel uses.                                                        *)
(***************************************************************************)
EXTENDS Integers, Sequences, FiniteSets

CONSTANTS
    Processor,      \* their APIC ids
    MPTables        \* the sequences of entries of the MP tables of a machine

VARIABLES
    bsp,                \* the bootstrap processor
    cores_from_tables,
    pc,                 \* where each processor is
    TRAMPOLINE_LOCK, all_APs_booted,    \* TRUE: LOCK_USED
    stack,              \* AP_init's variable, in the frame they share
    cpu_list,           \* the cpu_info records
    cores_booted, all_cores_mask,
    read,               \* what a processor has read of the two
    tss,                \* the stack a processor takes in an interrupt
    pages               \* the stacks kvmm_malloc has returned

bootVars == <<bsp, cores_from_tables, pc, TRAMPOLINE_LOCK, all_APs_booted, stack, cpu_list,
          cores_booted, all_cores_mask, read, tss, pages>>

NoStack == 0
AP == Processor \ {bsp}

(* check_mp goes through entry_count entries.  One of an unknown type does *)
(* not move the pointer.                                                   *)
Known == {"processor", "bus", "io_apic", "interrupt", "local_interrupt"}
check_mp(table) ==
    LET at[i \in 0 .. Len(table)] ==
            IF i = 0 THEN 1 ELSE IF table[at[i - 1]].type \in Known THEN at[i - 1] + 1 ELSE at[i - 1]
    IN Cardinality({i \in 0 .. Len(table) - 1 :
                       table[at[i]].type = "processor" /\ table[at[i]].enabled})

BootInit ==
    /\ bsp \in Processor
    /\ \E table \in MPTables : cores_from_tables = check_mp(table)
    /\ pc = [c \in Processor |-> IF c = bsp THEN "apic" ELSE "off"]
    /\ TRAMPOLINE_LOCK = TRUE
    /\ all_APs_booted = TRUE
    /\ stack = NoStack
    /\ cpu_list = <<>>
    /\ cores_booted = 1
    /\ all_cores_mask = {}
    /\ read = [c \in Processor |-> [booted |-> 0, mask |-> {}]]
    /\ tss = [c \in Processor |-> NoStack]
    /\ pages = 0

Go(c, from, to) == pc[c] = from /\ pc' = [pc EXCEPT ![c] = to]

(* get_cur_cpu: the first record with the id of the processor, or NULL. *)
get_cur_cpu(c) ==
    {i \in DOMAIN cpu_list : /\ cpu_list[i].apic_id = c
                             /\ \A j \in 1 .. i - 1 : cpu_list[j].apic_id # c}

(* What the model keeps of struct cpu_info. *)
CpuInfo == [apic_id : Processor \cup {0}, stack : Nat]

(* cpu_caps: a record of zeros is put into the list and then filled in.    *)
(* Its name and its features decide nothing and are left out.              *)
Register(c, from, to) ==
    /\ Go(c, from, to)
    /\ cpu_list' = Append(cpu_list, [apic_id |-> 0, stack |-> NoStack])
    /\ UNCHANGED <<bsp, cores_from_tables, TRAMPOLINE_LOCK, all_APs_booted, stack, cores_booted,
                   all_cores_mask, read, tss, pages>>
Identify(c, from, to, its_stack) ==
    /\ Go(c, from, to)
    /\ cpu_list' = [cpu_list EXCEPT ![Len(cpu_list)] = [apic_id |-> c, stack |-> its_stack]]
    /\ UNCHANGED <<bsp, cores_from_tables, TRAMPOLINE_LOCK, all_APs_booted, stack, cores_booted,
                   all_cores_mask, read, tss, pages>>

-----------------------------------------------------------------------------
(* init, from local_apic_init on.                                          *)
BspCpuCaps ==
    \/ Register(bsp, "apic", "caps")
    \/ Identify(bsp, "caps", "startup", NoStack)

(* startup_APs: the trampoline is in place before the processors are woken.*)
StartupAPs ==
    /\ cores_from_tables # 1
    /\ pc[bsp] = "startup"
    /\ pc' = [c \in Processor |-> IF c = bsp THEN "wait" ELSE "trampoline"]
    /\ all_APs_booted' = TRUE
    /\ TRAMPOLINE_LOCK' = FALSE
    /\ UNCHANGED <<bsp, cores_from_tables, stack, cpu_list, cores_booted, all_cores_mask, read,
                   tss, pages>>
WaitForAPs ==
    /\ ~all_APs_booted
    /\ Go(bsp, "wait", "stack")
    /\ all_APs_booted' = TRUE
    /\ UNCHANGED <<bsp, cores_from_tables, TRAMPOLINE_LOCK, stack, cpu_list, cores_booted,
                   all_cores_mask, read, tss, pages>>
NoAPs ==
    /\ cores_from_tables = 1
    /\ Go(bsp, "startup", "stack")
    /\ UNCHANGED <<bsp, cores_from_tables, TRAMPOLINE_LOCK, all_APs_booted, stack, cpu_list,
                   cores_booted, all_cores_mask, read, tss, pages>>

(* Its own stack; the programs, whose threads are dealt to the processors  *)
(* in cpu_list; the mask.                                                  *)
LoadPrograms ==
    /\ Go(bsp, "stack", "loaded")
    /\ pages' = pages + 1
    /\ cpu_list' = [cpu_list EXCEPT ![1].stack = pages + 1]
    /\ tss' = [tss EXCEPT ![bsp] = pages + 1]
    /\ UNCHANGED <<bsp, cores_from_tables, TRAMPOLINE_LOCK, all_APs_booted, stack, cores_booted,
                   all_cores_mask, read>>
JoinMask ==
    /\ Go(bsp, "loaded", "ready")
    /\ \E i \in get_cur_cpu(bsp) : all_cores_mask' = all_cores_mask \cup {cpu_list[i].apic_id}
    /\ UNCHANGED <<bsp, cores_from_tables, TRAMPOLINE_LOCK, all_APs_booted, stack, cpu_list,
                   cores_booted, read, tss, pages>>

-----------------------------------------------------------------------------
(* The trampoline leads each processor from real mode to AP_init. *)
Trampoline(c) ==
    /\ c \in AP
    /\ Go(c, "trampoline", "lock")
    /\ UNCHANGED <<bsp, cores_from_tables, TRAMPOLINE_LOCK, all_APs_booted, stack, cpu_list,
                   cores_booted, all_cores_mask, read, tss, pages>>

(* Slip: it is seen to be free, and not taken. *)
PassTrampoline(c) ==
    /\ ~TRAMPOLINE_LOCK
    /\ Go(c, "lock", "stack_AP")
    /\ UNCHANGED <<bsp, cores_from_tables, TRAMPOLINE_LOCK, all_APs_booted, stack, cpu_list,
                   cores_booted, all_cores_mask, read, tss, pages>>
AcquireTrampoline(c) ==
    /\ ~TRAMPOLINE_LOCK
    /\ Go(c, "lock", "stack_AP")
    /\ TRAMPOLINE_LOCK' = TRUE
    /\ UNCHANGED <<bsp, cores_from_tables, all_APs_booted, stack, cpu_list, cores_booted,
                   all_cores_mask, read, tss, pages>>
AllocateStack(c) ==
    /\ Go(c, "stack_AP", "apic_AP")
    /\ pages' = pages + 1
    /\ stack' = pages + 1
    /\ UNCHANGED <<bsp, cores_from_tables, TRAMPOLINE_LOCK, all_APs_booted, cpu_list, cores_booted,
                   all_cores_mask, read, tss>>
ApCpuCaps(c) ==
    \/ Register(c, "apic_AP", "caps_AP")
    \/ Identify(c, "caps_AP", "gdt_AP", stack)
init_gdt_AP(c) ==
    /\ Go(c, "gdt_AP", "count")
    /\ \E i \in get_cur_cpu(c) : tss' = [tss EXCEPT ![c] = cpu_list[i].stack]
    /\ UNCHANGED <<bsp, cores_from_tables, TRAMPOLINE_LOCK, all_APs_booted, stack, cpu_list,
                   cores_booted, all_cores_mask, read, pages>>

(* cores_booted and all_cores_mask are read and then written. *)
ReadCount(c) ==
    /\ Go(c, "count", "write")
    /\ read' = [read EXCEPT ![c] = [booted |-> cores_booted, mask |-> all_cores_mask]]
    /\ UNCHANGED <<bsp, cores_from_tables, TRAMPOLINE_LOCK, all_APs_booted, stack, cpu_list,
                   cores_booted, all_cores_mask, tss, pages>>
WriteCount(c) ==
    /\ Go(c, "write", "release")
    /\ cores_booted' = read[c].booted + 1
    /\ \E i \in get_cur_cpu(c) : all_cores_mask' = read[c].mask \cup {cpu_list[i].apic_id}
    /\ UNCHANGED <<bsp, cores_from_tables, TRAMPOLINE_LOCK, all_APs_booted, stack, cpu_list, read,
                   tss, pages>>

(* The last one leaves TRAMPOLINE_LOCK taken.                              *)
IsLast(c) == cores_booted = cores_from_tables
(* Slip: TRAMPOLINE_LOCK is left to whoever comes last. *)
ReleaseOnlyTheLast(c) ==
    /\ Go(c, "release", "ready")
    /\ all_APs_booted' = (all_APs_booted /\ ~IsLast(c))
    /\ UNCHANGED TRAMPOLINE_LOCK
    /\ UNCHANGED <<bsp, cores_from_tables, stack, cpu_list, cores_booted, all_cores_mask, read,
                   tss, pages>>
Release(c) ==
    /\ Go(c, "release", "ready")
    /\ IF IsLast(c) THEN all_APs_booted' = FALSE /\ UNCHANGED TRAMPOLINE_LOCK
                    ELSE TRAMPOLINE_LOCK' = FALSE /\ UNCHANGED all_APs_booted
    /\ UNCHANGED <<bsp, cores_from_tables, stack, cpu_list, cores_booted, all_cores_mask, read,
                   tss, pages>>

(* From here on the timer interrupts the processor. *)
EnableIntr(c) ==
    /\ Go(c, "ready", "on")
    /\ UNCHANGED <<bsp, cores_from_tables, TRAMPOLINE_LOCK, all_APs_booted, stack, cpu_list,
                   cores_booted, all_cores_mask, read, tss, pages>>

BspStep == BspCpuCaps \/ StartupAPs \/ WaitForAPs \/ NoAPs \/ LoadPrograms \/ JoinMask
ApStep(c) ==
    \/ Trampoline(c) \/ AcquireTrampoline(c) \/ AllocateStack(c) \/ ApCpuCaps(c)
    \/ init_gdt_AP(c) \/ ReadCount(c) \/ WriteCount(c) \/ Release(c)

BootNext == BspStep \/ \E c \in Processor : ApStep(c) \/ EnableIntr(c)

(* Every processor that has been woken runs. *)
BootSpec ==
    /\ BootInit /\ [][BootNext]_bootVars
    /\ WF_bootVars(BspStep)
    /\ \A c \in Processor : WF_bootVars(ApStep(c)) /\ WF_bootVars(EnableIntr(c))

-----------------------------------------------------------------------------
On == {c \in Processor : pc[c] = "on"}

(* What the timer's handler relies on (irq.c:35): get_cur_cpu finds the    *)
(* record of the processor and no half filled one, the mask has it, and    *)
(* it has a stack that no other processor uses.                            *)
TimerFindsItsProcessor ==
    \A c \in On :
        /\ c \in all_cores_mask
        /\ tss[c] # NoStack
        /\ \E i \in get_cur_cpu(c) : cpu_list[i].stack = tss[c]
        /\ \A d \in Processor : d # c => tss[d] # tss[c]

(* The programs are loaded when each processor of the tables has its       *)
(* record: their threads are dealt to them all, and nobody changes         *)
(* cpu_list while they are (init.c:112).                                   *)
ProgramsComeLast ==
    pc[bsp] \in {"stack", "loaded", "ready", "on"} =>
        /\ cores_from_tables = Len(cpu_list)
        /\ \A i, j \in DOMAIN cpu_list : i # j => cpu_list[i].apic_id # cpu_list[j].apic_id
        /\ Cardinality(all_cores_mask \ {bsp}) = cores_from_tables - 1

(* Both. *)
ProcessorsStartInOrder == TimerFindsItsProcessor /\ ProgramsComeLast

(* Every processor of the tables comes into operation, the bootstrap       *)
(* processor too, although they all wait for each other.                   *)
EveryProcessorStarts == <>[](Cardinality(On) = cores_from_tables)
=============================================================================
