----------------------------- MODULE Interrupts -----------------------------
(***************************************************************************)
(* The way into the kernel and out of it on one processor: the stubs of    *)
(* the interrupt vectors, which turn the processor's registers into a      *)
(* cpu_state on the kernel stack and back, the stub of the syscall         *)
(* instruction, which returns by sysretq and so cannot restore everything, *)
(* and the handlers, which may answer with the cpu_state of another        *)
(* thread.  Both architectures are modelled; x86 has no syscall            *)
(* instruction.  Interrupts are off in the kernel, so that an entry is one *)
(* step.                                                                   *)
(*                                                                         *)
(* Registers go without the prefix r or e.  A value is a tuple: the        *)
(* register it was made for, the thread (0 for the kernel) and a mark.     *)
(***************************************************************************)
EXTENDS Integers, Sequences, SequencesExt, FiniteSets

CONSTANTS Thread,  \* positive numbers
          Raised,  \* exceptions that programs raise, numbers up to 18
          Calls,   \* system calls they make
          MaxSteps \* bound: times a program moves on

VARIABLES arch,        \* "x86" or "x86_64": fixed
          cur,         \* current_thread, or Nobody while idle_thread runs
          regs,        \* the processor's registers
          state,       \* thread -> the cpu_state kept in it
          active,      \* threads that are neither blocked nor gone
          gone,        \* threads whose process has left
          program,     \* thread -> the registers as its program must find them
          err_ocurred,
          shown,       \* what redscreen was given
          steps        \* how often a program has moved on

kernel == <<cur, state, active, gone, err_ocurred, shown>>
stubVars == <<arch, regs, program, steps, kernel>>

Nobody == 0
ASSUME ThreadAssumption == Nobody \notin Thread

Nothing == <<"nothing", 0, 0>>

(***************************************************************************)
(* Segments: a selector is the number of an entry of the GDT; the low bits *)
(* are the ring of the entry.  STAR holds the two selectors sysret and     *)
(* syscall count from.                                                     *)
(***************************************************************************)
KERNEL_CODE_SEG_N == 1
KERNEL_STACK_SEG_N == 2
KERNEL_DATA_SEG_N == 3
USER_CODE_SEG32_N == 4
USER_DATA_SEG_N == 7

\* init_gdt: what each entry describes.
gdtable ==
    << "kernel code", "kernel data", "kernel data",
       "user code", "user data", "user code", "user data", "tss" >>

\* init_SYSCALL: sysretq takes the code segment two entries on, the stack segment one on.
SysretCode == USER_CODE_SEG32_N + 2
SysretStack == USER_CODE_SEG32_N + 1

(***************************************************************************)
(* The layout of struct cpu_state, lowest address first, and the order the *)
(* stubs push in.                                                          *)
(***************************************************************************)
General == IF arch = "x86" THEN <<"ax", "bx", "cx", "dx", "si", "di", "bp">>
           ELSE <<"ax", "bx", "cx", "dx", "si", "di", "bp",
                  "r8", "r9", "r10", "r11", "r12", "r13", "r14", "r15">>

cpu_state ==
    (IF arch = "x86" THEN <<"kernel_mode">> ELSE <<>>) \o General \o
    <<"intr", "error", "ip", "cs", "flags", "sp", "ss">>

\* What the macro SAVE_CPU pushes, first pushed first; x86 ends with the word kernel_mode.
SAVE_CPU ==
    IF arch = "x86" THEN <<"bp", "di", "si", "dx", "cx", "bx", "ax", "kernel_mode">>
    ELSE <<"r15", "r14", "r13", "r12", "r11", "r10", "r9", "r8",
           "bp", "di", "si", "dx", "cx", "bx", "ax">>

\* What RESTORE_CPU pops, first popped first.
RESTORE_CPU ==
    IF arch = "x86" THEN <<"ax", "bx", "cx", "dx", "si", "di", "bp">>
    ELSE <<"ax", "bx", "cx", "dx", "si", "di", "bp",
           "r8", "r9", "r10", "r11", "r12", "r13", "r14", "r15">>

\* init_idt: the vectors that have a gate, besides the exceptions 0 to 18 and the calls.
IrqVectors == {28, 30, 31, 32, 33}
FlushVector == 28

\* The exceptions the processor pushes an error code for, and the stubs that count on it.
PushesErrorCode == {8, 10, 11, 12, 13, 14, 17}
INTR_STUB_ERROR == {8, 10, 11, 12, 13, 14, 17}

\* What the processor pushes: 32-bit code leaves the stack pointer out in the kernel.
HardwareFrame ==
    IF arch = "x86" /\ cur = Nobody THEN <<"flags", "cs", "ip">>
    ELSE <<"ss", "sp", "flags", "cs", "ip">>

Frame(vector) ==
    HardwareFrame
    \o (IF vector \in PushesErrorCode THEN <<"error">> ELSE <<>>)
    \o (IF vector \in INTR_STUB_ERROR THEN <<>> ELSE <<"error">>)
    \o <<"intr">> \o SAVE_CPU

Pushed(vector, name) ==
    CASE name = "intr" -> <<"intr", 0, vector>>
      [] name = "error" -> <<"error", 0, 0>>
      [] name = "kernel_mode" -> <<"kernel_mode", 0, 0>>
      [] OTHER -> regs[name]

\* The cpu_state the handler finds: its fields name what lies at their offset.
Saved(vector) ==
    LET found == Reverse(Frame(vector))
    IN  [name \in Range(cpu_state) |->
          LET i == CHOOSE k \in DOMAIN cpu_state : cpu_state[k] = name
          IN  IF i \in DOMAIN found THEN Pushed(vector, found[i]) ELSE Nothing]

\* syscall_stub: cx and r11 hold what the processor put there, the flags are made up.
SavedBySyscall ==
    [name \in Range(cpu_state) |->
       CASE name = "ss" -> <<"ss", 0, USER_DATA_SEG_N>>
         [] name = "cs" -> <<"cs", 0, SysretCode>>
         [] name = "flags" -> <<"flags", 0, 202>>
         [] name \in {"cx", "ip"} -> regs["ip"]
         [] name = "r11" -> regs["flags"]
         [] name \in {"intr", "error"} -> <<name, 0, 0>>
         [] OTHER -> regs[name]]

\* The general registers that the pops take from a cpu_state.
Popped(cpu, name) ==
    LET k == CHOOSE i \in DOMAIN RESTORE_CPU : RESTORE_CPU[i] = name
    IN  cpu[cpu_state[IF arch = "x86" THEN k + 1 ELSE k]]

\* RESTORE_CPU and iretq; x86 keeps the kernel's data segments if the word says so.
Iret(cpu) ==
    [name \in DOMAIN regs |->
       CASE name = "ds" -> IF arch = "x86" /\ cpu["kernel_mode"][3] = 1
                           THEN <<"ds", 0, KERNEL_DATA_SEG_N>> ELSE <<"ds", 0, USER_DATA_SEG_N>>
         [] name \in {"ip", "cs", "flags", "sp", "ss"} -> cpu[name]
         [] OTHER -> Popped(cpu, name)]

\* The end of syscall_stub: the stack pointer is popped, sysretq takes ip from cx and
\* the flags from r11.
Sysret(cpu) ==
    [name \in DOMAIN regs |->
       CASE name = "ds" -> <<"ds", 0, USER_DATA_SEG_N>>
         [] name = "cs" -> <<"cs", 0, SysretCode>>
         [] name = "ss" -> <<"ss", 0, SysretStack>>
         [] name \in {"ip", "cx"} -> cpu["ip"]
         [] name = "flags" -> Popped(cpu, "r11")
         [] name = "sp" -> cpu["sp"]
         [] OTHER -> Popped(cpu, name)]

(***************************************************************************)
(* Threads.                                                                *)
(***************************************************************************)
\* cpu_caps fills the state of idle_thread.
idle_state ==
    [name \in Range(cpu_state) |->
       CASE name = "cs" -> <<"cs", 0, KERNEL_CODE_SEG_N>>
         [] name = "ss" -> <<"ss", 0, KERNEL_STACK_SEG_N>>
         [] name = "flags" -> <<"flags", 0, 202>>
         [] name = "kernel_mode" -> <<"kernel_mode", 0, 1>>
         [] name \in {"ip", "sp"} -> <<name, 0, 1>>
         [] OTHER -> <<name, 0, 0>>]

\* INIT_STATE, then create_thread's entry and stack.
INIT_STATE(t) ==
    [name \in Range(cpu_state) |->
       CASE name = "cs" -> <<"cs", 0, USER_CODE_SEG32_N>>
         [] name = "ss" -> <<"ss", 0, USER_DATA_SEG_N>>
         [] name = "flags" -> <<"flags", 0, 202>>
         [] name = "kernel_mode" -> <<"kernel_mode", 0, 0>>
         [] name \in {"ip", "sp"} -> <<name, t, 1>>
         [] OTHER -> <<name, 0, 0>>]

Visible == Range(General) \cup {"ip", "flags", "sp"}
Of(cpu) == [name \in Visible |-> cpu[name]]

StubsInit ==
    /\ arch \in {"x86", "x86_64"}
    /\ cur = Nobody /\ active = Thread /\ gone = {}
    /\ state = [t \in Thread |-> INIT_STATE(t)]
    /\ program = [t \in Thread |-> Of(INIT_STATE(t))]
    /\ regs = [name \in Range(General) \cup {"ip", "flags", "sp", "cs", "ss", "ds"} |->
                 IF name = "ds" THEN <<"ds", 0, KERNEL_DATA_SEG_N>> ELSE idle_state[name]]
    /\ err_ocurred = FALSE /\ shown = Nothing /\ steps = 0

Running(t) == cur = t /\ ~ err_ocurred

\* The program moves on: another instruction, other flags, other contents of cx and r11.
Compute(t) ==
    /\ Running(t) /\ steps < MaxSteps /\ steps' = steps + 1
    /\ regs' = [name \in DOMAIN regs |->
                  IF name \in {"ip", "flags", "cx", "r11"} THEN <<name, t, 1 + steps'>> ELSE regs[name]]
    /\ program' = [program EXCEPT ![t] = Of(regs')]
    /\ UNCHANGED <<arch, kernel>>

(***************************************************************************)
(* dispatch_thread: the state of the thread that ran is kept unless it has *)
(* just blocked or gone, and one that may run is answered with; which one  *)
(* is the matter of module Scheduler.                                      *)
(***************************************************************************)
dispatched(cpu, ran, kept, may, Leave(_)) ==
    LET saved == IF ran = Nobody THEN kept ELSE [kept EXCEPT ![ran] = cpu]
    IN  /\ state' = saved
        /\ IF may = {} THEN cur' = Nobody /\ regs' = Leave(idle_state)
           ELSE \E t \in may : cur' = t /\ regs' = Leave(saved[t])

\* handle_irq: the flush vector leads to the scheduler, the others return what they got.
handle_irq(vector) ==
    /\ ~ err_ocurred /\ vector \in IrqVectors
    /\ IF vector = FlushVector THEN dispatched(Saved(vector), cur, state, active, Iret)
       ELSE regs' = Iret(Saved(vector)) /\ UNCHANGED <<state, cur>>
    /\ UNCHANGED <<arch, steps, active, gone, program, err_ocurred, shown>>

\* handle_exception: the registers are shown and every processor comes to a stop.
handle_exception(vector) ==
    /\ cur # Nobody /\ ~ err_ocurred /\ vector \in Raised
    /\ err_ocurred' = TRUE
    /\ shown' = Saved(vector)
    /\ UNCHANGED <<arch, steps, cur, regs, state, active, gone, program>>

(***************************************************************************)
(* System calls.  The macro SYSCALL chooses the way in: x86 has only the   *)
(* interrupt, x86_64 keeps it for the calls that may end in another        *)
(* thread.                                                                 *)
(***************************************************************************)
\* Slip: semop, which may block, goes through the syscall instruction.
OnlySleepByInterrupt(call) == arch = "x86" \/ call \in {"SYS_EXIT", "SYS_SLEEP"}

ByInterrupt(call) == arch = "x86" \/ call \in {"SYS_EXIT", "SYS_SLEEP", "SYS_SEMOP"}

Entered(call) == IF ByInterrupt(call) THEN Saved(48) ELSE SavedBySyscall

\* The fields of the cpu_state that carry a call's results.
Results(call) ==
    CASE call = "SYS_GETPID" -> {"dx"}
      [] call = "SYS_GET_BOOTMOD" -> {"dx", "bx"}
      [] call = "SYS_SEMOP" -> {"dx"}
      [] OTHER -> {}

Answered(cpu, call, t) ==
    [name \in DOMAIN cpu |-> IF name \in Results(call) THEN <<name, t, 9>> ELSE cpu[name]]

\* What the program may count on when a call returns: the instruction has used cx and r11.
Expected(call, t, answered) ==
    [name \in Visible |->
       CASE ~ ByInterrupt(call) /\ name = "cx" -> regs["ip"]
         [] ~ ByInterrupt(call) /\ name = "r11" -> regs["flags"]
         [] answered /\ name \in Results(call) -> <<name, t, 9>>
         [] OTHER -> regs[name]]

\* The calls that return to their caller at once, a semop that gets in among them.
Return(t, call) ==
    /\ Running(t) /\ call \in Calls \ {"SYS_EXIT", "SYS_SLEEP"}
    /\ LET cpu == Answered(Entered(call), call, t)
       IN  regs' = IF ByInterrupt(call) THEN Iret(cpu) ELSE Sysret(cpu)
    /\ program' = [program EXCEPT ![t] = Expected(call, t, TRUE)]
    /\ \/ call = "SYS_WAKEUP" /\ \E s \in Thread \ gone : active' = active \cup {s}
       \/ call # "SYS_WAKEUP" /\ UNCHANGED active
    /\ state' = IF call = "SYS_SEMOP" THEN [state EXCEPT ![t] = Entered(call)] ELSE state
    /\ UNCHANGED <<arch, steps, cur, gone, err_ocurred, shown>>

\* sleep, and a semop that has to wait: the state is copied before the thread is put down.
Block(t, call) ==
    /\ Running(t) /\ call \in Calls \cap {"SYS_SLEEP", "SYS_SEMOP"}
    /\ active' = active \ {t}
    /\ program' = [program EXCEPT ![t] = Expected(call, t, FALSE)]
    /\ LET kept == [state EXCEPT ![t] = Entered(call)]
       IN  IF ByInterrupt(call) THEN dispatched(Entered(call), Nobody, kept, active', Iret)
           ELSE dispatched(Entered(call), Nobody, kept, active', Sysret)
    /\ UNCHANGED <<arch, steps, gone, err_ocurred, shown>>

\* The thread's state is freed with it.
Exit(t) ==
    /\ Running(t)
    /\ active' = active \ {t} /\ gone' = gone \cup {t}
    /\ program' = [program EXCEPT ![t] = Nothing]
    /\ LET kept == [state EXCEPT ![t] = Nothing]
       IN  IF ByInterrupt("SYS_EXIT") THEN dispatched(Nothing, Nobody, kept, active', Iret)
           ELSE dispatched(Nothing, Nobody, kept, active', Sysret)
    /\ UNCHANGED <<arch, steps, err_ocurred, shown>>

\* Another processor wakes a thread of this one.
WokenFromOutside(t) ==
    /\ t \notin active \cup gone /\ ~ err_ocurred
    /\ active' = active \cup {t}
    /\ UNCHANGED <<arch, steps, cur, regs, state, gone, program, err_ocurred, shown>>

StubsNext ==
    \/ \E t \in Thread :
         \/ Compute(t) \/ Exit(t) \/ WokenFromOutside(t)
         \/ \E call \in Calls : Return(t, call) \/ Block(t, call)
    \/ \E vector \in IrqVectors : handle_irq(vector)
    \/ \E vector \in Raised : handle_exception(vector)

StubsSpec == StubsInit /\ [][StubsNext]_stubVars

(***************************************************************************)
(* A thread runs on with the registers it had, through interrupts, through *)
(* calls and through any number of other threads in between: it finds its  *)
(* instruction, its stack, its flags and every general register as it left *)
(* them, apart from a call's results and the two registers the syscall     *)
(* instruction takes; its segments are a user's, and the registers shown   *)
(* for an error are those of the instruction that caused it.               *)
(***************************************************************************)
ThreadsFindTheirRegisters ==
    /\ cur # Nobody =>
        /\ Of(regs) = program[cur]
        /\ gdtable[regs["cs"][3]] = "user code"
        /\ \A name \in {"ss", "ds"} : gdtable[regs[name][3]] = "user data"
    /\ cur = Nobody => gdtable[regs["cs"][3]] = "kernel code"
    /\ shown # Nothing => Of(shown) = Of(regs)
=============================================================================
