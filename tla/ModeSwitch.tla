----------------------------- MODULE ModeSwitch -----------------------------
(***************************************************************************)
(* How the processors come into the mode the kernel is written for.  On    *)
(* x86_64 a loader (boot_longmode.c, easy_map.c) fills the kernel's GDT,   *)
(* copies the kernel to its place and goes into long mode; on x86 init     *)
(* does its own part.  Each other processor runs the trampoline, the       *)
(* pieces of which startup_APs has copied to page 7 of the memory.         *)
(*                                                                         *)
(* A program is a sequence of instructions, each assembled for a width and *)
(* lying in a piece of code.  What the processor does with it depends on   *)
(* what was executed before: its mode, the descriptors of the table GDTR   *)
(* points to, and the pages the tables in CR3 map.                         *)
(***************************************************************************)
EXTENDS Integers, Sequences, FiniteSets

CONSTANTS
    Fan,                                \* entries of a paging table
    TRAMPOLINE, LoaderPage, KernelPage, \* the pages the code lies in
    Kernels                             \* kernel files: 32 bit words of the program headers

VARIABLES
    arch,
    file,               \* the kernel file
    at,                 \* the next instruction: of the boot processor, then of another one
    cs,                 \* "real", or the kind of descriptor CS was loaded from
    pe, pae, lme, pg,   \* bits of CR0, CR4 and EFER
    gdtr, cr3,          \* what the two registers point to
    tables,             \* the descriptor tables in memory
    maps,               \* the pages each context maps to themselves
    pieces,             \* the pieces of code that lie in memory
    fault               \* an instruction that cannot be executed was reached

vars == <<arch, file, at, cs, pe, pae, lme, pg, gdtr, cr3, tables, maps, pieces, fault>>

-----------------------------------------------------------------------------
(* init_easymap: one entry in each of the two upper tables; page tables    *)
(* that lie in a row, as do the pages they map.                            *)
init_easymap ==
    LET page_tables == [k \in 0 .. Fan * Fan - 1 |-> ((k \div Fan) * Fan) + (k % Fan)]
    IN {page \in DOMAIN page_tables : page_tables[page] = page}

(* vmm_init maps every page that is allocated: pmm_init has marked the     *)
(* kernel's and the trampoline's.                                          *)
vmm_init == {TRAMPOLINE, KernelPage}

(* A program header of a 64 bit file is 14 words long.  The loader is      *)
(* compiled for 32 bits, where the size_t fields of the structure take one *)
(* word each: file_size is the lower half of the size in the file and      *)
(* mem_size its upper half, and the next header is looked for after 11.    *)
(* The kernel's table lies behind what its file holds.                     *)
HeaderWords == 11
Field(i, k) == LET n == HeaderWords * i + k IN IF n \in DOMAIN file.ph THEN file.ph[n] ELSE 0
(* Slip: the header as the file has it. *)
mem_size_of_file(i) == file.ph[14 * i + 11]
mem_size(i) == Field(i, 10)
load_kernel(gdtable) ==
    LET Loaded == {i \in 0 .. file.ph_entry_count - 1 : Field(i, 1) = 1}
        Covered(i, size) == file.gdtable \in Field(i, 5) .. Field(i, 5) + size - 1
    IN IF \E i \in Loaded : Covered(i, mem_size(i)) \/ Covered(i, Field(i, 9))
       THEN <<"none", "none", "none">> ELSE gdtable

(* The tables of kernel and trampoline: entries 1, 2, 3, ...               *)
Code == IF arch = "x86" THEN "code32" ELSE "code64"
init_gdt == <<Code, "data", "data">>
gdt == <<"code32", "data">>
gdt64 == <<"code64", "data">>

-----------------------------------------------------------------------------
(* A part of a program: operations with an argument.                       *)
In(piece, bits, ops) ==
    [k \in DOMAIN ops |-> [in |-> piece, bits |-> bits, op |-> ops[k][1], arg |-> ops[k][2]]]

init_LM ==
    In("loader", 32,
       << <<"fill", "gdtable">>, <<"lgdt", "gdtable">>, <<"load", "gdtable">>, <<"map", "easymap">>,
          <<"data", 3>>, <<"pae", "cr4">>, <<"cr3", "easymap">>, <<"lme", "efer">>, <<"pg", "cr0">>,
          <<"jump", 1>> >>)
(* What init does on the boot processor: x86 goes into paging here, x86_64 *)
(* changes the tables.  Both return from interrupts to segment 1.  The rest *)
(* is about another processor, which begins as after a reset.              *)
init ==
    In("kernel", IF arch = "x86" THEN 32 ELSE 64,
       (IF arch = "x86"
        THEN << <<"fill", "gdtable">>, <<"lgdt", "gdtable">>, <<"data", 3>>, <<"jump", 1>>,
                <<"map", "startup_context">>, <<"cr3", "startup_context">>, <<"pg", "cr0">> >>
        ELSE << <<"map", "startup_context">>, <<"cr3", "startup_context">> >>)
       \o << <<"copy", "trampoline">>, <<"jump", 1>>, <<"reset", "processor">> >>)

trampoline_entry_func == In("entry", 16, << <<"lgdt", "gdt">>, <<"pe", "cr0">>, <<"jump", 1>> >>)
pmode ==
    In("pmode", 32, << <<"data", 2>>, <<"cr3", "startup_context">>, <<"pae", "cr4">>, <<"lme", "efer">>,
                       <<"pg", "cr0">>, <<"lgdt", "gdt64">>, <<"jump", 1>> >>)
lmode == In("lmode", 64, << <<"call", "AP_init">> >>)
pmode_x86 ==
    In("pmode", 32, << <<"data", 2>>, <<"cr3", "startup_context">>, <<"pg", "cr0">>, <<"call", "AP_init">> >>)
init_gdt_AP ==
    In("kernel", IF arch = "x86" THEN 32 ELSE 64,
       << <<"fill", "gdtable_ap">>, <<"lgdt", "gdtable_ap">> >>
       \o (IF arch = "x86" THEN << <<"data", 3>> >> ELSE <<>>) \o << <<"jump", 1>> >>)

Program ==
    IF arch = "x86"
    THEN init \o trampoline_entry_func \o pmode_x86 \o init_gdt_AP
    ELSE init_LM \o init \o trampoline_entry_func \o pmode \o lmode \o init_gdt_AP

startup_APs ==
    {"entry", "pmode", "gdt"} \cup (IF arch = "x86" THEN {} ELSE {"lmode", "gdt64"})

-----------------------------------------------------------------------------
(* The processor. *)
None == "none"
Descriptor(n) ==
    IF gdtr \in DOMAIN tables /\ n \in DOMAIN tables[gdtr] THEN tables[gdtr][n] ELSE None
LongMode == lme /\ pg
Bits == CASE cs = "real" -> 16
          [] cs = "code32" -> 32
          [] cs = "code64" -> IF LongMode THEN 64 ELSE 16
Levels == IF lme THEN 4 ELSE IF pae THEN 3 ELSE 2
PageOf(piece) ==
    CASE piece = "loader" -> LoaderPage
      [] piece = "kernel" -> KernelPage
      [] OTHER -> TRAMPOLINE

Fetched(i) ==
    /\ i.in \in pieces
    /\ i.bits = Bits
    /\ pg => /\ cr3 \in DOMAIN maps /\ PageOf(i.in) \in maps[cr3]
             /\ Levels = IF arch = "x86" THEN 2 ELSE 4
Executed(i) ==
    CASE i.op = "data" -> pe => Descriptor(i.arg) = "data"
      [] i.op = "jump" -> pe => Descriptor(i.arg) \in {"code32", "code64"}
      [] i.op = "pg"   -> pe /\ (lme => pae)
      [] i.op = "lgdt" -> i.arg \in DOMAIN tables
      [] OTHER         -> TRUE

Init ==
    /\ arch \in {"x86", "x86_64"}
    /\ file \in Kernels
    /\ at = 1 /\ fault = FALSE
    /\ cs = "code32" /\ pe = TRUE /\ pae = FALSE /\ lme = FALSE /\ pg = FALSE   \* multiboot
    /\ gdtr = None /\ cr3 = None
    /\ tables = [t \in {} |-> <<>>] /\ maps = [c \in {} |-> {}]
    /\ pieces = {"loader", "kernel"}

With(f, x, y) == [z \in DOMAIN f \cup {x} |-> IF z = x THEN y ELSE f[z]]
Reset(i) == i.op = "reset"

Effect(i) ==
    /\ cs' = IF Reset(i) THEN "real" ELSE IF i.op = "jump" /\ pe THEN Descriptor(i.arg) ELSE cs
    /\ pe' = (~Reset(i) /\ (pe \/ i.op = "pe"))
    /\ pae' = (~Reset(i) /\ (pae \/ i.op = "pae"))
    /\ lme' = (~Reset(i) /\ (lme \/ i.op = "lme"))
    /\ pg' = (~Reset(i) /\ (pg \/ i.op = "pg"))
    /\ gdtr' = IF Reset(i) THEN None ELSE IF i.op = "lgdt" THEN i.arg ELSE gdtr
    /\ cr3' = IF Reset(i) THEN None ELSE IF i.op = "cr3" THEN i.arg ELSE cr3
    /\ tables' = CASE i.op = "fill" -> With(tables, i.arg, init_gdt)
                   [] i.op = "load" -> With(tables, i.arg, load_kernel(tables[i.arg]))
                   [] i.op = "copy" ->
                          With(IF arch = "x86" THEN tables ELSE With(tables, "gdt64", gdt64), "gdt", gdt)
                   [] OTHER -> tables
    /\ maps' = IF i.op = "map"
               THEN With(maps, i.arg, IF i.arg = "easymap" THEN init_easymap ELSE vmm_init)
               ELSE maps
    /\ pieces' = IF i.op = "copy" THEN pieces \cup startup_APs ELSE pieces

Step ==
    /\ ~fault /\ at \in DOMAIN Program
    /\ at' = at + 1
    /\ LET i == Program[at]
           possible == Fetched(i) /\ Executed(i)
       IN  /\ fault' = ~possible
           /\ IF possible THEN Effect(i)
              ELSE UNCHANGED <<cs, pe, pae, lme, pg, gdtr, cr3, tables, maps, pieces>>
    /\ UNCHANGED <<arch, file>>
Next == Step

-----------------------------------------------------------------------------
(* No instruction on the way into the kernel raises an exception, and the  *)
(* processors end in the kernel's mode, with its own segments and pages.   *)
(* That the table init_gdt fills survives load_kernel rests on mem_size    *)
(* being read as 0 (boot_longmode.c:136): the table lies in the kernel's   *)
(* .bss, which the loader means to clear after it has filled it.           *)
ProcessorsReachTheKernel ==
    /\ ~fault
    /\ at \notin DOMAIN Program => /\ pg /\ cr3 = "startup_context" /\ gdtr = "gdtable_ap"
                                   /\ cs = Code /\ (arch = "x86_64" => LongMode)
=============================================================================
