------------------------------ MODULE MCMachine ------------------------------
(***************************************************************************)
(* Model checking of seven parts that share nothing: the stubs of the      *)
(* interrupts and system calls, the byte of a lock, the order of the       *)
(* kernel's locks, the console, the copying and filling of memory, the     *)
(* loading and linking of programs, and the descriptors of their files.    *)
(* A behaviour is about one of them.                                       *)
(***************************************************************************)
EXTENDS Spinlock, KernelLocks, Interrupts, Strings, Descriptors, Console

CONSTANTS Mains, Libraries, Junk, Zero, elf_hash
VARIABLES subject,
          memory, images, linked, found

L == INSTANCE Linker

linkerVars == <<memory, images, linked, found>>
mcvars == <<subject, vars, lockVars, stubVars, consoleVars, linkerVars, stringVars, idsVars>>

MCInit ==
    /\ subject \in {"stubs", "lock", "locks", "console", "linker", "strings", "descriptors"}
    /\ Init /\ LocksInit /\ StubsInit /\ ConsoleInit /\ L!Init /\ StringsInit /\ IdsInit
    /\ subject # "stubs" => arch = "x86"
    /\ subject # "lock" => al = [c \in CPU |-> 0]

Locking(A) ==
    /\ subject = "lock" /\ A
    /\ UNCHANGED <<subject, lockVars, stubVars, consoleVars, linkerVars, stringVars, idsVars>>
MCNext ==
    \/ Locking(Next)
    \/ /\ subject = "locks" /\ LocksNext
       /\ UNCHANGED <<subject, vars, stubVars, consoleVars, linkerVars, stringVars, idsVars>>
    \/ /\ subject = "stubs" /\ StubsNext
       /\ UNCHANGED <<subject, vars, lockVars, consoleVars, linkerVars, stringVars, idsVars>>
    \/ /\ subject = "console" /\ ConsoleNext
       /\ UNCHANGED <<subject, vars, lockVars, stubVars, linkerVars, stringVars, idsVars>>
    \/ /\ subject = "linker" /\ L!Next
       /\ UNCHANGED <<subject, vars, lockVars, stubVars, consoleVars, stringVars, idsVars>>
    \/ /\ subject = "strings" /\ StringsNext
       /\ UNCHANGED <<subject, vars, lockVars, stubVars, consoleVars, linkerVars, idsVars>>
    \/ /\ subject = "descriptors" /\ IdsNext
       /\ UNCHANGED <<subject, vars, lockVars, stubVars, consoleVars, linkerVars, stringVars>>

(* The lock has the fairness of its FairSpec, the other parts have none.   *)
MCSpec ==
    /\ MCInit /\ [][MCNext]_mcvars
    /\ \A c \in CPU : WF_mcvars(Locking(Step(c)))

-----------------------------------------------------------------------------
(* Linker: a library runs as its file and the daemon's say (ld.c:43).      *)
TheLibraryIsLinked == L!TheLibraryIsLinked

-----------------------------------------------------------------------------
(* Strings, numbers in both bases, a directive kput does not know, and the *)
(* characters that move the cursor, where a row is full and where not.     *)
MCMessages ==
    {[fmt |-> <<"h", "i", "%", "s", "newline">>, args |-> << <<"a", "tab", "b">> >>],
     [fmt |-> <<"%", "d", "tab", "%", "x", "%", "%">>, args |-> <<103, 30>>],
     [fmt |-> <<"%", "q", "backspace", "backspace", "tab", "z">>, args |-> <<>>],
     [fmt |-> <<"backspace">>, args |-> <<>>]}

BytesOf(file, n) == [k \in 1 .. n |-> <<file, k>>]
Header(type, offset, virt, file_size, mem_size) ==
    [type |-> type, offset |-> offset, virt_addr |-> virt, file_size |-> file_size, mem_size |-> mem_size]
Sym(name, value, section_index) == [name |-> name, value |-> value, section_index |-> section_index]
Rel(offset, type, symndx, addend) ==
    [offset |-> offset, type |-> type, symndx |-> symndx, addend |-> addend]

(* Segments of sizes that are no multiple of four: of the daemon's second  *)
(* and first one, of the library's second one, whose last byte nobody      *)
(* clears, and of its last, whose memset fills bytes of the second.        *)
(* Three names of one bucket and one of another; "open" is defined in both *)
(* files, "libc" only in the daemon, "gone" in neither.                    *)
MCHash == [open |-> 2, libc |-> 4, pread |-> 6, gone |-> 3]

Daemon(buckets) ==
    [header |-> "good", bytes |-> BytesOf("m", 4),
     ph |-> <<Header("NOTE", 0, 0, 1, 1), Header("LOAD", 1, 12, 2, 3), Header("LOAD", 0, 10, 1, 2)>>,
     symbols |-> <<Sym("", 0, 0), Sym("open", 10, 1), Sym("libc", 13, 1)>>,
     bucket |-> buckets, chain |-> IF Len(buckets) = 1 THEN <<0, 2, 0>> ELSE <<0, 0, 1>>,
     jmp |-> <<>>, rel |-> <<>>, rela |-> <<>>]
MCMains == {Daemon(<<1>>), Daemon(<<2, 0>>)}

Library(header, bucket, chain) ==
    [header |-> header, bytes |-> BytesOf("l", 8),
     ph |-> <<Header("LOAD", 0, 0, 4, 4), Header("LOAD", 4, 5, 4, 9), Header("DYNAMIC", 2, 2, 2, 2)>>,
     symbols |-> <<Sym("", 0, 0), Sym("libc", 0, 0), Sym("open", 1, 1), Sym("pread", 3, 1),
                   Sym("gone", 0, 0)>>,
     bucket |-> bucket, chain |-> chain,
     jmp |-> <<Rel(6, "JMP_SLOT", 1, 0), Rel(7, "JMP_SLOT", 3, 0)>>,
     rel |-> <<Rel(8, "GLOB_DATA", 4, 0), Rel(5, "RELATIVE", 0, 0)>>,
     rela |-> <<Rel(9, "32", 2, 2), Rel(2, "GLOB_DATA", 1, 0)>>]
MCLibraries ==
    {Library("good", <<1>>, <<0, 2, 3, 4, 0>>), Library("good", <<3, 4>>, <<0, 0, 1, 2, 0>>),
     Library("bad", <<1>>, <<0, 2, 3, 4, 0>>)}

(* The files of the instance are files as ld makes them. *)
ASSUME TheFilesAreWhole == \A file \in Mains \cup Libraries : L!ElfFile(file)
=============================================================================
