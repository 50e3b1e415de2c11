-------------------------------- MODULE Linker --------------------------------
(***************************************************************************)
(* From an ELF file to a program that runs: the kernel's init_elf, which   *)
(* lays the VFS daemon out in a new address space, and the linker inside   *)
(* the daemon, which loads a file system as a shared library, resolves its *)
(* references against itself and the daemon, and looks its functions up.   *)
(* A cell of memory or of a file is a byte; only the address a relocation  *)
(* writes, <<"address", n>>, takes one cell instead of four.               *)
(***************************************************************************)
EXTENDS Integers, Sequences, SequencesExt, FiniteSets, FiniteSetsExt

CONSTANTS Mains,     \* ELF files init_elf may be given
          Libraries, \* files init_shared_lib may be given
          Junk, Zero,
          elf_hash   \* hash of a symbol's name, used by ld when it made the tables

VARIABLES memory,    \* address -> cell, for what is allocated
          images,    \* what was loaded, the daemon first: file and runtime_addr
          linked,    \* whether the library was linked
          found      \* history: <<name, what get_func returned>>

vars == <<memory, images, linked, found>>

Init ==
    /\ memory = <<>> /\ images = <<>> /\ linked = FALSE /\ found = {}

(***************************************************************************)
(* Loading.                                                                *)
(***************************************************************************)
Among(types, ph) == {i \in DOMAIN ph : ph[i].type \in types}
Start(ph, some) == Min({ph[i].virt_addr : i \in some})
End(ph, some) == Max({ph[i].virt_addr + ph[i].mem_size : i \in some} \cup {0})

(* memset(dest, 0, mem_size) and memcpy(dest, src, file_size).  memset     *)
(* fills whole words, of four cells.  Of a size that is no multiple of     *)
(* four it leaves the rest as it is, and fills the word behind the next,   *)
(* whatever is there (st_string.c:130, string.c:114).                      *)
Words(segment) == 4 * (segment.mem_size \div 4)
Beside(segment, at) ==
    IF segment.mem_size % 4 = 0 THEN {}
    ELSE LET behind == at + segment.virt_addr + Words(segment) + 4 IN behind .. behind + 3

Filled(mem, segment, bytes, at) ==
    LET dest == at + segment.virt_addr
    IN  [a \in DOMAIN mem |->
           IF a \in dest .. dest + segment.file_size - 1 THEN bytes[segment.offset + a - dest + 1]
           ELSE IF a \in (dest .. dest + Words(segment) - 1) \cup Beside(segment, at) THEN Zero
           ELSE mem[a]]

Loaded(mem, file, some, at) ==
    FoldLeft(LAMBDA m, i : IF i \in some THEN Filled(m, file.ph[i], file.bytes, at) ELSE m,
             mem, [i \in DOMAIN file.ph |-> i])

Allocated(mem, first, size) ==
    [a \in DOMAIN mem \cup (first .. first + size - 1) |-> IF a \in DOMAIN mem THEN mem[a] ELSE Junk]

init_elf(file) ==
    /\ images = <<>>
    /\ LET some == Among({"LOAD"}, file.ph)
           start == Start(file.ph, some)
       IN  memory' = Loaded(Allocated(memory, start, End(file.ph, some) - start), file, some, 0)
    /\ images' = <<[file |-> file, at |-> 0]>>
    /\ UNCHANGED <<linked, found>>

\* The room is for all segments; a file with a bad header is not loaded.
init_shared_lib(file) ==
    /\ Len(images) = 1 /\ file.header = "good"
    /\ LET at == Max(DOMAIN memory) + 1
           room == Allocated(memory, at, End(file.ph, DOMAIN file.ph))
       IN  /\ memory' = Loaded(room, file, Among({"LOAD", "DYNAMIC"}, file.ph), at)
           /\ images' = Append(images, [file |-> file, at |-> at])
    /\ UNCHANGED <<linked, found>>

(***************************************************************************)
(* Symbols.  The hash table's bucket leads to a symbol, and the chain on   *)
(* to others of the same bucket until 0; what it leads to first is looked  *)
(* at even if it is 0.  Symbols are numbered from 0.                       *)
(***************************************************************************)
Symbol(file, y) == file.symbols[y + 1]

\* The symbols from y on along the chain.
Chain(file) ==
    LET nsyms == Len(file.symbols)
        walk[y \in 0 .. nsyms - 1] ==
            <<y>> \o (IF file.chain[y + 1] = 0 THEN <<>> ELSE walk[file.chain[y + 1]])
    IN  walk

\* Slip: a symbol that shares its bucket is not found behind the first one.
FirstOfBucket(file, name) ==
    LET y == file.bucket[(elf_hash[name] % Len(file.bucket)) + 1]
    IN  IF Symbol(file, y).name = name THEN {Symbol(file, y)} ELSE {}

\* The symbol as a set with at most one member.
get_sym_by_name(file, name) ==
    LET walk == Chain(file)[file.bucket[(elf_hash[name] % Len(file.bucket)) + 1]]
        match == {k \in DOMAIN walk : Symbol(file, walk[k]).name = name}
    IN  {Symbol(file, walk[k]) : k \in {j \in match : \A other \in match : j <= other}}

\* The images in their order in which the name is found with a section.
Defining(all, name) ==
    SelectSeq(all, LAMBDA image : \E s \in get_sym_by_name(image.file, name) : s.section_index # 0)

ValueIn(image, name) ==
    (CHOOSE s \in get_sym_by_name(image.file, name) : TRUE).value + image.at

\* One turn of a loop of resolve_references; a name that nobody defines is passed over.
Resolved(mem, to_resolve, all, rel, types, addend) ==
    LET defining == Defining(all, Symbol(to_resolve.file, rel.symndx).name)
    IN  IF rel.type \notin types \/ defining = <<>> THEN mem
        ELSE [mem EXCEPT ![rel.offset + to_resolve.at] =
                <<"address", ValueIn(defining[1], Symbol(to_resolve.file, rel.symndx).name) + addend>>]

\* The loops over jmp_rel or jmp_rela, which do the same, over dyn_rel and over dyn_rela.
resolve_references(mem, to_resolve, all) ==
    LET file == to_resolve.file
        jumps == FoldLeft(LAMBDA m, rel : Resolved(m, to_resolve, all, rel, {"JMP_SLOT"}, 0), mem, file.jmp)
        data == FoldLeft(LAMBDA m, rel : Resolved(m, to_resolve, all, rel, {"GLOB_DATA"}, 0), jumps, file.rel)
    IN  FoldLeft(LAMBDA m, rel : Resolved(m, to_resolve, all, rel, {"GLOB_DATA", "32"}, rel.addend),
                 data, file.rela)

\* The library's references are resolved, first in itself, then in the daemon.
link_lib_against ==
    /\ Len(images) = 2 /\ ~ linked /\ linked' = TRUE
    /\ memory' = resolve_references(memory, images[2], <<images[2], images[1]>>)
    /\ UNCHANGED <<images, found>>

\* Only the name is looked at: one that has no section would do.
get_func(name) ==
    /\ linked
    /\ found' = found \cup {<<name, IF get_sym_by_name(images[2].file, name) = {} THEN 0
                                    ELSE ValueIn(images[2], name)>>}
    /\ UNCHANGED <<memory, images, linked>>

Next ==
    \/ \E file \in Mains : init_elf(file)
    \/ \E file \in Libraries : init_shared_lib(file)
    \/ link_lib_against
    \/ \E name \in DOMAIN elf_hash : get_func(name)

Spec == Init /\ [][Next]_vars

-----------------------------------------------------------------------------
(***************************************************************************)
(* The files ld makes, as the structures of elf.h lay them out: segments   *)
(* lie in the file, tables name symbols that there are, and the chains of  *)
(* the hash table all lead upwards, or all downwards, until they end.      *)
(***************************************************************************)
elf_header == {"good", "bad"}
elf_program_header(file) ==
    {ph \in [type : {"NOTE", "LOAD", "DYNAMIC"}, offset : 0 .. Len(file.bytes), virt_addr : Nat,
             file_size : Nat, mem_size : Nat] :
       ph.offset + ph.file_size <= Len(file.bytes) /\ ph.file_size <= ph.mem_size}
elf_symbol == [name : DOMAIN elf_hash \cup {""}, value : Nat, section_index : Nat]
elf_rela(file) ==
    [offset : Nat, type : {"JMP_SLOT", "GLOB_DATA", "32", "RELATIVE"},
     symndx : 0 .. Len(file.symbols) - 1, addend : Int]

ElfFile(file) ==
    /\ file.header \in elf_header
    /\ \A ph \in ToSet(file.ph) : ph \in elf_program_header(file)
    /\ file.symbols \in Seq(elf_symbol)
    /\ Len(file.chain) = Len(file.symbols)
    /\ \/ \A y \in DOMAIN file.chain : file.chain[y] \in {0} \cup (y .. Len(file.symbols) - 1)
       \/ \A y \in DOMAIN file.chain : file.chain[y] \in {0} \cup (0 .. y - 2)
    /\ file.bucket # <<>> /\ file.bucket \in Seq(0 .. Len(file.symbols) - 1)
    /\ {file.jmp, file.rel, file.rela} \subseteq Seq(elf_rela(file))

\* What a reader of the two files says: the addresses a name is defined at, the
\* library's before the daemon's.
Definitions(image, name) ==
    {image.file.symbols[k].value + image.at :
       k \in {j \in DOMAIN image.file.symbols :
                image.file.symbols[j].name = name /\ image.file.symbols[j].section_index # 0}}

Meant(name) ==
    IF Definitions(images[2], name) # {} THEN Definitions(images[2], name)
    ELSE Definitions(images[1], name)

\* <<slot, name, addend>> for each reference of a kind that the linker knows.
References ==
    LET file == images[2].file
        Known(table, types) == {rel \in Range(table) : rel.type \in types}
    IN  {<<rel.offset + images[2].at, Symbol(file, rel.symndx).name, 0>> :
            rel \in Known(file.jmp, {"JMP_SLOT"}) \cup Known(file.rel, {"GLOB_DATA"})}
        \cup {<<rel.offset + images[2].at, Symbol(file, rel.symndx).name, rel.addend>> :
                rel \in Known(file.rela, {"GLOB_DATA", "32"})}

Patched == IF linked THEN {r \in References : Meant(r[2]) # {}} ELSE {}

(* What loading the segments behind the i-th one has filled beside them. *)
FilledLater(image, types, i) ==
    UNION {Beside(image.file.ph[j], image.at) : j \in {k \in Among(types, image.file.ph) : k > i}}

(* The bytes of a segment are in their places. *)
InPlace(image, types) ==
    \A i \in Among(types, image.file.ph) :
        LET ph == image.file.ph[i]
        IN  \A k \in 0 .. ph.mem_size - 1 :
              LET a == image.at + ph.virt_addr + k
              IN  /\ a \in DOMAIN memory
                  /\ a \notin {r[1] : r \in Patched} =>
                       IF k < ph.file_size
                       THEN \/ memory[a] = image.file.bytes[ph.offset + k + 1]
                            \/ a \in FilledLater(image, types, i) /\ memory[a] = Zero
                       ELSE k < Words(ph) => memory[a] = Zero

(***************************************************************************)
(* A library runs as its file and the daemon's say: each reference leads   *)
(* to the definition of its name, the library's own if it has one,         *)
(* wherever the hash table hides it; a function is looked up where it was  *)
(* loaded; and every other byte of both programs is the file's, or zero    *)
(* where the file has none (init_elf, init_shared_lib, resolve_references  *)
(* and get_func).  But for what memset gets wrong: at the end of a segment *)
(* whose size is no multiple of four up to three bytes the file has not    *)
(* are not cleared (`Words'), and a segment loaded later may zero bytes of *)
(* an earlier one (`FilledLater').                                         *)
(***************************************************************************)
TheLibraryIsLinked ==
    /\ \A r \in Patched : \E n \in Meant(r[2]) : memory[r[1]] = <<"address", n + r[3]>>
    /\ Len(images) >= 1 => InPlace(images[1], {"LOAD"})
    /\ Len(images) = 2 => InPlace(images[2], {"LOAD", "DYNAMIC"})
    /\ \A f \in found : Definitions(images[2], f[1]) # {} => f[2] \in Definitions(images[2], f[1])
=============================================================================
