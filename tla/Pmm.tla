--------------------------------- MODULE Pmm ---------------------------------
(***************************************************************************)
(* Physical memory from the boot loader's map to pmm_malloc_4k: a region   *)
(* that is large enough gives the boot stack, the tables of the first      *)
(* paging (x86_64), the stack of free pages, room for the modules and the  *)
(* kernel's first page tables; the pages of all regions are then pushed on *)
(* the stack.  On x86_64 the loader and the kernel both go through the     *)
(* map, on x86 the kernel alone.  Sizes are numbers of pages, addresses    *)
(* are in units of which PAGE_SIZE make a page.                            *)
(***************************************************************************)
EXTENDS Integers, Sequences, SequencesExt, FiniteSets

CONSTANTS PAGE_SIZE,
          Width,            \* the masks of the code, and the addresses of x86, are Width bits wide
          Low,              \* 0x200000: below it lie the kernel and what firmware uses
          EASYMAPTBL_SIZ,   \* on x86_64; x86 has none
          STDRD_STACKSIZ, PMM_STACK_SIZ,
          Image,            \* pages of the kernel, of mb_info and of the table of modules
          Maps, Modules,    \* what the boot loader may pass
          MaxCalls          \* bound: calls of pmm_malloc_4k and pmm_free_4k_glob

Region == [base : Nat, length : Nat, type : Nat]
Extent == [start : Nat, end : Nat]

(* The kernel lies below Low, and a module does not end before it begins.  *)
ASSUME SizesAssumption ==
    /\ PAGE_SIZE \in Nat \ {0} /\ STDRD_STACKSIZ \in Nat \ {0}
    /\ EASYMAPTBL_SIZ \in Nat /\ PMM_STACK_SIZ \in Nat /\ 2 ^ Width \in Nat \ {0}
    /\ Low \in Nat \ {0} /\ Low % PAGE_SIZE = 0
    /\ Image \subseteq 0 .. Low \div PAGE_SIZE - 1
    /\ Maps \subseteq Seq(Region) /\ Modules \subseteq Seq(Extent)
    /\ \A mods \in Modules : \A i \in DOMAIN mods : mods[i].start <= mods[i].end

VARIABLES arch, phase,
          given,            \* history: the map that was passed
          mmap, modules,    \* the map and the modules, changed in place
          bsp_stack, pmm_stack_ptr, startup_tables,
          physbitmap,       \* pages marked as used, which vmm_init maps
          free,             \* the stack of free pages, top first
          taken,            \* pages handed out
          calls_made

pmmVars == <<arch, phase, given, mmap, modules, bsp_stack, pmm_stack_ptr, startup_tables,
          physbitmap, free, taken, calls_made>>

PAGING_HIER_SIZE == IF arch = "x86" THEN 2 ELSE 4
Easymap == IF arch = "x86" THEN 0 ELSE EASYMAPTBL_SIZ

Unsigned(n) == n % 2 ^ Width
AlignedDown(address) == (address \div PAGE_SIZE) * PAGE_SIZE
\* The mask 0xfffff000 takes away the bits above the lower 32 as well, ALIGNED_BASE keeps them.
Masked(address) == Unsigned(AlignedDown(address))
ALIGNED_BASE(address) == AlignedDown(address + PAGE_SIZE - 1)
PagesIn(first, last) == (first \div PAGE_SIZE) .. ((last - 1) \div PAGE_SIZE)

\* The size of the first modules, of all of them in the end.
Sizes(mods) ==
    LET sum[i \in 0 .. Len(mods)] == IF i = 0 THEN 0 ELSE sum[i - 1] + (mods[i].end - mods[i].start)
    IN  sum
mod_size(mods) == Sizes(mods)[Len(mods)]

\* What lies between the boot stack and the first page tables.
Before(mods) == (Easymap + STDRD_STACKSIZ + PMM_STACK_SIZ) * PAGE_SIZE + ALIGNED_BASE(mod_size(mods))
\* Slip: the room for the modules is forgotten where the region is cut.
CutWithoutModules(mods) ==
    (Easymap + STDRD_STACKSIZ + PMM_STACK_SIZ + PAGING_HIER_SIZE + 2) * PAGE_SIZE
Cut(mods) == Before(mods) + (PAGING_HIER_SIZE + 2) * PAGE_SIZE

Usable(region) == region.type = 1

(* What the code relies on: no address is named as usable twice.           *)
ASSUME MapsAssumption ==
    \A map \in Maps : \A i, j \in DOMAIN map :
        (i # j /\ Usable(map[i]) /\ Usable(map[j])) =>
            \/ map[i].base + map[i].length <= map[j].base
            \/ map[j].base + map[j].length <= map[i].base

\* Memory below 2 MB is given up, in the loader and on x86.
Clipped(region) ==
    IF ~ Usable(region) \/ region.base >= Low THEN region
    ELSE IF region.base + region.length <= Low THEN [region EXCEPT !.type = 0]
    ELSE [region EXCEPT !.base = Low, !.length = region.base + region.length - Low]

(* The comparison has no sign, so what is less than nothing seems huge.    *)
Fits(region, mods) ==
    LET room == Masked(region.base + region.length) - ALIGNED_BASE(region.base)
    IN  room < 0 \/ room >= Before(mods) + (PAGING_HIER_SIZE + 1) * PAGE_SIZE

\* The modules one behind the other, from address at on.
Moved(mods, at) ==
    [i \in DOMAIN mods |->
       LET start == at + Sizes(mods)[i - 1]
       IN  [start |-> start, end |-> start + mods[i].end - mods[i].start]]

\* Where the modules are put in the region that begins with bsp.
ModulesAt(bsp) == bsp + (Easymap + STDRD_STACKSIZ + PMM_STACK_SIZ) * PAGE_SIZE

Seen(map, clips) == [i \in DOMAIN map |-> IF clips THEN Clipped(map[i]) ELSE map[i]]
Large(map, mods) == {i \in DOMAIN map : Usable(map[i]) /\ Fits(map[i], mods)}

(* Of the regions that seem large enough the first is taken, and while the *)
(* boot stack lies at 0 then, the next ones, too.                          *)
Found(map, mods) ==
    {i \in Large(map, mods) : \A j \in Large(map, mods) : j < i => Masked(map[j].base) = 0}

CutOff(region) == [region EXCEPT !.base = ALIGNED_BASE(@) + Cut(modules)]

pmm_init_mmap(clips, kernel) ==
    LET seen  == Seen(mmap, clips)
        found == Found(seen, modules)
        bsp   == Masked(seen[Max(found)].base)
    IN  IF found = {}
        THEN /\ mmap' = seen /\ UNCHANGED modules
             /\ bsp_stack' = 0 /\ pmm_stack_ptr' = 0 /\ startup_tables' = 0
        ELSE /\ mmap' = [i \in DOMAIN seen |-> IF kernel /\ i \in found THEN CutOff(seen[i]) ELSE seen[i]]
             /\ modules' = IF clips THEN Moved(modules, ModulesAt(bsp)) ELSE modules
             /\ bsp_stack' = bsp
             /\ pmm_stack_ptr' = bsp + (Easymap + STDRD_STACKSIZ) * PAGE_SIZE
             /\ startup_tables' = IF kernel THEN bsp + Before(modules) ELSE 0

PmmInit ==
    /\ arch \in {"x86", "x86_64"} /\ phase = IF arch = "x86" THEN "kernel" ELSE "loader"
    /\ given \in Maps /\ mmap = given /\ modules \in Modules
    /\ bsp_stack = 0 /\ pmm_stack_ptr = 0 /\ startup_tables = 0
    /\ physbitmap = {} /\ free = <<>> /\ taken = {} /\ calls_made = 0

\* The loader changes to the boot stack it has found; the kernel looks for it again.
init_LM ==
    /\ phase = "loader" /\ phase' = "kernel"
    /\ pmm_init_mmap(TRUE, FALSE)
    /\ UNCHANGED <<arch, given, physbitmap, free, taken, calls_made>>

KernelMap ==
    /\ phase = "kernel" /\ phase' = "init"
    /\ pmm_init_mmap(arch = "x86", TRUE)
    /\ UNCHANGED <<arch, given, physbitmap, free, taken, calls_made>>

\* From where the module starts on in steps of a page, so that its last page may be left out.
MarkedOf(mod) ==
    {(mod.start + k * PAGE_SIZE) \div PAGE_SIZE : k \in 0 .. (mod.end - mod.start - 1) \div PAGE_SIZE}

(* The pages of a region that are pushed, one after the other.  On x86 the *)
(* addresses wrap around, and then nothing lies between first and end.     *)
Pushed(region) ==
    LET base == ALIGNED_BASE(region.base)
        addr == IF arch = "x86" THEN Unsigned(base) ELSE base
        wraps == arch = "x86" /\ addr + Masked(region.length) >= 2 ^ Width
    IN  IF ~ Usable(region) \/ wraps THEN <<>>
        ELSE [k \in 1 .. Masked(region.length) \div PAGE_SIZE |-> addr \div PAGE_SIZE + k - 1]

\* What is marked: the kernel, the modules, the first megabyte and the reserved pages.
pmm_init ==
    /\ phase = "init" /\ phase' = "ready"
    /\ physbitmap' =
         Image \cup (0 .. Low \div (2 * PAGE_SIZE) - 1)
         \cup (UNION {MarkedOf(modules[i]) : i \in DOMAIN modules})
         \cup PagesIn(bsp_stack, bsp_stack + Cut(modules))
    /\ free' = FlattenSeq([i \in DOMAIN mmap |-> Pushed(mmap[i])])
    /\ UNCHANGED <<arch, given, mmap, modules, bsp_stack, pmm_stack_ptr, startup_tables, taken, calls_made>>

pmm_malloc_4k ==
    /\ phase = "ready" /\ free # <<>> /\ calls_made < MaxCalls /\ calls_made' = calls_made + 1
    /\ free' = Tail(free) /\ taken' = taken \cup {Head(free)}
    /\ UNCHANGED <<arch, phase, given, mmap, modules, bsp_stack, pmm_stack_ptr, startup_tables, physbitmap>>

pmm_free_4k_glob(page) ==
    /\ phase = "ready" /\ page \in taken /\ calls_made < MaxCalls /\ calls_made' = calls_made + 1
    /\ free' = <<page>> \o free /\ taken' = taken \ {page}
    /\ UNCHANGED <<arch, phase, given, mmap, modules, bsp_stack, pmm_stack_ptr, startup_tables, physbitmap>>

PmmNext ==
    \/ init_LM \/ KernelMap \/ pmm_init
    \/ pmm_malloc_4k
    \/ \E page \in taken : pmm_free_4k_glob(page)

PmmSpec == PmmInit /\ [][PmmNext]_pmmVars

-----------------------------------------------------------------------------
\* The kernel's first tables, and the page with its first free ranges five pages on.
Tables == PagesIn(startup_tables, startup_tables + PAGING_HIER_SIZE * PAGE_SIZE)
RangesPage == startup_tables \div PAGE_SIZE + 5

\* The pages the kernel works with from its first instruction on.
InUse ==
    Image \cup PagesIn(bsp_stack, pmm_stack_ptr + PMM_STACK_SIZ * PAGE_SIZE) \cup Tables \cup {RangesPage}
    \cup UNION {PagesIn(modules[i].start, modules[i].end) : i \in DOMAIN modules}

\* The first region that seems large enough; that it is, below the end of what the masks keep.
Chosen == Min(Large(Seen(given, TRUE), modules))
ChosenRegion == Seen(given, TRUE)[Chosen]
RoomAsked == ALIGNED_BASE(ChosenRegion.base) + Before(modules) + (PAGING_HIER_SIZE + 1) * PAGE_SIZE
EndOfWhole == AlignedDown(ChosenRegion.base + ChosenRegion.length)
RoomIsThere ==
    /\ Large(Seen(given, TRUE), modules) # {}
    /\ RoomAsked <= EndOfWhole /\ ChosenRegion.base + ChosenRegion.length < 2 ^ Width

\* A kernel of x86 has addresses only for regions that begin below 2^Width.
AddressesFit ==
    arch = "x86" =>
        \A i \in DOMAIN mmap : Usable(mmap[i]) => ALIGNED_BASE(mmap[i].base) < 2 ^ Width

(* Pages in use that are not cut off: on x86 the page of the ranges, since *)
(* it lies five pages behind the first table and four are cut; that page   *)
(* on x86_64, too, when the region has just the room that is asked for,    *)
(* which is a page less than is cut; and the first page of the boot stack, *)
(* when the region begins inside of it.                                    *)
Exposed ==
    (IF arch = "x86" \/ RoomAsked = EndOfWhole THEN {RangesPage} ELSE {})
    \cup (IF ChosenRegion.base % PAGE_SIZE = 0 THEN {} ELSE {bsp_stack \div PAGE_SIZE})

\* Cutting the front off the region moves its end: its length stays as it was.
Overhang ==
    UNION {PagesIn(mmap[i].base + mmap[i].length - Cut(modules), mmap[i].base + mmap[i].length) :
             i \in {j \in DOMAIN mmap : Usable(mmap[j]) /\ mmap[j].base > startup_tables
                                        /\ mmap[j].base <= startup_tables + Cut(modules)}}

Ram == UNION {PagesIn(given[i].base, given[i].base + given[i].length) :
                i \in {j \in DOMAIN given : Usable(given[j])}}

(***************************************************************************)
(* Of the pages that the kernel, its tables, its boot stack, the stack of  *)
(* free pages or a module occupies none but those Exposed names is ever    *)
(* handed out, all of them but the page of the ranges on x86 are marked as *)
(* used; no page is free twice or free and taken, and what is free is      *)
(* memory.  The pages behind the region that was cut are the exception     *)
(* (pmm_init_mmap, pmm.c:105, and pmm_init).  This holds when the region   *)
(* that seems large enough is large enough, and on x86 when no region      *)
(* begins where x86 has no addresses.                                      *)
(***************************************************************************)
TheKernelKeepsItsPages ==
    (phase = "ready" /\ RoomIsThere /\ AddressesFit) =>
        /\ InUse \ (IF arch = "x86" THEN {RangesPage} ELSE {}) \subseteq physbitmap
        /\ InUse \cap (Range(free) \cup taken) \subseteq Exposed
        /\ \A i, j \in DOMAIN free : i # j /\ free[i] = free[j] => free[i] \in Overhang
        /\ Range(free) \cap taken \subseteq Overhang
        /\ Range(free) \cup taken \subseteq Ram \cup Overhang
=============================================================================
