---------------------------- MODULE ContextDelete ----------------------------
(***************************************************************************)
(* The end of an address space: vmm_delcontext, src/src/kernel/mm/vmm.c,   *)
(* on x86_64.  It looks at the tables of each level through a window of    *)
(* its own, moves a pointer through it and gives back what it finds.       *)
(***************************************************************************)
EXTENDS Contexts

TMP_PAGEBUF2 == 2
TMP_PAGEBUF3 == 3

(* The entry i of the table the kernel sees at the page v.  The loops move *)
(* the pointer before they look: the last entry they look at is the first  *)
(* one of the next page.  Behind the last window comes a page of the first *)
(* megabyte, TMP_PAGEBUF4, which is taken to hold nothing; this model has  *)
(* no room for it.                                                         *)
Read(k, v, i) ==
    IF i < Fan THEN k.tables[Translate(k, Startup, v)][i]
    ELSE IF v = TMP_PAGEBUF3 THEN Absent
    ELSE k.tables[Translate(k, Startup, v + 1)][0]
pmm_free_4k_glob(k, f) == [k EXCEPT !.pmm_stack = <<Max({f, 0})>> \o @]

(* The body of a loop, for every present entry of the table at v from      *)
(* the index first on: what Below does with it, and then the entry's       *)
(* frame, which is read once more, is freed.                               *)
Level(k, v, first, Below(_, _)) ==
    LET visit(k1, i) ==
            IF Read(k1, v, i) = Absent THEN k1
            ELSE LET k2 == Below(k1, Read(k1, v, i)) IN pmm_free_4k_glob(k2, Read(k2, v, i))
    IN FoldLeft(visit, k, [n \in 1 .. Fan + 1 - first |-> first + n - 1])

(* To see a table at TMP_PAGEBUF2 or TMP_PAGEBUF3 is to move TMP_PAGEBUF.  *)
FreePage(k, f) == k
FreePageTable(k, f) == Level(vmm_map(k, Startup, f, TMP_PAGEBUF3), TMP_PAGEBUF3, 1, FreePage)
FreePageDirectory(k, f) ==
    Level(vmm_map(k, Startup, f, TMP_PAGEBUF2), TMP_PAGEBUF2, 2, FreePageTable)
FreePointerTable(k, f) ==
    Level(vmm_map(k, Startup, f, TMP_PAGEBUF), TMP_PAGEBUF, 1, FreePageDirectory)

(* kvmm_free_unsafe, of one page.  When it may be used again is the        *)
(* subject of KernelSpace.                                                 *)
kvmm_free_unsafe(k, v) ==
    vmm_map(pmm_free_4k_glob(k, virt_to_phys(k, Startup, v)), Startup, Absent, v)

vmm_delcontext(p) ==
    /\ spaces[p].pml4 # 0
    /\ Becomes(kvmm_free_unsafe(Level(now, spaces[p].highest_paging, 1, FreePointerTable),
                                spaces[p].stack_page))
    /\ UNCHANGED <<shmid_list, guard, attached, overlaid, raced>>

(* A model of one process's end: the system goes on with what is left.     *)
DeleteNext == Next \/ (~raced /\ \E p \in Proc : vmm_delcontext(p))
DeleteSpec == Init /\ [][DeleteNext]_vars

-----------------------------------------------------------------------------
(* "we don't want to remove kernel space" (vmm.c:184): what the kernel     *)
(* maps is not given back.                                                 *)
KernelSpaceIsKept == KernelFrames \cap ToSet(pmm_stack) = {}
=============================================================================
