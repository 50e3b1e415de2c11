---------------------------- MODULE KernelSpace ----------------------------
(***************************************************************************)
(* The address space the processors share, src/src/kernel/mm/vmm.c: who    *)
(* takes a range out of it, who gives one back, and when it may be taken   *)
(* again.  kvmm_malloc works under vmm_lock, in two steps here: the search *)
(* and the change of the entry found.  The timer's sync_addr_space works   *)
(* under invld_lock alone, and may run on another processor in between.    *)
(* Only pages of one page's length are ever freed: the mm_stack of a       *)
(* process that exits.                                                     *)
(***************************************************************************)
EXTENDS FreeRanges, SequencesExt

CONSTANTS
    NCpu,
    Ranges,                 \* the ranges of KERNEL_SPACE that vmm_init finds
    MAX_STACK_INVLD_SIZ,
    Length,                 \* the lengths that are asked for
    MaxEntry                \* bound: entries of mm_stack the model keeps

(* The map of the boot loader names no page twice, and fits into mm_stack. *)
(* No range ends before it starts: vmm.c:87-90 lower an end to             *)
(* KERNEL_SPACE and not a start, so that no region may begin above it; the *)
(* comparison of lengths without a sign (vmm.c:358) then means what it     *)
(* says.  A range only ever gets shorter down to nothing, or longer.       *)
ASSUME KernelSpaceAssumption ==
    /\ NCpu \in Nat \ {0} /\ MaxEntry \in Nat /\ MAX_STACK_INVLD_SIZ \in Nat
    /\ Ranges \in Seq([start : Nat, end : Nat]) /\ Len(Ranges) <= MaxEntry
    /\ \A i \in DOMAIN Ranges : Ranges[i].start <= Ranges[i].end
    /\ \A i, j \in DOMAIN Ranges : i # j => PagesOf(Ranges[i]) \cap PagesOf(Ranges[j]) = {}
    /\ Length \subseteq Nat \ {0}

Cpu == 1 .. NCpu
BSP == 1                    \* the bootstrap processor; the others are APs
None == 0

VARIABLES
    mm_stack, mm_stack_ptr,
    vmm_lock,               \* its owner or None
    found,                  \* what the owner's search found
    used,                   \* the ranges given out
    invalid_stack,          \* from its entry 1 up to invalid_stackptr
    invld_lock,             \* its owner or None, between the steps of sync_addr_space
    to_invalid_cur,         \* the entry its loop is at
    all_cores_mask,
    tlb,                    \* the freed pages a processor may still have cached
    raced, early            \* history: see SyncAddrSpace

ranges == <<mm_stack, mm_stack_ptr>>
search == <<vmm_lock, found>>
walk == <<invld_lock, to_invalid_cur>>
vars == <<ranges, search, used, invalid_stack, walk, all_cores_mask, tlb, raced, early>>

(* struct to_invalid, of which SYS_EXIT leaves entries for single pages. *)
ToInvalid == [virt : Int, length : {1}, cores_invalidated : SUBSET Cpu]

Nothing == [k |-> 0, exact |-> FALSE, to_ret |-> 0, pages |-> 0]
UsedPages == UNION {PagesOf(r) : r \in used}
PagesToForget(e) == PagesOf([start |-> e.virt, end |-> e.virt + e.length])
PendingPages == UNION {PagesToForget(e) : e \in ToSet(invalid_stack)}

(* vmm_init stores an entry and then moves the pointer. *)
Init ==
    /\ mm_stack = [i \in 0 .. MaxEntry |-> IF i < Len(Ranges) THEN Ranges[i + 1] ELSE Blank]
    /\ mm_stack_ptr = Len(Ranges)
    /\ vmm_lock = None
    /\ found = Nothing
    /\ used = {}
    /\ invalid_stack = <<>>
    /\ invld_lock = None /\ to_invalid_cur = 0
    /\ all_cores_mask = {}
    /\ tlb = [c \in Cpu |-> {}]
    /\ raced = FALSE
    /\ early = FALSE

(* A processor enters the mask when its start is complete; the bootstrap   *)
(* processor when it has loaded the programs, after all the others.        *)
Join(c) ==
    /\ c \notin all_cores_mask
    /\ c = BSP => all_cores_mask = Cpu \ {BSP}
    /\ all_cores_mask' = all_cores_mask \cup {c}
    /\ UNCHANGED <<ranges, search, used, invalid_stack, walk, tlb, raced, early>>

(* kvmm_malloc, up to the entry that is long enough.  Without one it       *)
(* returns 0 and changes nothing.                                          *)
Search(c, pages) ==
    /\ vmm_lock = None
    /\ \E k \in 0 .. MaxEntry :
          /\ IsFound(mm_stack, mm_stack_ptr, pages, k)
          /\ found' = [k |-> k, exact |-> IsExact(mm_stack, k, pages),
                       to_ret |-> mm_stack[k].start, pages |-> pages]
    /\ vmm_lock' = c
    /\ UNCHANGED <<ranges, used, invalid_stack, walk, all_cores_mask, tlb, raced, early>>

(* The rest of it.  A compiler may add the length to the start it has read *)
(* before, or to the one in memory.                                        *)
Take(c) ==
    LET k == found.k
        range == [start |-> found.to_ret, end |-> found.to_ret + found.pages] IN
    /\ vmm_lock = c
    /\ IF found.exact
       THEN /\ mm_stack' = Closed(mm_stack, mm_stack_ptr, k)
            /\ mm_stack_ptr' = mm_stack_ptr - 1
       ELSE /\ \E start \in {mm_stack[k].start, found.to_ret} :
                  mm_stack' = Shortened(mm_stack, k, start + found.pages)
            /\ UNCHANGED mm_stack_ptr
    /\ used' = used \cup {range}
    /\ tlb' = [tlb EXCEPT ![c] = @ \ PagesOf(range)]
    /\ vmm_lock' = None
    /\ found' = Nothing
    /\ UNCHANGED <<invalid_stack, walk, all_cores_mask, raced, early>>

(* A processor that loads an address space forgets all it has cached. *)
SetContext(c) ==
    /\ tlb[c] # {}
    /\ tlb' = [tlb EXCEPT ![c] = {}]
    /\ UNCHANGED <<ranges, search, used, invalid_stack, walk, all_cores_mask, raced, early>>

(* kvmm_free_unsafe under vmm_lock, with vmm_remind_to_mark_free, which    *)
(* takes invld_lock too.  Any other processor may have used the page and   *)
(* have it cached.  When the stack is full the range is forgotten.  The    *)
(* test lets the pointer reach the entry of number MAX_STACK_INVLD_SIZ,    *)
(* one behind the array.                                                   *)
RoomToRemind == Len(invalid_stack) < MAX_STACK_INVLD_SIZ
(* Slip: the other processors are taken to have invalidated it. *)
RemindAll(c, r) ==
    [virt |-> r.start, length |-> 1, cores_invalidated |-> all_cores_mask]
Remind(c, r) ==
    [virt |-> r.start, length |-> 1, cores_invalidated |-> {c}]
FreeContext(c) ==
    /\ c \in all_cores_mask
    /\ vmm_lock = None /\ invld_lock = None
    /\ \E r \in used :
          /\ r.end = r.start + 1
          /\ used' = used \ {r}
          /\ tlb' = [d \in Cpu |-> IF d = c THEN tlb[d] \ {r.start} ELSE tlb[d] \cup {r.start}]
          /\ invalid_stack' = IF RoomToRemind THEN Append(invalid_stack, Remind(c, r))
                                              ELSE invalid_stack
    /\ UNCHANGED <<ranges, search, walk, all_cores_mask, raced, early>>

(* sync_addr_space: the timer of a processor that does not hold vmm_lock   *)
(* itself.                                                                 *)
BeginSync(c) ==
    /\ c \in all_cores_mask
    /\ vmm_lock # c /\ invld_lock = None
    /\ invalid_stack # <<>> /\ mm_stack_ptr + Len(invalid_stack) < MaxEntry
    /\ invld_lock' = c
    /\ to_invalid_cur' = Len(invalid_stack)
    /\ UNCHANGED <<ranges, search, used, invalid_stack, all_cores_mask, tlb, raced, early>>

(* One round of its loop, which walks down from the top.  It marks the     *)
(* entry, and gives it back if every processor has marked it and it is     *)
(* still the top.  `raced' remembers that it did so while another          *)
(* processor was between search and take; `early', that a processor was    *)
(* not counted yet.  Slip: the mark replaces those of the others.          *)
MarkedAlone(e, c) == [e EXCEPT !.cores_invalidated = {c}]
Marked(e, c) == [e EXCEPT !.cores_invalidated = @ \cup {c}]

SyncAddrSpace(c) ==
    LET top == Len(invalid_stack)
        e == Marked(invalid_stack[to_invalid_cur], c)
        ripe == e.cores_invalidated = all_cores_mask /\ to_invalid_cur = top
        pushed == Pushed(mm_stack, mm_stack_ptr, e.virt, e.length) IN
    /\ invld_lock = c /\ to_invalid_cur > 0
    /\ tlb' = [tlb EXCEPT ![c] = @ \ {e.virt}]
    /\ \/ /\ ripe
          /\ mm_stack' = pushed.mm_stack /\ mm_stack_ptr' = pushed.ptr
          /\ invalid_stack' = SubSeq(invalid_stack, 1, top - 1)
          /\ raced' = (raced \/ vmm_lock # None)
          /\ early' = (early \/ all_cores_mask # Cpu)
       \/ /\ ~ripe
          /\ invalid_stack' = [invalid_stack EXCEPT ![to_invalid_cur] = e]
          /\ UNCHANGED <<ranges, raced, early>>
    /\ to_invalid_cur' = to_invalid_cur - 1
    /\ UNCHANGED <<search, used, invld_lock, all_cores_mask>>

EndSync(c) ==
    /\ invld_lock = c /\ to_invalid_cur = 0
    /\ invld_lock' = None
    /\ UNCHANGED <<ranges, search, used, invalid_stack, to_invalid_cur, all_cores_mask, tlb,
                   raced, early>>

(* After a race nothing is promised: the model ends when the search that   *)
(* was overtaken is complete.                                              *)
Next ==
    \E c \in Cpu :
        \/ Take(c)
        \/ /\ ~raced
           /\ \/ Join(c)
              \/ \E pages \in Length : Search(c, pages)
              \/ SetContext(c)
              \/ FreeContext(c)
              \/ BeginSync(c) \/ SyncAddrSpace(c) \/ EndSync(c)

Spec == Init /\ [][Next]_vars

(* The timer of every processor that has started is periodic. *)
FairSpec ==
    /\ Spec
    /\ \A c \in Cpu : /\ WF_vars(Join(c)) /\ WF_vars(Take(c)) /\ SF_vars(BeginSync(c))
                      /\ WF_vars(SyncAddrSpace(c)) /\ WF_vars(EndSync(c))

-----------------------------------------------------------------------------
(* A page is in use, free, or waiting until it may be free, and no two     *)
(* ranges share one.  The one way out is a range given back between        *)
(* another processor's search and take: sync_addr_space does not hold      *)
(* vmm_lock (vmm.c:555).                                                   *)
DisjointRanges ==
    \A i, j \in 0 .. mm_stack_ptr :
        i # j => PagesOf(mm_stack[i]) \cap PagesOf(mm_stack[j]) = {}
Free == FreePages(mm_stack, mm_stack_ptr)
OnlyARaceSharesPages ==
    raced \/ /\ vmm_lock = None => Free \cap UsedPages = {}
             /\ \A r, s \in used : r # s => PagesOf(r) \cap PagesOf(s) = {}
             /\ PendingPages \cap (Free \cup UsedPages) = {}
             /\ DisjointRanges

(* No processor has a page cached that can be given out again: each has    *)
(* invalidated it before the range went back (vmm.c:552).  Processors that *)
(* free a range while the bootstrap processor is not counted yet do not    *)
(* wait for it (init.c:127).                                               *)
FreeIsForgotten ==
    \/ raced \/ early
    \/ \A c \in Cpu : tlb[c] \cap (Free \ UsedPages) = {}

(* Each page that waits until all have forgotten it comes back to the free *)
(* ranges, although only the top of the stack is ever given back.  Unless processes exit    *)
(* for ever, so that it stays buried, or a race has damaged the ranges; or *)
(* it is merged with what lies behind mm_stack_ptr, where no search looks: *)
(* the loop goes one entry too far (vmm.c:377).                            *)
BehindThePointer == PagesOf(mm_stack[mm_stack_ptr + 1])
WaitingPagesComeBack ==
    \/ <>raced
    \/ \E c \in Cpu : []<><<FreeContext(c)>>_vars
    \/ \A page \in UNION {PagesOf(Ranges[i]) : i \in DOMAIN Ranges} :
          page \in PendingPages ~> page \in Free \cup UsedPages \cup BehindThePointer

(* No step loses a page, be it in use, free or waiting, but for two: a     *)
(* page that is freed when the stack of those that wait is full is         *)
(* forgotten (vmm.c:401), and so is one that is merged with what lies      *)
(* behind mm_stack_ptr (vmm.c:377).                                        *)
Accounted == Free \cup UsedPages \cup PendingPages
PagesAreLostInTwoWays ==
    [][raced' \/ \A page \in Accounted \ Accounted' :
          \/ page \in UsedPages /\ ~RoomToRemind
          \/ page \in PendingPages /\ page \in BehindThePointer']_vars
=============================================================================
