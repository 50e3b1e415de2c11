----------------------------- MODULE FreeRanges -----------------------------
(***************************************************************************)
(* The free ranges of an address space: the array mm_stack and the index   *)
(* of mm_stack_ptr in it, as src/src/kernel/mm/vmm.c searches and changes  *)
(* them.  Addresses and lengths are counted in pages.  The entry in front  *)
(* of the array, which a search in vain reads too, is taken to be empty:   *)
(* it is the end of a page table that holds nothing there.                 *)
(***************************************************************************)
EXTENDS Integers, FiniteSets, FiniteSetsExt

Blank == [start |-> 0, end |-> 0]
PagesOf(e) == e.start .. e.end - 1

(* Found by a search from mm_stack_ptr - 1 downwards: the entry on which   *)
(* mm_stack_ptr stands is never looked at.                                 *)
Candidates(mm_stack, ptr, pages) ==
    {k \in 0 .. ptr - 1 : mm_stack[k].end - mm_stack[k].start >= pages}
IsFound(mm_stack, ptr, pages, k) ==
    /\ k \in Candidates(mm_stack, ptr, pages)
    /\ \A j \in Candidates(mm_stack, ptr, pages) : j <= k

(* An entry of the length wanted goes, and those above it move down; the   *)
(* one mm_stack_ptr stood on leaves a copy behind.  A longer entry loses   *)
(* its first pages.                                                        *)
IsExact(mm_stack, k, pages) == mm_stack[k].end - mm_stack[k].start = pages
(* Slip: the one mm_stack_ptr stood on does not move. *)
ClosedBelow(mm_stack, ptr, k) ==
    [i \in DOMAIN mm_stack |-> IF i \in k .. ptr - 2 THEN mm_stack[i + 1] ELSE mm_stack[i]]
Closed(mm_stack, ptr, k) ==
    [i \in DOMAIN mm_stack |-> IF i \in k .. ptr - 1 THEN mm_stack[i + 1] ELSE mm_stack[i]]
(* Slip: the last pages are taken off, the first ones given out. *)
ShortenedAtTheEnd(mm_stack, k, start) ==
    [mm_stack EXCEPT ![k].end = @ - (start - mm_stack[k].start)]
Shortened(mm_stack, k, start) == [mm_stack EXCEPT ![k].start = start]

(* A range given back is merged with the first entry that ends or begins   *)
(* at it.  The loop looks at the entries 1 to mm_stack_ptr + 1.            *)
Mergeable(mm_stack, ptr, page, length) ==
    {i \in 1 .. ptr + 1 : mm_stack[i].end = page \/ mm_stack[i].start = page + length}
Merged(mm_stack, i, page, length) ==
    IF mm_stack[i].end = page THEN [mm_stack EXCEPT ![i].end = page + length]
                              ELSE [mm_stack EXCEPT ![i].start = page]

(* uvmm_push_free: the new values of the array and of the index. *)
Pushed(mm_stack, ptr, page, length) ==
    IF Mergeable(mm_stack, ptr, page, length) # {}
    THEN [mm_stack |-> Merged(mm_stack, Min(Mergeable(mm_stack, ptr, page, length)), page, length),
          ptr |-> ptr]
    ELSE [mm_stack |-> [mm_stack EXCEPT ![ptr + 1] = [start |-> page, end |-> page + length]],
          ptr |-> ptr + 1]

(* All that lies in the array up to mm_stack_ptr. *)
FreePages(mm_stack, ptr) == UNION {PagesOf(mm_stack[i]) : i \in 0 .. ptr}
=============================================================================
