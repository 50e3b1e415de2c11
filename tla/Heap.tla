-------------------------------- MODULE Heap --------------------------------
(***************************************************************************)
(* The kernel's heap, src/src/kernel/mm/vheap.c.  Addresses and sizes are  *)
(* counted in words.  The chain that starts at `first' is the sequence     *)
(* blocks; a block's size includes its header.  Every operation holds      *)
(* heap_lock from beginning to end, so it is one step.                     *)
(***************************************************************************)
EXTENDS Integers, Sequences

CONSTANTS
    HEAP_INIT_SIZE,     \* words of the heap
    PAGE_SIZE,          \* words of a page
    Header,             \* words of struct heap_block
    Sizes               \* the sizes that are asked for

ASSUME HeaderAssumption == Header \in Nat \ {0}
ASSUME SizeAssumption == HEAP_INIT_SIZE \in Nat /\ HEAP_INIT_SIZE > Header
ASSUME SizesAssumption == Sizes \subseteq Nat \ {0}

VARIABLES
    blocks,
    stuck,          \* vheap_enlarge is in its endless loop, with heap_lock taken
    overlapped      \* history: a header was laid over another one

vars == <<blocks, stuck, overlapped>>

Block == [addr : Nat, size : Nat, free : BOOLEAN]

Init ==
    /\ blocks = <<[addr |-> 0, size |-> HEAP_INIT_SIZE, free |-> TRUE]>>
    /\ stuck = FALSE
    /\ overlapped = FALSE

Fits(b, size) == b.free /\ b.size - Header >= size
IsFirstFit(i, size) ==
    /\ i \in 1 .. Len(blocks)
    /\ Fits(blocks[i], size)
    /\ \A j \in 1 .. i - 1 : ~Fits(blocks[j], size)

(* The new block is cut from the end of the one found.  Slip: from its     *)
(* beginning, behind the header.                                           *)
CutFromTheMiddle(b, size) == [addr |-> b.addr + Header, size |-> size + Header, free |-> FALSE]
CutOff(b, size) ==
    [addr |-> b.addr + b.size - (size + Header), size |-> size + Header, free |-> FALSE]
(* Slip: the header of the new block is not counted. *)
RestWithHeader(b, size) == [b EXCEPT !.size = @ - size]
Rest(b, size) == [b EXCEPT !.size = @ - (size + Header)]

(* What is left may be shorter than a header: the new one then lies over   *)
(* the old one.  Nothing is promised from there on.                        *)
Split(i, size) ==
    LET b == blocks[i] IN
    /\ b.size - size > Header
    /\ blocks' = [k \in 1 .. Len(blocks) + 1 |->
                    IF k = 1 THEN CutOff(b, size)
                    ELSE IF k = i + 1 THEN Rest(b, size) ELSE blocks[k - 1]]
    /\ overlapped' = (Rest(b, size).size < Header)
    /\ UNCHANGED stuck

TakeWhole(i, size) ==
    /\ blocks[i].size - size <= Header
    /\ blocks' = [blocks EXCEPT ![i].free = FALSE]
    /\ UNCHANGED <<stuck, overlapped>>

(* A size of a page or more, or one that fits nowhere, ends in             *)
(* vheap_enlarge, which does not return.                                   *)
Enlarge(size) ==
    /\ \/ size >= PAGE_SIZE - Header
       \/ \A i \in 1 .. Len(blocks) : ~Fits(blocks[i], size)
    /\ stuck' = TRUE
    /\ UNCHANGED <<blocks, overlapped>>

kmalloc(size) ==
    \/ Enlarge(size)
    \/ /\ size < PAGE_SIZE - Header
       /\ \E i \in 1 .. Len(blocks) :
             /\ IsFirstFit(i, size)
             /\ Split(i, size) \/ TakeWhole(i, size)

(* Pointers that are not in the chain, or free already, are ignored. *)
kfree(addr) ==
    \E i \in 1 .. Len(blocks) :
        /\ blocks[i].addr = addr
        /\ ~blocks[i].free
        /\ blocks' = [blocks EXCEPT ![i].free = TRUE]
        /\ UNCHANGED <<stuck, overlapped>>

Next ==
    /\ ~stuck
    /\ ~overlapped
    /\ \/ \E size \in Sizes : kmalloc(size)
       \/ \E addr \in 0 .. HEAP_INIT_SIZE : kfree(addr)

Spec == Init /\ [][Next]_vars

-----------------------------------------------------------------------------
TypeOK ==
    /\ blocks \in Seq(Block)
    /\ stuck \in BOOLEAN
    /\ overlapped \in BOOLEAN

Extent(b) == b.addr .. b.addr + b.size - 1

(* Each block has room for its header and lies in the heap, and it shares  *)
(* no word with another one.                                               *)
BlocksAreApart ==
    \A i \in 1 .. Len(blocks) :
        /\ blocks[i].addr + blocks[i].size <= HEAP_INIT_SIZE
        /\ ~overlapped => blocks[i].size >= Header
        /\ \A j \in 1 .. Len(blocks) :
              i # j => Extent(blocks[i]) \cap Extent(blocks[j]) = {}

(* No word of the heap is lost either: it belongs to a block. *)
NoWordIsLost ==
    \A w \in 0 .. HEAP_INIT_SIZE - 1 : \E i \in 1 .. Len(blocks) : w \in Extent(blocks[i])

(* However the blocks are split, freed and used again, they cover the heap *)
(* exactly, each with room for its header: until a rest shorter than a     *)
(* header is split off (vheap.c:61).                                       *)
BlocksTileTheHeap == BlocksAreApart /\ NoWordIsLost

(* A caller gets the words behind the header.                              *)
given == {[addr |-> blocks[i].addr + Header, size |-> blocks[i].size - Header] :
             i \in {j \in 1 .. Len(blocks) : ~blocks[j].free}}
Promise == INSTANCE Allocator WITH Word <- 0 .. HEAP_INIT_SIZE - 1

(* The heap is an allocator: kmalloc returns memory that nobody has. *)
ImplementsAllocator == Promise!Spec
=============================================================================
