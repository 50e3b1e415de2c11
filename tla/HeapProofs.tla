----------------------------- MODULE HeapProofs -----------------------------
(***************************************************************************)
(* Proofs about the kernel's heap, for a heap, pages, headers and requests *)
(* of any size: its blocks cover it exactly, and what kmalloc returns      *)
(* belongs to nobody else.  That the blocks tile the heap is inductive     *)
(* together with their types; the second statement, that the heap is an    *)
(* allocator, follows from it step by step.                                *)
(***************************************************************************)
EXTENDS Heap, TLAPS

IInv == TypeOK /\ BlocksTileTheHeap

(* What the caller gets of a block. *)
Gift(b) == [addr |-> b.addr + Header, size |-> b.size - Header]

-----------------------------------------------------------------------------
LEMMA BlockTypes ==
    ASSUME TypeOK, NEW i \in 1 .. Len(blocks)
    PROVE  blocks[i] \in Block
BY DEF TypeOK

(* A block that is split is cut into two that share nothing.               *)
LEMMA CutInTwo ==
    ASSUME NEW b \in Block, NEW size \in Nat, b.size - size > Header
    PROVE  /\ CutOff(b, size) \in Block
           /\ Rest(b, size) \in Block
           /\ Extent(CutOff(b, size)) \cap Extent(Rest(b, size)) = {}
           /\ Extent(CutOff(b, size)) \cup Extent(Rest(b, size)) = Extent(b)
<1>1. b.addr \in Nat /\ b.size \in Nat /\ b.free \in BOOLEAN /\ Header \in Nat
  BY HeaderAssumption DEF Block
<1>2. b.size - (size + Header) \in Nat BY <1>1
<1>3. CutOff(b, size).addr = b.addr + b.size - (size + Header) BY DEF CutOff
<1>4. CutOff(b, size).size = size + Header BY DEF CutOff
<1>5. CutOff(b, size) \in Block
  <2>1. b.addr + b.size - (size + Header) \in Nat BY <1>1, <1>2
  <2>2. QED BY <1>1, <2>1 DEF CutOff, Block
<1>6. Rest(b, size).addr = b.addr /\ Rest(b, size).size = b.size - (size + Header)
  BY DEF Rest, Block
<1>7. Rest(b, size) \in Block BY <1>1, <1>2 DEF Rest, Block
<1> DEFINE m == b.addr + b.size - (size + Header)
           last == b.addr + b.size - 1
<1>8. Extent(Rest(b, size)) = b.addr .. m - 1
  <2>1. Extent(Rest(b, size)) = b.addr .. b.addr + (b.size - (size + Header)) - 1
    BY <1>6 DEF Extent
  <2>2. b.addr + (b.size - (size + Header)) - 1 = m - 1 BY <1>1
  <2>3. QED BY <2>1, <2>2
<1>9. Extent(CutOff(b, size)) = m .. last
  <2>1. Extent(CutOff(b, size)) = m .. m + (size + Header) - 1 BY <1>3, <1>4 DEF Extent
  <2>2. m + (size + Header) - 1 = last BY <1>1
  <2>3. QED BY <2>1, <2>2
<1>10. Extent(b) = b.addr .. last BY DEF Extent
<1>11. m \in Int /\ last \in Int /\ b.addr <= m /\ m - 1 <= last BY <1>1, <1>2
<1> HIDE DEF m, last
<1>12. Extent(CutOff(b, size)) \cap Extent(Rest(b, size)) = {}
  BY <1>1, <1>8, <1>9, <1>11
<1>13. Extent(CutOff(b, size)) \cup Extent(Rest(b, size)) = Extent(b)
  BY <1>1, <1>8, <1>9, <1>10, <1>11
<1>14. QED BY <1>5, <1>7, <1>12, <1>13

-----------------------------------------------------------------------------
(* At first the heap is one block. *)
THEOREM InitTiles == Init => IInv
<1> SUFFICES ASSUME Init PROVE IInv OBVIOUS
<1> DEFINE b == [addr |-> 0, size |-> HEAP_INIT_SIZE, free |-> TRUE]
<1>1. b \in Block BY SizeAssumption DEF Block
<1>2. blocks = <<b>> BY DEF Init
<1>3. TypeOK
  <2> HIDE DEF b
  <2>1. blocks \in Seq(Block) BY <1>1, <1>2
  <2>2. stuck \in BOOLEAN /\ overlapped \in BOOLEAN BY DEF Init
  <2>3. QED BY <2>1, <2>2 DEF TypeOK
<1>4. Len(blocks) = 1 /\ blocks[1] = b
  <2> HIDE DEF b
  <2>1. QED BY <1>2
<1>5. Extent(b) = 0 .. HEAP_INIT_SIZE - 1 BY SizeAssumption DEF Extent
<1>6. BlocksAreApart
  <2>1. ASSUME NEW i \in 1 .. Len(blocks)
        PROVE  /\ blocks[i].addr + blocks[i].size <= HEAP_INIT_SIZE
               /\ blocks[i].size >= Header
               /\ \A j \in 1 .. Len(blocks) : i = j
    BY <1>4, SizeAssumption, HeaderAssumption
  <2>2. QED BY <2>1 DEF BlocksAreApart
<1>7. NoWordIsLost
  <2> HIDE DEF b
  <2>1. 1 \in 1 .. Len(blocks) BY <1>4
  <2>2. \A w \in 0 .. HEAP_INIT_SIZE - 1 : w \in Extent(blocks[1]) BY <1>4, <1>5
  <2>3. QED BY <2>1, <2>2 DEF NoWordIsLost
<1>8. QED BY <1>3, <1>6, <1>7 DEF IInv, BlocksTileTheHeap

(* A step that moves no block and changes no size.                         *)
LEMMA SameExtentsKeep ==
    ASSUME IInv, TypeOK', Len(blocks') = Len(blocks), ~overlapped,
           \A k \in 1 .. Len(blocks) :
               blocks'[k].addr = blocks[k].addr /\ blocks'[k].size = blocks[k].size
    PROVE  IInv'
<1>1. \A k \in 1 .. Len(blocks) : Extent(blocks'[k]) = Extent(blocks[k]) BY DEF Extent
<1>2. BlocksAreApart'
  <2>1. ASSUME NEW i \in 1 .. Len(blocks)
        PROVE  /\ blocks'[i].addr + blocks'[i].size <= HEAP_INIT_SIZE
               /\ blocks'[i].size >= Header
    BY DEF IInv, BlocksTileTheHeap, BlocksAreApart
  <2>2. ASSUME NEW i \in 1 .. Len(blocks), NEW j \in 1 .. Len(blocks), i # j
        PROVE  Extent(blocks'[i]) \cap Extent(blocks'[j]) = {}
    BY <1>1, <2>2 DEF IInv, BlocksTileTheHeap, BlocksAreApart
  <2>3. QED BY <2>1, <2>2 DEF BlocksAreApart, Extent
<1>3. NoWordIsLost'
  <2>1. ASSUME NEW w \in 0 .. HEAP_INIT_SIZE - 1
        PROVE  \E k \in 1 .. Len(blocks') : w \in Extent(blocks'[k])
    <3>1. PICK k \in 1 .. Len(blocks) : w \in Extent(blocks[k])
      BY DEF IInv, BlocksTileTheHeap, NoWordIsLost
    <3>2. QED BY <1>1, <3>1
  <2>2. QED BY <2>1 DEF NoWordIsLost, Extent
<1>4. QED BY <1>2, <1>3 DEF IInv, BlocksTileTheHeap

(* What Split makes of the sequence: the new block comes first, and block  *)
(* k of it was block k - 1.                                                *)
LEMMA SplitBlocks ==
    ASSUME IInv, ~overlapped, NEW size \in Sizes, NEW i \in 1 .. Len(blocks), Split(i, size)
    PROVE  /\ Len(blocks') = Len(blocks) + 1
           /\ blocks' \in Seq(Block)
           /\ blocks'[1] = CutOff(blocks[i], size)
           /\ blocks'[i + 1] = Rest(blocks[i], size)
           /\ \A k \in 1 .. Len(blocks) : k # i => blocks'[k + 1] = blocks[k]
<1> DEFINE b == blocks[i]
           new(k) == IF k = 1 THEN CutOff(b, size)
                     ELSE IF k = i + 1 THEN Rest(b, size) ELSE blocks[k - 1]
<1>1. b \in Block /\ size \in Nat /\ b.size - size > Header
  BY BlockTypes, SizesAssumption DEF IInv, Split
<1>2. CutOff(b, size) \in Block /\ Rest(b, size) \in Block BY <1>1, CutInTwo
<1>3. blocks' = [k \in 1 .. Len(blocks) + 1 |-> new(k)] BY DEF Split
<1>4. Len(blocks) \in Nat BY DEF IInv, TypeOK
<1>5. ASSUME NEW k \in 1 .. Len(blocks) + 1 PROVE new(k) \in Block
  <2>1. CASE k = 1 BY <1>2, <2>1
  <2>2. CASE k # 1 /\ k = i + 1 BY <1>2, <2>2
  <2>3. CASE k # 1 /\ k # i + 1
    <3>1. k - 1 \in 1 .. Len(blocks) BY <1>4, <1>5, <2>3
    <3>2. blocks[k - 1] \in Block BY <3>1, BlockTypes DEF IInv
    <3>3. QED BY <2>3, <3>2
  <2>4. QED BY <2>1, <2>2, <2>3
<1> HIDE DEF new
<1>6. blocks' \in Seq(Block) /\ Len(blocks') = Len(blocks) + 1 BY <1>3, <1>4, <1>5
<1>7. new(1) = CutOff(b, size) /\ new(i + 1) = Rest(b, size) BY <1>4 DEF new
<1>8. ASSUME NEW k \in 1 .. Len(blocks), k # i PROVE new(k + 1) = blocks[k]
  BY <1>4, <1>8 DEF new
<1>9. QED BY <1>3, <1>4, <1>6, <1>7, <1>8

LEMMA SplitKeeps ==
    ASSUME IInv, ~overlapped, NEW size \in Sizes, NEW i \in 1 .. Len(blocks), Split(i, size)
    PROVE  IInv'
<1> DEFINE b == blocks[i]
           n == Len(blocks)
<1>1. n \in Nat /\ Header \in Nat /\ Header > 0 /\ size \in Nat /\ size > 0
  BY HeaderAssumption, SizesAssumption DEF IInv, TypeOK
<1>2. b \in Block /\ b.size - size > Header BY BlockTypes DEF IInv, Split
<1>3. /\ Len(blocks') = n + 1 /\ blocks' \in Seq(Block)
      /\ blocks'[1] = CutOff(b, size) /\ blocks'[i + 1] = Rest(b, size)
      /\ \A k \in 1 .. n : k # i => blocks'[k + 1] = blocks[k]
  BY SplitBlocks
<1>4. /\ Extent(CutOff(b, size)) \cap Extent(Rest(b, size)) = {}
      /\ Extent(CutOff(b, size)) \cup Extent(Rest(b, size)) = Extent(b)
  BY <1>1, <1>2, CutInTwo
<1>5. overlapped' = (Rest(b, size).size < Header) /\ stuck' = stuck BY DEF Split
<1>6. TypeOK'
  <2>1. overlapped' \in BOOLEAN BY <1>5
  <2>2. QED BY <1>3, <1>5, <2>1 DEF TypeOK, IInv
(* Where a block comes from.                                               *)
<1> DEFINE old(k) == IF k = 1 THEN i ELSE k - 1
<1>7. ASSUME NEW k \in 1 .. n + 1
      PROVE  old(k) \in 1 .. n /\ Extent(blocks'[k]) \subseteq Extent(blocks[old(k)])
  <2>1. CASE k = 1 BY <1>3, <1>4, <2>1
  <2>2. CASE k = i + 1 BY <1>1, <1>3, <1>4, <2>2
  <2>3. CASE k # 1 /\ k # i + 1
    <3>1. k - 1 \in 1 .. n /\ k - 1 # i /\ (k - 1) + 1 = k BY <1>1, <1>7, <2>3
    <3>2. blocks'[k] = blocks[k - 1] BY <1>3, <3>1
    <3>3. QED BY <2>3, <3>1, <3>2
  <2>4. QED BY <2>1, <2>2, <2>3
<1>8. ASSUME NEW k \in 1 .. n + 1
      PROVE  /\ blocks'[k].addr + blocks'[k].size <= HEAP_INIT_SIZE
             /\ ~overlapped' => blocks'[k].size >= Header
  <2>1. b.addr + b.size <= HEAP_INIT_SIZE BY DEF IInv, BlocksTileTheHeap, BlocksAreApart
  <2>2. CASE k = 1
    <3>1. blocks'[k].addr = b.addr + b.size - (size + Header) /\ blocks'[k].size = size + Header
      BY <1>3, <2>2 DEF CutOff
    <3>2. b.addr \in Nat /\ b.size \in Nat BY <1>2 DEF Block
    <3>3. QED BY <1>1, <2>1, <3>1, <3>2, SizeAssumption
  <2>3. CASE k = i + 1
    <3>1. blocks'[k].addr = b.addr /\ blocks'[k].size = b.size - (size + Header)
      BY <1>2, <1>3, <2>3 DEF Rest, Block
    <3>2. b.addr \in Nat /\ b.size \in Nat BY <1>2 DEF Block
    <3>3. ASSUME ~overlapped' PROVE blocks'[k].size >= Header
      <4>1. ~(Rest(b, size).size < Header) BY <1>5, <3>3
      <4>2. Rest(b, size).size = b.size - (size + Header) BY <1>3, <2>3, <3>1
      <4>3. QED BY <1>1, <3>1, <3>2, <4>1, <4>2
    <3>4. QED BY <1>1, <2>1, <3>1, <3>2, <3>3, SizeAssumption
  <2>4. CASE k # 1 /\ k # i + 1
    <3>1. k - 1 \in 1 .. n /\ k - 1 # i /\ (k - 1) + 1 = k BY <1>1, <1>8, <2>4
    <3>2. blocks'[k] = blocks[k - 1] BY <1>3, <3>1
    <3>3. QED BY <3>1, <3>2 DEF IInv, BlocksTileTheHeap, BlocksAreApart
  <2>5. QED BY <2>2, <2>3, <2>4
<1>9. ASSUME NEW j \in 1 .. n + 1, NEW k \in 1 .. n + 1, j # k
      PROVE  Extent(blocks'[j]) \cap Extent(blocks'[k]) = {}
  <2>1. CASE old(j) # old(k)
    <3>1. Extent(blocks[old(j)]) \cap Extent(blocks[old(k)]) = {}
      BY <1>7, <2>1 DEF IInv, BlocksTileTheHeap, BlocksAreApart
    <3>2. QED BY <1>7, <3>1
  <2>2. CASE old(j) = old(k)
    <3>1. (j = 1 /\ k = i + 1) \/ (k = 1 /\ j = i + 1) BY <1>1, <1>9, <2>2
    <3>2. QED BY <1>3, <1>4, <3>1
  <2>3. QED BY <2>1, <2>2
<1>10. BlocksAreApart' BY <1>3, <1>8, <1>9 DEF BlocksAreApart, Extent
<1>11. ASSUME NEW w \in 0 .. HEAP_INIT_SIZE - 1
       PROVE  \E k \in 1 .. n + 1 : w \in Extent(blocks'[k])
  <2>1. PICK k \in 1 .. n : w \in Extent(blocks[k])
    BY DEF IInv, BlocksTileTheHeap, NoWordIsLost
  <2>2. CASE k # i
    <3>1. blocks'[k + 1] = blocks[k] /\ k + 1 \in 1 .. n + 1 BY <1>1, <1>3, <2>2
    <3>2. QED BY <2>1, <3>1
  <2>3. CASE k = i
    <3>1. w \in Extent(CutOff(b, size)) \/ w \in Extent(Rest(b, size)) BY <1>4, <2>1, <2>3
    <3>2. 1 \in 1 .. n + 1 /\ i + 1 \in 1 .. n + 1 BY <1>1
    <3>3. QED BY <1>3, <3>1, <3>2
  <2>4. QED BY <2>2, <2>3
<1>12. NoWordIsLost' BY <1>3, <1>11 DEF NoWordIsLost, Extent
<1>13. QED BY <1>6, <1>10, <1>12 DEF IInv, BlocksTileTheHeap

LEMMA TakeWholeKeeps ==
    ASSUME IInv, ~overlapped, NEW size \in Sizes, NEW i \in 1 .. Len(blocks), TakeWhole(i, size)
    PROVE  IInv'
<1>1. blocks' = [blocks EXCEPT ![i].free = FALSE] BY DEF TakeWhole
<1>2. \A k \in 1 .. Len(blocks) : blocks[k] \in Block BY BlockTypes DEF IInv
<1>3. TypeOK'
  <2> DEFINE r == [blocks[i] EXCEPT !.free = FALSE]
  <2>1. r \in Block BY <1>2 DEF Block
  <2>2. blocks' = [blocks EXCEPT ![i] = r] BY <1>1
  <2> HIDE DEF r
  <2>3. blocks' \in Seq(Block) BY <2>1, <2>2 DEF IInv, TypeOK
  <2>4. QED BY <2>3 DEF TakeWhole, IInv, TypeOK
<1>4. Len(blocks') = Len(blocks) BY <1>1 DEF IInv, TypeOK
<1>5. \A k \in 1 .. Len(blocks) :
          blocks'[k].addr = blocks[k].addr /\ blocks'[k].size = blocks[k].size
  BY <1>1, <1>2 DEF IInv, TypeOK, Block
<1>6. QED BY <1>3, <1>4, <1>5, SameExtentsKeep

LEMMA KfreeKeeps ==
    ASSUME IInv, ~overlapped, NEW addr \in 0 .. HEAP_INIT_SIZE, kfree(addr)
    PROVE  IInv'
<1>1. PICK i \in 1 .. Len(blocks) : blocks' = [blocks EXCEPT ![i].free = TRUE]
  BY DEF kfree
<1>2. \A k \in 1 .. Len(blocks) : blocks[k] \in Block BY BlockTypes DEF IInv
<1>3. TypeOK'
  <2> DEFINE r == [blocks[i] EXCEPT !.free = TRUE]
  <2>1. r \in Block BY <1>2 DEF Block
  <2>2. blocks' = [blocks EXCEPT ![i] = r] BY <1>1
  <2> HIDE DEF r
  <2>3. blocks' \in Seq(Block) BY <2>1, <2>2 DEF IInv, TypeOK
  <2>4. QED BY <2>3 DEF kfree, IInv, TypeOK
<1>4. Len(blocks') = Len(blocks) BY <1>1 DEF IInv, TypeOK
<1>5. \A k \in 1 .. Len(blocks) :
          blocks'[k].addr = blocks[k].addr /\ blocks'[k].size = blocks[k].size
  BY <1>1, <1>2 DEF IInv, TypeOK, Block
<1>6. QED BY <1>3, <1>4, <1>5, SameExtentsKeep

LEMMA EnlargeKeeps ==
    ASSUME IInv, NEW size \in Sizes, Enlarge(size) PROVE IInv'
<1>1. blocks' = blocks /\ overlapped' = overlapped /\ stuck' = TRUE BY DEF Enlarge
<1>2. QED
  BY <1>1 DEF IInv, TypeOK, BlocksTileTheHeap, BlocksAreApart, NoWordIsLost, Extent

(* Every step keeps the heap tiled. *)
THEOREM NextTiles == IInv /\ [Next]_vars => IInv'
<1> SUFFICES ASSUME IInv, [Next]_vars PROVE IInv' OBVIOUS
<1>1. CASE UNCHANGED vars
  BY <1>1 DEF vars, IInv, TypeOK, BlocksTileTheHeap, BlocksAreApart, NoWordIsLost, Extent
<1>2. CASE Next
  <2>1. ~overlapped BY <1>2 DEF Next
  <2>2. ASSUME NEW size \in Sizes, kmalloc(size) PROVE IInv'
    <3>1. CASE Enlarge(size) BY <3>1, EnlargeKeeps
    <3>2. ASSUME NEW i \in 1 .. Len(blocks), Split(i, size) PROVE IInv'
      BY <2>1, <3>2, SplitKeeps
    <3>3. ASSUME NEW i \in 1 .. Len(blocks), TakeWhole(i, size) PROVE IInv'
      BY <2>1, <3>3, TakeWholeKeeps
    <3>4. QED BY <2>2, <3>1, <3>2, <3>3 DEF kmalloc
  <2>3. ASSUME NEW addr \in 0 .. HEAP_INIT_SIZE, kfree(addr) PROVE IInv'
    BY <2>1, <2>3, KfreeKeeps
  <2>4. QED BY <1>2, <2>2, <2>3 DEF Next
<1>3. QED BY <1>1, <1>2

(* The blocks of the kernel's heap always cover it exactly, without        *)
(* overlapping, whatever is allocated and freed (vheap.c:61).              *)
THEOREM HeapIsTiled == Spec => []BlocksTileTheHeap
<1>1. Init => IInv BY InitTiles
<1>2. IInv /\ [Next]_vars => IInv' BY NextTiles
<1>3. IInv => BlocksTileTheHeap BY DEF IInv
<1>4. QED BY <1>1, <1>2, <1>3, PTL DEF Spec

-----------------------------------------------------------------------------
(* The heap as an allocator.  A gift lies in its block, and in the heap.   *)
LEMMA GiftsLieInBlocks ==
    ASSUME NEW b \in Block, b.addr + b.size <= HEAP_INIT_SIZE
    PROVE  /\ Promise!WordsOf(Gift(b)) \subseteq Extent(b)
           /\ Promise!WordsOf(Gift(b)) \subseteq 0 .. HEAP_INIT_SIZE - 1
<1>1. b.addr \in Nat /\ b.size \in Nat /\ Header \in Nat /\ HEAP_INIT_SIZE \in Nat
  BY HeaderAssumption, SizeAssumption DEF Block
<1>2. Gift(b).addr = b.addr + Header /\ Gift(b).size = b.size - Header BY DEF Gift
<1>3. Promise!WordsOf(Gift(b)) = b.addr + Header .. b.addr + Header + (b.size - Header) - 1
  BY <1>2 DEF Promise!WordsOf
<1> DEFINE from == b.addr + Header
           last == b.addr + b.size - 1
<1>4. b.addr + Header + (b.size - Header) - 1 = last BY <1>1
<1>5. Promise!WordsOf(Gift(b)) = from .. last BY <1>3, <1>4
<1>6. Extent(b) = b.addr .. last BY DEF Extent
<1>7. /\ from \in Int /\ last \in Int
      /\ 0 <= b.addr /\ b.addr <= from /\ last <= HEAP_INIT_SIZE - 1
  BY <1>1
<1> HIDE DEF from, last
<1>8. from .. last \subseteq b.addr .. last BY <1>1, <1>7
<1>9. from .. last \subseteq 0 .. HEAP_INIT_SIZE - 1 BY <1>1, <1>7
<1>10. QED BY <1>5, <1>6, <1>8, <1>9

(* What is given: the gifts of the blocks that are not free.               *)
LEMMA GivenAreGifts ==
    ASSUME TypeOK
    PROVE  \A r : r \in given <=> \E k \in 1 .. Len(blocks) : ~blocks[k].free /\ r = Gift(blocks[k])
BY DEF given, Gift

LEMMA GivenAfter ==
    ASSUME TypeOK'
    PROVE  \A r : r \in given' <=>
               \E k \in 1 .. Len(blocks') : ~blocks'[k].free /\ r = Gift(blocks'[k])
BY DEF given, Gift

(* Words of a free block are nobody's. *)
LEMMA FreeWordsAreNobodys ==
    ASSUME IInv, NEW i \in 1 .. Len(blocks), blocks[i].free,
           NEW r, Promise!WordsOf(r) \subseteq Extent(blocks[i])
    PROVE  \A s \in given : Promise!WordsOf(r) \cap Promise!WordsOf(s) = {}
<1> SUFFICES ASSUME NEW s \in given PROVE Promise!WordsOf(r) \cap Promise!WordsOf(s) = {}
  OBVIOUS
<1>1. PICK k \in 1 .. Len(blocks) : ~blocks[k].free /\ s = Gift(blocks[k])
  BY GivenAreGifts DEF IInv
<1>2. k # i BY <1>1
<1>3. blocks[k] \in Block BY BlockTypes DEF IInv
<1>4. blocks[k].addr + blocks[k].size <= HEAP_INIT_SIZE
  BY DEF IInv, BlocksTileTheHeap, BlocksAreApart
<1>5. Promise!WordsOf(s) \subseteq Extent(blocks[k]) BY <1>1, <1>3, <1>4, GiftsLieInBlocks
<1>6. Extent(blocks[i]) \cap Extent(blocks[k]) = {}
  BY <1>2 DEF IInv, BlocksTileTheHeap, BlocksAreApart
<1>7. QED BY <1>5, <1>6

(* A range of a size that was asked for, in words of a free block: a step  *)
(* of the promise.                                                         *)
LEMMA GivingAllocates ==
    ASSUME IInv, NEW size \in Sizes, NEW addr \in Nat, NEW i \in 1 .. Len(blocks), blocks[i].free,
           addr + size <= HEAP_INIT_SIZE,
           addr .. addr + size - 1 \subseteq Extent(blocks[i]),
           given' = given \cup {[addr |-> addr, size |-> size]}
    PROVE  Promise!Allocate
<1> DEFINE r == [addr |-> addr, size |-> size]
<1>1. size \in Nat /\ size > 0 /\ HEAP_INIT_SIZE \in Nat BY SizesAssumption, SizeAssumption
<1>2. Promise!WordsOf(r) = addr .. addr + size - 1 BY DEF Promise!WordsOf
<1>3. addr \in 0 .. HEAP_INIT_SIZE - 1 BY <1>1
<1>4. Promise!WordsOf(r) \subseteq 0 .. HEAP_INIT_SIZE - 1 BY <1>1, <1>2
<1>5. \A s \in given : Promise!WordsOf(r) \cap Promise!WordsOf(s) = {}
  <2>1. Promise!WordsOf(r) \subseteq Extent(blocks[i]) BY <1>2
  <2> HIDE DEF r
  <2>2. QED BY <2>1, FreeWordsAreNobodys
<1>6. QED BY <1>3, <1>4, <1>5 DEF Promise!Allocate

LEMMA SplitAllocates ==
    ASSUME IInv, IInv', ~overlapped, NEW size \in Sizes, NEW i \in 1 .. Len(blocks),
           IsFirstFit(i, size), Split(i, size)
    PROVE  Promise!Allocate
<1> DEFINE b == blocks[i]
           addr == b.addr + b.size - size
<1>1. b \in Block /\ b.free /\ b.size - size > Header
  BY BlockTypes DEF IInv, Split, IsFirstFit, Fits
<1>2. /\ b.addr \in Nat /\ b.size \in Nat /\ Header \in Nat /\ HEAP_INIT_SIZE \in Nat
      /\ size \in Nat /\ size > 0 /\ Len(blocks) \in Nat
  BY <1>1, HeaderAssumption, SizeAssumption, SizesAssumption DEF Block, IInv, TypeOK
<1>3. b.addr + b.size <= HEAP_INIT_SIZE BY DEF IInv, BlocksTileTheHeap, BlocksAreApart
<1>4. Gift(CutOff(b, size)) = [addr |-> addr, size |-> size]
  <2>1. CutOff(b, size).addr + Header = addr BY <1>2 DEF CutOff
  <2>2. CutOff(b, size).size - Header = size BY <1>2 DEF CutOff
  <2>3. QED BY <2>1, <2>2 DEF Gift
<1>5. /\ Len(blocks') = Len(blocks) + 1
      /\ blocks'[1] = CutOff(b, size) /\ blocks'[i + 1] = Rest(b, size)
      /\ \A k \in 1 .. Len(blocks) : k # i => blocks'[k + 1] = blocks[k]
  BY SplitBlocks
<1>6. ~CutOff(b, size).free /\ Rest(b, size).free
  <2>1. CutOff(b, size).free = FALSE BY DEF CutOff
  <2>2. Rest(b, size).free = b.free BY <1>1 DEF Rest, Block
  <2>3. QED BY <1>1, <2>1, <2>2
<1>7. ASSUME NEW r PROVE r \in given' <=> r \in given \/ r = Gift(CutOff(b, size))
  <2>1. ASSUME r \in given' PROVE r \in given \/ r = Gift(CutOff(b, size))
    <3>1. PICK k \in 1 .. Len(blocks') : ~blocks'[k].free /\ r = Gift(blocks'[k])
      BY <2>1, GivenAfter DEF IInv
    <3>2. CASE k = 1 BY <1>5, <3>1, <3>2
    <3>3. CASE k # 1
      <4>1. k - 1 \in 1 .. Len(blocks) /\ (k - 1) + 1 = k BY <1>2, <1>5, <3>1, <3>3
      <4>2. k # i + 1 BY <1>5, <1>6, <3>1
      <4>3. k - 1 # i BY <4>1, <4>2
      <4>4. blocks'[k] = blocks[k - 1] BY <1>5, <4>1, <4>3
      <4>5. r \in given BY <3>1, <4>1, <4>4, GivenAreGifts DEF IInv
      <4>6. QED BY <4>5
    <3>4. QED BY <3>2, <3>3
  <2>2. ASSUME r \in given PROVE r \in given'
    <3>1. PICK k \in 1 .. Len(blocks) : ~blocks[k].free /\ r = Gift(blocks[k])
      BY <2>2, GivenAreGifts DEF IInv
    <3>2. k # i BY <1>1, <3>1
    <3>3. blocks'[k + 1] = blocks[k] /\ k + 1 \in 1 .. Len(blocks') BY <1>2, <1>5, <3>2
    <3>4. QED BY <3>1, <3>3, GivenAfter DEF IInv
  <2>3. ASSUME r = Gift(CutOff(b, size)) PROVE r \in given'
    <3>1. 1 \in 1 .. Len(blocks') BY <1>2, <1>5
    <3>2. QED BY <1>5, <1>6, <2>3, <3>1, GivenAfter DEF IInv
  <2>4. QED BY <2>1, <2>2, <2>3
<1>8. given' = given \cup {[addr |-> addr, size |-> size]} BY <1>4, <1>7
<1>9. addr \in Nat /\ addr + size <= HEAP_INIT_SIZE BY <1>1, <1>2, <1>3
<1>10. addr .. addr + size - 1 \subseteq Extent(b) BY <1>1, <1>2 DEF Extent
<1> HIDE DEF addr
<1>11. QED BY <1>1, <1>8, <1>9, <1>10, GivingAllocates

LEMMA TakeWholeAllocates ==
    ASSUME IInv, IInv', ~overlapped, NEW size \in Sizes, NEW i \in 1 .. Len(blocks),
           IsFirstFit(i, size), TakeWhole(i, size)
    PROVE  Promise!Allocate
<1> DEFINE b == blocks[i]
           addr == b.addr + Header
<1>1. b \in Block /\ b.free /\ b.size - Header >= size /\ b.size - size <= Header
  BY BlockTypes DEF IInv, TakeWhole, IsFirstFit, Fits
<1>2. /\ b.addr \in Nat /\ b.size \in Nat /\ Header \in Nat /\ HEAP_INIT_SIZE \in Nat
      /\ size \in Nat /\ size > 0
  BY <1>1, HeaderAssumption, SizeAssumption, SizesAssumption DEF Block
<1>3. b.size - Header = size BY <1>1, <1>2
<1>4. b.addr + b.size <= HEAP_INIT_SIZE BY DEF IInv, BlocksTileTheHeap, BlocksAreApart
<1>5. Gift(b) = [addr |-> addr, size |-> size] BY <1>3 DEF Gift
<1>6. blocks' = [blocks EXCEPT ![i].free = FALSE] BY DEF TakeWhole
<1>7. Len(blocks') = Len(blocks) BY <1>6 DEF IInv, TypeOK
<1>8. \A k \in 1 .. Len(blocks) : k # i => blocks'[k] = blocks[k] BY <1>6 DEF IInv, TypeOK
<1>9. ~blocks'[i].free /\ Gift(blocks'[i]) = Gift(b)
  BY <1>1, <1>6 DEF IInv, TypeOK, Block, Gift
<1>10. ASSUME NEW r PROVE r \in given' <=> r \in given \/ r = Gift(b)
  <2>1. r \in given' <=> \E k \in 1 .. Len(blocks) : ~blocks'[k].free /\ r = Gift(blocks'[k])
    BY <1>7, GivenAfter DEF IInv
  <2>2. r \in given <=> \E k \in 1 .. Len(blocks) : ~blocks[k].free /\ r = Gift(blocks[k])
    BY GivenAreGifts DEF IInv
  <2>3. QED BY <1>1, <1>8, <1>9, <2>1, <2>2
<1>11. given' = given \cup {[addr |-> addr, size |-> size]} BY <1>5, <1>10
<1>12. addr \in Nat /\ addr + size <= HEAP_INIT_SIZE BY <1>2, <1>3, <1>4
<1>13. addr .. addr + size - 1 \subseteq Extent(b) BY <1>2, <1>3 DEF Extent
<1> HIDE DEF addr
<1>14. QED BY <1>1, <1>11, <1>12, <1>13, GivingAllocates

LEMMA KfreeReleases ==
    ASSUME IInv, IInv', ~overlapped, NEW addr \in 0 .. HEAP_INIT_SIZE, kfree(addr)
    PROVE  Promise!Release
<1>1. PICK i \in 1 .. Len(blocks) : ~blocks[i].free /\ blocks' = [blocks EXCEPT ![i].free = TRUE]
  BY DEF kfree
<1> DEFINE b == blocks[i]
<1>2. b \in Block BY BlockTypes DEF IInv
<1>3. Len(blocks') = Len(blocks) BY <1>1 DEF IInv, TypeOK
<1>4. \A k \in 1 .. Len(blocks) : k # i => blocks'[k] = blocks[k] BY <1>1 DEF IInv, TypeOK
<1>5. blocks'[i].free BY <1>1, <1>2 DEF IInv, TypeOK, Block
<1>6. Gift(b) \in given BY <1>1, GivenAreGifts DEF IInv
(* No two blocks begin at the same word. *)
<1>7. ASSUME NEW k \in 1 .. Len(blocks), k # i PROVE Gift(blocks[k]) # Gift(b)
  <2>1. blocks[k] \in Block BY BlockTypes DEF IInv
  <2>2. blocks[k].size >= Header /\ b.size >= Header
    BY DEF IInv, BlocksTileTheHeap, BlocksAreApart
  <2>3. /\ blocks[k].addr \in Nat /\ blocks[k].size \in Nat /\ b.addr \in Nat /\ b.size \in Nat
        /\ Header \in Nat /\ Header > 0
    BY <1>2, <2>1, HeaderAssumption DEF Block
  <2>4. blocks[k].addr \in Extent(blocks[k]) /\ b.addr \in Extent(b) BY <2>2, <2>3 DEF Extent
  <2>5. Extent(blocks[k]) \cap Extent(b) = {}
    BY <1>7 DEF IInv, BlocksTileTheHeap, BlocksAreApart
  <2>6. blocks[k].addr # b.addr BY <2>4, <2>5
  <2>7. blocks[k].addr + Header # b.addr + Header BY <2>3, <2>6
  <2>8. QED BY <2>7 DEF Gift
<1>8. ASSUME NEW r PROVE r \in given' <=> r \in given /\ r # Gift(b)
  <2>1. r \in given' <=> \E k \in 1 .. Len(blocks) : ~blocks'[k].free /\ r = Gift(blocks'[k])
    BY <1>3, GivenAfter DEF IInv
  <2>2. r \in given <=> \E k \in 1 .. Len(blocks) : ~blocks[k].free /\ r = Gift(blocks[k])
    BY GivenAreGifts DEF IInv
  <2>3. QED BY <1>4, <1>5, <1>7, <2>1, <2>2
<1>9. given' = given \ {Gift(b)} BY <1>8
<1>10. QED BY <1>6, <1>9 DEF Promise!Release

(* At first nothing is given. *)
LEMMA NothingGiven == Init => Promise!Init
<1> SUFFICES ASSUME Init PROVE given = {} BY DEF Promise!Init
<1>1. Len(blocks) = 1 /\ blocks[1].free BY DEF Init
<1>2. QED BY <1>1 DEF given

(* Every step of the heap is one of the allocator, or none. *)
LEMMA HeapSteps ==
    IInv /\ IInv' /\ [Next]_vars => [Promise!Allocate \/ Promise!Release]_(Promise!vars)
<1> SUFFICES ASSUME IInv, IInv', [Next]_vars
             PROVE  Promise!Allocate \/ Promise!Release \/ given' = given
  BY DEF Promise!vars
<1>1. CASE UNCHANGED vars BY <1>1 DEF vars, given
<1>2. CASE Next
  <2>1. ~overlapped BY <1>2 DEF Next
  <2>2. ASSUME NEW size \in Sizes, kmalloc(size) PROVE Promise!Allocate \/ given' = given
    <3>1. CASE Enlarge(size)
      <4>1. blocks' = blocks BY <3>1 DEF Enlarge
      <4>2. QED BY <4>1 DEF given
    <3>2. ASSUME NEW i \in 1 .. Len(blocks), IsFirstFit(i, size), Split(i, size)
          PROVE  Promise!Allocate
      BY <2>1, <3>2, SplitAllocates
    <3>3. ASSUME NEW i \in 1 .. Len(blocks), IsFirstFit(i, size), TakeWhole(i, size)
          PROVE  Promise!Allocate
      BY <2>1, <3>3, TakeWholeAllocates
    <3>4. QED BY <2>2, <3>1, <3>2, <3>3 DEF kmalloc
  <2>3. ASSUME NEW addr \in 0 .. HEAP_INIT_SIZE, kfree(addr) PROVE Promise!Release
    BY <2>1, <2>3, KfreeReleases
  <2>4. QED BY <1>2, <2>2, <2>3 DEF Next
<1>3. QED BY <1>1, <1>2

(* What kmalloc returns is memory that nobody has, as much as was asked    *)
(* for, until kfree gives it back: the heap implements the allocator       *)
(* (vheap.c:47).                                                           *)
THEOREM HeapImplementsAllocator == Spec => ImplementsAllocator
<1>1. Init => IInv BY InitTiles
<1>2. IInv /\ [Next]_vars => IInv' BY NextTiles
<1>3. Init => Promise!Init BY NothingGiven
<1>4. IInv /\ IInv' /\ [Next]_vars => [Promise!Allocate \/ Promise!Release]_(Promise!vars)
  BY HeapSteps
<1>5. QED BY <1>1, <1>2, <1>3, <1>4, PTL DEF Spec, ImplementsAllocator, Promise!Spec
=============================================================================
