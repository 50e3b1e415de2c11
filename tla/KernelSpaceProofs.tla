-------------------------- MODULE KernelSpaceProofs --------------------------
(* Machine-checked proofs about KernelSpace: for any number of processors, *)
(* any memory map without overlaps and any sizes of the two stacks, pages  *)
(* are shared, and stale in a TLB when they are free, only after the races *)
(* the two properties name.                                                *)
EXTENDS KernelSpace, WellFoundedInduction, TLAPS

-----------------------------------------------------------------------------
(* The inductive invariant: what the two locks hold still, that no page is *)
(* in two places, and who has forgotten which page.  Of a state after a    *)
(* race only the first part is left.                                       *)

PageRange == [start : Int, end : Int]
TypeOK ==
    /\ mm_stack \in [0 .. MaxEntry -> PageRange]
    /\ mm_stack_ptr \in 0 .. MaxEntry
    /\ vmm_lock \in Cpu \cup {None}
    /\ found \in [k : Int, exact : BOOLEAN, to_ret : Int, pages : Nat]
    /\ used \in SUBSET PageRange
    /\ invalid_stack \in Seq(ToInvalid)
    /\ invld_lock \in Cpu \cup {None}
    /\ to_invalid_cur \in 0 .. Len(invalid_stack)
    /\ all_cores_mask \in SUBSET Cpu
    /\ tlb \in [Cpu -> SUBSET Int]
    /\ raced \in BOOLEAN /\ early \in BOOLEAN

(* What a search has found stays below mm_stack_ptr, which only the owner  *)
(* of vmm_lock moves down, ...                                             *)
FoundIsThere ==
    /\ vmm_lock # None => found.k \in 0 .. mm_stack_ptr - 1
    /\ invld_lock # None /\ ~raced => mm_stack_ptr + to_invalid_cur < MaxEntry
(* ... and without a race it stays as it was.                              *)
FoundIsAsItWas ==
    vmm_lock # None =>
        /\ mm_stack[found.k].start = found.to_ret
        /\ mm_stack[found.k].end - found.to_ret >= found.pages
        /\ found.exact <=> mm_stack[found.k].end - found.to_ret = found.pages

Live == 0 .. mm_stack_ptr
Pending == DOMAIN invalid_stack
(* Of the ranges that are free, in use, and waiting no two share a page.   *)
NoneShared ==
    /\ DisjointRanges
    /\ \A r, s \in used : r # s => PagesOf(r) \cap PagesOf(s) = {}
    /\ \A m, n \in Pending : m # n =>
           PagesToForget(invalid_stack[m]) \cap PagesToForget(invalid_stack[n]) = {}
    /\ \A i \in Live, r \in used : PagesOf(mm_stack[i]) \cap PagesOf(r) = {}
    /\ \A i \in Live, n \in Pending :
           PagesOf(mm_stack[i]) \cap PagesToForget(invalid_stack[n]) = {}
    /\ \A r \in used, n \in Pending : PagesOf(r) \cap PagesToForget(invalid_stack[n]) = {}

(* Who has marked an entry has forgotten its page, and all have forgotten  *)
(* what is free.                                                           *)
Forgotten ==
    /\ \A c \in Cpu, n \in Pending : c \in invalid_stack[n].cores_invalidated =>
           tlb[c] \cap PagesToForget(invalid_stack[n]) = {}
    /\ early \/ \A c \in Cpu, i \in Live : tlb[c] \cap PagesOf(mm_stack[i]) = {}

IInv == TypeOK /\ FoundIsThere /\ (raced \/ (FoundIsAsItWas /\ NoneShared /\ Forgotten))

-----------------------------------------------------------------------------
(* What the operators on the free ranges do. *)

(* The first entry a range is merged with is one of them. *)
LEMMA MinIsIn ==
    ASSUME NEW S \in SUBSET Nat, S # {}
    PROVE  Min(S) \in S
<1> DEFINE less == OpToRel(<, Nat)
<1>1. \E x \in S : \A y \in S : ~ (<<y, x>> \in less)
  BY NatLessThanWellFounded, WFMin, Zenon
<1>2. \A x, y \in Nat : y < x => <<y, x>> \in less
  BY Zenon DEF OpToRel
<1> HIDE DEF less
<1>3. PICK x \in S : \A y \in S : ~ (<<y, x>> \in less)
  BY <1>1
<1>4. \A y \in S : ~ (y < x)
  BY <1>2, <1>3, Zenon
<1>5. \A y \in S : x <= y
  BY <1>4
<1>6. QED
  BY <1>5, Zenon DEF Min

(* Only single pages wait to be forgotten. *)
LEMMA APageToForget ==
    ASSUME NEW e \in ToInvalid
    PROVE  PagesToForget(e) = {e.virt}
<1>1. e.length = 1 /\ e.virt \in Int
  BY DEF ToInvalid
<1>2. \A x : x \in e.virt .. e.virt + 1 - 1 <=> x = e.virt
  BY <1>1
<1>3. QED
  BY <1>1, <1>2 DEF PagesToForget, PagesOf

(* What of the free ranges s up to entry p may change when a page is given *)
(* back: one entry grows by that page, and p by one at most.               *)
AddsThePage(s, p, virt, q) ==
    /\ q.mm_stack \in [0 .. MaxEntry -> PageRange]
    /\ q.ptr \in p .. p + 1
    /\ \E t \in 0 .. MaxEntry : \A i \in 0 .. q.ptr :
          IF i = t THEN PagesOf(q.mm_stack[i]) \subseteq
                            {virt} \cup (IF i <= p THEN PagesOf(s[i]) ELSE {})
                   ELSE i <= p /\ q.mm_stack[i] = s[i]

(* uvmm_push_free makes at most the page given back free, and that at one  *)
(* entry.  (The loop looks one entry too far: a page merged with the entry *)
(* that is behind the last is lost.)                                       *)
LEMMA PushedAddsThePage ==
    ASSUME NEW s \in [0 .. MaxEntry -> PageRange], NEW p \in 0 .. MaxEntry - 1, NEW virt \in Int,
           NEW q, q = Pushed(s, p, virt, 1)
    PROVE  AddsThePage(s, p, virt, q)
<1> USE DEF AddsThePage
<1> DEFINE M == Mergeable(s, p, virt, 1)
<1>a. MaxEntry \in Nat /\ p \in Nat /\ p + 1 \in 0 .. MaxEntry
  BY KernelSpaceAssumption
<1>1. CASE M # {}
  <2> DEFINE m == Min(M)
             r == Merged(s, m, virt, 1)
  <2>1. M \in SUBSET Nat
    BY <1>a DEF Mergeable
  <2>2. /\ m \in 1 .. p + 1
        /\ s[m].end = virt \/ s[m].start = virt + 1
    BY <1>1, <2>1, MinIsIn DEF Mergeable
  <2>3. q = [mm_stack |-> r, ptr |-> p]
    BY <1>1 DEF Pushed
  <2> HIDE DEF M, m
  <2>4. /\ r \in [0 .. MaxEntry -> PageRange]
        /\ \A i \in 0 .. MaxEntry : i # m => r[i] = s[i]
        /\ \/ r[m] = [start |-> s[m].start, end |-> virt + 1] /\ s[m].end = virt
           \/ r[m] = [start |-> virt, end |-> s[m].end] /\ s[m].start = virt + 1
    <3>1. m \in 0 .. MaxEntry
      BY <2>2, <1>a
    <3>2. s[m] \in PageRange /\ s[m] = [start |-> s[m].start, end |-> s[m].end]
      BY <3>1 DEF PageRange
    <3>3. CASE s[m].end = virt
      <4>1. r = [s EXCEPT ![m] = [start |-> s[m].start, end |-> virt + 1]]
        <5>1. [s[m] EXCEPT !.end = virt + 1] = [start |-> s[m].start, end |-> virt + 1]
          BY <3>2
        <5>2. QED
          BY <3>3, <5>1, Zenon DEF Merged
      <4> HIDE DEF r
      <4>2. QED
        BY <3>1, <3>2, <3>3, <4>1 DEF PageRange
    <3>4. CASE s[m].end # virt
      <4>1. r = [s EXCEPT ![m] = [start |-> virt, end |-> s[m].end]]
        <5>1. [s[m] EXCEPT !.start = virt] = [start |-> virt, end |-> s[m].end]
          BY <3>2
        <5>2. QED
          BY <3>4, <5>1, Zenon DEF Merged
      <4> HIDE DEF r
      <4>2. QED
        BY <2>2, <3>1, <3>2, <3>4, <4>1 DEF PageRange
    <3>5. QED
      BY <3>3, <3>4
  <2>5. s[m].start \in Int /\ s[m].end \in Int
    BY <1>a, <2>2 DEF PageRange
  <2>6. PagesOf(r[m]) \subseteq {virt} \cup PagesOf(s[m])
    <3> HIDE DEF r
    <3>1. QED
      BY <2>4, <2>5 DEF PagesOf
  <2> HIDE DEF r
  <2>7. \A i \in 0 .. p : IF i = m THEN PagesOf(r[i]) \subseteq
                                           {virt} \cup (IF i <= p THEN PagesOf(s[i]) ELSE {})
                                   ELSE i <= p /\ r[i] = s[i]
    <3>1. TAKE i \in 0 .. p
    <3>2. i <= p /\ i \in 0 .. MaxEntry
      BY <1>a
    <3>3. CASE i = m
      BY <2>6, <3>2, <3>3
    <3>4. CASE i # m
      BY <2>4, <3>2, <3>4
    <3>5. QED
      BY <3>3, <3>4
  <2>8. m \in 0 .. MaxEntry
    BY <1>a, <2>2
  <2>9. q.mm_stack = r /\ q.ptr = p /\ p \in p .. p + 1
    BY <1>a, <2>3
  <2>10. QED
    BY <2>4, <2>7, <2>8, <2>9
<1>2. CASE M = {}
  <2> DEFINE e == [start |-> virt, end |-> virt + 1]
             r == [s EXCEPT ![p + 1] = e]
  <2>1. q = [mm_stack |-> r, ptr |-> p + 1]
    BY <1>2 DEF Pushed
  <2>2. e \in PageRange /\ PagesOf(e) \subseteq {virt}
    BY DEF PageRange, PagesOf
  <2> HIDE DEF e
  <2>3. /\ r \in [0 .. MaxEntry -> PageRange] /\ r[p + 1] = e
        /\ \A i \in 0 .. MaxEntry : i # p + 1 => r[i] = s[i]
    BY <1>a, <2>2
  <2> HIDE DEF r
  <2>4. \A i \in 0 .. p + 1 : IF i = p + 1 THEN PagesOf(r[i]) \subseteq
                                           {virt} \cup (IF i <= p THEN PagesOf(s[i]) ELSE {})
                                   ELSE i <= p /\ r[i] = s[i]
    BY <1>a, <2>2, <2>3
  <2>5. q.mm_stack = r /\ q.ptr = p + 1 /\ p + 1 \in p .. p + 1
    BY <1>a, <2>1
  <2>6. QED
    BY <1>a, <2>3, <2>4, <2>5
<1>3. QED
  BY <1>1, <1>2

(* The entries that are left when one is taken out are the others. *)
LEMMA ClosedKeepsTheOthers ==
    ASSUME NEW s \in [0 .. MaxEntry -> PageRange], NEW p \in 0 .. MaxEntry, NEW k \in 0 .. p - 1
    PROVE  LET r == Closed(s, p, k)
               from(i) == IF i < k THEN i ELSE i + 1 IN
           /\ r \in [0 .. MaxEntry -> PageRange]
           /\ \A i \in 0 .. p - 1 : from(i) \in (0 .. p) \ {k} /\ r[i] = s[from(i)]
<1> DEFINE r == Closed(s, p, k)
<1>1. MaxEntry \in Nat
  BY KernelSpaceAssumption
<1>2. \A i \in 0 .. MaxEntry : r[i] = IF k <= i /\ i <= p - 1 THEN s[i + 1] ELSE s[i]
  BY <1>1 DEF Closed
<1>3. DOMAIN r = 0 .. MaxEntry /\ r = [i \in 0 .. MaxEntry |-> r[i]]
  BY DEF Closed
<1> HIDE DEF r
<1>4. \A i \in 0 .. MaxEntry : r[i] \in PageRange
  BY <1>1, <1>2
<1>5. r \in [0 .. MaxEntry -> PageRange]
  BY <1>3, <1>4
<1>6. QED
  BY <1>1, <1>2, <1>5 DEF r


(* A range cut in two. *)
LEMMA APartOfARange ==
    ASSUME NEW e \in PageRange, NEW n \in Nat, e.end - e.start >= n
    PROVE  LET first == PagesOf([start |-> e.start, end |-> e.start + n])
               rest == PagesOf([start |-> e.start + n, end |-> e.end]) IN
           /\ first \subseteq PagesOf(e) /\ rest \subseteq PagesOf(e)
           /\ first \cap rest = {}
<1>1. e.start \in Int /\ e.end \in Int
  BY DEF PageRange
<1>2. QED
  BY <1>1 DEF PagesOf

-----------------------------------------------------------------------------
(* The invariant holds at first, and every step keeps it. *)

(* vmm_init fills mm_stack with the ranges of the map. *)
LEMMA InitHolds == Init => IInv
<1> SUFFICES ASSUME Init PROVE IInv
  OBVIOUS
<1>a. /\ MaxEntry \in Nat /\ Len(Ranges) \in 0 .. MaxEntry
      /\ \A i \in 1 .. Len(Ranges) : Ranges[i] \in PageRange
      /\ Blank \in PageRange
  <2> DEFINE natural == [start : Nat, end : Nat]
  <2>1. natural \subseteq PageRange /\ Blank \in PageRange
    BY DEF PageRange, Blank
  <2>2. Ranges \in Seq(natural) /\ Len(Ranges) <= MaxEntry /\ MaxEntry \in Nat
    BY KernelSpaceAssumption
  <2> HIDE DEF natural
  <2>3. QED
    BY <2>1, <2>2
<1>b. /\ mm_stack_ptr = Len(Ranges) /\ vmm_lock = None /\ found = Nothing /\ used = {}
      /\ invalid_stack = <<>> /\ invld_lock = None /\ to_invalid_cur = 0
      /\ all_cores_mask = {} /\ tlb = [c \in Cpu |-> {}] /\ raced = FALSE /\ early = FALSE
  BY DEF Init
<1>c. mm_stack = [i \in 0 .. MaxEntry |-> IF i < Len(Ranges) THEN Ranges[i + 1] ELSE Blank]
  BY DEF Init
<1>1. TypeOK
  <2>1. \A i \in 0 .. MaxEntry : mm_stack[i] \in PageRange
    BY <1>a, <1>c
  <2>2. mm_stack \in [0 .. MaxEntry -> PageRange]
    BY <1>c, <2>1
  <2>3. found \in [k : Int, exact : BOOLEAN, to_ret : Int, pages : Nat]
    BY <1>b DEF Nothing
  <2>4. tlb \in [Cpu -> SUBSET Int]
    BY <1>b
  <2>5. invalid_stack \in Seq(ToInvalid) /\ Len(invalid_stack) = 0
    BY <1>b
  <2>6. /\ mm_stack_ptr \in 0 .. MaxEntry /\ to_invalid_cur \in 0 .. Len(invalid_stack)
        /\ vmm_lock = None /\ invld_lock = None
        /\ raced = FALSE /\ early = FALSE
    BY <1>a, <1>b, <2>5
  <2>7. used \in SUBSET PageRange /\ all_cores_mask \in SUBSET Cpu
    BY <1>b
  <2>8. QED
    BY <2>2, <2>3, <2>4, <2>5, <2>6, <2>7 DEF TypeOK
<1>2. FoundIsThere /\ FoundIsAsItWas
  BY <1>b DEF FoundIsThere, FoundIsAsItWas
<1>3. DisjointRanges
  <2>1. PagesOf(Blank) = {}
    BY DEF Blank, PagesOf
  <2>2. \A i, j \in 1 .. Len(Ranges) : i # j => PagesOf(Ranges[i]) \cap PagesOf(Ranges[j]) = {}
    <3>1. DOMAIN Ranges = 1 .. Len(Ranges)
      BY KernelSpaceAssumption, SMT
    <3>2. QED
      BY <3>1, KernelSpaceAssumption, Zenon
  <2>3. ASSUME NEW i \in 0 .. Len(Ranges), NEW j \in 0 .. Len(Ranges), i # j
        PROVE  PagesOf(mm_stack[i]) \cap PagesOf(mm_stack[j]) = {}
    <3>1. CASE i < Len(Ranges) /\ j < Len(Ranges)
      <4>1. i + 1 \in 1 .. Len(Ranges) /\ j + 1 \in 1 .. Len(Ranges) /\ i + 1 # j + 1
        BY <1>a, <2>3, <3>1
      <4>2. mm_stack[i] = Ranges[i + 1] /\ mm_stack[j] = Ranges[j + 1]
        BY <1>a, <1>c, <3>1
      <4>3. QED
        BY <2>2, <4>1, <4>2
    <3>2. CASE i = Len(Ranges) \/ j = Len(Ranges)
      <4>1. Len(Ranges) \in 0 .. MaxEntry /\ ~(Len(Ranges) < Len(Ranges))
        BY <1>a
      <4>2. mm_stack[Len(Ranges)] = Blank
        BY <1>c, <4>1
      <4>3. QED
        BY <2>1, <3>2, <4>2
    <3>3. i \in Int /\ j \in Int /\ i <= Len(Ranges) /\ j <= Len(Ranges) /\ Len(Ranges) \in Int
      BY <1>a
    <3>4. QED
      BY <3>1, <3>2, <3>3
  <2>4. QED
    BY <1>b, <2>3 DEF DisjointRanges
<1>4. NoneShared
  BY <1>b, <1>3 DEF NoneShared, Pending
<1>5. Forgotten
  BY <1>b DEF Forgotten, Pending
<1>6. QED
  BY <1>1, <1>2, <1>4, <1>5 DEF IInv

(* What a processor does that touches no range. *)
LEMMA JoinKeeps ==
    ASSUME IInv, NEW c \in Cpu, Join(c) \/ SetContext(c) \/ EndSync(c) \/ BeginSync(c)
    PROVE  IInv'
<1>1. UNCHANGED <<mm_stack, mm_stack_ptr, vmm_lock, found, used, invalid_stack, raced, early>>
  BY DEF Join, SetContext, EndSync, BeginSync, ranges, search, walk
<1>2. /\ all_cores_mask' \in SUBSET Cpu
      /\ tlb' \in [Cpu -> SUBSET Int]
      /\ \A d \in Cpu : tlb'[d] \subseteq tlb[d]
  <2>a. all_cores_mask \in SUBSET Cpu /\ tlb \in [Cpu -> SUBSET Int]
    BY DEF IInv, TypeOK
  <2>1. all_cores_mask' \in SUBSET Cpu
    BY <2>a DEF Join, SetContext, EndSync, BeginSync
  <2>2. CASE UNCHANGED tlb
    BY <2>a, <2>1, <2>2
  <2>3. CASE tlb' = [tlb EXCEPT ![c] = {}]
    BY <2>a, <2>1, <2>3
  <2>4. QED
    BY <2>2, <2>3 DEF Join, SetContext, EndSync, BeginSync
<1>3. /\ invld_lock' \in Cpu \cup {None}
      /\ to_invalid_cur' \in 0 .. Len(invalid_stack)
      /\ invld_lock' # None /\ ~raced => mm_stack_ptr + to_invalid_cur' < MaxEntry
  <2>a. /\ invld_lock \in Cpu \cup {None} /\ invalid_stack \in Seq(ToInvalid)
        /\ to_invalid_cur \in 0 .. Len(invalid_stack)
        /\ invld_lock # None /\ ~raced => mm_stack_ptr + to_invalid_cur < MaxEntry
    BY DEF IInv, TypeOK, FoundIsThere
  <2>1. CASE Join(c) \/ SetContext(c)
    BY <2>1, <2>a DEF Join, SetContext, walk
  <2>2. CASE EndSync(c)
    BY <2>2, <2>a DEF EndSync
  <2>3. CASE BeginSync(c)
    BY <2>3, <2>a DEF BeginSync
  <2>4. QED
    BY <2>1, <2>2, <2>3
<1>4. TypeOK'
  BY <1>1, <1>2, <1>3 DEF IInv, TypeOK
<1>5. FoundIsThere'
  BY <1>1, <1>3 DEF IInv, FoundIsThere
<1>6. FoundIsAsItWas => FoundIsAsItWas'
  BY <1>1 DEF FoundIsAsItWas
<1>7. NoneShared => NoneShared'
  BY <1>1 DEF NoneShared, DisjointRanges, Live, Pending
<1>8. Forgotten => Forgotten'
  BY <1>1, <1>2 DEF Forgotten, Live, Pending
<1>9. QED
  BY <1>1, <1>4, <1>5, <1>6, <1>7, <1>8 DEF IInv

(* The first half of kvmm_malloc: what it found lies below mm_stack_ptr. *)
LEMMA SearchKeeps ==
    ASSUME IInv, NEW c \in Cpu, NEW pages \in Length, Search(c, pages)
    PROVE  IInv'
<1>1. UNCHANGED <<mm_stack, mm_stack_ptr, used, invalid_stack, invld_lock, to_invalid_cur,
                  all_cores_mask, tlb, raced, early>>
  BY DEF Search, ranges, walk
<1>2. PICK k \in 0 .. MaxEntry :
        /\ IsFound(mm_stack, mm_stack_ptr, pages, k)
        /\ found' = [k |-> k, exact |-> IsExact(mm_stack, k, pages),
                     to_ret |-> mm_stack[k].start, pages |-> pages]
  BY DEF Search
<1>3. vmm_lock' = c
  BY DEF Search
<1>4. /\ k \in 0 .. mm_stack_ptr - 1
      /\ mm_stack[k].end - mm_stack[k].start >= pages
  BY <1>2 DEF IsFound, Candidates
<1>5. /\ pages \in Nat /\ mm_stack[k].start \in Int
      /\ IsExact(mm_stack, k, pages) \in BOOLEAN
  BY KernelSpaceAssumption DEF IInv, TypeOK, PageRange, IsExact
<1>6. TypeOK'
  <2>1. found' \in [k : Int, exact : BOOLEAN, to_ret : Int, pages : Nat]
    BY <1>2, <1>5
  <2>2. QED
    BY <1>1, <1>3, <2>1 DEF IInv, TypeOK
<1>7. FoundIsThere'
  BY <1>1, <1>2, <1>4 DEF IInv, FoundIsThere
<1>8. FoundIsAsItWas'
  BY <1>1, <1>2, <1>4 DEF FoundIsAsItWas, IsExact
<1>9. NoneShared => NoneShared'
  BY <1>1 DEF NoneShared, DisjointRanges, Live, Pending
<1>10. Forgotten => Forgotten'
  BY <1>1 DEF Forgotten, Live, Pending
<1>11. QED
  BY <1>1, <1>6, <1>7, <1>8, <1>9, <1>10 DEF IInv

(* The second half of kvmm_malloc: what it gives out leaves the entry it   *)
(* found, if that is still as the search saw it.                           *)
LEMMA TakeKeeps ==
    ASSUME IInv, NEW c \in Cpu, Take(c)
    PROVE  IInv'
<1> DEFINE k == found.k
           range == [start |-> found.to_ret, end |-> found.to_ret + found.pages]
<1>a. /\ mm_stack \in [0 .. MaxEntry -> PageRange] /\ mm_stack_ptr \in 0 .. MaxEntry
      /\ found.to_ret \in Int /\ found.pages \in Nat
      /\ k \in 0 .. mm_stack_ptr - 1 /\ k \in 0 .. MaxEntry
      /\ MaxEntry \in Nat
  BY KernelSpaceAssumption DEF IInv, TypeOK, FoundIsThere, Take, None, Cpu
<1>b. /\ UNCHANGED <<invalid_stack, invld_lock, to_invalid_cur, all_cores_mask, raced, early>>
      /\ vmm_lock = c /\ vmm_lock' = None /\ found' = Nothing
      /\ used' = used \cup {range}
  BY DEF Take, walk
<1>c. /\ tlb' \in [Cpu -> SUBSET Int]
      /\ \A d \in Cpu : tlb'[d] \subseteq tlb[d]
  <2>1. tlb \in [Cpu -> SUBSET Int] /\ tlb' = [tlb EXCEPT ![c] = @ \ PagesOf(range)]
    BY DEF IInv, TypeOK, Take
  <2>2. QED
    BY <2>1
<1>1. /\ found.exact => mm_stack' = Closed(mm_stack, mm_stack_ptr, k)
                         /\ mm_stack_ptr' = mm_stack_ptr - 1
      /\ ~found.exact => /\ \E start \in {mm_stack[k].start, found.to_ret} :
                               mm_stack' = Shortened(mm_stack, k, start + found.pages)
                         /\ mm_stack_ptr' = mm_stack_ptr
  BY DEF Take
<1>2. /\ mm_stack' \in [0 .. MaxEntry -> PageRange]
      /\ mm_stack_ptr' \in 0 .. MaxEntry /\ mm_stack_ptr' <= mm_stack_ptr
  <2>1. CASE found.exact
    BY <1>a, <1>1, <2>1, ClosedKeepsTheOthers
  <2>2. CASE ~found.exact
    <3>1. PICK start \in {mm_stack[k].start, found.to_ret} :
                 mm_stack' = [mm_stack EXCEPT ![k].start = start + found.pages]
      BY <1>1, <2>2 DEF Shortened
    <3>2. mm_stack[k] \in PageRange /\ mm_stack[k].start \in Int
      BY <1>a DEF PageRange
    <3>6. start + found.pages \in Int
      BY <1>a, <3>1, <3>2
    <3>3. [mm_stack[k] EXCEPT !.start = start + found.pages] \in PageRange
      BY <3>2, <3>6 DEF PageRange
    <3>4. mm_stack' \in [0 .. MaxEntry -> PageRange]
      BY <1>a, <3>1, <3>3
    <3>5. QED
      BY <1>a, <1>1, <2>2, <3>4
  <2>3. QED
    BY <2>1, <2>2
<1>3. TypeOK'
  <2>1. found' \in [k : Int, exact : BOOLEAN, to_ret : Int, pages : Nat]
    BY <1>b DEF Nothing
  <2>2. range \in PageRange
    BY <1>a DEF PageRange
  <2>3. used' \in SUBSET PageRange
    BY <1>b, <2>2 DEF IInv, TypeOK
  <2>4. QED
    BY <1>b, <1>c, <1>2, <2>1, <2>3 DEF IInv, TypeOK
<1>4. FoundIsThere'
  <2>1. invld_lock # None /\ ~raced => mm_stack_ptr + to_invalid_cur < MaxEntry
    BY DEF IInv, FoundIsThere
  <2>2. to_invalid_cur \in Int
    BY DEF IInv, TypeOK
  <2>3. mm_stack_ptr + to_invalid_cur < MaxEntry => mm_stack_ptr' + to_invalid_cur < MaxEntry
    <3>1. /\ mm_stack_ptr \in Int /\ mm_stack_ptr' \in Int /\ MaxEntry \in Int
          /\ mm_stack_ptr' <= mm_stack_ptr
      BY <1>a, <1>2
    <3>2. \A a, b, d, m \in Int : a + d < m /\ b <= a => b + d < m
      OBVIOUS
    <3>3. QED
      BY <2>2, <3>1, <3>2, Zenon
  <2>4. QED
    BY <1>b, <2>1, <2>3 DEF FoundIsThere
<1>5. ASSUME ~raced
      PROVE  FoundIsAsItWas' /\ NoneShared' /\ Forgotten'
  <2>a. /\ FoundIsAsItWas /\ NoneShared /\ Forgotten
        /\ DisjointRanges
    BY <1>5 DEF IInv, NoneShared
  <2>b. /\ mm_stack[k].start = found.to_ret
        /\ mm_stack[k].end - found.to_ret >= found.pages
        /\ found.exact <=> mm_stack[k].end - found.to_ret = found.pages
    BY <1>b, <2>a DEF FoundIsAsItWas, None, Cpu
  <2>c. mm_stack[k] \in PageRange /\ mm_stack[k].start \in Int /\ mm_stack[k].end \in Int
    BY <1>a DEF PageRange
  <2>d. k \in Live
    BY <1>a DEF Live
  <2>1. PagesOf(range) \subseteq PagesOf(mm_stack[k])
    BY <2>b, <2>c, <1>a, APartOfARange
  <2>2. /\ \A i \in Live' : \E j \in Live : PagesOf(mm_stack'[i]) \subseteq PagesOf(mm_stack[j])
        /\ \A i \in Live' : PagesOf(mm_stack'[i]) \cap PagesOf(range) = {}
        /\ DisjointRanges'
    <3>1. CASE found.exact
      <4> DEFINE from(i) == IF i < k THEN i ELSE i + 1
      <4>a. Live' = 0 .. mm_stack_ptr - 1
        BY <1>1, <3>1 DEF Live
      <4>1. \A i \in Live' : from(i) \in Live \ {k} /\ mm_stack'[i] = mm_stack[from(i)]
        <5> DEFINE p == mm_stack_ptr
                   r == Closed(mm_stack, p, k)
        <5>1. \A i \in 0 .. p - 1 : from(i) \in (0 .. p) \ {k} /\ r[i] = mm_stack[from(i)]
          BY <1>a, ClosedKeepsTheOthers
        <5>2. mm_stack' = r
          BY <1>1, <3>1
        <5> HIDE DEF r, from
        <5>3. QED
          BY <4>a, <5>1, <5>2 DEF Live
      <4>2. \A i, j \in Live' : i # j => from(i) # from(j)
        BY <1>a, <1>1, <3>1 DEF Live
      <4> HIDE DEF from
      <4>3. \A i, j \in Live : i # j => PagesOf(mm_stack[i]) \cap PagesOf(mm_stack[j]) = {}
        BY <2>a DEF DisjointRanges, Live
      <4>4. \A i, j \in Live' : i # j => PagesOf(mm_stack'[i]) \cap PagesOf(mm_stack'[j]) = {}
        BY <4>1, <4>2, <4>3
      <4>5. \A i \in Live' : PagesOf(mm_stack'[i]) \cap PagesOf(range) = {}
        BY <2>1, <2>d, <4>1, <4>3
      <4>6. DisjointRanges'
        BY <4>4 DEF DisjointRanges, Live
      <4>7. QED
        BY <4>1, <4>5, <4>6
    <3>2. CASE ~found.exact
      <4> DEFINE rest == [start |-> found.to_ret + found.pages, end |-> mm_stack[k].end]
      <4>1. mm_stack' = [mm_stack EXCEPT ![k].start = found.to_ret + found.pages]
        BY <1>1, <2>b, <3>2 DEF Shortened
      <4>2. [mm_stack[k] EXCEPT !.start = found.to_ret + found.pages] = rest
        BY <2>c DEF PageRange
      <4>3. /\ mm_stack'[k] = rest
            /\ \A i \in Live : i # k => mm_stack'[i] = mm_stack[i]
        BY <1>a, <4>1, <4>2 DEF Live
      <4>4. PagesOf(rest) \subseteq PagesOf(mm_stack[k]) /\ PagesOf(rest) \cap PagesOf(range) = {}
        BY <1>a, <2>b, <2>c, APartOfARange
      <4> HIDE DEF rest, k, range
      <4>5. Live' = Live
        BY <1>1, <3>2 DEF Live
      <4>6. \A i \in Live : PagesOf(mm_stack'[i]) \subseteq PagesOf(mm_stack[i])
        BY <4>3, <4>4
      <4>7. \A i, j \in Live : i # j => PagesOf(mm_stack[i]) \cap PagesOf(mm_stack[j]) = {}
        BY <2>a DEF DisjointRanges, Live
      <4>8. \A i, j \in Live' : i # j => PagesOf(mm_stack'[i]) \cap PagesOf(mm_stack'[j]) = {}
        BY <4>5, <4>6, <4>7
      <4>9. DisjointRanges'
        BY <4>8 DEF DisjointRanges, Live
      <4>10. \A i \in Live' : PagesOf(mm_stack'[i]) \cap PagesOf(range) = {}
        BY <2>1, <2>d, <4>3, <4>4, <4>5, <4>7
      <4>11. QED
        BY <4>5, <4>6, <4>9, <4>10
    <3>3. QED
      BY <3>1, <3>2
  <2> HIDE DEF k, range
  <2>3. FoundIsAsItWas'
    BY <1>b DEF FoundIsAsItWas
  <2>4. NoneShared'
    <3>1. Pending' = Pending
      BY <1>b DEF Pending
    <3>2. \A r \in used : PagesOf(r) \cap PagesOf(range) = {}
      BY <2>1, <2>a, <2>d DEF NoneShared
    <3>3. \A n \in Pending : PagesOf(range) \cap PagesToForget(invalid_stack[n]) = {}
      BY <2>1, <2>a, <2>d DEF NoneShared
    <3>4. \A r, s \in used' : r # s => PagesOf(r) \cap PagesOf(s) = {}
      BY <1>b, <2>a, <3>2 DEF NoneShared
    <3>5. \A i \in Live', r \in used' : PagesOf(mm_stack'[i]) \cap PagesOf(r) = {}
      BY <1>b, <2>a, <2>2 DEF NoneShared
    <3>6. \A i \in Live', n \in Pending :
             PagesOf(mm_stack'[i]) \cap PagesToForget(invalid_stack[n]) = {}
      BY <2>a, <2>2 DEF NoneShared
    <3>7. \A r \in used', n \in Pending : PagesOf(r) \cap PagesToForget(invalid_stack[n]) = {}
      BY <1>b, <2>a, <3>3 DEF NoneShared
    <3>8. QED
      BY <1>b, <2>a, <2>2, <3>1, <3>4, <3>5, <3>6, <3>7 DEF NoneShared
  <2>5. Forgotten'
    BY <1>b, <1>c, <2>a, <2>2 DEF Forgotten, Pending
  <2>6. QED
    BY <2>3, <2>4, <2>5
<1>6. QED
  BY <1>b, <1>3, <1>4, <1>5 DEF IInv

(* A page that is freed moves from those in use to those that wait, and    *)
(* the processor that frees it forgets it.                                 *)
LEMMA FreeContextKeeps ==
    ASSUME IInv, ~raced, NEW c \in Cpu, FreeContext(c)
    PROVE  IInv'
<1>a. /\ used \in SUBSET PageRange /\ invalid_stack \in Seq(ToInvalid)
      /\ tlb \in [Cpu -> SUBSET Int]
      /\ to_invalid_cur \in 0 .. Len(invalid_stack)
  BY DEF IInv, TypeOK
<1>b. PICK r \in used :
        /\ r.end = r.start + 1
        /\ used' = used \ {r}
        /\ tlb' = [d \in Cpu |-> IF d = c THEN tlb[d] \ {r.start} ELSE tlb[d] \cup {r.start}]
        /\ invalid_stack' = IF RoomToRemind THEN Append(invalid_stack, Remind(c, r))
                                            ELSE invalid_stack
  BY DEF FreeContext
<1>c. /\ UNCHANGED <<mm_stack, mm_stack_ptr, vmm_lock, found, invld_lock, to_invalid_cur,
                     all_cores_mask, raced, early>>
      /\ vmm_lock = None /\ invld_lock = None
  BY DEF FreeContext, ranges, search, walk
<1> DEFINE page == r.start
           e == Remind(c, r)
<1>d. page \in Int /\ PagesOf(r) = {page}
  <2>1. r \in PageRange /\ page \in Int
    BY <1>a DEF PageRange
  <2>2. \A x : x \in page .. page + 1 - 1 <=> x = page
    BY <2>1
  <2>3. QED
    BY <1>b, <2>1, <2>2 DEF PagesOf
<1>e. e \in ToInvalid /\ PagesToForget(e) = {page} /\ e.cores_invalidated = {c}
  <2>1. e \in ToInvalid /\ e.virt = page /\ e.cores_invalidated = {c}
    BY <1>d DEF Remind, ToInvalid
  <2>2. QED
    BY <2>1, APageToForget
<1> HIDE DEF page, e
<1>1. /\ invalid_stack' \in Seq(ToInvalid)
      /\ to_invalid_cur \in 0 .. Len(invalid_stack')
      /\ \A n \in Pending' : \/ n \in Pending /\ invalid_stack'[n] = invalid_stack[n]
                            \/ /\ n \notin Pending /\ n = Len(invalid_stack) + 1
                               /\ invalid_stack'[n] = e
  <2>1. CASE RoomToRemind
    <3>1. invalid_stack' = Append(invalid_stack, e)
      BY <1>b, <2>1 DEF e
    <3>2. Len(invalid_stack) \in Nat /\ Pending = 1 .. Len(invalid_stack)
      BY <1>a DEF Pending
    <3>3. /\ invalid_stack' \in Seq(ToInvalid) /\ Pending' = 1 .. Len(invalid_stack) + 1
          /\ Len(invalid_stack') = Len(invalid_stack) + 1
          /\ \A n \in Pending : invalid_stack'[n] = invalid_stack[n]
          /\ invalid_stack'[Len(invalid_stack) + 1] = e
      BY <1>a, <1>e, <3>1 DEF Pending
    <3>4. \A n \in Pending' : n \in Pending \/ (n \notin Pending /\ n = Len(invalid_stack) + 1)
      <4>1. ASSUME NEW l \in Nat, NEW n \in 1 .. l + 1
            PROVE  n \in 1 .. l \/ (n \notin 1 .. l /\ n = l + 1)
        OBVIOUS
      <4>2. QED
        BY <3>2, <3>3, <4>1, Zenon
    <3>5. to_invalid_cur \in 0 .. Len(invalid_stack')
      BY <1>a, <3>2, <3>3
    <3>6. QED
      BY <3>3, <3>4, <3>5, Zenon
  <2>2. CASE ~RoomToRemind
    <3>1. invalid_stack' = invalid_stack
      BY <1>b, <2>2
    <3>2. Pending' = Pending
      BY <3>1 DEF Pending
    <3>3. to_invalid_cur \in 0 .. Len(invalid_stack')
      BY <1>a, <3>1
    <3>4. QED
      BY <1>a, <3>1, <3>2, <3>3, Zenon
  <2>3. QED
    BY <2>1, <2>2
<1>2. /\ tlb' \in [Cpu -> SUBSET Int]
      /\ \A d \in Cpu : tlb'[d] \subseteq tlb[d] \cup {page}
      /\ page \notin tlb'[c]
  BY <1>a, <1>b, <1>d DEF page
<1>3. TypeOK'
  BY <1>b, <1>c, <1>1, <1>2 DEF IInv, TypeOK
<1>4. FoundIsThere' /\ FoundIsAsItWas'
  BY <1>c DEF FoundIsThere, FoundIsAsItWas
<1>5. NoneShared'
  <2>a. NoneShared /\ DisjointRanges
    BY DEF IInv, NoneShared
  <2>b. Live' = Live /\ DisjointRanges'
    BY <1>c, <2>a DEF Live, DisjointRanges
  <2>1. /\ \A i \in Live : PagesOf(mm_stack[i]) \cap PagesToForget(e) = {}
        /\ \A n \in Pending : PagesToForget(e) \cap PagesToForget(invalid_stack[n]) = {}
        /\ \A s \in used' : PagesOf(s) \cap PagesToForget(e) = {}
    BY <1>b, <1>d, <1>e, <2>a DEF NoneShared
  <2>2. \A r1, s \in used' : r1 # s => PagesOf(r1) \cap PagesOf(s) = {}
    BY <1>b, <2>a DEF NoneShared
  <2>3. \A m, n \in Pending' : m # n =>
           PagesToForget(invalid_stack'[m]) \cap PagesToForget(invalid_stack'[n]) = {}
    BY <1>1, <2>1, <2>a DEF NoneShared
  <2>4. \A i \in Live, s \in used' : PagesOf(mm_stack[i]) \cap PagesOf(s) = {}
    BY <1>b, <2>a DEF NoneShared
  <2>5. \A i \in Live, n \in Pending' :
           PagesOf(mm_stack[i]) \cap PagesToForget(invalid_stack'[n]) = {}
    BY <1>1, <2>1, <2>a DEF NoneShared
  <2>6. \A s \in used', n \in Pending' : PagesOf(s) \cap PagesToForget(invalid_stack'[n]) = {}
    BY <1>1, <1>b, <2>1, <2>a DEF NoneShared
  <2>7. QED
    BY <1>c, <2>b, <2>2, <2>3, <2>4, <2>5, <2>6 DEF NoneShared
<1>6. Forgotten'
  <2>a. NoneShared /\ Forgotten
    BY DEF IInv
  <2>1. \A i \in Live : page \notin PagesOf(mm_stack[i])
    BY <1>d, <2>a DEF NoneShared
  <2>2. \A n \in Pending : page \notin PagesToForget(invalid_stack[n])
    BY <1>d, <2>a DEF NoneShared
  <2>3. \A d \in Cpu, n \in Pending' : d \in invalid_stack'[n].cores_invalidated =>
           tlb'[d] \cap PagesToForget(invalid_stack'[n]) = {}
    BY <1>1, <1>2, <1>e, <2>2, <2>a DEF Forgotten
  <2>4. early \/ \A d \in Cpu, i \in Live : tlb'[d] \cap PagesOf(mm_stack[i]) = {}
    BY <1>2, <2>1, <2>a DEF Forgotten
  <2>5. Live' = Live
    BY <1>c DEF Live
  <2>6. QED
    BY <1>c, <2>3, <2>4, <2>5 DEF Forgotten
<1>7. QED
  BY <1>3, <1>4, <1>5, <1>6 DEF IInv

(* One round of sync_addr_space.  What it gives back while no processor is *)
(* between search and take waited until then, and no processor that counts *)
(* has it cached any more.                                                 *)
LEMMA SyncAddrSpaceKeeps ==
    ASSUME IInv, ~raced, NEW c \in Cpu, SyncAddrSpace(c)
    PROVE  IInv'
<1> DEFINE cur == to_invalid_cur
           top == Len(invalid_stack)
           e == Marked(invalid_stack[cur], c)
           pushed == Pushed(mm_stack, mm_stack_ptr, e.virt, e.length)
           ripe == e.cores_invalidated = all_cores_mask /\ cur = top
<1>a. /\ mm_stack \in [0 .. MaxEntry -> PageRange] /\ mm_stack_ptr \in 0 .. MaxEntry
      /\ invalid_stack \in Seq(ToInvalid) /\ tlb \in [Cpu -> SUBSET Int]
      /\ invld_lock = c /\ invld_lock # None
      /\ cur \in 0 .. top /\ cur > 0 /\ MaxEntry \in Nat
      /\ mm_stack_ptr + cur < MaxEntry
  BY KernelSpaceAssumption DEF IInv, TypeOK, FoundIsThere, SyncAddrSpace, None, Cpu
<1>b. /\ top \in Nat /\ Pending = 1 .. top /\ cur \in 1 .. top
      /\ cur \in Int /\ mm_stack_ptr \in Int /\ mm_stack_ptr \in 0 .. MaxEntry - 1
  BY <1>a DEF Pending
<1>c. NoneShared /\ FoundIsAsItWas /\ Forgotten /\ DisjointRanges
  BY DEF IInv, NoneShared
<1>d. /\ UNCHANGED <<vmm_lock, found, used, invld_lock, all_cores_mask>>
      /\ to_invalid_cur' = cur - 1
      /\ tlb' = [tlb EXCEPT ![c] = @ \ {e.virt}]
  BY DEF SyncAddrSpace, search
<1>e. /\ e \in ToInvalid /\ e.virt \in Int /\ e.length = 1
      /\ e.virt = invalid_stack[cur].virt
      /\ e.cores_invalidated = invalid_stack[cur].cores_invalidated \cup {c}
  <2>1. invalid_stack[cur] \in ToInvalid
    BY <1>a, <1>b
  <2>2. QED
    BY <2>1 DEF ToInvalid, Marked
<1>f. PagesToForget(e) = {e.virt} /\ PagesToForget(invalid_stack[cur]) = {e.virt}
  BY <1>a, <1>b, <1>e, APageToForget
<1>g. /\ tlb' \in [Cpu -> SUBSET Int]
      /\ \A d \in Cpu : tlb'[d] \subseteq tlb[d]
      /\ e.virt \notin tlb'[c]
  <2> HIDE DEF e
  <2>1. QED
    BY <1>a, <1>d
<1>h. /\ \A d \in Cpu : d \in e.cores_invalidated => e.virt \notin tlb'[d]
      /\ \A d \in Cpu, n \in Pending : d \in invalid_stack[n].cores_invalidated =>
             tlb'[d] \cap PagesToForget(invalid_stack[n]) = {}
  <2> HIDE DEF e
  <2>1. \A d \in Cpu, n \in Pending : d \in invalid_stack[n].cores_invalidated =>
             tlb'[d] \cap PagesToForget(invalid_stack[n]) = {}
    BY <1>c, <1>g DEF Forgotten
  <2>2. QED
    BY <1>b, <1>e, <1>f, <1>g, <2>1
<1>1. CASE /\ ripe
           /\ mm_stack' = pushed.mm_stack /\ mm_stack_ptr' = pushed.ptr
           /\ invalid_stack' = SubSeq(invalid_stack, 1, top - 1)
           /\ raced' = (raced \/ vmm_lock # None)
           /\ early' = (early \/ all_cores_mask # Cpu)
  <2>a. AddsThePage(mm_stack, mm_stack_ptr, e.virt, pushed)
    <3>1. pushed = Pushed(mm_stack, mm_stack_ptr, e.virt, 1)
      BY <1>e
    <3> HIDE DEF e, pushed
    <3>2. QED
      BY <1>a, <1>b, <1>e, <3>1, PushedAddsThePage, Zenon
  <2> HIDE DEF pushed, e
  <2>b. /\ mm_stack' \in [0 .. MaxEntry -> PageRange] /\ mm_stack_ptr' \in Int
        /\ mm_stack_ptr <= mm_stack_ptr' /\ mm_stack_ptr' <= mm_stack_ptr + 1
    BY <1>1, <1>b, <2>a DEF AddsThePage
  <2>c. PICK t \in 0 .. MaxEntry : \A i \in Live' :
              IF i = t THEN PagesOf(mm_stack'[i]) \subseteq
                            {e.virt} \cup (IF i \in Live THEN PagesOf(mm_stack[i]) ELSE {})
                       ELSE i \in Live /\ mm_stack'[i] = mm_stack[i]
    <3>1. PICK t \in 0 .. MaxEntry : \A i \in 0 .. pushed.ptr :
              IF i = t THEN PagesOf(pushed.mm_stack[i]) \subseteq
                            {e.virt} \cup (IF i <= mm_stack_ptr THEN PagesOf(mm_stack[i]) ELSE {})
                       ELSE i <= mm_stack_ptr /\ pushed.mm_stack[i] = mm_stack[i]
      BY <2>a DEF AddsThePage
    <3>2. Live' = 0 .. pushed.ptr /\ \A i \in Live' : i <= mm_stack_ptr <=> i \in Live
      BY <1>1, <1>b, <2>b DEF Live
    <3>3. QED
      BY <1>1, <3>1, <3>2
  <2>d. /\ invalid_stack' \in Seq(ToInvalid) /\ Len(invalid_stack') = top - 1
        /\ Pending' = Pending \ {cur}
        /\ \A n \in Pending' : invalid_stack'[n] = invalid_stack[n]
    <3>1. /\ invalid_stack' \in Seq(ToInvalid) /\ Len(invalid_stack') = top - 1
          /\ Pending' = 1 .. top - 1
          /\ \A n \in 1 .. top - 1 : invalid_stack'[n] = invalid_stack[n]
      BY <1>1, <1>a, <1>b DEF Pending
    <3>2. 1 .. top - 1 = (1 .. top) \ {top}
      <4> HIDE DEF top
      <4>1. QED
        BY <1>b
    <3>3. QED
      BY <1>1, <1>b, <3>1, <3>2
  <2>1. mm_stack_ptr' \in 0 .. MaxEntry /\ mm_stack_ptr' + (cur - 1) < MaxEntry
    <3>1. \A p, q, k, m \in Int : p + k < m /\ q <= p + 1 /\ k > 0 /\ 0 <= p /\ p <= q =>
                                 q \in 0 .. m /\ q + (k - 1) < m
      OBVIOUS
    <3>2. 0 <= mm_stack_ptr /\ MaxEntry \in Int
      BY <1>a
    <3>3. QED
      BY <1>a, <1>b, <2>b, <3>1, <3>2, Zenon
  <2>2. to_invalid_cur' \in 0 .. Len(invalid_stack')
    BY <1>1, <1>b, <1>d, <2>d
  <2>3. TypeOK'
    <3>1. raced' \in BOOLEAN /\ early' \in BOOLEAN
      BY <1>1
    <3>2. QED
      BY <1>d, <1>g, <2>b, <2>d, <2>1, <2>2, <3>1 DEF IInv, TypeOK
  <2>4. FoundIsThere'
    <3>1. vmm_lock # None => found.k \in 0 .. mm_stack_ptr - 1
      BY DEF IInv, FoundIsThere
    <3>2. 0 .. mm_stack_ptr - 1 \subseteq 0 .. mm_stack_ptr' - 1
      <4>1. \A p, q \in Int : p <= q => 0 .. p - 1 \subseteq 0 .. q - 1
        OBVIOUS
      <4>2. QED
        BY <1>b, <2>b, <4>1, Zenon
    <3>3. QED
      BY <1>d, <2>1, <3>1, <3>2 DEF FoundIsThere
  <2>5. ASSUME ~raced'
        PROVE  FoundIsAsItWas' /\ NoneShared' /\ Forgotten'
    <3>1. FoundIsAsItWas'
      BY <1>1, <1>d, <2>5 DEF FoundIsAsItWas
    <3>2. /\ \A i \in Live : e.virt \notin PagesOf(mm_stack[i])
          /\ \A r \in used : e.virt \notin PagesOf(r)
          /\ \A n \in Pending' : e.virt \notin PagesToForget(invalid_stack[n])
      BY <1>b, <1>c, <1>f, <2>d DEF NoneShared
    <3>3. NoneShared'
      <4>1. \A i, j \in Live : i # j => PagesOf(mm_stack[i]) \cap PagesOf(mm_stack[j]) = {}
        BY <1>c DEF DisjointRanges, Live
      <4>2. \A i, j \in Live' : i # j => PagesOf(mm_stack'[i]) \cap PagesOf(mm_stack'[j]) = {}
        BY <2>c, <3>2, <4>1
      <4>3. DisjointRanges'
        BY <4>2 DEF DisjointRanges, Live
      <4>4. \A i \in Live', r \in used : PagesOf(mm_stack'[i]) \cap PagesOf(r) = {}
        BY <1>c, <2>c, <3>2 DEF NoneShared
      <4>5. \A i \in Live', n \in Pending' :
               PagesOf(mm_stack'[i]) \cap PagesToForget(invalid_stack'[n]) = {}
        <5>1. \A i \in Live, n \in Pending' :
                 PagesOf(mm_stack[i]) \cap PagesToForget(invalid_stack'[n]) = {}
          BY <1>c, <2>d DEF NoneShared
        <5>2. ASSUME NEW i \in Live', i # t, NEW n \in Pending'
              PROVE  PagesOf(mm_stack'[i]) \cap PagesToForget(invalid_stack'[n]) = {}
          <6>1. i \in Live /\ mm_stack'[i] = mm_stack[i]
            BY <2>c, <5>2
          <6>2. QED
            BY <5>1, <6>1
        <5>3. ASSUME t \in Live', NEW n \in Pending'
              PROVE  PagesOf(mm_stack'[t]) \cap PagesToForget(invalid_stack'[n]) = {}
          <6>1. /\ PagesOf(mm_stack'[t]) \subseteq
                       {e.virt} \cup (IF t \in Live THEN PagesOf(mm_stack[t]) ELSE {})
                /\ invalid_stack'[n] = invalid_stack[n]
            BY <2>c, <2>d, <5>3
          <6>2. e.virt \notin PagesToForget(invalid_stack'[n])
            BY <3>2, <6>1
          <6>3. QED
            BY <5>1, <6>1, <6>2
        <5>4. QED
          BY <5>2, <5>3
      <4>6. /\ \A r, s \in used : r # s => PagesOf(r) \cap PagesOf(s) = {}
            /\ \A m, n \in Pending' : m # n =>
                  PagesToForget(invalid_stack'[m]) \cap PagesToForget(invalid_stack'[n]) = {}
            /\ \A r \in used, n \in Pending' :
                  PagesOf(r) \cap PagesToForget(invalid_stack'[n]) = {}
        BY <1>c, <2>d DEF NoneShared
      <4>7. QED
        BY <1>d, <4>3, <4>4, <4>5, <4>6 DEF NoneShared
    <3>4. Forgotten'
      <4>1. \A d \in Cpu, n \in Pending' : d \in invalid_stack'[n].cores_invalidated =>
               tlb'[d] \cap PagesToForget(invalid_stack'[n]) = {}
        BY <1>h, <2>d
      <4>2. ASSUME ~early', NEW d \in Cpu, NEW i \in Live'
            PROVE  tlb'[d] \cap PagesOf(mm_stack'[i]) = {}
        <5>1. ~early /\ d \in e.cores_invalidated
          BY <1>1, <4>2
        <5>2. e.virt \notin tlb'[d]
          BY <1>h, <5>1
        <5>3. \A j \in Live : tlb'[d] \cap PagesOf(mm_stack[j]) = {}
          BY <1>c, <1>g, <5>1 DEF Forgotten
        <5>4. QED
          BY <2>c, <5>2, <5>3
      <4>3. QED
        BY <4>1, <4>2 DEF Forgotten
    <3>5. QED
      BY <3>1, <3>3, <3>4
  <2>6. QED
    BY <2>3, <2>4, <2>5 DEF IInv
<1>2. CASE /\ ~ripe
           /\ invalid_stack' = [invalid_stack EXCEPT ![cur] = e]
           /\ UNCHANGED <<ranges, raced, early>>
  <2> HIDE DEF e
  <2>1. UNCHANGED <<mm_stack, mm_stack_ptr, raced, early>>
    BY <1>2 DEF ranges
  <2>2. /\ invalid_stack' \in Seq(ToInvalid) /\ Len(invalid_stack') = top
        /\ Pending' = Pending
        /\ \A n \in Pending : invalid_stack'[n] = IF n = cur THEN e ELSE invalid_stack[n]
    <3>1. invalid_stack' = [invalid_stack EXCEPT ![cur] = e]
      BY <1>2
    <3>2. invalid_stack' \in Seq(ToInvalid) /\ Len(invalid_stack') = top
      BY <1>a, <1>b, <1>e, <3>1
    <3>3. /\ DOMAIN invalid_stack' = DOMAIN invalid_stack
          /\ \A n \in DOMAIN invalid_stack :
                invalid_stack'[n] = IF n = cur THEN e ELSE invalid_stack[n]
      BY <3>1
    <3>4. QED
      BY <3>2, <3>3 DEF Pending
  <2>3. \A n \in Pending : PagesToForget(invalid_stack'[n]) = PagesToForget(invalid_stack[n])
    BY <1>f, <2>2
  <2>4. TypeOK'
    <3>1. to_invalid_cur' \in 0 .. Len(invalid_stack')
      BY <1>b, <1>d, <2>2
    <3>2. QED
      BY <1>d, <1>g, <2>1, <2>2, <3>1 DEF IInv, TypeOK
  <2>5. FoundIsThere'
    <3>1. mm_stack_ptr + (cur - 1) < MaxEntry
      BY <1>a, <1>b
    <3>2. vmm_lock # None => found.k \in 0 .. mm_stack_ptr - 1
      BY DEF IInv, FoundIsThere
    <3>3. QED
      BY <1>d, <2>1, <3>1, <3>2 DEF FoundIsThere
  <2>6. FoundIsAsItWas'
    BY <1>c, <1>d, <2>1 DEF FoundIsAsItWas
  <2>7. Live' = Live /\ DisjointRanges'
    BY <1>c, <2>1 DEF Live, DisjointRanges
  <2>8. NoneShared'
    BY <1>c, <1>d, <2>1, <2>2, <2>3, <2>7 DEF NoneShared
  <2>9. Forgotten'
    <3>1. \A d \in Cpu, n \in Pending : d \in invalid_stack'[n].cores_invalidated =>
             tlb'[d] \cap PagesToForget(invalid_stack'[n]) = {}
      BY <1>f, <1>h, <2>2, <2>3
    <3>2. early \/ \A d \in Cpu, i \in Live : tlb'[d] \cap PagesOf(mm_stack[i]) = {}
      BY <1>c, <1>g DEF Forgotten
    <3>3. QED
      BY <2>1, <2>2, <2>7, <3>1, <3>2 DEF Forgotten
  <2>10. QED
    BY <2>4, <2>5, <2>6, <2>8, <2>9 DEF IInv
<1>3. QED
  BY <1>1, <1>2 DEF SyncAddrSpace

-----------------------------------------------------------------------------
(* The invariant holds in every state that can be reached. *)
LEMMA Invariant == Spec => []IInv
<1>1. IInv /\ [Next]_vars => IInv'
  <2> SUFFICES ASSUME IInv, [Next]_vars
               PROVE  IInv'
    OBVIOUS
  <2>1. ASSUME NEW c \in Cpu, Take(c)
        PROVE  IInv'
    BY <2>1, TakeKeeps
  <2>2. ASSUME NEW c \in Cpu, Join(c) \/ SetContext(c) \/ EndSync(c) \/ BeginSync(c)
        PROVE  IInv'
    BY <2>2, JoinKeeps
  <2>3. ASSUME NEW c \in Cpu, NEW pages \in Length, Search(c, pages)
        PROVE  IInv'
    BY <2>3, SearchKeeps
  <2>4. ASSUME NEW c \in Cpu, ~raced, FreeContext(c)
        PROVE  IInv'
    BY <2>4, FreeContextKeeps
  <2>5. ASSUME NEW c \in Cpu, ~raced, SyncAddrSpace(c)
        PROVE  IInv'
    BY <2>5, SyncAddrSpaceKeeps
  <2>6. CASE UNCHANGED vars
    <3>1. UNCHANGED <<mm_stack, mm_stack_ptr, vmm_lock, found, used, invalid_stack, invld_lock,
                      to_invalid_cur, all_cores_mask, tlb, raced, early>>
      BY <2>6 DEF vars, ranges, search, walk
    <3>2. TypeOK' /\ FoundIsThere'
      BY <3>1 DEF IInv, TypeOK, FoundIsThere
    <3>3. FoundIsAsItWas => FoundIsAsItWas'
      BY <3>1 DEF FoundIsAsItWas
    <3>4. NoneShared => NoneShared'
      BY <3>1 DEF NoneShared, DisjointRanges, Live, Pending
    <3>5. Forgotten => Forgotten'
      BY <3>1 DEF Forgotten, Live, Pending
    <3>6. QED
      BY <3>1, <3>2, <3>3, <3>4, <3>5 DEF IInv
  <2>7. QED
    BY <2>1, <2>2, <2>3, <2>4, <2>5, <2>6 DEF Next
<1>2. QED
  BY InitHolds, <1>1, PTL DEF Spec

(* Every variable keeps its type: the free ranges stay inside mm_stack and *)
(* the loop of sync_addr_space inside invalid_stack, whatever the          *)
(* processors do.                                                          *)
THEOREM TypeCorrect == Spec => []TypeOK
<1>1. IInv => TypeOK
  BY DEF IInv
<1>2. QED
  BY Invariant, <1>1, PTL

(* No page is in use, free, or waiting twice, for any number of processors *)
(* and any memory map, except after a range was given back between another *)
(* processor's search and take.                                            *)
THEOREM OnlyARaceShares == Spec => []OnlyARaceSharesPages
<1>1. IInv => OnlyARaceSharesPages
  <2> SUFFICES ASSUME IInv, ~raced
               PROVE  OnlyARaceSharesPages
    BY DEF OnlyARaceSharesPages
  <2>a. NoneShared /\ invalid_stack \in Seq(ToInvalid)
    BY DEF IInv, TypeOK
  <2>1. /\ \A x : x \in Free <=> \E i \in Live : x \in PagesOf(mm_stack[i])
        /\ \A x : x \in UsedPages <=> \E r \in used : x \in PagesOf(r)
        /\ \A x : x \in PendingPages <=> \E n \in Pending : x \in PagesToForget(invalid_stack[n])
    BY Zenon DEF Free, FreePages, UsedPages, PendingPages, ToSet, Live, Pending
  <2>2. Free \cap UsedPages = {}
    BY <2>a, <2>1 DEF NoneShared
  <2>3. PendingPages \cap (Free \cup UsedPages) = {}
    BY <2>a, <2>1 DEF NoneShared
  <2>4. QED
    BY <2>a, <2>2, <2>3 DEF OnlyARaceSharesPages, NoneShared
<1>2. QED
  BY Invariant, <1>1, PTL

(* No processor has a page cached that can be given out again, unless it   *)
(* was given back after a race or before every processor counted.          *)
THEOREM WhatIsFreeIsForgotten == Spec => []FreeIsForgotten
<1>1. IInv => FreeIsForgotten
  <2> SUFFICES ASSUME IInv, ~raced, ~early
               PROVE  \A c \in Cpu : tlb[c] \cap (Free \ UsedPages) = {}
    BY DEF FreeIsForgotten
  <2>1. \A x : x \in Free <=> \E i \in Live : x \in PagesOf(mm_stack[i])
    BY Zenon DEF Free, FreePages, Live
  <2>2. QED
    BY <2>1 DEF IInv, Forgotten
<1>2. QED
  BY Invariant, <1>1, PTL
=============================================================================
