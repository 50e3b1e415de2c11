----------------------------- MODULE ListProofs -----------------------------
(***************************************************************************)
(* Proofs about the array list, for any number of pointers per chunk and   *)
(* of chunks, and about the descriptors that are indices in one.           *)
(*                                                                         *)
(* The inductive invariant of the list is that the count of each chunk is  *)
(* the number of its used pointers and that the last chunk is not full.    *)
(* What the loops of the readers compute, pointer by pointer, is then      *)
(* compared with the row of slots: a function that satisfies the recursion *)
(* is given outright, and two that do cannot differ first anywhere.        *)
(*                                                                         *)
(* Nothing is ever removed from the list of descriptors, so its used slots *)
(* are the first of the row, and a descriptor is the number of its slot    *)
(* less one: the invariant relates slots, blocks and what was handed out.  *)
(***************************************************************************)
EXTENDS Descriptors, TLAPS, NaturalsInduction, FiniteSetTheorems, WellFoundedInduction

-----------------------------------------------------------------------------
(* The number in the row of place p of chunk k. *)
SlotOf(k, p) == (k - 1) * ENTRYS_PER_ARRAY + p

LEMMA SlotOfChunk ==
    ASSUME NEW k \in Nat \ {0}, NEW p \in Place
    PROVE  /\ SlotOf(k, p) \in Nat \ {0}
           /\ ChunkOf(SlotOf(k, p)) = k /\ PlaceOf(SlotOf(k, p)) = p
<1>1. ENTRYS_PER_ARRAY \in Nat \ {0} /\ p \in 1 .. ENTRYS_PER_ARRAY
  BY EntrysAssumption DEF Place
<1> DEFINE a == (k - 1) * ENTRYS_PER_ARRAY
<1>2. a \in Nat
  BY <1>1
<1>3. ((k - 1) * ENTRYS_PER_ARRAY + (p - 1)) \div ENTRYS_PER_ARRAY = k - 1
  BY <1>1
<1>4. ((k - 1) * ENTRYS_PER_ARRAY + (p - 1)) % ENTRYS_PER_ARRAY = p - 1
  BY <1>1
<1>5. SlotOf(k, p) = a + p
  BY DEF SlotOf
<1> HIDE DEF a
<1>6. SlotOf(k, p) \in Nat \ {0} /\ SlotOf(k, p) - 1 = a + (p - 1)
  BY <1>1, <1>2, <1>5
<1>7. QED
  BY <1>1, <1>2, <1>3, <1>4, <1>6 DEF ChunkOf, PlaceOf, a

LEMMA ChunkOfSlot ==
    ASSUME NEW s \in Nat \ {0}
    PROVE  /\ ChunkOf(s) \in Nat \ {0} /\ PlaceOf(s) \in Place
           /\ s = SlotOf(ChunkOf(s), PlaceOf(s))
<1>1. ENTRYS_PER_ARRAY \in Nat \ {0} /\ s - 1 \in Nat
  BY EntrysAssumption
<1>2. s - 1 = ((s - 1) \div ENTRYS_PER_ARRAY) * ENTRYS_PER_ARRAY + ((s - 1) % ENTRYS_PER_ARRAY)
  BY <1>1
<1>3. (s - 1) \div ENTRYS_PER_ARRAY \in Nat /\ (s - 1) % ENTRYS_PER_ARRAY \in 0 .. ENTRYS_PER_ARRAY - 1
  BY <1>1
<1>4. QED
  BY <1>1, <1>2, <1>3 DEF ChunkOf, PlaceOf, SlotOf, Place

LEMMA ChunksInOrder ==
    ASSUME NEW j \in Nat \ {0}, NEW k \in Nat, NEW q \in Place
    PROVE  SlotOf(j, q) <= k * ENTRYS_PER_ARRAY <=> j <= k
<1>1. ENTRYS_PER_ARRAY \in Nat \ {0} /\ q \in 1 .. ENTRYS_PER_ARRAY
  BY EntrysAssumption DEF Place
<1>2. ASSUME j <= k PROVE j * ENTRYS_PER_ARRAY <= k * ENTRYS_PER_ARRAY
  BY <1>1, <1>2
<1>3. ASSUME ~ j <= k PROVE k * ENTRYS_PER_ARRAY <= (j - 1) * ENTRYS_PER_ARRAY
  BY <1>1, <1>3
<1>4. j * ENTRYS_PER_ARRAY = (j - 1) * ENTRYS_PER_ARRAY + ENTRYS_PER_ARRAY
  BY <1>1
<1>5. (j - 1) * ENTRYS_PER_ARRAY \in Int /\ k * ENTRYS_PER_ARRAY \in Int /\ j * ENTRYS_PER_ARRAY \in Int
  BY <1>1
<1>6. QED
  BY <1>1, <1>2, <1>3, <1>4, <1>5 DEF SlotOf

-----------------------------------------------------------------------------
(* The inductive invariant, of any list. *)
UsedPlaces(chunk) == {p \in Place : chunk.pointer[p] # NULL}

IsList(list) ==
    /\ list \in Seq(Chunk) /\ Len(list) \in 1 .. MaxChunk
    /\ \A k \in 1 .. Len(list) : list[k].used = Cardinality(UsedPlaces(list[k]))
    /\ list[Len(list)].used # ENTRYS_PER_ARRAY

ListInv == IsList(chunks)

(* The pointers that are not NULL, as slots of the row. *)
UsedSlots(list) == {s \in 1 .. RowLength(list) : At(list, s) # NULL}
UsedBefore(list, s) == {r \in UsedSlots(list) : r < s}

LEMMA SlotsAreFinite ==
    ASSUME NEW list \in Seq(Chunk)
    PROVE  /\ RowLength(list) \in Nat
           /\ IsFiniteSet(UsedSlots(list)) /\ Cardinality(UsedSlots(list)) \in Nat
           /\ \A s \in Int : /\ IsFiniteSet(UsedBefore(list, s))
                             /\ Cardinality(UsedBefore(list, s)) \in Nat
<1>1. RowLength(list) \in Nat
  BY EntrysAssumption DEF RowLength
<1>2. IsFiniteSet(1 .. RowLength(list))
  BY <1>1, FS_Interval
<1>3. UsedSlots(list) \subseteq 1 .. RowLength(list)
  BY DEF UsedSlots
<1>4. \A s \in Int : UsedBefore(list, s) \subseteq 1 .. RowLength(list)
  BY <1>3 DEF UsedBefore
<1>5. QED
  BY <1>1, <1>2, <1>3, <1>4, FS_Subset, FS_CardinalityType

LEMMA UsedAtPlace ==
    ASSUME NEW list \in Seq(Chunk), NEW k \in Nat \ {0}, NEW p \in Place
    PROVE  /\ At(list, SlotOf(k, p)) = IF k <= Len(list) THEN list[k].pointer[p] ELSE NULL
           /\ SlotOf(k, p) \in 1 .. RowLength(list) <=> k <= Len(list)
<1>1. SlotOf(k, p) \in Nat \ {0} /\ ChunkOf(SlotOf(k, p)) = k /\ PlaceOf(SlotOf(k, p)) = p
  BY SlotOfChunk
<1>2. SlotOf(k, p) <= Len(list) * ENTRYS_PER_ARRAY <=> k <= Len(list)
  BY ChunksInOrder
<1>3. Len(list) * ENTRYS_PER_ARRAY \in Nat
  BY EntrysAssumption
<1>4. QED
  BY <1>1, <1>2, <1>3 DEF At, RowLength

(* A part that lacks something has fewer elements. *)
LEMMA FewerInAPart ==
    ASSUME NEW S, IsFiniteSet(S), NEW T, T \subseteq S, NEW x \in S, x \notin T
    PROVE  Cardinality(T) < Cardinality(S)
<1>1. IsFiniteSet(T) /\ Cardinality(T) <= Cardinality(S) /\ Cardinality(S) # Cardinality(T)
  BY FS_Subset
<1>2. Cardinality(T) \in Nat /\ Cardinality(S) \in Nat
  BY <1>1, FS_CardinalityType
<1>3. QED
  BY <1>1, <1>2

(* A set of numbers has a first element. *)
LEMMA FirstOfIsFirst ==
    ASSUME NEW S, S \subseteq Nat, S # {}
    PROVE  FirstOf(S) \in S /\ \A r \in S : FirstOf(S) <= r
<1> DEFINE less == OpToRel(<, Nat)
<1>1. \E x \in S : \A y \in S : ~ (<<y, x>> \in less)
  BY NatLessThanWellFounded, WFMin, Zenon
<1>2. \A x, y \in Nat : y < x => <<y, x>> \in less
  BY Zenon DEF OpToRel
<1> HIDE DEF less
<1>3. PICK x \in S : \A y \in S : ~ (<<y, x>> \in less)
  BY <1>1
<1>4. \A y \in S : ~ (y < x)
  BY <1>2, <1>3, Zenon
<1>5. \A y \in S : x <= y
  BY <1>4
<1>6. QED
  BY <1>5, Zenon DEF FirstOf

(* The counter j of the loops: its value at a slot is the number of used   *)
(* slots in front of it.                                                   *)
LEMMA PassedCounts ==
    ASSUME NEW list \in Seq(Chunk), NEW s \in 1 .. RowLength(list) + 1
    PROVE  Passed(list)[s] = Cardinality(UsedBefore(list, s))
<1> DEFINE D == 1 .. RowLength(list) + 1
           Loop(f) == [r \in D |-> IF r = 1 THEN 0
                                   ELSE f[r - 1] + (IF At(list, r - 1) = NULL THEN 0 ELSE 1)]
           g == [r \in D |-> Cardinality(UsedBefore(list, r))]
<1>1. RowLength(list) \in Nat
  BY SlotsAreFinite
<1>2. UsedBefore(list, 1) = {}
  BY <1>1 DEF UsedBefore, UsedSlots
<1>3. ASSUME NEW r \in D, r # 1
      PROVE  Cardinality(UsedBefore(list, r)) =
               Cardinality(UsedBefore(list, r - 1)) + (IF At(list, r - 1) = NULL THEN 0 ELSE 1)
  <2>1. r - 1 \in 1 .. RowLength(list) /\ r \in Int
    BY <1>1, <1>3
  <2>2. CASE At(list, r - 1) = NULL
    <3>1. UsedBefore(list, r) = UsedBefore(list, r - 1)
      BY <1>1, <2>1, <2>2 DEF UsedBefore, UsedSlots
    <3>2. QED
      BY <2>1, <2>2, <3>1, SlotsAreFinite
  <2>3. CASE At(list, r - 1) # NULL
    <3>1. UsedBefore(list, r) = UsedBefore(list, r - 1) \cup {r - 1}
      BY <1>1, <2>1, <2>3 DEF UsedBefore, UsedSlots
    <3>2. r - 1 \notin UsedBefore(list, r - 1)
      BY <2>1 DEF UsedBefore
    <3>3. IsFiniteSet(UsedBefore(list, r - 1)) /\ Cardinality(UsedBefore(list, r - 1)) \in Nat
      BY <2>1, SlotsAreFinite
    <3>4. Cardinality(UsedBefore(list, r - 1) \cup {r - 1}) = Cardinality(UsedBefore(list, r - 1)) + 1
      BY <3>2, <3>3, FS_AddElement
    <3>5. QED
      BY <2>3, <3>1, <3>4
  <2>4. QED
    BY <2>2, <2>3
<1>4. g = Loop(g)
  <2>1. ASSUME NEW r \in D
        PROVE  g[r] = IF r = 1 THEN 0 ELSE g[r - 1] + (IF At(list, r - 1) = NULL THEN 0 ELSE 1)
    <3>1. CASE r = 1
      BY <1>2, <3>1, FS_EmptySet
    <3>2. CASE r # 1
      <4>1. r - 1 \in D
        BY <1>1, <3>2
      <4>2. QED
        BY <1>3, <3>2, <4>1
    <3>3. QED
      BY <3>1, <3>2
  <2> DEFINE step(r) == IF r = 1 THEN 0 ELSE g[r - 1] + (IF At(list, r - 1) = NULL THEN 0 ELSE 1)
  <2>2. \A r \in D : g[r] = step(r)
    BY <2>1
  <2>3. Loop(g) = [r \in D |-> step(r)] /\ g = [r \in D |-> g[r]]
    OBVIOUS
  <2> HIDE DEF g, step
  <2>4. QED
    BY <2>2, <2>3
<1>5. Passed(list) = Loop(Passed(list))
  <2>1. Passed(list) = CHOOSE f : f = Loop(f)
    BY DEF Passed
  <2> HIDE DEF g, Loop
  <2>2. QED
    BY <1>4, <2>1
<1>6. \A r \in D : Passed(list)[r] = g[r]
  <2> DEFINE Bad == {r \in D : Passed(list)[r] # g[r]}
  <2> SUFFICES ASSUME Bad # {} PROVE FALSE
    OBVIOUS
  <2>1. Bad \subseteq Nat
    BY <1>1
  <2> HIDE DEF Bad
  <2>2. PICK r \in Bad : \A q \in Bad : r <= q
    BY <2>1, FirstOfIsFirst
  <2>3. r \in D /\ Passed(list)[r] # g[r]
    BY <2>2 DEF Bad
  <2>4. CASE r = 1
    BY <1>4, <1>5, <2>3, <2>4
  <2>5. CASE r # 1
    <3>1. r - 1 \in D /\ r - 1 \notin Bad
      BY <1>1, <2>1, <2>2, <2>3, <2>5
    <3>2. Passed(list)[r - 1] = g[r - 1]
      BY <3>1 DEF Bad
    <3>3. g[r] = g[r - 1] + (IF At(list, r - 1) = NULL THEN 0 ELSE 1)
      BY <1>3, <2>3, <2>5, <3>1
    <3>4. Passed(list)[r] = Passed(list)[r - 1] + (IF At(list, r - 1) = NULL THEN 0 ELSE 1)
      BY <1>5, <2>3, <2>5
    <3>5. QED
      BY <2>3, <3>2, <3>3, <3>4
  <2>6. QED
    BY <2>4, <2>5
<1>7. QED
  BY <1>6

(* What the used places of a chunk are in the row. *)
LEMMA UsedOfChunk ==
    ASSUME NEW list \in Seq(Chunk), NEW k \in 1 .. Len(list)
    PROVE  LET S == {r \in UsedSlots(list) : ChunkOf(r) = k}
           IN  IsFiniteSet(S) /\ Cardinality(S) = Cardinality(UsedPlaces(list[k]))
<1> DEFINE S == {r \in UsedSlots(list) : ChunkOf(r) = k}
           P == UsedPlaces(list[k])
           f == [p \in P |-> SlotOf(k, p)]
<1>1. IsFiniteSet(P)
  <2>1. IsFiniteSet(Place) /\ P \subseteq Place
    BY EntrysAssumption, FS_Interval DEF Place, UsedPlaces
  <2>2. QED
    BY <2>1, FS_Subset
<1>2. k \in Nat \ {0}
  OBVIOUS
<1>3. \A p \in P : f[p] \in S /\ PlaceOf(f[p]) = p
  <2> SUFFICES ASSUME NEW p \in P PROVE f[p] \in S /\ PlaceOf(f[p]) = p
    OBVIOUS
  <2>1. p \in Place /\ list[k].pointer[p] # NULL
    BY DEF UsedPlaces
  <2>2. f[p] = SlotOf(k, p)
    OBVIOUS
  <2>3. QED
    BY <1>2, <2>1, <2>2, UsedAtPlace, SlotOfChunk DEF UsedSlots
<1>4. \A r \in S : PlaceOf(r) \in P /\ f[PlaceOf(r)] = r
  <2> SUFFICES ASSUME NEW r \in S PROVE PlaceOf(r) \in P /\ f[PlaceOf(r)] = r
    OBVIOUS
  <2>1. r \in Nat \ {0} /\ r \in 1 .. RowLength(list) /\ At(list, r) # NULL /\ ChunkOf(r) = k
    BY SlotsAreFinite DEF UsedSlots
  <2>2. PlaceOf(r) \in Place /\ r = SlotOf(k, PlaceOf(r))
    BY <2>1, ChunkOfSlot
  <2>3. list[k].pointer[PlaceOf(r)] # NULL
    BY <1>2, <2>1, <2>2, UsedAtPlace
  <2>4. PlaceOf(r) \in P
    BY <2>2, <2>3 DEF UsedPlaces
  <2>5. QED
    BY <2>2, <2>4
<1> HIDE DEF S, P
<1>5. f \in Bijection(P, S)
  <2>1. f \in [P -> S]
    BY <1>3
  <2>2. \A a, b \in P : f[a] = f[b] => a = b
    BY <1>3
  <2>3. \A r \in S : \E p \in P : f[p] = r
    BY <1>4
  <2>4. QED
    BY <2>1, <2>2, <2>3 DEF Bijection, Injection, Surjection, IsInjective
<1>6. IsFiniteSet(S) /\ Cardinality(S) = Cardinality(P)
  BY <1>1, <1>5, FS_Bijection DEF ExistsBijection
<1>7. QED
  BY <1>6 DEF S, P

(* The counts of the chunks add up to the used slots. *)
LEMMA EntryNCounts ==
    ASSUME NEW list, IsList(list)
    PROVE  EntryN(list) = Cardinality(UsedSlots(list))
<1> DEFINE D == 0 .. Len(list)
           Loop(f) == [k \in D |-> IF k = 0 THEN 0 ELSE f[k - 1] + list[k].used]
           UpTo(k) == {r \in UsedSlots(list) : ChunkOf(r) <= k}
           g == [k \in D |-> Cardinality(UpTo(k))]
           f == CHOOSE f : f = Loop(f)
<1>1. list \in Seq(Chunk) /\ Len(list) \in Nat /\ UsedSlots(list) \subseteq Nat \ {0}
  BY MaxChunkAssumption DEF IsList, UsedSlots
<1>2. \A r \in UsedSlots(list) : ChunkOf(r) \in 1 .. Len(list)
  <2> SUFFICES ASSUME NEW r \in UsedSlots(list) PROVE ChunkOf(r) \in 1 .. Len(list)
    OBVIOUS
  <2>1. ChunkOf(r) \in Nat \ {0} /\ PlaceOf(r) \in Place /\ r = SlotOf(ChunkOf(r), PlaceOf(r))
    BY <1>1, ChunkOfSlot
  <2>2. r \in 1 .. RowLength(list)
    BY DEF UsedSlots
  <2>3. ChunkOf(r) <= Len(list)
    BY <1>1, <2>1, <2>2, UsedAtPlace
  <2>4. QED
    BY <1>1, <2>1, <2>3
<1>3. UpTo(0) = {} /\ UpTo(Len(list)) = UsedSlots(list)
  BY <1>1, <1>2
<1>4. \A k \in D : IsFiniteSet(UpTo(k)) /\ Cardinality(UpTo(k)) \in Nat
  BY <1>1, SlotsAreFinite, FS_Subset, FS_CardinalityType
<1>5. ASSUME NEW k \in D, k # 0
      PROVE  Cardinality(UpTo(k)) = Cardinality(UpTo(k - 1)) + list[k].used
  <2> DEFINE S == {r \in UsedSlots(list) : ChunkOf(r) = k}
  <2>1. k \in 1 .. Len(list) /\ k - 1 \in D
    BY <1>1, <1>5
  <2>2. IsFiniteSet(S) /\ Cardinality(S) = list[k].used
    BY <1>1, <2>1, UsedOfChunk DEF IsList
  <2>3. UpTo(k) = UpTo(k - 1) \cup S /\ UpTo(k - 1) \cap S = {}
    BY <1>2, <2>1
  <2>4. IsFiniteSet(UpTo(k - 1)) /\ Cardinality(UpTo(k - 1)) \in Nat
    BY <1>4, <2>1
  <2> HIDE DEF UpTo, S
  <2>5. Cardinality(UpTo(k - 1) \cap S) = 0
    BY <2>3, FS_EmptySet
  <2>6. Cardinality(S) \in Nat
    BY <2>2, FS_CardinalityType
  <2>7. Cardinality(UpTo(k - 1) \cup S) =
          Cardinality(UpTo(k - 1)) + Cardinality(S) - Cardinality(UpTo(k - 1) \cap S)
    BY <2>2, <2>4, FS_Union
  <2>8. QED
    BY <2>2, <2>3, <2>4, <2>5, <2>6, <2>7
<1> HIDE DEF UpTo
<1>6. g = Loop(g)
  <2> DEFINE step(k) == IF k = 0 THEN 0 ELSE g[k - 1] + list[k].used
  <2>1. ASSUME NEW k \in D PROVE g[k] = step(k)
    <3>1. CASE k = 0
      BY <1>3, <3>1, FS_EmptySet
    <3>2. CASE k # 0
      <4>1. k - 1 \in D
        BY <1>1, <3>2
      <4>2. QED
        BY <1>5, <3>2, <4>1
    <3>3. QED
      BY <3>1, <3>2
  <2>2. Loop(g) = [k \in D |-> step(k)] /\ g = [k \in D |-> g[k]]
    OBVIOUS
  <2> HIDE DEF g, step
  <2>3. QED
    BY <2>1, <2>2
<1>7. f = Loop(f)
  <2> HIDE DEF g, Loop
  <2>1. QED
    BY <1>6
<1>8. EntryN(list) = f[Len(list)]
  BY DEF EntryN
<1>9. \A k \in D : f[k] = g[k]
  <2> DEFINE Bad == {k \in D : f[k] # g[k]}
  <2> HIDE DEF f
  <2> SUFFICES ASSUME Bad # {} PROVE FALSE
    OBVIOUS
  <2>1. Bad \subseteq Nat
    BY <1>1
  <2> HIDE DEF Bad
  <2>2. PICK k \in Bad : \A q \in Bad : k <= q
    BY <2>1, FirstOfIsFirst
  <2>3. k \in D /\ f[k] # g[k]
    BY <2>2 DEF Bad
  <2>4. CASE k = 0
    BY <1>6, <1>7, <2>3, <2>4
  <2>5. CASE k # 0
    <3>1. k - 1 \in D /\ k - 1 \notin Bad
      BY <1>1, <2>1, <2>2, <2>3, <2>5
    <3>2. f[k - 1] = g[k - 1]
      BY <3>1 DEF Bad
    <3>3. g[k] = g[k - 1] + list[k].used
      BY <1>5, <2>3, <2>5, <3>1
    <3>4. f[k] = f[k - 1] + list[k].used
      BY <1>7, <2>3, <2>5
    <3>5. QED
      BY <2>3, <3>2, <3>3, <3>4
  <2>6. QED
    BY <2>4, <2>5
<1>10. f[Len(list)] = g[Len(list)] /\ g[Len(list)] = Cardinality(UpTo(Len(list)))
  BY <1>1, <1>9
<1>11. QED
  BY <1>3, <1>8, <1>10

-----------------------------------------------------------------------------
(* The readers. *)

(* A slot in use is reached with the number of used slots before it, and    *)
(* no other one is.                                                         *)
LEMMA ReachedIsOne ==
    ASSUME NEW list \in Seq(Chunk), NEW s \in UsedSlots(list)
    PROVE  Reached(list, Cardinality(UsedBefore(list, s))) = {s}
<1>1. /\ RowLength(list) \in Nat /\ s \in 1 .. RowLength(list) /\ At(list, s) # NULL
  BY SlotsAreFinite DEF UsedSlots
<1>2. \A r \in UsedSlots(list) : r \in 1 .. RowLength(list) + 1
                                 /\ Passed(list)[r] = Cardinality(UsedBefore(list, r))
  BY <1>1, PassedCounts DEF UsedSlots
<1>3. ASSUME NEW q \in UsedSlots(list), NEW r \in UsedSlots(list), q < r
      PROVE  Cardinality(UsedBefore(list, q)) # Cardinality(UsedBefore(list, r))
  <2>1. q \in Int /\ r \in Int
    BY <1>1 DEF UsedSlots
  <2>2. UsedBefore(list, q) \subseteq UsedBefore(list, r) /\ q \in UsedBefore(list, r)
        /\ q \notin UsedBefore(list, q)
    BY <1>1, <1>3, <2>1 DEF UsedBefore, UsedSlots
  <2>3. IsFiniteSet(UsedBefore(list, r)) /\ Cardinality(UsedBefore(list, r)) \in Nat
        /\ Cardinality(UsedBefore(list, q)) \in Nat
    BY <2>1, SlotsAreFinite
  <2>4. Cardinality(UsedBefore(list, q)) < Cardinality(UsedBefore(list, r))
    BY <2>2, <2>3, FewerInAPart
  <2>5. QED
    BY <2>3, <2>4
<1>4. \A r \in UsedSlots(list) :
        Cardinality(UsedBefore(list, r)) = Cardinality(UsedBefore(list, s)) => r = s
  <2> SUFFICES ASSUME NEW r \in UsedSlots(list), r # s
               PROVE  Cardinality(UsedBefore(list, r)) # Cardinality(UsedBefore(list, s))
    OBVIOUS
  <2>1. r < s \/ s < r
    BY <1>1 DEF UsedSlots
  <2>2. QED
    BY <1>3, <2>1
<1>5. QED
  BY <1>1, <1>2, <1>4 DEF Reached, UsedSlots

LEMMA FirstOfOne == ASSUME NEW s \in Nat PROVE FirstOf({s}) = s
BY FirstOfIsFirst

(* Beyond the last one there is nothing. *)
LEMMA NothingBeyond ==
    ASSUME NEW list \in Seq(Chunk)
    PROVE  Reached(list, Cardinality(UsedSlots(list))) = {}
<1> SUFFICES ASSUME NEW s \in Reached(list, Cardinality(UsedSlots(list))) PROVE FALSE
  OBVIOUS
<1>1. RowLength(list) \in Nat /\ s \in UsedSlots(list) /\ s \in 1 .. RowLength(list)
      /\ Passed(list)[s] = Cardinality(UsedSlots(list))
  BY SlotsAreFinite DEF Reached, UsedSlots
<1>2. Passed(list)[s] = Cardinality(UsedBefore(list, s))
  BY <1>1, PassedCounts
<1>3. UsedBefore(list, s) \subseteq UsedSlots(list) /\ s \notin UsedBefore(list, s)
  BY <1>1 DEF UsedBefore
<1>4. Cardinality(UsedBefore(list, s)) < Cardinality(UsedSlots(list))
  BY <1>1, <1>3, SlotsAreFinite, FewerInAPart
<1>5. Cardinality(UsedSlots(list)) \in Nat
  BY SlotsAreFinite
<1>6. QED
  BY <1>1, <1>2, <1>4, <1>5

(* The row. *)
RowOf(list) == [s \in 1 .. MaxChunk * ENTRYS_PER_ARRAY |-> At(list, s)]

LEMMA RowIsUsed ==
    ASSUME NEW list, IsList(list)
    PROVE  /\ RowLength(list) \in Nat /\ RowLength(list) <= MaxChunk * ENTRYS_PER_ARRAY
           /\ \A s \in Nat \ {0} : s > RowLength(list) => At(list, s) = NULL
           /\ Occupied(RowOf(list)) = UsedSlots(list)
           /\ \A s \in UsedSlots(list) : /\ s \in Nat \ {0} /\ RowOf(list)[s] = At(list, s)
                                         /\ Position(RowOf(list), s) = Cardinality(UsedBefore(list, s))
<1>1. list \in Seq(Chunk) /\ Len(list) \in Nat /\ Len(list) <= MaxChunk
  BY MaxChunkAssumption DEF IsList
<1>2. RowLength(list) \in Nat /\ RowLength(list) <= MaxChunk * ENTRYS_PER_ARRAY
      /\ MaxChunk * ENTRYS_PER_ARRAY \in Nat
  BY <1>1, EntrysAssumption, MaxChunkAssumption DEF RowLength
<1>3. ASSUME NEW s \in Nat \ {0}, s > RowLength(list) PROVE At(list, s) = NULL
  <2>1. ChunkOf(s) \in Nat \ {0} /\ PlaceOf(s) \in Place /\ s = SlotOf(ChunkOf(s), PlaceOf(s))
    BY ChunkOfSlot
  <2>2. s \notin 1 .. RowLength(list)
    BY <1>2, <1>3
  <2>3. ~ ChunkOf(s) <= Len(list)
    BY <1>1, <2>1, <2>2, UsedAtPlace
  <2>4. QED
    BY <2>3 DEF At
<1>4. Occupied(RowOf(list)) = UsedSlots(list)
  BY <1>2, <1>3 DEF Occupied, RowOf, UsedSlots
<1>5. \A s \in UsedSlots(list) : s \in Nat \ {0} /\ RowOf(list)[s] = At(list, s)
  BY <1>2 DEF UsedSlots, RowOf
<1>6. \A s : Position(RowOf(list), s) = Cardinality(UsedBefore(list, s))
  BY <1>4 DEF Position, UsedBefore
<1>7. QED
  BY <1>2, <1>3, <1>4, <1>5, <1>6

LEMMA ReadersAgree == ListInv => ReadersSeeTheRow
<1> SUFFICES ASSUME ListInv PROVE ReadersSeeTheRow
  OBVIOUS
<1>1. IsList(chunks) /\ chunks \in Seq(Chunk) /\ Row = RowOf(chunks)
  BY DEF ListInv, IsList, Row, RowOf
<1>2. Occupied(Row) = UsedSlots(chunks) /\ RowLength(chunks) \in Nat
      /\ \A s \in UsedSlots(chunks) : /\ s \in Nat /\ Row[s] = At(chunks, s)
                                      /\ Position(Row, s) = Cardinality(UsedBefore(chunks, s))
  BY <1>1, RowIsUsed
<1>3. EntryN(chunks) = alist_get_entry_n(Row)
  BY <1>1, <1>2, EntryNCounts DEF alist_get_entry_n
<1>4. ASSUME NEW s \in Occupied(Row)
      PROVE  alist_get_by_index(chunks, Position(Row, s)) = Row[s]
  <2>1. Reached(chunks, Position(Row, s)) = {s} /\ FirstOf({s}) = s
    BY <1>1, <1>2, <1>4, ReachedIsOne, FirstOfOne
  <2>2. QED
    BY <1>2, <1>4, <2>1 DEF alist_get_by_index
<1>5. alist_get_by_index(chunks, EntryN(chunks)) = NULL
  BY <1>1, EntryNCounts, NothingBeyond DEF alist_get_by_index
<1>6. ASSUME NEW e \in Entry
      PROVE  alist_get_index(chunks, e) =
                 IF e \in Entries(Row)
                 THEN Position(Row, FirstOf({s \in Occupied(Row) : Row[s] = e})) ELSE -1
  <2> DEFINE at == {s \in 1 .. RowLength(chunks) : At(chunks, s) = e}
  <2>1. at = {s \in Occupied(Row) : Row[s] = e}
    BY <1>2, EntryAssumption DEF UsedSlots
  <2>2. at = {} <=> e \notin Entries(Row)
    BY <2>1 DEF Entries
  <2>3. ASSUME at # {}
        PROVE  Passed(chunks)[FirstOf(at)] = Position(Row, FirstOf(at))
    <3>1. at \subseteq UsedSlots(chunks) /\ at \subseteq Nat
      BY <1>2, <2>1
    <3>2. FirstOf(at) \in UsedSlots(chunks)
      BY <2>3, <3>1, FirstOfIsFirst
    <3>3. FirstOf(at) \in 1 .. RowLength(chunks) + 1
      BY <1>2, <3>2 DEF UsedSlots
    <3>4. QED
      BY <1>1, <1>2, <3>2, <3>3, PassedCounts
  <2>4. alist_get_index(chunks, e) = IF at = {} THEN -1 ELSE Passed(chunks)[FirstOf(at)]
    BY DEF alist_get_index
  <2> HIDE DEF at
  <2>5. QED
    BY <2>1, <2>2, <2>3, <2>4
<1>7. QED
  BY <1>3, <1>4, <1>5, <1>6 DEF ReadersSeeTheRow

-----------------------------------------------------------------------------
(* The writers. *)
LEMMA UsedPlacesAreFinite ==
    ASSUME NEW chunk
    PROVE  /\ IsFiniteSet(Place) /\ Cardinality(Place) = ENTRYS_PER_ARRAY
           /\ IsFiniteSet(UsedPlaces(chunk)) /\ Cardinality(UsedPlaces(chunk)) \in Nat
<1>1. IsFiniteSet(Place) /\ Cardinality(Place) = ENTRYS_PER_ARRAY
  BY EntrysAssumption, FS_Interval DEF Place
<1>2. UsedPlaces(chunk) \subseteq Place
  BY DEF UsedPlaces
<1>3. QED
  BY <1>1, <1>2, FS_Subset, FS_CardinalityType

(* alist_add gets to a chunk that is not full, and that one has a place. *)
LEMMA AddWalkEnds == ListInv => AddFindsAPlace
<1> SUFFICES ASSUME ListInv PROVE AddFindsAPlace
  OBVIOUS
<1> DEFINE S == {k \in 1 .. Len(chunks) : chunks[k].used # ENTRYS_PER_ARRAY}
           k == FirstOf(S)
           T == {p \in Place : chunks[k].pointer[p] = NULL}
           p == FirstOf(T)
<1>1. Len(chunks) \in S /\ S \subseteq Nat
  BY MaxChunkAssumption DEF ListInv, IsList
<1>2. k \in S /\ \A j \in S : k <= j
  BY <1>1, FirstOfIsFirst
<1>3. k \in 1 .. Len(chunks) /\ IsAddChunk(k)
  <2>1. Len(chunks) \in Nat
    BY DEF ListInv, IsList
  <2> HIDE DEF k
  <2>2. QED
    BY <1>2, <2>1 DEF IsAddChunk
<1> HIDE DEF k, S
<1>4. T # {}
  <2>1. UsedPlaces(chunks[k]) # Place
    BY <1>3, UsedPlacesAreFinite DEF ListInv, IsList, IsAddChunk
  <2>2. QED
    BY <2>1 DEF UsedPlaces
<1>5. T \subseteq Nat /\ p \in T /\ \A q \in T : p <= q
  <2>1. T \subseteq Nat
    BY EntrysAssumption DEF Place
  <2>2. QED
    BY <1>4, <2>1, FirstOfIsFirst
<1>6. p \in Place /\ IsAddPlace(k, p)
  <2> HIDE DEF p
  <2>1. QED
    BY <1>5, EntrysAssumption DEF IsAddPlace, Place
<1>7. QED
  BY <1>3, <1>6 DEF AddFindsAPlace

(* A list of which one pointer and one count have been written. *)
Written(list, k, p, value, count) ==
    [list EXCEPT ![k] = [used |-> count, pointer |-> [list[k].pointer EXCEPT ![p] = value]]]

IsWritten(new, list, k, p, value, count) ==
    /\ new \in Seq(Chunk) /\ Len(new) = Len(list)
    /\ \A j \in 1 .. Len(list) : j # k => new[j] = list[j]
    /\ new[k].used = count
    /\ new[k].pointer[p] = value
    /\ \A q \in Place : q # p => new[k].pointer[q] = list[k].pointer[q]
    /\ \A s \in Nat \ {0} : At(new, s) = IF s = SlotOf(k, p) THEN value ELSE At(list, s)

LEMMA WrittenIs ==
    ASSUME NEW list \in Seq(Chunk), NEW k \in 1 .. Len(list), NEW p \in Place,
           NEW value \in Entry \cup {NULL}, NEW count \in 0 .. ENTRYS_PER_ARRAY
    PROVE  IsWritten(Written(list, k, p, value, count), list, k, p, value, count)
<1> DEFINE new == Written(list, k, p, value, count)
<1>1. list[k] \in Chunk
  OBVIOUS
<1>2. [list[k].pointer EXCEPT ![p] = value] \in [Place -> Entry \cup {NULL}]
  BY <1>1 DEF Chunk
<1>3. [used |-> count, pointer |-> [list[k].pointer EXCEPT ![p] = value]] \in Chunk
  BY <1>2 DEF Chunk
<1>4. new \in Seq(Chunk) /\ Len(new) = Len(list)
  BY <1>3 DEF Written
<1>5. /\ \A j \in 1 .. Len(list) : j # k => new[j] = list[j]
      /\ new[k] = [used |-> count, pointer |-> [list[k].pointer EXCEPT ![p] = value]]
  BY DEF Written
<1> HIDE DEF new
<1>6. /\ new[k].used = count
      /\ new[k].pointer[p] = value
      /\ \A q \in Place : q # p => new[k].pointer[q] = list[k].pointer[q]
  BY <1>1, <1>5 DEF Chunk
<1>7. ASSUME NEW s \in Nat \ {0}
      PROVE  At(new, s) = IF s = SlotOf(k, p) THEN value ELSE At(list, s)
  <2> DEFINE j == ChunkOf(s)
             q == PlaceOf(s)
  <2>1. j \in Nat \ {0} /\ q \in Place /\ s = SlotOf(j, q)
    BY ChunkOfSlot
  <2>2. s = SlotOf(k, p) <=> j = k /\ q = p
    <3>1. ChunkOf(SlotOf(k, p)) = k /\ PlaceOf(SlotOf(k, p)) = p
      BY SlotOfChunk
    <3>2. QED
      BY <2>1, <3>1
  <2>3. /\ At(new, s) = IF j <= Len(list) THEN new[j].pointer[q] ELSE NULL
        /\ At(list, s) = IF j <= Len(list) THEN list[j].pointer[q] ELSE NULL
    BY <1>4 DEF At
  <2> HIDE DEF j, q
  <2>4. CASE j \in 1 .. Len(list)
    <3>1. new[j].pointer[q] = IF j = k /\ q = p THEN value ELSE list[j].pointer[q]
      BY <1>5, <1>6, <2>1, <2>4
    <3>2. QED
      BY <2>2, <2>3, <2>4, <3>1
  <2>5. CASE j \notin 1 .. Len(list)
    BY <2>1, <2>2, <2>3, <2>5
  <2>6. QED
    BY <2>4, <2>5
<1>8. QED
  BY <1>4, <1>5, <1>6, <1>7 DEF new, IsWritten

(* A new chunk at the end changes nothing of the row. *)
LEMMA AppendedIs ==
    ASSUME NEW list \in Seq(Chunk)
    PROVE  LET new == Append(list, ZeroChunk) IN
           /\ new \in Seq(Chunk) /\ Len(new) = Len(list) + 1
           /\ \A j \in 1 .. Len(list) : new[j] = list[j]
           /\ new[Len(list) + 1] = ZeroChunk
           /\ \A s \in Nat \ {0} : At(new, s) = At(list, s)
<1> DEFINE new == Append(list, ZeroChunk)
<1>1. ZeroChunk \in Chunk /\ \A q \in Place : ZeroChunk.pointer[q] = NULL
  BY EntrysAssumption DEF ZeroChunk, Chunk
<1>2. /\ new \in Seq(Chunk) /\ Len(new) = Len(list) + 1
      /\ \A j \in 1 .. Len(list) : new[j] = list[j]
      /\ new[Len(list) + 1] = ZeroChunk
  BY <1>1
<1>3. ASSUME NEW s \in Nat \ {0}
      PROVE  At(new, s) = At(list, s)
  <2> DEFINE j == ChunkOf(s)
             q == PlaceOf(s)
  <2>1. j \in Nat \ {0} /\ q \in Place
    BY ChunkOfSlot
  <2>2. /\ At(new, s) = IF j <= Len(new) THEN new[j].pointer[q] ELSE NULL
        /\ At(list, s) = IF j <= Len(list) THEN list[j].pointer[q] ELSE NULL
    BY DEF At
  <2> HIDE DEF j, q, new
  <2>3. QED
    BY <1>1, <1>2, <2>1, <2>2
<1>4. QED
  BY <1>2, <1>3

(* The empty list: no pointer is used. *)
LEMMA ZeroChunkIsEmpty ==
    /\ UsedPlaces(ZeroChunk) = {} /\ ZeroChunk.used = 0 /\ ZeroChunk \in Chunk
    /\ Cardinality(UsedPlaces(ZeroChunk)) = 0
<1>1. UsedPlaces(ZeroChunk) = {}
  BY DEF UsedPlaces, ZeroChunk
<1>2. QED
  BY <1>1, FS_EmptySet, EntrysAssumption DEF ZeroChunk, Chunk

LEMMA ListInitHolds == ListInit => ListInv
BY ZeroChunkIsEmpty, EntrysAssumption, MaxChunkAssumption DEF ListInit, ListInv, IsList

(* A list stays one when the count follows the pointer. *)
CountFollows(list, k, p, value, count) ==
    count = list[k].used + (IF value = NULL THEN 0 ELSE 1)
                - (IF list[k].pointer[p] = NULL THEN 0 ELSE 1)

LEMMA WrittenIsAList ==
    ASSUME NEW list, IsList(list), NEW k \in 1 .. Len(list), NEW p \in Place,
           NEW value \in Entry \cup {NULL}, NEW count \in 0 .. ENTRYS_PER_ARRAY,
           CountFollows(list, k, p, value, count),
           NEW new, IsWritten(new, list, k, p, value, count)
    PROVE  \A j \in 1 .. Len(list) : new[j].used = Cardinality(UsedPlaces(new[j]))
<1> DEFINE U == UsedPlaces(list[k])
<1>1. list \in Seq(Chunk)
  BY DEF IsList
<1>2. /\ \A j \in 1 .. Len(list) : j # k => new[j] = list[j]
      /\ new[k].used = count
      /\ new[k].pointer[p] = value
      /\ \A q \in Place : q # p => new[k].pointer[q] = list[k].pointer[q]
  BY DEF IsWritten
<1>3. IsFiniteSet(U) /\ list[k].used = Cardinality(U) /\ Cardinality(U) \in Nat
  BY UsedPlacesAreFinite DEF IsList
<1>4. UsedPlaces(new[k]) = IF value # NULL THEN U \cup {p} ELSE U \ {p}
  BY <1>2 DEF UsedPlaces
<1>5. p \in U <=> list[k].pointer[p] # NULL
  BY DEF UsedPlaces
<1> HIDE DEF U
<1>6. new[k].used = Cardinality(UsedPlaces(new[k]))
  <2>1. /\ Cardinality(U \cup {p}) = IF p \in U THEN Cardinality(U) ELSE Cardinality(U) + 1
        /\ Cardinality(U \ {p}) = IF p \in U THEN Cardinality(U) - 1 ELSE Cardinality(U)
    BY <1>3, FS_AddElement, FS_RemoveElement
  <2>2. count = Cardinality(U) + (IF value = NULL THEN 0 ELSE 1) - (IF p \in U THEN 1 ELSE 0)
    BY <1>3, <1>5 DEF CountFollows
  <2>3. QED
    BY <1>2, <1>3, <1>4, <2>1, <2>2
<1>7. \A j \in 1 .. Len(list) : j # k => new[j].used = Cardinality(UsedPlaces(new[j]))
  BY <1>2 DEF IsList
<1>8. QED
  BY <1>6, <1>7

(* What a written list looks like as a row. *)
OnlyAt(s, value, new, list) ==
    \A r \in Nat \ {0} : At(new, r) = IF r = s THEN value ELSE At(list, r)

LEMMA WrittenRow ==
    ASSUME NEW list, IsList(list), NEW k \in 1 .. Len(list), NEW p \in Place, NEW value,
           NEW new, OnlyAt(SlotOf(k, p), value, new, list)
    PROVE  /\ SlotOf(k, p) \in 1 .. MaxChunk * ENTRYS_PER_ARRAY
           /\ RowOf(list)[SlotOf(k, p)] = list[k].pointer[p]
           /\ RowOf(new) = [RowOf(list) EXCEPT ![SlotOf(k, p)] = value]
<1>1. list \in Seq(Chunk) /\ Len(list) \in Nat /\ k \in Nat \ {0}
      /\ MaxChunk * ENTRYS_PER_ARRAY \in Nat
  BY EntrysAssumption, MaxChunkAssumption DEF IsList
<1>2. /\ SlotOf(k, p) \in 1 .. RowLength(list) /\ SlotOf(k, p) \in Nat \ {0}
      /\ At(list, SlotOf(k, p)) = list[k].pointer[p]
  BY <1>1, UsedAtPlace, SlotOfChunk
<1>3. SlotOf(k, p) \in 1 .. MaxChunk * ENTRYS_PER_ARRAY
  BY <1>1, <1>2, RowIsUsed
<1>4. \A s \in 1 .. MaxChunk * ENTRYS_PER_ARRAY : s \in Nat \ {0}
  BY <1>1
<1>5. QED
  BY <1>2, <1>3, <1>4 DEF RowOf, OnlyAt

(* alist_add takes the first empty slot, whichever chunk it lies in. *)
LEMMA AddTakesTheFirstSlot ==
    ASSUME ListInv, NEW e \in Entry, alist_add(e)
    PROVE  /\ ListInv'
           /\ \E s \in 1 .. MaxChunk * ENTRYS_PER_ARRAY :
                IsAddSlot(Row, s) /\ Row' = [Row EXCEPT ![s] = e]
<1>1. PICK k \in 1 .. Len(chunks), p \in Place :
        /\ IsAddChunk(k) /\ IsAddPlace(k, p)
        /\ NeedsNewChunk(k) => Len(chunks) < MaxChunk
        /\ chunks' = IF NeedsNewChunk(k) THEN Append(Put(k, p, e), ZeroChunk)
                     ELSE Put(k, p, e)
  BY DEF alist_add
<1> DEFINE put == Put(k, p, e)
           s == SlotOf(k, p)
<1>2. /\ IsList(chunks) /\ chunks \in Seq(Chunk) /\ chunks[k] \in Chunk
      /\ Len(chunks) \in Nat \ {0} /\ Len(chunks) <= MaxChunk /\ MaxChunk \in Nat
      /\ chunks[Len(chunks)].used # ENTRYS_PER_ARRAY
      /\ ENTRYS_PER_ARRAY \in Nat \ {0}
  BY EntrysAssumption, MaxChunkAssumption DEF ListInv, IsList
<1>3. /\ chunks[k].used \in 0 .. ENTRYS_PER_ARRAY /\ chunks[k].used + 1 \in 0 .. ENTRYS_PER_ARRAY
      /\ chunks[k].pointer[p] = NULL
  BY <1>1, <1>2 DEF Chunk, IsAddChunk, IsAddPlace
<1>4. put = Written(chunks, k, p, e, chunks[k].used + 1)
  BY <1>2 DEF Put, Written, Chunk
<1>5. IsWritten(put, chunks, k, p, e, chunks[k].used + 1)
  BY <1>2, <1>3, <1>4, WrittenIs
<1> HIDE DEF put
<1>6. CountFollows(chunks, k, p, e, chunks[k].used + 1)
  BY <1>3, EntryAssumption DEF CountFollows
<1>7. \A j \in 1 .. Len(chunks) : put[j].used = Cardinality(UsedPlaces(put[j]))
  BY <1>2, <1>3, <1>5, <1>6, WrittenIsAList
<1>8. /\ put \in Seq(Chunk) /\ Len(put) = Len(chunks)
      /\ \A j \in 1 .. Len(chunks) : j # k => put[j] = chunks[j]
      /\ put[k].used = chunks[k].used + 1
      /\ \A r \in Nat \ {0} : At(put, r) = IF r = s THEN e ELSE At(chunks, r)
  BY <1>5 DEF IsWritten
<1>9. IsList(chunks') /\ \A r \in Nat \ {0} : At(chunks', r) = At(put, r)
  <2>1. CASE NeedsNewChunk(k)
    <3> DEFINE new == Append(put, ZeroChunk)
    <3>1. chunks' = new /\ Len(chunks) < MaxChunk
      BY <1>1, <2>1 DEF put
    <3>2. /\ new \in Seq(Chunk) /\ Len(new) = Len(put) + 1
          /\ \A j \in 1 .. Len(put) : new[j] = put[j]
          /\ new[Len(put) + 1] = ZeroChunk
          /\ \A r \in Nat \ {0} : At(new, r) = At(put, r)
      BY <1>8, AppendedIs
    <3> HIDE DEF new
    <3>3. \A j \in 1 .. Len(new) : new[j].used = Cardinality(UsedPlaces(new[j]))
      <4> SUFFICES ASSUME NEW j \in 1 .. Len(new)
                   PROVE  new[j].used = Cardinality(UsedPlaces(new[j]))
        OBVIOUS
      <4>1. CASE j = Len(put) + 1
        BY <3>2, <4>1, ZeroChunkIsEmpty
      <4>2. CASE j # Len(put) + 1
        <5>1. j \in 1 .. Len(put) /\ j \in 1 .. Len(chunks)
          BY <1>2, <1>8, <3>2, <4>2
        <5>2. QED
          BY <1>7, <3>2, <5>1
      <4>3. QED
        BY <4>1, <4>2
    <3>4. Len(new) \in 1 .. MaxChunk /\ new[Len(new)].used # ENTRYS_PER_ARRAY
      BY <1>2, <1>8, <3>1, <3>2, ZeroChunkIsEmpty
    <3>5. QED
      BY <3>1, <3>2, <3>3, <3>4 DEF IsList
  <2>2. CASE ~ NeedsNewChunk(k)
    <3>1. chunks' = put
      BY <1>1, <2>2 DEF put
    <3>2. put[Len(put)].used # ENTRYS_PER_ARRAY
      BY <1>2, <1>8, <2>2 DEF NeedsNewChunk
    <3>3. Len(put) \in 1 .. MaxChunk
      BY <1>2, <1>8
    <3>4. QED
      BY <1>7, <1>8, <3>1, <3>2, <3>3 DEF IsList
  <2>3. QED
    BY <2>1, <2>2
<1>10. /\ s \in 1 .. MaxChunk * ENTRYS_PER_ARRAY
       /\ RowOf(chunks)[s] = NULL
       /\ RowOf(chunks') = [RowOf(chunks) EXCEPT ![s] = e]
  <2>1. OnlyAt(SlotOf(k, p), e, chunks', chunks)
    BY <1>8, <1>9 DEF OnlyAt
  <2>2. QED
    BY <1>2, <1>3, <2>1, WrittenRow
<1>11. IsAddSlot(RowOf(chunks), s)
  <2> SUFFICES ASSUME NEW r \in 1 .. MaxChunk * ENTRYS_PER_ARRAY, r < s, RowOf(chunks)[r] = NULL
               PROVE  FALSE
    <3>1. DOMAIN RowOf(chunks) = 1 .. MaxChunk * ENTRYS_PER_ARRAY
          /\ MaxChunk * ENTRYS_PER_ARRAY \in Nat
      BY <1>2 DEF RowOf
    <3>2. QED
      BY <1>10, <3>1 DEF IsAddSlot, Occupied
  <2> DEFINE j == ChunkOf(r)
             q == PlaceOf(r)
  <2>1. r \in Nat \ {0} /\ At(chunks, r) = NULL
    BY <1>2 DEF RowOf
  <2>2. j \in Nat \ {0} /\ q \in Place /\ r = SlotOf(j, q)
    BY <2>1, ChunkOfSlot
  <2> HIDE DEF j, q
  <2>3. j <= k
    <3>1. r <= k * ENTRYS_PER_ARRAY
      <4>1. k \in Nat /\ s \in Nat \ {0} /\ s <= k * ENTRYS_PER_ARRAY /\ k * ENTRYS_PER_ARRAY \in Nat
        BY <1>2, ChunksInOrder, SlotOfChunk
      <4> HIDE DEF s
      <4>2. QED
        BY <2>1, <4>1
    <3>2. QED
      BY <2>2, <3>1, ChunksInOrder
  <2>4. chunks[j].pointer[q] = NULL /\ j \in 1 .. Len(chunks)
    BY <1>2, <2>1, <2>2, <2>3, UsedAtPlace
  <2>5. CASE j = k
    <3>1. q < p
      BY <1>2, <2>2, <2>5 DEF SlotOf, Place
    <3>2. q \in 1 .. p - 1
      BY <1>2, <2>2, <3>1 DEF Place
    <3>3. QED
      BY <1>1, <2>4, <2>5, <3>2 DEF IsAddPlace
  <2>6. CASE j # k
    <3>1. chunks[j].used = ENTRYS_PER_ARRAY
      BY <1>1, <2>3, <2>4, <2>6 DEF IsAddChunk
    <3>2. Cardinality(UsedPlaces(chunks[j])) = Cardinality(Place)
      BY <1>2, <2>4, <3>1, UsedPlacesAreFinite DEF IsList
    <3>3. UsedPlaces(chunks[j]) = Place
      <4>1. UsedPlaces(chunks[j]) \in SUBSET Place
        BY DEF UsedPlaces
      <4>2. QED
        BY <3>2, <4>1, UsedPlacesAreFinite, FS_Subset
    <3>4. QED
      BY <2>2, <2>4, <3>3 DEF UsedPlaces
  <2>7. QED
    BY <2>5, <2>6
<1>12. Row = RowOf(chunks) /\ Row' = RowOf(chunks')
  BY DEF Row, RowOf
<1> HIDE DEF s
<1>13. QED
  BY <1>9, <1>10, <1>11, <1>12 DEF ListInv

(* A used pointer is written or emptied: the list stays one. *)
Rewritten(k, p, value) ==
    chunks' = Written(chunks, k, p, value, chunks[k].used - (IF value = NULL THEN 1 ELSE 0))

LEMMA RewrittenIsAList ==
    ASSUME ListInv, NEW k \in 1 .. Len(chunks), NEW p \in Place,
           chunks[k].pointer[p] # NULL, NEW value \in Entry \cup {NULL},
           Rewritten(k, p, value)
    PROVE  ListInv' /\ Row' = [Row EXCEPT ![SlotOf(k, p)] = value]
           /\ SlotOf(k, p) \in UsedSlots(chunks)
<1> DEFINE count == chunks[k].used - (IF value = NULL THEN 1 ELSE 0)
<1>1. /\ IsList(chunks) /\ chunks \in Seq(Chunk) /\ chunks[k] \in Chunk
      /\ Len(chunks) \in Nat \ {0} /\ Len(chunks) \in 1 .. MaxChunk
      /\ chunks[Len(chunks)].used # ENTRYS_PER_ARRAY
      /\ ENTRYS_PER_ARRAY \in Nat \ {0}
  BY EntrysAssumption, MaxChunkAssumption DEF ListInv, IsList
<1>2. chunks[k].used \in 1 .. ENTRYS_PER_ARRAY
  <2>1. chunks[k].used \in 0 .. ENTRYS_PER_ARRAY
    BY <1>1 DEF Chunk
  <2>2. chunks[k].used = Cardinality(UsedPlaces(chunks[k])) /\ UsedPlaces(chunks[k]) # {}
    BY <1>1 DEF IsList, UsedPlaces
  <2>3. chunks[k].used # 0
    BY <2>2, UsedPlacesAreFinite, FS_EmptySet
  <2>4. QED
    BY <1>1, <2>1, <2>3
<1>3. count \in 0 .. ENTRYS_PER_ARRAY
      /\ CountFollows(chunks, k, p, value, count)
  BY <1>1, <1>2 DEF CountFollows
<1>4. count <= chunks[k].used
  BY <1>2
<1> HIDE DEF count
<1>5. IsWritten(chunks', chunks, k, p, value, count)
  BY <1>1, <1>3, WrittenIs DEF count, Rewritten
<1>6. \A j \in 1 .. Len(chunks) : chunks'[j].used = Cardinality(UsedPlaces(chunks'[j]))
  <2>1. PICK new : new = chunks'
    OBVIOUS
  <2>2. IsList(chunks) /\ IsWritten(new, chunks, k, p, value, count)
    BY <1>1, <1>5, <2>1
  <2>3. \A j \in 1 .. Len(chunks) : new[j].used = Cardinality(UsedPlaces(new[j]))
    <3>1. PICK n \in 0 .. ENTRYS_PER_ARRAY : n = count
      BY <1>3
    <3>2. IsWritten(new, chunks, k, p, value, n) /\ CountFollows(chunks, k, p, value, n)
      BY <1>3, <2>2, <3>1
    <3>3. IsList(chunks)
      BY <1>1
    <3>4. QED
      BY <3>2, <3>3, WrittenIsAList
  <2>4. QED
    BY <2>1, <2>3
<1>7. /\ chunks' \in Seq(Chunk) /\ Len(chunks') = Len(chunks)
      /\ \A j \in 1 .. Len(chunks) : j # k => chunks'[j] = chunks[j]
      /\ chunks'[k].used = count
      /\ OnlyAt(SlotOf(k, p), value, chunks', chunks)
  BY <1>5 DEF IsWritten, OnlyAt
<1>8. chunks'[Len(chunks)].used # ENTRYS_PER_ARRAY
  <2>1. CASE Len(chunks) = k
    <3>1. chunks[k].used < ENTRYS_PER_ARRAY
      BY <1>1, <1>2, <2>1
    <3>2. QED
      BY <1>1, <1>2, <1>3, <1>4, <1>7, <2>1, <3>1
  <2>2. CASE Len(chunks) # k
    <3>1. Len(chunks) \in 1 .. Len(chunks)
      BY <1>1
    <3>2. QED
      BY <1>1, <1>7, <2>2, <3>1
  <2>3. QED
    BY <2>1, <2>2
<1>9. ListInv'
  BY <1>1, <1>6, <1>7, <1>8 DEF ListInv, IsList
<1>10. RowOf(chunks') = [RowOf(chunks) EXCEPT ![SlotOf(k, p)] = value]
  BY <1>1, <1>7, WrittenRow
<1>11. SlotOf(k, p) \in UsedSlots(chunks)
  BY <1>1, UsedAtPlace DEF UsedSlots
<1>12. Row = RowOf(chunks) /\ Row' = RowOf(chunks')
  BY DEF Row, RowOf
<1>13. QED
  BY <1>9, <1>10, <1>11, <1>12

(* alist_remove empties the first slot of the entry. *)
LEMMA RemoveEmptiesTheFirst ==
    ASSUME ListInv, NEW e \in Entry, alist_remove_entry(e)
    PROVE  ListInv' /\ Row' = alist_remove(Row, e)
<1>1. PICK k \in 1 .. Len(chunks), p \in Place :
        IsPlaceOf(e, k, p) /\ chunks' = Emptied(k, p)
  BY DEF alist_remove_entry
<1> DEFINE s == SlotOf(k, p)
           N == MaxChunk * ENTRYS_PER_ARRAY
<1>2. /\ IsList(chunks) /\ chunks \in Seq(Chunk) /\ chunks[k] \in Chunk
      /\ Len(chunks) \in Nat \ {0} /\ k \in Nat \ {0}
      /\ ENTRYS_PER_ARRAY \in Nat \ {0} /\ N \in Nat
  BY EntrysAssumption, MaxChunkAssumption DEF ListInv, IsList
<1>3. chunks[k].pointer[p] = e /\ e # NULL
  BY <1>1, EntryAssumption DEF IsPlaceOf
<1>4. Rewritten(k, p, NULL)
  BY <1>1, <1>2 DEF Emptied, Written, Chunk, Rewritten
<1>5. /\ ListInv' /\ Row' = [Row EXCEPT ![s] = NULL] /\ s \in UsedSlots(chunks)
  BY <1>3, <1>4, RewrittenIsAList
<1>6. /\ Row = [r \in 1 .. N |-> At(chunks, r)]
      /\ s \in 1 .. N /\ Row[s] = e
  <2>1. s \in 1 .. RowLength(chunks) /\ At(chunks, s) = e
    BY <1>2, <1>3, UsedAtPlace
  <2> HIDE DEF s
  <2>2. s \in 1 .. N
    BY <1>2, <2>1, RowIsUsed
  <2>3. QED
    BY <2>1, <2>2 DEF Row
<1>7. ASSUME NEW r \in 1 .. N, Row[r] = e PROVE s <= r
  <2> DEFINE j == ChunkOf(r)
             q == PlaceOf(r)
  <2>1. r \in Nat \ {0} /\ At(chunks, r) = e
    BY <1>2, <1>6, <1>7
  <2>2. j \in Nat \ {0} /\ q \in Place /\ r = SlotOf(j, q)
    BY <2>1, ChunkOfSlot
  <2> HIDE DEF j, q
  <2>3. j \in 1 .. Len(chunks) /\ chunks[j].pointer[q] = e
    BY <1>2, <1>3, <2>1, <2>2, UsedAtPlace
  <2>4. CASE j <= k
    <3>1. j = k /\ p <= q
      BY <1>1, <1>2, <2>2, <2>3, <2>4 DEF IsPlaceOf
    <3>2. QED
      BY <1>2, <2>2, <3>1 DEF SlotOf, Place
  <2>5. CASE ~ j <= k
    <3>1. s <= k * ENTRYS_PER_ARRAY /\ ~ r <= k * ENTRYS_PER_ARRAY
      BY <1>2, <2>2, <2>5, ChunksInOrder
    <3>2. s \in Nat /\ k * ENTRYS_PER_ARRAY \in Nat
      BY <1>2, <1>6
    <3> HIDE DEF s
    <3>3. QED
      BY <2>1, <3>1, <3>2
  <2>6. QED
    BY <2>4, <2>5
<1> HIDE DEF s, N
<1>8. DOMAIN Row = 1 .. N
  BY <1>6
<1>9. ASSUME NEW t \in 1 .. N
      PROVE  (Row[t] = e /\ \A r \in 1 .. N : Row[r] = e => t <= r) <=> t = s
  BY <1>2, <1>6, <1>7
<1>10. alist_remove(Row, e) = [t \in 1 .. N |-> IF t = s THEN NULL ELSE Row[t]]
  BY <1>8, <1>9 DEF alist_remove
<1>11. [Row EXCEPT ![s] = NULL] = [t \in 1 .. N |-> IF t = s THEN NULL ELSE Row[t]]
  BY <1>8
<1>12. QED
  BY <1>5, <1>10, <1>11

(* alist_set replaces the entry at a position. *)
LEMMA SetReplaces ==
    ASSUME ListInv, NEW index, NEW e \in Entry, alist_set(index, e)
    PROVE  /\ ListInv'
           /\ \E s \in UsedSlots(chunks) :
                /\ Cardinality(UsedBefore(chunks, s)) = index
                /\ Row' = [Row EXCEPT ![s] = e]
<1> DEFINE s == FirstOf(Reached(chunks, index))
           k == ChunkOf(s)
           p == PlaceOf(s)
<1>1. chunks \in Seq(Chunk) /\ Reached(chunks, index) # {} /\ RowLength(chunks) \in Nat
  BY SlotsAreFinite DEF alist_set, ListInv, IsList
<1>2. Reached(chunks, index) \subseteq Nat
  BY <1>1 DEF Reached
<1>3. s \in Reached(chunks, index)
  BY <1>1, <1>2, FirstOfIsFirst
<1>4. chunks' = [chunks EXCEPT ![k].pointer[p] = e]
  BY DEF alist_set
<1> HIDE DEF s
<1>5. s \in UsedSlots(chunks) /\ s \in 1 .. RowLength(chunks) /\ At(chunks, s) # NULL
      /\ Passed(chunks)[s] = index
  BY <1>3 DEF Reached, UsedSlots
<1>6. Passed(chunks)[s] = Cardinality(UsedBefore(chunks, s))
  BY <1>1, <1>5, PassedCounts
<1>7. k \in Nat \ {0} /\ p \in Place /\ s = SlotOf(k, p)
  BY <1>1, <1>5, ChunkOfSlot
<1> HIDE DEF k, p
<1>8. k \in 1 .. Len(chunks) /\ chunks[k].pointer[p] # NULL /\ chunks[k] \in Chunk
  BY <1>1, <1>5, <1>7, UsedAtPlace
<1>9. chunks[k].used - (IF e = NULL THEN 1 ELSE 0) = chunks[k].used
  BY <1>8, EntryAssumption DEF Chunk
<1>10. chunks' = Written(chunks, k, p, e, chunks[k].used)
  <2>1. [chunks[k] EXCEPT !.pointer[p] = e] =
          [used |-> chunks[k].used, pointer |-> [chunks[k].pointer EXCEPT ![p] = e]]
    BY <1>8 DEF Chunk
  <2>2. chunks' = [chunks EXCEPT ![k] = [chunks[k] EXCEPT !.pointer[p] = e]]
    BY <1>4
  <2>3. QED
    BY <2>1, <2>2 DEF Written
<1>11. ListInv' /\ Row' = [Row EXCEPT ![s] = e]
  BY <1>7, <1>8, <1>9, <1>10, RewrittenIsAList DEF Rewritten
<1>12. QED
  BY <1>5, <1>6, <1>11

-----------------------------------------------------------------------------
LEMMA ListNextKeeps == ListInv /\ [ListNext]_chunks => ListInv'
<1> SUFFICES ASSUME ListInv, [ListNext]_chunks PROVE ListInv'
  OBVIOUS
<1>1. CASE ListNext
  <2>1. PICK e \in Entry :
          \/ alist_add(e) \/ alist_remove_entry(e)
          \/ \E index \in 0 .. EntryN(chunks) - 1 : alist_set(index, e)
    BY <1>1 DEF ListNext
  <2>2. CASE alist_add(e)
    BY <2>2, AddTakesTheFirstSlot
  <2>3. CASE alist_remove_entry(e)
    BY <2>3, RemoveEmptiesTheFirst
  <2>4. ASSUME NEW index \in 0 .. EntryN(chunks) - 1, alist_set(index, e) PROVE ListInv'
    BY <2>4, SetReplaces
  <2>5. QED
    BY <2>1, <2>2, <2>3, <2>4
<1>2. CASE UNCHANGED chunks
  BY <1>2 DEF ListInv, IsList
<1>3. QED
  BY <1>1, <1>2

(* The chain is always a list of well-formed chunks, as many as there is   *)
(* room for, however alist_add and alist_remove follow each other.         *)
THEOREM ListTypeCorrect == ListSpec => []ListTypeOK
<1>1. ListInv => ListTypeOK
  BY DEF ListInv, IsList, ListTypeOK
<1>2. QED
  BY <1>1, ListInitHolds, ListNextKeeps, PTL DEF ListSpec

(* The walk of alist_add always ends at an empty place, and what the loops *)
(* of the readers compute, pointer by pointer and chunk by chunk, is what  *)
(* the row of slots says (list.c), for chunks of any size.                 *)
THEOREM TheChainAlwaysServes == ListSpec => []TheChainServes
<1>1. ListInv => TheChainServes
  BY AddWalkEnds, ReadersAgree DEF TheChainServes
<1>2. QED
  BY <1>1, ListInitHolds, ListNextKeeps, PTL DEF ListSpec

-----------------------------------------------------------------------------
(* The refinement: what the operators of the row are under the mapping. *)
LEMMA SlotOperators ==
    /\ Slots!NULL = NULL
    /\ \A row, s : Slots!IsAddSlot(row, s) <=> IsAddSlot(row, s)
    /\ \A row, e : Slots!alist_remove(row, e) = alist_remove(row, e)
    /\ \A row : Slots!Occupied(row) = Occupied(row)
    /\ \A row, s : Slots!Position(row, s) = Position(row, s)
    /\ \A row : Slots!alist_get_entry_n(row) = alist_get_entry_n(row)
<1>1. Slots!NULL = NULL
  BY DEF Slots!NULL, NULL
<1>2. \A row : Slots!Occupied(row) = Occupied(row)
  BY <1>1 DEF Slots!Occupied, Occupied
<1>3. \A S : Slots!Cardinality(S) = Cardinality(S)
  BY DEF Slots!Cardinality, Cardinality
<1>4. \A row, s : Slots!IsAddSlot(row, s) <=> IsAddSlot(row, s)
  BY <1>2 DEF Slots!IsAddSlot, IsAddSlot
<1>5. \A row, e : Slots!alist_remove(row, e) = alist_remove(row, e)
  BY <1>1 DEF Slots!alist_remove, alist_remove
<1>6. \A row, s : Slots!Position(row, s) = Position(row, s)
  BY <1>2, <1>3 DEF Slots!Position, Position
<1>7. \A row : Slots!alist_get_entry_n(row) = alist_get_entry_n(row)
  BY <1>2, <1>3 DEF Slots!alist_get_entry_n, alist_get_entry_n
<1>8. QED
  BY <1>1, <1>2, <1>4, <1>5, <1>6, <1>7

LEMMA RowInit == ListInit => Slots!Init
<1> SUFFICES ASSUME ListInit PROVE Row = [s \in 1 .. MaxChunk * ENTRYS_PER_ARRAY |-> NULL]
  BY DEF Slots!Init, Slots!EmptyList, Slots!NULL, NULL
<1>1. ASSUME NEW s \in 1 .. MaxChunk * ENTRYS_PER_ARRAY PROVE At(chunks, s) = NULL
  <2>1. s \in Nat \ {0}
    BY EntrysAssumption, MaxChunkAssumption
  <2>2. ChunkOf(s) \in Nat \ {0} /\ PlaceOf(s) \in Place
    BY <2>1, ChunkOfSlot
  <2>3. \A q \in Place : ZeroChunk.pointer[q] = NULL
    BY DEF ZeroChunk
  <2>4. chunks = <<ZeroChunk>> /\ Len(chunks) = 1 /\ chunks[1] = ZeroChunk
    BY DEF ListInit
  <2>5. QED
    BY <2>2, <2>3, <2>4 DEF At
<1>2. QED
  BY <1>1 DEF Row

LEMMA RowStep == ListInv /\ ListNext => Slots!Next \/ UNCHANGED Row
<1> SUFFICES ASSUME ListInv, ListNext PROVE Slots!Next
  OBVIOUS
<1>1. PICK e \in Entry :
        \/ alist_add(e) \/ alist_remove_entry(e)
        \/ \E index \in 0 .. EntryN(chunks) - 1 : alist_set(index, e)
  BY DEF ListNext
<1>2. CASE alist_add(e)
  <2>1. \E s \in 1 .. MaxChunk * ENTRYS_PER_ARRAY :
          IsAddSlot(Row, s) /\ Row' = [Row EXCEPT ![s] = e]
    BY <1>2, AddTakesTheFirstSlot
  <2>2. QED
    BY <2>1, SlotOperators DEF Slots!Next, Slots!Add
<1>3. CASE alist_remove_entry(e)
  <2>1. Row' = alist_remove(Row, e)
    BY <1>3, RemoveEmptiesTheFirst
  <2>2. QED
    BY <2>1, SlotOperators DEF Slots!Next, Slots!Remove
<1>4. ASSUME NEW index \in 0 .. EntryN(chunks) - 1, alist_set(index, e) PROVE Slots!Next
  <2>1. PICK s \in UsedSlots(chunks) :
          Cardinality(UsedBefore(chunks, s)) = index /\ Row' = [Row EXCEPT ![s] = e]
    BY <1>4, SetReplaces
  <2>2. IsList(chunks) /\ Row = RowOf(chunks)
    BY DEF ListInv, Row, RowOf
  <2>3. s \in Occupied(Row) /\ Position(Row, s) = index
    BY <2>1, <2>2, RowIsUsed
  <2>4. EntryN(chunks) = alist_get_entry_n(Row)
    BY ReadersAgree DEF ReadersSeeTheRow
  <2>5. Slots!Replace(index, e)
    BY <2>1, <2>3, SlotOperators DEF Slots!Replace
  <2>6. index \in 0 .. Slots!alist_get_entry_n(Row) - 1
    BY <2>4, SlotOperators
  <2>7. QED
    BY <2>5, <2>6 DEF Slots!Next
<1>5. QED
  BY <1>1, <1>2, <1>3, <1>4

(* The chain of chunks implements the row of slots that the modules about  *)
(* threads, semaphores and descriptors work with: alist_add fills the      *)
(* row's first empty slot, alist_remove empties the first slot of the      *)
(* entry, alist_set replaces the entry at a position.                      *)
THEOREM TheChainIsARow == ListSpec => ImplementsSlotRow
<1>1. ListInv /\ UNCHANGED chunks => UNCHANGED Row
  BY DEF Row, At
<1>2. ListInv /\ [ListNext]_chunks => [Slots!Next]_Row
  BY <1>1, RowStep
<1>3. QED
  BY <1>2, RowInit, ListInitHolds, ListNextKeeps, PTL DEF ListSpec, ImplementsSlotRow, Slots!Spec

-----------------------------------------------------------------------------
(* The descriptors.  No place of the list is given back, so the used ones  *)
(* are the first of the row, and a descriptor is the number of its slot    *)
(* less one.                                                               *)
Opened == 1 .. EntryN(chunks)

LEMMA ReadersAgreeNext == ListInv' => ReadersSeeTheRow'
BY ReadersAgree, PTL

LEMMA RowOfOpened ==
    ASSUME ListInv, Occupied(Row) = Opened
    PROVE  /\ EntryN(chunks) \in Nat
           /\ \A s \in Opened : /\ s \in 1 .. MaxChunk * ENTRYS_PER_ARRAY /\ s \in Nat /\ s - 1 \in Nat
                               /\ alist_get_by_index(chunks, s - 1) = Row[s]
                               /\ Position(Row, s) = s - 1
                               /\ Row[s] # NULL
<1>1. EntryN(chunks) \in Nat
  <2>1. IsList(chunks) /\ chunks \in Seq(Chunk)
    BY DEF ListInv, IsList
  <2>2. QED
    BY <2>1, EntryNCounts, SlotsAreFinite
<1>2. ASSUME NEW s \in Opened PROVE Position(Row, s) = s - 1
  <2>1. s \in Nat /\ s - 1 \in Nat /\ s <= EntryN(chunks)
    BY <1>1 DEF Opened
  <2>2. {r \in Occupied(Row) : r < s} = 1 .. s - 1
    BY <1>1, <2>1 DEF Opened
  <2>3. Cardinality(1 .. s - 1) = s - 1
    BY <2>1, FS_Interval
  <2>4. QED
    BY <2>2, <2>3 DEF Position
<1>3. \A s \in Opened : alist_get_by_index(chunks, Position(Row, s)) = Row[s] /\ Row[s] # NULL
                      /\ s \in 1 .. MaxChunk * ENTRYS_PER_ARRAY
  <2>1. \A s \in Occupied(Row) : s \in 1 .. MaxChunk * ENTRYS_PER_ARRAY /\ Row[s] # NULL
    BY DEF Occupied, Row
  <2>2. QED
    BY <2>1, ReadersAgree DEF ReadersSeeTheRow
<1>4. QED
  BY <1>1, <1>2, <1>3 DEF Opened

(* A new entry gets the next descriptor. *)
LEMMA AddOpensTheNext ==
    ASSUME ListInv, Occupied(Row) = Opened, NEW e \in Entry, alist_add(e),
           \A s \in Opened : Row[s] # e
    PROVE  /\ ListInv' /\ Occupied(Row)' = Opened'
           /\ EntryN(chunks)' = EntryN(chunks) + 1
           /\ Row' = [Row EXCEPT ![EntryN(chunks) + 1] = e]
           /\ DOMAIN Row = 1 .. MaxChunk * ENTRYS_PER_ARRAY
           /\ EntryN(chunks) + 1 \in DOMAIN Row
           /\ alist_get_index(chunks', e) = EntryN(chunks)
<1> DEFINE n == EntryN(chunks)
           N == MaxChunk * ENTRYS_PER_ARRAY
<1>1. n \in Nat /\ N \in Nat /\ DOMAIN Row = 1 .. N /\ Opened = 1 .. n
  BY RowOfOpened, MaxChunkAssumption, EntrysAssumption DEF Row, Opened
<1>2. ListInv' /\ ReadersSeeTheRow'
  BY AddTakesTheFirstSlot, ReadersAgreeNext
<1>3. PICK s \in 1 .. N : IsAddSlot(Row, s) /\ Row' = [Row EXCEPT ![s] = e]
  BY AddTakesTheFirstSlot
<1> HIDE DEF n, N
<1>4. s = n + 1
  <2>1. s \notin 1 .. n /\ \A r \in 1 .. N : r \notin 1 .. n => s <= r
    BY <1>1, <1>3 DEF IsAddSlot
  <2>2. \A r \in 1 .. n : r \in 1 .. N
    BY <1>1, RowOfOpened DEF N
  <2>3. s \in Nat /\ s >= n + 1 /\ n + 1 \in 1 .. N
    BY <1>1, <1>3, <2>1
  <2>4. QED
    BY <1>1, <2>1, <2>3
<1>5. Occupied(Row') = 1 .. n + 1
  <2>1. DOMAIN Row' = 1 .. N
    BY <1>1, <1>3
  <2>2. e # NULL
    BY EntryAssumption
  <2>3. \A r \in 1 .. N : Row[r] # NULL <=> r \in 1 .. n
    BY <1>1 DEF Occupied
  <2>4. \A r \in 1 .. N : Row'[r] # NULL <=> r \in 1 .. n + 1
    BY <1>1, <1>3, <1>4, <2>2, <2>3
  <2>5. n + 1 \in 1 .. N
    BY <1>3, <1>4
  <2>6. \A r \in 1 .. n + 1 : r \in 1 .. N
    BY <1>1, <2>5
  <2>7. QED
    BY <2>1, <2>4, <2>6 DEF Occupied
<1>6. EntryN(chunks)' = n + 1
  <2>1. EntryN(chunks)' = Cardinality(Occupied(Row'))
    BY <1>2 DEF ReadersSeeTheRow, alist_get_entry_n
  <2>2. Cardinality(1 .. n + 1) = n + 1
    BY <1>1, FS_Interval
  <2>3. QED
    BY <1>5, <2>1, <2>2
<1>7. alist_get_index(chunks', e) = n
  <2>1. Row'[n + 1] = e /\ n + 1 \in Occupied(Row')
    BY <1>1, <1>3, <1>4, <1>5
  <2>2. {r \in Occupied(Row') : Row'[r] = e} = {n + 1}
    <3>1. \A r \in 1 .. n : Row'[r] = Row[r] /\ Row[r] # e
      BY <1>1, <1>3, <1>4, RowOfOpened DEF N
    <3>2. QED
      BY <1>1, <1>5, <2>1, <3>1
  <2>3. FirstOf({n + 1}) = n + 1
    BY <1>1, FirstOfOne
  <2>4. Position(Row', n + 1) = n
    <3>1. {r \in Occupied(Row') : r < n + 1} = 1 .. n
      BY <1>1, <1>5
    <3>2. Cardinality(1 .. n) = n
      BY <1>1, FS_Interval
    <3>3. QED
      BY <3>1, <3>2 DEF Position
  <2>5. e \in Entries(Row')
    BY <2>1 DEF Entries
  <2>6. QED
    BY <1>2, <2>2, <2>3, <2>4, <2>5 DEF ReadersSeeTheRow
<1>8. QED
  BY <1>1, <1>2, <1>3, <1>4, <1>5, <1>6, <1>7 DEF Opened, n, N

(* An entry that is replaced keeps its descriptor taken. *)
LEMMA SetKeepsTheNumbers ==
    ASSUME ListInv, Occupied(Row) = Opened, NEW e \in Entry, NEW fd \in 0 .. EntryN(chunks) - 1,
           alist_set(fd, e)
    PROVE  /\ ListInv' /\ Occupied(Row)' = Opened'
           /\ EntryN(chunks)' = EntryN(chunks)
           /\ Row' = [Row EXCEPT ![fd + 1] = e]
           /\ DOMAIN Row = 1 .. MaxChunk * ENTRYS_PER_ARRAY
           /\ fd + 1 \in DOMAIN Row
<1> DEFINE n == EntryN(chunks)
           N == MaxChunk * ENTRYS_PER_ARRAY
<1>1. n \in Nat /\ N \in Nat /\ DOMAIN Row = 1 .. N /\ Opened = 1 .. n
  BY RowOfOpened, MaxChunkAssumption, EntrysAssumption DEF Row, Opened
<1>2. ListInv' /\ ReadersSeeTheRow'
  BY SetReplaces, ReadersAgreeNext
<1>3. PICK s \in UsedSlots(chunks) :
        Cardinality(UsedBefore(chunks, s)) = fd /\ Row' = [Row EXCEPT ![s] = e]
  BY SetReplaces
<1>4. s \in Opened /\ Position(Row, s) = fd
  <2>1. IsList(chunks) /\ Row = RowOf(chunks)
    BY DEF ListInv, Row, RowOf
  <2>2. QED
    BY <1>3, <2>1, RowIsUsed
<1>5. s \in Nat /\ s - 1 = fd /\ s \in 1 .. N
  BY <1>4, RowOfOpened
<1> HIDE DEF n, N
<1>6. s = fd + 1
  BY <1>5
<1>7. Occupied(Row') = 1 .. n
  <2>1. DOMAIN Row' = 1 .. N /\ e # NULL
    BY <1>1, <1>3, EntryAssumption
  <2>2. \A r \in 1 .. N : Row'[r] # NULL <=> Row[r] # NULL
    <3>1. Row[s] # NULL
      BY <1>4, RowOfOpened
    <3>2. QED
      BY <1>1, <1>3, <1>5, <2>1, <3>1
  <2>3. Occupied(Row') = Occupied(Row)
    BY <1>1, <2>1, <2>2 DEF Occupied
  <2>4. QED
    BY <1>1, <2>3
<1>8. EntryN(chunks)' = n
  <2>1. EntryN(chunks)' = Cardinality(Occupied(Row'))
    BY <1>2 DEF ReadersSeeTheRow, alist_get_entry_n
  <2>2. Cardinality(1 .. n) = n
    BY <1>1, FS_Interval
  <2>3. QED
    BY <1>7, <2>1, <2>2
<1>9. QED
  BY <1>1, <1>2, <1>3, <1>5, <1>6, <1>7, <1>8 DEF Opened, n, N

(* A block is in use while it is in the list, and in it once; a descriptor *)
(* that was handed out is the number of the slot with its block.           *)
BlocksAreListed ==
    /\ \A s \in Opened : Row[s] \in FsIdds \cup {FD_FREED}
    /\ \A s, r \in Opened : Row[s] = Row[r] /\ Row[s] # FD_FREED => s = r
    /\ \A b \in FsIdds : file_header[b] # NoFile <=> \E s \in Opened : Row[s] = b

HandedAreListed ==
    \A fd \in DOMAIN handed :
        /\ fd \in Nat /\ fd + 1 \in Opened
        /\ \/ fd = 0 /\ statted
           \/ Row[fd + 1] # FD_FREED /\ file_header[Row[fd + 1]] = handed[fd]

IdsInv ==
    /\ ListInv /\ Occupied(Row) = Opened
    /\ file_header \in [FsIdds -> File \cup {NoFile}]
    /\ in_stat \in BOOLEAN /\ statted \in BOOLEAN
    /\ in_stat => statted
    /\ BlocksAreListed /\ HandedAreListed

LEMMA IdsInitHolds == IdsInit => IdsInv
<1> SUFFICES ASSUME IdsInit PROVE IdsInv
  OBVIOUS
<1>1. ListInv
  BY ListInitHolds DEF IdsInit
<1>2. Occupied(Row) = {}
  <2>1. \A s \in DOMAIN Row : Row[s] = NULL
    BY RowInit DEF IdsInit, Slots!Init, Slots!EmptyList, Slots!NULL, NULL
  <2>2. QED
    BY <2>1 DEF Occupied
<1>3. EntryN(chunks) = 0
  BY <1>1, <1>2, ReadersAgree, FS_EmptySet DEF ReadersSeeTheRow, alist_get_entry_n
<1>4. Opened = {}
  BY <1>3 DEF Opened
<1>5. QED
  BY <1>1, <1>2, <1>4 DEF IdsInit, IdsInv, BlocksAreListed, HandedAreListed

(* A block is found for a file. *)
LEMMA FoundIsListed ==
    ASSUME IdsInv, NEW file \in File, NEW b \in FsIdds, Found(file, b)
    PROVE  /\ ListInv' /\ Occupied(Row)' = Opened'
           /\ file_header' \in [FsIdds -> File \cup {NoFile}]
           /\ BlocksAreListed'
           /\ EntryN(chunks) \in Nat
           /\ alist_get_index(chunks', b) = EntryN(chunks)
           /\ Opened' = Opened \cup {EntryN(chunks) + 1}
           /\ Row'[EntryN(chunks) + 1] = b /\ file_header'[b] = file
           /\ \A s \in Opened :
                /\ Row'[s] = Row[s]
                /\ Row[s] # FD_FREED => file_header'[Row[s]] = file_header[Row[s]]
<1> DEFINE n == EntryN(chunks)
<1>1. /\ ListInv /\ Occupied(Row) = Opened /\ BlocksAreListed
      /\ file_header \in [FsIdds -> File \cup {NoFile}]
      /\ b \in Entry /\ b # FD_FREED /\ FD_FREED \notin FsIdds
  BY IddsAssumption DEF IdsInv
<1>2. \A s \in Opened : Row[s] # b
  BY <1>1 DEF Found, BlocksAreListed
<1>3. /\ ListInv' /\ Occupied(Row)' = Opened'
      /\ EntryN(chunks)' = n + 1
      /\ Row' = [Row EXCEPT ![n + 1] = b]
      /\ n + 1 \in DOMAIN Row
      /\ alist_get_index(chunks', b) = n
  BY <1>1, <1>2, AddOpensTheNext DEF Found
<1>4. n \in Nat /\ Opened = 1 .. n /\ Opened' = 1 .. n + 1
      /\ \A s \in Opened : s \in DOMAIN Row /\ s # n + 1
  <2>1. n \in Nat /\ Opened = 1 .. n /\ Opened' = 1 .. n + 1
    BY <1>1, <1>3, RowOfOpened DEF Opened
  <2>2. \A s \in Opened : s \in DOMAIN Row
    BY <1>1 DEF Occupied
  <2> HIDE DEF n
  <2>3. QED
    BY <2>1, <2>2
<1> HIDE DEF n
<1>5. file_header' = [file_header EXCEPT ![b] = file] /\ file_header[b] = NoFile
  BY DEF Found
<1>6. file_header' \in [FsIdds -> File \cup {NoFile}] /\ file_header'[b] = file
  BY <1>1, <1>5
<1>7. Row'[n + 1] = b
  BY <1>3
<1>8. \A s \in Opened : Row'[s] = Row[s]
  BY <1>3, <1>4
<1>9. \A s \in Opened : Row[s] # FD_FREED => file_header'[Row[s]] = file_header[Row[s]]
  BY <1>1, <1>2, <1>5 DEF BlocksAreListed
<1>10. Opened' = Opened \cup {n + 1}
  BY <1>4
<1>11. BlocksAreListed'
  <2>1. \A s \in Opened' : Row'[s] \in FsIdds \cup {FD_FREED}
    BY <1>1, <1>7, <1>8, <1>10 DEF BlocksAreListed
  <2>2. \A s, r \in Opened' : Row'[s] = Row'[r] /\ Row'[s] # FD_FREED => s = r
    BY <1>1, <1>2, <1>7, <1>8, <1>10 DEF BlocksAreListed
  <2>3. ASSUME NEW c \in FsIdds
        PROVE  file_header'[c] # NoFile <=> \E s \in Opened' : Row'[s] = c
    <3>1. CASE c = b
      BY <1>6, <1>7, <1>10, <3>1, NoFileAssumption
    <3>2. CASE c # b
      <4>1. file_header'[c] = file_header[c]
        BY <1>1, <1>5, <3>2
      <4>2. (\E s \in Opened' : Row'[s] = c) <=> (\E s \in Opened : Row[s] = c)
        BY <1>7, <1>8, <1>10, <3>2
      <4>3. QED
        BY <1>1, <4>1, <4>2 DEF BlocksAreListed
    <3>3. QED
      BY <3>1, <3>2
  <2>4. QED
    BY <2>1, <2>2, <2>3 DEF BlocksAreListed
<1>12. QED
  BY <1>3, <1>4, <1>6, <1>7, <1>8, <1>9, <1>10, <1>11 DEF n

(* The block of a descriptor is freed and FD_FREED put in its place. *)
LEMMA FreedIsListed ==
    ASSUME IdsInv, NEW fd \in 0 .. EntryN(chunks) - 1, IsOpen(fd),
           alist_set(fd, FD_FREED), IdFreed(fd)
    PROVE  /\ ListInv' /\ Occupied(Row)' = Opened'
           /\ file_header' \in [FsIdds -> File \cup {NoFile}]
           /\ BlocksAreListed'
           /\ Opened' = Opened
           /\ \A s \in Opened : s # fd + 1 =>
                /\ Row'[s] = Row[s]
                /\ Row[s] # FD_FREED => file_header'[Row[s]] = file_header[Row[s]]
<1> DEFINE b == Row[fd + 1]
<1>1. /\ ListInv /\ Occupied(Row) = Opened /\ BlocksAreListed
      /\ file_header \in [FsIdds -> File \cup {NoFile}]
      /\ FD_FREED \in Entry /\ FD_FREED \notin FsIdds
  BY IddsAssumption DEF IdsInv
<1>2. EntryN(chunks) \in Nat /\ fd + 1 \in Opened /\ fd + 1 - 1 = fd
  BY <1>1, RowOfOpened DEF Opened
<1>3. alist_get_by_index(chunks, fd) = b
  BY <1>1, <1>2, RowOfOpened
<1>4. b \in FsIdds /\ b # FD_FREED
  BY <1>1, <1>2, <1>3 DEF IsOpen, BlocksAreListed
<1>5. /\ ListInv' /\ Occupied(Row)' = Opened'
      /\ EntryN(chunks)' = EntryN(chunks)
      /\ Row' = [Row EXCEPT ![fd + 1] = FD_FREED]
      /\ fd + 1 \in DOMAIN Row
  BY <1>1, SetKeepsTheNumbers
<1>6. Opened' = Opened /\ \A s \in Opened : s \in DOMAIN Row
  BY <1>1, <1>5 DEF Opened, Occupied
<1>7. file_header' = [file_header EXCEPT ![b] = NoFile]
  BY <1>3 DEF IdFreed
<1>8. \A s \in Opened : s # fd + 1 => Row[s] # b
  BY <1>1, <1>2, <1>4 DEF BlocksAreListed
<1>9. Row'[fd + 1] = FD_FREED /\ \A s \in Opened : s # fd + 1 => Row'[s] = Row[s]
  BY <1>5, <1>6
<1> HIDE DEF b
<1>10. file_header' \in [FsIdds -> File \cup {NoFile}] /\ file_header'[b] = NoFile
  BY <1>1, <1>4, <1>7
<1>11. \A c \in FsIdds : c # b => file_header'[c] = file_header[c]
  BY <1>1, <1>7
<1>12. \A s \in Opened : s # fd + 1 /\ Row[s] # FD_FREED =>
          file_header'[Row[s]] = file_header[Row[s]]
  BY <1>1, <1>8, <1>11 DEF BlocksAreListed
<1>13. BlocksAreListed'
  <2>1. \A s \in Opened' : Row'[s] \in FsIdds \cup {FD_FREED}
    BY <1>1, <1>6, <1>9 DEF BlocksAreListed
  <2>2. \A s, r \in Opened' : Row'[s] = Row'[r] /\ Row'[s] # FD_FREED => s = r
    BY <1>1, <1>6, <1>9 DEF BlocksAreListed
  <2>3. ASSUME NEW c \in FsIdds
        PROVE  file_header'[c] # NoFile <=> \E s \in Opened' : Row'[s] = c
    <3>1. CASE c = b
      BY <1>1, <1>4, <1>6, <1>8, <1>9, <1>10, <3>1
    <3>2. CASE c # b
      <4>1. Row[fd + 1] = b /\ c # FD_FREED
        BY <1>1 DEF b
      <4>2. (\E s \in Opened' : Row'[s] = c) <=> (\E s \in Opened : Row[s] = c)
        BY <1>6, <1>9, <3>2, <4>1
      <4>3. QED
        BY <1>1, <1>11, <3>2, <4>2 DEF BlocksAreListed
    <3>3. QED
      BY <3>1, <3>2
  <2>4. QED
    BY <2>1, <2>2, <2>3 DEF BlocksAreListed
<1>14. QED
  BY <1>5, <1>6, <1>9, <1>10, <1>12, <1>13

LEMMA IdsStay ==
    ASSUME IdsInv, UNCHANGED <<chunks, file_header, handed, statted>>,
           in_stat' \in BOOLEAN, in_stat' => statted
    PROVE  IdsInv'
<1>1. chunks' = chunks /\ file_header' = file_header /\ handed' = handed /\ statted' = statted
  OBVIOUS
<1>2. Row' = Row
  BY <1>1 DEF Row
<1>3. Opened' = Opened
  BY <1>1 DEF Opened
<1>4. ListInv' /\ Occupied(Row)' = Opened'
  BY <1>1, <1>2, <1>3 DEF IdsInv, ListInv
<1>5. BlocksAreListed' /\ HandedAreListed'
  BY <1>1, <1>2, <1>3 DEF IdsInv, BlocksAreListed, HandedAreListed
<1>6. QED
  BY <1>1, <1>4, <1>5 DEF IdsInv

LEMMA IdsNextKeeps == IdsInv /\ [IdsNext]_idsVars => IdsInv'
<1> SUFFICES ASSUME IdsInv, [IdsNext]_idsVars PROVE IdsInv'
  OBVIOUS
<1>1. HandedAreListed /\ in_stat \in BOOLEAN /\ statted \in BOOLEAN /\ (in_stat => statted)
  BY DEF IdsInv
<1>2. ASSUME NEW file \in File, hlib_open(file) PROVE IdsInv'
  <2>1. PICK b \in FsIdds :
          /\ Found(file, b)
          /\ HandedOut(alist_get_index(chunks', b), file)
          /\ UNCHANGED <<in_stat, faulted, statted>>
    BY <1>2 DEF hlib_open
  <2> DEFINE n == EntryN(chunks)
  <2>2. /\ ListInv' /\ Occupied(Row)' = Opened'
        /\ file_header' \in [FsIdds -> File \cup {NoFile}] /\ BlocksAreListed'
    BY <2>1, FoundIsListed
  <2>3. /\ alist_get_index(chunks', b) = n /\ n \in Nat
        /\ Opened' = Opened \cup {n + 1}
        /\ Row'[n + 1] = b /\ file_header'[b] = file
        /\ \A s \in Opened :
             /\ Row'[s] = Row[s]
             /\ Row[s] # FD_FREED => file_header'[Row[s]] = file_header[Row[s]]
    BY <2>1, FoundIsListed
  <2>4. handed' = [d \in DOMAIN handed \cup {n} |-> IF d = n THEN file ELSE handed[d]]
    BY <2>1, <2>3 DEF HandedOut
  <2> HIDE DEF n
  <2>5. HandedAreListed'
    <3> SUFFICES ASSUME NEW fd \in DOMAIN handed'
                 PROVE  /\ fd \in Nat /\ fd + 1 \in Opened'
                        /\ \/ fd = 0 /\ statted'
                           \/ Row'[fd + 1] # FD_FREED /\ file_header'[Row'[fd + 1]] = handed'[fd]
      BY DEF HandedAreListed
    <3>1. CASE fd = n
      <4>1. b # FD_FREED /\ handed'[fd] = file
        BY <2>4, <3>1, IddsAssumption
      <4>2. QED
        BY <2>3, <3>1, <4>1
    <3>2. CASE fd # n
      <4>1. fd \in DOMAIN handed /\ handed'[fd] = handed[fd]
        BY <2>4, <3>2
      <4>2. QED
        BY <1>1, <2>1, <2>3, <4>1 DEF HandedAreListed
    <3>3. QED
      BY <3>1, <3>2
  <2>6. QED
    BY <1>1, <2>1, <2>2, <2>5 DEF IdsInv
<1>3. ASSUME NEW file \in File, hlib_stat(file) PROVE IdsInv'
  <2>1. PICK b \in FsIdds : Found(file, b)
    BY <1>3 DEF hlib_stat
  <2>2. /\ ListInv' /\ Occupied(Row)' = Opened'
        /\ file_header' \in [FsIdds -> File \cup {NoFile}] /\ BlocksAreListed'
    BY <2>1, FoundIsListed
  <2>3. /\ Opened' = Opened \cup {EntryN(chunks) + 1}
        /\ \A s \in Opened :
             /\ Row'[s] = Row[s]
             /\ Row[s] # FD_FREED => file_header'[Row[s]] = file_header[Row[s]]
    BY <2>1, FoundIsListed
  <2>4. in_stat' = TRUE /\ statted' = TRUE /\ handed' = handed
    BY <1>3 DEF hlib_stat
  <2>5. HandedAreListed'
    BY <1>1, <2>3, <2>4 DEF HandedAreListed
  <2>6. QED
    BY <2>2, <2>4, <2>5 DEF IdsInv
<1>4. ASSUME NEW fd \in 0 .. EntryN(chunks) - 1, hlib_close(fd) PROVE IdsInv'
  <2>1. /\ IsOpen(fd) /\ alist_set(fd, FD_FREED) /\ IdFreed(fd)
        /\ handed' = [d \in DOMAIN handed \ {fd} |-> handed[d]]
        /\ UNCHANGED <<in_stat, statted>>
    BY <1>4 DEF hlib_close, Forget
  <2>2. /\ ListInv' /\ Occupied(Row)' = Opened'
        /\ file_header' \in [FsIdds -> File \cup {NoFile}] /\ BlocksAreListed'
    BY <2>1, FreedIsListed
  <2>3. /\ Opened' = Opened
        /\ \A s \in Opened : s # fd + 1 =>
             /\ Row'[s] = Row[s]
             /\ Row[s] # FD_FREED => file_header'[Row[s]] = file_header[Row[s]]
    BY <2>1, FreedIsListed
  <2>4. \A d \in DOMAIN handed' : d \in DOMAIN handed /\ d # fd /\ handed'[d] = handed[d]
    BY <2>1
  <2>5. HandedAreListed'
    BY <1>1, <2>1, <2>3, <2>4 DEF HandedAreListed
  <2>6. QED
    BY <1>1, <2>1, <2>2, <2>5 DEF IdsInv
<1>5. CASE StatCloses
  <2>1. in_stat /\ statted /\ in_stat' = FALSE /\ handed' = handed /\ statted' = statted
    BY <1>1, <1>5 DEF StatCloses
  <2>2. CASE IsOpen(0)
    <3>1. alist_set(0, FD_FREED) /\ IdFreed(0)
      BY <1>5, <2>2 DEF StatCloses
    <3>2. 0 \in 0 .. EntryN(chunks) - 1
      BY <2>2, RowOfOpened DEF IsOpen, IdsInv
    <3>3. /\ ListInv' /\ Occupied(Row)' = Opened'
          /\ file_header' \in [FsIdds -> File \cup {NoFile}] /\ BlocksAreListed'
      BY <2>2, <3>1, <3>2, FreedIsListed
    <3>4. /\ Opened' = Opened
          /\ \A s \in Opened : s # 0 + 1 =>
               /\ Row'[s] = Row[s]
               /\ Row[s] # FD_FREED => file_header'[Row[s]] = file_header[Row[s]]
      BY <2>2, <3>1, <3>2, FreedIsListed
    <3>5. HandedAreListed'
      BY <1>1, <2>1, <3>4 DEF HandedAreListed
    <3>6. QED
      BY <2>1, <3>3, <3>5 DEF IdsInv
  <2>3. CASE ~ IsOpen(0)
    <3>1. UNCHANGED <<chunks, file_header, handed, statted>>
      BY <1>5, <2>3 DEF StatCloses
    <3>2. QED
      BY <2>1, <3>1, IdsStay
  <2>4. QED
    BY <2>2, <2>3
<1>6. CASE UNCHANGED idsVars
  BY <1>1, <1>6, IdsStay DEF idsVars
<1>7. QED
  BY <1>2, <1>3, <1>4, <1>5, <1>6 DEF IdsNext

(* The invariant says what the caller relies on. *)
LEMMA IdsInvIsEnough == IdsInv => DescriptorsNameTheirFiles
<1> SUFFICES ASSUME IdsInv PROVE DescriptorsNameTheirFiles
  OBVIOUS
<1>1. /\ ListInv /\ Occupied(Row) = Opened
      /\ BlocksAreListed /\ HandedAreListed
  BY DEF IdsInv
<1>2. ASSUME NEW fd \in DOMAIN handed, ~ (fd = 0 /\ statted)
      PROVE  IsOpen(fd) /\ file_header[alist_get_by_index(chunks, fd)] = handed[fd]
  <2>1. /\ fd \in Nat /\ fd + 1 \in Opened
        /\ Row[fd + 1] # FD_FREED /\ file_header[Row[fd + 1]] = handed[fd]
    BY <1>1, <1>2 DEF HandedAreListed
  <2>2. fd + 1 - 1 = fd /\ alist_get_by_index(chunks, fd + 1 - 1) = Row[fd + 1]
        /\ EntryN(chunks) \in Nat
    BY <1>1, <2>1, RowOfOpened
  <2>3. fd >= 0 /\ fd < EntryN(chunks)
    BY <2>1, <2>2 DEF Opened
  <2>4. QED
    BY <2>1, <2>2, <2>3 DEF IsOpen
<1>3. ASSUME NEW b \in FsIdds
      PROVE  Cardinality({s \in Occupied(Row) : Row[s] = b})
                = (IF file_header[b] = NoFile THEN 0 ELSE 1)
  <2>1. CASE file_header[b] = NoFile
    <3>1. {s \in Occupied(Row) : Row[s] = b} = {}
      BY <1>1, <2>1 DEF BlocksAreListed
    <3>2. QED
      BY <2>1, <3>1, FS_EmptySet
  <2>2. CASE file_header[b] # NoFile
    <3>1. PICK s \in Opened : Row[s] = b
      BY <1>1, <2>2 DEF BlocksAreListed
    <3>2. {r \in Occupied(Row) : Row[r] = b} = {s}
      BY <1>1, <3>1, IddsAssumption DEF BlocksAreListed
    <3>3. Cardinality({s}) = 1
      BY FS_Singleton
    <3>4. QED
      BY <2>2, <3>2, <3>3
  <2>3. QED
    BY <2>1, <2>2
<1>4. QED
  BY <1>2, <1>3 DEF DescriptorsNameTheirFiles

(* Each number hlib_open has returned leads to its file until it is        *)
(* closed, but for the first one once hlib_stat has been used, and each    *)
(* block in use is in the list once (hlib_vfs.c), for any number of files, *)
(* blocks and pointers per chunk.                                          *)
THEOREM DescriptorsAreKept == IdsSpec => []DescriptorsNameTheirFiles
BY IdsInitHolds, IdsNextKeeps, IdsInvIsEnough, PTL DEF IdsSpec
=============================================================================
