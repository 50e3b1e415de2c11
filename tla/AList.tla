------------------------------- MODULE AList -------------------------------
(***************************************************************************)
(* The array list of src/src/kernel/lib/libOS/list.c as it is stored: a    *)
(* chain of chunks of ENTRYS_PER_ARRAY pointers, each chunk with a count   *)
(* of its used pointers, and a chunk appended by the alist_add that fills  *)
(* the last one.  Chunks are never given back.  Every list of the kernel   *)
(* is changed under a lock, so a call is one step.  The programs' template *)
(* src/src/usr/hlib/OO/AList.h repeats the code, its number of pointers    *)
(* per chunk being a parameter, and adds alist_set.                        *)
(***************************************************************************)
EXTENDS Integers, Sequences, SlotList

CONSTANTS
    ENTRYS_PER_ARRAY,
    Entry,
    MaxChunk        \* bound: the chunks memory has room for

ASSUME EntrysAssumption == ENTRYS_PER_ARRAY \in Nat \ {0}
ASSUME EntryAssumption == NULL \notin Entry
ASSUME MaxChunkAssumption == MaxChunk \in Nat \ {0}

VARIABLE chunks     \* the chain, a sequence of alist_t without the next

Place == 1 .. ENTRYS_PER_ARRAY
Chunk == [used : 0..ENTRYS_PER_ARRAY, pointer : [Place -> Entry \cup {NULL}]]

(* memset of a new chunk; the first one is a zeroed variable or field. *)
ZeroChunk == [used |-> 0, pointer |-> [p \in Place |-> NULL]]

ListInit == chunks = << ZeroChunk >>

-----------------------------------------------------------------------------
(* The functions that read the list, as the code computes them. *)

(* A row number for a place: the walk goes through the chunks in order. *)
ChunkOf(s) == ((s - 1) \div ENTRYS_PER_ARRAY) + 1
PlaceOf(s) == ((s - 1) % ENTRYS_PER_ARRAY) + 1

RowLength(list) == Len(list) * ENTRYS_PER_ARRAY

At(list, s) == IF ChunkOf(s) <= Len(list) THEN list[ChunkOf(s)].pointer[PlaceOf(s)] ELSE NULL

(* The counter j of the loops when they come to s: the pointers passed     *)
(* that are not NULL.                                                      *)
Passed(list) ==
    LET j[s \in 1 .. RowLength(list) + 1] ==
            IF s = 1 THEN 0 ELSE j[s - 1] + (IF At(list, s - 1) = NULL THEN 0 ELSE 1)
    IN  j

FirstOf(places) == CHOOSE s \in places : \A r \in places : s <= r

(* The first pointer at which j equals the index is returned. *)
Reached(list, index) == {s \in 1 .. RowLength(list) : At(list, s) # NULL /\ Passed(list)[s] = index}

alist_get_by_index(list, index) ==
    LET at == Reached(list, index) IN IF at = {} THEN NULL ELSE At(list, FirstOf(at))

(* The counter at the first pointer that is the entry, or -1. *)
alist_get_index(list, e) ==
    LET at == {s \in 1 .. RowLength(list) : At(list, s) = e}
    IN  IF at = {} THEN -1 ELSE Passed(list)[FirstOf(at)]

(* The counts of the chunks are added up. *)
EntryN(list) ==
    LET upto[k \in 0 .. Len(list)] == IF k = 0 THEN 0 ELSE upto[k - 1] + list[k].used
    IN  upto[Len(list)]

-----------------------------------------------------------------------------
(* The chunk alist_add walks to and the place it takes there.  Slip: the   *)
(* place after the used ones.                                              *)
IsAddChunk(k) ==
    /\ chunks[k].used # ENTRYS_PER_ARRAY
    /\ \A j \in 1 .. k - 1 : chunks[j].used = ENTRYS_PER_ARRAY

IsAfterUsed(k, p) == p = chunks[k].used + 1
IsAddPlace(k, p) ==
    /\ chunks[k].pointer[p] = NULL
    /\ \A q \in 1 .. p - 1 : chunks[k].pointer[q] # NULL

Put(k, p, e) == [chunks EXCEPT ![k].pointer[p] = e, ![k].used = @ + 1]

(* The pointer that fills the last chunk brings a new one.                 *)
NeedsNewChunk(k) == k = Len(chunks) /\ chunks[k].used + 1 = ENTRYS_PER_ARRAY

alist_add(e) ==
    \E k \in 1 .. Len(chunks), p \in Place :
        /\ IsAddChunk(k) /\ IsAddPlace(k, p)
        /\ NeedsNewChunk(k) => Len(chunks) < MaxChunk
        /\ chunks' = IF NeedsNewChunk(k) THEN Append(Put(k, p, e), ZeroChunk)
                     ELSE Put(k, p, e)

(* The first place that holds the entry is emptied.  An entry that is not  *)
(* there changes nothing.  Slip: the count stays.                          *)
IsPlaceOf(e, k, p) ==
    /\ chunks[k].pointer[p] = e
    /\ \A j \in 1 .. k, q \in Place :
          chunks[j].pointer[q] = e => j = k /\ p <= q

CountKept(k, p) == [chunks EXCEPT ![k].pointer[p] = NULL]
Emptied(k, p) == [chunks EXCEPT ![k].pointer[p] = NULL, ![k].used = @ - 1]

alist_remove_entry(e) ==
    \E k \in 1 .. Len(chunks), p \in Place :
        IsPlaceOf(e, k, p) /\ chunks' = Emptied(k, p)

(* The pointer with the index is replaced, and the count stays. *)
alist_set(index, e) ==
    /\ Reached(chunks, index) # {}
    /\ LET s == FirstOf(Reached(chunks, index))
       IN  chunks' = [chunks EXCEPT ![ChunkOf(s)].pointer[PlaceOf(s)] = e]

ListNext ==
    \E e \in Entry :
        \/ alist_add(e)
        \/ alist_remove_entry(e)
        \/ \E index \in 0 .. EntryN(chunks) - 1 : alist_set(index, e)

ListSpec == ListInit /\ [][ListNext]_chunks

-----------------------------------------------------------------------------
ListTypeOK == chunks \in Seq(Chunk) /\ Len(chunks) \in 1 .. MaxChunk

(* After any sequence of calls, in any chunk, the walk of alist_add over   *)
(* the full chunks ends before the chain does, at a chunk that has an      *)
(* empty place: it dereferences no NULL and drops no entry (list.c:87).    *)
AddFindsAPlace ==
    \E k \in 1 .. Len(chunks) :
        IsAddChunk(k) /\ \E p \in Place : IsAddPlace(k, p)

(* Seen as one row, the chain is the list the other modules work with.     *)
Row == [s \in 1 .. MaxChunk * ENTRYS_PER_ARRAY |-> At(chunks, s)]

(* The functions that read agree with the row: in particular the index at  *)
(* which the scheduler resumes its search is the position in the row,      *)
(* however many holes removals have left in whichever chunk (list.c:109).  *)
ReadersSeeTheRow ==
    /\ EntryN(chunks) = alist_get_entry_n(Row)
    /\ \A s \in Occupied(Row) : alist_get_by_index(chunks, Position(Row, s)) = Row[s]
    /\ alist_get_by_index(chunks, EntryN(chunks)) = NULL
    /\ \A e \in Entry :
          alist_get_index(chunks, e) =
              IF e \in Entries(Row)
              THEN Position(Row, FirstOf({s \in Occupied(Row) : Row[s] = e})) ELSE -1

TheChainServes == AddFindsAPlace /\ ReadersSeeTheRow

(* The chain of chunks implements the row of slots. *)
Slots == INSTANCE SlotRow WITH list <- Row, Slot <- 1 .. MaxChunk * ENTRYS_PER_ARRAY

ImplementsSlotRow == Slots!Spec
=============================================================================
