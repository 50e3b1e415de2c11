------------------------------ MODULE SlotList ------------------------------
(***************************************************************************)
(* The kernel's array list (src/src/kernel/lib/libOS/list.c) as its users  *)
(* see it: a row of slots, an empty slot holding NULL.  alist_add fills    *)
(* the first empty slot, alist_remove empties the slot of the entry and    *)
(* moves nothing, alist_get_by_index counts the non-empty slots.  A list   *)
(* is a function from slot numbers 1..n to entries; n only has to be large *)
(* enough, since the code appends a chunk of slots when the last one fills *)
(* up.  Chunks are the subject of module AList.                            *)
(***************************************************************************)
EXTENDS Naturals, FiniteSets

NULL == 0

EmptyList(slots) == [s \in slots |-> NULL]

Occupied(list) == {s \in DOMAIN list : list[s] # NULL}

Entries(list) == {list[s] : s \in Occupied(list)}

(* The index that alist_get_by_index counts up to before it reaches s. *)
Position(list, s) == Cardinality({r \in Occupied(list) : r < s})

alist_get_entry_n(list) == Cardinality(Occupied(list))

(* The slot of the entry alist_get_by_index(list, 0) returns. *)
IsFirstSlot(list, s) ==
    s \in Occupied(list) /\ \A r \in Occupied(list) : s <= r

(* The slot alist_add chooses. *)
IsAddSlot(list, s) ==
    /\ s \in DOMAIN list \ Occupied(list)
    /\ \A r \in DOMAIN list \ Occupied(list) : s <= r

(* alist_remove: the first slot that holds the entry is emptied; an entry  *)
(* that is not in the list is no reason to change it.  Slip: nothing is    *)
(* emptied.                                                                *)
alist_keep(list, entry) == list
alist_remove(list, entry) ==
    [s \in DOMAIN list |->
        IF list[s] = entry /\ \A r \in DOMAIN list : list[r] = entry => s <= r
        THEN NULL
        ELSE list[s]]
=============================================================================
