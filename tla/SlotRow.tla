------------------------------ MODULE SlotRow ------------------------------
(***************************************************************************)
(* What the array list promises to the kernel: one row of slots in which   *)
(* alist_add fills the first empty slot, alist_remove empties the first    *)
(* slot of an entry and alist_set replaces the entry at a position, in the *)
(* terms of module SlotList, which the modules about threads and           *)
(* semaphores use.                                                         *)
(***************************************************************************)
EXTENDS SlotList

CONSTANTS
    Entry,      \* what the list is used for: pointers, or ids cast to one
    Slot        \* the slots, numbers from 1 on

VARIABLE list

Init == list = EmptyList(Slot)

Add(e) == \E s \in Slot : IsAddSlot(list, s) /\ list' = [list EXCEPT ![s] = e]

Remove(e) == list' = alist_remove(list, e)

Replace(position, e) ==
    \E s \in Occupied(list) :
        Position(list, s) = position /\ list' = [list EXCEPT ![s] = e]

Next ==
    \E e \in Entry :
        \/ Add(e) \/ Remove(e)
        \/ \E position \in 0 .. alist_get_entry_n(list) - 1 : Replace(position, e)

Spec == Init /\ [][Next]_list
=============================================================================
