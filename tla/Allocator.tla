----------------------------- MODULE Allocator -----------------------------
(***************************************************************************)
(* What an allocator of memory promises: it gives out words that nobody    *)
(* else has, as many as were asked for, until they are given back.         *)
(***************************************************************************)
EXTENDS Integers

CONSTANTS Word, Sizes

VARIABLES given     \* the ranges in use: first word and size

vars == given

WordsOf(r) == r.addr .. r.addr + r.size - 1

Init == given = {}

Allocate ==
    \E addr \in Word, size \in Sizes :
        LET r == [addr |-> addr, size |-> size] IN
        /\ WordsOf(r) \subseteq Word
        /\ \A s \in given : WordsOf(r) \cap WordsOf(s) = {}
        /\ given' = given \cup {r}

Release == \E r \in given : given' = given \ {r}

Spec == Init /\ [][Allocate \/ Release]_vars
=============================================================================
