------------------------------ MODULE Strings -------------------------------
(***************************************************************************)
(* memcpy, memmove and memset of src/src/kernel/lib/string.c, on a memory  *)
(* of a few bytes.  `meant' is the memory as the functions' contracts say  *)
(* it should be; `astray' are the bytes memset has written beside the      *)
(* block it was given, or left out of it, and `repeated' those that        *)
(* memcpy has read after it had written them.                              *)
(***************************************************************************)
EXTENDS Integers, Sequences, FiniteSets

CONSTANTS Address, Word, MaxWrites  \* bytes; bytes of a long; calls of a behaviour

ASSUME AddressAssumption == Address \subseteq Int /\ IsFiniteSet(Address)
ASSUME WordAssumption == Word \in Nat \ {0}

VARIABLES
    bytes,          \* the memory
    meant,
    astray, repeated,
    writes          \* calls so far

stringVars == <<bytes, meant, astray, repeated, writes>>

Span(start, len) == start .. start + len - 1

(* memcpy copies from front to back: what it has written it may read.      *)
memcpy(memory, dest, src, n) ==
    LET after[k \in 0 .. n] == IF k = 0 THEN memory
                               ELSE [after[k - 1] EXCEPT ![dest + k - 1] = after[k - 1][src + k - 1]]
    IN after[n]

(* memmove goes from back to front when the destination is not below the   *)
(* source, word by word if everything is aligned.                          *)
Unit(dst, src, len) == IF dst % Word = 0 /\ src % Word = 0 /\ len % Word = 0 THEN Word ELSE 1
Backwards(memory, dst, src, len) ==
    LET unit == Unit(dst, src, len)
        after[k \in 0 .. len \div unit] ==
            IF k = 0 THEN memory
            ELSE LET from == len - k * unit
                 IN [a \in Address |-> IF a \in Span(dst + from, unit)
                                       THEN after[k - 1][src + (a - dst)] ELSE after[k - 1][a]]
    IN after[len \div unit]
(* Slip: the other direction. *)
memmove_reversed(memory, dst, src, len) ==
    IF dst > src THEN memcpy(memory, dst, src, len) ELSE Backwards(memory, dst, src, len)
memmove(memory, dst, src, len) ==
    IF dst < src THEN memcpy(memory, dst, src, len) ELSE Backwards(memory, dst, src, len)
(* memset fills words.  For the rest of a length that is no multiple of    *)
(* four it should write part of one: it writes a word, the low bytes of    *)
(* the value and zeros, one word too far behind the last.                  *)
(* val: its four bytes, the lowest first.                                  *)
TailWord(len) == IF len % 4 = 0 THEN {} ELSE Span(4 * (len \div 4) + 4, 4)
memset(memory, ptr, val, len) ==
    [a \in Address |->
        IF a - ptr \in Span(0, 4 * (len \div 4)) THEN val[((a - ptr) % 4) + 1]
        ELSE IF a - ptr \in TailWord(len) THEN (IF (a - ptr) % 4 < len % 4 THEN val[((a - ptr) % 4) + 1] ELSE 0)
        ELSE memory[a]]

-----------------------------------------------------------------------------
StringsInit ==
    /\ bytes = [a \in Address |-> a] /\ meant = bytes
    /\ astray = {} /\ repeated = {}
    /\ writes = 0

Fits(start, len) == Span(start, len) \subseteq Address

(* What copying means: the block as it was, at its new place. *)
Moved(memory, dst, src, len) ==
    [a \in Address |-> IF a \in Span(dst, len) THEN memory[src + (a - dst)] ELSE memory[a]]

Written == writes < MaxWrites /\ writes' = writes + 1

(* The bytes of a copy are as good as those they are copies of. *)
Taken(bad, dst, src, len) == (bad \ Span(dst, len)) \cup {a \in Span(dst, len) : src + (a - dst) \in bad}

Meant(dst, src, len) ==
    /\ meant' = Moved(meant, dst, src, len)
    /\ astray' = Taken(astray, dst, src, len)

(* Where the destination begins inside the source, memcpy reaches what it  *)
(* has written itself, and writes it once more.                            *)
Overrun(dst, src, len) ==
    IF src < dst THEN {a \in Span(dst, len) : a - dst >= dst - src} ELSE {}

Copy(dst, src, len) ==
    /\ Written /\ Fits(dst, len) /\ Fits(src, len)
    /\ bytes' = memcpy(bytes, dst, src, len)
    /\ Meant(dst, src, len)
    /\ repeated' = Taken(repeated, dst, src, len) \cup Overrun(dst, src, len)
Move(dst, src, len) ==
    /\ Written /\ Fits(dst, len) /\ Fits(src, len)
    /\ bytes' = memmove(bytes, dst, src, len)
    /\ Meant(dst, src, len)
    /\ repeated' = Taken(repeated, dst, src, len)
(* The bytes that come out wrong: the rest of the block, and the word      *)
(* behind the next.                                                        *)
Set(ptr, val, len) ==
    /\ Written /\ Fits(ptr, len)
    /\ bytes' = memset(bytes, ptr, val, len)
    /\ meant' = [a \in Address |-> IF a \in Span(ptr, len) THEN val[((a - ptr) % 4) + 1] ELSE meant[a]]
    /\ LET rest == len % 4
           missed == Span(ptr + len - rest, rest)
           beside == IF rest = 0 THEN {} ELSE Span(ptr + len - rest + 4, 4)
       IN /\ astray' = ((astray \ Span(ptr, len - rest)) \cup missed \cup beside) \cap Address
          /\ repeated' = repeated \ Span(ptr, len - rest)

Values == {<<0, 0, 0, 0>>, <<7, 8, 9, 10>>}
StringsNext ==
    \/ \E dst, src \in Address, len \in 1 .. Cardinality(Address) : Copy(dst, src, len)
    \/ \E dst, src \in Address, len \in 1 .. Cardinality(Address) : Move(dst, src, len)
    \/ \E ptr \in Address, val \in Values, len \in 1 .. Cardinality(Address) : Set(ptr, val, len)

StringsSpec == StringsInit /\ [][StringsNext]_stringVars

-----------------------------------------------------------------------------
StringsTypeOK ==
    /\ bytes \in [Address -> Int] /\ meant \in [Address -> Int]
    /\ astray \subseteq Address /\ repeated \subseteq Address
    /\ writes \in Nat

(* However blocks are aligned and overlap, the memory is what the calls of *)
(* memmove, memcpy and memset mean, but for three kinds of bytes and the   *)
(* copies made of them: the rest that memset leaves out and the word it    *)
(* writes besides (string.c:114), and, where memcpy's destination begins   *)
(* inside its source, what lies behind the first dest - src bytes          *)
(* (string.c:27), although string.c:18 promises to handle overlapping      *)
(* regions correctly.                                                      *)
BytesAreAsMeant == \A a \in Address \ (astray \cup repeated) : bytes[a] = meant[a]
=============================================================================
