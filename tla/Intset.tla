------------------------------- MODULE Intset -------------------------------
(***************************************************************************)
(* The sorted set of integers of intset.c: an array of cells in which every *)
(* number takes as many as the encoding says.  A number that does not fit   *)
(* widens all of them, in place.  A cell stands for the two bytes of the    *)
(* narrowest encoding and holds a digit to the base IntBase, the lowest     *)
(* first; the widths 1, 2, 4 stand for INTSET_ENC_INT16, _INT32, _INT64.    *)
(***************************************************************************)
EXTENDS Integers, Sequences, FiniteSets, SequencesExt

CONSTANTS
    IntBase,     \* values of one cell, 2^16 in the code
    IntNumbers,  \* the numbers added and removed
    IntMaxLen    \* bound of the model

VARIABLES is, isref   \* [encoding, length, contents], and the set it stands for

intsetVars == <<is, isref>>

FitsIn(v, width) ==
    LET half == (IntBase^width) \div 2 IN -half <= v /\ v < half

intsetValueEncoding(v) ==
    CASE FitsIn(v, 1) -> 1 [] ~FitsIn(v, 1) /\ FitsIn(v, 2) -> 2 [] OTHER -> 4

\* The number in the cells from pos * enc on, in two's complement; pos counts from 0.
intsetGetEncoded(contents, pos, enc) ==
    LET n == FoldLeft(LAMBDA a, k : a + contents[pos * enc + k] * (IntBase^(k - 1)), 0,
                      [k \in 1..enc |-> k])
    IN  IF n >= (IntBase^enc) \div 2 THEN n - IntBase^enc ELSE n

intsetGet(s, pos) == intsetGetEncoded(s.contents, pos, s.encoding)

intsetSet(s, pos, v) ==
    [s EXCEPT !.contents =
        [c \in DOMAIN @ |->
            LET k == c - pos * s.encoding - 1
            IN  IF k \in 0..(s.encoding - 1) THEN (v \div (IntBase^k)) % IntBase ELSE @[c]]]

intsetNew == [encoding |-> 1, length |-> 0, contents |-> <<>>]

\* realloc() keeps the cells there is room for.
intsetResize(s, len) ==
    [s EXCEPT !.contents = [c \in 1..(len * s.encoding) |-> IF c <= Len(@) THEN @[c] ELSE 0]]

\* Binary search: where v is, or where it belongs.
intsetSearch(s, v) ==
    LET Halve(a, k) ==
            LET mid == (a.min + a.max) \div 2
                cur == intsetGet(s, mid)
            IN  CASE a.max < a.min \/ a.found                    -> a
                  [] a.max >= a.min /\ ~a.found /\ v > cur       -> [a EXCEPT !.min = mid + 1]
                  [] a.max >= a.min /\ ~a.found /\ v < cur       -> [a EXCEPT !.max = mid - 1]
                  [] OTHER                                       -> [a EXCEPT !.found = TRUE, !.mid = mid]
        r == FoldLeft(Halve, [min |-> 0, max |-> s.length - 1, found |-> FALSE, mid |-> 0],
                      [k \in 1..s.length |-> k])
    IN  IF s.length = 0 \/ v < intsetGet(s, 0) THEN [found |-> FALSE, pos |-> 0]
        ELSE IF v > intsetGet(s, s.length - 1) THEN [found |-> FALSE, pos |-> s.length]
        ELSE [found |-> r.found, pos |-> IF r.found THEN r.mid ELSE r.min]

\* The numbers are widened from the last on, so that none is overwritten before it is
\* read; the new one is less than all of them or greater.
intsetUpgradeAndAdd(s, v) ==
    LET prepend == IF v < 0 THEN 1 ELSE 0
        wide    == intsetResize([s EXCEPT !.encoding = intsetValueEncoding(v)], s.length + 1)
        moved   == FoldLeft(LAMBDA a, k : intsetSet(a, k + prepend, intsetGetEncoded(a.contents, k, s.encoding)),
                            wide, [k \in 1..s.length |-> s.length - k])
    IN  [intsetSet(moved, IF v < 0 THEN 0 ELSE s.length, v) EXCEPT !.length = @ + 1]

\* memmove(): the cells of the numbers from position from on, as far as there is room.
intsetMoveTail(s, from, to) ==
    [s EXCEPT !.contents =
        [c \in DOMAIN @ |-> IF c > to * s.encoding /\ c <= (to + s.length - from) * s.encoding
                            THEN @[c + (from - to) * s.encoding] ELSE @[c]]]

intsetAdd(s, v) ==
    LET at    == intsetSearch(s, v)
        room  == intsetResize(s, s.length + 1)
        moved == IF at.pos < s.length THEN intsetMoveTail(room, at.pos, at.pos + 1) ELSE room
    IN  IF intsetValueEncoding(v) > s.encoding THEN intsetUpgradeAndAdd(s, v)
        ELSE IF at.found THEN s
        ELSE [intsetSet(moved, at.pos, v) EXCEPT !.length = @ + 1]

intsetFind(s, v) == intsetValueEncoding(v) <= s.encoding /\ intsetSearch(s, v).found

\* The encoding is never narrowed again.
intsetRemove(s, v) ==
    LET pos   == intsetSearch(s, v).pos
        moved == IF pos < s.length - 1 THEN intsetMoveTail(s, pos + 1, pos) ELSE s
    IN  IF intsetFind(s, v) THEN [intsetResize(moved, s.length - 1) EXCEPT !.length = s.length - 1] ELSE s

-----------------------------------------------------------------------------

IntsetInit == is = intsetNew /\ isref = {}

IntAdd(v) ==
    /\ Cardinality(isref) < IntMaxLen \/ v \in isref
    /\ is' = intsetAdd(is, v)
    /\ isref' = isref \cup {v}

IntRemove(v) ==
    /\ is' = intsetRemove(is, v)
    /\ isref' = isref \ {v}

IntsetNext == \E v \in IntNumbers : IntAdd(v) \/ IntRemove(v)

-----------------------------------------------------------------------------

\* The array, read in its encoding, is the set the numbers were added to and removed
\* from, in order and in exactly the cells it needs, and the search finds its members
\* only (intsetUpgradeAndAdd() and intsetMoveTail() work in place).
IntsetExact ==
    /\ is.length = Cardinality(isref)
    /\ Len(is.contents) = is.length * is.encoding
    /\ {intsetGet(is, p) : p \in 0..(is.length - 1)} = isref
    /\ \A p \in 1..(is.length - 1) : intsetGet(is, p - 1) < intsetGet(is, p)
    /\ \A v \in IntNumbers : intsetFind(is, v) <=> v \in isref
=============================================================================
