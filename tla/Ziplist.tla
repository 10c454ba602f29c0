------------------------------ MODULE Ziplist ------------------------------
(***************************************************************************)
(* The compact list of ziplist.c: a header (bytes, tail offset, number of  *)
(* entries) and entries that each hold the length of the one before, in    *)
(* one byte or in five, so that a change of one entry's length can widen   *)
(* the next, and so on.  An entry is                                       *)
(*   [ps, prev (the prevlen field and its width), enc, raw (the data)].    *)
(* A value is a string, of which only a name and a length matter, or a     *)
(* number.  Pointers to entries are their indices; the header is computed  *)
(* the way the code does.                                                  *)
(***************************************************************************)
EXTENDS Integers, Sequences, SequencesExt

CONSTANTS
    ZipValues,     \* [text, size] or [int]: what is stored
    ZipMaxLen,     \* UINT16_MAX: a length that means it is not known
    ZipMaxEntries  \* bound of the model

VARIABLES zl, zref   \* the ziplist, and the sequence it should be

zipVars == <<zl, zref>>

HeaderSize == 10
BigPrevLen == 254

IsInt(v) == "int" \in DOMAIN v

-----------------------------------------------------------------------------
(* Encoding of the values. *)

\* The smallest encoding that can hold the number.
zipTryEncoding(v) ==
    CASE v \in 0..12               -> "imm"
      [] v \in -128..127           -> "int8"
      [] v \in -32768..32767       -> "int16"
      [] v \in -8388608..8388607   -> "int24"
      [] v \in (-2147483647 - 1)..2147483647 -> "int32"
      [] OTHER                     -> "int64"

zipIntSize == [imm |-> 0, int8 |-> 1, int16 |-> 2, int24 |-> 3, int32 |-> 4, int64 |-> 8]

Bits == [int8 |-> 256, int16 |-> 65536, int24 |-> 16777216]

\* The bytes written: two's complement; a number of 32 or 64 bits is kept as it is.
zipSaveInteger(v, enc) == IF enc \in DOMAIN Bits THEN v % Bits[enc] ELSE v

zipLoadInteger(raw, enc) ==
    IF enc \in DOMAIN Bits /\ raw >= Bits[enc] \div 2 THEN raw - Bits[enc] ELSE raw

zipStoreEntryEncoding(e) ==
    CASE e.enc # "str"        -> 1
      [] e.raw.size <= 63     -> 1
      [] e.raw.size <= 16383  -> 2
      [] OTHER                -> 5

zipStorePrevEntryLength(len) == IF len < BigPrevLen THEN 1 ELSE 5

DataLen(e) == IF e.enc = "str" THEN e.raw.size ELSE zipIntSize[e.enc]

zipRawEntryLength(e) == e.ps + zipStoreEntryEncoding(e) + DataLen(e)

\* ziplistGet
ValueOf(e) == IF e.enc = "str" THEN e.raw ELSE [int |-> zipLoadInteger(e.raw, e.enc)]

NewEntry(v, prevlen) ==
    [ps |-> zipStorePrevEntryLength(prevlen), prev |-> prevlen,
     enc |-> IF IsInt(v) THEN zipTryEncoding(v.int) ELSE "str",
     raw |-> IF IsInt(v) THEN zipSaveInteger(v.int, zipTryEncoding(v.int)) ELSE v]

-----------------------------------------------------------------------------
(* The list. *)

ziplistNew == [bytes |-> HeaderSize + 1, tail |-> HeaderSize, len |-> 0, es |-> <<>>]

Length(es) == FoldLeft(LAMBDA n, e : n + zipRawEntryLength(e), 0, es)

\* The offset of the i-th entry, of the end when i is one too many.
Offset(z, i) == HeaderSize + Length(SubSeq(z.es, 1, i - 1))

\* The entry at an offset; one past the last if it is the end's.
EntryAt(z, off) == CHOOSE i \in 1..(Len(z.es) + 1) : Offset(z, i) = off

IncrLength(z, n) == IF z.len < ZipMaxLen THEN [z EXCEPT !.len = @ + n] ELSE z

\* Mutant: the tail moves even if it is the entry that was widened.
ziplistCascadeUpdate_Tail(z0, p0) ==
    LET Step(a, i) ==
            LET z       == a.z
                rawlen  == zipRawEntryLength(z.es[i])
                next    == z.es[i + 1]
                extra   == zipStorePrevEntryLength(rawlen) - next.ps
                grown   == [z EXCEPT !.es[i + 1].ps = @ + extra, !.es[i + 1].prev = rawlen,
                                     !.bytes = @ + extra, !.tail = @ + extra]
            IN  CASE ~a.go \/ next.prev = rawlen -> [a EXCEPT !.go = FALSE]
                  [] a.go /\ next.prev # rawlen /\ extra > 0 -> [z |-> grown, go |-> TRUE]
                  [] OTHER -> [z |-> [z EXCEPT !.es[i + 1].prev = rawlen], go |-> FALSE]
    IN  FoldLeft(Step, [z |-> z0, go |-> TRUE],
                 [k \in 1..(Len(z0.es) - p0) |-> p0 + k - 1]).z

\* From entry p on, every entry gets the length of the one before, until one
\* had it already or has room for it.  A field is never made smaller.
ziplistCascadeUpdate(z0, p0) ==
    LET Step(a, i) ==
            LET z       == a.z
                rawlen  == zipRawEntryLength(z.es[i])
                next    == z.es[i + 1]
                extra   == zipStorePrevEntryLength(rawlen) - next.ps
                grown   == [z EXCEPT !.es[i + 1].ps = @ + extra, !.es[i + 1].prev = rawlen,
                                     !.bytes = @ + extra,
                                     !.tail = IF @ # Offset(z, i + 1) THEN @ + extra ELSE @]
            IN  CASE ~a.go \/ next.prev = rawlen -> [a EXCEPT !.go = FALSE]
                  [] a.go /\ next.prev # rawlen /\ extra > 0 -> [z |-> grown, go |-> TRUE]
                  [] OTHER -> [z |-> [z EXCEPT !.es[i + 1].prev = rawlen], go |-> FALSE]
    IN  FoldLeft(Step, [z |-> z0, go |-> TRUE],
                 [k \in 1..(Len(z0.es) - p0) |-> p0 + k - 1]).z

\* The entry after the deleted ones takes over the prevlen of the first of them.
ziplistDelete(z, p, num) ==
    LET n        == Len(z.es)
        deleted  == IF num < n - p + 1 THEN num ELSE n - p + 1
        first    == z.es[p]
        q        == p + deleted
        totlen   == Length(SubSeq(z.es, p, q - 1))
        size     == zipStorePrevEntryLength(first.prev)
        nextdiff == IF q <= n THEN size - z.es[q].ps ELSE 0
        rest     == [i \in 1..(n - q + 1) |->
                       IF i = 1 THEN [z.es[q] EXCEPT !.ps = size, !.prev = first.prev]
                                ELSE z.es[q + i - 1]]
        tail     == CASE q > n -> Offset(z, p) - first.prev
                      [] q = n -> z.tail - totlen
                      [] q < n -> z.tail - totlen + nextdiff
        w        == IncrLength([z EXCEPT !.es = SubSeq(@, 1, p - 1) \o rest, !.tail = tail,
                                         !.bytes = @ - totlen + nextdiff], -deleted)
    IN  IF deleted = 0 THEN z
        ELSE IF nextdiff # 0 THEN ziplistCascadeUpdate(w, p) ELSE w

\* If the entry after the new one could shrink and the new one is very short, the
\* field keeps its five bytes: the list must not shrink by an insertion.
ziplistInsert(z, p, v) ==
    LET n        == Len(z.es)
        prevlen  == IF p <= n THEN z.es[p].prev
                    ELSE IF n = 0 THEN 0 ELSE zipRawEntryLength(z.es[EntryAt(z, z.tail)])
        new      == NewEntry(v, prevlen)
        reqlen   == zipRawEntryLength(new)
        size     == zipStorePrevEntryLength(reqlen)
        force    == p <= n /\ size - z.es[p].ps = -4 /\ reqlen < 4
        nextdiff == IF p <= n /\ ~force THEN size - z.es[p].ps ELSE 0
        rest     == [i \in 1..(n - p + 1) |->
                       IF i = 1 THEN [z.es[p] EXCEPT !.ps = IF force THEN 5 ELSE size, !.prev = reqlen]
                                ELSE z.es[p + i - 1]]
        tail     == CASE p > n -> Offset(z, p)
                      [] p = n -> z.tail + reqlen
                      [] p < n -> z.tail + reqlen + nextdiff
        w        == IncrLength([z EXCEPT !.es = SubSeq(@, 1, p - 1) \o <<new>> \o rest, !.tail = tail,
                                         !.bytes = @ + reqlen + nextdiff], 1)
    IN  IF nextdiff # 0 THEN ziplistCascadeUpdate(w, p + 1) ELSE w

\* The bytes of the two lists one after the other; the seam is then repaired.
ziplistMerge(a, b) ==
    LET len == a.len + b.len
        w   == [bytes |-> a.bytes + b.bytes - HeaderSize - 1,
                tail  |-> a.bytes - 1 + b.tail - HeaderSize,
                len   |-> IF len < ZipMaxLen THEN len ELSE ZipMaxLen,
                es    |-> a.es \o b.es]
    IN  ziplistCascadeUpdate(w, EntryAt(w, a.tail))

\* A length that is not known is counted, and stored again if it can be.
ziplistLen(z) ==
    IF z.len < ZipMaxLen THEN z.len ELSE Len(z.es)

\* The entries from the tail on, each found by the prevlen of the one after it.
ziplistPrev(z) ==
    LET Step(a, i) == IF a.off <= HeaderSize THEN a
                      ELSE LET e == z.es[EntryAt(z, a.off - a.prev)]
                           IN  [off |-> a.off - a.prev, prev |-> e.prev, vs |-> Append(a.vs, ValueOf(e))]
        last == z.es[EntryAt(z, z.tail)]
    IN  FoldLeft(Step, [off |-> z.tail, prev |-> last.prev, vs |-> <<ValueOf(last)>>],
                 [k \in 1..(Len(z.es) - 1) |-> k]).vs

\* The first entry equal to v of those at distance skip + 1 from one another, 0 if none.
ziplistFind(z, v, skip) ==
    LET Same(e) == IF e.enc = "str" THEN ~IsInt(v) /\ e.raw = v
                   ELSE IsInt(v) /\ zipLoadInteger(e.raw, e.enc) = v.int
        hits == {i \in DOMAIN z.es : (i - 1) % (skip + 1) = 0 /\ Same(z.es[i])}
    IN  IF hits = {} THEN 0 ELSE CHOOSE i \in hits : \A j \in hits : i <= j

-----------------------------------------------------------------------------

ZiplistInit == zl = ziplistNew /\ zref = <<>>

Insert(p, v) ==
    /\ Len(zref) < ZipMaxEntries /\ p <= Len(zref) + 1
    /\ zl' = ziplistInsert(zl, p, v)
    /\ zref' = InsertAt(zref, p, v)

DeleteRange(p, num) ==
    /\ p <= Len(zref)
    /\ zl' = ziplistDelete(zl, p, num)
    /\ zref' = SubSeq(zref, 1, p - 1) \o SubSeq(zref, p + num, Len(zref))

\* A second list, of the entries from p on, is split off and merged again behind.
Merge(p) ==
    /\ 1 < p /\ p <= Len(zref)
    /\ zl' = ziplistMerge(ziplistDelete(zl, 1, p - 1), ziplistDelete(zl, p, Len(zref)))
    /\ zref' = SubSeq(zref, p, Len(zref)) \o SubSeq(zref, 1, p - 1)

\* ziplistLen() stores the length it counted.
Measure ==
    /\ zl.len = ZipMaxLen
    /\ zl' = [zl EXCEPT !.len = IF Len(zl.es) < ZipMaxLen THEN Len(zl.es) ELSE @]
    /\ UNCHANGED zref

ZiplistNext ==
    \/ \E p \in 1..ZipMaxEntries, v \in ZipValues : Insert(p, v)
    \/ \E p \in 1..ZipMaxEntries, n \in 1..2 : DeleteRange(p, n)
    \/ \E p \in 1..ZipMaxEntries : Merge(p)
    \/ Measure

-----------------------------------------------------------------------------

\* Whatever was inserted, deleted and merged, walking the list forwards and backwards
\* gives the values of the sequence it stands for, numbers decoded to themselves, the
\* header has its size and tail, and a search finds the first entry with a value.
ZiplistExact ==
    /\ [i \in DOMAIN zl.es |-> ValueOf(zl.es[i])] = zref
    /\ zl.bytes = HeaderSize + 1 + Length(zl.es)
    /\ ziplistLen(zl) = Len(zref)
    /\ zl.es # <<>> => zl.tail = Offset(zl, Len(zl.es)) /\ ziplistPrev(zl) = Reverse(zref)
    /\ \A i \in DOMAIN zl.es :
          /\ zl.es[i].prev = IF i = 1 THEN 0 ELSE zipRawEntryLength(zl.es[i - 1])
          /\ zl.es[i].ps >= zipStorePrevEntryLength(zl.es[i].prev)
    /\ \A v \in ZipValues, skip \in 0..1 :
          LET i == ziplistFind(zl, v, skip)
          IN  IF i = 0 THEN \A j \in DOMAIN zref : (j - 1) % (skip + 1) = 0 => zref[j] # v
              ELSE zref[i] = v
=============================================================================
