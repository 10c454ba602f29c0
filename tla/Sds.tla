-------------------------------- MODULE Sds --------------------------------
(***************************************************************************)
(* sds.c: the dynamic strings of Redis.  A string is a header (its type,    *)
(* the length, the room allocated for it) before a buffer of bytes; the     *)
(* type says how wide the two numbers are, and is changed when they no      *)
(* longer fit.  Every operation is modelled on the bytes of the buffer; the *)
(* value the string should hold is kept beside it.                          *)
(*                                                                          *)
(* SdsLimit[t] is the first length type t cannot hold (2^5, 2^8, 2^16,      *)
(* 2^32, 2^64 in the code), SdsMaxPrealloc is SDS_MAX_PREALLOC.             *)
(***************************************************************************)
EXTENDS Integers, Sequences, FiniteSets

CONSTANTS SdsLimit, SdsMaxPrealloc,
          SdsBytes,     \* the bytes of the strings
          SdsTexts,     \* the strings that are given to the operations
          SdsPlaces,    \* the places, from the start or the end, that ranges are cut at
          SdsMaxLen     \* bound: strings are not made longer

SDS_TYPE_5  == 0
SDS_TYPE_8  == 1
SDS_TYPE_64 == 4
SdsTypes == SDS_TYPE_5 .. SDS_TYPE_64

\* A longer type holds longer strings.  All of the memory can be counted in 64 bits.
ASSUME SdsAssumption ==
    /\ SdsLimit \in [SdsTypes -> Nat \ {0}]
    /\ \A t \in SdsTypes \ {SDS_TYPE_64} : SdsLimit[t] < SdsLimit[t + 1]
    /\ SdsMaxPrealloc \in Nat \ {0} /\ SdsMaxLen \in Nat
    /\ SdsMaxLen + SdsMaxPrealloc < SdsLimit[SDS_TYPE_64]
    /\ SdsBytes \subseteq Nat /\ 0 \in SdsBytes
    /\ SdsTexts \subseteq Seq(SdsBytes) /\ SdsPlaces \subseteq Int

\* What a byte of the buffer holds that was allocated and never written.
Garbage == -1

VARIABLES
    str,    \* the string: its type, len and alloc, the bytes `cap` of its memory after the
            \* header and before the room for the final null, and these bytes
    val,    \* the value it should hold
    fmt,    \* in the loop of sdscatfmt(), which leaves the string without its null
    asserts \* the assertions hold that were met

sdsVars == <<str, val, fmt, asserts>>

-----------------------------------------------------------------------------
\* Memory

\* malloc() of `cap` bytes and one more.
Fresh(cap) == [i \in 0..cap |-> Garbage]

\* memcpy(): the bytes t from position `at` on.  A write outside of the memory makes the
\* buffer longer than it is.
Write(buf, at, t) ==
    [i \in DOMAIN buf \cup at..(at + Len(t) - 1) |->
        IF i \in at..(at + Len(t) - 1) THEN t[i - at + 1] ELSE buf[i]]

\* realloc() or malloc() and memcpy(): the first n bytes are kept.
Moved(buf, n, cap) == [i \in 0..cap |-> IF i < n /\ i \in DOMAIN buf THEN buf[i] ELSE Garbage]

\* memmove() of n bytes from `from` to the start.
Shifted(buf, from, n) == [i \in DOMAIN buf |-> IF i < n THEN buf[i + from] ELSE buf[i]]

Term(s, at) == [s EXCEPT !.buf = Write(s.buf, at, <<0>>)]

-----------------------------------------------------------------------------
\* The header

sdsReqType(n) ==
    CHOOSE t \in SdsTypes : /\ t = SDS_TYPE_64 \/ n < SdsLimit[t]
                            /\ \A u \in SdsTypes : u < t => n >= SdsLimit[u]

sdslen(s) == s.len

\* A string of type 5 does not know its room.
sdsalloc(s) == IF s.type = SDS_TYPE_5 THEN s.len ELSE s.alloc

sdsavail(s) == IF s.type = SDS_TYPE_5 THEN 0 ELSE s.alloc - s.len

sdssetlen(s, n) == [s EXCEPT !.len = n % SdsLimit[s.type]]

sdsinclen(s, n) == [s EXCEPT !.len = (s.len + n) % SdsLimit[s.type]]

sdssetalloc(s, n) ==
    IF s.type = SDS_TYPE_5 THEN s ELSE [s EXCEPT !.alloc = n % SdsLimit[s.type]]

-----------------------------------------------------------------------------
\* The operations

\* sdsnewlen: an empty string is made to be appended to.
sdsnewlen(t) ==
    LET n == Len(t)
        type == IF n = 0 THEN SDS_TYPE_8 ELSE sdsReqType(n)
        s == [type |-> type, len |-> n % SdsLimit[type], alloc |-> 0,
              cap |-> n, buf |-> Write(Fresh(n), 0, t)]
    IN  Term(sdssetalloc(s, n), n)

\* The string with its bytes in a new piece of memory.  The header is a new one
\* when its type changes.
Realloc(s, type, cap) ==
    LET n == IF s.type = type THEN s.cap + 1 ELSE s.len + 1
        m == [type |-> type, len |-> s.len, alloc |-> 0, cap |-> cap, buf |-> Moved(s.buf, n, cap)]
    IN  sdssetalloc(IF s.type = type THEN m ELSE sdssetlen(m, s.len), cap)

\* Mutant: the type of the header is chosen before the extra room is added.
sdsMakeRoomFor_Early(s, addlen) ==
    LET need == s.len + addlen
        newlen == IF need < SdsMaxPrealloc THEN need * 2 ELSE need + SdsMaxPrealloc
        req == sdsReqType(need)
    IN  IF sdsavail(s) >= addlen THEN s
        ELSE Realloc(s, IF req = SDS_TYPE_5 THEN SDS_TYPE_8 ELSE req, newlen)

sdsMakeRoomFor(s, addlen) ==
    LET need == s.len + addlen
        newlen == IF need < SdsMaxPrealloc THEN need * 2 ELSE need + SdsMaxPrealloc
        req == sdsReqType(newlen)
    IN  IF sdsavail(s) >= addlen THEN s
        ELSE Realloc(s, IF req = SDS_TYPE_5 THEN SDS_TYPE_8 ELSE req, newlen)

sdsRemoveFreeSpace(s) == Realloc(s, sdsReqType(s.len), s.len)

sdsclear(s) == Term(sdssetlen(s, 0), 0)

\* strlen()
Strlen(buf) == CHOOSE n \in DOMAIN buf : buf[n] = 0 /\ \A i \in DOMAIN buf : i < n => buf[i] # 0

sdsupdatelen(s) == sdssetlen(s, Strlen(s.buf))

sdscatlen(s, t) ==
    LET m == sdsMakeRoomFor(s, Len(t))
        c == [m EXCEPT !.buf = Write(m.buf, s.len, t)]
    IN  Term(sdssetlen(c, s.len + Len(t)), s.len + Len(t))

sdscpylen(s, t) ==
    LET m == IF sdsalloc(s) < Len(t) THEN sdsMakeRoomFor(s, Len(t) - s.len) ELSE s
        c == [m EXCEPT !.buf = Write(m.buf, 0, t)]
    IN  sdssetlen(Term(c, Len(t)), Len(t))

Zeros(n) == [i \in 1..n |-> 0]

sdsgrowzero(s, n) ==
    LET m == sdsMakeRoomFor(s, n - s.len)
    IN  IF n <= s.len THEN s
        ELSE sdssetlen([m EXCEPT !.buf = Write(m.buf, s.len, Zeros(n - s.len + 1))], n)

\* sdsIncrLen: the caller has written after the end, or cuts it off.
IncrLenAssert(s, incr) ==
    IF s.type = SDS_TYPE_5
    THEN \/ incr > 0 /\ s.len + incr < SdsLimit[SDS_TYPE_5]
         \/ incr < 0 /\ s.len >= -incr
    ELSE \/ incr >= 0 /\ s.alloc - s.len >= incr
         \/ incr < 0 /\ s.len >= -incr

sdsIncrLen(s, incr) ==
    LET m == [s EXCEPT !.len = (s.len + incr) % SdsLimit[s.type]] IN Term(m, m.len)

\* sdsrange: the places first and end of a range count from the end when they are negative.
FromEnd(s, i) == IF i >= 0 THEN i ELSE IF s.len + i < 0 THEN 0 ELSE s.len + i

sdsrange(s, start, end) ==
    LET first == FromEnd(s, start)
        last == IF FromEnd(s, end) >= s.len THEN s.len - 1 ELSE FromEnd(s, end)
        newlen == IF first > last \/ first >= s.len THEN 0 ELSE last - first + 1
        m == [s EXCEPT !.buf = IF newlen = 0 THEN s.buf ELSE Shifted(s.buf, first, newlen)]
    IN  IF s.len = 0 THEN s ELSE sdssetlen(Term(m, newlen), newlen)

\* sdstrim: strchr() finds the null at the end of cset too.
Trims(cset) == cset \cup {0}

TrimFrom(s, cset) ==
    CHOOSE i \in 0..s.len : /\ i < s.len => s.buf[i] \notin Trims(cset)
                            /\ \A j \in 0..(i - 1) : s.buf[j] \in Trims(cset)

TrimTo(s, cset, from) ==
    CHOOSE i \in from..(s.len - 1) : /\ i > from => s.buf[i] \notin Trims(cset)
                                     /\ \A j \in (i + 1)..(s.len - 1) : s.buf[j] \in Trims(cset)

sdstrim(s, cset) ==
    LET from == TrimFrom(s, cset)
        newlen == IF from = s.len THEN 0 ELSE TrimTo(s, cset, from) - from + 1
        m == [s EXCEPT !.buf = Shifted(s.buf, from, newlen)]
    IN  sdssetlen(Term(m, newlen), newlen)

\* A round of the loop of sdscatfmt: room for one byte, then for the piece t.
sdscatfmt(s, t) ==
    LET one == IF sdsavail(s) = 0 THEN sdsMakeRoomFor(s, 1) ELSE s
        m == IF sdsavail(one) < Len(t) THEN sdsMakeRoomFor(one, Len(t)) ELSE one
    IN  sdsinclen([m EXCEPT !.buf = Write(m.buf, s.len, t)], Len(t))

-----------------------------------------------------------------------------
Fits(n) == n <= SdsMaxLen

SdsInit ==
    \E t \in SdsTexts : /\ Fits(Len(t))
                       /\ str = sdsnewlen(t) /\ val = t /\ fmt = FALSE /\ asserts = TRUE

Keeps == ~fmt /\ UNCHANGED <<fmt, asserts>>

\* sdsnew, sdsdup, sdsempty
SdsNew(t) == Keeps /\ Fits(Len(t)) /\ str' = sdsnewlen(t) /\ val' = t

SdsCat(t) == Keeps /\ Fits(Len(val) + Len(t)) /\ str' = sdscatlen(str, t) /\ val' = val \o t

SdsCpy(t) == Keeps /\ Fits(Len(t)) /\ str' = sdscpylen(str, t) /\ val' = t

SdsGrow(n) ==
    /\ Keeps /\ Fits(n) /\ str' = sdsgrowzero(str, n)
    /\ val' = IF n <= Len(val) THEN val ELSE val \o Zeros(n - Len(val))

SdsClear == Keeps /\ str' = sdsclear(str) /\ val' = <<>>

SdsShrink == Keeps /\ str' = sdsRemoveFreeSpace(str) /\ val' = val

\* The value up to its first null, as a C string.
SdsUpdateLen ==
    LET ends == {n \in 1..Len(val) : val[n] = 0}
    IN  /\ Keeps /\ str' = sdsupdatelen(str)
        /\ \/ ends = {} /\ val' = val
           \/ \E n \in ends : /\ \A i \in ends : n <= i
                              /\ val' = SubSeq(val, 1, n - 1)

SdsRange(start, end) ==
    LET place(i) == IF i >= 0 THEN i ELSE IF i + Len(val) < 0 THEN 0 ELSE i + Len(val)
    IN  /\ Keeps /\ str' = sdsrange(str, start, end)
        /\ val' = SubSeq(val, place(start) + 1, IF place(end) < Len(val) THEN place(end) + 1 ELSE Len(val))

\* From the first byte that stays to the last one.
SdsTrim(cset) ==
    /\ Keeps /\ str' = sdstrim(str, cset)
    /\ \E a \in 1..(Len(val) + 1), b \in 0..Len(val) :
         /\ \A i \in 1..Len(val) : i < a \/ i > b => val[i] \in Trims(cset)
         /\ a <= b => val[a] \notin Trims(cset) /\ val[b] \notin Trims(cset)
         /\ val' = SubSeq(val, a, b)

\* As readQueryFromClient() reads: room for n bytes, and t arrives.
SdsRead(n, t) ==
    LET m == sdsMakeRoomFor(str, n)
        r == [m EXCEPT !.buf = Write(m.buf, str.len, t)]
    IN  /\ ~fmt /\ Len(t) \in 1..n /\ Fits(Len(val) + n)
        /\ asserts' = (asserts /\ IncrLenAssert(r, Len(t)))
        /\ str' = sdsIncrLen(r, Len(t)) /\ val' = val \o t
        /\ UNCHANGED fmt

\* sdsIncrLen with a negative number, as processMultibulkBuffer() removes a CRLF.
SdsCut(n) ==
    /\ ~fmt /\ n \in 1..Len(val)
    /\ asserts' = (asserts /\ IncrLenAssert(str, -n))
    /\ str' = sdsIncrLen(str, -n) /\ val' = SubSeq(val, 1, Len(val) - n)
    /\ UNCHANGED fmt

SdsFmt(t) ==
    /\ Fits(Len(val) + Len(t)) /\ Fits(Len(val) + 1)
    /\ str' = sdscatfmt(str, t) /\ val' = val \o t /\ fmt' = TRUE
    /\ UNCHANGED asserts

SdsFmtEnd == fmt /\ str' = Term(str, str.len) /\ fmt' = FALSE /\ UNCHANGED <<val, asserts>>

SdsNext ==
    \/ \E t \in SdsTexts : SdsNew(t) \/ SdsCat(t) \/ SdsCpy(t) \/ SdsFmt(t)
    \/ \E n \in 0..SdsMaxLen : SdsGrow(n) \/ SdsCut(n) \/ \E t \in SdsTexts : SdsRead(n, t)
    \/ SdsClear \/ SdsShrink \/ SdsUpdateLen \/ SdsFmtEnd
    \/ \E start \in SdsPlaces, end \in SdsPlaces : SdsRange(start, end)
    \/ \E cset \in SUBSET (SdsBytes \ {0}) : SdsTrim(cset)

SdsSpec == SdsInit /\ [][SdsNext]_sdsVars

-----------------------------------------------------------------------------

\* Every operation leaves a string that sds.h describes: the two numbers of the header fit
\* its type and no write leaves the memory, the room it counts is there and holds the
\* string, the bytes are those of the value and (but in the loop of sdscatfmt) a null
\* follows them, and the assertions of sdsIncrLen() hold.
SdsSound ==
    /\ asserts
    /\ str.len < SdsLimit[str.type] /\ str.alloc < SdsLimit[str.type]
    /\ DOMAIN str.buf = 0..str.cap
    /\ str.len <= sdsalloc(str) /\ sdsalloc(str) <= str.cap
    /\ sdslen(str) = Len(val)
    /\ \A i \in 1..Len(val) : str.buf[i - 1] = val[i]
    /\ ~fmt => str.buf[str.len] = 0
=============================================================================
