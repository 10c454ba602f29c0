----------------------------- MODULE SdsProofs -----------------------------
(***************************************************************************)
(* Proof that every operation of sds.c keeps a string whole (SdsSound), for *)
(* any widths of the header, any bytes and any lengths.  The invariant is   *)
(* SdsSound with the types of its parts: a string is Good for a value.      *)
(***************************************************************************)
EXTENDS Sds, TLAPS, SequenceTheorems

\* The memory of a string.
Buffers == UNION {[0..n -> Int] : n \in Nat}

\* Strings with their headers.
Strings == [type : SdsTypes, len : Nat, alloc : Nat, cap : Nat, buf : Buffers]

\* The header and the memory of a string agree.
Whole(s) ==
    /\ s \in Strings
    /\ s.buf \in [0..s.cap -> Int]
    /\ s.len < SdsLimit[s.type] /\ s.alloc < SdsLimit[s.type]
    /\ s.len <= sdsalloc(s) /\ sdsalloc(s) <= s.cap

\* The bytes are those of the value.
Holds(s, v) == s.len = Len(v) /\ \A i \in 1..Len(v) : s.buf[i - 1] = v[i]

\* A whole string that holds a value.
Good(s, v) == Whole(s) /\ Holds(s, v)

\* The terminating NUL.
Ended(s) == s.buf[s.len] = 0

\* The inductive invariant.
IInv ==
    /\ asserts = TRUE /\ fmt \in BOOLEAN
    /\ val \in Seq(SdsBytes) /\ Len(val) <= SdsMaxLen
    /\ Good(str, val)
    /\ ~fmt => Ended(str)

-----------------------------------------------------------------------------
\* Memory and header

\* The header types are numbers.
LEMMA TypesAre == SdsTypes = {0, 1, 2, 3, 4} /\ SDS_TYPE_5 = 0 /\ SDS_TYPE_8 = 1 /\ SDS_TYPE_64 = 4
  BY DEF SdsTypes, SDS_TYPE_5, SDS_TYPE_8, SDS_TYPE_64

\* The limits of the header types grow.
LEMMA LimitsGrow ==
    /\ SdsLimit[0] \in Nat /\ SdsLimit[1] \in Nat /\ SdsLimit[2] \in Nat /\ SdsLimit[3] \in Nat /\ SdsLimit[4] \in Nat
    /\ 0 < SdsLimit[0] /\ SdsLimit[0] < SdsLimit[1] /\ SdsLimit[1] < SdsLimit[2]
    /\ SdsLimit[2] < SdsLimit[3] /\ SdsLimit[3] < SdsLimit[4]
<1>1. SdsLimit[0] < SdsLimit[0 + 1] /\ SdsLimit[1] < SdsLimit[1 + 1] /\ SdsLimit[2] < SdsLimit[2 + 1]
      /\ SdsLimit[3] < SdsLimit[3 + 1]
  BY SdsAssumption, TypesAre
<1>2. \A t \in {0, 1, 2, 3, 4} : SdsLimit[t] \in Nat /\ SdsLimit[t] # 0
  BY SdsAssumption, TypesAre
<1> QED
  BY <1>1, <1>2

\* A type is found for every length that fits the widest one, and the length fits it.
LEMMA ReqType ==
    ASSUME NEW n \in Nat, n < SdsLimit[4]
    PROVE  sdsReqType(n) \in SdsTypes /\ n < SdsLimit[sdsReqType(n)]
<1> DEFINE P(t) == /\ t = SDS_TYPE_64 \/ n < SdsLimit[t]
                   /\ \A u \in SdsTypes : u < t => n >= SdsLimit[u]
<1>1. \E t \in SdsTypes : P(t)
  <2>1. CASE n < SdsLimit[0]
    <3>1. P(0)
      BY <2>1, TypesAre
    <3> QED
      BY <3>1, TypesAre
  <2>2. CASE n >= SdsLimit[0] /\ n < SdsLimit[1]
    <3>1. P(1)
      BY <2>2, TypesAre
    <3> QED
      BY <3>1, TypesAre
  <2>3. CASE n >= SdsLimit[1] /\ n < SdsLimit[2]
    <3>1. P(2)
      BY <2>3, TypesAre, LimitsGrow
    <3> QED
      BY <3>1, TypesAre
  <2>4. CASE n >= SdsLimit[2] /\ n < SdsLimit[3]
    <3>1. P(3)
      BY <2>4, TypesAre, LimitsGrow
    <3> QED
      BY <3>1, TypesAre
  <2>5. CASE n >= SdsLimit[3]
    <3>1. P(4)
      BY <2>5, TypesAre, LimitsGrow
    <3> QED
      BY <3>1, TypesAre
  <2> QED
    BY <2>1, <2>2, <2>3, <2>4, <2>5, LimitsGrow
<1>2. sdsReqType(n) \in SdsTypes /\ P(sdsReqType(n))
  BY <1>1 DEF sdsReqType
<1> QED
  BY <1>2, TypesAre

\* Bytes written into a buffer change no others.
LEMMA WriteFacts ==
    ASSUME NEW c \in Nat, NEW buf \in [0..c -> Int], NEW at \in Nat, NEW t \in Seq(Int), at + Len(t) <= c + 1
    PROVE  /\ Write(buf, at, t) \in [0..c -> Int]
           /\ \A i \in 0..c : (i < at \/ i >= at + Len(t)) => Write(buf, at, t)[i] = buf[i]
           /\ \A i \in 1..Len(t) : Write(buf, at, t)[at + i - 1] = t[i]
<1>1. DOMAIN buf \cup at..(at + Len(t) - 1) = 0..c
  OBVIOUS
<1>2. \A i \in at..(at + Len(t) - 1) : t[i - at + 1] \in Int
  OBVIOUS
<1> QED
  BY <1>1, <1>2 DEF Write

\* A length that fits its field is stored as it is.
LEMMA SmallMod == \A n \in Nat, m \in Nat : n < m => n % m = n
  OBVIOUS

\* The length set is the length asked for.
LEMMA SetLen ==
    ASSUME NEW s \in Strings, NEW n \in Nat, n < SdsLimit[s.type]
    PROVE  sdssetlen(s, n) = [s EXCEPT !.len = n]
  BY SmallMod, SdsAssumption DEF sdssetlen, Strings

\* A string whose bytes are others, whose memory is the same.
LEMMA OtherBytes ==
    ASSUME NEW s, Whole(s), NEW b \in [0..s.cap -> Int]
    PROVE  /\ Whole([s EXCEPT !.buf = b])
           /\ [s EXCEPT !.buf = b].buf = b
           /\ [s EXCEPT !.buf = b].len = s.len /\ [s EXCEPT !.buf = b].cap = s.cap
           /\ [s EXCEPT !.buf = b].type = s.type /\ [s EXCEPT !.buf = b].alloc = s.alloc
<1>1. b \in Buffers
  BY DEF Whole, Strings, Buffers
<1>2. [s EXCEPT !.buf = b] \in Strings
  BY <1>1 DEF Whole, Strings
<1> QED
  BY <1>2 DEF Whole, Strings, sdsalloc

\* A string that is given another length within its room.
LEMMA OtherLen ==
    ASSUME NEW s, Whole(s), NEW n \in Nat, n <= sdsalloc(s)
    PROVE  /\ sdssetlen(s, n) = [s EXCEPT !.len = n]
           /\ Whole(sdssetlen(s, n))
           /\ sdssetlen(s, n).len = n /\ sdssetlen(s, n).buf = s.buf /\ sdssetlen(s, n).cap = s.cap
           /\ sdssetlen(s, n).type = s.type /\ sdssetlen(s, n).alloc = s.alloc
<1>1. s \in Strings /\ s.len \in Nat /\ s.alloc \in Nat /\ s.cap \in Nat /\ s.type \in SdsTypes
  BY DEF Whole, Strings
<1>2. n < SdsLimit[s.type]
  BY <1>1, SdsAssumption DEF Whole, sdsalloc
<1>3. sdssetlen(s, n) = [s EXCEPT !.len = n]
  BY <1>1, <1>2, SetLen
<1>4. [s EXCEPT !.len = n] \in Strings
  BY <1>1 DEF Strings
<1> HIDE DEF sdssetlen
<1>5. Whole([s EXCEPT !.len = n])
  BY <1>1, <1>2, <1>4 DEF Whole, sdsalloc, Strings
<1> QED
  BY <1>1, <1>3, <1>5 DEF Strings

\* The buffer b is that of s with the bytes t at `at'.
BytesAt(b, s, at, t) ==
    /\ b \in [0..s.cap -> Int]
    /\ \A i \in 0..s.cap : (i < at \/ i >= at + Len(t)) => b[i] = s.buf[i]
    /\ \A i \in 1..Len(t) : b[at + i - 1] = t[i]

\* Bytes are written, a null among them or after them.
LEMMA Written ==
    ASSUME NEW s, Whole(s), NEW at \in Nat, NEW t \in Seq(Int), at + Len(t) <= s.cap + 1
    PROVE  BytesAt(Write(s.buf, at, t), s, at, t)
  BY WriteFacts DEF Whole, Strings, BytesAt

\* A NUL written inside of the allocation.
LEMMA Terminated ==
    ASSUME NEW s, Whole(s), NEW at \in Nat, at <= s.cap
    PROVE  /\ Whole(Term(s, at))
           /\ Term(s, at).len = s.len /\ Term(s, at).cap = s.cap /\ Term(s, at).type = s.type
           /\ Term(s, at).alloc = s.alloc
           /\ Term(s, at).buf[at] = 0
           /\ \A i \in 0..s.cap : i # at => Term(s, at).buf[i] = s.buf[i]
<1>1. s.cap \in Nat
  BY DEF Whole, Strings
<1> DEFINE z == <<0>>
           b == Write(s.buf, at, z)
<1>2. z \in Seq(Int) /\ Len(z) = 1 /\ z[1] = 0
  OBVIOUS
<1> HIDE DEF z
<1>6. at + Len(z) <= s.cap + 1
  BY <1>1, <1>2
<1>3. /\ b \in [0..s.cap -> Int]
      /\ \A i \in 0..s.cap : (i < at \/ i >= at + Len(z)) => b[i] = s.buf[i]
      /\ \A i \in 1..Len(z) : b[at + i - 1] = z[i]
  <2>1. BytesAt(Write(s.buf, at, z), s, at, z)
    BY <1>2, <1>6, Written
  <2> QED
    BY <2>1 DEF BytesAt
<1>4. b[at] = 0 /\ \A i \in 0..s.cap : i # at => b[i] = s.buf[i]
  <2> HIDE DEF b
  <2>1. 1 \in 1..Len(z) /\ at + 1 - 1 = at
    BY <1>2
  <2>2. b[at + 1 - 1] = z[1]
    BY <2>1, <1>3
  <2> QED
    BY <2>1, <2>2, <1>1, <1>2, <1>3
<1>5. Term(s, at) = [s EXCEPT !.buf = b]
  BY DEF Term, z
<1> HIDE DEF b
<1> QED
  BY <1>1, <1>3, <1>4, <1>5, OtherBytes

-----------------------------------------------------------------------------
\* Allocation

\* Bytes moved to another allocation.
LEMMA MovedFacts ==
    ASSUME NEW c \in Nat, NEW buf \in [0..c -> Int], NEW n \in Nat, NEW cap \in Nat
    PROVE  /\ Moved(buf, n, cap) \in [0..cap -> Int]
           /\ \A i \in 0..c : i < n /\ i <= cap => Moved(buf, n, cap)[i] = buf[i]
  BY DEF Moved, Garbage

\* A string moved to another header and allocation keeps its value.
LEMMA Reallocated ==
    ASSUME NEW s, NEW v \in Seq(SdsBytes), Good(s, v), NEW type \in SdsTypes, NEW cap \in Nat,
           s.len <= cap, cap < SdsLimit[type]
    PROVE  /\ Good(Realloc(s, type, cap), v)
           /\ Realloc(s, type, cap).cap = cap
           /\ Realloc(s, type, cap).type = type
           /\ type # SDS_TYPE_5 => Realloc(s, type, cap).alloc = cap
           /\ Ended(s) => Ended(Realloc(s, type, cap))
<1> DEFINE n == IF s.type = type THEN s.cap + 1 ELSE s.len + 1
           b == Moved(s.buf, n, cap)
           al == IF type = SDS_TYPE_5 THEN 0 ELSE cap
           r == [type |-> type, len |-> s.len, alloc |-> al, cap |-> cap, buf |-> b]
<1>1. s.type \in SdsTypes /\ s.len \in Nat /\ s.cap \in Nat /\ s.buf \in [0..s.cap -> Int]
      /\ s.len < SdsLimit[s.type] /\ s.len <= s.cap /\ s.alloc \in Nat
  BY DEF Good, Whole, Strings, sdsalloc
<1>2. n \in Nat /\ n > s.len
  BY <1>1
<1> HIDE DEF n
<1>3. b \in [0..cap -> Int] /\ \A i \in 0..s.cap : i < n /\ i <= cap => b[i] = s.buf[i]
  <2>1. s.cap \in Nat /\ s.buf \in [0..s.cap -> Int] /\ n \in Nat /\ cap \in Nat
    BY <1>1, <1>2
  <2> QED
    BY <2>1, MovedFacts, ZenonT(60)
<1>4. Realloc(s, type, cap) = r
  <2> DEFINE m == [type |-> type, len |-> s.len, alloc |-> 0, cap |-> cap, buf |-> b]
  <2>1. sdssetlen(m, s.len) = m
    <3>1. s.len < SdsLimit[type] /\ SdsLimit[type] \in Nat
      BY <1>1, SdsAssumption
    <3>2. s.len % SdsLimit[type] = s.len
      BY <1>1, <3>1, SmallMod
    <3> HIDE DEF b
    <3> QED
      BY <3>2 DEF sdssetlen
  <2>2. sdssetalloc(m, cap) = r
    <3>1. SdsLimit[type] \in Nat
      BY SdsAssumption
    <3>2. cap % SdsLimit[type] = cap
      BY <3>1, SmallMod
    <3> HIDE DEF b
    <3> QED
      BY <3>2 DEF sdssetalloc
  <2>3. Realloc(s, type, cap) = sdssetalloc(IF s.type = type THEN m ELSE sdssetlen(m, s.len), cap)
    BY DEF Realloc, n
  <2> HIDE DEF m, r
  <2> QED
    BY <2>1, <2>2, <2>3
<1>5. b \in Buffers
  BY <1>3 DEF Buffers
<1>6. al \in Nat /\ al <= cap /\ al < SdsLimit[type]
  BY LimitsGrow, SdsAssumption, TypesAre
<1> HIDE DEF b, al
<1>7. r \in Strings
  BY <1>1, <1>5, <1>6 DEF Strings
<1>8. r.len <= sdsalloc(r) /\ sdsalloc(r) <= r.cap
  BY <1>1 DEF sdsalloc, al
<1>9. Whole(r)
  BY <1>1, <1>3, <1>6, <1>7, <1>8, SdsAssumption DEF Whole
<1>10. \A i \in 0..s.len : r.buf[i] = s.buf[i]
  BY <1>1, <1>2, <1>3
<1>11. Holds(r, v)
  BY <1>10, <1>1 DEF Good, Holds
<1>12. Ended(s) => Ended(r)
  BY <1>10, <1>1 DEF Ended
<1>13. type # SDS_TYPE_5 => r.alloc = cap
  BY DEF al
<1> QED
  BY <1>4, <1>9, <1>11, <1>12, <1>13 DEF Good

\* There is room for `add` bytes more.
LEMMA RoomMade ==
    ASSUME NEW s, NEW v \in Seq(SdsBytes), Good(s, v), NEW add \in Nat, Len(v) + add <= SdsMaxLen
    PROVE  /\ Good(sdsMakeRoomFor(s, add), v)
           /\ s.len + add <= sdsalloc(sdsMakeRoomFor(s, add))
           /\ sdsMakeRoomFor(s, add).len = s.len
           /\ Ended(s) => Ended(sdsMakeRoomFor(s, add))
           /\ add > 0 => sdsMakeRoomFor(s, add).type # SDS_TYPE_5
<1> DEFINE need == s.len + add
           newlen == IF need < SdsMaxPrealloc THEN need * 2 ELSE need + SdsMaxPrealloc
           req == sdsReqType(newlen)
           type == IF req = SDS_TYPE_5 THEN SDS_TYPE_8 ELSE req
<1>1. s.type \in SdsTypes /\ s.len \in Nat /\ s.cap \in Nat /\ s.alloc \in Nat /\ s.len = Len(v)
      /\ s.len <= sdsalloc(s)
  BY DEF Good, Whole, Strings, Holds
<1>2. CASE sdsavail(s) >= add
  <2>1. sdsMakeRoomFor(s, add) = s
    BY <1>2 DEF sdsMakeRoomFor
  <2> QED
    BY <2>1, <1>1, <1>2 DEF sdsavail, sdsalloc
<1>3. CASE ~(sdsavail(s) >= add)
  <2>1. need \in Nat /\ need <= SdsMaxLen /\ need >= s.len
    BY <1>1
  <2> HIDE DEF need
  <2>10. SdsMaxPrealloc \in Nat /\ SdsMaxLen \in Nat /\ SdsLimit[4] \in Nat /\ SdsMaxLen + SdsMaxPrealloc < SdsLimit[4]
    BY SdsAssumption, TypesAre
  <2>2. newlen \in Nat /\ newlen >= need /\ newlen < SdsLimit[4]
    BY <2>1, <2>10
  <2> HIDE DEF newlen
  <2>3. req \in SdsTypes /\ newlen < SdsLimit[req]
    BY <2>2, ReqType
  <2>4. type \in SdsTypes /\ type # SDS_TYPE_5 /\ newlen < SdsLimit[type]
    BY <2>2, <2>3, TypesAre, LimitsGrow
  <2>5. sdsMakeRoomFor(s, add) = Realloc(s, type, newlen)
    BY <1>3 DEF sdsMakeRoomFor, newlen, need
  <2> HIDE DEF type
  <2>6. s.len <= newlen
    BY <1>1, <2>1, <2>2
  <2>7. /\ Good(Realloc(s, type, newlen), v)
        /\ Realloc(s, type, newlen).cap = newlen
        /\ Realloc(s, type, newlen).type = type
        /\ Realloc(s, type, newlen).alloc = newlen
        /\ Ended(s) => Ended(Realloc(s, type, newlen))
    BY <2>2, <2>4, <2>6, Reallocated
  <2>8. Realloc(s, type, newlen).len = s.len
    BY <2>7 DEF Good, Holds
  <2>9. sdsalloc(Realloc(s, type, newlen)) = newlen
    BY <2>4, <2>7 DEF sdsalloc
  <2> QED
    BY <2>1, <2>2, <2>4, <2>5, <2>7, <2>8, <2>9 DEF need
<1> QED
  BY <1>2, <1>3

-----------------------------------------------------------------------------
\* The operations

\* Arguments have lengths.
LEMMA Texts == ASSUME NEW t \in Seq(SdsBytes) PROVE t \in Seq(Int) /\ Len(t) \in Nat
<1>1. SdsBytes \subseteq Int
  BY SdsAssumption
<1>2. Len(t) \in Nat /\ t \in [1..Len(t) -> SdsBytes]
  BY LenProperties
<1>3. t \in [1..Len(t) -> Int]
  BY <1>1, <1>2
<1> QED
  BY <1>2, <1>3, SeqDef

\* sdsnewlen().
LEMMA NewGood ==
    ASSUME NEW t \in Seq(SdsBytes), Len(t) <= SdsMaxLen
    PROVE  Good(sdsnewlen(t), t) /\ Ended(sdsnewlen(t))
<1> DEFINE n == Len(t)
           type == IF n = 0 THEN SDS_TYPE_8 ELSE sdsReqType(n)
           al == IF type = SDS_TYPE_5 THEN 0 ELSE n
           f == Fresh(n)
           b == Write(f, 0, t)
           s == [type |-> type, len |-> n % SdsLimit[type], alloc |-> 0, cap |-> n, buf |-> b]
           r == [type |-> type, len |-> n, alloc |-> al, cap |-> n, buf |-> b]
<1>1. n \in Nat /\ t \in Seq(Int) /\ n <= SdsMaxLen
  BY Texts
<1>2. n < SdsLimit[4]
  BY <1>1, SdsAssumption, TypesAre
<1>3. type \in SdsTypes /\ n < SdsLimit[type] /\ SdsLimit[type] \in Nat
  BY <1>1, <1>2, ReqType, TypesAre, LimitsGrow, SdsAssumption
<1>4. f \in [0..n -> Int]
  BY DEF Fresh, Garbage
<1> HIDE DEF f
<1>5. 0 + Len(t) <= n + 1 /\ 0 \in Nat
  BY <1>1
<1>6. /\ b \in [0..n -> Int]
      /\ \A i \in 1..Len(t) : b[0 + i - 1] = t[i]
  BY <1>1, <1>4, <1>5, WriteFacts, Zenon
<1> HIDE DEF b
<1>7. n % SdsLimit[type] = n
  BY <1>1, <1>3, SmallMod
<1>8. sdssetalloc(s, n) = r
  <2> HIDE DEF type, n
  <2> QED
    BY <1>7 DEF sdssetalloc
<1>9. al \in Nat /\ al <= n /\ al < SdsLimit[type]
  BY <1>1, <1>3
<1>10. b \in Buffers
  BY <1>1, <1>6 DEF Buffers
<1> HIDE DEF al, type
<1>11. r \in Strings
  BY <1>1, <1>3, <1>9, <1>10 DEF Strings
<1>12. r.len <= sdsalloc(r) /\ sdsalloc(r) <= r.cap
  BY <1>1 DEF sdsalloc, al
<1>13. Whole(r)
  BY <1>1, <1>3, <1>6, <1>9, <1>11, <1>12 DEF Whole
<1>14. \A i \in 1..Len(t) : b[i - 1] = t[i]
  BY <1>1, <1>6
<1>15. sdsnewlen(t) = Term(r, n)
  <2>1. sdsnewlen(t) = Term(sdssetalloc(s, n), n)
    BY DEF sdsnewlen, type, b, f
  <2> QED
    BY <2>1, <1>8
<1>16. r.cap = n /\ r.len = n /\ r.buf = b /\ n <= r.cap
  BY <1>1
<1> HIDE DEF r
<1>17. /\ Whole(Term(r, n)) /\ Term(r, n).len = n /\ Term(r, n).buf[n] = 0
       /\ \A i \in 0..n : i # n => Term(r, n).buf[i] = b[i]
  BY <1>1, <1>13, <1>16, Terminated
<1> QED
  BY <1>1, <1>14, <1>15, <1>17 DEF Good, Holds, Ended

\* Bytes written after the end of a string become part of it with its new length.
LEMMA Appended ==
    ASSUME NEW s, NEW v \in Seq(SdsBytes), Good(s, v), NEW t \in Seq(SdsBytes), s.len + Len(t) <= sdsalloc(s)
    PROVE  LET c == [s EXCEPT !.buf = Write(s.buf, s.len, t)]
               r == [c EXCEPT !.len = s.len + Len(t)]
           IN  /\ Whole(c) /\ c.len = s.len /\ c.type = s.type /\ c.alloc = s.alloc /\ c.cap = s.cap
               /\ sdssetlen(c, s.len + Len(t)) = r
               /\ Good(r, v \o t) /\ r.len = s.len + Len(t) /\ r.cap = s.cap /\ r.len <= r.cap
               /\ sdsalloc(r) <= r.cap /\ r.type = s.type
<1> DEFINE b == Write(s.buf, s.len, t)
           c == [s EXCEPT !.buf = b]
           n == s.len + Len(t)
           r == [c EXCEPT !.len = n]
<1> SUFFICES /\ Whole(c) /\ c.len = s.len /\ c.type = s.type /\ c.alloc = s.alloc /\ c.cap = s.cap
             /\ sdssetlen(c, n) = r
             /\ Good(r, v \o t) /\ r.len = n /\ r.cap = s.cap /\ r.len <= r.cap
             /\ sdsalloc(r) <= r.cap /\ r.type = s.type
  OBVIOUS
<1>1. s.len \in Nat /\ s.cap \in Nat /\ s.len = Len(v) /\ sdsalloc(s) <= s.cap /\ Whole(s) /\ s.alloc \in Nat
  BY DEF Good, Whole, Strings, Holds
<1>2. t \in Seq(Int) /\ Len(t) \in Nat
  BY Texts
<1>3. s.len + Len(t) <= s.cap + 1 /\ n \in Nat /\ n <= s.cap
  BY <1>1, <1>2 DEF sdsalloc
<1>4. /\ b \in [0..s.cap -> Int]
      /\ \A i \in 0..s.cap : (i < s.len \/ i >= s.len + Len(t)) => b[i] = s.buf[i]
      /\ \A i \in 1..Len(t) : b[s.len + i - 1] = t[i]
  <2>1. Whole(s) /\ s.len \in Nat /\ t \in Seq(Int) /\ s.len + Len(t) <= s.cap + 1
    BY <1>1, <1>2, <1>3
  <2>2. BytesAt(Write(s.buf, s.len, t), s, s.len, t)
    BY <2>1, Written
  <2> QED
    BY <2>2 DEF BytesAt
<1> HIDE DEF b
<1>5. Whole(c) /\ c.buf = b /\ c.len = s.len /\ c.cap = s.cap /\ c.type = s.type /\ c.alloc = s.alloc
  BY <1>1, <1>4, OtherBytes
<1>6. n <= sdsalloc(c)
  BY <1>5, <1>3, <1>1, <1>2 DEF sdsalloc
<1> HIDE DEF c
<1>7. /\ sdssetlen(c, n) = r
      /\ Whole(r) /\ r.len = n /\ r.buf = b /\ r.cap = s.cap /\ r.type = s.type
  <2>1. n \in Nat
    BY <1>3
  <2> HIDE DEF n
  <2>2. /\ sdssetlen(c, n) = [c EXCEPT !.len = n]
        /\ Whole(sdssetlen(c, n))
        /\ sdssetlen(c, n).len = n /\ sdssetlen(c, n).buf = c.buf /\ sdssetlen(c, n).cap = c.cap
        /\ sdssetlen(c, n).type = c.type
    BY <1>5, <1>6, <2>1, OtherLen
  <2> QED
    BY <2>2, <1>5
<1> HIDE DEF r
<1>8. Len(v \o t) = n /\ \A i \in 1..n : (v \o t)[i] = IF i <= s.len THEN v[i] ELSE t[i - s.len]
  BY <1>1, <1>2
<1>9. \A i \in 1..n : b[i - 1] = (v \o t)[i]
  <2> TAKE i \in 1..n
  <2>1. CASE i <= s.len
    <3>1. i - 1 \in 0..s.cap /\ i - 1 < s.len /\ i \in 1..Len(v)
      BY <2>1, <1>1, <1>3
    <3>2. b[i - 1] = s.buf[i - 1]
      BY <3>1, <1>4
    <3>3. s.buf[i - 1] = v[i]
      BY <3>1 DEF Good, Holds
    <3> QED
      BY <3>2, <3>3, <2>1, <1>8
  <2>2. CASE i > s.len
    <3>1. i - s.len \in 1..Len(t) /\ s.len + (i - s.len) - 1 = i - 1
      BY <2>2, <1>1, <1>2
    <3>2. b[s.len + (i - s.len) - 1] = t[i - s.len]
      BY <3>1, <1>4
    <3> QED
      BY <3>1, <3>2, <2>2, <1>8, <1>1, <1>3
  <2> QED
    BY <2>1, <2>2, <1>1, <1>3
<1>10. Holds(r, v \o t)
  BY <1>7, <1>8, <1>9 DEF Holds
<1>11. sdsalloc(r) <= r.cap /\ r.len <= r.cap
  BY <1>7, <1>3 DEF Whole
<1> QED
  BY <1>5, <1>7, <1>10, <1>11 DEF Good

\* A string with room, after `at` bytes of it a null.
LEMMA EndedAt ==
    ASSUME NEW s, NEW v \in Seq(SdsBytes), Good(s, v)
    PROVE  Good(Term(s, s.len), v) /\ Ended(Term(s, s.len))
<1>1. s.len \in Nat /\ s.cap \in Nat /\ s.len = Len(v) /\ s.len <= s.cap /\ Whole(s) /\ s.alloc \in Nat
  BY DEF Good, Whole, Strings, Holds, sdsalloc
<1>2. /\ Whole(Term(s, s.len))
      /\ Term(s, s.len).len = s.len
      /\ Term(s, s.len).buf[s.len] = 0
      /\ \A i \in 0..s.cap : i # s.len => Term(s, s.len).buf[i] = s.buf[i]
  BY <1>1, Terminated
<1>3. \A i \in 1..Len(v) : i - 1 \in 0..s.cap /\ i - 1 # s.len
  BY <1>1
<1> QED
  BY <1>1, <1>2, <1>3 DEF Good, Holds, Ended

\* The new bytes take the place of the old ones.
LEMMA Replaced ==
    ASSUME NEW s, Whole(s), NEW t \in Seq(SdsBytes), Len(t) <= sdsalloc(s)
    PROVE  LET r == sdssetlen(Term([s EXCEPT !.buf = Write(s.buf, 0, t)], Len(t)), Len(t))
           IN  Good(r, t) /\ Ended(r)
<1> DEFINE n == Len(t)
           b == Write(s.buf, 0, t)
           c == [s EXCEPT !.buf = b]
           e == Term(c, n)
           r == sdssetlen(e, n)
<1> SUFFICES Good(r, t) /\ Ended(r)
  OBVIOUS
<1>1. s.len \in Nat /\ s.cap \in Nat /\ sdsalloc(s) <= s.cap /\ s.alloc \in Nat
  BY DEF Whole, Strings
<1>2. t \in Seq(Int) /\ n \in Nat /\ n <= s.cap
  BY <1>1, Texts DEF sdsalloc
<1>3. 0 + Len(t) <= s.cap + 1 /\ 0 \in Nat
  BY <1>1, <1>2
<1>4. /\ b \in [0..s.cap -> Int]
      /\ \A i \in 1..Len(t) : b[0 + i - 1] = t[i]
  <2>1. Whole(s) /\ 0 \in Nat /\ t \in Seq(Int) /\ 0 + Len(t) <= s.cap + 1
    BY <1>2, <1>3
  <2> DEFINE o == 0
  <2> HIDE DEF o
  <2>2. Whole(s) /\ o \in Nat /\ t \in Seq(Int) /\ o + Len(t) <= s.cap + 1
    BY <2>1 DEF o
  <2>3. BytesAt(Write(s.buf, o, t), s, o, t)
    BY <2>2, Written
  <2> QED
    BY <2>3 DEF BytesAt, o
<1>5. \A i \in 1..n : b[i - 1] = t[i]
  BY <1>4, <1>2
<1> HIDE DEF b
<1>6. Whole(c) /\ c.buf = b /\ c.cap = s.cap /\ c.len = s.len /\ c.type = s.type /\ c.alloc = s.alloc
  BY <1>4, OtherBytes
<1> HIDE DEF c
<1>7. /\ Whole(e) /\ e.len = s.len /\ e.type = s.type /\ e.alloc = s.alloc /\ e.cap = s.cap
      /\ e.buf[n] = 0 /\ \A i \in 0..s.cap : i # n => e.buf[i] = b[i]
  <2>1. n \in Nat /\ n <= c.cap
    BY <1>2, <1>6
  <2> HIDE DEF n
  <2> QED
    BY <2>1, <1>6, Terminated
<1> HIDE DEF e
<1>8. n <= sdsalloc(e)
  BY <1>7 DEF sdsalloc
<1>9. Whole(r) /\ r.len = n /\ r.buf = e.buf
  <2>1. n \in Nat
    BY <1>2
  <2> HIDE DEF n
  <2> QED
    BY <2>1, <1>7, <1>8, OtherLen
<1> HIDE DEF r
<1>10. \A i \in 1..n : r.buf[i - 1] = t[i]
  BY <1>1, <1>2, <1>5, <1>7, <1>9
<1> QED
  BY <1>7, <1>9, <1>10 DEF Good, Holds, Ended

\* A part of the string moves to its start.
LEMMA Kept ==
    ASSUME NEW s, NEW v \in Seq(SdsBytes), Good(s, v), NEW from \in Nat, NEW n \in Nat, from + n <= Len(v)
    PROVE  LET r == sdssetlen(Term([s EXCEPT !.buf = Shifted(s.buf, from, n)], n), n)
           IN  Good(r, SubSeq(v, from + 1, from + n)) /\ Ended(r)
<1> DEFINE b == Shifted(s.buf, from, n)
           c == [s EXCEPT !.buf = b]
           e == Term(c, n)
           r == sdssetlen(e, n)
           w == SubSeq(v, from + 1, from + n)
<1> SUFFICES Good(r, w) /\ Ended(r)
  OBVIOUS
<1>1. s.len \in Nat /\ s.cap \in Nat /\ s.len = Len(v) /\ s.len <= sdsalloc(s) /\ sdsalloc(s) <= s.cap
      /\ Whole(s) /\ s.alloc \in Nat /\ s.buf \in [0..s.cap -> Int]
  BY DEF Good, Whole, Strings, Holds
<1>2. n <= s.cap /\ from + n <= s.cap /\ n <= s.len
  BY <1>1 DEF sdsalloc
<1>3. b \in [0..s.cap -> Int] /\ \A i \in 0..(n - 1) : b[i] = s.buf[i + from]
  <2>1. \A i \in 0..s.cap : i < n => i + from \in 0..s.cap
    BY <1>1, <1>2
  <2>2. b = [i \in 0..s.cap |-> IF i < n THEN s.buf[i + from] ELSE s.buf[i]]
    BY <1>1 DEF Shifted
  <2>3. \A i \in 0..(n - 1) : i \in 0..s.cap /\ i < n
    BY <1>1, <1>2
  <2> HIDE DEF b
  <2>4. b \in [0..s.cap -> Int]
    BY <1>1, <2>1, <2>2
  <2> QED
    BY <2>2, <2>3, <2>4
<1> HIDE DEF b
<1>4. Len(w) = n /\ \A i \in 1..n : w[i] = v[from + i]
  BY <1>1, <1>2
<1> HIDE DEF w
<1>5. \A i \in 1..n : b[i - 1] = w[i]
  <2> TAKE i \in 1..n
  <2>1. i - 1 \in 0..(n - 1) /\ from + i \in 1..Len(v) /\ (i - 1) + from = (from + i) - 1
    BY <1>1, <1>2
  <2>2. b[i - 1] = s.buf[(from + i) - 1]
    BY <2>1, <1>3
  <2>3. s.buf[(from + i) - 1] = v[from + i]
    BY <2>1 DEF Good, Holds
  <2> QED
    BY <2>2, <2>3, <1>4
<1>6. Whole(c) /\ c.buf = b /\ c.cap = s.cap /\ c.len = s.len /\ c.type = s.type /\ c.alloc = s.alloc
  BY <1>1, <1>3, OtherBytes
<1> HIDE DEF c
<1>7. /\ Whole(e) /\ e.len = s.len /\ e.type = s.type /\ e.alloc = s.alloc /\ e.cap = s.cap
      /\ e.buf[n] = 0 /\ \A i \in 0..s.cap : i # n => e.buf[i] = b[i]
  BY <1>2, <1>6, Terminated
<1> HIDE DEF e
<1>8. n <= sdsalloc(e)
  BY <1>1, <1>2, <1>7 DEF sdsalloc
<1>9. Whole(r) /\ r.len = n /\ r.buf = e.buf
  BY <1>7, <1>8, OtherLen
<1> HIDE DEF r
<1>10. \A i \in 1..n : r.buf[i - 1] = w[i]
  BY <1>1, <1>2, <1>5, <1>7, <1>9
<1> QED
  BY <1>4, <1>7, <1>9, <1>10 DEF Good, Holds, Ended

\* sdscatlen().
LEMMA CatGood ==
    ASSUME NEW s, NEW v \in Seq(SdsBytes), Good(s, v), NEW t \in Seq(SdsBytes), Len(v) + Len(t) <= SdsMaxLen
    PROVE  Good(sdscatlen(s, t), v \o t) /\ Ended(sdscatlen(s, t))
<1> DEFINE m == sdsMakeRoomFor(s, Len(t))
           c == [m EXCEPT !.buf = Write(m.buf, m.len, t)]
           r == [c EXCEPT !.len = m.len + Len(t)]
<1>1. Len(t) \in Nat
  OBVIOUS
<1>2. Good(m, v) /\ m.len + Len(t) <= sdsalloc(m) /\ m.len = s.len
  BY <1>1, RoomMade
<1> HIDE DEF m
<1>3. sdssetlen(c, m.len + Len(t)) = r /\ Good(r, v \o t) /\ r.len = m.len + Len(t)
  BY <1>2, Appended
<1>4. sdscatlen(s, t) = Term(r, r.len)
  <2>1. sdscatlen(s, t) = Term(sdssetlen(c, m.len + Len(t)), m.len + Len(t))
    BY <1>2 DEF sdscatlen, m
  <2> QED
    BY <2>1, <1>3
<1>5. v \o t \in Seq(SdsBytes)
  OBVIOUS
<1> HIDE DEF r
<1> QED
  BY <1>3, <1>4, <1>5, EndedAt

\* sdscpylen().
LEMMA CpyGood ==
    ASSUME NEW s, NEW v \in Seq(SdsBytes), Good(s, v), NEW t \in Seq(SdsBytes), Len(t) <= SdsMaxLen
    PROVE  Good(sdscpylen(s, t), t) /\ Ended(sdscpylen(s, t))
<1> DEFINE m == IF sdsalloc(s) < Len(t) THEN sdsMakeRoomFor(s, Len(t) - s.len) ELSE s
<1>1. Len(t) \in Nat /\ Len(v) \in Nat /\ s.len = Len(v) /\ s.len <= sdsalloc(s) /\ sdsalloc(s) \in Nat
  BY DEF Good, Whole, Holds, Strings, sdsalloc
<1>2. Whole(m) /\ Len(t) <= sdsalloc(m)
  <2>1. CASE sdsalloc(s) < Len(t)
    <3> DEFINE add == Len(t) - s.len
    <3>1. add \in Nat /\ Len(v) + add <= SdsMaxLen /\ s.len + add = Len(t)
      BY <1>1, <2>1
    <3> HIDE DEF add
    <3>2. Good(sdsMakeRoomFor(s, add), v) /\ s.len + add <= sdsalloc(sdsMakeRoomFor(s, add))
      BY <3>1, RoomMade
    <3>3. m = sdsMakeRoomFor(s, add)
      BY <2>1 DEF add
    <3> QED
      BY <3>1, <3>2, <3>3 DEF Good
  <2>2. CASE ~(sdsalloc(s) < Len(t))
    BY <2>2, <1>1 DEF Good
  <2> QED
    BY <2>1, <2>2
<1>3. sdscpylen(s, t) = sdssetlen(Term([m EXCEPT !.buf = Write(m.buf, 0, t)], Len(t)), Len(t))
  BY DEF sdscpylen
<1> HIDE DEF m
<1> QED
  BY <1>2, <1>3, Replaced

\* Zeros are bytes.
LEMMA ZerosAre == ASSUME NEW k \in Nat PROVE Zeros(k) \in Seq(Int) /\ Zeros(k) \in Seq(SdsBytes) /\ Len(Zeros(k)) = k
                                             /\ \A i \in 1..k : Zeros(k)[i] = 0
<1>1. Zeros(k) \in [1..k -> Int] /\ Zeros(k) \in [1..k -> SdsBytes]
  BY SdsAssumption DEF Zeros
<1>2. Zeros(k) \in Seq(Int) /\ Zeros(k) \in Seq(SdsBytes)
  BY <1>1, SeqDef
<1> QED
  BY <1>1, <1>2, LenProperties DEF Zeros

\* sdsgrowzero().
LEMMA GrowGood ==
    ASSUME NEW s, NEW v \in Seq(SdsBytes), Good(s, v), Ended(s), Len(v) <= SdsMaxLen,
           NEW n \in Nat, n <= SdsMaxLen
    PROVE  LET w == IF n <= Len(v) THEN v ELSE v \o Zeros(n - Len(v))
           IN  Good(sdsgrowzero(s, n), w) /\ Ended(sdsgrowzero(s, n)) /\ w \in Seq(SdsBytes) /\ Len(w) <= SdsMaxLen
<1> DEFINE k == n - Len(v)
           w == v \o Zeros(k)
           g == sdsgrowzero(s, n)
<1>1. s.len = Len(v) /\ Len(v) \in Nat
  BY DEF Good, Holds
<1>2. CASE n <= Len(v)
  <2>1. g = s
    BY <1>1, <1>2 DEF sdsgrowzero
  <2> QED
    BY <2>1, <1>2, <1>1, SdsAssumption
<1>3. CASE ~(n <= Len(v))
  <2>1. k \in Nat /\ k > 0 /\ Len(v) + k = n /\ s.len + k = n /\ k = n - s.len
    BY <1>1, <1>3
  <2>2. Zeros(k) \in Seq(SdsBytes) /\ Len(Zeros(k)) = k
    BY <2>1, ZerosAre
  <2>3. w \in Seq(SdsBytes) /\ Len(w) = n /\ \A i \in 1..n : w[i] = IF i <= s.len THEN v[i] ELSE 0
    <3>1. \A i \in 1..k : Zeros(k)[i] = 0
      BY <2>1, ZerosAre
    <3>2. w \in Seq(SdsBytes) /\ Len(w) = Len(v) + k
      BY <2>2, <2>1
    <3>3. \A i \in 1..n : w[i] = IF i <= Len(v) THEN v[i] ELSE Zeros(k)[i - Len(v)]
      BY <2>2, <2>1
    <3>4. \A i \in 1..n : i > Len(v) => i - Len(v) \in 1..k
      BY <2>1, <1>1
    <3> QED
      BY <1>1, <2>1, <3>1, <3>2, <3>3, <3>4
  <2> DEFINE m == sdsMakeRoomFor(s, k)
             z == Zeros(n - s.len + 1)
             b == Write(m.buf, s.len, z)
             c == [m EXCEPT !.buf = b]
             r == sdssetlen(c, n)
  <2>4. g = r
    BY <1>1, <1>3, <2>1 DEF sdsgrowzero
  <2>5. Good(m, v) /\ s.len + k <= sdsalloc(m) /\ m.len = s.len
    BY <2>1, RoomMade
  <2> HIDE DEF m
  <2>6. m.cap \in Nat /\ sdsalloc(m) <= m.cap /\ Whole(m) /\ n <= m.cap /\ m.alloc \in Nat /\ m.len \in Nat
    BY <2>1, <2>5 DEF Good, Whole, Strings, sdsalloc
  <2>7. z \in Seq(Int) /\ Len(z) = k + 1 /\ \A i \in 1..(k + 1) : z[i] = 0
    <3>1. z = Zeros(k + 1) /\ k + 1 \in Nat
      BY <2>1
    <3> HIDE DEF z, k
    <3>2. Zeros(k + 1) \in Seq(Int) /\ Len(Zeros(k + 1)) = k + 1 /\ \A i \in 1..(k + 1) : Zeros(k + 1)[i] = 0
      BY <3>1, ZerosAre, Zenon
    <3> QED
      BY <3>1, <3>2
  <2> HIDE DEF z
  <2>8. s.len \in Nat /\ s.len + Len(z) <= m.cap + 1
    BY <1>1, <2>1, <2>6, <2>7
  <2>9. /\ b \in [0..m.cap -> Int]
        /\ \A i \in 0..m.cap : (i < s.len \/ i >= s.len + Len(z)) => b[i] = m.buf[i]
        /\ \A i \in 1..Len(z) : b[s.len + i - 1] = z[i]
    <3>1. Whole(m) /\ s.len \in Nat /\ z \in Seq(Int) /\ s.len + Len(z) <= m.cap + 1
      BY <2>6, <2>7, <2>8
    <3>2. BytesAt(Write(m.buf, s.len, z), m, s.len, z)
      BY <3>1, Written
    <3> QED
      BY <3>2 DEF BytesAt
  <2> HIDE DEF b
  <2>10. Whole(c) /\ c.buf = b /\ c.cap = m.cap /\ c.len = m.len /\ c.type = m.type /\ c.alloc = m.alloc
    BY <2>6, <2>9, OtherBytes
  <2> HIDE DEF c
  <2>11. n <= sdsalloc(c)
    BY <2>1, <2>5, <2>10 DEF sdsalloc
  <2>12. Whole(r) /\ r.len = n /\ r.buf = b
    BY <2>10, <2>11, OtherLen
  <2> HIDE DEF r
  <2>13. \A i \in (s.len + 1)..(n + 1) : b[i - 1] = 0
    <3> TAKE i \in (s.len + 1)..(n + 1)
    <3>1. i - s.len \in 1..Len(z) /\ s.len + (i - s.len) - 1 = i - 1 /\ i - s.len \in 1..(k + 1)
      BY <1>1, <2>1, <2>7
    <3>2. b[s.len + (i - s.len) - 1] = z[i - s.len]
      BY <3>1, <2>9
    <3> QED
      BY <3>1, <3>2, <2>7
  <2>14. \A i \in 1..s.len : b[i - 1] = v[i]
    <3> TAKE i \in 1..s.len
    <3>1. i - 1 \in 0..m.cap /\ i - 1 < s.len /\ i \in 1..Len(v)
      BY <1>1, <2>1, <2>6
    <3>2. b[i - 1] = m.buf[i - 1]
      BY <3>1, <2>9
    <3> QED
      BY <3>1, <3>2, <2>5 DEF Good, Holds
  <2>15. \A i \in 1..n : r.buf[i - 1] = w[i]
    BY <1>1, <2>1, <2>3, <2>12, <2>13, <2>14
  <2>16. r.buf[n] = 0
    <3>1. n + 1 \in (s.len + 1)..(n + 1) /\ (n + 1) - 1 = n
      BY <1>1, <2>1
    <3> QED
      BY <3>1, <2>12, <2>13
  <2> HIDE DEF w
  <2>17. Good(r, w) /\ Ended(r)
    BY <2>3, <2>12, <2>15, <2>16 DEF Good, Holds, Ended
  <2> QED
    BY <1>3, <2>3, <2>4, <2>17 DEF w
<1> QED
  BY <1>2, <1>3

\* sdsclear().
LEMMA ClearGood ==
    ASSUME NEW s, NEW v \in Seq(SdsBytes), Good(s, v)
    PROVE  Good(sdsclear(s), <<>>) /\ Ended(sdsclear(s))
<1>1. s.len \in Nat /\ s.cap \in Nat /\ Whole(s) /\ 0 <= sdsalloc(s) /\ 0 \in Nat /\ 0 <= s.cap
  BY DEF Good, Whole, Strings, sdsalloc
<1> DEFINE c == sdssetlen(s, 0)
<1>2. Whole(c) /\ c.len = 0 /\ c.cap = s.cap
  BY <1>1, OtherLen
<1> HIDE DEF c
<1>3. Whole(Term(c, 0)) /\ Term(c, 0).len = 0 /\ Term(c, 0).buf[0] = 0
  BY <1>1, <1>2, Terminated
<1>4. sdsclear(s) = Term(c, 0)
  BY DEF sdsclear, c
<1> QED
  BY <1>3, <1>4 DEF Good, Holds, Ended

\* sdsRemoveFreeSpace().
LEMMA ShrinkGood ==
    ASSUME NEW s, NEW v \in Seq(SdsBytes), Good(s, v), Ended(s), Len(v) <= SdsMaxLen
    PROVE  Good(sdsRemoveFreeSpace(s), v) /\ Ended(sdsRemoveFreeSpace(s))
<1>1. s.len \in Nat /\ s.len <= SdsMaxLen
  BY DEF Good, Whole, Strings, Holds
<1>2. s.len < SdsLimit[4]
  BY <1>1, SdsAssumption, TypesAre
<1>3. sdsReqType(s.len) \in SdsTypes /\ s.len < SdsLimit[sdsReqType(s.len)] /\ s.len <= s.len
  BY <1>1, <1>2, ReqType
<1> QED
  BY <1>1, <1>3, Reallocated DEF sdsRemoveFreeSpace

\* The string cut at a byte.
LEMMA ShorterGood ==
    ASSUME NEW s, NEW v \in Seq(SdsBytes), Good(s, v), NEW n \in Nat, n <= Len(v)
    PROVE  Good(sdssetlen(s, n), SubSeq(v, 1, n)) /\ sdssetlen(s, n).len = n /\ sdssetlen(s, n).buf = s.buf
<1>1. s.len \in Nat /\ s.len = Len(v) /\ Whole(s) /\ n <= sdsalloc(s)
  BY DEF Good, Whole, Strings, Holds, sdsalloc
<1>2. Whole(sdssetlen(s, n)) /\ sdssetlen(s, n).len = n /\ sdssetlen(s, n).buf = s.buf
  BY <1>1, OtherLen
<1>3. Len(SubSeq(v, 1, n)) = n /\ \A i \in 1..n : SubSeq(v, 1, n)[i] = v[i]
  BY <1>1
<1>4. \A i \in 1..n : s.buf[i - 1] = v[i]
  BY <1>1 DEF Good, Holds
<1> QED
  BY <1>2, <1>3, <1>4 DEF Good, Holds

\* sdsupdatelen() after a NUL was written into the string.
LEMMA UpdateLenGood ==
    ASSUME NEW s, NEW v \in Seq(SdsBytes), Good(s, v), Ended(s), NEW n \in Nat, n <= Len(v),
           n < Len(v) => v[n + 1] = 0, \A i \in 1..n : v[i] # 0
    PROVE  Good(sdsupdatelen(s), SubSeq(v, 1, n)) /\ Ended(sdsupdatelen(s))
<1>1. s.len = Len(v) /\ s.len \in Nat /\ s.cap \in Nat /\ s.len <= s.cap /\ DOMAIN s.buf = 0..s.cap
      /\ \A i \in 1..Len(v) : s.buf[i - 1] = v[i]
  BY DEF Good, Whole, Strings, Holds, sdsalloc
<1>2. n \in DOMAIN s.buf /\ s.buf[n] = 0
  <2>1. CASE n = Len(v)
    BY <2>1, <1>1 DEF Ended
  <2>2. CASE n < Len(v)
    <3>1. n + 1 \in 1..Len(v) /\ (n + 1) - 1 = n
      BY <2>2, <1>1
    <3> QED
      BY <2>2, <3>1, <1>1
  <2> QED
    BY <2>1, <2>2, <1>1
<1>3. \A i \in DOMAIN s.buf : i < n => s.buf[i] # 0
  <2> SUFFICES ASSUME NEW i \in DOMAIN s.buf, i < n  PROVE s.buf[i] # 0
    OBVIOUS
  <2>1. i + 1 \in 1..n /\ i + 1 \in 1..Len(v) /\ (i + 1) - 1 = i
    BY <1>1
  <2> QED
    BY <2>1, <1>1
<1>4. Strlen(s.buf) = n
  <2> DEFINE Least(k) == s.buf[k] = 0 /\ \A i \in DOMAIN s.buf : i < k => s.buf[i] # 0
  <2>1. \A k \in DOMAIN s.buf : Least(k) => k = n
    <3> SUFFICES ASSUME NEW k \in DOMAIN s.buf, Least(k)  PROVE k = n
      OBVIOUS
    <3>1. k \in Nat
      BY <1>1
    <3>2. ~(k < n)
      BY <1>3
    <3>3. ~(n < k)
      BY <1>2
    <3> QED
      BY <3>1, <3>2, <3>3
  <2>2. n \in DOMAIN s.buf /\ Least(n)
    BY <1>2, <1>3
  <2>3. Strlen(s.buf) = CHOOSE k \in DOMAIN s.buf : Least(k)
    BY Zenon DEF Strlen
  <2> HIDE DEF Least
  <2> QED
    BY <2>1, <2>2, <2>3
<1>5. Good(sdssetlen(s, n), SubSeq(v, 1, n)) /\ sdssetlen(s, n).len = n /\ sdssetlen(s, n).buf = s.buf
  BY ShorterGood
<1> QED
  BY <1>2, <1>4, <1>5 DEF sdsupdatelen, Ended

\* sdsIncrLen() with a negative increment.
LEMMA CutGood ==
    ASSUME NEW s, NEW v \in Seq(SdsBytes), Good(s, v), NEW n \in 1..Len(v)
    PROVE  /\ Good(sdsIncrLen(s, -n), SubSeq(v, 1, Len(v) - n)) /\ Ended(sdsIncrLen(s, -n))
           /\ IncrLenAssert(s, -n)
<1> DEFINE k == Len(v) - n
           m == sdssetlen(s, k)
<1>1. s.len = Len(v) /\ k \in Nat /\ k <= Len(v) /\ s.len + (-n) = k /\ -n < 0 /\ s.len >= -(-n)
  BY DEF Good, Whole, Strings, Holds
<1>2. Good(m, SubSeq(v, 1, k)) /\ m.len = k
  BY <1>1, ShorterGood
<1>3. sdsIncrLen(s, -n) = Term(m, m.len)
  BY <1>1 DEF sdsIncrLen, sdssetlen
<1>4. SubSeq(v, 1, k) \in Seq(SdsBytes)
  BY <1>1
<1> HIDE DEF m
<1>5. Good(Term(m, m.len), SubSeq(v, 1, k)) /\ Ended(Term(m, m.len))
  BY <1>2, <1>4, EndedAt
<1>6. IncrLenAssert(s, -n)
  BY <1>1 DEF IncrLenAssert
<1> QED
  BY <1>3, <1>5, <1>6

\* sdsrange().
LEMMA RangeGood ==
    ASSUME NEW s, NEW v \in Seq(SdsBytes), Good(s, v), Ended(s), NEW start \in Int, NEW end \in Int
    PROVE  LET place(i) == IF i >= 0 THEN i ELSE IF i + Len(v) < 0 THEN 0 ELSE i + Len(v)
               w == SubSeq(v, place(start) + 1, IF place(end) < Len(v) THEN place(end) + 1 ELSE Len(v))
           IN  Good(sdsrange(s, start, end), w) /\ Ended(sdsrange(s, start, end))
<1> DEFINE first == FromEnd(s, start)
           fin == FromEnd(s, end)
           last == IF fin >= s.len THEN s.len - 1 ELSE fin
           newlen == IF first > last \/ first >= s.len THEN 0 ELSE last - first + 1
           to == IF fin < Len(v) THEN fin + 1 ELSE Len(v)
           w == SubSeq(v, first + 1, to)
           r == sdsrange(s, start, end)
<1>1. s.len = Len(v) /\ Len(v) \in Nat /\ s \in Strings /\ s.buf \in [0..s.cap -> Int] /\ s.cap \in Nat
  BY DEF Good, Whole, Holds, Strings
<1>2. /\ first = IF start >= 0 THEN start ELSE IF start + Len(v) < 0 THEN 0 ELSE start + Len(v)
      /\ fin = IF end >= 0 THEN end ELSE IF end + Len(v) < 0 THEN 0 ELSE end + Len(v)
  BY <1>1 DEF FromEnd
<1>3. first \in Nat /\ fin \in Nat
  BY <1>1, <1>2
<1> SUFFICES Good(r, w) /\ Ended(r)
  BY <1>2
<1> HIDE DEF first, fin
<1>4. CASE s.len = 0
  <2>1. r = s /\ v = <<>>
    BY <1>4, <1>1 DEF sdsrange
  <2>2. w = <<>>
    BY <1>3, <1>4, <1>1, <2>1
  <2> QED
    BY <2>1, <2>2
<1>5. CASE s.len > 0
  <2>1. CASE newlen = 0
    <3>1. w = <<>> /\ w = SubSeq(v, 0 + 1, 0 + 0)
      BY <2>1, <1>1, <1>3, <1>5
    <3>2. r = sdssetlen(Term([s EXCEPT !.buf = s.buf], 0), 0)
      BY <2>1, <1>5 DEF sdsrange, first, fin
    <3>3. Shifted(s.buf, 0, 0) = s.buf
      BY <1>1 DEF Shifted
    <3>4. 0 + 0 <= Len(v) /\ 0 \in Nat
      BY <1>1
    <3>5. Good(sdssetlen(Term([s EXCEPT !.buf = Shifted(s.buf, 0, 0)], 0), 0), SubSeq(v, 0 + 1, 0 + 0))
          /\ Ended(sdssetlen(Term([s EXCEPT !.buf = Shifted(s.buf, 0, 0)], 0), 0))
      BY <3>4, Kept
    <3> QED
      BY <3>1, <3>2, <3>3, <3>5
  <2>2. CASE newlen # 0
    <3>1. newlen \in Nat /\ first + newlen <= Len(v) /\ to = first + newlen
      BY <2>2, <1>1, <1>3, <1>5
    <3>2. r = sdssetlen(Term([s EXCEPT !.buf = Shifted(s.buf, first, newlen)], newlen), newlen)
      BY <2>2, <1>5 DEF sdsrange, first, fin
    <3> HIDE DEF newlen
    <3>3. Good(sdssetlen(Term([s EXCEPT !.buf = Shifted(s.buf, first, newlen)], newlen), newlen), SubSeq(v, first + 1, first + newlen))
          /\ Ended(sdssetlen(Term([s EXCEPT !.buf = Shifted(s.buf, first, newlen)], newlen), newlen))
      BY <1>3, <3>1, Kept
    <3> QED
      BY <3>1, <3>2, <3>3
  <2> QED
    BY <2>1, <2>2
<1> QED
  BY <1>1, <1>4, <1>5

\* sdstrim().
LEMMA TrimGood ==
    ASSUME NEW s, NEW v \in Seq(SdsBytes), Good(s, v), NEW cset,
           NEW a \in 1..(Len(v) + 1), NEW b \in 0..Len(v),
           \A i \in 1..Len(v) : i < a \/ i > b => v[i] \in Trims(cset),
           a <= b => v[a] \notin Trims(cset) /\ v[b] \notin Trims(cset)
    PROVE  Good(sdstrim(s, cset), SubSeq(v, a, b)) /\ Ended(sdstrim(s, cset))
<1> DEFINE T == Trims(cset)
           P(i) == /\ i < s.len => s.buf[i] \notin T
                   /\ \A j \in 0..(i - 1) : s.buf[j] \in T
           from == TrimFrom(s, cset)
           newlen == IF from = s.len THEN 0 ELSE TrimTo(s, cset, from) - from + 1
           r == sdssetlen(Term([s EXCEPT !.buf = Shifted(s.buf, from, newlen)], newlen), newlen)
<1>1. s.len = Len(v) /\ s.len \in Nat
  BY DEF Good, Whole, Strings, Holds
<1>2. \A i \in 0..(s.len - 1) : s.buf[i] = v[i + 1] /\ i + 1 \in 1..Len(v)
  <2> TAKE i \in 0..(s.len - 1)
  <2>1. i + 1 \in 1..Len(v) /\ (i + 1) - 1 = i
    BY <1>1
  <2> QED
    BY <2>1 DEF Good, Holds
<1>3. from = CHOOSE i \in 0..s.len : P(i)
  BY DEF TrimFrom
<1>4. sdstrim(s, cset) = r
  BY DEF sdstrim
<1> HIDE DEF T
<1>5. CASE a <= b
  <2>1. a - 1 \in 0..s.len /\ P(a - 1) /\ a - 1 < s.len
    <3>1. a - 1 \in 0..(s.len - 1) /\ (a - 1) + 1 = a
      BY <1>1, <1>5
    <3>2. s.buf[a - 1] \notin T
      BY <1>2, <1>5, <3>1 DEF T
    <3>3. \A j \in 0..((a - 1) - 1) : s.buf[j] \in T
      <4> TAKE j \in 0..((a - 1) - 1)
      <4>1. j \in 0..(s.len - 1) /\ j + 1 < a /\ j + 1 \in 1..Len(v)
        BY <3>1, <1>1
      <4> QED
        BY <4>1, <1>2 DEF T
    <3> QED
      BY <3>1, <3>2, <3>3, <1>1
  <2>2. \A i \in 0..s.len : P(i) => i = a - 1
    <3> SUFFICES ASSUME NEW i \in 0..s.len, P(i)  PROVE i = a - 1
      OBVIOUS
    <3>1. ~(i < a - 1)
      <4> SUFFICES ASSUME i < a - 1  PROVE FALSE
        OBVIOUS
      <4>1. i \in 0..((a - 1) - 1) /\ i < s.len
        BY <1>1, <2>1
      <4> QED
        BY <4>1, <2>1
    <3>2. ~(i > a - 1)
      <4> SUFFICES ASSUME i > a - 1  PROVE FALSE
        OBVIOUS
      <4>1. a - 1 \in 0..(i - 1)
        BY <1>1, <2>1
      <4> QED
        BY <4>1, <2>1
    <3> QED
      BY <3>1, <3>2, <1>1, <2>1
  <2>3. from = a - 1
    <3> HIDE DEF P
    <3> QED
      BY <1>3, <2>1, <2>2
  <2> DEFINE Q(i) == /\ i > from => s.buf[i] \notin T
                     /\ \A j \in (i + 1)..(s.len - 1) : s.buf[j] \in T
  <2>4. TrimTo(s, cset, from) = CHOOSE i \in from..(s.len - 1) : Q(i)
    BY DEF TrimTo, T
  <2> HIDE DEF from
  <2>5. b - 1 \in from..(s.len - 1) /\ Q(b - 1)
    <3>1. b - 1 \in 0..(s.len - 1) /\ (b - 1) + 1 = b /\ b - 1 \in from..(s.len - 1)
      BY <1>1, <1>5, <2>3
    <3>2. s.buf[b - 1] \notin T
      BY <1>2, <1>5, <3>1 DEF T
    <3>3. \A j \in ((b - 1) + 1)..(s.len - 1) : s.buf[j] \in T
      <4> TAKE j \in ((b - 1) + 1)..(s.len - 1)
      <4>1. j \in 0..(s.len - 1) /\ j + 1 > b /\ j + 1 \in 1..Len(v)
        BY <3>1, <1>1
      <4> QED
        BY <4>1, <1>2 DEF T
    <3> QED
      BY <3>1, <3>2, <3>3
  <2>6. \A i \in from..(s.len - 1) : Q(i) => i = b - 1
    <3> SUFFICES ASSUME NEW i \in from..(s.len - 1), Q(i)  PROVE i = b - 1
      OBVIOUS
    <3>1. i \in Int /\ from \in Int /\ b - 1 \in Int
      BY <1>1, <2>3
    <3>2. ~(i < b - 1)
      <4> SUFFICES ASSUME i < b - 1  PROVE FALSE
        OBVIOUS
      <4>1. b - 1 \in (i + 1)..(s.len - 1) /\ b - 1 > from /\ b - 1 \in 0..(s.len - 1) /\ (b - 1) + 1 = b
        BY <1>1, <2>3, <2>5, <1>5
      <4>2. s.buf[b - 1] \in T
        BY <4>1
      <4>3. s.buf[b - 1] = v[b]
        BY <4>1, <1>2
      <4> QED
        BY <4>2, <4>3, <1>5 DEF T
    <3>3. ~(i > b - 1)
      <4> SUFFICES ASSUME i > b - 1  PROVE FALSE
        OBVIOUS
      <4>1. i \in ((b - 1) + 1)..(s.len - 1) /\ i > from
        BY <3>1, <1>1, <2>5
      <4> QED
        BY <4>1, <2>5
    <3> QED
      BY <3>1, <3>2, <3>3
  <2>7. TrimTo(s, cset, from) = b - 1
    <3> HIDE DEF Q
    <3> QED
      BY <2>4, <2>5, <2>6
  <2>8. from \in Nat /\ newlen \in Nat /\ from + newlen <= Len(v) /\ from + 1 = a /\ from + newlen = b
    BY <1>1, <1>5, <2>1, <2>3, <2>7
  <2> HIDE DEF newlen
  <2>9. Good(r, SubSeq(v, from + 1, from + newlen)) /\ Ended(r)
    BY <2>8, Kept
  <2> HIDE DEF r
  <2> QED
    BY <1>4, <2>8, <2>9
<1>6. CASE ~(a <= b)
  <2>1. \A i \in 0..(s.len - 1) : s.buf[i] \in T
    <3> TAKE i \in 0..(s.len - 1)
    <3>1. i + 1 \in 1..Len(v) /\ (i + 1 < a \/ i + 1 > b)
      BY <1>1, <1>6
    <3> QED
      BY <3>1, <1>2 DEF T
  <2>2. s.len \in 0..s.len /\ P(s.len)
    BY <1>1, <2>1
  <2>3. \A i \in 0..s.len : P(i) => i = s.len
    BY <1>1, <2>1
  <2>4. from = s.len
    <3> HIDE DEF P
    <3> QED
      BY <1>3, <2>2, <2>3
  <2> HIDE DEF from
  <2>5. from \in Nat /\ newlen = 0 /\ newlen \in Nat /\ from + newlen <= Len(v)
    BY <1>1, <2>4
  <2>6. SubSeq(v, a, b) = <<>> /\ SubSeq(v, from + 1, from + newlen) = <<>>
    BY <1>1, <1>6, <2>4, <2>5
  <2> HIDE DEF newlen
  <2>7. Good(r, SubSeq(v, from + 1, from + newlen)) /\ Ended(r)
    BY <2>5, Kept
  <2> HIDE DEF r
  <2> QED
    BY <1>4, <2>6, <2>7
<1> QED
  BY <1>5, <1>6

\* sdscatfmt().
LEMMA FmtGood ==
    ASSUME NEW s, NEW v \in Seq(SdsBytes), Good(s, v), NEW t \in Seq(SdsBytes),
           Len(v) + Len(t) <= SdsMaxLen, Len(v) + 1 <= SdsMaxLen
    PROVE  Good(sdscatfmt(s, t), v \o t)
<1> DEFINE one == IF sdsavail(s) = 0 THEN sdsMakeRoomFor(s, 1) ELSE s
           m == IF sdsavail(one) < Len(t) THEN sdsMakeRoomFor(one, Len(t)) ELSE one
           c == [m EXCEPT !.buf = Write(m.buf, m.len, t)]
           r == [c EXCEPT !.len = m.len + Len(t)]
<1>1. Len(t) \in Nat /\ Len(v) \in Nat /\ 1 \in Nat
  OBVIOUS
<1>2. Good(one, v) /\ one.len = s.len /\ one.type # SDS_TYPE_5
  <2>1. CASE sdsavail(s) = 0
    BY <2>1, <1>1, RoomMade
  <2>2. CASE sdsavail(s) # 0
    BY <2>2 DEF sdsavail
  <2> QED
    BY <2>1, <2>2
<1> HIDE DEF one
<1>3. Good(m, v) /\ m.len = s.len /\ m.len + Len(t) <= sdsalloc(m)
  <2>1. CASE sdsavail(one) < Len(t)
    BY <2>1, <1>1, <1>2, RoomMade
  <2>2. CASE ~(sdsavail(one) < Len(t))
    <3>1. one.len \in Nat /\ one.alloc \in Nat
      BY <1>2 DEF Good, Whole, Strings
    <3> QED
      BY <2>2, <3>1, <1>1, <1>2 DEF sdsavail, sdsalloc
  <2> QED
    BY <2>1, <2>2
<1> HIDE DEF m
<1>4. c.len = m.len /\ sdssetlen(c, m.len + Len(t)) = r /\ Good(r, v \o t)
  BY <1>3, Appended
<1>5. sdscatfmt(s, t) = sdsinclen(c, Len(t))
  BY <1>3 DEF sdscatfmt, m, one
<1>6. sdsinclen(c, Len(t)) = sdssetlen(c, m.len + Len(t))
  BY <1>4 DEF sdsinclen, sdssetlen
<1> QED
  BY <1>4, <1>5, <1>6

\* sdsMakeRoomFor(), read(2), and sdsIncrLen().
LEMMA ReadGood ==
    ASSUME NEW s, NEW v \in Seq(SdsBytes), Good(s, v), NEW n \in Nat, NEW t \in Seq(SdsBytes),
           Len(t) \in 1..n, Len(v) + n <= SdsMaxLen
    PROVE  LET m == sdsMakeRoomFor(s, n)
               c == [m EXCEPT !.buf = Write(m.buf, s.len, t)]
           IN  /\ Good(sdsIncrLen(c, Len(t)), v \o t) /\ Ended(sdsIncrLen(c, Len(t)))
               /\ IncrLenAssert(c, Len(t))
<1> DEFINE m == sdsMakeRoomFor(s, n)
           c == [m EXCEPT !.buf = Write(m.buf, m.len, t)]
           r == [c EXCEPT !.len = m.len + Len(t)]
<1>1. Len(t) \in Nat /\ n > 0
  OBVIOUS
<1>2. Good(m, v) /\ s.len + n <= sdsalloc(m) /\ m.len = s.len /\ m.type # SDS_TYPE_5
  BY <1>1, RoomMade
<1> SUFFICES /\ Good(sdsIncrLen(c, Len(t)), v \o t) /\ Ended(sdsIncrLen(c, Len(t)))
             /\ IncrLenAssert(c, Len(t))
  BY <1>2
<1> HIDE DEF m
<1>3. m.len \in Nat /\ m.alloc \in Nat /\ m.len + Len(t) <= sdsalloc(m) /\ m.alloc - m.len >= Len(t)
  BY <1>1, <1>2 DEF Good, Whole, Strings, sdsalloc
<1>4. /\ c.len = m.len /\ c.type = m.type /\ c.alloc = m.alloc
      /\ sdssetlen(c, m.len + Len(t)) = r /\ Good(r, v \o t) /\ r.len = m.len + Len(t)
  BY <1>2, <1>3, Appended
<1>5. sdsIncrLen(c, Len(t)) = Term(r, r.len)
  <2>1. sdsIncrLen(c, Len(t)) = Term(sdssetlen(c, c.len + Len(t)), sdssetlen(c, c.len + Len(t)).len)
    BY DEF sdsIncrLen, sdssetlen
  <2> QED
    BY <2>1, <1>4
<1>6. v \o t \in Seq(SdsBytes)
  OBVIOUS
<1>7. IncrLenAssert(c, Len(t))
  BY <1>1, <1>2, <1>3, <1>4 DEF IncrLenAssert
<1> HIDE DEF r
<1>8. Good(Term(r, r.len), v \o t) /\ Ended(Term(r, r.len))
  BY <1>4, <1>6, EndedAt
<1> QED
  BY <1>5, <1>7, <1>8

-----------------------------------------------------------------------------
\* The invariant

\* A part of a value is a value.
LEMMA ValueBounds ==
    ASSUME NEW v \in Seq(SdsBytes), Len(v) <= SdsMaxLen, NEW i \in Nat, NEW j \in Nat, j <= Len(v), i >= 1
    PROVE  SubSeq(v, i, j) \in Seq(SdsBytes) /\ Len(SubSeq(v, i, j)) <= SdsMaxLen
<1>1. Len(v) \in Nat /\ SdsMaxLen \in Nat
  BY SdsAssumption
<1>2. CASE i <= j
  BY <1>1, <1>2
<1>3. CASE i > j
  <2>1. SubSeq(v, i, j) = <<>>
    BY <1>1, <1>3
  <2> QED
    BY <2>1, <1>1
<1> QED
  BY <1>2, <1>3

\* The initial states.
LEMMA InitGood == SdsInit => IInv
<1> SUFFICES ASSUME SdsInit  PROVE IInv
  OBVIOUS
<1>1. PICK t \in SdsTexts : Fits(Len(t)) /\ str = sdsnewlen(t) /\ val = t /\ fmt = FALSE /\ asserts = TRUE
  BY DEF SdsInit
<1>2. t \in Seq(SdsBytes) /\ Len(t) <= SdsMaxLen
  BY <1>1, SdsAssumption DEF Fits
<1>3. Good(sdsnewlen(t), t) /\ Ended(sdsnewlen(t))
  BY <1>2, NewGood
<1> QED
  BY <1>1, <1>2, <1>3 DEF IInv

\* A step that gives the string and its value, outside of sdscatfmt().
LEMMA StepGood ==
    ASSUME IInv, asserts' = TRUE, fmt' = FALSE, val' \in Seq(SdsBytes), Len(val') <= SdsMaxLen,
           Good(str', val'), Ended(str')
    PROVE  IInv'
  BY DEF IInv, Good, Whole, Holds, Ended, sdsalloc

\* Every operation keeps the invariant.
LEMMA NextGood == IInv /\ [SdsNext]_sdsVars => IInv'
<1> SUFFICES ASSUME IInv, [SdsNext]_sdsVars  PROVE IInv'
  OBVIOUS
<1> USE DEF Keeps
<1>a. /\ asserts = TRUE /\ fmt \in BOOLEAN /\ val \in Seq(SdsBytes) /\ Len(val) <= SdsMaxLen
      /\ Good(str, val) /\ Len(val) \in Nat /\ SdsMaxLen \in Nat
      /\ ~fmt => Ended(str)
  BY SdsAssumption DEF IInv
<1>1. ASSUME NEW t \in SdsTexts, SdsNew(t)  PROVE IInv'
  <2>1. t \in Seq(SdsBytes) /\ Len(t) <= SdsMaxLen
    BY <1>1, SdsAssumption DEF SdsNew, Fits
  <2>2. Good(sdsnewlen(t), t) /\ Ended(sdsnewlen(t))
    BY <2>1, NewGood
  <2> QED
    BY <1>a, <1>1, <2>1, <2>2, StepGood DEF SdsNew
<1>2. ASSUME NEW t \in SdsTexts, SdsCat(t)  PROVE IInv'
  <2>1. t \in Seq(SdsBytes) /\ Len(val) + Len(t) <= SdsMaxLen
    BY <1>2, SdsAssumption DEF SdsCat, Fits
  <2>2. Good(sdscatlen(str, t), val \o t) /\ Ended(sdscatlen(str, t))
    BY <1>a, <2>1, CatGood
  <2>3. val \o t \in Seq(SdsBytes) /\ Len(val \o t) <= SdsMaxLen
    BY <1>a, <2>1
  <2> QED
    BY <1>a, <1>2, <2>2, <2>3, StepGood DEF SdsCat
<1>3. ASSUME NEW t \in SdsTexts, SdsCpy(t)  PROVE IInv'
  <2>1. t \in Seq(SdsBytes) /\ Len(t) <= SdsMaxLen
    BY <1>3, SdsAssumption DEF SdsCpy, Fits
  <2>2. Good(sdscpylen(str, t), t) /\ Ended(sdscpylen(str, t))
    BY <1>a, <2>1, CpyGood
  <2> QED
    BY <1>a, <1>3, <2>1, <2>2, StepGood DEF SdsCpy
<1>4. ASSUME NEW t \in SdsTexts, SdsFmt(t)  PROVE IInv'
  <2>1. t \in Seq(SdsBytes) /\ Len(val) + Len(t) <= SdsMaxLen /\ Len(val) + 1 <= SdsMaxLen
    BY <1>4, SdsAssumption DEF SdsFmt, Fits
  <2>2. Good(sdscatfmt(str, t), val \o t)
    BY <1>a, <2>1, FmtGood
  <2>3. val \o t \in Seq(SdsBytes) /\ Len(val \o t) <= SdsMaxLen
    BY <1>a, <2>1
  <2>4. str' = sdscatfmt(str, t) /\ val' = val \o t /\ fmt' = TRUE /\ asserts' = asserts
    BY <1>4 DEF SdsFmt
  <2> QED
    BY <1>a, <2>2, <2>3, <2>4 DEF IInv, Good, Whole, Holds, sdsalloc
<1>5. ASSUME NEW n \in 0..SdsMaxLen, SdsGrow(n)  PROVE IInv'
  <2>1. n \in Nat /\ n <= SdsMaxLen /\ Ended(str)
    BY <1>a, <1>5 DEF SdsGrow
  <2> DEFINE w == IF n <= Len(val) THEN val ELSE val \o Zeros(n - Len(val))
  <2>2. Good(sdsgrowzero(str, n), w) /\ Ended(sdsgrowzero(str, n)) /\ w \in Seq(SdsBytes) /\ Len(w) <= SdsMaxLen
    BY <1>a, <2>1, GrowGood
  <2>3. str' = sdsgrowzero(str, n) /\ val' = w /\ fmt' = fmt /\ asserts' = asserts /\ ~fmt
    BY <1>5 DEF SdsGrow
  <2> HIDE DEF w
  <2> QED
    BY <1>a, <2>2, <2>3, StepGood
<1>6. ASSUME NEW n \in 0..SdsMaxLen, SdsCut(n)  PROVE IInv'
  <2>1. n \in 1..Len(val)
    BY <1>6 DEF SdsCut
  <2>2. /\ Good(sdsIncrLen(str, -n), SubSeq(val, 1, Len(val) - n)) /\ Ended(sdsIncrLen(str, -n))
        /\ IncrLenAssert(str, -n)
    BY <1>a, <2>1, CutGood
  <2>3. Len(val) - n \in Nat /\ Len(val) - n <= Len(val)
    BY <1>a, <2>1
  <2>4. SubSeq(val, 1, Len(val) - n) \in Seq(SdsBytes) /\ Len(SubSeq(val, 1, Len(val) - n)) <= SdsMaxLen
    BY <1>a, <2>3, ValueBounds
  <2> QED
    BY <1>a, <1>6, <2>2, <2>4, StepGood DEF SdsCut
<1>7. ASSUME NEW n \in 0..SdsMaxLen, NEW t \in SdsTexts, SdsRead(n, t)  PROVE IInv'
  <2>1. n \in Nat /\ t \in Seq(SdsBytes) /\ Len(t) \in 1..n /\ Len(val) + n <= SdsMaxLen
    BY <1>a, <1>7, SdsAssumption DEF SdsRead, Fits
  <2> DEFINE m == sdsMakeRoomFor(str, n)
             c == [m EXCEPT !.buf = Write(m.buf, str.len, t)]
  <2>2. /\ Good(sdsIncrLen(c, Len(t)), val \o t) /\ Ended(sdsIncrLen(c, Len(t)))
        /\ IncrLenAssert(c, Len(t))
    BY <1>a, <2>1, ReadGood
  <2>3. /\ ~fmt /\ fmt' = fmt /\ asserts' = (asserts /\ IncrLenAssert(c, Len(t)))
        /\ str' = sdsIncrLen(c, Len(t)) /\ val' = val \o t
    BY <1>7 DEF SdsRead
  <2> HIDE DEF c
  <2>4. val \o t \in Seq(SdsBytes) /\ Len(val \o t) <= SdsMaxLen
    BY <1>a, <2>1
  <2>5. asserts' = TRUE
    BY <1>a, <2>2, <2>3
  <2> QED
    BY <1>a, <2>2, <2>3, <2>4, <2>5, StepGood
<1>8. ASSUME SdsClear  PROVE IInv'
  <2>1. Good(sdsclear(str), <<>>) /\ Ended(sdsclear(str))
    BY <1>a, ClearGood
  <2>2. <<>> \in Seq(SdsBytes) /\ Len(<<>>) <= SdsMaxLen
    BY <1>a
  <2> QED
    BY <1>a, <1>8, <2>1, <2>2, StepGood DEF SdsClear
<1>9. ASSUME SdsShrink  PROVE IInv'
  <2>1. Ended(str)
    BY <1>a, <1>9 DEF SdsShrink
  <2>2. Good(sdsRemoveFreeSpace(str), val) /\ Ended(sdsRemoveFreeSpace(str))
    BY <1>a, <2>1, ShrinkGood
  <2> QED
    BY <1>a, <1>9, <2>2, StepGood DEF SdsShrink
<1>10. ASSUME SdsUpdateLen  PROVE IInv'
  <2> DEFINE ends == {n \in 1..Len(val) : val[n] = 0}
  <2>1. /\ ~fmt /\ fmt' = fmt /\ asserts' = asserts /\ str' = sdsupdatelen(str)
        /\ \/ ends = {} /\ val' = val
           \/ \E n \in ends : (\A i \in ends : n <= i) /\ val' = SubSeq(val, 1, n - 1)
    BY <1>10 DEF SdsUpdateLen
  <2>2. CASE ends = {} /\ val' = val
    <3>1. \A i \in 1..Len(val) : val[i] # 0
      BY <2>2
    <3>2. Good(sdsupdatelen(str), SubSeq(val, 1, Len(val))) /\ Ended(sdsupdatelen(str))
      BY <1>a, <2>1, <3>1, UpdateLenGood
    <3>3. SubSeq(val, 1, Len(val)) = val
      BY <1>a
    <3> QED
      BY <1>a, <2>1, <2>2, <3>2, <3>3, StepGood
  <2>3. CASE \E n \in ends : (\A i \in ends : n <= i) /\ val' = SubSeq(val, 1, n - 1)
    <3>1. PICK n \in ends : (\A i \in ends : n <= i) /\ val' = SubSeq(val, 1, n - 1)
      BY <2>3
    <3> DEFINE k == n - 1
    <3>2. k \in Nat /\ k < Len(val) /\ val[k + 1] = 0 /\ k <= Len(val) /\ k + 1 = n
      BY <1>a
    <3>3. \A i \in 1..k : val[i] # 0
      BY <1>a, <3>1, <3>2
    <3> HIDE DEF k
    <3>4. Good(sdsupdatelen(str), SubSeq(val, 1, k)) /\ Ended(sdsupdatelen(str))
      BY <1>a, <2>1, <3>2, <3>3, UpdateLenGood
    <3>5. SubSeq(val, 1, k) \in Seq(SdsBytes) /\ Len(SubSeq(val, 1, k)) <= SdsMaxLen
      BY <1>a, <3>2, ValueBounds
    <3>6. val' = SubSeq(val, 1, k)
      BY <3>1 DEF k
    <3> QED
      BY <1>a, <2>1, <3>4, <3>5, <3>6, StepGood
  <2> QED
    BY <2>1, <2>2, <2>3
<1>11. ASSUME SdsFmtEnd  PROVE IInv'
  <2>1. Good(Term(str, str.len), val) /\ Ended(Term(str, str.len))
    BY <1>a, EndedAt
  <2> QED
    BY <1>a, <1>11, <2>1, StepGood DEF SdsFmtEnd
<1>12. ASSUME NEW start \in SdsPlaces, NEW end \in SdsPlaces, SdsRange(start, end)  PROVE IInv'
  <2> DEFINE place(i) == IF i >= 0 THEN i ELSE IF i + Len(val) < 0 THEN 0 ELSE i + Len(val)
             to == IF place(end) < Len(val) THEN place(end) + 1 ELSE Len(val)
             w == SubSeq(val, place(start) + 1, to)
  <2>1. start \in Int /\ end \in Int
    BY SdsAssumption
  <2>2. ~fmt /\ fmt' = fmt /\ asserts' = asserts /\ str' = sdsrange(str, start, end) /\ val' = w
    BY <1>12 DEF SdsRange
  <2>3. Good(sdsrange(str, start, end), w) /\ Ended(sdsrange(str, start, end))
    BY <1>a, <2>1, <2>2, RangeGood
  <2>4. place(start) + 1 \in Nat /\ place(start) + 1 >= 1 /\ to \in Nat /\ to <= Len(val)
    BY <1>a, <2>1
  <2> HIDE DEF place, to
  <2>5. w \in Seq(SdsBytes) /\ Len(w) <= SdsMaxLen
    BY <1>a, <2>4, ValueBounds
  <2> HIDE DEF w
  <2> QED
    BY <1>a, <2>2, <2>3, <2>5, StepGood
<1>13. ASSUME NEW cset \in SUBSET (SdsBytes \ {0}), SdsTrim(cset)  PROVE IInv'
  <2>1. PICK a \in 1..(Len(val) + 1), b \in 0..Len(val) :
             /\ \A i \in 1..Len(val) : i < a \/ i > b => val[i] \in Trims(cset)
             /\ a <= b => val[a] \notin Trims(cset) /\ val[b] \notin Trims(cset)
             /\ val' = SubSeq(val, a, b)
    BY <1>13 DEF SdsTrim
  <2>2. ~fmt /\ fmt' = fmt /\ asserts' = asserts /\ str' = sdstrim(str, cset)
    BY <1>13 DEF SdsTrim
  <2>3. Good(sdstrim(str, cset), SubSeq(val, a, b)) /\ Ended(sdstrim(str, cset))
    BY <1>a, <2>1, TrimGood
  <2>4. a \in Nat /\ b \in Nat /\ b <= Len(val) /\ a >= 1
    BY <1>a
  <2>5. SubSeq(val, a, b) \in Seq(SdsBytes) /\ Len(SubSeq(val, a, b)) <= SdsMaxLen
    BY <1>a, <2>4, ValueBounds
  <2> QED
    BY <1>a, <2>1, <2>2, <2>3, <2>5, StepGood
<1>14. ASSUME UNCHANGED sdsVars  PROVE IInv'
  BY <1>14 DEF sdsVars, IInv, Good, Whole, Holds, Ended, sdsalloc
<1> QED
  BY <1>1, <1>2, <1>3, <1>4, <1>5, <1>6, <1>7, <1>8, <1>9, <1>10, <1>11, <1>12, <1>13, <1>14 DEF SdsNext

\* The invariant is what the property says.
LEMMA GoodIsSound == IInv => SdsSound
<1> SUFFICES ASSUME IInv  PROVE SdsSound
  OBVIOUS
<1>1. asserts /\ Good(str, val) /\ (~fmt => Ended(str))
  BY DEF IInv
<1> QED
  BY <1>1 DEF SdsSound, sdslen, Good, Whole, Holds, Ended, Strings

\* No sequence of calls of sds.c writes outside of a string's memory, wraps a number of
\* its header, loses a byte or its final null: sdsMakeRoomFor() makes the room and
\* chooses the type that the writes after it need, whatever the widths of the header are.
THEOREM StringsSound == SdsSpec => []SdsSound
<1>1. SdsInit => IInv
  BY InitGood
<1>2. IInv /\ [SdsNext]_sdsVars => IInv'
  BY NextGood
<1>3. IInv => SdsSound
  BY GoodIsSound
<1> QED
  BY <1>1, <1>2, <1>3, PTL DEF SdsSpec
=============================================================================
