-------------------------------- MODULE Bits --------------------------------
(***************************************************************************)
(* The bit commands of bitops.c on string values: SETBIT, GETBIT, BITOP,    *)
(* BITCOUNT, BITPOS and BITFIELD with its integers of any width at any      *)
(* offset and its three ways to overflow.                                   *)
(*                                                                         *)
(* A string is a sequence of bytes of BitByte bits, the first bit the       *)
(* highest one.  The 64 bits of C's integers are BitInt bits here, and an   *)
(* unsigned long is BitWord bytes.  A string next to it is the reference:   *)
(* its length and the set of the positions of its ones.                     *)
(***************************************************************************)
EXTENDS Integers, Sequences, FiniteSets, SequencesExt

CONSTANTS
    BitKeys,
    BitByte,      \* bits of a byte, 8 in the code
    BitWord,      \* bytes of an unsigned long, 8 in the code
    BitFast,      \* bytes that BITOP's fast path does at a time, 32 in the code
    BitInt,       \* bits of int64_t
    BitSets,      \* the SETBITs issued: <<key, offset>>
    BitOps,       \* the BITOPs issued: <<operation, target, sequence of sources>>
    BitFields,    \* the BITFIELDs issued: <<key, sequence of operations>>
    BitMaxBytes   \* bound on the offsets the queries look at

VARIABLES
    bits,      \* the strings; <<>> is a key that does not exist
    bitref,    \* what they stand for
    bitright   \* whether the last command answered what it should

bitVars == <<bits, bitref, bitright>>

Wrapped(v)   == v % 2^BitInt
AsSigned(u)  == IF u >= 2^(BitInt - 1) THEN u - 2^BitInt ELSE u
SignedSum(v) == AsSigned(Wrapped(v))

-----------------------------------------------------------------------------
\* Bits and integers in a string.

BitOf(p, offset) == (p[(offset \div BitByte) + 1] \div 2^(BitByte - 1 - (offset % BitByte))) % 2

PutBit(p, offset, on) ==
    [p EXCEPT ![(offset \div BitByte) + 1] =
        @ + (on - BitOf(p, offset)) * 2^(BitByte - 1 - (offset % BitByte))]

Count(n) == [i \in 1..n |-> i]

setUnsignedBitfield(p, offset, width, value) ==
    FoldLeft(LAMBDA q, j : PutBit(q, offset + j - 1, (value \div 2^(width - j)) % 2), p, Count(width))

setSignedBitfield(p, offset, width, value) == setUnsignedBitfield(p, offset, width, Wrapped(value))

getUnsignedBitfield(p, offset, width) ==
    FoldLeft(LAMBDA v, j : Wrapped(2 * v) + BitOf(p, offset + j - 1), 0, Count(width))

\* The sign is spread over the higher bits.  With width = BitInt the shift is undefined
\* in C; the fields of the model are narrower.
getSignedBitfield(p, offset, width) ==
    LET u == getUnsignedBitfield(p, offset, width)
    IN  IF (u \div 2^(width - 1)) % 2 = 1 THEN AsSigned(u + 2^BitInt - 2^width) ELSE u

\* "over" is the result of the check, "limit" what is then stored instead.
checkUnsignedBitfieldOverflow(value, incr, width, owtype) ==
    LET max     == 2^width - 1
        maxincr == SignedSum(max - value)
        minincr == SignedSum(0 - value)
        over    == IF value > max \/ (incr > 0 /\ incr > maxincr) THEN 1
                   ELSE IF incr < 0 /\ incr < minincr THEN -1 ELSE 0
    IN  [over  |-> IF over # 0 /\ owtype = "WRAP" THEN 1 ELSE over,
         limit |-> IF owtype = "WRAP" THEN Wrapped(value + incr) % 2^width
                   ELSE IF over = 1 THEN max ELSE 0]

checkSignedBitfieldOverflow(value, incr, width, owtype) ==
    LET max     == 2^(width - 1) - 1
        min     == -max - 1
        maxincr == SignedSum(max - value)
        minincr == SignedSum(min - value)
        c       == Wrapped(value + incr) % 2^width
        over    == CASE \/ value > max
                        \/ width # BitInt /\ incr > maxincr
                        \/ value >= 0 /\ incr > 0 /\ incr > maxincr     -> 1
                     [] /\ value <= max
                        /\ ~(width # BitInt /\ incr > maxincr)
                        /\ ~(value >= 0 /\ incr > 0 /\ incr > maxincr)
                        /\ \/ value < min
                           \/ width # BitInt /\ incr < minincr
                           \/ value < 0 /\ incr < 0 /\ incr < minincr   -> -1
                     [] OTHER                                           -> 0
    IN  [over  |-> IF over # 0 /\ owtype = "WRAP" THEN 1 ELSE over,
         limit |-> CASE owtype = "WRAP"              -> IF c > max THEN c - 2^width ELSE c
                     [] owtype # "WRAP" /\ over = 1  -> max
                     [] OTHER                        -> min]

\* The string with room for the bit maxbit.
lookupStringForBitCommand(p, maxbit) ==
    LET byte == maxbit \div BitByte
    IN  IF Len(p) > byte THEN p ELSE p \o [i \in 1..(byte + 1 - Len(p)) |-> 0]

-----------------------------------------------------------------------------
\* Queries.

getbitCommand(p, offset) == IF offset \div BitByte < Len(p) THEN BitOf(p, offset) ELSE 0

redisPopcount(p) == Cardinality({i \in 0..(BitByte * Len(p) - 1) : BitOf(p, i) = 1})

\* Negative indexes count from the end of the string.
Indexes(len, start, end) ==
    LET From0(i) == IF i < 0 THEN (IF len + i < 0 THEN 0 ELSE len + i) ELSE i
    IN  [start |-> From0(start), end |-> IF From0(end) >= len THEN len - 1 ELSE From0(end)]

bitcountCommand(p, start, end) ==
    LET r == Indexes(Len(p), start, end)
    IN  IF (start < 0 /\ end < 0 /\ start > end) \/ r.start > r.end THEN 0
        ELSE redisPopcount(SubSeq(p, r.start + 1, r.end + 1))

\* How many of the truth values in s are TRUE before the first that is not.
Leading(s) == CHOOSE k \in 0..Len(s) : (\A i \in 1..k : s[i]) /\ (k = Len(s) \/ ~s[k + 1])

\* The first bit in p, of which the first "unaligned" bytes come before a word boundary:
\* those byte by byte, then whole words, and then the bits of the word reached, padded
\* with zeroes.
redisBitpos(p, unaligned, bit) ==
    LET skipped == IF bit = 1 THEN 0 ELSE 2^BitByte - 1
        n1      == IF unaligned < Len(p) THEN unaligned ELSE Len(p)
        head    == Leading([i \in 1..n1 |-> p[i] = skipped])
        words   == IF head < n1 THEN 0
                   ELSE Leading([w \in 1..((Len(p) - n1) \div BitWord) |->
                                 \A i \in 1..BitWord : p[n1 + (w - 1) * BitWord + i] = skipped])
        at      == head + words * BitWord
        word    == [i \in 1..BitWord |-> IF at + i <= Len(p) THEN p[at + i] ELSE 0]
    IN  IF bit = 1 /\ \A i \in 1..BitWord : word[i] = 0 THEN -1
        ELSE at * BitByte
             + Leading([i \in 1..(BitWord * BitByte) |-> BitOf(word, i - 1) # bit])

bitposCommand(p, unaligned, bit, start, end, end_given) ==
    LET r     == Indexes(Len(p), start, IF end_given THEN end ELSE Len(p) - 1)
        range == SubSeq(p, r.start + 1, r.end + 1)
        pos   == redisBitpos(range, unaligned, bit)
    IN  CASE p = <<>>                     -> IF bit = 1 THEN -1 ELSE 0
          [] p # <<>> /\ r.start > r.end  -> -1
          [] OTHER ->
               IF (end_given /\ bit = 0 /\ pos = Len(range) * BitByte) \/ pos = -1 THEN -1
               ELSE pos + r.start * BitByte

\* GET copies the bytes the integer may be in to a buffer padded with zeroes.
GetField(p, f) ==
    LET byte == f.offset \div BitByte
        buf  == [i \in 1..(BitInt \div BitByte + 1) |-> IF byte + i <= Len(p) THEN p[byte + i] ELSE 0]
    IN  IF f.sign THEN getSignedBitfield(buf, f.offset - byte * BitByte, f.width)
        ELSE getUnsignedBitfield(buf, f.offset - byte * BitByte, f.width)

-----------------------------------------------------------------------------
\* Writes.

ByteOp(op, a, b) ==
    LET Bit(x, i) == (x \div 2^i) % 2
        Of(x, y)  == CASE op = "AND" -> x * y
                       [] op = "OR"  -> IF x + y > 0 THEN 1 ELSE 0
                       [] op = "XOR" -> (x + y) % 2
    IN  FoldLeft(LAMBDA r, i : r + 2^(i - 1) * Of(Bit(a, i - 1), Bit(b, i - 1)), 0, Count(BitByte))

\* Bytes are combined directly as long as every source has BitFast more of them, and then
\* one by one, as if the shorter sources were padded.
bitopCommand(op, src) ==
    LET Lens   == {Len(src[k]) : k \in DOMAIN src}
        maxlen == CHOOSE n \in Lens : \A m \in Lens : m <= n
        minlen == CHOOSE n \in Lens : \A m \in Lens : m >= n
        fast   == BitFast * (minlen \div BitFast)
        At(k, j)   == IF j <= fast THEN src[k][j] ELSE IF Len(src[k]) < j THEN 0 ELSE src[k][j]
    IN  [j \in 1..maxlen |->
            IF op = "NOT" THEN 2^BitByte - 1 - At(1, j)
            ELSE FoldLeft(LAMBDA a, k : IF k = 1 THEN a ELSE ByteOp(op, a, At(k, j)),
                          At(1, j), Count(Len(src)))]

\* One SET or INCRBY: the old and the new value, and the outcome of the overflow check.
FieldUpdate(p, f) ==
    LET old   == IF f.sign THEN getSignedBitfield(p, f.offset, f.width)
                 ELSE getUnsignedBitfield(p, f.offset, f.width)
        base  == IF f.op = "INCRBY" THEN old ELSE IF f.sign THEN f.i64 ELSE Wrapped(f.i64)
        incr  == IF f.op = "INCRBY" THEN f.i64 ELSE 0
        check == IF f.sign THEN checkSignedBitfieldOverflow(base, incr, f.width, f.owtype)
                 ELSE checkUnsignedBitfieldOverflow(base, incr, f.width, f.owtype)
        new   == IF check.over # 0 THEN check.limit
                 ELSE IF f.sign THEN SignedSum(base + incr) ELSE Wrapped(base + incr)
    IN  [old |-> old, new |-> new, fails |-> check.over # 0 /\ f.owtype = "FAIL"]

Nil == <<"nil">>

UpdateField(p, f, u) ==
    IF u.fails THEN [p |-> p, reply |-> Nil]
    ELSE [p |-> IF f.sign THEN setSignedBitfield(p, f.offset, f.width, u.new)
                ELSE setUnsignedBitfield(p, f.offset, f.width, u.new),
          reply |-> <<IF f.op = "INCRBY" THEN u.new ELSE u.old>>]

\* All operations are parsed first and room is made for the farthest write.
bitfieldCommand(p, fields) ==
    LET writes  == {i \in DOMAIN fields : fields[i].op # "GET"}
        LastBit(i) == fields[i].offset + fields[i].width - 1
        highest == CHOOSE n \in {LastBit(i) : i \in writes} : \A i \in writes : LastBit(i) <= n
        Step(a, f) == IF f.op = "GET" THEN [a EXCEPT !.replies = Append(@, <<GetField(a.p, f)>>)]
                      ELSE LET r == UpdateField(a.p, f, FieldUpdate(a.p, f))
                           IN  [p |-> r.p, replies |-> Append(a.replies, r.reply)]
    IN  FoldLeft(Step, [p |-> IF writes = {} THEN p ELSE lookupStringForBitCommand(p, highest),
                        replies |-> <<>>], fields)

-----------------------------------------------------------------------------
\* What the commands should do, on a length in bytes and a set of ones.

NoBits == [len |-> 0, ones |-> {}]

Reach(ref, bit) == IF bit \div BitByte < ref.len THEN ref ELSE [ref EXCEPT !.len = bit \div BitByte + 1]

RefValue(ref, f) ==
    LET u == FoldLeft(LAMBDA v, j : 2 * v + IF f.offset + j - 1 \in ref.ones THEN 1 ELSE 0, 0, Count(f.width))
    IN  IF f.sign /\ u >= 2^(f.width - 1) THEN u - 2^f.width ELSE u

\* The value an operation asks for, before it is made to fit.
Wanted(ref, f) ==
    CASE f.op = "INCRBY"           -> RefValue(ref, f) + f.i64
      [] f.op = "SET" /\ f.sign    -> f.i64
      [] f.op = "SET" /\ ~f.sign   -> Wrapped(f.i64)

Fitted(f, v) ==
    LET min == IF f.sign THEN 0 - 2^(f.width - 1) ELSE 0
        max == min + 2^f.width - 1
    IN  CASE v \in min..max                          -> v
          [] v \notin min..max /\ f.owtype = "WRAP"  -> min + ((v - min) % 2^f.width)
          [] v > max /\ f.owtype # "WRAP"            -> max
          [] v < min /\ f.owtype # "WRAP"            -> min

RefField(a, f) ==
    LET v       == Wanted(a.ref, f)
        new     == Fitted(f, v)
        failing == f.owtype = "FAIL" /\ new # v
        u       == new % 2^f.width
        field   == f.offset..(f.offset + f.width - 1)
    IN  IF f.op = "GET" THEN [a EXCEPT !.replies = Append(@, <<RefValue(a.ref, f)>>)]
        ELSE IF failing THEN [a EXCEPT !.replies = Append(@, Nil)]
        ELSE [ref |-> [a.ref EXCEPT !.ones = (@ \ field)
                         \cup {i \in field : (u \div 2^(f.offset + f.width - 1 - i)) % 2 = 1}],
              replies |-> Append(a.replies, <<IF f.op = "INCRBY" THEN new ELSE RefValue(a.ref, f)>>)]

RefFields(ref, fields) ==
    FoldLeft(RefField,
             [ref |-> FoldLeft(LAMBDA r, f : IF f.op = "GET" THEN r ELSE Reach(r, f.offset + f.width - 1),
                               ref, fields), replies |-> <<>>], fields)

RefOp(op, refs) ==
    LET len  == CHOOSE n \in {refs[k].len : k \in DOMAIN refs} : \A k \in DOMAIN refs : refs[k].len <= n
        In(i) == {k \in DOMAIN refs : i \in refs[k].ones}
    IN  [len |-> len,
         ones |-> {i \in 0..(len * BitByte - 1) :
                     CASE op = "AND" -> In(i) = DOMAIN refs
                       [] op = "OR"  -> In(i) # {}
                       [] op = "XOR" -> Cardinality(In(i)) % 2 = 1
                       [] op = "NOT" -> In(i) = {}}]

-----------------------------------------------------------------------------

SetBit(k, offset, on) ==
    LET p == lookupStringForBitCommand(bits[k], offset)
    IN  /\ bits' = [bits EXCEPT ![k] = PutBit(p, offset, on)]
        /\ bitref' = [bitref EXCEPT ![k] = [Reach(@, offset) EXCEPT
                         !.ones = IF on = 1 THEN @ \cup {offset} ELSE @ \ {offset}]]
        /\ bitright' = (BitOf(p, offset) = IF offset \in bitref[k].ones THEN 1 ELSE 0)

BitOp(op, dst, keys) ==
    /\ bits' = [bits EXCEPT ![dst] = bitopCommand(op, [i \in DOMAIN keys |-> bits[keys[i]]])]
    /\ bitref' = [bitref EXCEPT ![dst] = RefOp(op, [i \in DOMAIN keys |-> bitref[keys[i]]])]
    /\ bitright' = TRUE

FieldsDone(k, r, ref) ==
    /\ bits' = [bits EXCEPT ![k] = r.p]
    /\ bitref' = [bitref EXCEPT ![k] = ref.ref]
    /\ bitright' = (r.replies = ref.replies)

BitField(k, fields) == FieldsDone(k, bitfieldCommand(bits[k], fields), RefFields(bitref[k], fields))

BitsInit ==
    /\ bits = [k \in BitKeys |-> <<>>]
    /\ bitref = [k \in BitKeys |-> NoBits]
    /\ bitright = TRUE

BitsNext ==
    \/ \E s \in BitSets, on \in {0, 1} : SetBit(s[1], s[2], on)
    \/ \E o \in BitOps : BitOp(o[1], o[2], o[3])
    \/ \E f \in BitFields : BitField(f[1], f[2])

-----------------------------------------------------------------------------

\* The bits of the bytes start..end, all of them if the string is padded on the right.
InBytes(start, end) == (start * BitByte)..((end + 1) * BitByte - 1)

FirstIn(S) == IF S = {} THEN -1 ELSE CHOOSE i \in S : \A j \in S : i <= j

\* A string holds exactly the bits that were written, and every query answers from them:
\* also across the end of the string, for every range and alignment; integers are read
\* and incremented at any offset as their width and way to overflow say.
BitsExact ==
    /\ bitright
    /\ \A k \in BitKeys :
        LET p == bits[k]  ref == bitref[k]  last == BitMaxBytes * BitByte IN
        /\ Len(p) = ref.len
        /\ \A i \in 0..last : getbitCommand(p, i) = IF i \in ref.ones THEN 1 ELSE 0
        /\ \A start \in 0..ref.len, end \in 0..ref.len :
              /\ bitcountCommand(p, start, end) = Cardinality(ref.ones \cap InBytes(start, end))
              /\ start < ref.len =>
                    bitcountCommand(p, start - ref.len, end) = bitcountCommand(p, start, end)
              /\ p # <<>> => \A unaligned \in 0..(BitWord - 1) :
                    /\ bitposCommand(p, unaligned, 1, start, end, TRUE) =
                          FirstIn(ref.ones \cap InBytes(start, end))
                    /\ bitposCommand(p, unaligned, 0, start, end, TRUE) =
                          FirstIn(InBytes(start, IF end = ref.len THEN end - 1 ELSE end) \ ref.ones)
                    /\ start < ref.len =>
                          bitposCommand(p, unaligned, 0, start, 0, FALSE) =
                             FirstIn(InBytes(start, ref.len) \ ref.ones)
=============================================================================
