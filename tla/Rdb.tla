-------------------------------- MODULE Rdb --------------------------------
(***************************************************************************)
(* The format of RDB files and of DUMP payloads (rdb.c, cluster.c): what is *)
(* written for lengths, strings, objects and whole databases, and what the  *)
(* loader makes of it under limits that may have changed since.             *)
(*                                                                         *)
(* A file is a sequence of bytes.  Bytes are narrower than eight bits and   *)
(* words shorter than in the code, so that short strings reach the limits   *)
(* of the encodings.  The bytes 0..9 are the digits, Minus is "-".  A        *)
(* string is a sequence of bytes; an object has a type, an encoding and a   *)
(* value whose shape depends on the encoding.                               *)
(***************************************************************************)
EXTENDS Integers, Sequences, FiniteSets, SequencesExt

CONSTANTS
    RdbByte,         \* bits of a byte, 8 in the code
    RdbWord,         \* bytes of a 32 bit integer, 4 in the code
    RdbIntChars,     \* longest string tried as an integer, 11
    RdbLzfMin,       \* strings up to this length are not compressed, 20
    RdbDbs,          \* dbnum
    RdbModuleKinds   \* for every module type loaded, the kinds of the values it saves

Base    == 2^RdbByte
ByteMax == Base - 1
Minus   == 10
Nul     == ByteMax

\* Least and most significant byte first.
LittleEndian(v, n) == [i \in 1..n |-> ((v % Base^n) \div Base^(i - 1)) % Base]
BigEndian(v, n)    == [i \in 1..n |-> (v \div Base^(n - i)) % Base]

FromLittle(b) == FoldRight(LAMBDA x, a : a * Base + x, b, 0)
FromBig(b)    == FoldLeft(LAMBDA a, x : a * Base + x, 0, b)
AsInt(b)      == LET v == FromLittle(b) IN IF v >= Base^Len(b) \div 2 THEN v - Base^Len(b) ELSE v

Digits(v) ==
    LET n == CHOOSE n \in 1..9 : v < 10^n /\ (n > 1 => v >= 10^(n - 1))
    IN  <<>> \o [i \in 1..n |-> (v \div 10^(n - i)) % 10]

ll2string(v) == IF v < 0 THEN <<Minus>> \o Digits(-v) ELSE Digits(v)

\* The number a string begins with and whether it is followed by the end of a C string.
strtoll(s) ==
    LET neg   == s # <<>> /\ s[1] = Minus
        first == IF neg THEN 2 ELSE 1
        ends  == {i \in first..Len(s) : s[i] > 9}
        stop  == IF ends = {} THEN Len(s) + 1 ELSE CHOOSE i \in ends : \A j \in ends : i <= j
        value == FoldLeft(LAMBDA a, d : a * 10 + d, 0, SubSeq(s, first, stop - 1))
    IN  [value |-> IF neg THEN -value ELSE value,
         whole |-> /\ stop > first \/ ~neg
                   /\ stop = Len(s) + 1 \/ s[stop] = Nul]

\* isSdsRepresentableAsLongLong() and string2l(): the one way ll2string() writes a number.
IsNumber(s) == s # <<>> /\ strtoll(s).whole /\ ll2string(strtoll(s).value) = s

-----------------------------------------------------------------------------
\* Lengths and strings.  Two bits of the first byte tell how a length is stored.

LenBits == RdbByte - 2

RDB_6BITLEN  == 0
RDB_14BITLEN == 1
RDB_32BITLEN == 2 * 2^LenBits
RDB_64BITLEN == 2 * 2^LenBits + 1
RDB_ENCVAL   == 3

RDB_ENC_INT8  == 0
RDB_ENC_INT16 == 1
RDB_ENC_INT32 == 2
RDB_ENC_LZF   == 3

rdbSaveLen(len) ==
    IF len < 2^LenBits THEN <<len + RDB_6BITLEN * 2^LenBits>>
    ELSE IF len < 2^(LenBits + RdbByte) THEN <<len \div Base + RDB_14BITLEN * 2^LenBits, len % Base>>
    ELSE IF len < Base^RdbWord THEN <<RDB_32BITLEN>> \o BigEndian(len, RdbWord)
    ELSE <<RDB_64BITLEN>> \o BigEndian(len, 2 * RdbWord)

Encoded(enc) == <<RDB_ENCVAL * 2^LenBits + enc>>

\* Loaders take the file and a position and return the next position and a value.
\* Position 0 is a short read or a file found to be corrupt: the server exits.
Fail == [p |-> 0, v |-> 0, enc |-> FALSE]

Read(b, p, n) ==
    IF p = 0 \/ p + n - 1 > Len(b) THEN Fail
    ELSE [p |-> p + n, v |-> SubSeq(b, p, p + n - 1), enc |-> FALSE]

\* The bytes read by r as a number.
Number(r) == IF r.p = 0 THEN Fail ELSE [r EXCEPT !.v = FromBig(r.v)]

rdbLoadType(b, p) == Number(Read(b, p, 1))

\* The length that begins with the byte read by t.
LenAfter(b, t, low, next) ==
    CASE t.p = 0                                   -> Fail
      [] t.p # 0 /\ t.v \div 2^LenBits = RDB_ENCVAL   -> [p |-> t.p, v |-> low, enc |-> TRUE]
      [] t.p # 0 /\ t.v \div 2^LenBits = RDB_6BITLEN  -> [p |-> t.p, v |-> low, enc |-> FALSE]
      [] t.p # 0 /\ t.v \div 2^LenBits = RDB_14BITLEN ->
           IF next.p = 0 THEN Fail ELSE [next EXCEPT !.v = low * Base + @]
      [] t.p # 0 /\ t.v = RDB_32BITLEN             -> Number(Read(b, t.p, RdbWord))
      [] t.p # 0 /\ t.v = RDB_64BITLEN             -> Number(Read(b, t.p, 2 * RdbWord))
      [] OTHER                                     -> Fail

LenFrom(b, t) == LenAfter(b, t, t.v % 2^LenBits, rdbLoadType(b, t.p))

rdbLoadLen(b, p) == LenFrom(b, rdbLoadType(b, p))

\* The empty sequence stands for "does not fit".
rdbEncodeInteger(v) ==
    LET Fits(n) == v >= 0 - Base^n \div 2 /\ v < Base^n \div 2
    IN  IF Fits(1) THEN Encoded(RDB_ENC_INT8) \o LittleEndian(v, 1)
        ELSE IF Fits(2) THEN Encoded(RDB_ENC_INT16) \o LittleEndian(v, 2)
        ELSE IF Fits(RdbWord) THEN Encoded(RDB_ENC_INT32) \o LittleEndian(v, RdbWord)
        ELSE <<>>

EncodeIfSame(s, n) ==
    IF ~n.whole \/ ll2string(n.value) # s THEN <<>> ELSE rdbEncodeInteger(n.value)

rdbTryIntegerEncoding(s) == EncodeIfSame(s, strtoll(s))

IntegerRead(r) == IF r.p = 0 THEN Fail ELSE [r EXCEPT !.v = ll2string(AsInt(r.v))]

rdbLoadIntegerObject(b, p, enctype) ==
    IntegerRead(Read(b, p, CASE enctype = RDB_ENC_INT8  -> 1
                             [] enctype = RDB_ENC_INT16 -> 2
                             [] enctype = RDB_ENC_INT32 -> RdbWord))

\* The compressor, of which only strings of one byte repeated before the last one are
\* compressed: to three bytes.
lzf_compress(s, outlen) ==
    IF outlen >= 3 /\ Len(s) < Base /\ \A i \in 1..(Len(s) - 1) : s[i] = s[1]
    THEN <<s[1], Len(s), s[Len(s)]>> ELSE <<>>

lzf_decompress(c) == [i \in 1..c[2] |-> IF i < c[2] THEN c[1] ELSE c[3]]

rdbSaveLzfBlob(data, original_len) ==
    Encoded(RDB_ENC_LZF) \o rdbSaveLen(Len(data)) \o rdbSaveLen(original_len) \o data

FirstNonEmpty(a, b) == IF a # <<>> THEN a ELSE b

SaveIfCompressed(s, out) == IF out = <<>> THEN <<>> ELSE rdbSaveLzfBlob(out, Len(s))

rdbSaveLzfStringObject(s) ==
    SaveIfCompressed(s, IF Len(s) <= 4 THEN <<>> ELSE lzf_compress(s, Len(s) - 4))

Decompressed(c, len) ==
    IF c.p = 0 \/ Len(c.v) # 3 THEN Fail
    ELSE IF c.v[2] # len.v THEN Fail ELSE [c EXCEPT !.v = lzf_decompress(c.v)]

LzfAfter(b, clen, len) == Decompressed(Read(b, len.p, clen.v), len)

LzfFrom(b, clen) == LzfAfter(b, clen, rdbLoadLen(b, clen.p))

rdbLoadLzfStringObject(b, p) == LzfFrom(b, rdbLoadLen(b, p))

rdbSaveRawString(s, compression) ==
    FirstNonEmpty(IF Len(s) <= RdbIntChars THEN rdbTryIntegerEncoding(s) ELSE <<>>,
        FirstNonEmpty(IF compression /\ Len(s) > RdbLzfMin THEN rdbSaveLzfStringObject(s) ELSE <<>>,
                      rdbSaveLen(Len(s)) \o s))

rdbSaveLongLongAsStringObject(v) ==
    FirstNonEmpty(rdbEncodeInteger(v), rdbSaveLen(Len(ll2string(v))) \o ll2string(v))

rdbSaveStringObject(o, compression) ==
    IF o.enc = "int" THEN rdbSaveLongLongAsStringObject(o.v) ELSE rdbSaveRawString(o.v, compression)

StringFrom(b, len) ==
    IF len.p = 0 THEN Fail
    ELSE IF ~len.enc THEN Read(b, len.p, len.v)
    ELSE IF len.v = RDB_ENC_LZF THEN rdbLoadLzfStringObject(b, len.p)
    ELSE IF len.v \in {RDB_ENC_INT8, RDB_ENC_INT16, RDB_ENC_INT32} THEN rdbLoadIntegerObject(b, len.p, len.v)
    ELSE Fail

rdbGenericLoadStringObject(b, p) == StringFrom(b, rdbLoadLen(b, p))

With(r, v) == IF r.p = 0 THEN Fail ELSE [r EXCEPT !.v = v]

Appended(a, s) == IF a.p = 0 THEN Fail ELSE With(s, Append(a.v, s.v))

\* n strings one after the other.
LoadStrings(b, p, n) ==
    IF p = 0 THEN Fail
    ELSE FoldLeft(LAMBDA a, i : Appended(a, rdbGenericLoadStringObject(b, a.p)),
                  [p |-> p, v |-> <<>>, enc |-> FALSE], [i \in 1..n |-> i])

\* As many bytes, or strings, as the length just read says.
LoadedBytes(b, len) == Read(b, len.p, len.v)

LoadCounted(b, len) == LoadStrings(b, len.p, len.v)

-----------------------------------------------------------------------------
\* Objects.  A list is a sequence of nodes, compressed or not, of strings; an intset a set
\* of numbers; a ziplist a sequence of strings, in which fields or members alternate with
\* values or scores.

RDB_TYPE_STRING         == 0
RDB_TYPE_LIST           == 1
RDB_TYPE_SET            == 2
RDB_TYPE_ZSET           == 3
RDB_TYPE_HASH           == 4
RDB_TYPE_ZSET_2         == 5
RDB_TYPE_MODULE         == 6
RDB_TYPE_MODULE_2       == 7
RDB_TYPE_HASH_ZIPMAP    == 9
RDB_TYPE_LIST_ZIPLIST   == 10
RDB_TYPE_SET_INTSET     == 11
RDB_TYPE_ZSET_ZIPLIST   == 12
RDB_TYPE_HASH_ZIPLIST   == 13
RDB_TYPE_LIST_QUICKLIST == 14

Obj(type, enc, v) == [type |-> type, enc |-> enc, v |-> v]

Concat(ss) == FoldLeft(LAMBDA a, s : a \o s, <<>>, ss)

Half(s, odd) == [i \in 1..(Len(s) \div 2) |-> s[2 * i - (IF odd THEN 1 ELSE 0)]]

\* The bytes of a ziplist (or zipmap) and of an intset, whose layout is the subject of
\* other modules.
ZiplistBlob(ss) == Concat([i \in DOMAIN ss |-> <<Len(ss[i])>> \o ss[i]]) \o <<ByteMax>>

RECURSIVE ZiplistOf(_)
ZiplistOf(b) ==
    IF b[1] = ByteMax THEN <<>>
    ELSE <<SubSeq(b, 2, b[1] + 1)>> \o ZiplistOf(SubSeq(b, b[1] + 2, Len(b)))

IntsetBlob(S) == Concat([i \in 1..Cardinality(S) |-> LittleEndian(SetToSortSeq(S, <)[i], 2)])

IntsetOf(b) == {AsInt(SubSeq(b, 2 * i - 1, 2 * i)) : i \in 1..(Len(b) \div 2)}

\* IEEE 754 numbers, of which the model has small integers.
rdbSaveBinaryDoubleValue(v) == LittleEndian(v, 2)

DoubleRead(r) == IF r.p = 0 THEN Fail ELSE [r EXCEPT !.v = AsInt(r.v)]

rdbLoadBinaryDoubleValue(b, p) == DoubleRead(Read(b, p, 2))

\* The text form of older files; the infinities and "not a number" are left out.
TextRead(text) == IF text.p = 0 THEN Fail ELSE [text EXCEPT !.v = strtoll(text.v).value]

rdbLoadDoubleValue(b, p) == TextRead(LoadedBytes(b, rdbLoadType(b, p)))

\* The members of a sorted set in order: by score, then by bytes.
LexBefore(s, t) ==
    \/ \E i \in 1..Len(t) : /\ SubSeq(s, 1, i - 1) = SubSeq(t, 1, i - 1)
                            /\ i > Len(s) \/ s[i] < t[i]

InOrder(zs) ==
    SetToSortSeq(DOMAIN zs, LAMBDA a, b : zs[a] < zs[b] \/ (zs[a] = zs[b] /\ LexBefore(a, b)))

rdbSaveObjectType(o) ==
    CASE o.type = "string"                       -> <<RDB_TYPE_STRING>>
      [] o.type = "list"                         -> <<RDB_TYPE_LIST_QUICKLIST>>
      [] o.type = "set" /\ o.enc = "intset"      -> <<RDB_TYPE_SET_INTSET>>
      [] o.type = "set" /\ o.enc = "ht"          -> <<RDB_TYPE_SET>>
      [] o.type = "zset" /\ o.enc = "ziplist"    -> <<RDB_TYPE_ZSET_ZIPLIST>>
      [] o.type = "zset" /\ o.enc = "skiplist"   -> <<RDB_TYPE_ZSET_2>>
      [] o.type = "hash" /\ o.enc = "ziplist"    -> <<RDB_TYPE_HASH_ZIPLIST>>
      [] o.type = "hash" /\ o.enc = "ht"         -> <<RDB_TYPE_HASH>>
      [] o.type = "module"                       -> <<RDB_TYPE_MODULE_2>>

SaveNode(node, compression) ==
    LET zl == ZiplistBlob(node.zl)
    IN  IF node.c THEN rdbSaveLzfBlob(lzf_compress(zl, Len(zl) - 1), Len(zl))
        ELSE rdbSaveRawString(zl, compression)

\* Module values: numbers, strings and doubles, each after an opcode.
ModuleOpcode == [eof |-> 0, sint |-> 1, uint |-> 2, float |-> 3, double |-> 4, string |-> 5]

SaveModuleField(f, compression) ==
    rdbSaveLen(ModuleOpcode[f.kind])
        \o CASE f.kind = "uint"   -> rdbSaveLen(f.v)
             [] f.kind = "string" -> rdbSaveRawString(f.v, compression)
             [] f.kind = "double" -> rdbSaveBinaryDoubleValue(f.v)

rdbSaveModule(m, compression) ==
    rdbSaveLen(m.id)
        \o Concat([i \in DOMAIN m.fields |-> SaveModuleField(m.fields[i], compression)])
        \o rdbSaveLen(ModuleOpcode.eof)

\* Strings one after the other, without their number.
SaveStrings(ss, compression) == Concat([i \in DOMAIN ss |-> rdbSaveRawString(ss[i], compression)])

Blob(o) == IF o.enc = "intset" THEN IntsetBlob(o.v) ELSE ZiplistBlob(o.v)

\* The strings of a hash table, in the order of its iterator, which may be any: the members
\* of a set, or the fields of a hash each followed by its value.
Members(o) == IF o.type = "set" THEN [m \in o.v |-> <<m>>] ELSE [f \in DOMAIN o.v |-> <<f, o.v[f]>>]

InAnyOrder(ms) == Concat(SetToSeq({ms[m] : m \in DOMAIN ms}))

HashStrings(o) == InAnyOrder(Members(o))

SaveScores(ms, zs, compression) ==
    rdbSaveLen(Len(ms))
        \o Concat([i \in DOMAIN ms |-> rdbSaveRawString(ms[i], compression)
                                           \o rdbSaveBinaryDoubleValue(zs[ms[i]])])

\* A skiplist is saved from its tail on.
rdbSaveObject(o, compression) ==
    CASE o.type = "string" -> rdbSaveStringObject(o, compression)
      [] o.type = "list"   -> rdbSaveLen(Len(o.v))
                                  \o Concat([i \in DOMAIN o.v |-> SaveNode(o.v[i], compression)])
      [] o.enc \in {"intset", "ziplist"} -> rdbSaveRawString(Blob(o), compression)
      [] o.enc = "ht"       -> rdbSaveLen(Cardinality(DOMAIN Members(o))) \o SaveStrings(HashStrings(o), compression)
      [] o.enc = "skiplist" -> SaveScores(Reverse(InOrder(o.v)), o.v, compression)
      [] o.type = "module" -> rdbSaveModule(o.v, compression)

-----------------------------------------------------------------------------
\* Loading objects: lim holds the limits of the loading server.

tryObjectEncoding(s) ==
    IF IsNumber(s) THEN Obj("string", "int", strtoll(s).value) ELSE Obj("string", "raw", s)

\* quicklistPushTail() of one string after the other.
PushAll(ss, fill) ==
    [k \in 1..((Len(ss) + fill - 1) \div fill) |->
        [c |-> FALSE, zl |-> SubSeq(ss, (k - 1) * fill + 1, IF k * fill < Len(ss) THEN k * fill ELSE Len(ss))]]

ListOf(ss, fill) == IF ss.p = 0 THEN Fail ELSE With(ss, Obj("list", "quicklist", PushAll(ss.v, fill)))

LoadList(b, p, lim) == ListOf(LoadCounted(b, rdbLoadLen(b, p)), lim.fill)

setTypeConvert(o) == Obj("set", "ht", {ll2string(i) : i \in o.v})

AddMember(o, s) ==
    IF o.enc = "ht" THEN Obj("set", "ht", o.v \cup {s})
    ELSE IF IsNumber(s) THEN Obj("set", "intset", o.v \cup {strtoll(s).value})
    ELSE Obj("set", "ht", setTypeConvert(o).v \cup {s})

SetOf(ss, lim) ==
    IF ss.p = 0 THEN Fail
    ELSE With(ss, FoldLeft(AddMember, Obj("set", IF Len(ss.v) > lim.intset THEN "ht" ELSE "intset", {}), ss.v))

LoadSet(b, p, lim) == SetOf(LoadCounted(b, rdbLoadLen(b, p)), lim)

zsetToZiplist(zs) ==
    LET ms == InOrder(zs) IN Concat([i \in DOMAIN ms |-> <<ms[i], ll2string(zs[ms[i]])>>])

zsetOfZiplist(ss) ==
    LET ms == Half(ss, TRUE)
    IN  [m \in Range(ms) |-> strtoll(ss[2 * (CHOOSE i \in DOMAIN ms : ms[i] = m)]).value]

\* Members and scores; a skiplist is converted after loading.
Scored(a, s, score) ==
    IF a.p = 0 \/ s.p = 0 \/ score.p = 0 THEN Fail
    ELSE [score EXCEPT !.v = [m \in DOMAIN a.v \cup {s.v} |-> IF m = s.v THEN score.v ELSE a.v[m]]]

LoadScore(b, a, s, type) ==
    Scored(a, s, IF type = RDB_TYPE_ZSET_2 THEN rdbLoadBinaryDoubleValue(b, s.p) ELSE rdbLoadDoubleValue(b, s.p))

LoadScores(b, len, type) ==
    IF len.p = 0 THEN Fail
    ELSE FoldLeft(LAMBDA a, i : LoadScore(b, a, rdbGenericLoadStringObject(b, a.p), type),
                  [len EXCEPT !.v = <<>>], [i \in 1..len.v |-> i])

ZsetOf(all, lim) ==
    IF all.p = 0 THEN Fail
    ELSE IF Cardinality(DOMAIN all.v) <= lim.zlen /\ \A m \in DOMAIN all.v : Len(m) <= lim.zval
    THEN With(all, Obj("zset", "ziplist", zsetToZiplist(all.v)))
    ELSE With(all, Obj("zset", "skiplist", all.v))

LoadZset(b, p, type, lim) == ZsetOf(LoadScores(b, rdbLoadLen(b, p), type), lim)

hashTypeConvert(ss) ==
    LET fs == Half(ss, TRUE)
    IN  [f \in Range(fs) |-> ss[2 * (CHOOSE i \in DOMAIN fs : fs[i] = f)]]

\* A pair too long for a ziplist is added to it first and converted with it; a field that
\* is there twice is found by the hash table only.
HashOf(ss, lim) ==
    IF ss.p = 0 THEN Fail
    ELSE IF Len(ss.v) <= 2 * lim.hlen /\ \A i \in DOMAIN ss.v : Len(ss.v[i]) <= lim.hval
    THEN With(ss, Obj("hash", "ziplist", ss.v))
    ELSE IF 2 * Cardinality(Range(Half(ss.v, TRUE))) # Len(ss.v) THEN Fail
    ELSE With(ss, Obj("hash", "ht", hashTypeConvert(ss.v)))

LoadPairs(b, len) == LoadStrings(b, len.p, 2 * len.v)

LoadHash(b, p, lim) == HashOf(LoadPairs(b, rdbLoadLen(b, p)), lim)

\* quicklistAppendZiplist() of one node after the other.
QuicklistOf(ss) ==
    IF ss.p = 0 THEN Fail
    ELSE With(ss, Obj("list", "quicklist",
                      [i \in DOMAIN ss.v |-> [c |-> FALSE, zl |-> ZiplistOf(ss.v[i])]]))

LoadQuicklist(b, p) == QuicklistOf(LoadCounted(b, rdbLoadLen(b, p)))

\* Values saved as one string.  Of the limits only the number of elements is looked at,
\* except for the zipmaps of old files.
OverLimits(zl, lim) == Len(zl) > 2 * lim.hlen \/ \E i \in DOMAIN zl : Len(zl[i]) > lim.hval

HashFrom(zl, over) == IF over THEN Obj("hash", "ht", hashTypeConvert(zl)) ELSE Obj("hash", "ziplist", zl)

ZsetFrom(zl, over) == IF over THEN Obj("zset", "skiplist", zsetOfZiplist(zl)) ELSE Obj("zset", "ziplist", zl)

SetFrom(o, lim) == IF Cardinality(o.v) > lim.intset THEN setTypeConvert(o) ELSE o

FixZiplist(zl, type, lim) ==
    CASE type = RDB_TYPE_HASH_ZIPMAP  -> HashFrom(zl, OverLimits(zl, lim))
      [] type = RDB_TYPE_LIST_ZIPLIST -> Obj("list", "quicklist", PushAll(zl, lim.fill))
      [] type = RDB_TYPE_ZSET_ZIPLIST -> ZsetFrom(zl, Len(zl) > 2 * lim.zlen)
      [] type = RDB_TYPE_HASH_ZIPLIST -> HashFrom(zl, Len(zl) > 2 * lim.hlen)

FixEncoding(s, type, lim) ==
    IF s.p = 0 THEN Fail
    ELSE IF type = RDB_TYPE_SET_INTSET THEN With(s, SetFrom(Obj("set", "intset", IntsetOf(s.v)), lim))
    ELSE With(s, FixZiplist(ZiplistOf(s.v), type, lim))

LoadEncoded(b, p, type, lim) == FixEncoding(rdbGenericLoadStringObject(b, p), type, lim)

\* The module's rdb_load callback asks for the values its rdb_save wrote, one by one; in
\* version 2 their opcodes are checked, and a mark at the end.
ModuleValue(b, op, kind) ==
    IF op.p = 0 \/ op.v # ModuleOpcode[kind] THEN Fail
    ELSE CASE kind = "uint"   -> rdbLoadLen(b, op.p)
           [] kind = "string" -> rdbGenericLoadStringObject(b, op.p)
           [] kind = "double" -> rdbLoadBinaryDoubleValue(b, op.p)

\* A check that version 1 does not make.
Opcode(b, p, opcode, ver) == IF ver = 2 THEN rdbLoadLen(b, p) ELSE [p |-> p, v |-> opcode, enc |-> FALSE]

FieldAppended(a, f, kind) ==
    IF a.p = 0 \/ f.p = 0 THEN Fail ELSE [f EXCEPT !.v = Append(a.v, [kind |-> kind, v |-> f.v])]

LoadFields(b, id, ver) ==
    IF id.p = 0 \/ id.v \notin DOMAIN RdbModuleKinds THEN Fail
    ELSE FoldLeft(LAMBDA a, kind :
                    FieldAppended(a, ModuleValue(b, Opcode(b, a.p, ModuleOpcode[kind], ver), kind), kind),
                  [p |-> id.p, v |-> <<>>, enc |-> FALSE], RdbModuleKinds[id.v])

ModuleEnd(eof, id, fields) ==
    IF fields.p = 0 \/ eof.p = 0 \/ eof.v # ModuleOpcode.eof THEN Fail
    ELSE With(eof, Obj("module", "module", [id |-> id.v, fields |-> fields.v]))

ModuleAfter(b, id, fields, ver) == ModuleEnd(Opcode(b, fields.p, ModuleOpcode.eof, ver), id, fields)

ModuleFrom(b, id, ver) == ModuleAfter(b, id, LoadFields(b, id, ver), ver)

LoadModule(b, p, ver) == ModuleFrom(b, rdbLoadLen(b, p), ver)

StringOf(s) == IF s.p = 0 THEN Fail ELSE With(s, tryObjectEncoding(s.v))

rdbLoadObject(b, p, type, lim) ==
    CASE type = RDB_TYPE_STRING                     -> StringOf(rdbGenericLoadStringObject(b, p))
      [] type = RDB_TYPE_LIST                       -> LoadList(b, p, lim)
      [] type = RDB_TYPE_SET                        -> LoadSet(b, p, lim)
      [] type \in {RDB_TYPE_ZSET, RDB_TYPE_ZSET_2}  -> LoadZset(b, p, type, lim)
      [] type = RDB_TYPE_HASH                       -> LoadHash(b, p, lim)
      [] type = RDB_TYPE_LIST_QUICKLIST             -> LoadQuicklist(b, p)
      [] type \in {RDB_TYPE_HASH_ZIPMAP, RDB_TYPE_LIST_ZIPLIST, RDB_TYPE_SET_INTSET,
                   RDB_TYPE_ZSET_ZIPLIST, RDB_TYPE_HASH_ZIPLIST} -> LoadEncoded(b, p, type, lim)
      [] type \in {RDB_TYPE_MODULE, RDB_TYPE_MODULE_2} ->
           LoadModule(b, p, IF type = RDB_TYPE_MODULE THEN 1 ELSE 2)
      [] OTHER                                      -> Fail

-----------------------------------------------------------------------------
\* DUMP payloads: an object, the version and a checksum.

RDB_VERSION == 8

\* Any function that depends on all bytes; zero stands for "not computed".
crc64(b) ==
    LET Ones(j) == Cardinality({i \in DOMAIN b : (b[i] \div 2^j) % 2 = 1})
    IN  1 + ((Len(b) + 3 * Ones(0) + 5 * Ones(1) + 7 * Ones(2)) % ByteMax)

Summed(body, checksum) == body \o LittleEndian(IF checksum THEN crc64(body) ELSE 0, 2)

createDumpPayload(o, compression) ==
    Summed(rdbSaveObjectType(o) \o rdbSaveObject(o, compression) \o LittleEndian(RDB_VERSION, 2), TRUE)

verifyDumpPayload(b) ==
    /\ Len(b) >= 4
    /\ FromLittle(SubSeq(b, Len(b) - 3, Len(b) - 2)) <= RDB_VERSION
    /\ FromLittle(SubSeq(b, Len(b) - 1, Len(b))) = crc64(SubSeq(b, 1, Len(b) - 2))

\* restoreCommand(): the value, at position 0 if it is refused.
Restored(b, lim) ==
    IF ~verifyDumpPayload(b) THEN Fail ELSE rdbLoadObject(b, 2, b[1], lim)

-----------------------------------------------------------------------------
\* Files.

RDB_OPCODE_AUX           == ByteMax - 5
RDB_OPCODE_RESIZEDB      == ByteMax - 4
RDB_OPCODE_EXPIRETIME_MS == ByteMax - 3
RDB_OPCODE_EXPIRETIME    == ByteMax - 2
RDB_OPCODE_SELECTDB      == ByteMax - 1
RDB_OPCODE_EOF           == ByteMax

Magic == <<20, 20>>

NoExpire == -1

\* CONFIG_RUN_ID_SIZE.
RunIdSize == 2

\* Keys of a database map to a value and a time to expire in milliseconds; one second has
\* Second of them.
Second == 2

rdbSaveKeyValuePair(key, e, now, compression) ==
    IF e.expire # NoExpire /\ e.expire < now THEN <<>>
    ELSE (IF e.expire = NoExpire THEN <<>>
          ELSE <<RDB_OPCODE_EXPIRETIME_MS>> \o LittleEndian(e.expire, 2 * RdbWord))
         \o rdbSaveObjectType(e.o) \o rdbSaveRawString(key, compression) \o rdbSaveObject(e.o, compression)

AuxStreamDb == <<11, 12>>
AuxReplId   == <<11, 13>>
AuxOffset   == <<11, 14>>
AuxPreamble == <<15>>

rdbSaveAuxField(kv, compression) == <<RDB_OPCODE_AUX>> \o SaveStrings(kv, compression)

\* RDB_SAVE_INFO_INIT, and the information of a master.
NoSaveInfo == [set |-> FALSE, stream_db |-> -1, id |-> <<>>, offset |-> -1]

SaveInfo(stream_db, id, offset) == [set |-> TRUE, stream_db |-> stream_db, id |-> id, offset |-> offset]

AuxFields(rsi) ==
    (IF ~rsi.set THEN <<>>
     ELSE <<<<AuxStreamDb, ll2string(rsi.stream_db)>>, <<AuxReplId, rsi.id>>, <<AuxOffset, ll2string(rsi.offset)>>>>)
    \o <<<<AuxPreamble, ll2string(0)>>>>

SaveAux(fields, compression) == Concat([i \in DOMAIN fields |-> rdbSaveAuxField(fields[i], compression)])

rdbSaveInfoAuxFields(rsi, compression) == SaveAux(AuxFields(rsi), compression)

SaveDb(j, db, now, compression) ==
    LET keys == SetToSeq(DOMAIN db)
    IN  IF keys = <<>> THEN <<>>
        ELSE <<RDB_OPCODE_SELECTDB>> \o rdbSaveLen(j)
             \o <<RDB_OPCODE_RESIZEDB>> \o rdbSaveLen(Len(keys))
             \o rdbSaveLen(Cardinality({k \in DOMAIN db : db[k].expire # NoExpire}))
             \o Concat([i \in DOMAIN keys |-> rdbSaveKeyValuePair(keys[i], db[keys[i]], now, compression)])

\* dbs is the sequence of databases, opt the options of the server that saves.
rdbSaveRio(dbs, now, rsi, opt) ==
    Summed(Magic \o BigEndian(RDB_VERSION, 2) \o rdbSaveInfoAuxFields(rsi, opt.compression)
             \o Concat([j \in 1..RdbDbs |-> SaveDb(j - 1, dbs[j], now, opt.compression)])
             \o <<RDB_OPCODE_EOF>>,
           opt.checksum)

\* The state of the loader: position, version, database, databases loaded, save info.
Loader(p) ==
    [p |-> p, db |-> 1, dbs |-> [j \in 1..RdbDbs |-> <<>>], rsi |-> NoSaveInfo, eof |-> FALSE]

Corrupt(l) == [l EXCEPT !.p = 0]

AuxInfo(rsi, key, v) ==
    CASE key = AuxStreamDb -> [rsi EXCEPT !.stream_db = strtoll(v).value]
      [] key = AuxReplId   -> IF Len(v) = RunIdSize THEN [rsi EXCEPT !.id = v, !.set = TRUE] ELSE rsi
      [] key = AuxOffset   -> [rsi EXCEPT !.offset = strtoll(v).value]

AuxLoaded(l, kv) ==
    IF kv.p = 0 THEN Corrupt(l)
    ELSE IF kv.v[1] \notin {AuxStreamDb, AuxReplId, AuxOffset} THEN [l EXCEPT !.p = kv.p]
    ELSE [l EXCEPT !.p = kv.p,
                   !.rsi = AuxInfo(l.rsi, kv.v[1], kv.v[2])]

LoadAux(b, l) == AuxLoaded(l, LoadStrings(b, l.p, 2))

TimeRead(r, unit) == IF r.p = 0 THEN Fail ELSE [r EXCEPT !.v = FromLittle(r.v) * unit]

\* The time before the key, if there is one.
LoadTime(b, type) ==
    CASE type.v = RDB_OPCODE_EXPIRETIME    -> TimeRead(Read(b, type.p, RdbWord), Second)
      [] type.v = RDB_OPCODE_EXPIRETIME_MS -> TimeRead(Read(b, type.p, 2 * RdbWord), 1)
      [] OTHER                             -> With(type, NoExpire)

\* A master drops the keys that expired since the file was written; a slave keeps them
\* until its master deletes them.
KeyLoaded(l, key, val, expire, now, lim) ==
    IF val.p = 0 THEN Corrupt(l)
    ELSE IF ~lim.slave /\ expire # NoExpire /\ expire < now THEN [l EXCEPT !.p = val.p]
    ELSE IF key.v \in DOMAIN l.dbs[l.db] THEN Corrupt(l)
    ELSE [l EXCEPT !.p = val.p,
            !.dbs[l.db] = [k \in DOMAIN @ \cup {key.v} |->
                             IF k = key.v THEN [o |-> val.v, expire |-> expire] ELSE @[k]]]

KeyAfter(b, l, type, key, expire, now, lim) ==
    KeyLoaded(l, key, IF key.p = 0 THEN Fail ELSE rdbLoadObject(b, key.p, type, lim), expire, now, lim)

\* type is the last thing read, the type of the value.
LoadKey(b, l, type, expire, now, lim) ==
    IF type.p = 0 THEN Corrupt(l)
    ELSE KeyAfter(b, l, type.v, rdbGenericLoadStringObject(b, type.p), expire, now, lim)

\* After a time the type is read again.
LoadTimed(b, l, type, time, now, lim) ==
    LoadKey(b, l, IF time.p = type.p THEN type ELSE rdbLoadType(b, time.p), time.v, now, lim)

SelectDb(l, n) == IF n.p = 0 \/ n.v >= RdbDbs THEN Corrupt(l) ELSE [l EXCEPT !.p = n.p, !.db = n.v + 1]

\* The sizes are hints for the hash tables.
SkipLens(b, l, n) == [l EXCEPT !.p = rdbLoadLen(b, n.p).p]

LoadTyped(b, l, type, now, lim) ==
    CASE type.v = RDB_OPCODE_EOF      -> [l EXCEPT !.p = type.p, !.eof = TRUE]
      [] type.v = RDB_OPCODE_AUX      -> LoadAux(b, [l EXCEPT !.p = type.p])
      [] type.v = RDB_OPCODE_SELECTDB -> SelectDb(l, rdbLoadLen(b, type.p))
      [] type.v = RDB_OPCODE_RESIZEDB -> SkipLens(b, l, rdbLoadLen(b, type.p))
      [] OTHER                        -> LoadTimed(b, l, type, LoadTime(b, type), now, lim)

LoadNext(b, l, type, now, lim) == IF type.p = 0 THEN Corrupt(l) ELSE LoadTyped(b, l, type, now, lim)

\* The loop of rdbLoadRio().
RECURSIVE LoadItems(_, _, _, _)
LoadItems(b, l, now, lim) ==
    IF l.p = 0 \/ l.eof THEN l
    ELSE LoadItems(b, LoadNext(b, l, rdbLoadType(b, l.p), now, lim), now, lim)

\* Versions before 5 have no checksum; zero says that it was not computed.
SumMatches(b, l, r) == r.p # 0 /\ FromLittle(r.v) \in {0, crc64(SubSeq(b, 1, l.p - 1))}

CheckedSum(b, l, rdbver, lim) ==
    IF l.p = 0 \/ rdbver < 5 \/ ~lim.checksum THEN l
    ELSE IF SumMatches(b, l, Read(b, l.p, 2)) THEN l ELSE Corrupt(l)

rdbLoadRio(b, now, lim) ==
    IF \/ Len(b) < 4 \/ SubSeq(b, 1, 2) # Magic
       \/ FromBig(SubSeq(b, 3, 4)) \notin 1..RDB_VERSION
    THEN Corrupt(Loader(1))
    ELSE CheckedSum(b, LoadItems(b, Loader(5), now, lim), FromBig(SubSeq(b, 3, 4)), lim)
=============================================================================
