---------------------------- MODULE HyperLogLog ----------------------------
(***************************************************************************)
(* The HyperLogLog strings of hyperloglog.c.  Registers are kept either as  *)
(* a sequence of run length opcodes (sparse), which an update splits and    *)
(* joins, or as small counters that straddle the bytes of an array (dense). *)
(* The header caches the cardinality and a bit that says it is stale.       *)
(*                                                                         *)
(* An element is what hllPatLen makes of it: the register it hashes to and  *)
(* the length of its pattern of zeroes.  The estimate is left as the two    *)
(* sums it is computed from, the registers in use and SUM(2^-register),     *)
(* the latter counted in units of 2^-HLL_REGISTER_MAX.                      *)
(***************************************************************************)
EXTENDS Integers, Sequences, FiniteSets, SequencesExt

CONSTANTS
    HllKeys,
    HllAdds,         \* for each key, the sequences of elements <<register, pattern length>> added
    HllMerges,       \* the sequences of keys merged
    HLL_REGISTERS,
    HLL_BITS,        \* bits of a dense register
    HllByte,         \* bits of a byte, 8 in the code
    ValMaxValue,     \* HLL_SPARSE_VAL_MAX_VALUE
    ValMaxLen,       \* HLL_SPARSE_VAL_MAX_LEN
    ZeroMaxLen,      \* HLL_SPARSE_ZERO_MAX_LEN
    XZeroMaxLen,     \* HLL_SPARSE_XZERO_MAX_LEN
    SparseMaxBytes   \* hll_sparse_max_bytes without the header

VARIABLES
    hll,       \* the strings
    hllref,    \* the registers the strings stand for
    hllright   \* whether the last command answered what the registers say, and was
               \* propagated if it changed a byte

hllVars == <<hll, hllref, hllright>>

HLL_REGISTER_MAX == 2^HLL_BITS - 1

\* card is <<0, 0>> while the bit in it says that it is stale: it is not read then.
NoHll == [encoding |-> "none", card |-> <<0, 0>>, valid |-> TRUE, ops |-> <<>>, bytes |-> <<>>]

HLL_INVALIDATE_CACHE(h) == [h EXCEPT !.valid = FALSE, !.card = <<0, 0>>]

Registers == 0..(HLL_REGISTERS - 1)

ZeroRegisters == [r \in Registers |-> 0]

-----------------------------------------------------------------------------
\* Dense registers: counters of HLL_BITS bits in bytes of HllByte, from the lowest bit
\* on.  Byte n is bytes[n + 1]; the last one is the terminator of the string.

DenseBytes == (HLL_REGISTERS * HLL_BITS + HllByte - 1) \div HllByte + 1

DENSE_GET(bytes, regnum) ==
    LET byte == (regnum * HLL_BITS) \div HllByte
        fb   == (regnum * HLL_BITS) % HllByte
    IN  ((bytes[byte + 1] \div 2^fb) + bytes[byte + 2] * 2^(HllByte - fb)) % 2^HLL_BITS

\* b with its bits under the mask (m * 2^k) replaced by those of v.
MaskedByte(b, m, v) ==
    LET Bit(x, i) == (x \div 2^i) % 2
    IN  FoldLeft(LAMBDA a, i : a + 2^(i - 1) * (IF Bit(m, i - 1) = 1 THEN Bit(v, i - 1) ELSE Bit(b, i - 1)),
                 0, [i \in 1..HllByte |-> i])

DENSE_SET(bytes, regnum, val) ==
    LET byte == (regnum * HLL_BITS) \div HllByte
        fb   == (regnum * HLL_BITS) % HllByte
        fb8  == HllByte - fb
    IN  [bytes EXCEPT
          ![byte + 1] = MaskedByte(@, HLL_REGISTER_MAX * 2^fb, val * 2^fb),
          ![byte + 2] = MaskedByte(@, HLL_REGISTER_MAX \div 2^fb8, val \div 2^fb8)]

hllDenseAdd(h, ele) ==
    IF ele[2] > DENSE_GET(h.bytes, ele[1])
    THEN [changed |-> TRUE, h |-> [h EXCEPT !.bytes = DENSE_SET(@, ele[1], ele[2])]]
    ELSE [changed |-> FALSE, h |-> h]

-----------------------------------------------------------------------------
\* Sparse registers: opcodes of one byte, XZERO of two.

ZERO(len)     == [op |-> "ZERO", len |-> ((len - 1) % ZeroMaxLen) + 1, val |-> 0]
XZERO(len)    == [op |-> "XZERO", len |-> ((len - 1) % XZeroMaxLen) + 1, val |-> 0]
VAL(val, len) == [op |-> "VAL", len |-> ((len - 1) % ValMaxLen) + 1, val |-> ((val - 1) % ValMaxValue) + 1]

OpBytes(o) == IF o.op = "XZERO" THEN 2 ELSE 1

SumOf(s, F(_)) == FoldLeft(LAMBDA a, o : a + F(o), 0, s)

SparseLen(ops) == SumOf(ops, OpBytes)

Covered(ops) == SumOf(ops, LAMBDA o : o.len)

\* The registers that the opcodes stand for.
Expanded(ops) ==
    LET runs == FoldLeft(LAMBDA a, o : a \o [i \in 1..o.len |-> o.val], <<>>, ops)
    IN  [r \in 0..(Len(runs) - 1) |-> runs[r + 1]]

createHLLObject ==
    LET n == (HLL_REGISTERS + XZeroMaxLen - 1) \div XZeroMaxLen
    IN  [NoHll EXCEPT !.encoding = "SPARSE",
            !.ops = [i \in 1..n |-> XZERO(IF i < n THEN XZeroMaxLen
                                          ELSE HLL_REGISTERS - (n - 1) * XZeroMaxLen)]]

\* The cached cardinality is copied; the opcodes of a valid string cover all registers.
hllSparseToDense(h) ==
    IF h.encoding = "DENSE" THEN h
    ELSE LET regs == Expanded(h.ops)
             Write(b, r) == IF regs[r - 1] = 0 THEN b ELSE DENSE_SET(b, r - 1, regs[r - 1])
         IN  [h EXCEPT !.encoding = "DENSE", !.ops = <<>>,
                  !.bytes = FoldLeft(Write, [b \in 1..DenseBytes |-> 0], [r \in 1..HLL_REGISTERS |-> r])]

\* Step 1: the opcode that covers the register, and the first register it covers.
Located(ops, index) ==
    LET i == CHOOSE i \in 1..Len(ops) :
                /\ index < Covered(SubSeq(ops, 1, i))
                /\ index >= Covered(SubSeq(ops, 1, i - 1))
    IN  [i |-> i, first |-> Covered(SubSeq(ops, 1, i - 1))]

ZeroRun(len) ==
    IF len = 0 THEN <<>> ELSE IF len > ZeroMaxLen THEN <<XZERO(len)>> ELSE <<ZERO(len)>>

ValRun(val, len) == IF len = 0 THEN <<>> ELSE <<VAL(val, len)>>

\* Cases B, C and D: what is written in place of opcode o, which begins at register first.
SplitOp(o, first, index, count) ==
    LET before == index - first
        after  == first + o.len - 1 - index
    IN  IF o.op = "VAL"
        THEN ValRun(o.val, before) \o <<VAL(count, 1)>> \o ValRun(o.val, after)
        ELSE ZeroRun(before) \o <<VAL(count, 1)>> \o ZeroRun(after)

\* Step 4: neighbours with the same value are joined, in at most five looks from the
\* opcode at i on.
JoinFrom(ops, i) ==
    LET Look(a, k) ==
            IF a.p > Len(a.ops) THEN a
            ELSE IF /\ a.ops[a.p].op = "VAL"
                    /\ a.p < Len(a.ops) /\ a.ops[a.p + 1].op = "VAL"
                    /\ a.ops[a.p].val = a.ops[a.p + 1].val
                    /\ a.ops[a.p].len + a.ops[a.p + 1].len <= ValMaxLen
            THEN [a EXCEPT !.ops = SubSeq(@, 1, a.p - 1)
                              \o <<VAL(@[a.p].val, @[a.p].len + @[a.p + 1].len)>>
                              \o SubSeq(@, a.p + 2, Len(@))]
            ELSE [a EXCEPT !.p = @ + 1]
    IN  FoldLeft(Look, [ops |-> ops, p |-> i], <<1, 2, 3, 4, 5>>).ops

Promote(h, ele) == hllDenseAdd(hllSparseToDense(h), ele)

\* Opcode l.i is replaced by seq, unless the string would grow too long.
Substitute(h, ele, l, seq) ==
    LET delta == SparseLen(seq) - OpBytes(h.ops[l.i])
    IN  IF delta > 0 /\ SparseLen(h.ops) + delta > SparseMaxBytes THEN Promote(h, ele)
        ELSE [changed |-> TRUE,
              h |-> [HLL_INVALIDATE_CACHE(h) EXCEPT
                       !.ops = JoinFrom(SubSeq(@, 1, l.i - 1) \o seq \o SubSeq(@, l.i + 1, Len(@)),
                                        IF l.i > 1 THEN l.i - 1 ELSE 1)]]

hllSparseAddAt(h, ele, l) ==
    LET o == h.ops[l.i]
    IN  IF o.op = "VAL" /\ o.val >= ele[2] THEN [changed |-> FALSE, h |-> h]
        ELSE Substitute(h, ele, l, SplitOp(o, l.first, ele[1], ele[2]))

hllSparseAdd(h, ele) ==
    IF ele[2] > ValMaxValue THEN Promote(h, ele)
    ELSE hllSparseAddAt(h, ele, Located(h.ops, ele[1]))

hllAdd(h, ele) == IF h.encoding = "DENSE" THEN hllDenseAdd(h, ele) ELSE hllSparseAdd(h, ele)

-----------------------------------------------------------------------------
\* Counting and merging.

Larger(a, b) == IF a > b THEN a ELSE b

hllMerge(max, h) ==
    CASE h.encoding = "none"   -> max
      [] h.encoding = "DENSE"  -> [r \in Registers |-> Larger(max[r], DENSE_GET(h.bytes, r))]
      [] h.encoding = "SPARSE" -> LET regs == Expanded(h.ops)
                                  IN  [r \in Registers |-> Larger(max[r], regs[r])]

\* The factor (m - ez) makes the estimate zero when no register is in use.
Estimate(ez, sum) == IF ez = HLL_REGISTERS THEN <<0, 0>> ELSE <<HLL_REGISTERS - ez, sum>>

Power(reg) == 2^(HLL_REGISTER_MAX - reg)

RegSum(regs) ==
    Estimate(Cardinality({r \in Registers : regs[r] = 0}),
             FoldLeft(LAMBDA a, r : a + Power(regs[r - 1]), 0, [r \in 1..HLL_REGISTERS |-> r]))

hllSparseSum(ops) ==
    Estimate(SumOf(ops, LAMBDA o : IF o.op = "VAL" THEN 0 ELSE o.len),
             SumOf(ops, LAMBDA o : o.len * Power(o.val)))

hllCount(h) ==
    IF h.encoding = "SPARSE" THEN hllSparseSum(h.ops)
    ELSE RegSum([r \in Registers |-> DENSE_GET(h.bytes, r)])

-----------------------------------------------------------------------------
\* Commands, on the strings of one server: what they become, whether the command counts
\* as a write (server.dirty) and the answer.

pfaddCommand(s, k, eles) ==
    LET new == s[k].encoding = "none"
        Add(a, e) == LET r == hllAdd(a.h, e) IN [h |-> r.h, updated |-> a.updated \/ r.changed]
        r == FoldLeft(Add, [h |-> IF new THEN createHLLObject ELSE s[k], updated |-> new], eles)
    IN  [s |-> [s EXCEPT ![k] = IF r.updated THEN HLL_INVALIDATE_CACHE(r.h) ELSE r.h],
         dirty |-> r.updated, reply |-> <<IF r.updated THEN 1 ELSE 0, 0>>]

\* PFCOUNT of one key answers from the cache, or fills it, which is a write.
pfcountCommand(s, k) ==
    LET h == s[k] IN
    CASE h.encoding = "none"              -> [s |-> s, dirty |-> FALSE, reply |-> <<0, 0>>]
      [] h.encoding # "none" /\ h.valid   -> [s |-> s, dirty |-> FALSE, reply |-> h.card]
      [] h.encoding # "none" /\ ~h.valid  ->
           [s |-> [s EXCEPT ![k].card = hllCount(h), ![k].valid = TRUE],
            dirty |-> TRUE, reply |-> hllCount(h)]

MaxRegisters(s, keys) == FoldLeft(LAMBDA max, k : hllMerge(max, s[k]), ZeroRegisters, keys)

pfcountKeys(s, keys) == [s |-> s, dirty |-> FALSE, reply |-> RegSum(MaxRegisters(s, keys))]

\* The destination is one of the keys merged; it always becomes dense.
pfmergeCommand(s, keys) ==
    LET dst   == s[keys[1]]
        max   == MaxRegisters(s, keys)
        dense == hllSparseToDense(IF dst.encoding = "none" THEN createHLLObject ELSE dst)
    IN  [s |-> [s EXCEPT ![keys[1]] =
                  [HLL_INVALIDATE_CACHE(dense) EXCEPT
                     !.bytes = FoldLeft(LAMBDA b, r : DENSE_SET(b, r - 1, max[r - 1]), @,
                                        [r \in 1..HLL_REGISTERS |-> r])]],
         dirty |-> TRUE, reply |-> <<0, 0>>]

\* What is sent to the slaves is the command, if it counts as a write.
HllDone(r, ref, expected) ==
    /\ hll' = r.s
    /\ hllref' = ref
    /\ hllright' = (r.reply = expected /\ (r.dirty \/ r.s = hll))

RefOf(k, eles) ==
    [r \in Registers |->
        FoldLeft(LAMBDA a, e : IF e[1] = r THEN Larger(a, e[2]) ELSE a, hllref[k][r], eles)]

PfAdd(k, eles) ==
    HllDone(pfaddCommand(hll, k, eles),
            [hllref EXCEPT ![k] = RefOf(k, eles)],
            <<IF hll[k].encoding = "none" \/ RefOf(k, eles) # hllref[k] THEN 1 ELSE 0, 0>>)

PfCount(k) ==
    HllDone(pfcountCommand(hll, k), hllref, RegSum(hllref[k]))

RefUnion(keys) == [r \in Registers |-> FoldLeft(LAMBDA a, k : Larger(a, hllref[k][r]), 0, keys)]

PfCountKeys(keys) ==
    HllDone(pfcountKeys(hll, keys), hllref, RegSum(RefUnion(keys)))

PfMerge(keys) ==
    HllDone(pfmergeCommand(hll, keys),
            [hllref EXCEPT ![keys[1]] = RefUnion(keys)], <<0, 0>>)

HllInit ==
    /\ hll = [k \in HllKeys |-> NoHll]
    /\ hllref = [k \in HllKeys |-> ZeroRegisters]
    /\ hllright = TRUE

HllNext ==
    \/ \E k \in HllKeys : \E eles \in HllAdds[k] : PfAdd(k, eles)
    \/ \E k \in HllKeys : PfCount(k)
    \/ \E keys \in HllMerges : PfCountKeys(keys) \/ PfMerge(keys)

\* Whatever its encoding, a string stands for the registers that the elements added to
\* it give, its cache if marked valid is their estimate, and nothing is written past the
\* last register; every answer is the one the registers give; and a command that
\* changes a byte is propagated, so that slaves have the same bytes.
HllExact ==
    /\ \A k \in HllKeys : hll[k].encoding # "none" =>
          /\ hll[k].encoding = "SPARSE" => Expanded(hll[k].ops) = hllref[k]
          /\ hll[k].encoding = "DENSE" =>
                /\ [r \in Registers |-> DENSE_GET(hll[k].bytes, r)] = hllref[k]
                /\ hll[k].bytes[DenseBytes] = 0
          /\ hll[k].valid => hll[k].card = RegSum(hllref[k])
    /\ hllright
   
=============================================================================
