---------------------------- MODULE MCContainers ----------------------------
(***************************************************************************)
(* The containers of the data types and the strings, each on its own: one of them is        *)
(* chosen at the start and worked on.                                       *)
(***************************************************************************)
EXTENDS Ziplist, Quicklist, Intset, SortedSet, Rax, HyperLogLog, Bits, Sds

VARIABLE which

vars == <<which, zipVars, qlVars, intsetVars, zsetVars, raxVars, hllVars, bitVars, sdsVars>>

\* Lengths around which the length field of the next entry is widened, and numbers at
\* the limits of the encodings.
MCZipValues == {[text |-> "s", size |-> 2], [text |-> "m", size |-> 250], [text |-> "l", size |-> 251],
                [int |-> 12], [int |-> -129]}

\* With compression only the operations that leave no node decompressed behind them.
MCEnds == {"push", "pop", "rotate", "lset", "ltrim"}

MCQlSetups ==
    [plain      |-> [fill |-> 2, compress |-> 0, minCompress |-> 1,
                     ops |-> MCEnds \cup {"lindex", "lrange", "lrem", "linsert"}],
     compressed |-> [fill |-> 2, compress |-> 1, minCompress |-> 1, ops |-> MCEnds]]

\* Around the limits of one cell, -2..1, and of two, -8..7.
MCIntNumbers == {-9, -8, -3, -2, 0, 1, 2, 7, 8, 127}

MCZScores == {-9, 1, 9}

MCRaxKeys == {<<>>, <<1>>, <<1, 1>>, <<1, 1, 2>>, <<1, 2>>, <<1, 1, 2, 2>>, <<1, 1, 1>>, <<2, 1, 1>>, <<2>>}

\* The elements a PFADD may name, as the register and the run of zeros they hash to: one
\* after another they split, join and widen the opcodes; the run of 5 does not fit one.
MCHllAdds ==
    [one |-> {<<<<0, 1>>>>, <<<<1, 1>>>>, <<<<1, 2>>>>, <<<<2, 1>>>>, <<<<3, 1>>>>, <<<<3, 2>>>>,
              <<<<6, 1>>>>, <<<<2, 5>>>>, <<<<5, 1>>, <<4, 1>>>>},
     two |-> {<<<<3, 2>>>>}]

MCHllMerges == {<<"one", "two">>}

MCField(op, sign, width, offset, value, owtype) ==
    [op |-> op, sign |-> sign, width |-> width, offset |-> offset, i64 |-> value, owtype |-> owtype]

\* Fields within a byte and across two, with values at the limits of two and three bits
\* and beyond them; a command of two fields.
MCBitFields ==
    LET owtypes == {"WRAP", "SAT", "FAIL"}
        writes == {MCField(op, sign, width, offset, value, owtype) :
                       op \in {"SET", "INCRBY"}, sign \in BOOLEAN, width \in {2, 3}, offset \in {1, 3},
                       value \in {-4, 1, 7}, owtype \in owtypes}
        falls  == {MCField("INCRBY", sign, 3, 1, -8, owtype) : sign \in BOOLEAN, owtype \in owtypes}
        gets   == {MCField("GET", sign, width, offset, 0, "WRAP") :
                       sign \in BOOLEAN, width \in {1, 3}, offset \in {0, 3, 5, 6}}
        second == {MCField("INCRBY", FALSE, 3, 3, 7, "WRAP"), MCField("GET", TRUE, 3, 3, 0, "WRAP")}
    IN  {<<"a", <<f>>>> : f \in writes \cup falls \cup gets}
            \cup {<<"a", <<MCField("INCRBY", TRUE, 2, 1, 1, "FAIL"), f>>>> : f \in second}

MCBitSets == {<<"a", i>> : i \in 0..5} \cup {<<"b", 1>>}

MCBitOps == {<<"NOT", "a", <<"a">>>>}
                \cup {<<op, "a", s>> : op \in {"AND", "OR", "XOR"}, s \in {<<"a", "b">>, <<"b", "a", "b">>}}

\* Types that are outgrown by a few bytes.
MCSdsLimit == [t \in 0..4 |-> <<2, 3, 5, 9, 16>>[t + 1]]
MCSdsTexts == {<<>>, <<1>>, <<0>>, <<2, 1>>, <<1, 2, 2>>}
MCSdsPlaces == {-7, -2, -1, 0, 1, 3, 7}

Init ==
    /\ which \in {"ziplist", "quicklist", "intset", "sortedset", "rax", "hyperloglog", "bits", "sds"}
    /\ ZiplistInit /\ QuicklistInit /\ IntsetInit /\ SortedSetInit /\ RaxInit /\ HllInit /\ BitsInit
    /\ SdsInit
    /\ which # "quicklist" => qsetup = "plain"
    /\ which # "sds" => val = <<>>

Next ==
    \/ /\ which = "ziplist" /\ ZiplistNext
       /\ UNCHANGED <<which, qlVars, intsetVars, zsetVars, raxVars, hllVars, bitVars, sdsVars>>
    \/ /\ which = "quicklist" /\ QuicklistNext
       /\ UNCHANGED <<which, zipVars, intsetVars, zsetVars, raxVars, hllVars, bitVars, sdsVars>>
    \/ /\ which = "intset" /\ IntsetNext
       /\ UNCHANGED <<which, zipVars, qlVars, zsetVars, raxVars, hllVars, bitVars, sdsVars>>
    \/ /\ which = "sortedset" /\ SortedSetNext
       /\ UNCHANGED <<which, zipVars, qlVars, intsetVars, raxVars, hllVars, bitVars, sdsVars>>
    \/ /\ which = "rax" /\ RaxNext
       /\ UNCHANGED <<which, zipVars, qlVars, intsetVars, zsetVars, hllVars, bitVars, sdsVars>>
    \/ /\ which = "hyperloglog" /\ HllNext
       /\ UNCHANGED <<which, zipVars, qlVars, intsetVars, zsetVars, raxVars, bitVars, sdsVars>>
    \/ /\ which = "bits" /\ BitsNext
       /\ UNCHANGED <<which, zipVars, qlVars, intsetVars, zsetVars, raxVars, hllVars, sdsVars>>
    \/ /\ which = "sds" /\ SdsNext
       /\ UNCHANGED <<which, zipVars, qlVars, intsetVars, zsetVars, raxVars, hllVars, bitVars>>

Spec == Init /\ [][Next]_vars

-----------------------------------------------------------------------------

\* The compact containers hold, byte for byte and bit for bit, what was put into them: the
\* ziplist whose entries widen one another, the quicklist whose nodes are split, merged and
\* compressed, the intset that is widened in place, the registers of a HyperLogLog (sparse
\* or dense, with a cached cardinality that is never stale), and the bits, ranges of bits
\* and integers of BITFIELD.
CompactExact == ZiplistExact /\ QuicklistExact /\ IntsetExact /\ HllExact /\ BitsExact

\* The ordered containers answer every search, rank and range as the set of their
\* elements says: the skiplist with its spans and backward pointers (and the ziplist it
\* replaces), the radix tree whose nodes are split and joined.
OrderedExact == SortedSetExact /\ RaxExact
=============================================================================
