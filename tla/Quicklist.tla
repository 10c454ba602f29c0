----------------------------- MODULE Quicklist -----------------------------
(***************************************************************************)
(* The list of quicklist.c and the list commands of t_list.c that use it:  *)
(* a chain of nodes, each with a ziplist that is compressed (lzf) when the *)
(* node is far enough from the ends.  The code works on the ziplists of    *)
(* the first and the last node, and on those it has just decompressed, as  *)
(* they are; bad records that such a ziplist was compressed.  All values   *)
(* have one size: the limits on bytes and on the number of entries are the *)
(* same.                                                                   *)
(***************************************************************************)
EXTENDS Integers, Sequences, SequencesExt

CONSTANTS
    QlSetups,     \* by name: fill, compress (the depth), minCompress, ops (the commands)
    QlValues,
    QlMaxEntries  \* bound of the model

VARIABLES qsetup, ql, qref

qlVars == <<qsetup, ql, qref>>

Fill     == QlSetups[qsetup].fill
Compress == QlSetups[qsetup].compress

Node(vs) == [vs |-> vs, count |-> Len(vs), enc |-> "raw", re |-> FALSE]

NewQuicklist == [nodes |-> <<>>, len |-> 0, count |-> 0, bad |-> FALSE]

Bad(q, when) == [q EXCEPT !.bad = @ \/ when]

-----------------------------------------------------------------------------
(* Compression; node 0 is NULL. *)

\* A ziplist that is too small is not compressed, and recompress stays as it is.
quicklistCompressNode(q, i) ==
    IF i = 0 THEN q
    ELSE IF q.nodes[i].enc = "lzf" \/ Len(q.nodes[i].vs) < QlSetups[qsetup].minCompress THEN q
    ELSE [q EXCEPT !.nodes[i].enc = "lzf", !.nodes[i].re = FALSE]

quicklistDecompressNode(q, i) == [q EXCEPT !.nodes[i].enc = "raw"]

quicklistDecompressNodeForUse(q, i) ==
    IF q.nodes[i].enc = "lzf" THEN [q EXCEPT !.nodes[i].enc = "raw", !.nodes[i].re = TRUE] ELSE q

\* The nodes within the depth are decompressed, then the given node and those
\* just beyond the depth compressed.  len is not yet what the chain's length is.
quicklistCompressAround(q, node) ==
    LET n       == Len(q.nodes)
        Dec(a, d) == IF a.done THEN a
                     ELSE [q |-> quicklistDecompressNode(quicklistDecompressNode(a.q, d), n + 1 - d),
                           done |-> d = n + 1 - d]
        e       == FoldLeft(Dec, [q |-> q, done |-> FALSE], [d \in 1..Compress |-> d])
        inDepth == node \in (1..Compress) \cup ((n + 1 - Compress)..n)
        beyond  == IF Compress > 1 THEN <<Compress + 1, n - Compress>> ELSE <<>>
    IN  IF Compress = 0 \/ q.len < 2 * Compress \/ n = 0 THEN q
        ELSE FoldLeft(quicklistCompressNode, e.q,
                      IF e.done THEN <<>> ELSE IF inDepth THEN beyond ELSE <<node>> \o beyond)

quicklistCompress(q, i) ==
    IF q.nodes[i].re THEN quicklistCompressNode(q, i) ELSE quicklistCompressAround(q, i)

quicklistRecompressOnly(q, i) == IF q.nodes[i].re THEN quicklistCompressNode(q, i) ELSE q

-----------------------------------------------------------------------------
(* Nodes. *)

\* The new node goes to position i; the node it was put next to is old.
quicklistInsertNode(q, i, new, old) ==
    LET p == [q EXCEPT !.nodes = InsertAt(@, i, new)]
        c == IF old = 0 THEN p ELSE quicklistCompress(p, IF i <= old THEN old + 1 ELSE old)
    IN  [c EXCEPT !.len = @ + 1]

quicklistDelNode(q, i) ==
    LET c == quicklistCompressAround([q EXCEPT !.nodes = RemoveAt(@, i)], 0)
    IN  [c EXCEPT !.count = @ - q.nodes[i].count, !.len = @ - 1]

AllowInsert(q, i) == i \in DOMAIN q.nodes /\ q.nodes[i].count < Fill

AllowMerge(q, i, j) ==
    {i, j} \subseteq DOMAIN q.nodes /\ q.nodes[i].count + q.nodes[j].count <= Fill

\* The ziplist of node i gets other contents: it must not be a compressed one.
Store(q, i, vs) ==
    Bad([q EXCEPT !.nodes[i].vs = vs, !.nodes[i].count = Len(vs)], q.nodes[i].enc = "lzf")

\* The shorter ziplist is moved into the longer one, whose node stays.
quicklistZiplistMerge(q, a) ==
    LET x     == q.nodes[a]
        y     == q.nodes[a + 1]
        first == Len(x.vs) >= Len(y.vs)
        keep  == [IF first THEN x ELSE y EXCEPT
                     !.vs = x.vs \o y.vs, !.count = Len(x.vs) + Len(y.vs), !.enc = "raw"]
        w     == [q EXCEPT !.nodes[a]     = IF first THEN keep ELSE [x EXCEPT !.count = 0, !.enc = "raw"],
                           !.nodes[a + 1] = IF first THEN [y EXCEPT !.count = 0, !.enc = "raw"] ELSE keep]
        d     == quicklistDelNode(w, IF first THEN a + 1 ELSE a)
    IN  quicklistCompress(d, a)

\* Two neighbours before center, two after it, center and the one before, what became
\* of it and the one after are merged where they fit.
quicklistMergeNodes(q, center) ==
    LET Try(a, d) == IF AllowMerge(a.q, a.c + d, a.c + d + 1)
                     THEN [q |-> quicklistZiplistMerge(a.q, a.c + d), c |-> IF d < 0 THEN a.c - 1 ELSE a.c]
                     ELSE a
    IN  FoldLeft(Try, [q |-> q, c |-> center], <<-2, 1, -1, 0>>).q

-----------------------------------------------------------------------------
(* Operations. *)

quicklistPush(q, where, v) ==
    LET i == IF where = "head" THEN 1 ELSE Len(q.nodes)
        w == IF AllowInsert(q, i)
             THEN Store(q, i, IF where = "head" THEN <<v>> \o q.nodes[i].vs ELSE Append(q.nodes[i].vs, v))
             ELSE quicklistInsertNode(q, IF where = "head" THEN 1 ELSE i + 1, Node(<<v>>), i)
    IN  [IF q.nodes = <<>> THEN quicklistInsertNode(q, 1, Node(<<v>>), 0) ELSE w
            EXCEPT !.count = @ + 1]

\* gone: the node was deleted with its last entry.
quicklistDelIndex(q, i, off) ==
    LET w == Store(q, i, RemoveAt(q.nodes[i].vs, off + 1))
    IN  [q |-> [IF w.nodes[i].count = 0 THEN quicklistDelNode(w, i) ELSE w EXCEPT !.count = @ - 1],
         gone |-> w.nodes[i].count = 0]

quicklistPop(q, where) ==
    IF where = "head" THEN quicklistDelIndex(q, 1, 0).q
    ELSE quicklistDelIndex(q, Len(q.nodes), Len(Last(q.nodes).vs) - 1).q

\* The node and the place in it of the entry at idx, decompressed.
quicklistIndex(q, idx) ==
    LET before(i) == FoldLeft(LAMBDA n, m : n + m.count, 0, SubSeq(q.nodes, 1, i - 1))
        at == CHOOSE i \in DOMAIN q.nodes : before(i) <= idx /\ idx < before(i) + q.nodes[i].count
    IN  [q |-> quicklistDecompressNodeForUse(q, at), i |-> at, off |-> idx - before(at)]

quicklistReplaceAtIndex(q, idx, v) ==
    LET e == quicklistIndex(q, idx)
    IN  quicklistCompress(Store(e.q, e.i, [e.q.nodes[e.i].vs EXCEPT ![e.off + 1] = v]), e.i)

quicklistRotate(q) ==
    LET v == Last(Last(q.nodes).vs)
    IN  IF q.count <= 1 THEN q ELSE quicklistPop(Bad(quicklistPush(q, "head", v), Last(q.nodes).enc = "lzf"), "tail")

\* The new entry goes into the node, if it has room, into a neighbour, into a new
\* node next to full neighbours, or the node is split.  (Being at the tail is
\* never noticed: the offset is compared with the count.)
quicklistInsert(q, i, off, v, after) ==
    LET vs      == q.nodes[i].vs
        pos     == IF after THEN off + 1 ELSE off
        atHead  == ~after /\ off = 0
        u       == quicklistDecompressNodeForUse(q, i)
        prev    == quicklistDecompressNodeForUse(q, i - 1)
        kept    == IF after THEN SubSeq(vs, 1, pos) ELSE SubSeq(vs, pos + 1, Len(vs))
        moved   == IF after THEN <<v>> \o SubSeq(vs, pos + 1, Len(vs)) ELSE Append(SubSeq(vs, 1, pos), v)
        split   == quicklistInsertNode(Store(u, i, kept), IF after THEN i + 1 ELSE i, Node(moved), i)
        m       == quicklistMergeNodes(split, IF after THEN i ELSE i + 1)
        r       == CASE AllowInsert(q, i)
                          -> quicklistRecompressOnly(Store(u, i, InsertAt(vs, pos + 1, v)), i)
                     [] ~AllowInsert(q, i) /\ atHead /\ i > 1 /\ AllowInsert(q, i - 1)
                          -> quicklistRecompressOnly(Store(prev, i - 1, Append(q.nodes[i - 1].vs, v)), i - 1)
                     [] ~AllowInsert(q, i) /\ atHead /\ i > 1 /\ ~AllowInsert(q, i - 1)
                          -> quicklistInsertNode(q, i, Node(<<v>>), i)
                     [] OTHER -> m
    IN  [r EXCEPT !.count = @ + 1]

\* A range that starts at the head, or one that ends at the tail, as LTRIM asks for.  Of
\* one that starts inside of a node and ends in it the code would count more entries as
\* deleted than there are (quicklist.c:992).
quicklistDelRange(q, count, fromHead) ==
    LET n     == IF count > q.count THEN q.count ELSE count
        start == quicklistIndex(q, IF fromHead THEN 0 ELSE q.count - n)
        Step(a, k) ==
            LET node == a.q.nodes[a.i]
                del  == IF a.left >= node.count - a.off THEN node.count - a.off ELSE a.left
                u    == quicklistDecompressNodeForUse(a.q, a.i)
                vs   == SubSeq(node.vs, 1, a.off) \o SubSeq(node.vs, a.off + del + 1, Len(node.vs))
                w    == [Store(u, a.i, vs) EXCEPT !.count = @ - del]
            IN  IF a.left = 0 THEN a
                ELSE IF a.off = 0 /\ del = node.count
                THEN [q |-> quicklistDelNode(a.q, a.i), i |-> a.i, off |-> 0, left |-> a.left - del]
                ELSE [q |-> quicklistRecompressOnly(w, a.i), i |-> a.i + 1, off |-> 0, left |-> a.left - del]
    IN  IF n = 0 THEN q
        ELSE FoldLeft(Step, [q |-> start.q, i |-> start.i, off |-> start.off, left |-> n],
                      [k \in 1..Len(q.nodes) |-> k]).q

-----------------------------------------------------------------------------
(* Iterators: the state is the list, the node, the offset in it (from its end, *)
(* for one that goes backwards) and whether the loop of the command is over.   *)

quicklistNextNode(a, dir) ==
    LET q == quicklistCompress(a.q, a.i)
        i == IF dir = "head" THEN a.i + 1 ELSE a.i - 1
    IN  [a EXCEPT !.q = q, !.i = IF i \in DOMAIN q.nodes THEN i ELSE 0, !.off = 0]

Iterator(q, i, off) == [q |-> q, i |-> i, off |-> off, left |-> 0, done |-> FALSE]

\* Visit is applied to every entry, which it may delete, until it says so.
Iterate(a0, dir, Visit(_, _)) ==
    LET Step(a, k) ==
            IF a.done \/ a.i = 0 THEN a
            ELSE LET u == [a EXCEPT !.q = quicklistDecompressNodeForUse(a.q, a.i)]
                     n == Len(u.q.nodes[a.i].vs)
                 IN  IF a.off >= n THEN quicklistNextNode(u, dir)
                     ELSE Visit(u, IF dir = "head" THEN a.off ELSE n - 1 - a.off)
    IN  FoldLeft(Step, a0, [k \in 1..(a0.q.count + Len(a0.q.nodes) + 1) |-> k])

\* quicklistDelEntry: the offset stays, or the iterator goes to the next node.
DelEntry(a, off, dir) ==
    LET d == quicklistDelIndex(a.q, a.i, off)
        i == IF d.gone THEN (IF dir = "head" THEN a.i ELSE a.i - 1) ELSE a.i
    IN  [a EXCEPT !.q = d.q, !.i = IF i \in DOMAIN d.q.nodes THEN i ELSE 0,
                  !.off = IF d.gone THEN 0 ELSE @, !.left = @ - 1, !.done = a.left = 1]

\* LREM; count 0 removes all.
lremCommand(q, v, count, dir) ==
    LET Visit(a, off) == IF a.q.nodes[a.i].vs[off + 1] = v THEN DelEntry(a, off, dir)
                         ELSE [a EXCEPT !.off = @ + 1]
        start == quicklistIndex(q, IF dir = "head" THEN 0 ELSE q.count - 1)
    IN  Iterate([Iterator(start.q, start.i, 0) EXCEPT !.left = count], dir, Visit).q

linsertCommand(q, pivot, v, after) ==
    LET Visit(a, off) ==
            IF a.q.nodes[a.i].vs[off + 1] # pivot THEN [a EXCEPT !.off = @ + 1]
            ELSE LET r == quicklistInsert(a.q, a.i, off, v, after)
                 IN  [a EXCEPT !.q = r, !.done = TRUE]
    IN  Iterate(Iterator(quicklistIndex(q, 0).q, 1, 0), "head", Visit).q

\* LRANGE stops after n entries.
lrangeCommand(q, from, n) ==
    LET Visit(a, off) == [a EXCEPT !.off = @ + 1, !.left = @ - 1, !.done = a.left = 1]
        start == quicklistIndex(q, from)
    IN  Iterate([Iterator(start.q, start.i, start.off) EXCEPT !.left = n], "head", Visit).q

-----------------------------------------------------------------------------
(* The reference: the same operations on a sequence. *)

RemoveSome(s, v, n) ==   \* the first n occurrences, all if n is 0
    FoldLeft(LAMBDA a, x : IF x = v /\ (n = 0 \/ a.k < n) THEN [a EXCEPT !.k = @ + 1]
                           ELSE [a EXCEPT !.s = Append(@, x)],
             [k |-> 0, s |-> <<>>], s).s

QuicklistInit == qsetup \in DOMAIN QlSetups /\ ql = NewQuicklist /\ qref = <<>>

Allowed(op) == op \in QlSetups[qsetup].ops /\ ~ql.bad

Push(where, v) ==
    /\ Allowed("push") /\ Len(qref) < QlMaxEntries
    /\ ql' = quicklistPush(ql, where, v)
    /\ qref' = IF where = "head" THEN <<v>> \o qref ELSE Append(qref, v)
    /\ UNCHANGED qsetup

Pop(where) ==
    /\ Allowed("pop") /\ qref # <<>>
    /\ ql' = quicklistPop(ql, where)
    /\ qref' = IF where = "head" THEN Tail(qref) ELSE Front(qref)
    /\ UNCHANGED qsetup

Rotate ==
    /\ Allowed("rotate") /\ qref # <<>>
    /\ ql' = quicklistRotate(ql)
    /\ qref' = <<Last(qref)>> \o Front(qref)
    /\ UNCHANGED qsetup

Lset(idx, v) ==
    /\ Allowed("lset") /\ idx < Len(qref)
    /\ ql' = quicklistReplaceAtIndex(ql, idx, v)
    /\ qref' = [qref EXCEPT ![idx + 1] = v]
    /\ UNCHANGED qsetup

\* The node stays decompressed.
Lindex(idx) ==
    /\ Allowed("lindex") /\ idx < Len(qref)
    /\ ql' = quicklistIndex(ql, idx).q
    /\ UNCHANGED <<qsetup, qref>>

Lrange(from, n) ==
    /\ Allowed("lrange") /\ from + n <= Len(qref)
    /\ ql' = lrangeCommand(ql, from, n)
    /\ UNCHANGED <<qsetup, qref>>

Lrem(v, count, dir) ==
    /\ Allowed("lrem") /\ qref # <<>>
    /\ ql' = lremCommand(ql, v, count, dir)
    /\ qref' = IF dir = "head" THEN RemoveSome(qref, v, count)
               ELSE Reverse(RemoveSome(Reverse(qref), v, count))
    /\ UNCHANGED qsetup

Linsert(pivot, v, after) ==
    /\ Allowed("linsert") /\ qref # <<>> /\ Len(qref) < QlMaxEntries
    /\ ql' = linsertCommand(ql, pivot, v, after)
    /\ qref' = IF Contains(qref, pivot)
               THEN LET i == CHOOSE j \in DOMAIN qref : qref[j] = pivot /\ \A k \in 1..(j - 1) : qref[k] # pivot
                    IN  InsertAt(qref, IF after THEN i + 1 ELSE i, v)
               ELSE qref
    /\ UNCHANGED qsetup

\* ltrim entries go at the head, then rtrim at the tail.
Ltrim(ltrim, rtrim) ==
    /\ Allowed("ltrim") /\ ltrim + rtrim <= Len(qref) /\ qref # <<>>
    /\ ql' = quicklistDelRange(quicklistDelRange(ql, ltrim, TRUE), rtrim, FALSE)
    /\ qref' = SubSeq(qref, ltrim + 1, Len(qref) - rtrim)
    /\ UNCHANGED qsetup

QuicklistNext ==
    \/ \E w \in {"head", "tail"} : Pop(w) \/ \E v \in QlValues : Push(w, v)
    \/ Rotate
    \/ \E i \in 0..(QlMaxEntries - 1) : Lindex(i) \/ \E v \in QlValues : Lset(i, v)
    \/ \E i \in 0..(QlMaxEntries - 1), n \in 1..QlMaxEntries : Lrange(i, n)
    \/ \E v \in QlValues, n \in 0..1, d \in {"head", "tail"} : Lrem(v, n, d)
    \/ \E p, v \in QlValues, a \in BOOLEAN : Linsert(p, v, a)
    \/ \E l, r \in 0..QlMaxEntries : Ltrim(l, r)

-----------------------------------------------------------------------------

\* The nodes hold the list that the commands describe, no node is empty or has more
\* entries than the fill factor allows, the counts and the number of nodes agree,
\* and no ziplist that is compressed, no node that is gone, is worked on.
QuicklistExact ==
    /\ ~ql.bad
    /\ FlattenSeq([i \in DOMAIN ql.nodes |-> ql.nodes[i].vs]) = qref
    /\ ql.count = Len(qref) /\ ql.len = Len(ql.nodes)
    /\ \A i \in DOMAIN ql.nodes : ql.nodes[i].count = Len(ql.nodes[i].vs)
                                  /\ ql.nodes[i].count \in 1..Fill
    /\ ql.nodes # <<>> => ql.nodes[1].enc = "raw" /\ Last(ql.nodes).enc = "raw"
=============================================================================
