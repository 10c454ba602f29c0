-------------------------------- MODULE Rax --------------------------------
(***************************************************************************)
(* The radix tree of rax.c.  A node stands for the string on the way to it  *)
(* from the head, which names it here: nodes[p] = [iskey, val, compr, data].*)
(* The characters data lead to one child each, or, if the node is           *)
(* compressed, all together to a single child.  Allocation does not fail    *)
(* (zmalloc() stops the program instead).                                   *)
(***************************************************************************)
EXTENDS Integers, Sequences, FiniteSets, SequencesExt, TLC

CONSTANTS
    RaxKeys,      \* strings: sequences of numbers
    RaxValues,
    RaxMaxKeys    \* bound of the model

VARIABLES rax, raxref   \* [nodes, numele, numnodes], and the value of every key

raxVars == <<rax, raxref>>

NULL == "null"

raxNewNode(data) == [iskey |-> FALSE, val |-> NULL, compr |-> Len(data) > 1, data |-> data]

raxNew == [nodes |-> <<>> :> raxNewNode(<<>>), numele |-> 0, numnodes |-> 1]

raxSetData(n, v) == [n EXCEPT !.iskey = TRUE, !.val = v]

Child(t, p, k) == IF t.nodes[p].compr THEN p \o t.nodes[p].data ELSE Append(p, t.nodes[p].data[k])

From(s, i) == SubSeq(s, i, Len(s))

Common(a, b) ==   \* length of the longest common prefix
    CHOOSE k \in 0..Len(a) : /\ k <= Len(b) /\ SubSeq(a, 1, k) = SubSeq(b, 1, k)
                             /\ k = Len(a) \/ k = Len(b) \/ a[k + 1] # b[k + 1]

\* Where the walk along s stops: the node h, the i characters passed, and the place j
\* in a compressed node; stack holds the nodes passed.
raxLowWalk(t, s) ==
    LET Step(a, k) ==
            LET n == t.nodes[a.h]
                c == Common(n.data, From(s, a.i + 1))
                Down(i, h) == [h |-> h, i |-> i, j |-> 0, stack |-> Append(a.stack, a.h), stop |-> FALSE]
            IN  CASE a.stop \/ n.data = <<>> \/ a.i >= Len(s) -> [a EXCEPT !.stop = TRUE]
                  [] ~a.stop /\ n.data # <<>> /\ a.i < Len(s) /\ n.compr ->
                        IF c = Len(n.data) THEN Down(a.i + c, a.h \o n.data)
                        ELSE [a EXCEPT !.i = a.i + c, !.j = c, !.stop = TRUE]
                  [] OTHER -> IF Contains(n.data, s[a.i + 1]) THEN Down(a.i + 1, Append(a.h, s[a.i + 1]))
                              ELSE [a EXCEPT !.stop = TRUE]
    IN  FoldLeft(Step, [h |-> <<>>, i |-> 0, j |-> 0, stack |-> <<>>, stop |-> FALSE],
                 [k \in 1..(Len(s) + 1) |-> k])

\* The new child goes to its place in the order of the characters.
raxAddChild(t, h, c) ==
    LET before == SelectSeq(t.nodes[h].data, LAMBDA d : d < c)
        after  == SelectSeq(t.nodes[h].data, LAMBDA d : d > c)
    IN  [t EXCEPT !.nodes = (Append(h, c) :> raxNewNode(<<>>)) @@ [@ EXCEPT ![h].data = before \o <<c>> \o after],
                  !.numnodes = @ + 1]

\* A node without children becomes the whole chain of characters.
raxCompressNode(t, h, s) ==
    [t EXCEPT !.nodes = ((h \o s) :> raxNewNode(<<>>)) @@ [@ EXCEPT ![h].data = s, ![h].compr = TRUE],
              !.numnodes = @ + 1]

\* A compressed node is split at position j, where s has another character: what is
\* before it (if anything), a node for the character, what is after it (if anything).
SplitForKey(t, h, j) ==
    LET n       == t.nodes[h]
        trimmed == SubSeq(n.data, 1, j)
        split   == [raxNewNode(<<n.data[j + 1]>>) EXCEPT !.iskey = j = 0 /\ n.iskey,
                                                         !.val = IF j = 0 THEN n.val ELSE NULL]
        postfix == From(n.data, j + 2)
        top     == IF j = 0 THEN h :> split
                   ELSE h :> [n EXCEPT !.data = trimmed, !.compr = j > 1] @@ (h \o trimmed) :> split
        rest    == IF postfix = <<>> THEN <<>>
                   ELSE (h \o SubSeq(n.data, 1, j + 1)) :> raxNewNode(postfix)
    IN  [t EXCEPT !.nodes = top @@ rest @@ @,
                  !.numnodes = @ + (IF j > 0 THEN 1 ELSE 0) + (IF postfix # <<>> THEN 1 ELSE 0)]

\* The key ends within a compressed node: the second half gets it.
SplitAtKey(t, h, j, v) ==
    LET n == t.nodes[h]
    IN  [nodes |-> (h :> [n EXCEPT !.data = SubSeq(@, 1, j), !.compr = j > 1])
                   @@ (h \o SubSeq(n.data, 1, j)) :> raxSetData(raxNewNode(From(n.data, j + 1)), v)
                   @@ t.nodes,
         numele |-> t.numele + 1, numnodes |-> t.numnodes + 1]

MarkKey(t, h, v) ==
    [t EXCEPT !.nodes[h] = raxSetData(@, v), !.numele = IF t.nodes[h].iskey THEN @ ELSE @ + 1]

raxInsert(t, s, v) ==
    LET w     == raxLowWalk(t, s)
        n     == t.nodes[w.h]
        start == IF n.compr /\ w.i # Len(s)
                 THEN [t |-> SplitForKey(t, w.h, w.j), i |-> w.i] ELSE [t |-> t, i |-> w.i]
        \* the nodes still missing; the string passed is the node
        Extend(a, k) == LET h == SubSeq(s, 1, a.i)
                        IN  CASE a.i = Len(s) -> a
                              [] a.i < Len(s) /\ a.t.nodes[h].data = <<>> /\ Len(s) - a.i > 1 ->
                                    [t |-> raxCompressNode(a.t, h, From(s, a.i + 1)), i |-> Len(s)]
                              [] OTHER -> [t |-> raxAddChild(a.t, h, s[a.i + 1]), i |-> a.i + 1]
    IN  CASE w.i = Len(s) /\ (~n.compr \/ w.j = 0) -> MarkKey(t, w.h, v)
          [] w.i = Len(s) /\ n.compr /\ w.j # 0    -> SplitAtKey(t, w.h, w.j, v)
          [] OTHER -> MarkKey(FoldLeft(Extend, start, [k \in 1..Len(s) |-> k]).t, s, v)

\* raxNotFound is an empty sequence, a value a sequence of one.
raxFind(t, s) ==
    LET w == raxLowWalk(t, s)
        n == t.nodes[w.h]
    IN  IF w.i # Len(s) \/ (n.compr /\ w.j # 0) \/ ~n.iskey THEN <<>> ELSE <<n.val>>

raxRemoveChild(n, c) ==
    IF n.compr THEN [n EXCEPT !.compr = FALSE, !.data = <<>>]
    ELSE [n EXCEPT !.data = SelectSeq(@, LAMBDA d : d # c)]

\* Nodes of a chain: no keys, one child.
InChain(n) == ~n.iskey /\ (n.compr \/ Len(n.data) = 1)

\* The chain of nodes around h is replaced by one compressed node.
Recompress(t, h, stack) ==
    LET Up(a, k)   == IF a.stop \/ a.stack = <<>> \/ ~InChain(t.nodes[Last(a.stack)]) THEN [a EXCEPT !.stop = TRUE]
                      ELSE [h |-> Last(a.stack), stack |-> Front(a.stack), stop |-> FALSE]
        start      == FoldLeft(Up, [h |-> h, stack |-> stack, stop |-> FALSE], [k \in 1..(Len(stack) + 1) |-> k]).h
        Down(a, k) == LET c == Child(t, Last(a.path), Len(t.nodes[Last(a.path)].data))
                      IN  IF a.stop \/ t.nodes[Last(a.path)].data = <<>> THEN a
                          ELSE IF InChain(t.nodes[c]) THEN [a EXCEPT !.path = Append(@, c)] ELSE [a EXCEPT !.stop = TRUE]
        path       == FoldLeft(Down, [path |-> <<start>>, stop |-> FALSE], [k \in 1..t.numnodes |-> k]).path
        joined     == FlattenSeq([i \in DOMAIN path |-> t.nodes[path[i]].data])
    IN  IF Len(path) = 1 THEN t
        ELSE [t EXCEPT !.nodes = (start :> [raxNewNode(joined) EXCEPT !.compr = TRUE])
                                 @@ [p \in DOMAIN @ \ ToSet(path) |-> @[p]],
                       !.numnodes = @ + 1 - Len(path)]

\* A leaf goes with the chain that leads to it only.
raxRemove(t0, s) ==
    LET w == raxLowWalk(t0, s)
        n == t0.nodes[w.h]
        t == [t0 EXCEPT !.nodes[w.h].iskey = FALSE, !.nodes[w.h].val = NULL, !.numele = @ - 1]
        Free(a, k) ==
            IF a.stop \/ a.h = <<>> THEN a
            ELSE LET up == Last(a.stack)
                 IN  [t |-> [a.t EXCEPT !.nodes = [p \in DOMAIN @ \ {a.h} |-> @[p]], !.numnodes = @ - 1],
                      h |-> up, child |-> a.h, stack |-> Front(a.stack), stop |-> ~InChain(a.t.nodes[up])]
        f == FoldLeft(Free, [t |-> t, h |-> w.h, child |-> <<>>, stack |-> w.stack, stop |-> FALSE],
                      [k \in 1..(Len(s) + 1) |-> k])
        Unlinked(a) ==
            LET new == raxRemoveChild(a.t.nodes[a.h], IF a.child = <<>> THEN 0 ELSE a.child[Len(a.h) + 1])
            IN  [t |-> IF a.child = <<>> THEN t ELSE [a.t EXCEPT !.nodes[a.h] = new], h |-> a.h, stack |-> a.stack,
                 recompress |-> a.child # <<>> /\ Len(new.data) = 1 /\ ~new.iskey]
        Finish(r) == IF r.recompress THEN Recompress(r.t, r.h, r.stack) ELSE r.t
    IN  IF raxFind(t0, s) = <<>> THEN t0
        ELSE Finish(IF n.data = <<>> THEN Unlinked(f)
                    ELSE [t |-> t, h |-> w.h, stack |-> w.stack, recompress |-> Len(n.data) = 1])

-----------------------------------------------------------------------------
(* Iterators: [node, key, stack, eof, just]. *)

Descend(t, it, k) ==   \* into the k-th child
    LET n == t.nodes[it.node]
    IN  [it EXCEPT !.stack = Append(@, it.node), !.node = Child(t, it.node, k),
                   !.key = @ \o (IF n.compr THEN n.data ELSE <<n.data[k]>>)]

DelChars(t, it) == [it EXCEPT !.key = SubSeq(@, 1, Len(@) - (IF t.nodes[it.node].compr THEN Len(t.nodes[it.node].data) ELSE 1))]

\* Up to a node that has a child after (or before) the one the iterator comes from:
\* the iterator there and the child, 0 if there is none; noup: it is that node's already.
Ascend(t, it, noup, after) ==
    LET prev == Last(it.key)
        up   == DelChars(t, IF noup THEN it ELSE [it EXCEPT !.node = Last(it.stack), !.stack = Front(@)])
        n    == t.nodes[up.node]
        more == {k \in DOMAIN n.data : IF after THEN n.data[k] > prev ELSE n.data[k] < prev}
    IN  [it |-> up,
         child |-> IF n.compr \/ Len(n.data) <= (IF noup THEN 0 ELSE 1) \/ more = {} THEN 0
                   ELSE CHOOSE k \in more : \A l \in more : IF after THEN k <= l ELSE l <= k]

RECURSIVE GoNext(_, _, _, _)
GoNext(t, it, noup, orig) ==
    LET deep == Descend(t, it, 1)
    IN  IF ~noup /\ t.nodes[it.node].data # <<>>
        THEN IF t.nodes[deep.node].iskey THEN deep ELSE GoNext(t, deep, FALSE, orig)
        ELSE LET RECURSIVE Climb(_, _)
                 Climb(x, no) ==
                     LET b == Ascend(t, x, no, TRUE)
                         d == Descend(t, b.it, b.child)
                     IN  IF ~no /\ x.node = <<>> THEN [orig EXCEPT !.eof = TRUE]
                         ELSE IF b.child = 0 THEN Climb(b.it, FALSE)
                         ELSE IF t.nodes[d.node].iskey THEN d ELSE GoNext(t, d, FALSE, orig)
             IN  Climb(it, noup)

raxIteratorNextStep(t, it, noup) ==
    CASE it.eof -> it
      [] ~it.eof /\ it.just -> [it EXCEPT !.just = FALSE]
      [] OTHER -> GoNext(t, it, noup, it)

RECURSIVE raxSeekGreatest(_, _)
raxSeekGreatest(t, it) ==
    LET n == t.nodes[it.node]
    IN  IF n.data = <<>> THEN it ELSE raxSeekGreatest(t, Descend(t, it, Len(n.data)))

RECURSIVE GoPrev(_, _, _, _)
GoPrev(t, it, noup, orig) ==
    LET a    == Ascend(t, it, noup, FALSE)
        next == IF a.child = 0 THEN a.it ELSE raxSeekGreatest(t, Descend(t, a.it, a.child))
    IN  IF ~noup /\ it.node = <<>> THEN [orig EXCEPT !.eof = TRUE]
        ELSE IF t.nodes[next.node].iskey THEN next ELSE GoPrev(t, next, FALSE, orig)

raxIteratorPrevStep(t, it, noup) ==
    CASE it.eof -> it
      [] ~it.eof /\ it.just -> [it EXCEPT !.just = FALSE]
      [] OTHER -> GoPrev(t, it, noup, it)

raxIteratorStep(t, it, noup, forward) ==
    IF forward THEN raxIteratorNextStep(t, it, noup) ELSE raxIteratorPrevStep(t, it, noup)

\* op is one of ">", ">=", "<", "<=", "=", "^", "$".
raxSeek(t, op0, ele0) ==
    LET first == op0 = "^"
        ele   == IF first THEN <<>> ELSE ele0
        op    == IF first THEN ">=" ELSE op0
        gt    == op \in {">", ">="}
        lt    == op \in {"<", "<="}
        w     == raxLowWalk(t, ele)
        n     == t.nodes[w.h]
        none  == [node |-> <<>>, key |-> <<>>, stack |-> <<>>, eof |-> TRUE, just |-> TRUE]
        at    == [node |-> w.h, key |-> w.h, stack |-> w.stack, eof |-> FALSE, just |-> FALSE]
        ends  == [at EXCEPT !.key = @ \o n.data]
        \* The element is not there: where to step from, and whether without going up first.
        start == CASE w.i # Len(ele) /\ ~n.compr -> <<[at EXCEPT !.key = Append(@, ele[w.i + 1])], TRUE>>
                   [] w.i # Len(ele) /\ n.compr /\ (gt => n.data[w.j + 1] < ele[w.i + 1]) -> <<ends, TRUE>>
                   [] OTHER -> <<at, FALSE>>
        greatest == lt /\ w.i # Len(ele) /\ n.compr /\ n.data[w.j + 1] < ele[w.i + 1]
        moved == IF greatest THEN raxSeekGreatest(t, at) ELSE raxIteratorStep(t, start[1], start[2], gt)
    IN  CASE t.numele = 0 -> none
          [] t.numele # 0 /\ op = "$" -> [raxSeekGreatest(t, [at EXCEPT !.node = <<>>, !.key = <<>>, !.stack = <<>>])
                                            EXCEPT !.just = TRUE]
          [] t.numele # 0 /\ op \in {"=", ">=", "<="} /\ w.i = Len(ele) /\ (~n.compr \/ w.j = 0) /\ n.iskey ->
                [at EXCEPT !.just = TRUE]
          [] t.numele # 0 /\ op = "=" /\ ~(w.i = Len(ele) /\ (~n.compr \/ w.j = 0) /\ n.iskey) -> none
          [] OTHER -> [moved EXCEPT !.just = TRUE]

\* The keys that raxNext() or raxPrev() give until the end.
RECURSIVE Steps(_, _, _, _)
Steps(t, it, forward, out) ==
    LET next == raxIteratorStep(t, it, FALSE, forward)
    IN  IF next.eof THEN out ELSE Steps(t, next, forward, Append(out, next.key))

-----------------------------------------------------------------------------

RaxInit == rax = raxNew /\ raxref = <<>>

RaxInsert(s, v) ==
    /\ s \in DOMAIN raxref \/ Cardinality(DOMAIN raxref) < RaxMaxKeys
    /\ rax' = raxInsert(rax, s, v)
    /\ raxref' = (s :> v) @@ raxref

RaxRemove(s) ==
    /\ rax' = raxRemove(rax, s)
    /\ raxref' = [k \in DOMAIN raxref \ {s} |-> raxref[k]]

RaxNext == \E s \in RaxKeys : RaxRemove(s) \/ \E v \in RaxValues \cup {NULL} : RaxInsert(s, v)

-----------------------------------------------------------------------------

\* The order of strings; memcmp() on the common part, then the shorter first.
RECURSIVE Less(_, _)
Less(a, b) == CASE b = <<>> -> FALSE
                [] b # <<>> /\ a = <<>> -> TRUE
                [] OTHER -> Head(a) < Head(b) \/ (Head(a) = Head(b) /\ Less(Tail(a), Tail(b)))

\* A compressed node with a key in it, in the middle of which ele ends: seeking what
\* comes before ele passes over that key.
SkippedByPrev(ele) == LET w == raxLowWalk(rax, ele)
                      IN  w.i = Len(ele) /\ w.j # 0 /\ rax.nodes[w.h].iskey

\* After any sequence of insertions and removals, which split compressed nodes and join
\* them again, the tree finds exactly its keys with their values, its counters are
\* right, no node is a dead end, and an iterator set anywhere, by any operator, lists
\* the keys from there on in their order, forwards or backwards.
RaxExact ==
    LET sorted == SetToSortSeq(DOMAIN raxref, Less)
        rev    == Reverse(sorted)
        KeysFrom(op, s) ==
            CASE op \in {"^", "$"} -> DOMAIN raxref
              [] op \in {">", ">="} -> {k \in DOMAIN raxref : Less(s, k) \/ (k = s /\ op = ">=")}
              [] op \in {"<", "<="} -> {k \in DOMAIN raxref : Less(k, s) \/ (k = s /\ op = "<=")}
              [] op = "=" -> {k \in DOMAIN raxref : k = s}
        Forward(op) == op \in {"^", ">", ">=", "="}
        Found(it, op) == IF op = "=" THEN IF it.eof THEN <<>> ELSE <<it.key>> ELSE Steps(rax, it, Forward(op), <<>>)
    IN  /\ \A s \in RaxKeys : raxFind(rax, s) = IF s \in DOMAIN raxref THEN <<raxref[s]>> ELSE <<>>
        /\ rax.numele = Cardinality(DOMAIN raxref) /\ rax.numnodes = Cardinality(DOMAIN rax.nodes)
        /\ \A p \in DOMAIN rax.nodes : rax.nodes[p].data = <<>> /\ p # <<>> => rax.nodes[p].iskey
        /\ \A s \in RaxKeys, op \in {"^", ">", ">=", "=", "$", "<", "<="} :
              \/ op \in {"<", "<="} /\ SkippedByPrev(s)
              \/ Found(raxSeek(rax, op, s), op)
                    = SelectSeq(IF Forward(op) THEN sorted ELSE rev, LAMBDA k : k \in KeysFrom(op, s))
=============================================================================
