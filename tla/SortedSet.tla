----------------------------- MODULE SortedSet -----------------------------
(***************************************************************************)
(* A sorted set object of t_zset.c in its two encodings: a ziplist of       *)
(* pairs in order, and a skiplist together with a dictionary.  A node of    *)
(* the skiplist has, on each of its levels, the next node and the number of *)
(* nodes it is ahead; ranks are sums of these spans.  Members are numbers   *)
(* in the order of their strings and name their nodes; infinite scores are  *)
(* the numbers ZInf and -ZInf, and adding the two is not a number.          *)
(***************************************************************************)
EXTENDS Integers, Sequences, FiniteSets, SequencesExt, TLC

CONSTANTS
    ZMembers,     \* a set of positive numbers
    ZScores,      \* the scores given and reached; bound of the model
    ZInf,
    ZMaxLevel,    \* ZSKIPLIST_MAXLEVEL
    ZMaxEntries,  \* zset-max-ziplist-entries
    ZLong         \* the members longer than zset-max-ziplist-value

VARIABLES zs, zsref   \* the object, and the score of every member

zsetVars == <<zs, zsref>>

HEADER == 0
NIL    == -1
NaN    == 3 * ZInf

AddScores(a, b) == CASE {a, b} = {ZInf, -ZInf} -> NaN
                     [] {a, b} # {ZInf, -ZInf} /\ {a, b} \cap {ZInf, -ZInf} # {} ->
                            IF ZInf \in {a, b} THEN ZInf ELSE -ZInf
                     [] OTHER -> a + b

\* The order of the set: by score, then by member.
Before(s, m, score, ele) == s < score \/ (s = score /\ m < ele)

-----------------------------------------------------------------------------
(* Skiplist. *)

zslCreate ==
    [level |-> 1, length |-> 0, tail |-> NIL,
     node |-> HEADER :> [score |-> 0, fwd |-> [i \in 1..ZMaxLevel |-> NIL],
                         span |-> [i \in 1..ZMaxLevel |-> 0], back |-> NIL]]

zslFirst(z) == z.node[HEADER].fwd[1]

\* From the top level down, on to the next node as long as Ahead(nodes passed, it).
\* up and rank are where each level was left and how many nodes lie before that.
Walk(z, Ahead(_, _)) ==
    LET Along(i, b, k) ==
            LET next == z.node[b.x].fwd[i]
                r    == b.r + z.node[b.x].span[i]
            IN  IF next # NIL /\ Ahead(r, next) THEN [x |-> next, r |-> r] ELSE b
        Descend(a, i) ==
            LET b == FoldLeft(LAMBDA c, k : Along(i, c, k), [x |-> a.x, r |-> a.r],
                              [k \in 1..z.length |-> k])
            IN  [x |-> b.x, r |-> b.r, up |-> (i :> b.x) @@ a.up, rank |-> (i :> b.r) @@ a.rank]
    IN  FoldLeft(Descend, [x |-> HEADER, r |-> 0, up |-> <<>>, rank |-> <<>>],
                 [k \in 1..z.level |-> z.level + 1 - k])

\* level is what zslRandomLevel() returned.
zslInsert(z, score, ele, level) ==
    LET w    == Walk(z, LAMBDA r, n : Before(z.node[n].score, n, score, ele))
        up   == [i \in 1..ZMaxLevel |-> IF i <= z.level THEN w.up[i] ELSE HEADER]
        gap  == [i \in 1..ZMaxLevel |-> IF i <= z.level THEN w.rank[1] - w.rank[i] ELSE w.rank[1]]
        Span(i) == IF i <= z.level THEN z.node[up[i]].span[i] ELSE z.length
        next == z.node[up[1]].fwd[1]
        new  == [score |-> score, fwd |-> [i \in 1..level |-> z.node[up[i]].fwd[i]],
                 span |-> [i \in 1..level |-> Span(i) - gap[i]],
                 back |-> IF up[1] = HEADER THEN NIL ELSE up[1]]
        top  == IF level > z.level THEN level ELSE z.level
        old  == [n \in DOMAIN z.node |->
                   [z.node[n] EXCEPT
                      !.fwd  = [i \in DOMAIN @ |-> IF i <= level /\ up[i] = n THEN ele ELSE @[i]],
                      !.span = [i \in DOMAIN @ |-> IF i > top \/ up[i] # n THEN @[i]
                                                   ELSE IF i <= level THEN gap[i] + 1 ELSE @[i] + 1],
                      !.back = IF n = next THEN ele ELSE @]]
    IN  [level |-> top, length |-> z.length + 1,
         tail |-> IF next = NIL THEN ele ELSE z.tail, node |-> (ele :> new) @@ old]

\* Mutant: a level that passes over the deleted node keeps its span.
zslDeleteNode_Span(z, x, up) ==
    LET d    == z.node[x]
        cut  == [n \in DOMAIN z.node \ {x} |->
                   [z.node[n] EXCEPT
                      !.fwd  = [i \in DOMAIN @ |-> IF @[i] = x THEN d.fwd[i] ELSE @[i]],
                      !.span = [i \in DOMAIN @ |->
                                  IF i <= z.level /\ up[i] = n /\ z.node[n].fwd[i] = x
                                  THEN @[i] + d.span[i] - 1 ELSE @[i]],
                      !.back = IF n = d.fwd[1] THEN d.back ELSE @]]
        used == {i \in 2..z.level : cut[HEADER].fwd[i] # NIL}
    IN  [level |-> CHOOSE i \in used \cup {1} : \A j \in used : j <= i,
         length |-> z.length - 1, tail |-> IF d.fwd[1] = NIL THEN d.back ELSE z.tail, node |-> cut]

\* up[i] is the last node before x on level i.
zslDeleteNode(z, x, up) ==
    LET d    == z.node[x]
        cut  == [n \in DOMAIN z.node \ {x} |->
                   [z.node[n] EXCEPT
                      !.fwd  = [i \in DOMAIN @ |-> IF @[i] = x THEN d.fwd[i] ELSE @[i]],
                      !.span = [i \in DOMAIN @ |->
                                  CASE i > z.level \/ up[i] # n -> @[i]
                                    [] i <= z.level /\ up[i] = n /\ z.node[n].fwd[i] = x -> @[i] + d.span[i] - 1
                                    [] OTHER -> @[i] - 1],
                      !.back = IF n = d.fwd[1] THEN d.back ELSE @]]
        used == {i \in 2..z.level : cut[HEADER].fwd[i] # NIL}
    IN  [level |-> CHOOSE i \in used \cup {1} : \A j \in used : j <= i,
         length |-> z.length - 1, tail |-> IF d.fwd[1] = NIL THEN d.back ELSE z.tail, node |-> cut]

\* Nothing is deleted if the node reached is not the one: the caller asserts it is.
zslDelete(z, score, ele) ==
    LET w == Walk(z, LAMBDA r, n : Before(z.node[n].score, n, score, ele))
        x == z.node[w.x].fwd[1]
    IN  IF x = ele /\ z.node[x].score = score THEN zslDeleteNode(z, x, w.up) ELSE z

zslValueGteMin(v, r) == IF r.minex THEN v > r.min ELSE v >= r.min
zslValueLteMax(v, r) == IF r.maxex THEN v < r.max ELSE v <= r.max

\* The same for members; the bounds - and + come before and after all of them.
zslLexValueGteMin(m, r) == IF r.minex THEN m > r.min ELSE m >= r.min
zslLexValueLteMax(m, r) == IF r.maxex THEN m < r.max ELSE m <= r.max

zslIsInRange(z, r) ==
    /\ ~(r.min > r.max \/ (r.min = r.max /\ (r.minex \/ r.maxex)))
    /\ z.tail # NIL /\ zslValueGteMin(z.node[z.tail].score, r)
    /\ zslFirst(z) # NIL /\ zslValueLteMax(z.node[zslFirst(z)].score, r)

\* sdscmplex() is compared with 1: only an empty range of one member is noticed.
zslIsInLexRange(z, r) ==
    /\ ~(r.min = r.max /\ (r.minex \/ r.maxex))
    /\ z.tail # NIL /\ zslLexValueGteMin(z.tail, r)
    /\ zslFirst(z) # NIL /\ zslLexValueLteMax(zslFirst(z), r)

zslFirstInRange(z, r) ==
    LET x == z.node[Walk(z, LAMBDA k, n : ~zslValueGteMin(z.node[n].score, r)).x].fwd[1]
    IN  IF zslIsInRange(z, r) /\ zslValueLteMax(z.node[x].score, r) THEN x ELSE NIL

zslLastInRange(z, r) ==
    LET x == Walk(z, LAMBDA k, n : zslValueLteMax(z.node[n].score, r)).x
    IN  IF zslIsInRange(z, r) /\ zslValueGteMin(z.node[x].score, r) THEN x ELSE NIL

zslFirstInLexRange(z, r) ==
    LET x == z.node[Walk(z, LAMBDA k, n : ~zslLexValueGteMin(n, r)).x].fwd[1]
    IN  IF zslIsInLexRange(z, r) /\ zslLexValueLteMax(x, r) THEN x ELSE NIL

zslLastInLexRange(z, r) ==
    LET x == Walk(z, LAMBDA k, n : zslLexValueLteMax(n, r)).x
    IN  IF zslIsInLexRange(z, r) /\ zslLexValueGteMin(x, r) THEN x ELSE NIL

\* Nodes are deleted from where the walk w ended, with its up, as long as Go(passed, it).
DeleteFrom(z, w, Go(_, _)) ==
    FoldLeft(LAMBDA a, k :
                 LET x == a.z.node[w.x].fwd[1]
                 IN  IF x # NIL /\ Go(w.r + k, x)
                     THEN [z |-> zslDeleteNode(a.z, x, w.up), gone |-> a.gone \cup {x}] ELSE a,
             [z |-> z, gone |-> {}], [k \in 1..z.length |-> k])

zslDeleteRangeByScore(z, r) ==
    DeleteFrom(z, Walk(z, LAMBDA k, n : IF r.minex THEN z.node[n].score <= r.min ELSE z.node[n].score < r.min),
               LAMBDA k, n : IF r.maxex THEN z.node[n].score < r.max ELSE z.node[n].score <= r.max)

zslDeleteRangeByLex(z, r) ==
    DeleteFrom(z, Walk(z, LAMBDA k, n : ~zslLexValueGteMin(n, r)), LAMBDA k, n : zslLexValueLteMax(n, r))

\* Ranks from 1 on.
zslDeleteRangeByRank(z, start, end) ==
    DeleteFrom(z, Walk(z, LAMBDA k, n : k < start), LAMBDA k, n : k <= end)

zslGetRank(z, score, ele) ==
    LET w == Walk(z, LAMBDA k, n : Before(z.node[n].score, n, score, ele) \/ (z.node[n].score = score /\ n = ele))
    IN  IF w.x = ele THEN w.r ELSE 0

zslGetElementByRank(z, rank) ==
    LET w == Walk(z, LAMBDA k, n : k <= rank) IN IF w.r = rank THEN w.x ELSE NIL

-----------------------------------------------------------------------------
(* Ziplist: the pairs [ele, score]; positions count from 1, 0 is NULL. *)

\* The first position of l where P holds, 0 if nowhere, and the last one.
FirstWhere(l, P(_)) == SelectInSeq(l, P)
LastWhere(l, P(_))  == SelectLastInSeq(l, P)

zzlFind(l, ele) == FirstWhere(l, LAMBDA e : e.ele = ele)

zzlDelete(l, i) == RemoveAt(l, i)

zzlInsert(l, ele, score) ==
    LET i == FirstWhere(l, LAMBDA e : Before(score, ele, e.score, e.ele))
    IN  InsertAt(l, IF i = 0 THEN Len(l) + 1 ELSE i, [ele |-> ele, score |-> score])

zzlIsInRange(l, r) ==
    /\ ~(r.min > r.max \/ (r.min = r.max /\ (r.minex \/ r.maxex)))
    /\ l # <<>> /\ zslValueGteMin(Last(l).score, r) /\ zslValueLteMax(Head(l).score, r)

zzlFirstInRange(l, r) ==
    LET i == FirstWhere(l, LAMBDA e : zslValueGteMin(e.score, r))
    IN  IF zzlIsInRange(l, r) /\ i # 0 THEN (IF zslValueLteMax(l[i].score, r) THEN i ELSE 0) ELSE 0

zzlLastInRange(l, r) ==
    LET i == LastWhere(l, LAMBDA e : zslValueLteMax(e.score, r))
    IN  IF zzlIsInRange(l, r) /\ i # 0 THEN (IF zslValueGteMin(l[i].score, r) THEN i ELSE 0) ELSE 0

zzlIsInLexRange(l, r) ==
    /\ ~(r.min = r.max /\ (r.minex \/ r.maxex))
    /\ l # <<>> /\ zslLexValueGteMin(Last(l).ele, r) /\ zslLexValueLteMax(Head(l).ele, r)

zzlFirstInLexRange(l, r) ==
    LET i == FirstWhere(l, LAMBDA e : zslLexValueGteMin(e.ele, r))
    IN  IF zzlIsInLexRange(l, r) /\ i # 0 THEN (IF zslLexValueLteMax(l[i].ele, r) THEN i ELSE 0) ELSE 0

zzlLastInLexRange(l, r) ==
    LET i == LastWhere(l, LAMBDA e : zslLexValueLteMax(e.ele, r))
    IN  IF zzlIsInLexRange(l, r) /\ i # 0 THEN (IF zslLexValueGteMin(l[i].ele, r) THEN i ELSE 0) ELSE 0

\* The pairs from i on are deleted as long as In holds.
CutFrom(l, i, In(_)) ==
    LET out == {j \in i..Len(l) : ~In(l[j])}
        end == IF out = {} THEN Len(l) + 1 ELSE CHOOSE j \in out : \A k \in out : j <= k
    IN  IF i = 0 THEN l ELSE SubSeq(l, 1, i - 1) \o SubSeq(l, end, Len(l))

zzlDeleteRangeByScore(l, r) == CutFrom(l, zzlFirstInRange(l, r), LAMBDA e : zslValueLteMax(e.score, r))

zzlDeleteRangeByLex(l, r) == CutFrom(l, zzlFirstInLexRange(l, r), LAMBDA e : zslLexValueLteMax(e.ele, r))

zzlDeleteRangeByRank(l, start, end) == SubSeq(l, 1, start - 1) \o SubSeq(l, end + 1, Len(l))

-----------------------------------------------------------------------------
(* The object. *)

ZiplistSet(l) == [enc |-> "ziplist", zl |-> l]

zsetLength(o) == IF o.enc = "ziplist" THEN Len(o.zl) ELSE o.zsl.length

\* To a skiplist, with the given level for every member, or back.
zsetConvert(o, enc, lv) ==
    LET Along(z) == FoldLeft(LAMBDA a, k : [x |-> z.node[a.x].fwd[1],
                                            l |-> Append(a.l, [ele |-> a.x, score |-> z.node[a.x].score])],
                             [x |-> zslFirst(z), l |-> <<>>], [k \in 1..z.length |-> k]).l
    IN  CASE o.enc = enc -> o
          [] o.enc # enc /\ enc = "skiplist" ->
                [enc |-> enc, dict |-> [m \in {e.ele : e \in ToSet(o.zl)} |-> o.zl[zzlFind(o.zl, m)].score],
                 zsl |-> FoldLeft(LAMBDA z, e : zslInsert(z, e.score, e.ele, lv[e.ele]), zslCreate, o.zl)]
          [] o.enc # enc /\ enc = "ziplist" -> ZiplistSet(Along(o.zsl))

zsetScore(o, m) ==
    IF o.enc = "ziplist" THEN (IF zzlFind(o.zl, m) = 0 THEN NIL ELSE o.zl[zzlFind(o.zl, m)].score)
    ELSE IF m \in DOMAIN o.dict THEN o.dict[m] ELSE NIL

Has(o, m) == IF o.enc = "ziplist" THEN zzlFind(o.zl, m) # 0 ELSE m \in DOMAIN o.dict

\* A member that is there and gets another score is taken out and put in again.
zsetAdd(o, score0, ele, flags, lv) ==
    LET cur   == zsetScore(o, ele)
        score == IF "incr" \in flags THEN AddScores(score0, cur) ELSE score0
        added == zzlInsert(o.zl, ele, score0)
        moved == zslInsert(zslDelete(o.zsl, cur, ele), score, ele, lv[ele])
    IN  CASE Has(o, ele) /\ ("nx" \in flags \/ score = NaN \/ score = cur) -> o
          [] Has(o, ele) /\ ~("nx" \in flags \/ score = NaN \/ score = cur) ->
                IF o.enc = "ziplist" THEN ZiplistSet(zzlInsert(zzlDelete(o.zl, zzlFind(o.zl, ele)), ele, score))
                ELSE [o EXCEPT !.zsl = moved, !.dict[ele] = score]
          [] ~Has(o, ele) /\ "xx" \in flags -> o
          [] ~Has(o, ele) /\ "xx" \notin flags ->
                IF o.enc = "ziplist"
                THEN IF Len(added) > ZMaxEntries \/ ele \in ZLong
                     THEN zsetConvert(ZiplistSet(added), "skiplist", lv) ELSE ZiplistSet(added)
                ELSE [o EXCEPT !.zsl = zslInsert(@, score0, ele, lv[ele]), !.dict = (ele :> score0) @@ @]

zsetDel(o, ele) ==
    IF o.enc = "ziplist" THEN IF Has(o, ele) THEN ZiplistSet(zzlDelete(o.zl, zzlFind(o.zl, ele))) ELSE o
    ELSE IF Has(o, ele)
         THEN [o EXCEPT !.zsl = zslDelete(@, o.dict[ele], ele), !.dict = [m \in DOMAIN @ \ {ele} |-> @[m]]]
         ELSE o

\* The rank from 0 on, NIL if the member is not there.
zsetRank(o, ele, reverse) ==
    LET rank == IF o.enc = "ziplist" THEN zzlFind(o.zl, ele) ELSE zslGetRank(o.zsl, o.dict[ele], ele)
    IN  IF ~Has(o, ele) THEN NIL ELSE IF reverse THEN zsetLength(o) - rank ELSE rank - 1

\* Indices as ZREMRANGEBYRANK and ZRANGE take them; negative ones count from the end.
Sanitize(llen, start, end) ==
    LET s == IF start < 0 THEN (IF llen + start < 0 THEN 0 ELSE llen + start) ELSE start
        e == IF end < 0 THEN llen + end ELSE IF end >= llen THEN llen - 1 ELSE end
    IN  [start |-> s, end |-> e, empty |-> s > e \/ s >= llen]

zremrangeGenericCommand(o, type, r) ==
    LET k   == Sanitize(zsetLength(o), r.min, r.max)
        del == CASE type = "rank"  -> zslDeleteRangeByRank(o.zsl, k.start + 1, k.end + 1)
                 [] type = "score" -> zslDeleteRangeByScore(o.zsl, r)
                 [] type = "lex"   -> zslDeleteRangeByLex(o.zsl, r)
    IN  IF type = "rank" /\ k.empty THEN o
        ELSE IF o.enc = "ziplist"
        THEN ZiplistSet(CASE type = "rank"  -> zzlDeleteRangeByRank(o.zl, k.start + 1, k.end + 1)
                          [] type = "score" -> zzlDeleteRangeByScore(o.zl, r)
                          [] type = "lex"   -> zzlDeleteRangeByLex(o.zl, r))
        ELSE [o EXCEPT !.zsl = del.z, !.dict = [m \in DOMAIN @ \ del.gone |-> @[m]]]

-----------------------------------------------------------------------------
(* Reads: the members in the order of the reply. *)

\* From a position or a node on, in one direction: n of the pairs after the first
\* offset, as long as In holds; n = -1 for all.
Listing(o, from, reverse, offset, n, In(_)) ==
    LET Next(x) == IF o.enc = "ziplist" THEN (IF reverse THEN x - 1 ELSE (x + 1) % (Len(o.zl) + 1))
                   ELSE IF reverse THEN o.zsl.node[x].back ELSE o.zsl.node[x].fwd[1]
        None(x) == x = NIL \/ (o.enc = "ziplist" /\ x = 0)
        Pair(x) == IF o.enc = "ziplist" THEN o.zl[x] ELSE [ele |-> x, score |-> o.zsl.node[x].score]
        Step(a, k) == CASE None(a.x) \/ a.done -> a
                        [] ~(None(a.x) \/ a.done) /\ k <= offset -> [a EXCEPT !.x = Next(@)]
                        [] OTHER -> IF Len(a.out) = n \/ ~In(Pair(a.x)) THEN [a EXCEPT !.done = TRUE]
                                    ELSE [a EXCEPT !.x = Next(@), !.out = Append(@, a.x)]
        r == FoldLeft(Step, [x |-> from, done |-> FALSE, out |-> <<>>],
                      [k \in 1..(offset + zsetLength(o)) |-> k]).out
    IN  [i \in DOMAIN r |-> Pair(r[i]).ele]

zrangeGenericCommand(o, start, end, reverse) ==
    LET k    == Sanitize(zsetLength(o), start, end)
        llen == zsetLength(o)
        from == CASE o.enc = "ziplist" -> IF reverse THEN llen - k.start ELSE k.start + 1
                  [] o.enc # "ziplist" /\ k.start = 0 -> IF reverse THEN o.zsl.tail ELSE zslFirst(o.zsl)
                  [] OTHER -> zslGetElementByRank(o.zsl, IF reverse THEN llen - k.start ELSE k.start + 1)
    IN  IF k.empty THEN <<>> ELSE Listing(o, from, reverse, 0, k.end - k.start + 1, LAMBDA e : TRUE)

genericZrangebyscoreCommand(o, r, reverse, offset, limit) ==
    LET from == CASE o.enc = "ziplist" /\ reverse  -> zzlLastInRange(o.zl, r)
                  [] o.enc = "ziplist" /\ ~reverse -> zzlFirstInRange(o.zl, r)
                  [] o.enc # "ziplist" /\ reverse  -> zslLastInRange(o.zsl, r)
                  [] o.enc # "ziplist" /\ ~reverse -> zslFirstInRange(o.zsl, r)
    IN  Listing(o, from, reverse, offset, limit,
                LAMBDA e : IF reverse THEN zslValueGteMin(e.score, r) ELSE zslValueLteMax(e.score, r))

genericZrangebylexCommand(o, r, reverse, offset, limit) ==
    LET from == CASE o.enc = "ziplist" /\ reverse  -> zzlLastInLexRange(o.zl, r)
                  [] o.enc = "ziplist" /\ ~reverse -> zzlFirstInLexRange(o.zl, r)
                  [] o.enc # "ziplist" /\ reverse  -> zslLastInLexRange(o.zsl, r)
                  [] o.enc # "ziplist" /\ ~reverse -> zslFirstInLexRange(o.zsl, r)
    IN  Listing(o, from, reverse, offset, limit,
                LAMBDA e : IF reverse THEN zslLexValueGteMin(e.ele, r) ELSE zslLexValueLteMax(e.ele, r))

\* The skiplist counts by the ranks of the first and the last node in the range.
CountBetween(o, first, last) ==
    LET rank(x) == zslGetRank(o.zsl, o.zsl.node[x].score, x)
    IN  IF first = NIL THEN 0
        ELSE (o.zsl.length - (rank(first) - 1)) - (IF last = NIL THEN 0 ELSE o.zsl.length - rank(last))

zcountCommand(o, r) ==
    IF o.enc = "ziplist" THEN Len(genericZrangebyscoreCommand(o, r, FALSE, 0, -1))
    ELSE CountBetween(o, zslFirstInRange(o.zsl, r), zslLastInRange(o.zsl, r))

zlexcountCommand(o, r) ==
    IF o.enc = "ziplist" THEN Len(genericZrangebylexCommand(o, r, FALSE, 0, -1))
    ELSE CountBetween(o, zslFirstInLexRange(o.zsl, r), zslLastInLexRange(o.zsl, r))

-----------------------------------------------------------------------------

ScoreRanges == [min : ZScores, max : ZScores, minex : BOOLEAN, maxex : BOOLEAN]
LexRanges   == [min : ZMembers \cup {0}, max : ZMembers \cup {Cardinality(ZMembers) + 1},
                minex : BOOLEAN, maxex : BOOLEAN]
RankRanges  == {[min |-> a, max |-> b] : a, b \in -2..2}

\* Lexicographical ranges are for sets whose members all have one score.
OneScore == \A m, n \in DOMAIN zsref : zsref[m] = zsref[n]

Sorted == SetToSortSeq(DOMAIN zsref, LAMBDA m, n : Before(zsref[m], m, zsref[n], n))

SortedSetInit == zs = ZiplistSet(<<>>) /\ zsref = <<>>

\* The set becomes empty: the key is deleted, and the next one starts as a ziplist.
Keep(o) == IF zsetLength(o) = 0 THEN ZiplistSet(<<>>) ELSE o

Without(gone) == [m \in DOMAIN zsref \ gone |-> zsref[m]]

Zadd(ele, score, flags, lv) ==
    LET new == IF ele \in DOMAIN zsref /\ "incr" \in flags THEN AddScores(score, zsref[ele]) ELSE score
        off == (ele \in DOMAIN zsref /\ "nx" \in flags) \/ (ele \notin DOMAIN zsref /\ "xx" \in flags)
    IN  /\ {"nx", "xx"} \cap flags # {"nx", "xx"} /\ (new = NaN \/ new \in ZScores)
        /\ zs' = zsetAdd(zs, score, ele, flags, lv)
        /\ zsref' = IF off \/ new = NaN THEN zsref ELSE (ele :> new) @@ zsref

Zrem(ele) ==
    /\ ele \in DOMAIN zsref
    /\ zs' = Keep(zsetDel(zs, ele))
    /\ zsref' = Without({ele})

Zremrange(type, r) ==
    LET i    == Sanitize(Len(Sorted), r.min, r.max)
        gone == CASE type = "rank"  -> {Sorted[k] : k \in (i.start + 1)..(i.end + 1)}
                  [] type = "score" -> {m \in DOMAIN zsref : zslValueGteMin(zsref[m], r) /\ zslValueLteMax(zsref[m], r)}
                  [] type = "lex"   -> {m \in DOMAIN zsref : zslLexValueGteMin(m, r) /\ zslLexValueLteMax(m, r)}
    IN  /\ zsref # <<>> /\ (type = "lex" => OneScore)
        /\ zs' = Keep(zremrangeGenericCommand(zs, type, r))
        /\ zsref' = IF type = "rank" /\ i.empty THEN zsref ELSE Without(gone)

\* GEORADIUS ... STORE and ZUNIONSTORE convert a result that is small.
zsetConvertToZiplistIfNeeded ==
    /\ zs.enc = "skiplist" /\ zs.zsl.length <= ZMaxEntries /\ DOMAIN zsref \cap ZLong = {}
    /\ zs' = zsetConvert(zs, "ziplist", <<>>)
    /\ UNCHANGED zsref

\* A conversion draws a level for every member, an insertion into a skiplist one.
Levels == IF zs.enc = "ziplist" THEN [ZMembers -> 1..ZMaxLevel]
          ELSE {[m \in ZMembers |-> l] : l \in 1..ZMaxLevel}

SortedSetNext ==
    \/ \E m \in ZMembers, s \in ZScores, f \in {{}, {"nx"}, {"xx"}, {"incr"}}, lv \in Levels : Zadd(m, s, f, lv)
    \/ \E m \in ZMembers : Zrem(m)
    \/ \E r \in RankRanges : Zremrange("rank", r)
    \/ \E r \in ScoreRanges : Zremrange("score", r)
    \/ \E r \in LexRanges : Zremrange("lex", r)
    \/ zsetConvertToZiplistIfNeeded

-----------------------------------------------------------------------------

\* The slice of a sequence with a start and an end as ZRANGE takes them.
Slice(s, start, end) ==
    LET k == Sanitize(Len(s), start, end) IN IF k.empty THEN <<>> ELSE SubSeq(s, k.start + 1, k.end + 1)

Limited(s, offset, limit) ==
    LET t == SubSeq(s, offset + 1, Len(s)) IN IF limit = -1 \/ limit > Len(t) THEN t ELSE SubSeq(t, 1, limit)

\* In either encoding, whatever was added, moved and deleted, every read gives what the
\* members and their scores say: scores and ranks, ranges by rank, by score and by
\* member, in both directions, with offsets and limits, and the counts.  They depend on
\* the spans, the backward pointers and the tail (zslInsert(), zslDeleteNode()).
SortedSetExact ==
    LET both == <<Sorted, Reverse(Sorted)>>
        Dir(rev) == both[IF rev THEN 2 ELSE 1]
    IN  /\ zsetLength(zs) = Cardinality(DOMAIN zsref)
        /\ \A m \in ZMembers : /\ Has(zs, m) <=> m \in DOMAIN zsref
                               /\ m \in DOMAIN zsref => zsetScore(zs, m) = zsref[m]
        /\ \A i \in DOMAIN Sorted : /\ zsetRank(zs, Sorted[i], FALSE) = i - 1
                                    /\ zsetRank(zs, Sorted[i], TRUE) = Len(Sorted) - i
        /\ \A r \in RankRanges, rev \in BOOLEAN :
              zrangeGenericCommand(zs, r.min, r.max, rev) = Slice(Dir(rev), r.min, r.max)
        /\ \A r \in ScoreRanges :
              LET In(m) == zslValueGteMin(zsref[m], r) /\ zslValueLteMax(zsref[m], r)
              IN  /\ zcountCommand(zs, r) = Cardinality({m \in DOMAIN zsref : In(m)})
                  /\ \A rev \in BOOLEAN, lim \in {<<0, -1>>, <<1, 1>>} :
                        genericZrangebyscoreCommand(zs, r, rev, lim[1], lim[2])
                          = Limited(SelectSeq(Dir(rev), In), lim[1], lim[2])
        /\ OneScore => \A r \in LexRanges :
              LET In(m) == zslLexValueGteMin(m, r) /\ zslLexValueLteMax(m, r)
              IN  /\ zlexcountCommand(zs, r) = Cardinality({m \in DOMAIN zsref : In(m)})
                  /\ \A rev \in BOOLEAN :
                        genericZrangebylexCommand(zs, r, rev, 0, -1) = SelectSeq(Dir(rev), In)
=============================================================================
