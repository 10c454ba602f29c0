------------------------------ MODULE DictIter ------------------------------
(***************************************************************************)
(* A safe iterator of dict.c and the body of its loop.  The body may add,  *)
(* look up and overwrite any key, delete the entry it was just given, and  *)
(* shrink the table; the dict itself may start a rehash under it.          *)
(***************************************************************************)
EXTENDS Dict

VARIABLES
    iter,       \* the dictIterator, or NoIter
    returned,   \* keys it returned and that were not deleted since
    kept        \* keys stored at every moment since it was created

iterVars == <<vars, iter, returned, kept>>

NoIter == [table |-> 0, index |-> -1, pending |-> {}, current |-> {}]

-----------------------------------------------------------------------------

\* The buckets after the iterator's, in the order dictNext visits them: the
\* rest of its table, then the second table if there is a rehash by then.
\* A position is numbered so that table 1 comes after table 0.
Position(d, t, i) == t * d.ht[0].size + i

Buckets(d, ts) ==
    UNION {{<<t, i>> : i \in {j \in 0..(d.ht[t].size - 1) : d.ht[t].table[j] # {}}} : t \in ts}

\* Mutant: the current bucket is visited again.
Ahead_SameBucket(d, it) ==
    {p \in Buckets(d, IF dictIsRehashing(d) THEN 0..1 ELSE {0}) :
        p[1] > it.table \/ (p[1] = it.table /\ p[2] >= it.index)}

Ahead(d, it) ==
    {p \in Buckets(d, IF dictIsRehashing(d) THEN 0..1 ELSE {0}) :
        p[1] > it.table \/ (p[1] = it.table /\ p[2] > it.index)}

Nearest(d, it) ==
    {p \in Ahead(d, it) :
        \A q \in Ahead(d, it) : Position(d, p[1], p[2]) <= Position(d, q[1], q[2])}

\* Return key k of the keys in chain; the rest is what nextEntry leads to.
Return(t, i, chain, k) ==
    [table |-> t, index |-> i, pending |-> chain \ {k}, current |-> {k}]

\* The states of the iterator after dictNext(): one per entry that may head
\* the chain, none when dictNext() returns NULL.
dictNext(d, it) ==
    IF it.pending # {}
    THEN {Return(it.table, it.index, it.pending, k) : k \in it.pending}
    ELSE UNION {LET chain == KeysOf(d.ht[p[1]].table[p[2]])
                IN  {Return(p[1], p[2], chain, k) : k \in chain} : p \in Nearest(d, it)}

-----------------------------------------------------------------------------

IterInit == Init /\ iter = NoIter /\ returned = {} /\ kept = {}

Iterating == dict.iterators > 0

\* The first call raises d->iterators; dictGetSafeIterator did nothing else.
FirstNext ==
    /\ ~Iterating
    /\ StartSafeIterator
    /\ kept' = KeysOf(Contents(dict))
    /\ IF dictNext(dict, NoIter) = {}
       THEN iter' = NoIter
       ELSE iter' \in dictNext(dict, NoIter)
    /\ returned' = iter'.current

NextEntry ==
    /\ Iterating
    /\ iter' \in dictNext(dict, iter)
    /\ returned' = returned \cup iter'.current
    /\ UNCHANGED <<vars, kept>>

\* dictNext() returned NULL, or the caller breaks out of the loop.
Release ==
    /\ Iterating
    /\ dictReleaseIterator
    /\ iter' = NoIter
    /\ returned' = {}
    /\ kept' = {}

\* What the body of the loop, or a caller without iterator, does to the dict.
Body ==
    /\ \/ \E k \in Keys, v \in Vals : dictAdd(k, v) \/ dictReplace(k, v)
       \/ \E k \in iter.current : dictDelete(k)
       \/ dictFind
       \/ dictResize
       \/ ~Iterating /\ \E k \in Keys : dictDelete(k)
       \/ incrementallyRehash
       \/ updateDictResizePolicy
    /\ kept' = kept \cap KeysOf(Contents(dict'))
    /\ returned' = returned \cap KeysOf(Contents(dict'))
    /\ UNCHANGED iter

IterNext == FirstNext \/ Body \/ NextEntry \/ Release

IterSpec == IterInit /\ [][IterNext]_iterVars

-----------------------------------------------------------------------------

\* The pending part of a chain is still in the table: the entry nextEntry
\* points to was not freed, nor moved to the other table by a rehash.
NextEntryAlive ==
    Iterating /\ iter.pending # {} =>
        /\ iter.index < dict.ht[iter.table].size
        /\ iter.pending \subseteq KeysOf(dict.ht[iter.table].table[iter.index])

\* When dictNext() has nothing more to return, it has returned every key that
\* was there all the time, even if a rehash started under the iterator.
IterComplete ==
    Iterating /\ dictNext(dict, iter) = {} => kept \subseteq returned

\* What a safe iterator is for (dict.c: "it is safe to call dictAdd, dictFind, and
\* other functions against the dictionary even while iterating").
IterSound == NextEntryAlive /\ IterComplete

\* No key is returned twice, unless the body deleted it and added it again.
IterOnce ==
    [][Iterating /\ iter' # iter => iter'.current \cap returned = {}]_iterVars
=============================================================================
