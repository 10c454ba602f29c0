-------------------------------- MODULE Dict --------------------------------
(***************************************************************************)
(* The hash table of dict.c: two tables, of which the second exists only   *)
(* while the first is being rehashed into it, one bucket at a time, by the *)
(* lookups and updates themselves and by serverCron().                     *)
(*                                                                         *)
(* A bucket is the set of the entries of its chain: the order inside a     *)
(* chain is visible only to iterators, which never depend on it.           *)
(***************************************************************************)
EXTENDS Integers, FiniteSets

CONSTANTS
    Keys, Vals,     \* what callers store
    Hash,           \* the hash function, Keys -> Nat
    InitialSize,    \* DICT_HT_INITIAL_SIZE
    MaxDoublings,   \* bound on the doublings of the initial size
    ForceRatio,     \* dict_force_resize_ratio
    MinFill,        \* HASHTABLE_MIN_FILL, a percentage
    EmptyVisits,    \* empty buckets visited per bucket to move
    CronBatch,      \* buckets moved by one dictRehash() call of the cron
    MaxIterators    \* bound on the safe iterators alive together

VARIABLES
    dict,               \* the struct dict
    dict_can_resize     \* cleared while a child process is saving

vars == <<dict, dict_can_resize>>

Entry == [key : Keys, val : Vals]

Sizes == {InitialSize * 2^i : i \in 0..MaxDoublings}

\* The smallest table size that holds n, as a set of at most one size.
NextPower(n) == {s \in Sizes : s >= n /\ \A t \in Sizes : t >= n => s <= t}

ASSUME DictAssumption ==
    /\ IsFiniteSet(Keys)
    /\ Hash \in [Keys -> Nat]
    /\ Sizes \subseteq Nat \ {0}
    /\ InitialSize \in Sizes
    /\ ForceRatio \in Nat /\ MinFill \in Nat
    /\ EmptyVisits \in Nat \ {0} /\ CronBatch \in Nat \ {0}
    /\ MaxIterators \in Nat

-----------------------------------------------------------------------------
(* The two tables. *)

NewTable(n) == [size |-> n, used |-> 0, table |-> [i \in 0..(n - 1) |-> {}]]

EmptyDict == [ht        |-> [t \in 0..1 |-> NewTable(0)],
              rehashidx |-> -1,
              iterators |-> 0]

dictIsRehashing(d) == d.rehashidx # -1
dictSize(d) == d.ht[0].used + d.ht[1].used

\* The chain of table t that holds a key hashing to h; a NULL table has none.
Chain(t, h) == IF t.size = 0 THEN {} ELSE t.table[h % t.size]

Found(t, k) == {e \in Chain(t, Hash[k]) : e.key = k}

\* Mutant: the second table is never searched.
Lookup_FirstTableOnly(d, k) == Found(d.ht[0], k)

\* The lookup loop shared by dictFind, dictGenericDelete and _dictKeyIndex:
\* the second table is searched only while rehashing.
Lookup(d, k) ==
    IF Found(d.ht[0], k) # {} \/ ~dictIsRehashing(d)
    THEN Found(d.ht[0], k)
    ELSE Found(d.ht[1], k)

\* Which table Lookup found k in.
WhichTable(d, k) == IF Found(d.ht[0], k) # {} THEN 0 ELSE 1

\* d with table t replaced by T.
WithTable(d, t, T) == [d EXCEPT !.ht = [u \in 0..1 |-> IF u = t THEN T ELSE d.ht[u]]]

\* Replace the chain of k in table t by chain c, with n more entries.
SetChain(d, t, k, c, n) ==
    WithTable(d, t, [size  |-> d.ht[t].size,
                     used  |-> d.ht[t].used + n,
                     table |-> [d.ht[t].table EXCEPT ![Hash[k] % d.ht[t].size] = c]])

-----------------------------------------------------------------------------
(* Incremental rehashing. *)

\* Buckets i..e-1 of table 0 have been visited; the non-empty ones moved.
Visited(d, e) == d.rehashidx..(e - 1)
NonEmpty(d, e) == {i \in Visited(d, e) : d.ht[0].table[i] # {}}
Moved(d, e) == UNION {d.ht[0].table[i] : i \in Visited(d, e)}

\* The loop of dictRehash(d, n) may stop before bucket e: n buckets moved, n
\* times EmptyVisits empty ones seen, or nothing left in table 0.
StopsBefore(d, n, e) ==
    \/ Cardinality(NonEmpty(d, e)) = n
    \/ e - d.rehashidx - Cardinality(NonEmpty(d, e)) = n * EmptyVisits
    \/ \A i \in e..(d.ht[0].size - 1) : d.ht[0].table[i] = {}

Stop(d, n) ==
    {e \in d.rehashidx..d.ht[0].size :
        /\ StopsBefore(d, n, e)
        /\ \A f \in d.rehashidx..(e - 1) : ~StopsBefore(d, n, f)}

Emptied(d, e) ==
    [size  |-> d.ht[0].size,
     used  |-> d.ht[0].used - Cardinality(Moved(d, e)),
     table |-> [i \in 0..(d.ht[0].size - 1) |->
                   IF i \in Visited(d, e) THEN {} ELSE d.ht[0].table[i]]]

Filled(d, e) ==
    [size  |-> d.ht[1].size,
     used  |-> d.ht[1].used + Cardinality(Moved(d, e)),
     table |-> [i \in 0..(d.ht[1].size - 1) |->
                   d.ht[1].table[i] \cup
                       {x \in Moved(d, e) : Hash[x.key] % d.ht[1].size = i}]]

\* Mutant: the tables are never swapped.
MoveBuckets_NeverDone(d, e) ==
    [d EXCEPT !.ht = [t \in 0..1 |-> IF t = 0 THEN Emptied(d, e) ELSE Filled(d, e)],
              !.rehashidx = e]

\* Move the buckets before e; when table 0 is left empty, table 1 takes over.
MoveBuckets(d, e) ==
    IF Emptied(d, e).used = 0
    THEN [d EXCEPT !.ht = [t \in 0..1 |-> IF t = 0 THEN Filled(d, e) ELSE NewTable(0)],
                   !.rehashidx = -1]
    ELSE [d EXCEPT !.ht = [t \in 0..1 |-> IF t = 0 THEN Emptied(d, e) ELSE Filled(d, e)],
                   !.rehashidx = e]

\* The dict after dictRehash(d, n), as a set of one.
dictRehash(d, n) ==
    IF dictIsRehashing(d) THEN {MoveBuckets(d, e) : e \in Stop(d, n)} ELSE {d}

\* Mutant: rehashing goes on under a safe iterator.
dictRehashStep_IgnoresIterators(d) == dictRehash(d, 1)

dictRehashStep(d) == IF d.iterators = 0 THEN dictRehash(d, 1) ELSE {d}

-----------------------------------------------------------------------------
(* Growing and shrinking. *)

\* dictExpand returns DICT_ERR and leaves d alone, or installs a new table.
ExpandFails(d, n, realsize) ==
    dictIsRehashing(d) \/ d.ht[0].used > n \/ realsize = d.ht[0].size

\* Mutant: the new table replaces the old one at once.
dictExpand_DropsTable(d, n) ==
    {IF ExpandFails(d, n, realsize) THEN d ELSE WithTable(d, 0, NewTable(realsize))
     : realsize \in NextPower(n)}

dictExpand(d, n) ==
    {IF ExpandFails(d, n, realsize) THEN d
     ELSE IF d.ht[0].size = 0 THEN WithTable(d, 0, NewTable(realsize))
     ELSE [WithTable(d, 1, NewTable(realsize)) EXCEPT !.rehashidx = 0]
     : realsize \in NextPower(n)}

\* Mutant: asks for a larger table in the middle of a rehash.
WantedSize_WhileRehashing(d) ==
    IF d.ht[0].size = 0 THEN InitialSize
    ELSE IF d.ht[0].used >= d.ht[0].size /\ dict_can_resize THEN 2 * d.ht[0].used
    ELSE 0

\* The size _dictExpandIfNeeded asks for, or 0 when it asks for none.
WantedSize(d) ==
    IF dictIsRehashing(d) THEN 0
    ELSE IF d.ht[0].size = 0 THEN InitialSize
    ELSE IF /\ d.ht[0].used >= d.ht[0].size
            /\ \/ dict_can_resize
               \/ d.ht[0].used \div d.ht[0].size > ForceRatio
         THEN 2 * d.ht[0].used
    ELSE 0

dictExpandIfNeeded(d) ==
    IF WantedSize(d) = 0 THEN {d} ELSE dictExpand(d, WantedSize(d))

htNeedsResize(d) ==
    LET slots == d.ht[0].size + d.ht[1].size
    IN  /\ slots > InitialSize
        /\ (dictSize(d) * 100) \div slots < MinFill

-----------------------------------------------------------------------------
(* The operations. *)

Init == dict = EmptyDict /\ dict_can_resize = TRUE

\* Mutant: new keys enter table 0 even during a rehash.
Insert_FirstTable(d, k, v) ==
    SetChain(d, 0, k, Chain(d.ht[0], Hash[k]) \cup {[key |-> k, val |-> v]}, 1)

\* New keys enter the rehashing target as soon as there is one.
Insert(d, k, v) ==
    LET t == IF dictIsRehashing(d) THEN 1 ELSE 0
    IN  SetChain(d, t, k, Chain(d.ht[t], Hash[k]) \cup {[key |-> k, val |-> v]}, 1)

Overwrite(d, k, v) ==
    LET t == WhichTable(d, k)
    IN  SetChain(d, t, k, (Chain(d.ht[t], Hash[k]) \ Found(d.ht[t], k))
                              \cup {[key |-> k, val |-> v]}, 0)

Remove(d, k) ==
    LET t == WhichTable(d, k)
    IN  SetChain(d, t, k, Chain(d.ht[t], Hash[k]) \ Found(d.ht[t], k), -1)

\* dictAddRaw up to the lookup: one step of rehashing, then the table grows.
BeforeAdd(d) == UNION {dictExpandIfNeeded(d1) : d1 \in dictRehashStep(d)}

dictAdd(k, v) ==
    /\ \E d \in BeforeAdd(dict) :
          dict' = IF Lookup(d, k) = {} THEN Insert(d, k, v) ELSE d
    /\ UNCHANGED dict_can_resize

dictReplace(k, v) ==
    /\ \E d \in BeforeAdd(dict) :
          dict' = IF Lookup(d, k) = {} THEN Insert(d, k, v) ELSE Overwrite(d, k, v)
    /\ UNCHANGED dict_can_resize

\* dictDelete and dictUnlink: an empty dict returns before any rehashing.
dictDelete(k) ==
    /\ dictSize(dict) # 0
    /\ \E d \in dictRehashStep(dict) :
          dict' = IF Lookup(d, k) = {} THEN d ELSE Remove(d, k)
    /\ UNCHANGED dict_can_resize

\* dictFind, dictFetchValue and dictGetRandomKey change nothing but the
\* progress of the rehashing.
dictFind ==
    /\ dictSize(dict) # 0
    /\ dict' \in dictRehashStep(dict)
    /\ UNCHANGED dict_can_resize

\* dictEmpty is never called by the body of an iteration.
dictEmpty ==
    /\ dict.iterators = 0
    /\ dict' = EmptyDict
    /\ UNCHANGED dict_can_resize

\* dictResize, called where htNeedsResize() says so: by serverCron, and by
\* the set, hash and sorted set types after a deletion.
dictResize ==
    /\ htNeedsResize(dict)
    /\ dict_can_resize /\ ~dictIsRehashing(dict)
    /\ \E n \in {IF dict.ht[0].used < InitialSize THEN InitialSize ELSE dict.ht[0].used} :
          dict' \in dictExpand(dict, n)
    /\ UNCHANGED dict_can_resize

\* serverCron moves buckets by the hundred, unless a child is saving.  It
\* never runs inside an iteration: iterators live within one event handler.
incrementallyRehash ==
    /\ dict.iterators = 0
    /\ dict_can_resize
    /\ dictIsRehashing(dict)
    /\ dict' \in dictRehash(dict, CronBatch)
    /\ UNCHANGED dict_can_resize

\* A saving child starts or ends.
updateDictResizePolicy ==
    /\ dict.iterators = 0
    /\ dict_can_resize' = ~dict_can_resize
    /\ UNCHANGED dict

\* The first dictNext() of a safe iterator, and dictReleaseIterator().
StartSafeIterator ==
    /\ dict.iterators < MaxIterators
    /\ dict' = [dict EXCEPT !.iterators = @ + 1]
    /\ UNCHANGED dict_can_resize

dictReleaseIterator ==
    /\ dict.iterators > 0
    /\ dict' = [dict EXCEPT !.iterators = @ - 1]
    /\ UNCHANGED dict_can_resize

Next ==
    \/ \E k \in Keys, v \in Vals : dictAdd(k, v) \/ dictReplace(k, v)
    \/ \E k \in Keys : dictDelete(k)
    \/ dictFind
    \/ dictEmpty
    \/ dictResize
    \/ incrementallyRehash
    \/ updateDictResizePolicy
    \/ StartSafeIterator
    \/ dictReleaseIterator

Spec == Init /\ [][Next]_vars

\* Iterations end, saving children end, and the event loop reaches the cron
\* again and again: whoever can start an iteration or a save in between, the
\* cron gets its turn as often as no child is there.
Fairness ==
    /\ WF_vars(dictReleaseIterator)
    /\ SF_vars(~dict_can_resize /\ updateDictResizePolicy)
    /\ SF_vars(incrementallyRehash)

FairSpec == Spec /\ Fairness

-----------------------------------------------------------------------------
(* Properties. *)

Stored(t) == UNION {t.table[i] : i \in DOMAIN t.table}
Contents(d) == Stored(d.ht[0]) \cup Stored(d.ht[1])
KeysOf(entries) == {e.key : e \in entries}

IsTable(t) ==
    /\ t.size \in Sizes \cup {0}
    /\ t.used \in Nat
    /\ t.table \in [0..(t.size - 1) -> SUBSET Entry]
    /\ t = [size |-> t.size, used |-> t.used, table |-> t.table]

IsDict(d) ==
    /\ d = [ht |-> d.ht, rehashidx |-> d.rehashidx, iterators |-> d.iterators]
    /\ d.ht = [t \in 0..1 |-> d.ht[t]]
    /\ IsTable(d.ht[0]) /\ IsTable(d.ht[1])
    /\ d.rehashidx \in Int
    /\ d.iterators \in 0..MaxIterators

\* The fields of struct dict have their types.
TypeOK == IsDict(dict) /\ dict_can_resize \in BOOLEAN

IsPlaced(t) == \A i \in DOMAIN t.table : \A e \in t.table[i] : Hash[e.key] % t.size = i

\* Every entry sits in the bucket its hash selects, whatever resizes and
\* partial rehashes came before: otherwise lookups would miss it.
Placed == IsPlaced(dict.ht[0]) /\ IsPlaced(dict.ht[1])

HasUniqueKeys(d) ==
    /\ \A e, f \in Contents(d) : e.key = f.key => e = f
    /\ Stored(d.ht[0]) \cap Stored(d.ht[1]) = {}

\* No key is stored twice, in the same or in different tables.
UniqueKeys == HasUniqueKeys(dict)

HasRehashShape(d) ==
    IF dictIsRehashing(d)
    THEN /\ d.ht[0].size # 0 /\ d.ht[1].size # 0
         /\ d.rehashidx \in 0..d.ht[0].size
         /\ \A i \in 0..(d.rehashidx - 1) : d.ht[0].table[i] = {}
    ELSE d.ht[1].size = 0

\* The second table is there exactly while rehashing; the buckets below
\* rehashidx are empty (dict.c:763 relies on it), and rehashidx never runs
\* past the table while keys remain in it (the assert of dictRehash).
RehashShape == HasRehashShape(dict)

CountsExactly(t) == IsFiniteSet(Stored(t)) /\ t.used = Cardinality(Stored(t))

\* The used counters are exact, so that dictSize() is the number of keys and
\* a rehash ends when, and only when, table 0 is really empty.
UsedExact == CountsExactly(dict.ht[0]) /\ CountsExactly(dict.ht[1])

\* No sequence of operations, resizes and partial rehashes of dict.c leaves an
\* entry in a wrong bucket, a key twice, an entry behind rehashidx or a counter
\* off by one.
TablesConsistent == Placed /\ UniqueKeys /\ RehashShape /\ UsedExact

\* A lookup finds exactly the keys that are stored, in the middle of a rehash
\* as well as outside one.
LookupExact ==
    \A k \in Keys : Lookup(dict, k) = {e \in Contents(dict) : e.key = k}

\* _dictExpandIfNeeded never gets DICT_ERR from dictExpand: dictAddRaw would
\* refuse a new key, and dictReplace would then dereference NULL.
ExpandNeverFails ==
    WantedSize(dict) # 0 =>
        \A s \in NextPower(WantedSize(dict)) : ~ExpandFails(dict, WantedSize(dict), s)

\* A rehash that has started ends, whatever is inserted, deleted, iterated or
\* saved meanwhile.
RehashEnds == dictIsRehashing(dict) ~> ~dictIsRehashing(dict)

\* Seen through the set of its entries, the dict is the map its callers expect.
Map == INSTANCE DictMap WITH map <- Contents(dict)
MapSpec == Map!Spec
=============================================================================
