----------------------------- MODULE DictProofs -----------------------------
(***************************************************************************)
(* The hash table never loses, duplicates or misplaces an entry, for every *)
(* set of keys, hash function and resizing policy.  A safe iterator        *)
(* returns every key that stays in the dict, and none twice, whatever the  *)
(* body of its loop adds, overwrites or deletes and whichever rehash       *)
(* starts under it.                                                        *)
(***************************************************************************)
EXTENDS DictIter, FiniteSetTheorems, WellFoundedInduction, TLAPS

\* The inductive invariant, of a dict rather than of the variable so that the
\* intermediate dicts inside an operation can be shown to satisfy it too.
Good(d) ==
    /\ IsDict(d)
    /\ IsPlaced(d.ht[0]) /\ IsPlaced(d.ht[1])
    /\ HasUniqueKeys(d)
    /\ HasRehashShape(d)
    /\ CountsExactly(d.ht[0]) /\ CountsExactly(d.ht[1])

-----------------------------------------------------------------------------
(* Tables. *)

\* A table fresh from _dictReset() or dictExpand() stores nothing.
LEMMA NewTableEmpty ==
    ASSUME NEW n \in Sizes \cup {0}
    PROVE  /\ IsTable(NewTable(n)) /\ IsPlaced(NewTable(n))
           /\ Stored(NewTable(n)) = {}
           /\ CountsExactly(NewTable(n))
<1> DEFINE t == NewTable(n)
<1>1. n \in Nat /\ t.size = n /\ t.used = 0 /\ t.table = [i \in 0..(n - 1) |-> {}]
  BY DictAssumption DEF NewTable
<1>2. Stored(t) = {}
  BY <1>1 DEF Stored
<1>3. IsTable(t) /\ IsPlaced(t)
  BY <1>1 DEF IsTable, IsPlaced, NewTable
<1>4. CountsExactly(t)
  BY <1>1, <1>2, FS_EmptySet DEF CountsExactly
<1> QED  BY <1>2, <1>3, <1>4

\* dictCreate() returns a well formed, empty dict.
LEMMA EmptyDictGood == Good(EmptyDict) /\ Contents(EmptyDict) = {}
<1> DEFINE d == EmptyDict
<1>1. /\ d.ht = [t \in 0..1 |-> NewTable(0)] /\ d.ht[0] = NewTable(0) /\ d.ht[1] = NewTable(0)
      /\ d.rehashidx = -1 /\ d.iterators = 0
  BY DEF EmptyDict
<1>2. IsDict(d)
  BY <1>1, NewTableEmpty, DictAssumption DEF IsDict, EmptyDict
<1>3. Stored(d.ht[0]) = {} /\ Stored(d.ht[1]) = {} /\ d.ht[1].size = 0
  <2>1. Stored(NewTable(0)) = {}
    BY NewTableEmpty
  <2>2. NewTable(0).size = 0
    BY DEF NewTable
  <2> HIDE DEF d
  <2> QED  BY <1>1, <2>1, <2>2
<1> HIDE DEF d
<1>4. HasUniqueKeys(d) /\ Contents(d) = {}
  BY <1>3 DEF HasUniqueKeys, Contents
<1>5. HasRehashShape(d)
  BY <1>1, <1>3 DEF HasRehashShape, dictIsRehashing
<1> QED  BY <1>1, <1>2, <1>4, <1>5, NewTableEmpty DEF Good, d

\* An entry of a placed table is in one bucket only, the one it hashes to.
LEMMA StoredWhere ==
    ASSUME NEW t, IsTable(t), IsPlaced(t), NEW e
    PROVE  /\ e \in Stored(t) <=> (t.size # 0 /\ e \in Entry /\ e \in t.table[Hash[e.key] % t.size])
           /\ \A i \in 0..(t.size - 1) : e \in t.table[i] => e \in Entry /\ i = Hash[e.key] % t.size
<1>1. t.size \in Nat /\ DOMAIN t.table = 0..(t.size - 1) /\ t.table \in [0..(t.size - 1) -> SUBSET Entry]
  BY DictAssumption DEF IsTable
<1>2. ASSUME NEW i \in 0..(t.size - 1), e \in t.table[i]
      PROVE  e \in Entry /\ i = Hash[e.key] % t.size /\ t.size # 0
  BY <1>1, <1>2 DEF IsPlaced
<1>3. ASSUME t.size # 0, e \in Entry  PROVE  Hash[e.key] % t.size \in 0..(t.size - 1)
  BY <1>1, <1>3, DictAssumption DEF Entry
<1> QED  BY <1>1, <1>2, <1>3 DEF Stored

\* The parts of Good that concern one of the two tables.
LEMMA GoodTable ==
    ASSUME NEW d, Good(d), NEW t \in 0..1
    PROVE  /\ IsTable(d.ht[t]) /\ IsPlaced(d.ht[t]) /\ CountsExactly(d.ht[t])
           /\ d.ht[t].size \in Nat /\ d.ht[t].used \in Nat
           /\ d.ht[t].size # 0 => \A h \in Nat : h % d.ht[t].size \in 0..(d.ht[t].size - 1)
<1>1. IsTable(d.ht[t]) /\ IsPlaced(d.ht[t]) /\ CountsExactly(d.ht[t])
  BY DEF Good, IsDict
<1>2. d.ht[t].size \in Nat /\ d.ht[t].used \in Nat
  <2>1. ASSUME NEW T, IsTable(T)  PROVE T.size \in Nat /\ T.used \in Nat
    BY <2>1, DictAssumption DEF IsTable
  <2> QED  BY <1>1, <2>1
<1> QED  BY <1>1, <1>2

\* What is left when some buckets are emptied, and what is reached when a set
\* of entries is distributed over the buckets.
LEMMA RehashedTables ==
    ASSUME NEW d, Good(d), dictIsRehashing(d), NEW e \in d.rehashidx..d.ht[0].size
    PROVE  LET M == Moved(d, e)  t0 == Emptied(d, e)  t1 == Filled(d, e)
           IN  /\ IsTable(t0) /\ IsPlaced(t0) /\ Stored(t0) = Stored(d.ht[0]) \ M
               /\ IsTable(t1) /\ IsPlaced(t1) /\ Stored(t1) = Stored(d.ht[1]) \cup M
               /\ CountsExactly(t0) /\ CountsExactly(t1)
               /\ M \subseteq Stored(d.ht[0])
               /\ t0.size = d.ht[0].size /\ t1.size = d.ht[1].size
               /\ \A i \in 0..(e - 1) : t0.table[i] = {}
<1> DEFINE M == Moved(d, e)
           old == d.ht[0]
           new == d.ht[1]
           t0 == Emptied(d, e)
           t1 == Filled(d, e)
           V == Visited(d, e)
<1>1. /\ IsTable(old) /\ IsTable(new) /\ IsPlaced(old) /\ IsPlaced(new)
      /\ CountsExactly(old) /\ CountsExactly(new)
      /\ d.rehashidx \in 0..old.size /\ old.size \in Nat /\ new.size \in Nat \ {0}
      /\ \A i \in 0..(d.rehashidx - 1) : old.table[i] = {}
      /\ Stored(old) \cap Stored(new) = {}
      /\ old.table \in [0..(old.size - 1) -> SUBSET Entry]
      /\ new.table \in [0..(new.size - 1) -> SUBSET Entry]
      /\ old.used \in Nat /\ new.used \in Nat
  BY DictAssumption DEF Good, IsDict, HasRehashShape, HasUniqueKeys, IsTable
<1>2. V \subseteq 0..(old.size - 1) /\ e \in Nat
  BY <1>1 DEF Visited
<1>3. \A x : x \in M <=> \E i \in V : x \in old.table[i]
  BY DEF Moved
<1>4. M \subseteq Stored(old) /\ M \subseteq Entry
  BY <1>1, <1>2, <1>3 DEF Stored
<1>5. /\ t0.size = old.size /\ t0.used = old.used - Cardinality(M)
      /\ t0.table = [i \in 0..(old.size - 1) |-> IF i \in V THEN {} ELSE old.table[i]]
      /\ t0 = [size |-> t0.size, used |-> t0.used, table |-> t0.table]
  BY DEF Emptied
<1>6. /\ t1.size = new.size /\ t1.used = new.used + Cardinality(M)
      /\ t1.table = [i \in 0..(new.size - 1) |->
                        new.table[i] \cup {x \in M : Hash[x.key] % new.size = i}]
      /\ t1 = [size |-> t1.size, used |-> t1.used, table |-> t1.table]
  BY DEF Filled
<1> HIDE DEF M, t0, t1, V
<1>7. Stored(t0) = Stored(old) \ M
  <2>1. ASSUME NEW x PROVE x \in Stored(t0) <=> \E i \in 0..(old.size - 1) : i \notin V /\ x \in old.table[i]
    BY <1>5 DEF Stored
  <2>2. ASSUME NEW x PROVE x \in Stored(old) <=> \E i \in 0..(old.size - 1) : x \in old.table[i]
    BY <1>1 DEF Stored
  <2>3. ASSUME NEW x, NEW i \in 0..(old.size - 1), NEW j \in 0..(old.size - 1),
               x \in old.table[i], x \in old.table[j]
        PROVE  i = j
    <3>1. \A k \in 0..(old.size - 1) : x \in old.table[k] => k = Hash[x.key] % old.size
      BY <1>1, StoredWhere
    <3> QED  BY <2>3, <3>1
  <2> QED  BY <1>2, <1>3, <2>1, <2>2, <2>3
<1>8. Stored(t1) = Stored(new) \cup M
  <2>1. ASSUME NEW x PROVE x \in Stored(t1) <=>
            \E i \in 0..(new.size - 1) : x \in new.table[i] \/ (x \in M /\ Hash[x.key] % new.size = i)
    BY <1>6 DEF Stored
  <2>2. ASSUME NEW x PROVE x \in Stored(new) <=> \E i \in 0..(new.size - 1) : x \in new.table[i]
    BY <1>1 DEF Stored
  <2>3. ASSUME NEW x \in M PROVE Hash[x.key] % new.size \in 0..(new.size - 1)
    BY <1>1, <1>4, DictAssumption DEF Entry
  <2> QED  BY <2>1, <2>2, <2>3
<1>9. /\ IsFiniteSet(M) /\ IsFiniteSet(Stored(t0)) /\ IsFiniteSet(Stored(t1))
      /\ Cardinality(M) \in Nat
      /\ Cardinality(Stored(t0)) = Cardinality(Stored(old)) - Cardinality(M)
      /\ Cardinality(Stored(t1)) = Cardinality(Stored(new)) + Cardinality(M)
      /\ Cardinality(Stored(t0)) \in Nat
  <2>1. IsFiniteSet(M) /\ IsFiniteSet(Stored(old)) /\ IsFiniteSet(Stored(new))
    BY <1>1, <1>4, FS_Subset DEF CountsExactly
  <2>2. Stored(old) \cap M = M /\ Stored(new) \cap M = {}
    BY <1>1, <1>4
  <2>3. IsFiniteSet(Stored(t0)) /\ Cardinality(Stored(t0)) = Cardinality(Stored(old)) - Cardinality(M)
    BY <1>7, <2>1, <2>2, FS_Difference
  <2>4. IsFiniteSet(Stored(t1)) /\ Cardinality(Stored(t1)) = Cardinality(Stored(new)) + Cardinality(M) - Cardinality({})
    BY <1>8, <2>1, <2>2, FS_Union
  <2>5. Cardinality(M) \in Nat /\ Cardinality(Stored(t0)) \in Nat /\ Cardinality(Stored(new)) \in Nat
    BY <2>1, <2>3, FS_CardinalityType
  <2> QED  BY <2>1, <2>3, <2>4, <2>5, FS_EmptySet
<1>10. CountsExactly(t0) /\ CountsExactly(t1) /\ t0.used \in Nat /\ t1.used \in Nat
  BY <1>1, <1>5, <1>6, <1>9 DEF CountsExactly
<1>11. IsTable(t0) /\ IsTable(t1)
  <2>1. t0.table \in [0..(t0.size - 1) -> SUBSET Entry]
    BY <1>1, <1>5
  <2>2. t1.table \in [0..(t1.size - 1) -> SUBSET Entry]
    BY <1>1, <1>4, <1>6
  <2> QED  BY <1>1, <1>5, <1>6, <1>10, <2>1, <2>2 DEF IsTable
<1>12. IsPlaced(t0)
  BY <1>1, <1>5 DEF IsPlaced
<1>13. IsPlaced(t1)
  BY <1>1, <1>6 DEF IsPlaced
<1>14. \A i \in 0..(e - 1) : t0.table[i] = {}
  BY <1>1, <1>2, <1>5 DEF Visited, V
<1> QED  BY <1>4, <1>5, <1>6, <1>7, <1>8, <1>10, <1>11, <1>12, <1>13, <1>14 DEF M, t0, t1

\* Moving buckets, and the final switch of tables, keeps every entry.
LEMMA MoveBucketsGood ==
    ASSUME NEW d, Good(d), dictIsRehashing(d), NEW e \in d.rehashidx..d.ht[0].size
    PROVE  /\ Good(MoveBuckets(d, e)) /\ Contents(MoveBuckets(d, e)) = Contents(d)
           /\ MoveBuckets(d, e).iterators = d.iterators
<1> DEFINE M == Moved(d, e)
           t0 == Emptied(d, e)
           t1 == Filled(d, e)
           m == MoveBuckets(d, e)
<1>1. /\ IsTable(t0) /\ IsPlaced(t0) /\ Stored(t0) = Stored(d.ht[0]) \ M
      /\ IsTable(t1) /\ IsPlaced(t1) /\ Stored(t1) = Stored(d.ht[1]) \cup M
      /\ CountsExactly(t0) /\ CountsExactly(t1)
      /\ M \subseteq Stored(d.ht[0])
      /\ t0.size = d.ht[0].size /\ t1.size = d.ht[1].size
      /\ \A i \in 0..(e - 1) : t0.table[i] = {}
  BY RehashedTables
<1>2. /\ IsDict(d) /\ HasUniqueKeys(d) /\ d.ht[0].size # 0 /\ d.ht[1].size # 0
      /\ d.ht[0].size \in Nat /\ d.ht[1].size \in Nat
      /\ d.rehashidx \in Nat /\ e \in Nat /\ e <= d.ht[0].size
      /\ d.iterators \in 0..MaxIterators
  BY DictAssumption DEF Good, IsDict, HasRehashShape, IsTable
<1>3. /\ Stored(NewTable(0)) = {} /\ IsTable(NewTable(0)) /\ IsPlaced(NewTable(0))
      /\ CountsExactly(NewTable(0)) /\ NewTable(0).size = 0
  BY NewTableEmpty DEF NewTable
<1>4. CASE t0.used = 0
  <2>1. m = [ht |-> [t \in 0..1 |-> IF t = 0 THEN t1 ELSE NewTable(0)],
             rehashidx |-> -1, iterators |-> d.iterators]
    BY <1>2, <1>4 DEF MoveBuckets, IsDict
  <2>2. m.ht[0] = t1 /\ m.ht[1] = NewTable(0) /\ m.rehashidx = -1 /\ m.iterators = d.iterators
    BY <2>1
  <2>3. Stored(t0) = {}
    BY <1>1, <1>4, FS_EmptySet DEF CountsExactly
  <2>4. IsDict(m)
    BY <1>1, <1>2, <1>3, <2>1, <2>2 DEF IsDict
  <2> HIDE DEF m, t0, t1, M
  <2>5. Contents(m) = Contents(d)
    BY <1>1, <1>3, <2>2, <2>3 DEF Contents
  <2>6. HasUniqueKeys(m)
    BY <1>2, <1>3, <2>2, <2>5 DEF HasUniqueKeys
  <2>7. HasRehashShape(m)
    BY <1>3, <2>2 DEF HasRehashShape, dictIsRehashing
  <2>8. Good(m)
    BY <1>1, <1>3, <2>2, <2>4, <2>6, <2>7 DEF Good
  <2> QED  BY <2>2, <2>5, <2>8 DEF m
<1>5. CASE t0.used # 0
  <2>1. m = [ht |-> [t \in 0..1 |-> IF t = 0 THEN t0 ELSE t1],
             rehashidx |-> e, iterators |-> d.iterators]
    BY <1>2, <1>5 DEF MoveBuckets, IsDict
  <2>2. m.ht[0] = t0 /\ m.ht[1] = t1 /\ m.rehashidx = e /\ m.iterators = d.iterators
    BY <2>1
  <2>4. IsDict(m)
    BY <1>1, <1>2, <2>1, <2>2 DEF IsDict
  <2> HIDE DEF m, t0, t1, M
  <2>5. Contents(m) = Contents(d)
    BY <1>1, <2>2 DEF Contents
  <2>6. HasUniqueKeys(m)
    BY <1>1, <1>2, <2>2, <2>5 DEF HasUniqueKeys
  <2>7. HasRehashShape(m)
    BY <1>1, <1>2, <2>2 DEF HasRehashShape, dictIsRehashing
  <2>8. Good(m)
    BY <1>1, <2>2, <2>4, <2>6, <2>7 DEF Good
  <2> QED  BY <2>2, <2>5, <2>8 DEF m
<1> QED  BY <1>4, <1>5

\* A call of dictRehash() keeps the dict well formed and its contents.
LEMMA RehashGood ==
    ASSUME NEW d, Good(d), NEW n, NEW r \in dictRehash(d, n)
    PROVE  Good(r) /\ Contents(r) = Contents(d) /\ r.iterators = d.iterators
<1>1. CASE dictIsRehashing(d)
  <2>1. PICK e \in Stop(d, n) : r = MoveBuckets(d, e)
    BY <1>1 DEF dictRehash
  <2>2. e \in d.rehashidx..d.ht[0].size
    BY DEF Stop
  <2> QED  BY <1>1, <2>1, <2>2, MoveBucketsGood
<1>2. CASE ~dictIsRehashing(d)
  BY <1>2 DEF dictRehash
<1> QED  BY <1>1, <1>2

\* So does the step of rehashing that every operation performs.
LEMMA RehashStepGood ==
    ASSUME NEW d, Good(d), NEW r \in dictRehashStep(d)
    PROVE  Good(r) /\ Contents(r) = Contents(d) /\ r.iterators = d.iterators
BY RehashGood DEF dictRehashStep

\* A new table is empty, so installing it changes no content.
LEMMA ExpandGood ==
    ASSUME NEW d, Good(d), NEW n, NEW r \in dictExpand(d, n)
    PROVE  /\ Good(r) /\ Contents(r) = Contents(d) /\ r.iterators = d.iterators
           /\ (n \in Nat /\ ~dictIsRehashing(d) /\ d.ht[0].size = 0) => r.ht[0].size # 0
<1>1. PICK s \in NextPower(n) :
        r = IF ExpandFails(d, n, s) THEN d
            ELSE IF d.ht[0].size = 0 THEN WithTable(d, 0, NewTable(s))
            ELSE [WithTable(d, 1, NewTable(s)) EXCEPT !.rehashidx = 0]
  BY DEF dictExpand
<1>2. s \in Sizes /\ s \in Nat \ {0}
  BY DictAssumption DEF NextPower
<1>3. /\ Stored(NewTable(s)) = {} /\ IsTable(NewTable(s)) /\ IsPlaced(NewTable(s))
      /\ CountsExactly(NewTable(s)) /\ NewTable(s).size = s
  BY <1>2, NewTableEmpty DEF NewTable
<1>4. /\ IsDict(d) /\ HasUniqueKeys(d) /\ HasRehashShape(d)
      /\ IsPlaced(d.ht[0]) /\ IsPlaced(d.ht[1]) /\ CountsExactly(d.ht[0]) /\ CountsExactly(d.ht[1])
      /\ d.ht[0].size \in Nat /\ d.ht[0].used \in Nat
  BY DictAssumption DEF Good, IsDict, IsTable
<1>5. CASE ExpandFails(d, n, s)
  <2>1. ASSUME n \in Nat, ~dictIsRehashing(d), d.ht[0].size = 0  PROVE FALSE
    <3>1. Stored(d.ht[0]) = {}
      BY <1>4, <2>1 DEF IsDict, IsTable, Stored
    <3>2. d.ht[0].used = 0
      BY <1>4, <3>1, FS_EmptySet DEF CountsExactly
    <3> QED  BY <1>2, <1>5, <2>1, <3>2 DEF ExpandFails
  <2> QED  BY <1>1, <1>5, <2>1
<1>6. CASE ~ExpandFails(d, n, s) /\ d.ht[0].size = 0
  <2>1. r = [ht |-> [t \in 0..1 |-> IF t = 0 THEN NewTable(s) ELSE d.ht[1]],
             rehashidx |-> d.rehashidx, iterators |-> d.iterators]
    BY <1>1, <1>4, <1>6 DEF IsDict, WithTable
  <2>2. r.ht[0] = NewTable(s) /\ r.ht[1] = d.ht[1] /\ r.rehashidx = d.rehashidx /\ r.iterators = d.iterators
    BY <2>1
  <2>3. IsDict(r)
    BY <1>3, <1>4, <2>1, <2>2 DEF IsDict
  <2>4. Stored(d.ht[0]) = {}
    BY <1>4, <1>6 DEF IsDict, IsTable, Stored
  <2>5. Contents(r) = Contents(d)
    BY <1>3, <2>2, <2>4 DEF Contents
  <2>6. HasUniqueKeys(r)
    BY <1>3, <1>4, <2>2, <2>5 DEF HasUniqueKeys
  <2>7. HasRehashShape(r)
    BY <1>4, <1>6, <2>2 DEF HasRehashShape, dictIsRehashing, ExpandFails
  <2>8. Good(r)
    BY <1>3, <1>4, <2>2, <2>3, <2>6, <2>7 DEF Good
  <2> QED  BY <1>2, <1>3, <2>2, <2>5, <2>8
<1>7. CASE ~ExpandFails(d, n, s) /\ d.ht[0].size # 0
  <2>1. r = [ht |-> [t \in 0..1 |-> IF t = 0 THEN d.ht[0] ELSE NewTable(s)],
             rehashidx |-> 0, iterators |-> d.iterators]
    <3> DEFINE w == WithTable(d, 1, NewTable(s))
    <3>1. w = [ht |-> [t \in 0..1 |-> IF t = 1 THEN NewTable(s) ELSE d.ht[t]],
               rehashidx |-> d.rehashidx, iterators |-> d.iterators]
      BY <1>4 DEF IsDict, WithTable
    <3>2. r = [w EXCEPT !.rehashidx = 0]
      BY <1>1, <1>7
    <3> HIDE DEF w
    <3> QED  BY <3>1, <3>2
  <2>2. r.ht[0] = d.ht[0] /\ r.ht[1] = NewTable(s) /\ r.rehashidx = 0 /\ r.iterators = d.iterators
    BY <2>1
  <2>3. IsDict(r)
    BY <1>3, <1>4, <2>1, <2>2 DEF IsDict
  <2>4. Stored(d.ht[1]) = {}
    BY <1>4, <1>7 DEF IsDict, IsTable, Stored, HasRehashShape, ExpandFails
  <2>5. Contents(r) = Contents(d)
    BY <1>3, <2>2, <2>4 DEF Contents
  <2>6. HasUniqueKeys(r)
    BY <1>3, <1>4, <2>2, <2>5 DEF HasUniqueKeys
  <2>7. HasRehashShape(r)
    BY <1>2, <1>3, <1>4, <1>7, <2>2 DEF HasRehashShape, dictIsRehashing
  <2>8. Good(r)
    BY <1>3, <1>4, <2>2, <2>3, <2>6, <2>7 DEF Good
  <2> QED  BY <1>7, <2>2, <2>5, <2>8
<1> QED  BY <1>5, <1>6, <1>7

\* What _dictExpandIfNeeded leaves: the same entries, and a table to insert in.
LEMMA ExpandIfNeededGood ==
    ASSUME NEW d, Good(d), NEW r \in dictExpandIfNeeded(d)
    PROVE  /\ Good(r) /\ Contents(r) = Contents(d) /\ r.iterators = d.iterators
           /\ r.ht[IF dictIsRehashing(r) THEN 1 ELSE 0].size # 0
<1>1. /\ InitialSize \in Nat \ {0} /\ d.ht[0].used \in Nat /\ d.ht[0].size \in Nat
  BY DictAssumption DEF Good, IsDict, IsTable
<1>2. Good(r) /\ Contents(r) = Contents(d) /\ r.iterators = d.iterators
  BY ExpandGood DEF dictExpandIfNeeded
<1>3. r.ht[0].size # 0
  <2>1. CASE dictIsRehashing(d)
    BY <2>1, <1>1 DEF dictExpandIfNeeded, WantedSize, Good, HasRehashShape
  <2>2. CASE ~dictIsRehashing(d) /\ d.ht[0].size = 0
    BY <2>2, <1>1, ExpandGood DEF dictExpandIfNeeded, WantedSize
  <2>3. CASE ~dictIsRehashing(d) /\ d.ht[0].size # 0
    <3>1. CASE WantedSize(d) = 0
      BY <2>3, <3>1 DEF dictExpandIfNeeded
    <3>2. CASE WantedSize(d) # 0
      <4>1. PICK s \in NextPower(WantedSize(d)) :
              r = IF ExpandFails(d, WantedSize(d), s) THEN d
                  ELSE [WithTable(d, 1, NewTable(s)) EXCEPT !.rehashidx = 0]
        BY <2>3, <3>2 DEF dictExpandIfNeeded, dictExpand
      <4>2. d = [ht |-> d.ht, rehashidx |-> d.rehashidx, iterators |-> d.iterators]
            /\ d.ht = [t \in 0..1 |-> d.ht[t]]
        BY DEF Good, IsDict
      <4>3. r.ht[0] = d.ht[0]
        BY <4>1, <4>2 DEF WithTable
      <4> QED  BY <2>3, <4>3
    <3> QED  BY <3>1, <3>2
  <2> QED  BY <2>1, <2>2, <2>3
<1>4. dictIsRehashing(r) => r.ht[1].size # 0
  BY <1>2 DEF Good, HasRehashShape
<1> QED  BY <1>2, <1>3, <1>4

\* A lookup sees exactly the stored entries of the key.
LEMMA LookupIsExact ==
    ASSUME NEW d, Good(d), NEW k \in Keys
    PROVE  /\ Lookup(d, k) = {e \in Contents(d) : e.key = k}
           /\ \A t \in 0..1 : Found(d.ht[t], k) = {e \in Stored(d.ht[t]) : e.key = k}
<1>1. ASSUME NEW t \in 0..1  PROVE Found(d.ht[t], k) = {e \in Stored(d.ht[t]) : e.key = k}
  <2>1. IsTable(d.ht[t]) /\ IsPlaced(d.ht[t])
    BY DEF Good, IsDict
  <2> DEFINE T == d.ht[t]
  <2>2. ASSUME NEW e \in Found(T, k)  PROVE e \in Stored(T) /\ e.key = k
    <3>1. T.size # 0 /\ e \in T.table[Hash[k] % T.size] /\ e.key = k
      BY <2>2 DEF Found, Chain
    <3>2. T.size \in Nat /\ Hash[k] % T.size \in 0..(T.size - 1)
      BY <3>1, GoodTable, DictAssumption
    <3>3. e \in Entry
      BY <2>1, <3>1, <3>2 DEF IsTable
    <3> HIDE DEF T
    <3> QED  BY <2>1, <3>1, <3>3, StoredWhere DEF T
  <2>3. ASSUME NEW e \in Stored(T), e.key = k  PROVE e \in Found(T, k)
    <3>1. T.size # 0 /\ e \in T.table[Hash[e.key] % T.size]
      BY <2>1, StoredWhere
    <3> QED  BY <2>3, <3>1 DEF Found, Chain
  <2> QED  BY <2>2, <2>3
<1>2. Lookup(d, k) = {e \in Contents(d) : e.key = k}
  <2>1. ~dictIsRehashing(d) => Stored(d.ht[1]) = {}
    BY DEF Good, HasRehashShape, IsDict, IsTable, Stored
  <2>2. HasUniqueKeys(d)
    BY DEF Good
  <2>3. /\ Found(d.ht[0], k) = {e \in Stored(d.ht[0]) : e.key = k}
        /\ Found(d.ht[1], k) = {e \in Stored(d.ht[1]) : e.key = k}
    BY <1>1
  <2>4. CASE Found(d.ht[0], k) = {}
    BY <2>1, <2>3, <2>4 DEF Lookup, Contents
  <2>5. CASE Found(d.ht[0], k) # {}
    BY <2>2, <2>3, <2>5 DEF Lookup, Contents, HasUniqueKeys
  <2> QED  BY <2>4, <2>5
<1> QED  BY <1>1, <1>2

\* d, t, k and c are fit for SetChain: the new chain holds entries of the old
\* one, old, and entries of k, and it may be put there without disturbing the
\* emptiness of the buckets below rehashidx.
Fits(d, t, k, c, old) ==
    /\ Good(d) /\ t \in 0..1 /\ k \in Keys /\ d.ht[t].size # 0
    /\ c \in SUBSET Entry
    /\ old = Chain(d.ht[t], Hash[k])
    /\ \A e \in c : e \in old \/ e.key = k
    /\ (t = 0 /\ old # {}) \/ t = IF dictIsRehashing(d) THEN 1 ELSE 0

\* What SetChain makes of the table.
Replaced(d, t, c, n, old, r) ==
    /\ r = [ht |-> [u \in 0..1 |-> r.ht[u]], rehashidx |-> d.rehashidx, iterators |-> d.iterators]
    /\ r.ht[1 - t] = d.ht[1 - t]
    /\ r.ht[t].size = d.ht[t].size /\ r.ht[t].used = d.ht[t].used + n
    /\ r.ht[t] = [size |-> r.ht[t].size, used |-> r.ht[t].used, table |-> r.ht[t].table]
    /\ r.ht[t].table \in [0..(d.ht[t].size - 1) -> SUBSET Entry]
    /\ IsPlaced(r.ht[t])
    /\ Stored(r.ht[t]) = (Stored(d.ht[t]) \ old) \cup c
    /\ HasRehashShape(r)

\* Replacing the chain of k in one table: c takes the place of the old chain.
LEMMA SetChainTables ==
    ASSUME NEW d, NEW t, NEW k, NEW c, NEW old, Fits(d, t, k, c, old), NEW n \in Int
    PROVE  Replaced(d, t, c, n, old, SetChain(d, t, k, c, n))
<1> DEFINE r == SetChain(d, t, k, c, n)
<1>0. /\ Good(d) /\ t \in 0..1 /\ k \in Keys /\ d.ht[t].size # 0
      /\ c \in SUBSET Entry /\ old = Chain(d.ht[t], Hash[k])
      /\ \A e \in c : e \in old \/ e.key = k
      /\ (t = 0 /\ old # {}) \/ t = IF dictIsRehashing(d) THEN 1 ELSE 0
  BY DEF Fits
<1> DEFINE T == d.ht[t]
           h == Hash[k] % T.size
           R == [size |-> T.size, used |-> T.used + n, table |-> [T.table EXCEPT ![h] = c]]
<1>1. IsTable(T) /\ IsPlaced(T) /\ T.size \in Nat \ {0} /\ h \in 0..(T.size - 1)
  BY <1>0, GoodTable, DictAssumption
<1>2. /\ d = [ht |-> d.ht, rehashidx |-> d.rehashidx, iterators |-> d.iterators]
      /\ d.ht = [u \in 0..1 |-> d.ht[u]]
      /\ T = [size |-> T.size, used |-> T.used, table |-> T.table]
      /\ T.table \in [0..(T.size - 1) -> SUBSET Entry]
      /\ HasRehashShape(d)
  BY <1>0, <1>1 DEF Good, IsDict, IsTable
<1>3. old = T.table[h]
  BY <1>0 DEF Chain
<1>5. r = [ht |-> [u \in 0..1 |-> IF u = t THEN R ELSE d.ht[u]],
           rehashidx |-> d.rehashidx, iterators |-> d.iterators]
  <2>1. r = WithTable(d, t, R)
    BY DEF SetChain
  <2> HIDE DEF R, r
  <2> QED  BY <1>0, <1>2, <2>1 DEF WithTable
<1>6. /\ r.ht[t] = R /\ r.ht[1 - t] = d.ht[1 - t] /\ 1 - t \in 0..1 /\ 1 - t # t
      /\ r.rehashidx = d.rehashidx /\ r.iterators = d.iterators
  BY <1>0, <1>5
<1>7. R.table = [i \in 0..(T.size - 1) |-> IF i = h THEN c ELSE T.table[i]] /\ R.size = T.size
  BY <1>0, <1>2
<1> HIDE DEF R, r
<1>8. R.table \in [0..(T.size - 1) -> SUBSET Entry]
  BY <1>0, <1>2, <1>7, ZenonT(60)
<1>9. \A i \in 0..(T.size - 1) : \A e \in T.table[i] : Hash[e.key] % T.size = i
  BY <1>0, <1>1, <1>2 DEF IsPlaced
<1>10. \A e \in c : Hash[e.key] % T.size = h
  BY <1>0, <1>1, <1>3, <1>9
<1>11. IsPlaced(R)
  BY <1>0, <1>7, <1>9, <1>10 DEF IsPlaced
<1>12. old \subseteq Stored(T)
  BY <1>0, <1>1, <1>2, <1>3 DEF Stored
<1>13. Stored(R) = (Stored(T) \ old) \cup c
  <2>1. \A x : x \in Stored(R) <=> \E i \in 0..(T.size - 1) : x \in IF i = h THEN c ELSE T.table[i]
    BY <1>0, <1>7 DEF Stored
  <2>2. \A x : x \in Stored(T) <=> \E i \in 0..(T.size - 1) : x \in T.table[i]
    BY <1>0, <1>2 DEF Stored
  <2> HIDE DEF h
  <2> QED  BY <1>0, <1>1, <1>3, <1>9, <2>1, <2>2
<1>14. ASSUME t = 0, old # {}  PROVE HasRehashShape(r)
  <2>1. \A i \in 0..(T.size - 1) : T.table[i] = {} => R.table[i] = {}
    BY <1>0, <1>2, <1>3, <1>7, <1>14
  <2>2. dictIsRehashing(d) => d.rehashidx \in 0..T.size
    BY <1>0, <1>2, <1>14 DEF HasRehashShape
  <2>3. r.ht[0] = R /\ r.ht[1] = d.ht[1] /\ T = d.ht[0]
    BY <1>0, <1>6, <1>14
  <2>4. /\ dictIsRehashing(r) <=> dictIsRehashing(d)
        /\ r.ht[0].size = d.ht[0].size /\ r.ht[1].size = d.ht[1].size
    BY <1>0, <1>6, <1>7, <2>3 DEF dictIsRehashing
  <2>5. ASSUME dictIsRehashing(d), NEW i \in 0..(d.rehashidx - 1)  PROVE r.ht[0].table[i] = {}
    <3>1. d.ht[0].table[i] = {} /\ i \in 0..(T.size - 1)
      BY <1>0, <1>1, <1>2, <2>2, <2>5 DEF HasRehashShape
    <3> HIDE DEF T
    <3> QED  BY <2>1, <2>3, <3>1
  <2> HIDE DEF T
  <2> QED  BY <1>0, <1>2, <1>6, <2>4, <2>5 DEF HasRehashShape
<1>15. ASSUME t = IF dictIsRehashing(d) THEN 1 ELSE 0  PROVE HasRehashShape(r)
  <2>1. r.ht[t].size = d.ht[t].size /\ r.ht[t].size # 0
    BY <1>0, <1>6, <1>7
  <2>2. dictIsRehashing(r) <=> dictIsRehashing(d)
    BY <1>6 DEF dictIsRehashing
  <2>3. CASE dictIsRehashing(d)
    <3>1. t = 1 /\ 1 - t = 0
      BY <1>15, <2>3
    <3>2. r.ht[0] = d.ht[0] /\ r.ht[1].size # 0
      BY <1>6, <2>1, <3>1
    <3> QED  BY <1>2, <1>6, <2>2, <2>3, <3>2 DEF HasRehashShape
  <2>4. CASE ~dictIsRehashing(d)
    <3>1. t = 0 /\ 1 - t = 1
      BY <1>15, <2>4
    <3>2. r.ht[1] = d.ht[1]
      BY <1>6, <3>1
    <3> QED  BY <1>2, <2>2, <2>4, <3>2 DEF HasRehashShape
  <2> QED  BY <2>3, <2>4
<1>16. r = [ht |-> [u \in 0..1 |-> r.ht[u]], rehashidx |-> d.rehashidx, iterators |-> d.iterators]
  BY <1>0, <1>5
<1>17. /\ r.ht[t].size = T.size /\ r.ht[t].used = T.used + n
       /\ r.ht[t] = [size |-> r.ht[t].size, used |-> r.ht[t].used, table |-> r.ht[t].table]
  BY <1>0, <1>6 DEF R
<1> QED
  BY <1>0, <1>6, <1>8, <1>11, <1>13, <1>14, <1>15, <1>16, <1>17 DEF r, Replaced

\* The entries S of table t, n more than before, agree with the counters and
\* with the other table.
Agrees(d, t, n, S) ==
    /\ n \in Int /\ IsFiniteSet(S) /\ d.ht[t].used + n = Cardinality(S)
    /\ \A e, f \in S \cup Stored(d.ht[1 - t]) : e.key = f.key => e = f
    /\ S \cap Stored(d.ht[1 - t]) = {}

\* What remains to be shown of a chain replacement: its counters and keys.
LEMMA SetChainGood ==
    ASSUME NEW d, NEW t, NEW k, NEW c, NEW old, NEW n, Fits(d, t, k, c, old),
           NEW S, S = (Stored(d.ht[t]) \ old) \cup c, Agrees(d, t, n, S),
           NEW r, r = SetChain(d, t, k, c, n)
    PROVE  Good(r) /\ r.iterators = d.iterators /\ Contents(r) = S \cup Stored(d.ht[1 - t])
<1>a. /\ n \in Int /\ IsFiniteSet(S) /\ d.ht[t].used + n = Cardinality(S)
      /\ \A e, f \in S \cup Stored(d.ht[1 - t]) : e.key = f.key => e = f
      /\ S \cap Stored(d.ht[1 - t]) = {}
  BY DEF Agrees
<1>0. Replaced(d, t, c, n, old, r) /\ Good(d) /\ t \in 0..1
  BY <1>a, SetChainTables DEF Fits
<1>1. /\ r = [ht |-> [u \in 0..1 |-> r.ht[u]], rehashidx |-> d.rehashidx, iterators |-> d.iterators]
      /\ r.ht[1 - t] = d.ht[1 - t]
      /\ r.ht[t].table \in [0..(d.ht[t].size - 1) -> SUBSET Entry]
      /\ r.ht[t].size = d.ht[t].size /\ r.ht[t].used = d.ht[t].used + n
      /\ r.ht[t] = [size |-> r.ht[t].size, used |-> r.ht[t].used, table |-> r.ht[t].table]
      /\ IsPlaced(r.ht[t])
      /\ Stored(r.ht[t]) = (Stored(d.ht[t]) \ old) \cup c
      /\ HasRehashShape(r)
  BY <1>0 DEF Replaced
<1>2. HasRehashShape(r) /\ Stored(r.ht[t]) = S
  BY <1>1
<1>3. CountsExactly(r.ht[t])
  <2>1. r.ht[t].used = Cardinality(S)
    BY <1>a, <1>1
  <2> QED  BY <1>a, <1>2, <2>1 DEF CountsExactly
<1>4. r.rehashidx = d.rehashidx /\ r.iterators = d.iterators
  BY <1>1
<1>5. IsTable(r.ht[t])
  <2>1. d.ht[t].size \in Sizes \cup {0}
    BY <1>0, GoodTable DEF IsTable
  <2>2. r.ht[t].used \in Nat
    BY <1>3, FS_CardinalityType DEF CountsExactly
  <2> QED  BY <1>1, <2>1, <2>2 DEF IsTable
<1>6. 1 - t \in 0..1 /\ IsTable(d.ht[1 - t]) /\ IsPlaced(d.ht[1 - t]) /\ CountsExactly(d.ht[1 - t])
  BY <1>0, GoodTable
<1>7. \A u \in 0..1 : u = t \/ u = 1 - t
  BY <1>0
<1>8. \A u \in 0..1 : IsTable(r.ht[u]) /\ IsPlaced(r.ht[u]) /\ CountsExactly(r.ht[u])
  BY <1>1, <1>3, <1>5, <1>6, <1>7
<1>9. Contents(r) = S \cup Stored(d.ht[1 - t])
  <2>1. Contents(r) = Stored(r.ht[t]) \cup Stored(r.ht[1 - t])
    BY <1>0, <1>7 DEF Contents
  <2> QED  BY <1>1, <1>2, <2>1
<1>10. HasUniqueKeys(r)
  <2>1. Stored(r.ht[t]) \cap Stored(r.ht[1 - t]) = {}
    BY <1>a, <1>1, <1>2
  <2>2. Stored(r.ht[0]) \cap Stored(r.ht[1]) = {}
    BY <1>0, <1>7, <2>1
  <2> QED  BY <1>a, <1>9, <2>2 DEF HasUniqueKeys
<1>11. d.rehashidx \in Int /\ d.iterators \in 0..MaxIterators
  BY <1>0 DEF Good, IsDict
<1>12. r = [ht |-> r.ht, rehashidx |-> r.rehashidx, iterators |-> r.iterators] /\ r.ht = [u \in 0..1 |-> r.ht[u]]
  BY <1>1
<1>13. IsDict(r)
  BY <1>4, <1>8, <1>11, <1>12 DEF IsDict
<1> QED  BY <1>2, <1>4, <1>8, <1>9, <1>10, <1>13 DEF Good

\* Inserting an absent key adds exactly its entry.
LEMMA InsertGood ==
    ASSUME NEW d, Good(d), NEW k \in Keys, NEW v \in Vals, Lookup(d, k) = {},
           d.ht[IF dictIsRehashing(d) THEN 1 ELSE 0].size # 0
    PROVE  /\ Good(Insert(d, k, v)) /\ Insert(d, k, v).iterators = d.iterators
           /\ Contents(Insert(d, k, v)) = Contents(d) \cup {[key |-> k, val |-> v]}
<1> DEFINE t == IF dictIsRehashing(d) THEN 1 ELSE 0
           e == [key |-> k, val |-> v]
           old == Chain(d.ht[t], Hash[k])
           S == Stored(d.ht[t]) \cup {e}
<1>1. t \in 0..1 /\ 1 - t \in 0..1 /\ e \in Entry /\ e.key = k
  BY DEF Entry
<1>2. /\ IsFiniteSet(Stored(d.ht[t])) /\ d.ht[t].used = Cardinality(Stored(d.ht[t]))
      /\ IsTable(d.ht[t]) /\ d.ht[t].size \in Nat \ {0} /\ Hash[k] % d.ht[t].size \in 0..(d.ht[t].size - 1)
  BY <1>1, GoodTable, DictAssumption DEF CountsExactly
<1>3. old \in SUBSET Entry /\ old \subseteq Stored(d.ht[t])
  <2>1. ASSUME NEW T, IsTable(T), T.size # 0, Hash[k] % T.size \in 0..(T.size - 1)
        PROVE  Chain(T, Hash[k]) \in SUBSET Entry /\ Chain(T, Hash[k]) \subseteq Stored(T)
    BY <2>1 DEF IsTable, Chain, Stored
  <2> QED  BY <1>2, <2>1
<1>4. Contents(d) = Stored(d.ht[t]) \cup Stored(d.ht[1 - t])
  BY DEF Contents
<1>5. \A x \in Contents(d) : x.key # k
  BY LookupIsExact
<1>6. /\ \A x, y \in Contents(d) : x.key = y.key => x = y
      /\ Stored(d.ht[t]) \cap Stored(d.ht[1 - t]) = {}
  BY DEF Good, HasUniqueKeys
<1> HIDE DEF e, t, old
<1>7. e \notin Stored(d.ht[t]) /\ S = (Stored(d.ht[t]) \ old) \cup (old \cup {e})
  BY <1>1, <1>3, <1>4, <1>5
<1>8. IsFiniteSet(S) /\ d.ht[t].used + 1 = Cardinality(S)
  BY <1>2, <1>7, FS_AddElement
<1>9. \A x, y \in S \cup Stored(d.ht[1 - t]) : x.key = y.key => x = y
  BY <1>1, <1>4, <1>5, <1>6
<1>10. S \cap Stored(d.ht[1 - t]) = {}
  BY <1>1, <1>4, <1>5, <1>6
<1>11. Insert(d, k, v) = SetChain(d, t, k, old \cup {e}, 1)
  BY DEF Insert, t, e, old
<1>12. Fits(d, t, k, old \cup {e}, old)
  BY <1>1, <1>3 DEF Fits, old, t
<1>14. S \cup Stored(d.ht[1 - t]) = Contents(d) \cup {e}
  BY <1>4
<1> HIDE DEF S
<1>13. Agrees(d, t, 1, S)
  BY <1>8, <1>9, <1>10 DEF Agrees
<1> DEFINE c == old \cup {e}
           r == Insert(d, k, v)
<1>15. S = (Stored(d.ht[t]) \ old) \cup c /\ r = SetChain(d, t, k, c, 1) /\ Fits(d, t, k, c, old)
  BY <1>7, <1>11, <1>12
<1> HIDE DEF c, r
<1>16. Good(r) /\ r.iterators = d.iterators /\ Contents(r) = S \cup Stored(d.ht[1 - t])
  BY <1>13, <1>15, SetChainGood
<1> QED  BY <1>14, <1>16 DEF e, r

\* The table a key was found in, its single entry there, and the other table.
LEMMA WhereFound ==
    ASSUME NEW d, Good(d), NEW k \in Keys, Lookup(d, k) # {}
    PROVE  LET t == WhichTable(d, k)
               old == Chain(d.ht[t], Hash[k])
           IN  /\ t \in 0..1 /\ d.ht[t].size # 0 /\ old \in SUBSET Entry /\ old \subseteq Stored(d.ht[t])
               /\ (t = 0 /\ old # {}) \/ t = IF dictIsRehashing(d) THEN 1 ELSE 0
               /\ \E x \in old : x.key = k /\ Found(d.ht[t], k) = {x} /\ {y \in Contents(d) : y.key = k} = {x}
<1> DEFINE t == WhichTable(d, k)
           old == Chain(d.ht[t], Hash[k])
<1>1. t \in 0..1
  BY DEF WhichTable
<1>2. Found(d.ht[t], k) # {} /\ (t = 1 => dictIsRehashing(d))
  BY DEF WhichTable, Lookup
<1>3. PICK x \in old : x.key = k
  BY <1>2 DEF Found
<1>4. d.ht[t].size # 0
  BY <1>3 DEF Chain
<1>5. old \in SUBSET Entry /\ old \subseteq Stored(d.ht[t])
  <2>1. ASSUME NEW T, IsTable(T), T.size # 0, Hash[k] % T.size \in 0..(T.size - 1)
        PROVE  Chain(T, Hash[k]) \in SUBSET Entry /\ Chain(T, Hash[k]) \subseteq Stored(T)
    BY <2>1 DEF IsTable, Chain, Stored
  <2> HIDE DEF t
  <2> QED  BY <1>1, <1>4, <2>1, GoodTable, DictAssumption
<1>6. \A y, z \in Contents(d) : y.key = z.key => y = z
  BY DEF Good, HasUniqueKeys
<1>7. Stored(d.ht[t]) \subseteq Contents(d)
  BY <1>1 DEF Contents
<1>8. {y \in Contents(d) : y.key = k} = {x}
  BY <1>3, <1>5, <1>6, <1>7
<1>9. Found(d.ht[t], k) = {x}
  <2>1. Found(d.ht[t], k) = {y \in Stored(d.ht[t]) : y.key = k}
    BY <1>1, LookupIsExact
  <2> HIDE DEF t
  <2> QED  BY <1>3, <1>5, <1>7, <1>8, <2>1
<1> QED  BY <1>1, <1>2, <1>3, <1>4, <1>5, <1>8, <1>9

\* The contents around the entry x found for k in table t.
LEMMA AroundFound ==
    ASSUME NEW d, Good(d), NEW t \in 0..1, NEW x \in Stored(d.ht[t])
    PROVE  /\ Contents(d) = Stored(d.ht[t]) \cup Stored(d.ht[1 - t])
           /\ \A y, z \in Contents(d) : y.key = z.key => y = z
           /\ Stored(d.ht[t]) \cap Stored(d.ht[1 - t]) = {}
           /\ IsFiniteSet(Stored(d.ht[t]) \ {x})
           /\ Cardinality(Stored(d.ht[t]) \ {x}) = d.ht[t].used - 1
           /\ d.ht[t].used \in Nat
<1>1. /\ \A y, z \in Contents(d) : y.key = z.key => y = z
      /\ Stored(d.ht[t]) \cap Stored(d.ht[1 - t]) = {}
      /\ Contents(d) = Stored(d.ht[t]) \cup Stored(d.ht[1 - t])
  BY DEF Good, HasUniqueKeys, Contents
<1>2. IsFiniteSet(Stored(d.ht[t])) /\ Cardinality(Stored(d.ht[t])) = d.ht[t].used /\ d.ht[t].used \in Nat
  BY GoodTable DEF CountsExactly
<1>3. IsFiniteSet(Stored(d.ht[t]) \ {x}) /\ Cardinality(Stored(d.ht[t]) \ {x}) = d.ht[t].used - 1
  BY <1>2, FS_RemoveElement
<1> QED  BY <1>1, <1>2, <1>3

\* Deleting a present key removes exactly its entry.
LEMMA RemoveGood ==
    ASSUME NEW d, Good(d), NEW k \in Keys, Lookup(d, k) # {}
    PROVE  /\ Good(Remove(d, k)) /\ Remove(d, k).iterators = d.iterators
           /\ Contents(Remove(d, k)) = {e \in Contents(d) : e.key # k}
<1> DEFINE t == WhichTable(d, k)
           old == Chain(d.ht[t], Hash[k])
           F == Found(d.ht[t], k)
<1>1. /\ t \in 0..1 /\ d.ht[t].size # 0 /\ old \in SUBSET Entry /\ old \subseteq Stored(d.ht[t])
      /\ (t = 0 /\ old # {}) \/ t = IF dictIsRehashing(d) THEN 1 ELSE 0
      /\ \E x \in old : x.key = k /\ F = {x} /\ {y \in Contents(d) : y.key = k} = {x}
  BY WhereFound
<1>2. Remove(d, k) = SetChain(d, t, k, old \ F, -1)
  BY DEF Remove
<1>3. Fits(d, t, k, old \ F, old)
  BY <1>1 DEF Fits
<1> HIDE DEF t, old, F
<1>4. PICK x \in old : x.key = k /\ F = {x} /\ {y \in Contents(d) : y.key = k} = {x}
  BY <1>1
<1>5. /\ Contents(d) = Stored(d.ht[t]) \cup Stored(d.ht[1 - t])
      /\ \A y, z \in Contents(d) : y.key = z.key => y = z
      /\ Stored(d.ht[t]) \cap Stored(d.ht[1 - t]) = {}
      /\ IsFiniteSet(Stored(d.ht[t]) \ {x})
      /\ Cardinality(Stored(d.ht[t]) \ {x}) = d.ht[t].used - 1
      /\ d.ht[t].used \in Nat
  BY <1>1, <1>4, AroundFound
<1>6. (Stored(d.ht[t]) \ old) \cup (old \ F) = Stored(d.ht[t]) \ {x}
  BY <1>1, <1>4
<1> DEFINE S == Stored(d.ht[t]) \ {x}
           c == old \ F
           r == Remove(d, k)
<1>7. S \cup Stored(d.ht[1 - t]) = {e \in Contents(d) : e.key # k}
  BY <1>1, <1>4, <1>5
<1>8. /\ \A y, z \in S \cup Stored(d.ht[1 - t]) : y.key = z.key => y = z
      /\ S \cap Stored(d.ht[1 - t]) = {}
      /\ IsFiniteSet(S) /\ d.ht[t].used + (-1) = Cardinality(S)
  BY <1>5
<1>9. S = (Stored(d.ht[t]) \ old) \cup c /\ r = SetChain(d, t, k, c, -1) /\ Fits(d, t, k, c, old)
  BY <1>2, <1>3, <1>6
<1> HIDE DEF S, c, r
<1>10. Agrees(d, t, -1, S)
  BY <1>8 DEF Agrees
<1>11. Good(r) /\ r.iterators = d.iterators /\ Contents(r) = S \cup Stored(d.ht[1 - t])
  BY <1>9, <1>10, SetChainGood
<1> QED  BY <1>7, <1>11 DEF r

\* Overwriting a present key replaces exactly its entry.
LEMMA OverwriteGood ==
    ASSUME NEW d, Good(d), NEW k \in Keys, NEW v \in Vals, Lookup(d, k) # {}
    PROVE  /\ Good(Overwrite(d, k, v)) /\ Overwrite(d, k, v).iterators = d.iterators
           /\ Contents(Overwrite(d, k, v)) = {e \in Contents(d) : e.key # k} \cup {[key |-> k, val |-> v]}
<1> DEFINE t == WhichTable(d, k)
           old == Chain(d.ht[t], Hash[k])
           F == Found(d.ht[t], k)
           e == [key |-> k, val |-> v]
           c == (old \ F) \cup {e}
<1>1. /\ t \in 0..1 /\ d.ht[t].size # 0 /\ old \in SUBSET Entry /\ old \subseteq Stored(d.ht[t])
      /\ (t = 0 /\ old # {}) \/ t = IF dictIsRehashing(d) THEN 1 ELSE 0
      /\ \E x \in old : x.key = k /\ F = {x} /\ {y \in Contents(d) : y.key = k} = {x}
  BY WhereFound
<1>2. Overwrite(d, k, v) = SetChain(d, t, k, c, 0)
  BY DEF Overwrite
<1>3. e \in Entry /\ e.key = k
  BY DEF Entry
<1> HIDE DEF e
<1>4. Fits(d, t, k, c, old)
  BY <1>1, <1>3 DEF Fits
<1> HIDE DEF t, old, F
<1>5. PICK x \in old : x.key = k /\ F = {x} /\ {y \in Contents(d) : y.key = k} = {x}
  BY <1>1
<1>6. /\ Contents(d) = Stored(d.ht[t]) \cup Stored(d.ht[1 - t])
      /\ \A y, z \in Contents(d) : y.key = z.key => y = z
      /\ Stored(d.ht[t]) \cap Stored(d.ht[1 - t]) = {}
      /\ IsFiniteSet(Stored(d.ht[t]) \ {x})
      /\ Cardinality(Stored(d.ht[t]) \ {x}) = d.ht[t].used - 1
      /\ d.ht[t].used \in Nat
  BY <1>1, <1>5, AroundFound
<1> DEFINE S == (Stored(d.ht[t]) \ {x}) \cup {e}
<1>7. (Stored(d.ht[t]) \ old) \cup c = S
  BY <1>1, <1>5
<1>8. e \notin Stored(d.ht[t]) \ {x} /\ e \notin Stored(d.ht[1 - t])
  <2>1. x \in Stored(d.ht[t]) /\ \A y \in Contents(d) : y.key = k => y = x
    BY <1>1, <1>5
  <2> QED  BY <1>3, <1>6, <2>1
<1>9. IsFiniteSet(S) /\ d.ht[t].used + 0 = Cardinality(S)
  <2> DEFINE P == Stored(d.ht[t]) \ {x}
  <2>1. IsFiniteSet(P) /\ Cardinality(P) = d.ht[t].used - 1 /\ e \notin P
    BY <1>6, <1>8
  <2> HIDE DEF P
  <2>2. IsFiniteSet(P \cup {e}) /\ Cardinality(P \cup {e}) = Cardinality(P) + 1
    BY <2>1, FS_AddElement
  <2>3. Cardinality(P \cup {e}) = d.ht[t].used + 0
    BY <1>6, <2>1, <2>2
  <2> QED  BY <2>2, <2>3 DEF P
<1>10. \A y, z \in S \cup Stored(d.ht[1 - t]) : y.key = z.key => y = z
  <2>1. \A y \in (Stored(d.ht[t]) \ {x}) \cup Stored(d.ht[1 - t]) : y \in Contents(d) /\ y.key # k
    BY <1>1, <1>5, <1>6
  <2> QED  BY <1>3, <1>6, <2>1
<1>11. S \cap Stored(d.ht[1 - t]) = {}
  BY <1>6, <1>8
<1>12. S \cup Stored(d.ht[1 - t]) = {y \in Contents(d) : y.key # k} \cup {e}
  BY <1>1, <1>3, <1>5, <1>6
<1> DEFINE r == Overwrite(d, k, v)
<1>13. S = (Stored(d.ht[t]) \ old) \cup c /\ r = SetChain(d, t, k, c, 0) /\ Fits(d, t, k, c, old)
  BY <1>2, <1>4, <1>7
<1> HIDE DEF S, c, r
<1>14. Agrees(d, t, 0, S)
  BY <1>9, <1>10, <1>11 DEF Agrees
<1>15. Good(r) /\ r.iterators = d.iterators /\ Contents(r) = S \cup Stored(d.ht[1 - t])
  BY <1>13, <1>14, SetChainGood
<1> QED  BY <1>12, <1>15 DEF e, r

-----------------------------------------------------------------------------
(* The specification. *)

Inv == Good(dict) /\ dict_can_resize \in BOOLEAN

\* What every step does to the entries, besides keeping the invariant.
MapStep == Map!Next \/ Contents(dict') = Contents(dict)

\* dictAddRaw up to the insertion.
LEMMA BeforeAddGood ==
    ASSUME NEW d, Good(d), NEW r \in BeforeAdd(d)
    PROVE  /\ Good(r) /\ Contents(r) = Contents(d) /\ r.iterators = d.iterators
           /\ r.ht[IF dictIsRehashing(r) THEN 1 ELSE 0].size # 0
<1>1. PICK d1 \in dictRehashStep(d) : r \in dictExpandIfNeeded(d1)
  BY DEF BeforeAdd
<1>2. Good(d1) /\ Contents(d1) = Contents(d) /\ d1.iterators = d.iterators
  BY RehashStepGood
<1> QED  BY <1>1, <1>2, ExpandIfNeededGood

\* dictAdd() keeps the invariant and is a step of the abstract map.
LEMMA AddStep ==
    ASSUME Inv, NEW k \in Keys, NEW v \in Vals, dictAdd(k, v)
    PROVE  Inv' /\ MapStep
<1>1. PICK d \in BeforeAdd(dict) : dict' = IF Lookup(d, k) = {} THEN Insert(d, k, v) ELSE d
  BY DEF dictAdd
<1>2. Good(d) /\ Contents(d) = Contents(dict) /\ d.ht[IF dictIsRehashing(d) THEN 1 ELSE 0].size # 0
  BY BeforeAddGood DEF Inv
<1>3. dict_can_resize' \in BOOLEAN
  BY DEF dictAdd, Inv
<1>4. CASE Lookup(d, k) = {}
  <2>1. Good(dict') /\ Contents(dict') = Contents(d) \cup {[key |-> k, val |-> v]}
    BY <1>1, <1>2, <1>4, InsertGood
  <2>2. Map!At(k) = {}
    BY <1>2, <1>4, LookupIsExact DEF Map!At
  <2>3. Map!Add(k, v)
    BY <1>2, <2>1, <2>2 DEF Map!Add
  <2> QED  BY <1>3, <2>1, <2>3 DEF Inv, MapStep, Map!Next
<1>5. CASE Lookup(d, k) # {}
  BY <1>1, <1>2, <1>3, <1>5 DEF Inv, MapStep
<1> QED  BY <1>4, <1>5

\* dictReplace() keeps the invariant and is a step of the abstract map.
LEMMA ReplaceStep ==
    ASSUME Inv, NEW k \in Keys, NEW v \in Vals, dictReplace(k, v)
    PROVE  Inv' /\ MapStep
<1>1. PICK d \in BeforeAdd(dict) :
        dict' = IF Lookup(d, k) = {} THEN Insert(d, k, v) ELSE Overwrite(d, k, v)
  BY DEF dictReplace
<1>2. Good(d) /\ Contents(d) = Contents(dict) /\ d.ht[IF dictIsRehashing(d) THEN 1 ELSE 0].size # 0
  BY BeforeAddGood DEF Inv
<1>3. dict_can_resize' \in BOOLEAN
  BY DEF dictReplace, Inv
<1>4. Good(dict') /\ Contents(dict') = {e \in Contents(dict) : e.key # k} \cup {[key |-> k, val |-> v]}
  <2>1. CASE Lookup(d, k) = {}
    <3>1. Good(dict') /\ Contents(dict') = Contents(d) \cup {[key |-> k, val |-> v]}
      BY <1>1, <1>2, <2>1, InsertGood
    <3>2. {e \in Contents(d) : e.key = k} = {}
      BY <1>2, <2>1, LookupIsExact
    <3> QED  BY <1>2, <3>1, <3>2
  <2>2. CASE Lookup(d, k) # {}
    BY <1>1, <1>2, <2>2, OverwriteGood
  <2> QED  BY <2>1, <2>2
<1>5. Map!Replace(k, v)
  BY <1>4 DEF Map!Replace, Map!At
<1> QED  BY <1>3, <1>4, <1>5 DEF Inv, MapStep, Map!Next

\* dictDelete() keeps the invariant and is a step of the abstract map.
LEMMA DeleteStep ==
    ASSUME Inv, NEW k \in Keys, dictDelete(k)
    PROVE  Inv' /\ MapStep
<1>1. PICK d \in dictRehashStep(dict) : dict' = IF Lookup(d, k) = {} THEN d ELSE Remove(d, k)
  BY DEF dictDelete
<1>2. Good(d) /\ Contents(d) = Contents(dict)
  BY RehashStepGood DEF Inv
<1>3. dict_can_resize' \in BOOLEAN
  BY DEF dictDelete, Inv
<1>4. CASE Lookup(d, k) = {}
  BY <1>1, <1>2, <1>3, <1>4 DEF Inv, MapStep
<1>5. CASE Lookup(d, k) # {}
  <2>1. Good(dict') /\ Contents(dict') = {e \in Contents(dict) : e.key # k}
    BY <1>1, <1>2, <1>5, RemoveGood
  <2>2. Map!Delete(k)
    BY <2>1 DEF Map!Delete, Map!At
  <2> QED  BY <1>3, <2>1, <2>2 DEF Inv, MapStep, Map!Next
<1> QED  BY <1>4, <1>5

\* Only the number of safe iterators changes.
LEMMA IteratorsGood ==
    ASSUME NEW d, Good(d), NEW i \in 0..MaxIterators, NEW r, r = [d EXCEPT !.iterators = i]
    PROVE  Good(r) /\ Contents(r) = Contents(d)
<1>1. r = [ht |-> d.ht, rehashidx |-> d.rehashidx, iterators |-> i]
  BY DEF Good, IsDict
<1>2. r.ht = d.ht /\ r.rehashidx = d.rehashidx /\ r.iterators = i
  BY <1>1
<1>3. IsDict(r)
  <2>1. d.ht = [t \in 0..1 |-> d.ht[t]] /\ IsTable(d.ht[0]) /\ IsTable(d.ht[1]) /\ d.rehashidx \in Int
    BY DEF Good, IsDict
  <2> QED  BY <1>1, <1>2, <2>1 DEF IsDict
<1>4. Contents(r) = Contents(d)
  BY <1>2 DEF Contents
<1>5. HasUniqueKeys(r) /\ HasRehashShape(r)
  BY <1>2, <1>4 DEF Good, HasUniqueKeys, HasRehashShape, dictIsRehashing
<1> QED  BY <1>2, <1>3, <1>4, <1>5 DEF Good

\* Every step keeps the invariant and is a step of the map or a stutter.
LEMMA NextStep == ASSUME Inv, [Next]_vars PROVE Inv' /\ MapStep
<1> USE DEF Inv, MapStep
<1>0. MaxIterators \in Nat /\ dict.iterators \in 0..MaxIterators
  BY DictAssumption DEF Good, IsDict
<1>1. CASE \E k \in Keys, v \in Vals : dictAdd(k, v) \/ dictReplace(k, v)
  BY <1>1, AddStep, ReplaceStep
<1>2. CASE \E k \in Keys : dictDelete(k)
  BY <1>2, DeleteStep
<1>3. CASE dictFind
  BY <1>3, RehashStepGood DEF dictFind
<1>4. CASE dictEmpty
  BY <1>4, EmptyDictGood DEF dictEmpty, Map!Next, Map!Clear
<1>5. CASE dictResize
  BY <1>5, ExpandGood DEF dictResize
<1>6. CASE incrementallyRehash
  BY <1>6, RehashGood DEF incrementallyRehash
<1>7. CASE updateDictResizePolicy
  BY <1>7 DEF updateDictResizePolicy
<1>8. CASE StartSafeIterator
  <2>1. dict.iterators + 1 \in 0..MaxIterators /\ dict' = [dict EXCEPT !.iterators = dict.iterators + 1]
    BY <1>0, <1>8 DEF StartSafeIterator
  <2> QED  BY <1>8, <2>1, IteratorsGood DEF StartSafeIterator
<1>9. CASE dictReleaseIterator
  <2>1. dict.iterators - 1 \in 0..MaxIterators /\ dict' = [dict EXCEPT !.iterators = dict.iterators - 1]
    BY <1>0, <1>9 DEF dictReleaseIterator
  <2> QED  BY <1>9, <2>1, IteratorsGood DEF dictReleaseIterator
<1>10. CASE UNCHANGED vars
  BY <1>10 DEF vars
<1> QED
  BY <1>1, <1>2, <1>3, <1>4, <1>5, <1>6, <1>7, <1>8, <1>9, <1>10 DEF Next

\* The inductive invariant: the dict is well formed at every moment.
THEOREM Invariance == Spec => []Inv
<1>1. Init => Inv
  BY EmptyDictGood DEF Init, Inv
<1>2. Inv /\ [Next]_vars => Inv'
  BY NextStep
<1> QED  BY <1>1, <1>2, PTL DEF Spec

\* The fields of the struct dict keep their types (TypeOK).
THEOREM TypeCorrect == Spec => []TypeOK
<1>1. Inv => TypeOK
  BY DEF Inv, Good, TypeOK
<1> QED  BY <1>1, Invariance, PTL

\* No operation, resize or partial rehash of dict.c misplaces an entry, stores
\* a key twice, leaves an entry below rehashidx or miscounts a table.
THEOREM TablesCorrect == Spec => []TablesConsistent
<1>1. Inv => TablesConsistent
  BY DEF Inv, Good, TablesConsistent, Placed, UniqueKeys, RehashShape, UsedExact
<1> QED  BY <1>1, Invariance, PTL

\* dictFind, dictDelete and dictAdd see exactly the stored keys, even in the
\* middle of a rehash.
THEOREM LookupCorrect == Spec => []LookupExact
<1>1. Inv => LookupExact
  BY LookupIsExact DEF Inv, LookupExact
<1> QED  BY <1>1, Invariance, PTL

\* _dictExpandIfNeeded always gets the table it asks for, so that dictAddRaw
\* refuses no new key and dictReplace never dereferences NULL.
THEOREM ExpandCorrect == Spec => []ExpandNeverFails
<1>1. ASSUME Inv, WantedSize(dict) # 0, NEW s \in NextPower(WantedSize(dict))
      PROVE  ~ExpandFails(dict, WantedSize(dict), s)
  <2>1. /\ dict.ht[0].size \in Nat /\ dict.ht[0].used \in Nat /\ InitialSize \in Nat \ {0}
        /\ dict.ht[0].size = 0 => dict.ht[0].used = 0
    <3>1. /\ Good(dict) /\ IsTable(dict.ht[0]) /\ CountsExactly(dict.ht[0])
          /\ dict.ht[0].size \in Nat /\ dict.ht[0].used \in Nat
      BY <1>1, GoodTable DEF Inv
    <3>2. ASSUME dict.ht[0].size = 0  PROVE Stored(dict.ht[0]) = {}
      BY <3>1, <3>2 DEF IsTable, Stored
    <3> QED  BY <3>1, <3>2, FS_EmptySet, DictAssumption DEF CountsExactly
  <2>2. s \in Nat \ {0} /\ s >= WantedSize(dict)
    BY DictAssumption DEF NextPower
  <2>3. ~dictIsRehashing(dict)
    BY <1>1 DEF WantedSize
  <2>4. \/ dict.ht[0].size = 0 /\ WantedSize(dict) = InitialSize
        \/ /\ dict.ht[0].size # 0 /\ dict.ht[0].used >= dict.ht[0].size
           /\ WantedSize(dict) = 2 * dict.ht[0].used
    BY <1>1, <2>3 DEF WantedSize
  <2> QED  BY <2>1, <2>2, <2>3, <2>4 DEF ExpandFails
<1>2. Inv => ExpandNeverFails
  BY <1>1 DEF ExpandNeverFails
<1> QED  BY <1>2, Invariance, PTL

\* Seen through the set of its entries the dict is the map of DictMap: no
\* step of a rehash is visible to callers.
THEOREM Refinement == Spec => MapSpec
<1>1. Init => Map!Init
  BY EmptyDictGood DEF Init, Map!Init
<1>2. Inv /\ [Next]_vars => [Map!Next]_(Contents(dict))
  BY NextStep DEF MapStep
<1> QED  BY <1>1, <1>2, Invariance, PTL DEF Spec, MapSpec, Map!Spec

-----------------------------------------------------------------------------
(* The safe iterator. *)

\* Key k is in bucket i of table t.
Holds(d, t, i, k) ==
    t \in 0..1 /\ i \in 0..(d.ht[t].size - 1) /\ k \in KeysOf(d.ht[t].table[i])

\* The iterator has not reached bucket i of table t yet.
IsAhead(it, t, i) == t > it.table \/ (t = it.table /\ i > it.index)

\* The fields of an iterator.
IsIter(it) ==
    /\ it.table \in 0..1 /\ it.index \in Int /\ it.index >= -1
    /\ it.current \subseteq Keys
    /\ it.current \cap it.pending = {}

\* The rest of the chain is where the iterator is.
PendingHeld(d, it) == \A k \in it.pending : Holds(d, it.table, it.index, k)

\* A key that was there all the time was returned, or is still to come.
StillToCome(d, it, k) ==
    k \in it.pending \/ \E t \in 0..1, i \in Nat : Holds(d, t, i, k) /\ IsAhead(it, t, i)

\* Keys that stay are returned or still to come.
NoneMissed(d, it, ret, kp) == \A k \in kp : k \in ret \/ StillToCome(d, it, k)

\* No key that was returned, and is still stored, is still to come.
NoneTwice(d, it, ret) == \A k \in ret : k \in KeysOf(Contents(d)) /\ ~StillToCome(d, it, k)

\* The iterator it of dict d, that has returned ret and owes the keys of kp.
IterOK(d, it, ret, kp) ==
    /\ IsIter(it) /\ PendingHeld(d, it)
    /\ NoneMissed(d, it, ret, kp) /\ NoneTwice(d, it, ret)

\* The inductive invariant.
IterInv ==
    /\ Inv
    /\ IterOK(dict, iter, returned, kept)
    /\ ~Iterating => iter = NoIter /\ returned = {} /\ kept = {}

-----------------------------------------------------------------------------
(* Where a key is. *)

\* A set of naturals has a least element.
LEMMA LeastNat ==
    ASSUME NEW S, S \subseteq Nat, S # {}
    PROVE  \E m \in S : \A n \in S : m <= n
<1> DEFINE R == OpToRel(<, Nat)
<1>1. \A m, n \in Nat : <<m, n>> \in R <=> m < n
  BY DEF OpToRel
<1>2. IsWellFoundedOn(R, Nat)
  BY NatLessThanWellFounded
<1> HIDE DEF R
<1>3. PICK m \in S : \A n \in S : ~(<<n, m>> \in R)
  BY <1>2, WFMin
<1>4. m \in Nat /\ \A n \in S : n \in Nat
  OBVIOUS
<1>5. \A n \in S : ~(n < m)
  BY <1>1, <1>3, <1>4, Zenon
<1>6. \A n \in S : m <= n
  BY <1>4, <1>5
<1> QED  BY <1>6

\* A key is in the bucket its hash selects, of the table that stores it.
LEMMA HoldsWhere ==
    ASSUME NEW d, Good(d), NEW t \in 0..1, NEW i, NEW k
    PROVE  Holds(d, t, i, k) <=> k \in KeysOf(Stored(d.ht[t])) /\ i = Hash[k] % d.ht[t].size
<1> DEFINE T == d.ht[t]
<1>1. IsTable(T) /\ IsPlaced(T) /\ T.size \in Nat
      /\ (T.size # 0 => \A h \in Nat : h % T.size \in 0..(T.size - 1))
  BY GoodTable
<1>2. DOMAIN T.table = 0..(T.size - 1)
  BY <1>1 DEF IsTable
<1> HIDE DEF T
<1>3. ASSUME NEW e \in T.table[i], i \in 0..(T.size - 1)  PROVE e \in Stored(T) /\ i = Hash[e.key] % T.size
  BY <1>1, <1>2, <1>3, StoredWhere DEF Stored
<1>4. ASSUME NEW e \in Stored(T)
      PROVE  Hash[e.key] % T.size \in 0..(T.size - 1) /\ e \in T.table[Hash[e.key] % T.size]
  <2>1. T.size # 0 /\ e \in Entry /\ e \in T.table[Hash[e.key] % T.size]
    BY <1>1, <1>4, StoredWhere
  <2>2. Hash[e.key] \in Nat
    BY <2>1, DictAssumption DEF Entry
  <2> QED  BY <1>1, <2>1, <2>2
<1>5. Holds(d, t, i, k) <=> i \in 0..(T.size - 1) /\ \E e \in T.table[i] : e.key = k
  BY DEF Holds, KeysOf, T
<1>6. k \in KeysOf(Stored(T)) <=> \E e \in Stored(T) : e.key = k
  BY DEF KeysOf
<1>7. Holds(d, t, i, k) <=> k \in KeysOf(Stored(T)) /\ i = Hash[k] % T.size
  BY <1>3, <1>4, <1>5, <1>6
<1> QED  BY <1>7 DEF T

\* Every stored key is in one bucket, and in no other.
LEMMA HoldsOnce ==
    ASSUME NEW d, Good(d), NEW k
    PROVE  /\ k \in KeysOf(Contents(d)) => \E t \in 0..1, i \in Nat : Holds(d, t, i, k)
           /\ \A t, i : Holds(d, t, i, k) => k \in KeysOf(Contents(d)) /\ k \in Keys /\ t \in 0..1 /\ i \in Nat
           /\ \A t, i, u, j : Holds(d, t, i, k) /\ Holds(d, u, j, k) => t = u /\ i = j
<1>1. \A t \in 0..1 : \A i : Holds(d, t, i, k) <=> k \in KeysOf(Stored(d.ht[t])) /\ i = Hash[k] % d.ht[t].size
  BY HoldsWhere
<1>2. \A t, i : Holds(d, t, i, k) => t \in 0..1 /\ i \in Nat
  <2>1. \A t \in 0..1 : d.ht[t].size \in Nat
    BY GoodTable
  <2> QED  BY <2>1 DEF Holds
<1>3. k \in KeysOf(Contents(d)) <=> \E t \in 0..1 : k \in KeysOf(Stored(d.ht[t]))
  BY DEF KeysOf, Contents
<1>4. ASSUME k \in KeysOf(Stored(d.ht[0])), k \in KeysOf(Stored(d.ht[1]))  PROVE FALSE
  <2>1. PICK e \in Stored(d.ht[0]) : e.key = k
    BY <1>4 DEF KeysOf
  <2>2. PICK f \in Stored(d.ht[1]) : f.key = k
    BY <1>4 DEF KeysOf
  <2>3. HasUniqueKeys(d)
    BY DEF Good
  <2> QED  BY <2>1, <2>2, <2>3 DEF HasUniqueKeys, Contents
<1>5. \A t \in 0..1 : \A e \in Stored(d.ht[t]) : e \in Entry
  BY GoodTable, StoredWhere
<1>6. k \in KeysOf(Contents(d)) => k \in Keys
  BY <1>3, <1>5 DEF KeysOf, Entry
<1>7. ASSUME NEW t \in 0..1, k \in KeysOf(Stored(d.ht[t]))
      PROVE  Holds(d, t, Hash[k] % d.ht[t].size, k)
  BY <1>1, <1>7
<1> QED  BY <1>1, <1>2, <1>3, <1>4, <1>6, <1>7
-----------------------------------------------------------------------------
(* dictNext(). *)

\* The buckets ahead of the iterator are the ones that are not empty; only a
\* dict in the middle of a rehash has some in its second table.
LEMMA AheadWhere ==
    ASSUME NEW d, Good(d), NEW it
    PROVE  /\ \A p \in Ahead(d, it) :
                 /\ p[1] \in 0..1 /\ p[2] \in 0..(d.ht[p[1]].size - 1)
                 /\ d.ht[p[1]].table[p[2]] # {} /\ IsAhead(it, p[1], p[2])
           /\ \A t \in 0..1 : \A i \in 0..(d.ht[t].size - 1) :
                 d.ht[t].table[i] # {} /\ IsAhead(it, t, i) => <<t, i>> \in Ahead(d, it)
<1> DEFINE ts == IF dictIsRehashing(d) THEN 0..1 ELSE {0}
<1>1. \A t \in 0..1 : d.ht[t].size \in Nat /\ (d.ht[t].size # 0 => t \in ts)
  <2>1. d.ht[0].size \in Nat /\ d.ht[1].size \in Nat
    BY GoodTable
  <2>2. ~dictIsRehashing(d) => d.ht[1].size = 0
    BY DEF Good, HasRehashShape
  <2> QED  BY <2>1, <2>2
<1>2. ts \subseteq 0..1
  OBVIOUS
<1>3. Ahead(d, it) = {p \in Buckets(d, ts) : p[1] > it.table \/ (p[1] = it.table /\ p[2] > it.index)}
  BY DEF Ahead
<1> HIDE DEF ts
<1>4. \A p : p \in Buckets(d, ts) <=>
          \E t \in ts : \E i \in 0..(d.ht[t].size - 1) : d.ht[t].table[i] # {} /\ p = <<t, i>>
  BY DEF Buckets
<1>5. ASSUME NEW p \in Ahead(d, it)
      PROVE  /\ p[1] \in 0..1 /\ p[2] \in 0..(d.ht[p[1]].size - 1)
             /\ d.ht[p[1]].table[p[2]] # {} /\ IsAhead(it, p[1], p[2])
  <2>1. p \in Buckets(d, ts) /\ IsAhead(it, p[1], p[2])
    BY <1>3 DEF IsAhead
  <2>2. PICK t \in ts : \E i \in 0..(d.ht[t].size - 1) : d.ht[t].table[i] # {} /\ p = <<t, i>>
    BY <1>4, <2>1
  <2>3. PICK i \in 0..(d.ht[t].size - 1) : d.ht[t].table[i] # {} /\ p = <<t, i>>
    BY <2>2
  <2>4. p[1] = t /\ p[2] = i
    BY <2>3
  <2> QED  BY <1>2, <2>1, <2>3, <2>4
<1>6. ASSUME NEW t \in 0..1, NEW i \in 0..(d.ht[t].size - 1), d.ht[t].table[i] # {}, IsAhead(it, t, i)
      PROVE  <<t, i>> \in Ahead(d, it)
  <2>1. t \in ts
    BY <1>1
  <2>2. <<t, i>> \in Buckets(d, ts)
    BY <1>4, <1>6, <2>1
  <2> QED  BY <1>3, <1>6, <2>2 DEF IsAhead
<1> QED  BY <1>5, <1>6

\* The next bucket is there when some bucket is, and is passed by none.
LEMMA NearestWhere ==
    ASSUME NEW d, Good(d), NEW it
    PROVE  /\ Ahead(d, it) # {} => Nearest(d, it) # {}
           /\ \A p \in Nearest(d, it) : \A q \in Ahead(d, it) :
                 p \in Ahead(d, it) /\ (q[1] > p[1] \/ (q[1] = p[1] /\ q[2] >= p[2]))
<1> DEFINE A == Ahead(d, it)
           Pos(p) == Position(d, p[1], p[2])
<1>1. d.ht[0].size \in Nat /\ d.ht[1].size \in Nat
  BY GoodTable
<1>2. \A p \in A : p[1] \in 0..1 /\ p[2] \in 0..(d.ht[p[1]].size - 1)
  BY AheadWhere
<1>3. Nearest(d, it) = {p \in A : \A q \in A : Pos(p) <= Pos(q)}
  BY DEF Nearest
<1>4. \A p \in A : Pos(p) = p[1] * d.ht[0].size + p[2]
  BY DEF Position
<1> HIDE DEF A, Pos
<1>5. \A p \in A : /\ Pos(p) \in Nat /\ p[1] \in {0, 1} /\ p[2] \in Nat
                   /\ p[1] = 0 => Pos(p) = p[2] /\ p[2] < d.ht[0].size
                   /\ p[1] = 1 => Pos(p) = d.ht[0].size + p[2]
  <2> SUFFICES ASSUME NEW p \in A
               PROVE  /\ Pos(p) \in Nat /\ p[1] \in {0, 1} /\ p[2] \in Nat
                      /\ p[1] = 0 => Pos(p) = p[2] /\ p[2] < d.ht[0].size
                      /\ p[1] = 1 => Pos(p) = d.ht[0].size + p[2]
    OBVIOUS
  <2>1. p[1] = 0 \/ p[1] = 1
    BY <1>2
  <2>2. CASE p[1] = 0
    BY <1>1, <1>2, <1>4, <2>2
  <2>3. CASE p[1] = 1
    BY <1>1, <1>2, <1>4, <2>3
  <2> QED  BY <2>1, <2>2, <2>3
<1>6. ASSUME A # {}  PROVE Nearest(d, it) # {}
  <2> DEFINE S == {Pos(p) : p \in A}
  <2>1. S \subseteq Nat /\ S # {}
    BY <1>5, <1>6
  <2>2. \E m \in S : \A n \in S : m <= n
    BY <2>1, LeastNat
  <2> QED  BY <1>3, <2>2
<1>7. ASSUME NEW p \in Nearest(d, it), NEW q \in A
      PROVE  p \in A /\ (q[1] > p[1] \/ (q[1] = p[1] /\ q[2] >= p[2]))
  <2>1. p \in A /\ Pos(p) <= Pos(q)
    BY <1>3, <1>7
  <2> QED  BY <1>1, <1>5, <1>7, <2>1
<1> QED  BY <1>6, <1>7 DEF A

\* One step of the iterator: it returns a key that was to come, and no other
\* key is lost or put back.
Advances(d, it, new, k) ==
    /\ new.current = {k} /\ k \notin new.pending /\ new.table \in 0..1 /\ new.index \in Nat
    /\ PendingHeld(d, new)
    /\ k \in Keys /\ k \in KeysOf(Contents(d)) /\ ~StillToCome(d, new, k)
    /\ \A q : StillToCome(d, it, q) <=> (q = k \/ StillToCome(d, new, q))

\* Inside a chain the next entry is returned.
LEMMA ChainAdvances ==
    ASSUME NEW d, Good(d), NEW it, IsIter(it), PendingHeld(d, it), NEW k \in it.pending,
           NEW new, new = Return(it.table, it.index, it.pending, k)
    PROVE  Advances(d, it, new, k)
<1>1. /\ new.table = it.table /\ new.index = it.index
      /\ new.pending = it.pending \ {k} /\ new.current = {k}
  BY DEF Return
<1>2. Holds(d, it.table, it.index, k)
  BY DEF PendingHeld
<1>3. k \in Keys /\ k \in KeysOf(Contents(d)) /\ it.table \in 0..1 /\ it.index \in Nat
  BY <1>2, HoldsOnce
<1>4. \A t, i : IsAhead(new, t, i) <=> IsAhead(it, t, i)
  BY <1>1 DEF IsAhead
<1>5. PendingHeld(d, new)
  BY <1>1 DEF PendingHeld
<1>6. ~StillToCome(d, new, k)
  <2>1. ASSUME NEW t \in 0..1, NEW i \in Nat, Holds(d, t, i, k), IsAhead(new, t, i)  PROVE FALSE
    <3>1. t = it.table /\ i = it.index
      BY <1>2, <2>1, HoldsOnce
    <3> QED  BY <1>1, <1>3, <2>1, <3>1 DEF IsAhead
  <2> QED  BY <1>1, <2>1 DEF StillToCome
<1>7. \A q : StillToCome(d, it, q) <=> (q = k \/ StillToCome(d, new, q))
  BY <1>1, <1>4 DEF StillToCome
<1> QED  BY <1>1, <1>3, <1>5, <1>6, <1>7 DEF Advances

\* At the end of a chain the head of the nearest one is returned.
LEMMA BucketAdvances ==
    ASSUME NEW d, Good(d), NEW it, IsIter(it), it.pending = {}, NEW p \in Nearest(d, it),
           NEW k \in KeysOf(d.ht[p[1]].table[p[2]]),
           NEW new, new = Return(p[1], p[2], KeysOf(d.ht[p[1]].table[p[2]]), k)
    PROVE  Advances(d, it, new, k)
<1> DEFINE chain == KeysOf(d.ht[p[1]].table[p[2]])
           t0 == p[1]
           i0 == p[2]
<1>1. new.table = t0 /\ new.index = i0 /\ new.pending = chain \ {k} /\ new.current = {k}
  BY DEF Return
<1>2. p \in Ahead(d, it)
  BY DEF Nearest
<1>3. t0 \in 0..1 /\ i0 \in 0..(d.ht[t0].size - 1) /\ IsAhead(it, t0, i0)
  BY <1>2, AheadWhere
<1>4. \A q : q \in chain <=> Holds(d, t0, i0, q)
  BY <1>3 DEF Holds
<1>5. k \in chain
  OBVIOUS
<1>6. \A q \in Ahead(d, it) : q[1] > t0 \/ (q[1] = t0 /\ q[2] >= i0)
  BY NearestWhere
<1> HIDE DEF chain, t0, i0
<1>7. k \in Keys /\ k \in KeysOf(Contents(d)) /\ i0 \in Nat
  BY <1>4, <1>5, HoldsOnce
<1>8. it.table \in 0..1 /\ it.index \in Int
  BY DEF IsIter
<1>9. ASSUME NEW q, NEW t \in 0..1, NEW i \in Nat, Holds(d, t, i, q), IsAhead(it, t, i)
      PROVE  q \in chain \/ IsAhead(new, t, i)
  <2>1. i \in 0..(d.ht[t].size - 1) /\ d.ht[t].table[i] # {}
    BY <1>9 DEF Holds, KeysOf
  <2>2. <<t, i>> \in Ahead(d, it)
    BY <1>9, <2>1, AheadWhere
  <2>3. t > t0 \/ (t = t0 /\ i >= i0)
    BY <1>6, <2>2
  <2>4. CASE t = t0 /\ i = i0
    BY <1>4, <1>9, <2>4
  <2>5. CASE ~(t = t0 /\ i = i0)
    <3>1. t0 \in Int /\ i0 \in Int /\ t \in Int /\ i \in Int
      BY <1>3, <1>7
    <3>2. t > t0 \/ (t = t0 /\ i > i0)
      BY <2>3, <2>5, <3>1
    <3> QED  BY <1>1, <3>2 DEF IsAhead
  <2> QED  BY <2>4, <2>5
<1>10. ASSUME NEW t \in 0..1, NEW i \in Nat, IsAhead(new, t, i)  PROVE IsAhead(it, t, i)
  <2>1. t0 \in Int /\ i0 \in Int /\ t \in Int /\ i \in Int /\ it.table \in Int /\ it.index \in Int
    BY <1>3, <1>7, <1>8
  <2>2. t > t0 \/ (t = t0 /\ i > i0)
    BY <1>1, <1>10 DEF IsAhead
  <2>3. t0 > it.table \/ (t0 = it.table /\ i0 > it.index)
    BY <1>3 DEF IsAhead
  <2>4. t > it.table \/ (t = it.table /\ i > it.index)
    BY <2>1, <2>2, <2>3
  <2> QED  BY <2>4 DEF IsAhead
<1>11. PendingHeld(d, new)
  BY <1>1, <1>4 DEF PendingHeld
<1>12. ~StillToCome(d, new, k)
  <2>1. ASSUME NEW t \in 0..1, NEW i \in Nat, Holds(d, t, i, k), IsAhead(new, t, i)  PROVE FALSE
    <3>1. t = t0 /\ i = i0
      BY <1>4, <1>5, <2>1, HoldsOnce
    <3>2. t > new.table \/ (t = new.table /\ i > new.index)
      BY <2>1 DEF IsAhead
    <3>3. t0 > t0 \/ i0 > i0
      BY <1>1, <3>1, <3>2
    <3>4. t0 \in Int /\ i0 \in Int
      BY <1>3, <1>7
    <3> QED  BY <3>3, <3>4
  <2> QED  BY <1>1, <2>1 DEF StillToCome
<1>13. ASSUME NEW q, StillToCome(d, it, q)  PROVE q = k \/ StillToCome(d, new, q)
  <2>1. PICK t \in 0..1, i \in Nat : Holds(d, t, i, q) /\ IsAhead(it, t, i)
    BY <1>13 DEF StillToCome
  <2>2. q \in chain \/ IsAhead(new, t, i)
    BY <1>9, <2>1
  <2> QED  BY <1>1, <2>1, <2>2 DEF StillToCome
<1>14. ASSUME NEW q, q = k \/ StillToCome(d, new, q)  PROVE StillToCome(d, it, q)
  <2>1. CASE q \in chain
    BY <1>3, <1>4, <1>7, <2>1 DEF StillToCome
  <2>2. CASE q \notin chain
    <3>1. PICK t \in 0..1, i \in Nat : Holds(d, t, i, q) /\ IsAhead(new, t, i)
      BY <1>1, <1>5, <1>14, <2>2 DEF StillToCome
    <3> QED  BY <1>10, <3>1 DEF StillToCome
  <2> QED  BY <2>1, <2>2
<1>15. \A q : StillToCome(d, it, q) <=> (q = k \/ StillToCome(d, new, q))
  BY <1>13, <1>14
<1> QED  BY <1>1, <1>3, <1>7, <1>11, <1>12, <1>15 DEF Advances

\* dictNext() returns a key it still owes, and never one it returned.
LEMMA NextKeepsIter ==
    ASSUME NEW d, Good(d), NEW it, NEW ret, NEW kp, IterOK(d, it, ret, kp),
           NEW new \in dictNext(d, it)
    PROVE  /\ IterOK(d, new, ret \cup new.current, kp)
           /\ new.current \cap ret = {}
<1>0. /\ IsIter(it) /\ PendingHeld(d, it)
      /\ NoneMissed(d, it, ret, kp) /\ NoneTwice(d, it, ret)
  BY DEF IterOK
<1>1. \E k : Advances(d, it, new, k)
  <2>1. CASE it.pending # {}
    <3>1. PICK k \in it.pending : new = Return(it.table, it.index, it.pending, k)
      BY <2>1 DEF dictNext
    <3> QED  BY <1>0, <3>1, ChainAdvances
  <2>2. CASE it.pending = {}
    <3>1. PICK p \in Nearest(d, it) : \E k \in KeysOf(d.ht[p[1]].table[p[2]]) :
              new = Return(p[1], p[2], KeysOf(d.ht[p[1]].table[p[2]]), k)
      BY <2>2 DEF dictNext
    <3>2. PICK k \in KeysOf(d.ht[p[1]].table[p[2]]) :
              new = Return(p[1], p[2], KeysOf(d.ht[p[1]].table[p[2]]), k)
      BY <3>1
    <3> QED  BY <1>0, <2>2, <3>2, BucketAdvances
  <2> QED  BY <2>1, <2>2
<1>2. PICK k : Advances(d, it, new, k)
  BY <1>1
<1>3. /\ new.current = {k} /\ k \notin new.pending /\ new.table \in 0..1 /\ new.index \in Nat
      /\ PendingHeld(d, new)
      /\ k \in Keys /\ k \in KeysOf(Contents(d)) /\ ~StillToCome(d, new, k)
      /\ \A q : StillToCome(d, it, q) <=> (q = k \/ StillToCome(d, new, q))
  BY <1>2 DEF Advances
<1>4. IsIter(new)
  BY <1>3 DEF IsIter
<1>5. k \notin ret
  BY <1>0, <1>3 DEF NoneTwice
<1>6. NoneMissed(d, new, ret \cup new.current, kp)
  BY <1>0, <1>3 DEF NoneMissed
<1>7. NoneTwice(d, new, ret \cup new.current)
  BY <1>0, <1>3 DEF NoneTwice
<1> QED  BY <1>3, <1>4, <1>5, <1>6, <1>7 DEF IterOK

\* When dictNext() returns NULL it owes nothing.
LEMMA EndComplete ==
    ASSUME NEW d, Good(d), NEW it, NEW ret, NEW kp, IterOK(d, it, ret, kp), dictNext(d, it) = {}
    PROVE  kp \subseteq ret
<1>1. it.pending = {}
  <2>1. ASSUME NEW k \in it.pending  PROVE FALSE
    <3>1. Return(it.table, it.index, it.pending, k) \in dictNext(d, it)
      BY <2>1 DEF dictNext
    <3> QED  BY <3>1
  <2> QED  BY <2>1
<1>2. Nearest(d, it) = {}
  <2>1. ASSUME NEW p \in Nearest(d, it)  PROVE FALSE
    <3>1. d.ht[p[1]].table[p[2]] # {}
      BY AheadWhere DEF Nearest
    <3>2. PICK k : k \in KeysOf(d.ht[p[1]].table[p[2]])
      BY <3>1 DEF KeysOf
    <3>3. Return(p[1], p[2], KeysOf(d.ht[p[1]].table[p[2]]), k) \in dictNext(d, it)
      BY <1>1, <3>2 DEF dictNext
    <3> QED  BY <3>3
  <2> QED  BY <2>1
<1>3. Ahead(d, it) = {}
  BY <1>2, NearestWhere
<1>4. ASSUME NEW k, StillToCome(d, it, k)  PROVE FALSE
  <2>1. PICK t \in 0..1, i \in Nat : Holds(d, t, i, k) /\ IsAhead(it, t, i)
    BY <1>1, <1>4 DEF StillToCome
  <2>2. i \in 0..(d.ht[t].size - 1) /\ d.ht[t].table[i] # {}
    BY <2>1 DEF Holds, KeysOf
  <2> QED  BY <1>3, <2>1, <2>2, AheadWhere
<1> QED  BY <1>4 DEF IterOK, NoneMissed

-----------------------------------------------------------------------------
(* The body of the loop. *)

\* Keys that stay in the dict stay in their bucket.
Stays(d, r) == \A t, i, k : Holds(d, t, i, k) /\ k \in KeysOf(Contents(r)) => Holds(r, t, i, k)

\* What an operation of the body, that deletes the keys of gone at most, does.
Keeps(d, r, gone) ==
    /\ Good(r) /\ r.iterators = d.iterators
    /\ Stays(d, r)
    /\ \A k \in KeysOf(Contents(d)) : k \in gone \/ k \in KeysOf(Contents(r))

\* A key that stays keeps its table, and the table its size.
SameTable(d, r) ==
    \A t \in 0..1 : \A k \in KeysOf(Stored(d.ht[t])) : k \in KeysOf(Contents(r)) =>
        k \in KeysOf(Stored(r.ht[t])) /\ r.ht[t].size = d.ht[t].size

\* That is enough for it to stay in its bucket.
LEMMA TableStays ==
    ASSUME NEW d, Good(d), NEW r, Good(r), SameTable(d, r)
    PROVE  Stays(d, r)
<1> SUFFICES ASSUME NEW t, NEW i, NEW k, Holds(d, t, i, k), k \in KeysOf(Contents(r))
             PROVE  Holds(r, t, i, k)
  BY DEF Stays
<1>1. t \in 0..1
  BY DEF Holds
<1>2. k \in KeysOf(Stored(d.ht[t])) /\ i = Hash[k] % d.ht[t].size
  BY <1>1, HoldsWhere
<1>3. k \in KeysOf(Stored(r.ht[t])) /\ i = Hash[k] % r.ht[t].size
  BY <1>1, <1>2 DEF SameTable
<1> QED  BY <1>1, <1>3, HoldsWhere

\* Two operations in a row, the first of which loses no key.
LEMMA KeepsTwice ==
    ASSUME NEW d, Good(d), NEW m, NEW r, NEW gone, Keeps(d, m, {}), Keeps(m, r, gone)
    PROVE  Keeps(d, r, gone)
<1>1. \A k \in KeysOf(Contents(d)) : k \in KeysOf(Contents(m))
  BY DEF Keeps
<1>2. ASSUME NEW t, NEW i, NEW k, Holds(d, t, i, k), k \in KeysOf(Contents(r))  PROVE Holds(r, t, i, k)
  <2>1. k \in KeysOf(Contents(m))
    BY <1>1, <1>2, HoldsOnce
  <2>2. Holds(m, t, i, k)
    BY <1>2, <2>1 DEF Keeps, Stays
  <2> QED  BY <1>2, <2>2 DEF Keeps, Stays
<1>3. Stays(d, r)
  BY <1>2 DEF Stays
<1> QED  BY <1>1, <1>3 DEF Keeps

\* dictExpand() under an iterator: the old table stays where it is.
LEMMA ExpandKeeps ==
    ASSUME NEW d, Good(d), NEW n, NEW r \in dictExpand(d, n)
    PROVE  Keeps(d, r, {})
<1>1. PICK s \in NextPower(n) :
        r = IF ExpandFails(d, n, s) THEN d
            ELSE IF d.ht[0].size = 0 THEN WithTable(d, 0, NewTable(s))
            ELSE [WithTable(d, 1, NewTable(s)) EXCEPT !.rehashidx = 0]
  BY DEF dictExpand
<1>2. Good(r) /\ Contents(r) = Contents(d) /\ r.iterators = d.iterators
  BY ExpandGood
<1>3. /\ d = [ht |-> d.ht, rehashidx |-> d.rehashidx, iterators |-> d.iterators]
      /\ d.ht = [t \in 0..1 |-> d.ht[t]] /\ IsTable(d.ht[0]) /\ IsTable(d.ht[1])
      /\ HasRehashShape(d)
  BY DEF Good, IsDict
<1>4. \A t \in 0..1 : r.ht[t] = d.ht[t] \/ Stored(d.ht[t]) = {}
  <2>1. CASE ExpandFails(d, n, s)
    BY <1>1, <2>1
  <2>2. CASE ~ExpandFails(d, n, s) /\ d.ht[0].size = 0
    <3>1. r.ht[1] = d.ht[1]
      BY <1>1, <1>3, <2>2 DEF WithTable
    <3>2. Stored(d.ht[0]) = {}
      BY <1>3, <2>2 DEF IsTable, Stored
    <3> QED  BY <3>1, <3>2
  <2>3. CASE ~ExpandFails(d, n, s) /\ d.ht[0].size # 0
    <3> DEFINE w == WithTable(d, 1, NewTable(s))
    <3>0. w = [ht |-> [t \in 0..1 |-> IF t = 1 THEN NewTable(s) ELSE d.ht[t]],
               rehashidx |-> d.rehashidx, iterators |-> d.iterators]
      BY <1>3 DEF WithTable
    <3>1. r.ht[0] = d.ht[0]
      <4>1. r = [w EXCEPT !.rehashidx = 0]
        BY <1>1, <2>3
      <4> HIDE DEF w
      <4> QED  BY <3>0, <4>1
    <3>2. Stored(d.ht[1]) = {}
      BY <1>3, <2>3 DEF IsTable, Stored, HasRehashShape, ExpandFails
    <3> QED  BY <3>1, <3>2
  <2> QED  BY <2>1, <2>2, <2>3
<1>5. SameTable(d, r)
  BY <1>4 DEF SameTable, KeysOf
<1>6. Stays(d, r)
  BY <1>2, <1>5, TableStays
<1> QED  BY <1>2, <1>6 DEF Keeps

\* Replacing a chain moves no key to another bucket.
LEMMA ChainKeeps ==
    ASSUME NEW d, NEW t, NEW k, NEW c, NEW old, Fits(d, t, k, c, old), NEW n \in Int,
           NEW r, r = SetChain(d, t, k, c, n), Good(r), r.iterators = d.iterators, NEW gone,
           \A x \in old : x \in c \/ x.key = k,
           k \in KeysOf(c) \/ (k \in gone /\ k \notin KeysOf(Contents(r)))
    PROVE  Keeps(d, r, gone)
<1>1. Good(d) /\ t \in 0..1
  BY DEF Fits
<1>2. /\ r.ht[1 - t] = d.ht[1 - t] /\ r.ht[t].size = d.ht[t].size
      /\ Stored(r.ht[t]) = (Stored(d.ht[t]) \ old) \cup c
  <2>1. Replaced(d, t, c, n, old, r)
    BY SetChainTables
  <2> QED  BY <2>1 DEF Replaced
<1>3. \A u \in 0..1 : u = t \/ u = 1 - t
  BY <1>1
<1>4. ASSUME NEW u \in 0..1, NEW q \in KeysOf(Stored(d.ht[u]))
      PROVE  /\ r.ht[u].size = d.ht[u].size
             /\ q \in KeysOf(Stored(r.ht[u])) \/ (q \in gone /\ q \notin KeysOf(Contents(r)))
  <2>1. CASE u = 1 - t
    BY <1>2, <1>4, <2>1
  <2>2. CASE u = t
    <3>1. PICK x \in Stored(d.ht[t]) : x.key = q
      BY <1>4, <2>2 DEF KeysOf
    <3>2. CASE x \notin old \/ x \in c
      BY <1>2, <2>2, <3>1, <3>2 DEF KeysOf
    <3>3. CASE x \in old /\ q = k
      BY <1>2, <2>2, <3>3 DEF KeysOf
    <3> QED  BY <1>2, <2>2, <3>1, <3>2, <3>3
  <2> QED  BY <1>3, <2>1, <2>2
<1>5. SameTable(d, r)
  BY <1>4 DEF SameTable
<1>6. Stays(d, r)
  BY <1>1, <1>5, TableStays
<1>7. ASSUME NEW q \in KeysOf(Contents(d))  PROVE q \in gone \/ q \in KeysOf(Contents(r))
  <2>1. PICK u \in 0..1 : q \in KeysOf(Stored(d.ht[u]))
    BY <1>7 DEF KeysOf, Contents
  <2>2. KeysOf(Stored(r.ht[u])) \subseteq KeysOf(Contents(r))
    BY <2>1 DEF KeysOf, Contents
  <2> QED  BY <1>4, <2>1, <2>2
<1> QED  BY <1>6, <1>7 DEF Keeps
\* The three ways dict.c changes a chain.
LEMMA InsertKeeps ==
    ASSUME NEW d, Good(d), NEW k \in Keys, NEW v \in Vals, Lookup(d, k) = {},
           d.ht[IF dictIsRehashing(d) THEN 1 ELSE 0].size # 0
    PROVE  Keeps(d, Insert(d, k, v), {})
<1> DEFINE t == IF dictIsRehashing(d) THEN 1 ELSE 0
           e == [key |-> k, val |-> v]
           old == Chain(d.ht[t], Hash[k])
           c == old \cup {e}
           r == Insert(d, k, v)
<1>1. Good(r) /\ r.iterators = d.iterators
  BY InsertGood
<1>2. r = SetChain(d, t, k, c, 1)
  BY DEF Insert
<1>3. t \in 0..1 /\ e \in Entry /\ e.key = k
  BY DEF Entry
<1>4. old \in SUBSET Entry
  <2>1. IsTable(d.ht[t]) /\ d.ht[t].size \in Nat \ {0} /\ Hash[k] % d.ht[t].size \in 0..(d.ht[t].size - 1)
    BY <1>3, GoodTable, DictAssumption
  <2>2. ASSUME NEW T, IsTable(T), T.size # 0, Hash[k] % T.size \in 0..(T.size - 1)
        PROVE  Chain(T, Hash[k]) \in SUBSET Entry
    BY <2>2 DEF IsTable, Chain
  <2> QED  BY <2>1, <2>2
<1> HIDE DEF e
<1>5. Fits(d, t, k, c, old)
  BY <1>3, <1>4 DEF Fits
<1>6. \A x \in old : x \in c
  OBVIOUS
<1>7. k \in KeysOf(c)
  BY <1>3 DEF KeysOf
<1> HIDE DEF t, old, c, r
<1>8. Keeps(d, r, {})
  BY <1>1, <1>2, <1>5, <1>6, <1>7, ChainKeeps
<1> QED  BY <1>8 DEF r

\* dictReplace() of a key that is there loses no key.
LEMMA OverwriteKeeps ==
    ASSUME NEW d, Good(d), NEW k \in Keys, NEW v \in Vals, Lookup(d, k) # {}
    PROVE  Keeps(d, Overwrite(d, k, v), {})
<1> DEFINE t == WhichTable(d, k)
           old == Chain(d.ht[t], Hash[k])
           F == Found(d.ht[t], k)
           e == [key |-> k, val |-> v]
           c == (old \ F) \cup {e}
           r == Overwrite(d, k, v)
<1>1. /\ t \in 0..1 /\ d.ht[t].size # 0 /\ old \in SUBSET Entry /\ old \subseteq Stored(d.ht[t])
      /\ (t = 0 /\ old # {}) \/ t = IF dictIsRehashing(d) THEN 1 ELSE 0
      /\ \E x \in old : x.key = k /\ F = {x} /\ {y \in Contents(d) : y.key = k} = {x}
  BY WhereFound
<1>2. Good(r) /\ r.iterators = d.iterators
  BY OverwriteGood
<1>3. r = SetChain(d, t, k, c, 0)
  BY DEF Overwrite
<1>4. e \in Entry /\ e.key = k
  BY DEF Entry
<1> HIDE DEF e
<1>5. Fits(d, t, k, c, old)
  BY <1>1, <1>4 DEF Fits
<1>6. \A x \in old : x \in c \/ x.key = k
  BY <1>1
<1>7. k \in KeysOf(c)
  BY <1>4 DEF KeysOf
<1> HIDE DEF t, old, F, c, r
<1>8. Keeps(d, r, {})
  BY <1>2, <1>3, <1>5, <1>6, <1>7, ChainKeeps
<1> QED  BY <1>8 DEF r

\* dictDelete() loses only the deleted key.
LEMMA RemoveKeeps ==
    ASSUME NEW d, Good(d), NEW k \in Keys, Lookup(d, k) # {}
    PROVE  Keeps(d, Remove(d, k), {k})
<1> DEFINE t == WhichTable(d, k)
           old == Chain(d.ht[t], Hash[k])
           F == Found(d.ht[t], k)
           c == old \ F
           r == Remove(d, k)
<1>1. /\ t \in 0..1 /\ d.ht[t].size # 0 /\ old \in SUBSET Entry /\ old \subseteq Stored(d.ht[t])
      /\ (t = 0 /\ old # {}) \/ t = IF dictIsRehashing(d) THEN 1 ELSE 0
      /\ \E x \in old : x.key = k /\ F = {x} /\ {y \in Contents(d) : y.key = k} = {x}
  BY WhereFound
<1>2. Good(r) /\ r.iterators = d.iterators /\ Contents(r) = {e \in Contents(d) : e.key # k}
  BY RemoveGood
<1>3. r = SetChain(d, t, k, c, -1)
  BY DEF Remove
<1>4. Fits(d, t, k, c, old)
  BY <1>1 DEF Fits
<1>5. \A x \in old : x \in c \/ x.key = k
  BY <1>1
<1>6. k \notin KeysOf(Contents(r))
  BY <1>2 DEF KeysOf
<1> DEFINE n == -1
           gone == {k}
<1>7. n \in Int /\ k \in gone /\ r = SetChain(d, t, k, c, n)
  BY <1>3
<1> HIDE DEF t, old, F, c, r, n, gone
<1>9. /\ Fits(d, t, k, c, old) /\ n \in Int /\ r = SetChain(d, t, k, c, n)
      /\ Good(r) /\ r.iterators = d.iterators
      /\ \A x \in old : x \in c \/ x.key = k
      /\ k \in KeysOf(c) \/ (k \in gone /\ k \notin KeysOf(Contents(r)))
  BY <1>2, <1>4, <1>5, <1>6, <1>7
<1>8. Keeps(d, r, gone)
  BY <1>9, ChainKeeps, Zenon
<1> QED  BY <1>8 DEF r, gone

\* Nothing at all.
LEMMA SameKeeps == ASSUME NEW d, Good(d)  PROVE Keeps(d, d, {})
BY DEF Keeps, Stays

\* Fewer keys may be gone than allowed.
LEMMA KeepsMore ==
    ASSUME NEW d, NEW r, NEW gone, NEW more, gone \subseteq more, Keeps(d, r, gone)
    PROVE  Keeps(d, r, more)
BY DEF Keeps

\* While a safe iterator is alive the operations of the body do no rehashing.
LEMMA BodyKeeps ==
    ASSUME Inv, IsIter(iter), Iterating, Body
    PROVE  Keeps(dict, dict', iter.current)
<1>0. Good(dict) /\ dictRehashStep(dict) = {dict} /\ dict.iterators # 0
  <2>1. dict.iterators \in Nat
    BY DictAssumption DEF Inv, Good, IsDict
  <2> QED  BY <2>1 DEF Inv, Iterating, dictRehashStep
<1>1. ASSUME NEW d \in BeforeAdd(dict)
      PROVE  /\ Keeps(dict, d, {}) /\ Good(d)
             /\ d.ht[IF dictIsRehashing(d) THEN 1 ELSE 0].size # 0
  <2>1. d \in dictExpandIfNeeded(dict)
    BY <1>0 DEF BeforeAdd
  <2>2. Keeps(dict, d, {})
    BY <1>0, <2>1, ExpandKeeps, SameKeeps DEF dictExpandIfNeeded
  <2> QED  BY <1>0, <2>2, BeforeAddGood
<1>2. ASSUME NEW k \in Keys, NEW v \in Vals, dictAdd(k, v)  PROVE Keeps(dict, dict', {})
  <2>1. PICK d \in BeforeAdd(dict) : dict' = IF Lookup(d, k) = {} THEN Insert(d, k, v) ELSE d
    BY <1>2 DEF dictAdd
  <2>2. Keeps(d, dict', {})
    BY <1>1, <2>1, InsertKeeps, SameKeeps
  <2> QED  BY <1>0, <1>1, <2>2, KeepsTwice
<1>3. ASSUME NEW k \in Keys, NEW v \in Vals, dictReplace(k, v)  PROVE Keeps(dict, dict', {})
  <2>1. PICK d \in BeforeAdd(dict) :
          dict' = IF Lookup(d, k) = {} THEN Insert(d, k, v) ELSE Overwrite(d, k, v)
    BY <1>3 DEF dictReplace
  <2>2. Keeps(d, dict', {})
    BY <1>1, <2>1, InsertKeeps, OverwriteKeeps
  <2> QED  BY <1>0, <1>1, <2>2, KeepsTwice
<1>4. ASSUME NEW k \in Keys, dictDelete(k)  PROVE Keeps(dict, dict', {k})
  <2>1. dict' = IF Lookup(dict, k) = {} THEN dict ELSE Remove(dict, k)
    BY <1>0, <1>4 DEF dictDelete
  <2>2. Keeps(dict, dict, {k})
    BY <1>0, SameKeeps, KeepsMore
  <2> QED  BY <1>0, <2>1, <2>2, RemoveKeeps
<1>5. ASSUME dictFind  PROVE Keeps(dict, dict', {})
  BY <1>0, <1>5, SameKeeps DEF dictFind
<1>6. ASSUME dictResize  PROVE Keeps(dict, dict', {})
  BY <1>0, <1>6, ExpandKeeps DEF dictResize
<1>7. ~incrementallyRehash /\ ~updateDictResizePolicy
  BY <1>0 DEF incrementallyRehash, updateDictResizePolicy
<1>8. CASE \E k \in Keys, v \in Vals : dictAdd(k, v) \/ dictReplace(k, v)
  <2>1. Keeps(dict, dict', {})
    BY <1>2, <1>3, <1>8
  <2> QED  BY <2>1, KeepsMore
<1>9. CASE \E k \in iter.current : dictDelete(k)
  <2>1. PICK k \in iter.current : dictDelete(k)
    BY <1>9
  <2>2. k \in Keys /\ {k} \subseteq iter.current
    BY <2>1 DEF IsIter
  <2> QED  BY <1>4, <2>1, <2>2, KeepsMore
<1>10. CASE dictFind \/ dictResize
  <2>1. Keeps(dict, dict', {})
    BY <1>5, <1>6, <1>10
  <2> QED  BY <2>1, KeepsMore
<1> QED  BY <1>7, <1>8, <1>9, <1>10 DEF Body

\* Such an operation leaves the iterator what it owes.
LEMMA KeepsIter ==
    ASSUME NEW d, Good(d), NEW it, NEW ret, NEW kp, IterOK(d, it, ret, kp),
           NEW r, Keeps(d, r, it.current)
    PROVE  IterOK(r, it, ret \cap KeysOf(Contents(r)), kp \cap KeysOf(Contents(r)))
<1>0. /\ IsIter(it) /\ PendingHeld(d, it)
      /\ NoneMissed(d, it, ret, kp) /\ NoneTwice(d, it, ret)
      /\ Good(r) /\ Stays(d, r)
      /\ \A k \in KeysOf(Contents(d)) : k \in it.current \/ k \in KeysOf(Contents(r))
  BY DEF IterOK, Keeps
<1>1. PendingHeld(r, it)
  <2>1. ASSUME NEW k \in it.pending  PROVE Holds(r, it.table, it.index, k)
    <3>1. Holds(d, it.table, it.index, k)
      BY <1>0 DEF PendingHeld
    <3>2. k \in KeysOf(Contents(d)) /\ k \notin it.current
      BY <1>0, <3>1, HoldsOnce DEF IsIter
    <3> QED  BY <1>0, <3>1, <3>2 DEF Stays
  <2> QED  BY <2>1 DEF PendingHeld
<1>2. ASSUME NEW k \in KeysOf(Contents(r)), StillToCome(d, it, k)  PROVE StillToCome(r, it, k)
  BY <1>0, <1>2 DEF StillToCome, Stays
<1>3. ASSUME NEW k \in KeysOf(Contents(r)), k \in KeysOf(Contents(d)), StillToCome(r, it, k)
      PROVE  StillToCome(d, it, k)
  <2>1. CASE k \in it.pending
    BY <2>1 DEF StillToCome
  <2>2. CASE k \notin it.pending
    <3>1. PICK t \in 0..1, i \in Nat : Holds(r, t, i, k) /\ IsAhead(it, t, i)
      BY <1>3, <2>2 DEF StillToCome
    <3>2. PICK u \in 0..1, j \in Nat : Holds(d, u, j, k)
      BY <1>3, HoldsOnce
    <3>3. Holds(r, u, j, k)
      BY <1>0, <1>3, <3>2 DEF Stays
    <3>4. u = t /\ j = i
      BY <1>0, <3>1, <3>3, HoldsOnce
    <3> QED  BY <3>1, <3>2, <3>4 DEF StillToCome
  <2> QED  BY <2>1, <2>2
<1>4. NoneMissed(r, it, ret \cap KeysOf(Contents(r)), kp \cap KeysOf(Contents(r)))
  BY <1>0, <1>2 DEF NoneMissed
<1>5. NoneTwice(r, it, ret \cap KeysOf(Contents(r)))
  BY <1>0, <1>3 DEF NoneTwice
<1> QED  BY <1>0, <1>1, <1>4, <1>5 DEF IterOK

-----------------------------------------------------------------------------
(* The specification. *)

\* Before its first step an iterator owes every key.
LEMMA FreshIter ==
    ASSUME NEW d, Good(d)
    PROVE  IterOK(d, NoIter, {}, KeysOf(Contents(d))) /\ IterOK(d, NoIter, {}, {})
<1>1. /\ NoIter.table = 0 /\ NoIter.index = -1 /\ NoIter.pending = {} /\ NoIter.current = {}
  BY DEF NoIter
<1>2. IsIter(NoIter) /\ PendingHeld(d, NoIter)
  BY <1>1 DEF IsIter, PendingHeld
<1>3. ASSUME NEW k \in KeysOf(Contents(d))  PROVE StillToCome(d, NoIter, k)
  <2>1. PICK t \in 0..1, i \in Nat : Holds(d, t, i, k)
    BY HoldsOnce
  <2>2. IsAhead(NoIter, t, i)
    BY <1>1 DEF IsAhead
  <2> QED  BY <2>1, <2>2 DEF StillToCome
<1> QED  BY <1>2, <1>3 DEF IterOK, NoneMissed, NoneTwice

\* What dictNext() does depends on the tables only.
LEMMA SameTables ==
    ASSUME NEW d, NEW r, r.ht = d.ht, NEW it, NEW ret, NEW kp, IterOK(d, it, ret, kp)
    PROVE  IterOK(r, it, ret, kp)
<1>1. \A t, i, k : Holds(r, t, i, k) <=> Holds(d, t, i, k)
  BY DEF Holds
<1>2. \A k : StillToCome(r, it, k) <=> StillToCome(d, it, k)
  BY <1>1 DEF StillToCome
<1>3. Contents(r) = Contents(d)
  BY DEF Contents
<1> QED  BY <1>1, <1>2, <1>3 DEF IterOK, PendingHeld, NoneMissed, NoneTwice

\* The steps of the iterator's specification are steps of the dict's.
LEMMA IterNextIsNext == ASSUME IterInv, [IterNext]_iterVars PROVE [Next]_vars
<1>1. iter.current \subseteq Keys
  BY DEF IterInv, IterOK, IsIter
<1>2. CASE FirstNext
  BY <1>2 DEF FirstNext, Next
<1>3. CASE Body
  BY <1>1, <1>3 DEF Body, Next
<1>4. CASE NextEntry
  BY <1>4 DEF NextEntry
<1>5. CASE Release
  BY <1>5 DEF Release, Next
<1>6. CASE UNCHANGED iterVars
  BY <1>6 DEF iterVars
<1> QED  BY <1>2, <1>3, <1>4, <1>5, <1>6 DEF IterNext
\* Every step keeps the invariant, and returns no key twice.
LEMMA IterStep ==
    ASSUME IterInv, [IterNext]_iterVars
    PROVE  IterInv' /\ (Iterating /\ iter' # iter => iter'.current \cap returned = {})
<1>1. Inv' /\ Inv /\ Good(dict) /\ Good(dict')
  BY IterNextIsNext, NextStep DEF IterInv, Inv
<1>2. IterOK(dict, iter, returned, kept) /\ (~Iterating => iter = NoIter /\ returned = {} /\ kept = {})
  BY DEF IterInv
<1>3. NoIter.current = {}
  BY DEF NoIter
<1>4. CASE FirstNext
  <2>1. /\ ~Iterating /\ dict.iterators \in Nat /\ dict' = [dict EXCEPT !.iterators = dict.iterators + 1]
        /\ dict = [ht |-> dict.ht, rehashidx |-> dict.rehashidx, iterators |-> dict.iterators]
    BY <1>1, <1>4, DictAssumption DEF FirstNext, StartSafeIterator, Good, IsDict
  <2>2. dict'.ht = dict.ht /\ dict'.iterators = dict.iterators + 1
    BY <2>1
  <2>3. Iterating'
    BY <2>1, <2>2 DEF Iterating
  <2>4. kept' = KeysOf(Contents(dict)) /\ returned' = iter'.current
    BY <1>4 DEF FirstNext
  <2>5. IterOK(dict, NoIter, {}, KeysOf(Contents(dict)))
    BY <1>1, FreshIter
  <2>6. IterOK(dict, iter', returned', kept')
    <3>1. CASE dictNext(dict, NoIter) = {}
      BY <1>3, <1>4, <2>4, <2>5, <3>1 DEF FirstNext
    <3>2. CASE dictNext(dict, NoIter) # {}
      <4>1. iter' \in dictNext(dict, NoIter)
        BY <1>4, <3>2 DEF FirstNext
      <4>2. IterOK(dict, iter', {} \cup iter'.current, KeysOf(Contents(dict)))
        BY <1>1, <2>5, <4>1, NextKeepsIter
      <4>3. {} \cup iter'.current = iter'.current
        OBVIOUS
      <4> QED  BY <2>4, <4>2, <4>3
    <3> QED  BY <3>1, <3>2
  <2>7. IterOK(dict', iter', returned', kept')
    BY <2>2, <2>6, SameTables
  <2> QED  BY <1>1, <2>1, <2>3, <2>7 DEF IterInv
<1>5. CASE Body
  <2>1. /\ iter' = iter /\ kept' = kept \cap KeysOf(Contents(dict'))
        /\ returned' = returned \cap KeysOf(Contents(dict'))
    BY <1>5 DEF Body
  <2>2. CASE Iterating
    <3>1. IsIter(iter)
      BY <1>2 DEF IterOK
    <3>2. Keeps(dict, dict', iter.current)
      BY <1>1, <1>5, <2>2, <3>1, BodyKeeps
    <3>3. IterOK(dict', iter', returned', kept')
      BY <1>1, <1>2, <2>1, <3>2, KeepsIter
    <3>4. Iterating'
      BY <2>2, <3>2 DEF Keeps, Iterating
    <3> QED  BY <1>1, <2>1, <3>3, <3>4 DEF IterInv
  <2>3. CASE ~Iterating
    <3>1. iter' = NoIter /\ returned' = {} /\ kept' = {}
      BY <1>2, <2>1, <2>3
    <3>2. IterOK(dict', NoIter, {}, {})
      BY <1>1, FreshIter
    <3> QED  BY <1>1, <2>3, <3>1, <3>2 DEF IterInv
  <2> QED  BY <2>2, <2>3
<1>6. CASE NextEntry
  <2>1. /\ Iterating /\ iter' \in dictNext(dict, iter) /\ returned' = returned \cup iter'.current
        /\ dict' = dict /\ kept' = kept
    BY <1>6 DEF NextEntry, vars
  <2>2. IterOK(dict, iter', returned \cup iter'.current, kept) /\ iter'.current \cap returned = {}
    BY <1>1, <1>2, <2>1, NextKeepsIter
  <2>3. Iterating'
    BY <2>1 DEF Iterating
  <2>4. IterOK(dict', iter', returned', kept')
    BY <2>1, <2>2
  <2> QED  BY <1>1, <2>2, <2>3, <2>4 DEF IterInv
<1>7. CASE Release
  <2>1. iter' = NoIter /\ returned' = {} /\ kept' = {}
    BY <1>7 DEF Release
  <2>2. IterOK(dict', NoIter, {}, {})
    BY <1>1, FreshIter
  <2> QED  BY <1>1, <1>3, <2>1, <2>2 DEF IterInv
<1>8. CASE UNCHANGED iterVars
  <2>1. dict' = dict /\ iter' = iter /\ returned' = returned /\ kept' = kept
    BY <1>8 DEF iterVars, vars
  <2> QED  BY <1>1, <1>2, <2>1 DEF IterInv, Iterating
<1> QED  BY <1>4, <1>5, <1>6, <1>7, <1>8 DEF IterNext

\* The inductive invariant holds at every moment of an iteration.
THEOREM IterInvariance == IterSpec => []IterInv
<1>1. IterInit => IterInv
  <2> SUFFICES ASSUME IterInit PROVE IterInv
    OBVIOUS
  <2>1. Inv /\ Good(dict) /\ iter = NoIter /\ returned = {} /\ kept = {}
    BY EmptyDictGood DEF IterInit, Init, Inv
  <2>2. IterOK(dict, NoIter, {}, {})
    BY <2>1, FreshIter
  <2> QED  BY <2>1, <2>2 DEF IterInv
<1>2. IterInv /\ [IterNext]_iterVars => IterInv'
  BY IterStep
<1> QED  BY <1>1, <1>2, PTL DEF IterSpec

\* A safe iterator never follows nextEntry to an entry that was freed or moved,
\* and when dictNext() returns NULL it has returned every key that was in the
\* dict all the time, whatever the body of the loop did and even if a rehash
\* started under it.
THEOREM IteratorCorrect == IterSpec => []IterSound
<1>1. ASSUME IterInv  PROVE IterSound
  <2>1. Good(dict) /\ IterOK(dict, iter, returned, kept)
    BY <1>1 DEF IterInv, Inv
  <2>2. NextEntryAlive
    <3> SUFFICES ASSUME Iterating, iter.pending # {}
                 PROVE  /\ iter.index < dict.ht[iter.table].size
                        /\ iter.pending \subseteq KeysOf(dict.ht[iter.table].table[iter.index])
      BY DEF NextEntryAlive
    <3>1. \A k \in iter.pending : Holds(dict, iter.table, iter.index, k)
      BY <2>1 DEF IterOK, PendingHeld
    <3>2. iter.index \in Int /\ iter.table \in 0..1
      BY <2>1 DEF IterOK, IsIter
    <3>3. dict.ht[iter.table].size \in Nat
      BY <2>1, <3>2, GoodTable
    <3> QED  BY <3>1, <3>2, <3>3 DEF Holds
  <2>3. IterComplete
    BY <2>1, EndComplete DEF IterComplete
  <2> QED  BY <2>2, <2>3 DEF IterSound
<1> QED  BY <1>1, IterInvariance, PTL

\* A safe iterator returns no key twice, unless the body deleted and re-added it.
THEOREM ReturnsOnce == IterSpec => IterOnce
<1>1. IterInv /\ [IterNext]_iterVars =>
          [Iterating /\ iter' # iter => iter'.current \cap returned = {}]_iterVars
  BY IterStep
<1> QED  BY <1>1, IterInvariance, PTL DEF IterSpec, IterOnce
=============================================================================
