------------------------------ MODULE Keyspace ------------------------------
(***************************************************************************)
(* The keyspace of a server and what its commands propagate: db.c,         *)
(* expire.c, evict.c and the write commands of t_string.c, t_hash.c,       *)
(* t_set.c and t_zset.c, one database.  A master executes the commands of  *)
(* its clients; what it propagates goes to a replica, some time later, and *)
(* to the append only file, in the file's translation (aof.c).  Commands   *)
(* are run by operators on a context x: the state of the server that runs  *)
(* them, the time, the role, and what has been propagated so far.          *)
(*                                                                         *)
(* A string holds a number or a text; texts, fields and members are        *)
(* abstract.  The result of floating point arithmetic carries the machine  *)
(* that computed it: two machines may print different digits.              *)
(***************************************************************************)
EXTENDS Integers, Sequences, FiniteSets, SequencesExt, FiniteSetsExt

CONSTANTS
    Keys,
    IntMembers,    \* members that are numbers: an intset can hold them
    LongMembers,   \* members and values too long for a ziplist
    MaxEntries,    \* set-max-intset-entries, hash- and zset-max-ziplist-entries
    MaxTime,
    Setups         \* by name: menu, local (commands of the replica's clients), localKeys, cmds, memory, policy

ASSUME KeyspaceAssumption == MaxEntries \in Nat /\ MaxTime \in Nat

VARIABLES
    setup,     \* never changes
    now,       \* the time; the clocks of the two servers agree
    master,    \* db, expires, slots (the keys in slots_to_keys), failed (an assertion)
    replica,   \* the same, and own: slaveKeysWithExpire
    link,      \* what the replica has still to execute
    file,      \* the append only file
    used       \* commands given so far

vars == <<setup, now, master, replica, link, file, used>>

Setting == Setups[setup]

Nil == [t |-> "none"]
NoTime == -1

Number(n) == [int |-> n]
Text(s)   == [text |-> s]
IsNumber(v) == "int" \in DOMAIN v
IsFloat(v)  == IsNumber(v) \/ v.text[1] = "float"
IsLong(v)   == IF IsNumber(v) THEN FALSE ELSE v.text[1] = "long"

Str(v) == [t |-> "string", enc |-> "raw", data |-> v]

EmptyServer == [db |-> [k \in Keys |-> Nil], expires |-> [k \in Keys |-> NoTime],
                slots |-> {}, own |-> {}, failed |-> FALSE]

-----------------------------------------------------------------------------
(* db.c *)

Checked(x, ok) == [x EXCEPT !.failed = @ \/ ~ok]

Exists(x, k) == x.db[k].t # "none"

\* The program is aborted if the key already exists.
dbAdd(x, k, o) ==
    [Checked(x, ~Exists(x, k)) EXCEPT !.db[k] = o, !.slots = @ \cup {k}]

\* The program is aborted if the key was not already present; the expire time stays.
dbOverwrite(x, k, o) == [Checked(x, Exists(x, k)) EXCEPT !.db[k] = o]

\* dbSyncDelete() and dbAsyncDelete() differ only in who frees the value.
dbDelete(x, k) ==
    [x EXCEPT !.expires[k] = NoTime, !.db[k] = Nil,
              !.slots = IF Exists(x, k) THEN @ \ {k} ELSE @]

removeExpire(x, k) == [Checked(x, Exists(x, k)) EXCEPT !.expires[k] = NoTime]

\* A writable slave remembers the keys its own clients give an expire time.
setExpire(x, k, when) ==
    [Checked(x, Exists(x, k)) EXCEPT
        !.expires[k] = when,
        !.own = IF x.role = "slave" /\ x.client # "master" THEN @ \cup {k} ELSE @]

propagateExpire(x, k) == [x EXCEPT !.out = Append(@, [op |-> "del", keys |-> <<k>>])]

LogicallyExpired(x, k) == x.expires[k] # NoTime /\ x.now > x.expires[k]

\* A key in expires is in the dict as well (the assertion of getExpire).
expireIfNeeded(x, k) ==
    LET y == Checked(x, x.expires[k] # NoTime => Exists(x, k))
    IN  IF LogicallyExpired(y, k) /\ y.role = "master"
        THEN dbDelete(propagateExpire(y, k), k) ELSE y

lookupKeyWrite(x, k) == expireIfNeeded(x, k)

setKey(x, k, o) ==
    LET y == lookupKeyWrite(x, k)
    IN  removeExpire(IF Exists(y, k) THEN dbOverwrite(y, k, o) ELSE dbAdd(y, k, o), k)

Dirty(x) == [x EXCEPT !.dirty = TRUE]

\* rewriteClientCommandVector(), or alsoPropagate() instead of the command.
Rewritten(x, cmds) == [x EXCEPT !.prop = cmds]

WrongType(x, k, t) == Exists(x, k) /\ x.db[k].t # t

-----------------------------------------------------------------------------
(* Keys. *)

delGenericCommand(x, c) ==
    {FoldLeft(LAMBDA y, k : LET z == expireIfNeeded(y, k)
                            IN  IF Exists(z, k) THEN Dirty(dbDelete(z, k)) ELSE z,
              x, c.keys)}

renameGenericCommand(x, c) ==
    LET y == lookupKeyWrite(x, c.key)
        z == lookupKeyWrite(y, c.dst)
        w == dbAdd(dbDelete(z, c.dst), c.dst, y.db[c.key])
        e == IF y.expires[c.key] = NoTime THEN w ELSE setExpire(w, c.dst, y.expires[c.key])
    IN  CASE ~Exists(y, c.key) \/ c.key = c.dst -> {y}
          [] Exists(z, c.dst) /\ c.nx           -> {z}
          [] OTHER -> {Dirty(dbDelete(e, c.key))}

\* Mutant: a time in the past deletes the key wherever the command is executed.
expireGenericCommand_Everywhere(x, c) ==
    LET when == IF c.op = "expire" THEN x.now + c.time ELSE c.time
        y    == lookupKeyWrite(x, c.key)
    IN  CASE ~Exists(y, c.key) -> {y}
          [] Exists(y, c.key) /\ when <= x.now
               -> {Dirty(Rewritten(dbDelete(y, c.key), <<[op |-> "del", keys |-> <<c.key>>]>>))}
          [] OTHER -> {Dirty(setExpire(y, c.key, when))}

\* A time in the past deletes the key, except on a slave or while loading.
expireGenericCommand(x, c) ==
    LET when == IF c.op = "expire" THEN x.now + c.time ELSE c.time
        y    == lookupKeyWrite(x, c.key)
    IN  CASE ~Exists(y, c.key) -> {y}
          [] Exists(y, c.key) /\ when <= x.now /\ x.role = "master"
               -> {Dirty(Rewritten(dbDelete(y, c.key), <<[op |-> "del", keys |-> <<c.key>>]>>))}
          [] OTHER -> {Dirty(setExpire(y, c.key, when))}

persistCommand(x, c) ==
    LET y == lookupKeyWrite(x, c.key)
    IN  {IF Exists(y, c.key) /\ y.expires[c.key] # NoTime
         THEN Dirty(removeExpire(y, c.key)) ELSE y}

\* emptyDb() of all the databases forgets the keys a writable slave tracks, of
\* one database it does not; FLUSHALL is propagated even if there was nothing.
flushCommand(x, c) ==
    LET y == [x EXCEPT !.db = EmptyServer.db, !.expires = EmptyServer.expires, !.slots = {},
                       !.own = IF c.op = "flushall" THEN {} ELSE @]
    IN  {IF c.op = "flushall" \/ \E k \in Keys : Exists(x, k) THEN Dirty(y) ELSE y}

restoreCommand(x, c) ==
    LET y == IF c.replace THEN x ELSE lookupKeyWrite(x, c.key)
        z == dbAdd(IF c.replace THEN dbDelete(y, c.key) ELSE y, c.key, c.obj)
    IN  {IF ~c.replace /\ Exists(y, c.key) THEN y
         ELSE Dirty(IF c.ttl = 0 THEN z ELSE setExpire(z, c.key, x.now + c.ttl))}

\* A slave only hides what is expired, and only from commands that read.
readCommand(x, c) == {expireIfNeeded(x, c.key)}

-----------------------------------------------------------------------------
(* Strings, t_string.c. *)

setGenericCommand(x, c) ==
    LET y == IF c.cond = "always" THEN x ELSE lookupKeyWrite(x, c.key)
        z == Dirty(setKey(y, c.key, Str(c.val)))
    IN  {IF (c.cond = "nx" /\ Exists(y, c.key)) \/ (c.cond = "xx" /\ ~Exists(y, c.key)) THEN y
         ELSE IF c.ttl = 0 THEN z ELSE setExpire(z, c.key, x.now + c.ttl)}

getsetCommand(x, c) ==
    LET y == expireIfNeeded(x, c.key)
    IN  {IF WrongType(y, c.key, "string") THEN y
         ELSE Dirty(setKey(y, c.key, Str(c.val)))}

msetGenericCommand(x, c) ==
    LET y == IF c.nx THEN FoldLeft(lookupKeyWrite, x, c.keys) ELSE x
    IN  {IF c.nx /\ \E i \in DOMAIN c.keys : Exists(y, c.keys[i]) THEN y
         ELSE Dirty(FoldLeft(LAMBDA z, k : setKey(z, k, Str(c.val)), y, c.keys))}

\* An absent key counts as 0.
incrDecrCommand(x, c) ==
    LET y   == lookupKeyWrite(x, c.key)
        old == IF Exists(y, c.key) THEN y.db[c.key].data ELSE Number(0)
        new == Str(Number(old.int + c.by))
    IN  {IF WrongType(y, c.key, "string") \/ ~IsNumber(old) THEN y
         ELSE Dirty(IF Exists(y, c.key) THEN dbOverwrite(y, c.key, new) ELSE dbAdd(y, c.key, new))}

\* The digits depend on the machine, so the result is propagated, with SET.
incrbyfloatCommand(x, c) ==
    LET y   == lookupKeyWrite(x, c.key)
        old == IF Exists(y, c.key) THEN y.db[c.key].data ELSE Number(0)
        new == Text(<<"float", x.host>>)
        z   == IF Exists(y, c.key) THEN dbOverwrite(y, c.key, Str(new)) ELSE dbAdd(y, c.key, Str(new))
        set == [op |-> "set", key |-> c.key, val |-> new, cond |-> "always", ttl |-> 0]
    IN  {IF WrongType(y, c.key, "string") \/ ~IsFloat(old) THEN y ELSE Rewritten(Dirty(z), <<set>>)}

\* APPEND and SETRANGE edit the text in place.
appendCommand(x, c) ==
    LET y == lookupKeyWrite(x, c.key)
    IN  {IF WrongType(y, c.key, "string") THEN y
         ELSE Dirty(IF Exists(y, c.key)
                    THEN dbOverwrite(y, c.key, Str(Text(<<"edited", y.db[c.key].data, c.val>>)))
                    ELSE dbAdd(y, c.key, Str(c.val)))}

-----------------------------------------------------------------------------
(* Sets, t_set.c. *)

setTypeCreate(m) == [t |-> "set", enc |-> IF m \in IntMembers THEN "intset" ELSE "ht", data |-> {}]

\* Mutant: only a member that is no number converts the set.
setTypeAdd_AnySize(o, m) ==
    [o EXCEPT !.data = @ \cup {m}, !.enc = IF m \in IntMembers THEN @ ELSE "ht"]

setTypeAdd(o, m) ==
    LET v == o.data \cup {m}
    IN  [o EXCEPT !.data = v,
                  !.enc = IF m \in IntMembers /\ Cardinality(v) <= MaxEntries THEN @ ELSE "ht"]

setTypeAddAll(o, members) == FoldSet(LAMBDA m, s : setTypeAdd(s, m), o, members)

\* The collection at k gets new contents; an empty one is deleted.
Shrink(x, k, v) ==
    IF v = {} THEN dbDelete(x, k) ELSE [x EXCEPT !.db[k].data = v]

saddCommand(x, c) ==
    LET y == lookupKeyWrite(x, c.key)
        z == IF Exists(y, c.key) THEN y ELSE dbAdd(y, c.key, setTypeCreate(c.members[1]))
        o == FoldLeft(setTypeAdd, z.db[c.key], c.members)
        w == [z EXCEPT !.db[c.key] = o]
    IN  {IF WrongType(y, c.key, "set") THEN y
         ELSE IF o.data = z.db[c.key].data THEN w ELSE Dirty(w)}

sremCommand(x, c) ==
    LET y == lookupKeyWrite(x, c.key)
    IN  {IF y.db[c.key].t # "set" \/ ToSet(c.members) \cap y.db[c.key].data = {} THEN y
         ELSE Dirty(Shrink(y, c.key, y.db[c.key].data \ ToSet(c.members)))}

smoveCommand(x, c) ==
    LET y == lookupKeyWrite(lookupKeyWrite(x, c.key), c.dst)
        z == Shrink(y, c.key, y.db[c.key].data \ {c.member})
        w == IF Exists(z, c.dst) THEN z ELSE dbAdd(z, c.dst, setTypeCreate(c.member))
    IN  {IF \/ y.db[c.key].t # "set" \/ WrongType(y, c.dst, "set") \/ c.key = c.dst
            \/ c.member \notin y.db[c.key].data
         THEN y ELSE Dirty([w EXCEPT !.db[c.dst] = setTypeAdd(@, c.member)])}

Srem(k, m) == [op |-> "srem", key |-> k, members |-> <<m>>]

spopCommand(x, c) ==
    LET y == lookupKeyWrite(x, c.key)
    IN  IF y.db[c.key].t # "set" THEN {y}
        ELSE {Rewritten(Dirty(Shrink(y, c.key, y.db[c.key].data \ {m})), <<Srem(c.key, m)>>) :
                 m \in y.db[c.key].data}

\* All the members: DEL.  Otherwise an SREM for each one; if few members remain
\* they are moved to a new set (SPOP_MOVE_STRATEGY_MUL), whose encoding starts anew.
spopWithCountCommand(x, c) ==
    LET y == expireIfNeeded(x, c.key)
        o == y.db[c.key]
        Popped(p) ==
            LET left  == o.data \ p
                moved == Cardinality(left) * 5 <= Cardinality(p)
                new   == setTypeAddAll(setTypeCreate(CHOOSE m \in left : TRUE), left)
            IN  Rewritten(Dirty([y EXCEPT !.db[c.key] = IF moved THEN new ELSE [@ EXCEPT !.data = left]]),
                          [i \in 1..Cardinality(p) |-> Srem(c.key, SetToSeq(p)[i])])
    IN  CASE o.t # "set" \/ c.count = 0 -> {y}
          [] o.t = "set" /\ c.count >= Cardinality(o.data)
               -> {Rewritten(Dirty(dbDelete(y, c.key)), <<[op |-> "del", keys |-> <<c.key>>]>>)}
          [] OTHER -> {Popped(p) : p \in {q \in SUBSET o.data : Cardinality(q) = c.count}}

\* SINTERSTORE stops at the first source that does not exist, with an empty result.
Sources(x, c) == FoldLeft(lookupKeyWrite, x, c.keys)

FirstMissing(x, keys) ==
    LET missing == {i \in DOMAIN keys : ~Exists(x, keys[i])}
    IN  IF missing = {} THEN Len(keys) ELSE Min(missing)

StoreResult(x, dst, o) ==
    LET y == dbDelete(x, dst)
    IN  IF o.data = {} THEN y ELSE dbAdd(y, dst, o)

sinterGenericCommand(x, c) ==
    LET n    == FirstMissing(Sources(x, c), c.keys)
        y    == FoldLeft(lookupKeyWrite, x, SubSeq(c.keys, 1, n))
        v(i) == y.db[c.keys[i]].data
        o    == setTypeAddAll([t |-> "set", enc |-> "intset", data |-> {}],
                              {m \in v(1) : \A i \in 2..n : m \in v(i)})
    IN  CASE \E i \in 1..n : WrongType(y, c.keys[i], "set") -> {y}
          [] \E i \in 1..n : ~Exists(y, c.keys[i])
               -> {IF Exists(y, c.dst) THEN Dirty(dbDelete(y, c.dst)) ELSE y}
          [] OTHER -> {Dirty(StoreResult(y, c.dst, o))}

sunionDiffGenericCommand(x, c) ==
    LET y    == Sources(x, c)
        v(i) == IF Exists(y, c.keys[i]) THEN y.db[c.keys[i]].data ELSE {}
        rest == UNION {v(i) : i \in 2..Len(c.keys)}
        o    == setTypeAddAll([t |-> "set", enc |-> "intset", data |-> {}],
                              IF c.op = "sunionstore" THEN v(1) \cup rest ELSE v(1) \ rest)
    IN  {IF \E i \in DOMAIN c.keys : WrongType(y, c.keys[i], "set") THEN y
         ELSE Dirty(StoreResult(y, c.dst, o))}

-----------------------------------------------------------------------------
(* Hashes, t_hash.c: a set of pairs of a field and its value. *)

createHashObject == [t |-> "hash", enc |-> "ziplist", data |-> {}]

hashTypeLookupWriteOrCreate(x, k) ==
    LET y == lookupKeyWrite(x, k) IN IF Exists(y, k) THEN y ELSE dbAdd(y, k, createHashObject)

\* A long field or value converts the hash before it is stored.
hashTypeTryConversion(o, f, v) ==
    IF f \in LongMembers \/ IsLong(v) THEN [o EXCEPT !.enc = "ht"] ELSE o

hashTypeSet(o, f, v) ==
    LET w == {p \in o.data : p[1] # f} \cup {<<f, v>>}
    IN  [o EXCEPT !.data = w, !.enc = IF Cardinality(w) > MaxEntries THEN "ht" ELSE @]

hashTypeExists(o, f) == \E p \in o.data : p[1] = f
hashTypeGetValue(o, f) == (CHOOSE p \in o.data : p[1] = f)[2]

\* HSET, and HSETNX, which converts the hash even when it stores nothing.
hsetCommand(x, c) ==
    LET y == hashTypeLookupWriteOrCreate(x, c.key)
        o == hashTypeTryConversion(y.db[c.key], c.field, c.val)
    IN  {IF WrongType(y, c.key, "hash") THEN y
         ELSE IF c.nx /\ hashTypeExists(o, c.field) THEN [y EXCEPT !.db[c.key] = o]
         ELSE Dirty([y EXCEPT !.db[c.key] = hashTypeSet(o, c.field, c.val)])}

hincrbyCommand(x, c) ==
    LET y   == hashTypeLookupWriteOrCreate(x, c.key)
        o   == y.db[c.key]
        old == IF hashTypeExists(o, c.field) THEN hashTypeGetValue(o, c.field) ELSE Number(0)
    IN  {IF WrongType(y, c.key, "hash") THEN y
         ELSE IF ~IsNumber(old) THEN y
         ELSE Dirty([y EXCEPT !.db[c.key] = hashTypeSet(o, c.field, Number(old.int + c.by))])}

\* Propagated as HSET of the result.
hincrbyfloatCommand(x, c) ==
    LET y   == hashTypeLookupWriteOrCreate(x, c.key)
        old == IF hashTypeExists(y.db[c.key], c.field) THEN hashTypeGetValue(y.db[c.key], c.field) ELSE Number(0)
        new == Text(<<"float", x.host>>)
        set == [op |-> "hset", key |-> c.key, field |-> c.field, val |-> new, nx |-> FALSE]
    IN  {IF WrongType(y, c.key, "hash") THEN y
         ELSE IF ~IsFloat(old) THEN y
         ELSE Rewritten(Dirty([y EXCEPT !.db[c.key] = hashTypeSet(@, c.field, new)]), <<set>>)}

hdelCommand(x, c) ==
    LET y == lookupKeyWrite(x, c.key)
    IN  {IF y.db[c.key].t # "hash" THEN y
         ELSE IF ~\E f \in ToSet(c.members) : hashTypeExists(y.db[c.key], f) THEN y
         ELSE Dirty(Shrink(y, c.key, {p \in y.db[c.key].data : p[1] \notin ToSet(c.members)}))}

-----------------------------------------------------------------------------
(* Sorted sets, t_zset.c: a set of pairs of a member and its score. *)

ZsetObject(enc) == [t |-> "zset", enc |-> enc, data |-> {}]

\* The sorted set after an addition and whether it added or updated a member.
zsetAdd(o, score, m, c) ==
    LET old  == {p \in o.data : p[1] = m}
        cur  == (CHOOSE p \in old : TRUE)[2]
        new  == IF c.incr /\ old # {} THEN cur + score ELSE score
        w    == (o.data \ old) \cup {<<m, new>>}
        fits == Cardinality(w) <= MaxEntries /\ m \notin LongMembers
    IN  CASE old # {} /\ c.nx -> <<o, FALSE>>
          [] old = {} /\ c.xx -> <<o, FALSE>>
          [] old # {} /\ ~c.nx -> <<[o EXCEPT !.data = w], new # cur>>
          [] OTHER -> <<[o EXCEPT !.data = w, !.enc = IF fits THEN @ ELSE "skiplist"], TRUE>>

\* XX does not create the key.
zaddGenericCommand(x, c) ==
    LET y == lookupKeyWrite(x, c.key)
        n == ZsetObject(IF MaxEntries = 0 \/ c.pairs[1][1] \in LongMembers THEN "skiplist" ELSE "ziplist")
        z == IF Exists(y, c.key) THEN y ELSE dbAdd(y, c.key, n)
        r == FoldLeft(LAMBDA a, p : LET b == zsetAdd(a[1], p[2], p[1], c) IN <<b[1], a[2] \/ b[2]>>,
                      <<z.db[c.key], FALSE>>, c.pairs)
        w == [z EXCEPT !.db[c.key] = r[1]]
    IN  {IF (~Exists(y, c.key) /\ c.xx) \/ WrongType(y, c.key, "zset") THEN y
         ELSE IF r[2] THEN Dirty(w) ELSE w}

\* ZREM, and ZREMRANGEBYSCORE: the members that go are given or are a range of scores.
Removed(o, c) ==
    {p \in o.data : IF c.op = "zrem" THEN p[1] \in ToSet(c.members) ELSE p[2] \in c.min..c.max}

zremCommand(x, c) ==
    LET y == lookupKeyWrite(x, c.key)
    IN  {IF y.db[c.key].t # "zset" THEN y
         ELSE IF Removed(y.db[c.key], c) = {} THEN y
         ELSE Dirty(Shrink(y, c.key, y.db[c.key].data \ Removed(y.db[c.key], c)))}

\* The members of a set count with score 1.
Scores(o) == IF o.t = "set" THEN {<<m, 1>> : m \in o.data} ELSE IF o.t = "zset" THEN o.data ELSE {}

zunionInterAggregate(how, scores) ==
    CASE how = "sum" -> FoldLeft(LAMBDA a, b : a + b, 0, scores)
      [] how = "min" -> Min(ToSet(scores))
      [] how = "max" -> Max(ToSet(scores))

zsetConvertToZiplistIfNeeded(v) ==
    [t |-> "zset", data |-> v,
     enc |-> IF Cardinality(v) <= MaxEntries /\ \A p \in v : p[1] \notin LongMembers
             THEN "ziplist" ELSE "skiplist"]

\* A source of another type ends the lookups; the destination may be a source.
zunionInterGenericCommand(x, c) ==
    LET y     == Sources(x, c)
        bad   == {i \in DOMAIN c.keys : WrongType(y, c.keys[i], "zset") /\ WrongType(y, c.keys[i], "set")}
        src   == [i \in DOMAIN c.keys |-> Scores(y.db[c.keys[i]])]
        Of(m) == SelectSeq(src, LAMBDA s : \E p \in s : p[1] = m)
        Score(m) == zunionInterAggregate(c.aggregate,
                        [i \in DOMAIN Of(m) |-> (CHOOSE p \in Of(m)[i] : p[1] = m)[2]])
        all   == {p[1] : p \in UNION ToSet(src)}
        in    == IF c.op = "zunionstore" THEN all ELSE {m \in all : Len(Of(m)) = Len(src)}
        o     == zsetConvertToZiplistIfNeeded({<<m, Score(m)>> : m \in in})
    IN  {IF bad # {} THEN FoldLeft(lookupKeyWrite, x, SubSeq(c.keys, 1, Min(bad)))
         ELSE IF in = {} /\ ~Exists(y, c.dst) THEN y ELSE Dirty(StoreResult(y, c.dst, o))}

-----------------------------------------------------------------------------
(* server.c: executing a command. *)

Run(x, c) ==
    CASE c.op = "del"        -> delGenericCommand(x, c)
      [] c.op = "rename"     -> renameGenericCommand(x, c)
      [] c.op \in {"expire", "pexpireat"} -> expireGenericCommand(x, c)
      [] c.op = "persist"    -> persistCommand(x, c)
      [] c.op \in {"flushdb", "flushall"} -> flushCommand(x, c)
      [] c.op = "restore"    -> restoreCommand(x, c)
      [] c.op = "read"       -> readCommand(x, c)
      [] c.op = "set"        -> setGenericCommand(x, c)
      [] c.op = "getset"     -> getsetCommand(x, c)
      [] c.op = "mset"       -> msetGenericCommand(x, c)
      [] c.op = "incrby"     -> incrDecrCommand(x, c)
      [] c.op = "incrbyfloat" -> incrbyfloatCommand(x, c)
      [] c.op = "append"     -> appendCommand(x, c)
      [] c.op = "sadd"       -> saddCommand(x, c)
      [] c.op = "srem"       -> sremCommand(x, c)
      [] c.op = "smove"      -> smoveCommand(x, c)
      [] c.op = "spop"       -> spopCommand(x, c)
      [] c.op = "spopcount"  -> spopWithCountCommand(x, c)
      [] c.op = "sinterstore" -> sinterGenericCommand(x, c)
      [] c.op \in {"sunionstore", "sdiffstore"} -> sunionDiffGenericCommand(x, c)
      [] c.op = "hset"       -> hsetCommand(x, c)
      [] c.op = "hincrby"    -> hincrbyCommand(x, c)
      [] c.op = "hincrbyfloat" -> hincrbyfloatCommand(x, c)
      [] c.op = "hdel"       -> hdelCommand(x, c)
      [] c.op = "zadd"       -> zaddGenericCommand(x, c)
      [] c.op \in {"zrem", "zremrangebyscore"} -> zremCommand(x, c)
      [] c.op \in {"zunionstore", "zinterstore"} -> zunionInterGenericCommand(x, c)

\* What the command propagates comes after the deletions it caused.
call(x, c) ==
    {[y EXCEPT !.out = IF y.dirty THEN @ \o y.prop ELSE @] :
        y \in Run([x EXCEPT !.dirty = FALSE, !.prop = <<c>>], c)}

Context(s, role, client, host) ==
    [db |-> s.db, expires |-> s.expires, slots |-> s.slots, own |-> s.own, failed |-> s.failed,
     role |-> role, client |-> client, host |-> host, now |-> now,
     out |-> <<>>, dirty |-> FALSE, prop |-> <<>>]

Server(x) == [db |-> x.db, expires |-> x.expires, slots |-> x.slots, own |-> x.own, failed |-> x.failed]

\* Commands without the flag m of the command table.
NoDenyOom == {"del", "rename", "expire", "pexpireat", "persist", "flushdb", "flushall", "read",
              "srem", "smove", "spop", "spopcount", "hdel", "zrem", "zremrangebyscore"}

KeysOf(x) == {k \in Keys : Exists(x, k)}

\* Which keys the policy may evict: the pool and the random choice pick any of them.
Evictable(x) ==
    CASE Setting.policy = "noeviction" -> {}
      [] Setting.policy = "allkeys"    -> KeysOf(x)
      [] Setting.policy = "volatile"   -> {k \in Keys : x.expires[k] # NoTime}

\* Every context the loop can stop in: each key holds one unit of memory.
freeMemoryIfNeeded(x) ==
    LET excess == Cardinality(KeysOf(x)) - Setting.memory
        n      == Min({excess, Cardinality(Evictable(x))})
        Evict(y, k) == dbDelete(propagateExpire(y, k), k)
    IN  IF excess <= 0 THEN {x}
        ELSE {FoldLeft(Evict, x, SetToSeq(s)) : s \in {t \in SUBSET Evictable(x) : Cardinality(t) = n}}

\* The command is refused when memory could not be freed.
processCommand(x, c) ==
    UNION {IF Cardinality(KeysOf(y)) > Setting.memory /\ c.op \notin NoDenyOom THEN {y} ELSE call(y, c) :
              y \in freeMemoryIfNeeded(x)}

\* feedAppendOnlyFile: relative times become absolute ones.
Translate(c) ==
    LET At(t) == [op |-> "pexpireat", key |-> c.key, time |-> now + t]
    IN  CASE c.op = "expire" -> <<At(c.time)>>
          [] c.op = "set" -> <<[c EXCEPT !.ttl = 0, !.cond = "always"]>>
                             \o (IF c.ttl = 0 THEN <<>> ELSE <<At(c.ttl)>>)
          [] OTHER -> <<c>>

-----------------------------------------------------------------------------

Init ==
    /\ setup \in DOMAIN Setups
    /\ now = 1
    /\ master = EmptyServer /\ replica = EmptyServer
    /\ link = <<>> /\ file = <<>> /\ used = 0

\* The master is in the state x leaves, which is what call() propagated.
MasterBecomes(x) ==
    /\ master' = Server(x)
    /\ link' = link \o x.out
    /\ file' = file \o FlattenSeq([i \in DOMAIN x.out |-> Translate(x.out[i])])

Client(c) ==
    /\ used < Setting.cmds
    /\ \E x \in processCommand(Context(master, "master", "user", "a"), c) : MasterBecomes(x)
    /\ used' = used + 1
    /\ UNCHANGED <<setup, now, replica>>

\* A turn of the loops of activeExpireCycle.
activeExpireCycle(k) ==
    LET x == Context(master, "master", "user", "a")
    IN  /\ LogicallyExpired(x, k)
        /\ MasterBecomes(dbDelete(propagateExpire(x, k), k))
        /\ UNCHANGED <<setup, now, replica, used>>

\* The replica executes what comes from its master.
Deliver ==
    /\ link # <<>>
    /\ \E x \in call(Context(replica, "slave", "master", "b"), Head(link)) : replica' = Server(x)
    /\ link' = Tail(link)
    /\ UNCHANGED <<setup, now, master, file, used>>

\* slave-read-only no.
SlaveClient(c) ==
    /\ used < Setting.cmds
    /\ \E x \in call(Context(replica, "slave", "user", "b"), c) : replica' = Server(x)
    /\ used' = used + 1
    /\ UNCHANGED <<setup, now, master, link, file>>

\* A turn of the loop: the key is deleted, still to be watched, or volatile no more.
expireSlaveKeys(k) ==
    LET x == Context(replica, "slave", "user", "b")
        y == IF LogicallyExpired(x, k) THEN dbDelete(x, k) ELSE x
    IN  /\ k \in replica.own
        /\ replica' = [Server(y) EXCEPT !.own = IF y.expires[k] # NoTime THEN @ ELSE @ \ {k}]
        /\ UNCHANGED <<setup, now, master, link, file, used>>

Tick ==
    /\ now < MaxTime
    /\ now' = now + 1
    /\ UNCHANGED <<setup, master, replica, link, file, used>>

Next ==
    \/ \E c \in Setting.menu : Client(c)
    \/ \E k \in Keys : activeExpireCycle(k)
    \/ Deliver
    \/ \E c \in Setting.local : SlaveClient(c)
    \/ \E k \in Keys : expireSlaveKeys(k)
    \/ Tick

Spec == Init /\ [][Next]_vars

-----------------------------------------------------------------------------
(* What must hold. *)

Replayed(x, cmds) == FoldLeft(LAMBDA y, c : CHOOSE z \in call(y, c) : TRUE, x, cmds)

\* An encoding may differ: HSETNX converts a hash even if it then stores nothing.
SameValue(o, p) == o.t = p.t /\ (o.t # "none" => o.data = p.data)

Shared == Keys \ Setting.localKeys

\* A replica that executes what is on its way to it, however late, has the keys
\* and the values of its master, and the same keys expire, none earlier; loading the
\* append only file gives exactly the master's keys, values and expire times.
ReplaySame ==
    LET r == Replayed(Context(replica, "slave", "master", "b"), link)
        f == Replayed(Context(EmptyServer, "loading", "aof", "c"), file)
    IN  /\ \A k \in Shared :
              /\ SameValue(r.db[k], master.db[k])
              /\ (r.expires[k] = NoTime) = (master.expires[k] = NoTime)
              /\ r.expires[k] >= master.expires[k]
        /\ \A k \in Keys : SameValue(f.db[k], master.db[k])
        /\ f.expires = master.expires
        /\ ~f.failed

CompactFits(o) ==
    CASE o.enc = "intset"  -> Cardinality(o.data) <= MaxEntries /\ o.data \subseteq IntMembers
      [] o.enc = "ziplist" -> Cardinality(o.data) <= MaxEntries
      [] OTHER -> TRUE

Sound(s) ==
    /\ ~s.failed
    /\ \A k \in Keys :
          /\ s.expires[k] # NoTime => s.db[k].t # "none"
          /\ (k \in s.slots) = (s.db[k].t # "none")
          /\ s.db[k].t \in {"set", "hash", "zset"} => s.db[k].data # {} /\ CompactFits(s.db[k])

\* A writable slave expires by itself what its own clients made volatile: such a key
\* is in the list of the keys to watch for as long as it can expire.
SlaveKeysTracked ==
    \A k \in Setting.localKeys : replica.expires[k] # NoTime => k \in replica.own

\* The dictionaries of a database agree (every key with an expire time exists, the
\* slot index has exactly the keys), no empty collection is stored, a compact
\* encoding is within its limit, no assertion of db.c fails, and a writable slave
\* watches every key it has to expire by itself (expire.c).
KeyspaceSound == Sound(master) /\ Sound(replica) /\ SlaveKeysTracked
=============================================================================
