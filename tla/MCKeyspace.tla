----------------------------- MODULE MCKeyspace -----------------------------
(***************************************************************************)
(* Keyspace with menus of commands for TLC, one per group of commands.     *)
(***************************************************************************)
EXTENDS Keyspace

Set(k, v, t)    == [op |-> "set", key |-> k, val |-> v, cond |-> "always", ttl |-> t]
Expire(k, t)    == [op |-> "expire", key |-> k, time |-> t]
ExpireAt(k, t)  == [op |-> "pexpireat", key |-> k, time |-> t]
Persist(k)      == [op |-> "persist", key |-> k]
Del(keys)       == [op |-> "del", keys |-> keys]
Rename(k, d, n) == [op |-> "rename", key |-> k, dst |-> d, nx |-> n]
Read(k)         == [op |-> "read", key |-> k]
Incr(k)         == [op |-> "incrby", key |-> k, by |-> 1]
IncrFloat(k)    == [op |-> "incrbyfloat", key |-> k]
Sadd(k, ms)     == [op |-> "sadd", key |-> k, members |-> ms]
SStore(o, d, ks) == [op |-> o, dst |-> d, keys |-> ks]
Hset(k, f, v)   == [op |-> "hset", key |-> k, field |-> f, val |-> v, nx |-> FALSE]
Zadd(k, ps)     == [op |-> "zadd", key |-> k, pairs |-> ps, nx |-> FALSE, xx |-> FALSE, incr |-> FALSE]
ZStore(o, d, ks, a) == [op |-> o, dst |-> d, keys |-> ks, aggregate |-> a]

A    == Text(<<"a">>)
Long == Text(<<"long">>)

Group(menu, cmds) == [menu |-> menu, local |-> {}, localKeys |-> {}, cmds |-> cmds,
                      memory |-> 99, policy |-> "noeviction"]

\* Expire times that pass while the command that sets or drops them is on its way.
Volatile == Group(
    {Set("x", Number(1), 1), Set("x", A, 0), [Set("x", A, 2) EXCEPT !.cond = "nx"],
     [Set("y", A, 0) EXCEPT !.cond = "xx"], Expire("x", 1), Expire("x", -1), ExpireAt("x", 2),
     Persist("x"), Rename("x", "y", FALSE), Rename("y", "x", TRUE), Incr("x"), Read("x"),
     Del(<<"y", "x">>), [op |-> "flushall"]}, 4)

Strings == Group(
    {Set("x", Number(1), 1), Incr("x"), IncrFloat("y"), [op |-> "append", key |-> "x", val |-> A],
     [op |-> "getset", key |-> "x", val |-> A], [op |-> "mset", keys |-> <<"x", "y">>, val |-> A, nx |-> FALSE],
     [op |-> "mset", keys |-> <<"y", "x">>, val |-> A, nx |-> TRUE], Sadd("x", <<"1">>),
     [op |-> "restore", key |-> "x", obj |-> Str(A), ttl |-> 0, replace |-> FALSE],
     [op |-> "restore", key |-> "y", obj |-> Str(A), ttl |-> 0, replace |-> TRUE], [op |-> "flushdb"]}, 3)

Sets == Group(
    {Sadd("x", <<"1">>), Sadd("x", <<"1", "2", "3">>), Sadd("y", <<"1", "m">>), Expire("x", 1), Set("z", A, 0),
     [op |-> "srem", key |-> "x", members |-> <<"1", "2">>], [op |-> "smove", key |-> "x", dst |-> "y", member |-> "1"],
     [op |-> "spop", key |-> "x"], [op |-> "spopcount", key |-> "x", count |-> 2],
     SStore("sinterstore", "z", <<"x", "y">>), SStore("sunionstore", "x", <<"x", "y">>),
     SStore("sdiffstore", "y", <<"x", "y">>)}, 4)

Hashes == Group(
    {Hset("x", "f", Number(1)), Hset("x", "g", Long), [Hset("x", "f", Long) EXCEPT !.nx = TRUE],
     [op |-> "hincrby", key |-> "x", field |-> "f", by |-> 1], [op |-> "hincrbyfloat", key |-> "x", field |-> "h"],
     [op |-> "hdel", key |-> "x", members |-> <<"f", "g">>], Expire("x", 1), Set("x", A, 0)}, 4)

SortedSets == Group(
    {Zadd("x", <<<<"1", 1>>, <<"m", 2>>>>), [Zadd("x", <<<<"1", 2>>>>) EXCEPT !.incr = TRUE],
     [Zadd("x", <<<<"m", 3>>>>) EXCEPT !.nx = TRUE], [Zadd("y", <<<<"long", 3>>>>) EXCEPT !.xx = TRUE],
     Zadd("y", <<<<"long", 3>>, <<"1", 1>>>>), Sadd("z", <<"1", "2">>), Expire("x", 1),
     [op |-> "zrem", key |-> "x", members |-> <<"1">>], [op |-> "zremrangebyscore", key |-> "x", min |-> 2, max |-> 5],
     ZStore("zunionstore", "y", <<"x", "z", "y">>, "sum"), ZStore("zinterstore", "x", <<"x", "z">>, "max"),
     ZStore("zinterstore", "z", <<"y", "x">>, "min")}, 4)

Full(policy) == [Group({Set("x", A, 0), Set("y", A, 1), Sadd("z", <<"1">>), [op |-> "spop", key |-> "z"], Read("y"),
                 Rename("x", "z", FALSE), Expire("x", 2)}, 4)
                    EXCEPT !.memory = 1, !.policy = policy]

\* x and z belong to the clients of the replica, which may be written to.
Writable == [Group({Set("y", A, 1), Persist("y"), [op |-> "flushall"], [op |-> "flushdb"]}, 5)
                EXCEPT !.localKeys = {"x", "z"},
                       !.local = {Set("x", A, 1), Set("x", A, 0), Persist("x"), Rename("z", "x", FALSE), Set("z", A, 2),
                                  ExpireAt("x", 1), Del(<<"x">>)}]

MCSetups == [volatile |-> Volatile, strings |-> Strings, sets |-> Sets, hashes |-> Hashes,
             sortedsets |-> SortedSets, writable |-> Writable, noeviction |-> Full("noeviction"),
             evictall |-> Full("allkeys"), evictvolatile |-> Full("volatile")]
=============================================================================
