----------------------------- MODULE MCCommands -----------------------------
(***************************************************************************)
(* The execution of commands and what surrounds it, each on its own: one     *)
(* part is chosen at the start.                                            *)
(***************************************************************************)
EXTENDS Commands, Snapshot, Scripting

CONSTANTS k1, k2

VARIABLE part

-----------------------------------------------------------------------------
\* Commands: the menus, and a setup for each kind of trouble.

Push(k, w)      == [op |-> "push", key |-> k, where |-> w, val |-> 0]
Op(name)        == [op |-> name]
OpKey(name, k)  == [op |-> name, key |-> k]
OpDst(name, k, d) == [op |-> name, key |-> k, dst |-> d]
Block(keys, w, t) == [op |-> "bpop", keys |-> keys, where |-> w, timeout |-> t]
BlockMove(k, d) == [op |-> "brpoplpush", key |-> k, dst |-> d, timeout |-> FALSE]

\* Blocking operations among writes, in and out of transactions.
BlockMenu == {Push(k1, "head"), Push(k1, "tail"), Block(<<k1, k2>>, "head", FALSE),
              Block(<<k2>>, "tail", FALSE), BlockMove(k1, k2), BlockMove(k2, k1),
              OpKey("set", k2), OpDst("rename", k1, k2), Op("multi"), Op("exec")}

\* Transactions with watched keys, and the ways to change them.
WatchMenu == {Push(k1, "head"), [op |-> "pop", key |-> k1, where |-> "head"], OpKey("set", k1),
              OpKey("del", k1), OpDst("rename", k2, k1), OpDst("rpoplpush", k1, k2), OpDst("sort", k1, k2),
              Op("flushdb"), Op("flushall"), OpKey("get", k1), Op("unknown"), OpKey("watch", k1),
              Op("unwatch"), Op("multi"), Op("exec"), Op("discard")}

\* Two databases that are swapped, with blocked clients.
SwapMenu == {Push(k1, "head"), Block(<<k1>>, "head", FALSE), [op |-> "swapdb", to |-> 1],
             [op |-> "move", key |-> k1, to |-> 1], [op |-> "select", to |-> 1],
             BlockMove(k1, k2), Op("multi"), Op("exec")}

\* Clients that send commands while they are blocked, and disappear.
InputMenu == {Push(k1, "head"), Block(<<k1>>, "head", TRUE), Block(<<k1>>, "tail", FALSE),
              BlockMove(k1, k2), OpKey("set", k2), OpKey("watch", k1)}

Of(clients, dbs, menu, cmds, queue, frees, pauses, roles, troubles) ==
    [clients |-> clients, dbs |-> dbs, menu |-> menu,
     max |-> [cmds |-> cmds, queue |-> queue, frees |-> frees, pauses |-> pauses,
              roles |-> roles, troubles |-> troubles]]

SafetySetups == {
    Of(1..3, {0},    BlockMenu, 4, 2, 0, 0, 0, 0),
    Of(1..2, {0},    WatchMenu, 5, 2, 0, 0, 0, 1),
    Of(1..2, {0, 1}, SwapMenu,  5, 2, 0, 0, 0, 0),
    Of(1..3, {0},    InputMenu, 4, 1, 1, 0, 1, 0),
    Of(1..2, {0},    InputMenu, 4, 1, 0, 1, 0, 0)}

-----------------------------------------------------------------------------
\* Snapshots: values of every type and encoding, near the limits of the formats.

Limits(n, l) ==
    [intset |-> n, zlen |-> n, zval |-> l, hlen |-> n, hval |-> l, fill |-> 2, compression |-> TRUE,
     checksum |-> TRUE, slave |-> FALSE]

SnKey(k, o, time) == k :> [o |-> o, expire |-> time]

SnStr(v) == Obj("string", "raw", v)
SnInt(v) == Obj("string", "int", v)
SnNode(zl, c) == [c |-> c, zl |-> zl]
SnList(nodes) == Obj("list", "quicklist", nodes)
SnHash == <<<<12>>, <<1, 0>>, <<1>>, <<>>>>
SnZset == <<12>> :> 0 @@ <<13, 13, 13>> :> 2 @@ <<>> :> -1

Uint(v) == [kind |-> "uint", v |-> v]
SnModule == [id |-> 9, fields |-> <<Uint(300), [kind |-> "string", v |-> <<1, 1>>], [kind |-> "double", v |-> -2], Uint(40000)>>]

MCModuleKinds == [i \in {9} |-> <<"uint", "string", "double", "uint">>]

SnValues ==
    <<SnStr(<<>>), SnStr(<<12, 13>>), SnStr(<<0, 7>>), SnStr(<<Minus>>), SnStr(<<1, 2, Nul>>),
      SnStr(<<14, 14, 14, 14, 14, 14, 14, 14, 14>>), SnStr(<<1, 2, 3, 4, 5, 6, 7, 8, 9, 10, 11>>),
      SnStr(<<12, 13, 14, 15, 16, 17, 18, 19>>),
      SnInt(-17), SnInt(511), SnInt(9999), SnInt(20000),
      SnList(<<SnNode(<<<<1, 2>>, <<>>>>, FALSE), SnNode(<<<<2, 2>>, <<2, 2>>>>, TRUE), SnNode(<<<<13>>>>, FALSE)>>),
      Obj("set", "intset", {-3, 4, 100}), Obj("set", "ht", {<<1>>, <<2, 3>>, <<14>>}),
      Obj("set", "ht", {<<1>>, <<2>>, <<4>>}),
      Obj("zset", "ziplist", <<<<13>>, <<1>>, <<12>>, <<2>>>>), Obj("zset", "skiplist", SnZset),
      Obj("hash", "ziplist", SnHash), Obj("hash", "ht", <<12>> :> <<12>> @@ <<13, 13, 13>> :> <<1>> @@ <<7>> :> <<7>>),
      Obj("module", "module", SnModule)>>

SnRaw(s) == rdbSaveRawString(s, TRUE)

\* A file of an older version: one key in database 1.
OldFile(v, time, type, body, o, expire) ==
    [bytes |-> Magic \o BigEndian(v, 2) \o <<RDB_OPCODE_SELECTDB, 1>> \o time \o <<type>>
                 \o SnRaw(<<13>>) \o body \o <<RDB_OPCODE_EOF>>,
     dbs |-> <<<<>>, SnKey(<<13>>, o, expire)>>]

OldFiles ==
    LET ss == <<<<1>>, <<12, 3>>, <<>>>>
        Text(n) == <<Len(ll2string(n))>> \o ll2string(n)
    IN  <<OldFile(1, <<>>, RDB_TYPE_LIST, rdbSaveLen(3) \o SaveStrings(ss, TRUE), SnList(<<SnNode(ss, FALSE)>>), -1),
          OldFile(2, <<RDB_OPCODE_EXPIRETIME>> \o LittleEndian(1, RdbWord), RDB_TYPE_ZSET,
                  rdbSaveLen(3) \o SnRaw(<<13, 13, 13>>) \o Text(2) \o SnRaw(<<12>>) \o Text(0) \o SnRaw(<<>>) \o Text(-1),
                  Obj("zset", "skiplist", SnZset), 2),
          OldFile(3, <<>>, RDB_TYPE_HASH_ZIPMAP, SnRaw(ZiplistBlob(SnHash)), Obj("hash", "ziplist", SnHash), -1),
          OldFile(4, <<>>, RDB_TYPE_LIST_ZIPLIST, SnRaw(ZiplistBlob(ss)), SnList(<<SnNode(ss, FALSE)>>), -1),
          OldFile(4, <<>>, RDB_TYPE_MODULE,
                  rdbSaveLen(9) \o rdbSaveLen(300) \o SnRaw(<<1, 1>>) \o rdbSaveBinaryDoubleValue(-2)
                    \o rdbSaveLen(40000),
                  Obj("module", "module", SnModule), -1)>>

MCSnSetups ==
    LET a      == SnKey(<<1, 1>>, SnStr(<<12>>), 1)
        beside == SnKey(<<13>>, SnStr(<<13>>), 0) @@ SnKey(<<1>>, SnStr(<<1>>), 1)
        base   == [start |-> <<<<a, <<>>>>>>, old |-> FALSE, datas |-> {<<a, <<>>>>, <<<<>>, a>>}, lim |-> Limits(3, 3),
                   lims |-> {Limits(3, 3)}, ops |-> {}, writes |-> 2, time |-> 0]
    IN  [format   |-> [base EXCEPT !.start = <<>> \o [i \in DOMAIN SnValues |-> <<SnKey(<<13>>, SnValues[i], -1), beside>>],
                         !.lims = {Limits(3, 3), Limits(2, 2), Limits(0, 0)}, !.ops = {"save", "shutdown"}, !.time = 1],
         old      |-> [base EXCEPT !.start = <<>>, !.old = TRUE, !.lims = {Limits(3, 3), Limits(1, 1)},
                         !.ops = {"shutdown"}, !.time = 3],
         children |-> [base EXCEPT !.ops = {"write", "save", "bgsave", "fail", "flushall", "crash"}],
         shutdown |-> [base EXCEPT !.ops = {"write", "bgsave", "fail", "shutdown"}, !.time = 2],
         aof      |-> [base EXCEPT !.ops = {"write", "bgsave", "aof"}]]

MCSnInfo == SaveInfo(1, <<11, 11>>, 77)

-----------------------------------------------------------------------------
\* Scripts, replicated whole or by their effects, that fail, are refused, loop and are killed.

ScCall(op, k)  == [op |-> op, key |-> k, raise |-> TRUE]
ScPCall(op, k) == [op |-> op, key |-> k, raise |-> FALSE]
ScSetRepl(fl)  == [op |-> "set_repl", flags |-> fl]

MCScripts ==
    [plain   |-> <<ScCall("get", k1), ScCall("set", k2), Op("loop")>>,
     random  |-> <<ScCall("random", k1), ScPCall("set", k1), Op("loop"), ScCall("get", k2), ScCall("set", k1)>>,
     order   |-> <<ScCall("members", k1), ScCall("set", k1), Op("error"), ScCall("set", k2)>>,
     effects |-> <<ScCall("random", k1), Op("replicate_commands"), ScCall("set", k1), Op("loop"), ScCall("del", k2),
                   Op("error")>>,
     late    |-> <<ScCall("set", k1), Op("replicate_commands"), ScCall("random", k1), ScPCall("set", k2),
                   ScPCall("noscript", k1)>>,
     local   |-> <<Op("replicate_commands"), ScSetRepl({}), ScCall("members", k2), ScCall("set", k1), ScSetRepl({"aof"}),
                   ScCall("set", k2)>>]

MCScSetups ==
    LET base == [scripts |-> {"plain", "random", "order", "effects", "late"}, ops |-> {"eval", "slave", "aof"},
                 always |-> FALSE, slave |-> FALSE, cmds |-> 4]
    IN  [whole  |-> base,
         always |-> [base EXCEPT !.always = TRUE, !.scripts = {"random", "order", "effects"}],
         sha    |-> [base EXCEPT !.scripts = {"plain", "order"}, !.cmds = 5,
                       !.ops = {"eval", "evalsha", "slave", "aof", "restart"}],
         denied |-> [base EXCEPT !.ops = {"eval", "aof", "conditions", "restart"}],
         local  |-> [base EXCEPT !.scripts = {"local", "order"}],
         slave  |-> [base EXCEPT !.slave = TRUE]]

-----------------------------------------------------------------------------

\* The setup of a part that is not chosen does not matter.
MCInit ==
    /\ part \in {"commands", "snapshot", "scripts"}
    /\ Init /\ SnapshotInit /\ ScriptingInit
    /\ part # "commands" => setup = CHOOSE u \in Setups : TRUE
    /\ part # "snapshot" => snsetup = "aof"
    /\ part # "scripts" => scsetup = "slave"

MCNext ==
    \/ part = "commands" /\ Next /\ UNCHANGED <<part, snapVars, scriptVars>>
    \/ part = "snapshot" /\ SnapshotNext /\ UNCHANGED <<part, vars, scriptVars>>
    \/ part = "scripts" /\ ScriptingNext /\ UNCHANGED <<part, vars, snapVars>>

MCSpec == MCInit /\ [][MCNext]_<<part, vars, snapVars, scriptVars>>

-----------------------------------------------------------------------------

\* Snapshots are whole and load to what was saved (FileWhole), none replaces a newer one
\* or makes server.dirty forget changes (DirtyCounts), and DUMP and RESTORE keep a value
\* (DumpExact): rdb.c, prepareForShutdown(), serverCron(), flushallCommand().
SnapshotsSound == part = "snapshot" => FileWhole /\ DirtyCounts /\ DumpExact

\* What scripts do reaches slaves and the append only file whole or, while one runs, not at
\* all, whether it is replicated as EVAL, as EVALSHA or by its effects (ScriptsExact):
\* scripting.c and the replication script cache.
ScriptsSound == part = "scripts" => ScriptsExact
=============================================================================
