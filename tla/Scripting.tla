----------------------------- MODULE Scripting -----------------------------
(***************************************************************************)
(* Lua scripts (scripting.c) and how they reach slaves and the append only  *)
(* file: EVAL, EVALSHA, the SCRIPT command, replication of whole scripts or *)
(* of their commands, and the replication script cache (replication.c).     *)
(*                                                                         *)
(* A script is a sequence of instructions on one register.  Master, slave   *)
(* and the file when it is loaded run the same instructions; what a random  *)
(* command or an unordered reply leaves in the register differs between     *)
(* them.  Scripts do not catch errors with Lua's pcall(), are not called    *)
(* inside MULTI, and the slave does not refuse writes by itself.            *)
(***************************************************************************)
EXTENDS Integers, Sequences, FiniteSets, SequencesExt, TLC

CONSTANTS
    ScKeys,
    ScScripts,    \* name -> instructions
    ScCacheMax,   \* repl_scriptcache_size
    ScSetups      \* name -> [scripts, ops, always, slave, cmds]

VARIABLES
    lua,       \* the server: data, lua_scripts, script cache, conditions
    script,    \* the script being executed, or NoScript
    readers,   \* the slave, the append only file, and the child rewriting it
    scused,    \* commands used so far
    scsetup

scriptVars == <<lua, script, readers, scused, scsetup>>

ScSetup == ScSetups[scsetup]

-----------------------------------------------------------------------------
\* The execution of a script.  An instruction is a call of redis.call() or redis.pcall(), or
\* of another function of the redis table.

NoScript == [name |-> "none"]

\* evalGenericCommand() up to the call of the function.
StartScript(name, db, always) ==
    [name |-> name, pc |-> 1, db |-> db, reg |-> 0, lua_random_dirty |-> FALSE, lua_write_dirty |-> FALSE,
     lua_replicate_commands |-> always, lua_multi_emitted |-> FALSE, lua_repl |-> {"aof", "repl"},
     dirty |-> FALSE, err |-> FALSE, out |-> <<>>]

Emit(st, cmd, targets) == IF targets = {} THEN st ELSE [st EXCEPT !.out = Append(@, [cmd |-> cmd, to |-> targets])]

\* The command is not executed: redis.call() raises an error, redis.pcall() returns it.
LuaError(st, raise) == [st EXCEPT !.err = raise]

IsWriteCmd(i) == i.op \in {"set", "del"}

\* conds tells in which conditions the commands run: [slave, misconf, oom].
LuaRefuses(st, i, conds) ==
    \/ i.op = "noscript"
    \/ IsWriteCmd(i) /\ \/ st.lua_random_dirty /\ ~st.lua_replicate_commands
                        \/ conds.slave
                        \/ conds.misconf
    \/ i.op = "set" /\ conds.oom /\ ~st.lua_write_dirty

\* call() with the flags of redis.set_repl().
LuaCall(st, i, rnd) ==
    CASE i.op = "set"    -> Emit([st EXCEPT !.db[i.key] = st.reg, !.dirty = TRUE],
                                 [op |-> "set", key |-> i.key, val |-> st.reg],
                                 IF st.lua_replicate_commands THEN st.lua_repl ELSE {})
      [] i.op = "del"    -> IF st.db[i.key] = 0 THEN st
                            ELSE Emit([st EXCEPT !.db[i.key] = 0, !.dirty = TRUE], [op |-> "set", key |-> i.key, val |-> 0],
                                      IF st.lua_replicate_commands THEN st.lua_repl ELSE {})
      [] i.op = "get"    -> [st EXCEPT !.reg = st.db[i.key]]
      [] i.op = "random" -> [st EXCEPT !.reg = rnd]
      [] i.op = "members" -> [st EXCEPT !.reg = IF st.lua_replicate_commands THEN rnd ELSE 5]   \* luaSortArray()

\* execCommandPropagateMulti() before the first command that may write.
PropagateMulti(st) ==
    IF st.lua_replicate_commands /\ ~st.lua_multi_emitted /\ st.lua_write_dirty /\ st.lua_repl # {}
    THEN [Emit(st, [op |-> "multi"], {"aof", "repl"}) EXCEPT !.lua_multi_emitted = TRUE] ELSE st

luaRedisGenericCommand(st, i, conds, rnd) ==
    IF LuaRefuses(st, i, conds) THEN LuaError(st, i.raise)
    ELSE LuaCall(PropagateMulti([st EXCEPT !.lua_random_dirty = @ \/ i.op = "random",
                                           !.lua_write_dirty = @ \/ IsWriteCmd(i)]), i, rnd)

luaRedisReplicateCommandsCommand(st) ==
    IF st.lua_write_dirty THEN st ELSE [st EXCEPT !.lua_replicate_commands = TRUE]

luaRedisSetReplCommand(st, flags) ==
    IF ~st.lua_replicate_commands THEN LuaError(st, TRUE) ELSE [st EXCEPT !.lua_repl = flags]

Instruction(st, i, conds, rnd) ==
    CASE i.op = "replicate_commands" -> luaRedisReplicateCommandsCommand(st)
      [] i.op = "set_repl"           -> luaRedisSetReplCommand(st, i.flags)
      [] i.op = "loop"               -> st
      [] i.op = "error"              -> LuaError(st, TRUE)
      [] OTHER                       -> luaRedisGenericCommand(st, i, conds, rnd)

Over(st) == st.err \/ st.pc > Len(ScScripts[st.name])

LuaStep(st, conds, rnd) ==
    IF Over(st) THEN st ELSE [Instruction(st, ScScripts[st.name][st.pc], conds, rnd) EXCEPT !.pc = @ + 1]

\* After the call: EXEC if MULTI was propagated.
ScriptEnd(st) == IF st.lua_multi_emitted THEN Emit(st, [op |-> "exec"], {"aof", "repl"}) ELSE st

\* luaCreateFunction(): scripts are kept by name.
Created(scripts, name) == scripts \cup {name}

-----------------------------------------------------------------------------
\* The replication script cache, oldest entry first.

replicationScriptCacheAdd(cache, name) ==
    Append(IF Len(cache) = ScCacheMax THEN Tail(cache) ELSE cache, name)

replicationScriptCacheExists(cache, name) == name \in ToSet(cache)

-----------------------------------------------------------------------------
\* Readers execute what is propagated: a slave, or the server that loads the file.  Keys a
\* script wrote without propagation to the reader are `local'.

NoReader(zero) ==
    [state |-> "none", db |-> zero, scripts |-> {}, cache |-> <<>>, multi |-> FALSE, queue |-> <<>>,
     pending |-> <<>>, broken |-> FALSE, local |-> {}]

Normal == [slave |-> FALSE, misconf |-> FALSE, oom |-> FALSE]

\* The random number of a reader is none of the master's.
ReaderRandom == 9

RunWhole(db, name, always) ==
    FoldLeft(LAMBDA st, j : LuaStep(st, Normal, ReaderRandom), StartScript(name, db, always),
             [j \in 1..Len(ScScripts[name]) |-> j])

ApplyCommand(r, cmd, always) ==
    CASE cmd.op = "set"     -> [r EXCEPT !.db[cmd.key] = cmd.val]
      [] cmd.op = "load"    -> [r EXCEPT !.scripts = Created(@, cmd.name)]
      [] cmd.op = "flush"   -> [r EXCEPT !.scripts = {}, !.cache = <<>>]
      [] cmd.op = "eval"    -> [r EXCEPT !.scripts = Created(@, cmd.name), !.db = RunWhole(r.db, cmd.name, always).db]
      [] cmd.op = "evalsha" ->
           IF cmd.name \notin r.scripts THEN [r EXCEPT !.broken = TRUE]
           ELSE [r EXCEPT !.db = RunWhole(r.db, cmd.name, always).db,
                          !.cache = IF always \/ replicationScriptCacheExists(@, cmd.name) THEN @
                                    ELSE replicationScriptCacheAdd(@, cmd.name)]

ApplyAll(r, cmds, always) == FoldLeft(LAMBDA q, cmd : ApplyCommand(q, cmd, always), r, cmds)

Apply(r, cmd, always) ==
    CASE cmd.op = "multi" -> IF r.multi THEN [r EXCEPT !.broken = TRUE] ELSE [r EXCEPT !.multi = TRUE]
      [] cmd.op = "exec"  -> IF ~r.multi THEN [r EXCEPT !.broken = TRUE]
                             ELSE [ApplyAll(r, r.queue, always) EXCEPT !.multi = FALSE, !.queue = <<>>]
      [] cmd.op \notin {"multi", "exec"} /\ r.multi -> [r EXCEPT !.queue = Append(@, cmd)]
      [] OTHER -> ApplyCommand(r, cmd, always)

\* A reader gets one command: at once, or later if a slave waits for its file or its link.
FeedOne(r, cmd, always) ==
    CASE r.state = "none"             -> r
      [] r.state = "online"           -> Apply(r, cmd, always)
      [] r.state \in {"sync", "cut"}  -> [r EXCEPT !.pending = Append(@, cmd)]

Feed(r, out, target, always) ==
    FoldLeft(LAMBDA q, m : IF target \in m.to THEN FeedOne(q, m.cmd, always) ELSE q, r, out)

Propagated(out) ==
    [slave |-> Feed(readers.slave, out, "repl", ScSetup.always),
     aof   |-> Feed(readers.aof, out, "aof", ScSetup.always),
     child |-> Feed(readers.child, out, "aof", ScSetup.always)]

Message(cmd) == <<[cmd |-> cmd, to |-> {"aof", "repl"}]>>

\* Keys written while redis.set_repl() excludes a reader.
WrittenLocally(r, st, i, target) ==
    IF r.state # "none" /\ IsWriteCmd(i) /\ st.lua_replicate_commands /\ target \notin st.lua_repl
    THEN [r EXCEPT !.local = @ \cup {i.key}] ELSE r

-----------------------------------------------------------------------------

Zero == [k \in ScKeys |-> 0]

ScriptingInit ==
    /\ scsetup \in DOMAIN ScSetups
    /\ lua = [db |-> Zero, lua_scripts |-> {}, cache |-> <<>>, aof |-> IF "aof" \in ScSetup.ops THEN "on" ELSE "off",
              slave |-> ScSetup.slave, misconf |-> FALSE, oom |-> FALSE,
              torn |-> FALSE, changed |-> {}]
    /\ script = NoScript
    /\ readers = [slave |-> NoReader(Zero), child |-> NoReader(Zero),
                  aof |-> [NoReader(Zero) EXCEPT !.state = IF "aof" \in ScSetup.ops THEN "online" ELSE "none"]]
    /\ scused = 0

ScIdle == script = NoScript

\* The event loop runs between commands, and in a script that takes too long.
ScEvents == IF ScIdle THEN TRUE ELSE script.timedout

ScMay(op) == op \in ScSetup.ops

ScUse == scused < ScSetup.cmds /\ scused' = scused + 1

\* evalGenericCommand(): EVALSHA of an unknown script is an error.
EvalBegins(name, evalsha) ==
    /\ ScIdle /\ ScUse
    /\ ScMay(IF evalsha THEN "evalsha" ELSE "eval")
    /\ evalsha => name \in lua.lua_scripts
    /\ script' = StartScript(name, lua.db, ScSetup.always)
                   @@ [evalsha |-> evalsha, timedout |-> FALSE, killed |-> FALSE, db0 |-> lua.db]
    /\ lua' = [lua EXCEPT !.lua_scripts = Created(@, name)]
    /\ UNCHANGED readers

Stepped(st, i, rs) ==
    /\ script' = [st EXCEPT !.out = <<>>]
    /\ lua' = [lua EXCEPT !.db = st.db]
    /\ readers' = [slave |-> WrittenLocally(rs.slave, script, i, "repl"),
                   aof   |-> WrittenLocally(rs.aof, script, i, "aof"),
                   child |-> WrittenLocally(rs.child, script, i, "aof")]

ScriptSteps(st) ==
    Stepped(st, ScScripts[script.name][script.pc], Propagated(st.out))

LuaRuns(rnd) ==
    /\ ~ScIdle /\ ~Over(script)
    /\ ScriptSteps(LuaStep(script, lua, rnd))
    /\ UNCHANGED scused

\* The count hook, which slaves do not set.
luaMaskCountHook ==
    /\ ~ScIdle /\ ~Over(script)
    /\ ScScripts[script.name][script.pc].op = "loop"
    /\ ~lua.slave /\ ~script.timedout
    /\ script' = [script EXCEPT !.timedout = TRUE]
    /\ UNCHANGED <<lua, readers, scused>>

\* SCRIPT KILL, executed by the hook, which raises the error when it returns.
scriptKill ==
    /\ ~ScIdle /\ ~Over(script)
    /\ script.timedout /\ ScScripts[script.name][script.pc].op = "loop"
    /\ ~script.lua_write_dirty
    /\ script' = [script EXCEPT !.killed = TRUE, !.err = TRUE]
    /\ UNCHANGED <<lua, readers, scused>>

\* What is propagated for the EVAL or EVALSHA itself.
Whole(st) ==
    LET cmd(op) == Message([op |-> op, name |-> st.name])
    IN  IF st.lua_replicate_commands THEN <<>>
        ELSE IF ~st.evalsha THEN IF st.dirty THEN cmd("eval") ELSE <<>>
        ELSE IF replicationScriptCacheExists(lua.cache, st.name) THEN IF st.dirty THEN cmd("evalsha") ELSE <<>>
        ELSE cmd("eval")

CacheAfter(st) ==
    IF st.evalsha /\ ~st.lua_replicate_commands /\ ~replicationScriptCacheExists(lua.cache, st.name)
    THEN replicationScriptCacheAdd(lua.cache, st.name) ELSE lua.cache

EvalEnds ==
    /\ ~ScIdle /\ Over(script)
    /\ readers' = Propagated(ScriptEnd(script).out \o Whole(script))
    /\ lua' = [lua EXCEPT !.cache = CacheAfter(script)]
    /\ script' = NoScript
    /\ UNCHANGED scused

scriptLoad(name) ==
    /\ ScMay("evalsha") /\ ScIdle /\ ScUse
    /\ lua' = [lua EXCEPT !.lua_scripts = Created(@, name)]
    /\ readers' = Propagated(Message([op |-> "load", name |-> name]))
    /\ UNCHANGED script

FlushScripts(s) == [s EXCEPT !.lua_scripts = {}, !.cache = <<>>]

scriptFlush ==
    /\ ScMay("evalsha") /\ ScIdle /\ ScUse
    /\ lua' = FlushScripts(lua)
    /\ readers' = Propagated(Message([op |-> "flush"]))
    /\ UNCHANGED script

\* Memory is short or the last save failed, and no more.
ConditionChanges(what) ==
    /\ ScMay("conditions") /\ ScIdle /\ ScUse
    /\ lua' = [lua EXCEPT ![what] = ~@]
    /\ UNCHANGED <<script, readers>>

-----------------------------------------------------------------------------
\* The slave and the append only file.

\* Mutant: the cache survives.
FlushCache_Not(s) == s

FlushCache(s) == [s EXCEPT !.cache = <<>>]

\* startBgsaveForReplication().
SlaveSyncs ==
    /\ ScMay("slave") /\ ScIdle /\ ScUse
    /\ readers.slave.state = "none" /\ readers.child.state = "none"
    /\ readers' = [readers EXCEPT !.slave = [NoReader(lua.db) EXCEPT !.state = "sync"]]
    /\ lua' = FlushCache(lua)
    /\ UNCHANGED script

CaughtUp(r) ==
    FoldLeft(LAMBDA q, cmd : Apply(q, cmd, ScSetup.always), [r EXCEPT !.pending = <<>>], r.pending)

\* The file was loaded, or the link restored: the slave gets what it has missed.
SlaveContinues ==
    /\ readers.slave.state \in {"sync", "cut"} /\ ScIdle
    /\ readers' = [readers EXCEPT !.slave = [CaughtUp(readers.slave) EXCEPT !.state = "online"]]
    /\ UNCHANGED <<lua, script, scused>>

\* A transaction that was not received to the end is asked for again.
Uncommitted(r) ==
    [r EXCEPT !.multi = FALSE, !.queue = <<>>, !.state = "cut",
              !.pending = IF r.multi THEN <<[op |-> "multi"]>> \o r.queue ELSE <<>>]

LinkLost ==
    /\ readers.slave.state = "online" /\ ScEvents /\ ScUse
    /\ readers' = [readers EXCEPT !.slave = Uncommitted(readers.slave)]
    /\ UNCHANGED <<lua, script>>

\* replicationCron(): without slaves and file the cache is of no use.
replicationCronFlush ==
    /\ ScIdle
    /\ readers.slave.state \in {"none", "cut"} /\ lua.aof = "off" /\ lua.cache # <<>>
    /\ lua' = FlushCache(lua)
    /\ UNCHANGED <<script, readers, scused>>

rewriteAppendOnlyFileBackground ==
    /\ ScMay("aof") /\ ScIdle /\ ScUse
    /\ readers.child.state = "none" /\ readers.slave.state # "sync"
    /\ readers' = [readers EXCEPT !.child = [NoReader(lua.db) EXCEPT !.state = "online"]]
    /\ lua' = [FlushCache(lua) EXCEPT !.aof = IF @ = "off" THEN "wait" ELSE @]
    /\ UNCHANGED script

RewriteEnds(ok) ==
    /\ readers.child.state = "online" /\ ScIdle
    /\ readers' = [readers EXCEPT !.child = NoReader(Zero), !.aof = IF ok THEN readers.child ELSE @]
    /\ lua' = [lua EXCEPT !.aof = IF ok THEN "on" ELSE IF @ = "wait" THEN "off" ELSE @]
    /\ UNCHANGED <<script, scused>>

stopAppendOnly ==
    /\ ScMay("aof") /\ ScIdle /\ ScUse /\ lua.aof # "off"
    /\ readers' = [readers EXCEPT !.child = NoReader(Zero), !.aof = NoReader(Zero)]
    /\ lua' = [lua EXCEPT !.aof = "off"]
    /\ UNCHANGED script

\* The server loads `file' when it is started again.  changed are the keys whose values are not
\* those of before, that is, of the start of a script that was being executed.
LoadedAgain(file, torn) ==
    /\ lua' = [lua EXCEPT !.db = file.db, !.lua_scripts = file.scripts, !.cache = file.cache, !.torn = torn,
                          !.changed = {k \in ScKeys \ file.local :
                                         file.db[k] # (IF ScIdle THEN lua.db ELSE script.db0)[k]}]
    /\ readers' = [readers EXCEPT !.aof = file, !.slave = NoReader(Zero), !.child = NoReader(Zero)]
    /\ script' = NoScript

\* The process dies: what a script has propagated so far was in aof_buf only.
ScRestart ==
    /\ ScMay("restart") /\ lua.aof = "on" /\ ScUse
    /\ LoadedAgain([readers.aof EXCEPT !.multi = FALSE, !.queue = <<>>], FALSE)

\* SHUTDOWN NOSAVE, which a script that takes too long cannot prevent: prepareForShutdown() writes
\* aof_buf, and loadAppendOnlyFile() executes the commands of a MULTI without EXEC.
ScShutdown ==
    /\ ScMay("restart") /\ lua.aof = "on" /\ ScEvents /\ ScUse
    /\ LoadedAgain([ApplyAll(readers.aof, readers.aof.queue, ScSetup.always) EXCEPT !.multi = FALSE, !.queue = <<>>],
                   readers.aof.multi)

ScriptingNext ==
    /\ \/ \E name \in ScSetup.scripts : \/ \E evalsha \in BOOLEAN : EvalBegins(name, evalsha)
                                        \/ scriptLoad(name)
       \/ \E rnd \in {1, 2} : LuaRuns(rnd)
       \/ luaMaskCountHook \/ scriptKill \/ EvalEnds \/ scriptFlush
       \/ \E what \in {"oom", "misconf"} : ConditionChanges(what)
       \/ SlaveSyncs \/ SlaveContinues \/ LinkLost \/ replicationCronFlush
       \/ rewriteAppendOnlyFileBackground \/ stopAppendOnly \/ ScRestart \/ ScShutdown
       \/ \E ok \in BOOLEAN : RewriteEnds(ok)
    /\ UNCHANGED scsetup

-----------------------------------------------------------------------------

\* A reader holds the data of the server, as of the start of the script being executed.
Agrees(r) ==
    /\ ~r.broken
    /\ \A k \in ScKeys \ r.local : r.db[k] = (IF ScIdle THEN lua.db ELSE script.db0)[k]
    /\ ScIdle => ~r.multi

\* Whatever a script did, also one that failed or was killed, slaves and the file have all
\* of its effects or, while it runs, none; they know every script an EVALSHA names.  A script
\* that was killed changed nothing, and none changes the data of a read-only slave.  A restart gives
\* back the data of before the script that was being executed, unless SHUTDOWN NOSAVE stopped one
\* whose effects are propagated: the file then has half of a transaction, which is loaded.
ScriptsExact ==
    /\ \A w \in DOMAIN readers : readers[w].state # "none" =>
          Agrees(IF ScIdle THEN CaughtUp(readers[w]) ELSE IF readers[w].state = "online" THEN readers[w]
                 ELSE [CaughtUp(readers[w]) EXCEPT !.multi = FALSE])
    /\ ~ScIdle => (script.killed => lua.db = script.db0)
    /\ lua.slave => lua.db = Zero
    /\ lua.changed # {} => lua.torn
=============================================================================
