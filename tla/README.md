# A TLA+ development of Redis 4.0

This directory specifies the core of the Redis 4.0 server (`redis-4.0/src`): the
hash table every database is built on, the execution of commands with
transactions, blocking operations and scripts, the keyspace with expiry and
eviction, the append only file and the snapshots, replication, the cluster bus
and resharding, Sentinel, and, below the commands, the containers of the data
types, the event loop, the background threads, the output of clients and the
configuration file.

Each component is a TLA+ module translated from the C code. TLC checks all of
them on small instances. TLAPS proves, for every value of the constants, what
matters most of the hash table and its iterators, of replication, the append
only file, Sentinel, the dynamic strings and the event loop. `PROJECT.json` maps
every definition to the lines it stands for.

To check a run: `tlc -workers 2 -config MCDict.cfg MCDict`. To check the proofs of
a module: `tlapm DictProofs.tla`.

Contents

1. The system and its parts
2. Modules and how they correspond to the code
3. The runs
4. Fairness
5. The proofs
6. Where the code and its comments disagree
7. Abstractions
8. What is only model-checked, and what is not modelled
9. Plan

## 1. The system and its parts

Redis is one process with one thread that runs an event loop (`ae.c`): file
events (clients, the master, replicas, cluster links), time events
(`serverCron`), and `beforeSleep()` before every wait. Handlers run to
completion, so a handler together with the `beforeSleep()` work it schedules is
the natural atomic step inside a process. What is concurrent is everything
else: other clients' handlers between two commands of one client, forked
children that write RDB and AOF files, background threads that fsync and free,
and the other processes of a deployment. What fails: links, writes to disk,
children, the process, the machine.

| Component | State | Operations | Talks to | What is hard, and what must hold |
|---|---|---|---|---|
| Hash table (`dict.c`) | two tables, `rehashidx`, number of safe iterators, `dict_can_resize` | add, replace, delete, find, empty, resize, rehash steps, safe iterators, scan | every index of the server; `serverCron` rehashes, saving children forbid resizing | an incremental rehash is visible to every operation, iterator and scan. No key lost, doubled or unreachable; iterators and scans return what stays |
| Command execution (`server.c`, `networking.c`, `multi.c`, `blocked.c`, `t_list.c`, `db.c`) | databases, clients with query buffers, transaction queues, watched and blocking keys, ready keys, paused and unblocked lists | reading input, `processCommand`, `call`, MULTI/EXEC/DISCARD/WATCH, blocking pops, SELECT/MOVE/SWAPDB, FLUSH, CLIENT PAUSE, freeing clients, role changes | feeds AOF and replicas (`propagate`) | orders of several clients' commands, clients freed in the middle. A refused transaction is not executed, no client waits for what is there, propagation replays to the same data, indexes agree |
| Lua scripting (`scripting.c`) | the interpreter, `lua_scripts`, the script being run, the replication script cache | EVAL, EVALSHA, SCRIPT, `redis.call`, `replicate_commands`, `set_repl`, time limit and kill | calls commands; propagates scripts or their effects | scripts that fail, are refused or killed half-way, slaves that do not know a SHA. Slaves and file end with the master's data |
| RDB snapshots (`rdb.c`, `rio.c`) | `dirty`, save points, the child, the file and its format | SAVE, BGSAVE, FLUSHALL, SHUTDOWN, reaping the child, loading | replication, AOF, `serverCron` | failures half-way, limits that changed since. The file is whole and not older than it must be; loading gives back the data |
| Keyspace, expiry and eviction (`db.c`, `expire.c`, `evict.c`, `t_*.c`) | `db->dict`, `db->expires`, `slaveKeysWithExpire`, encodings, memory | the write commands, lazy and active expiry, `freeMemoryIfNeeded` | propagates to replicas and AOF, translated | a replica must not expire by itself; commands that run after a time-out; conversions of encodings. A replica or file that replays ends with the master's data |
| Append only file (`aof.c`) | buffer, file and its synced part, fsync in progress, rewrite child, pipe, difference buffers | feeding, flushing, rewrite, switching it on and off, loading | `bio.c` fsyncs; `server.c` calls it before every sleep and reaps the child | torn and failing writes, the switch of files, power failure. The file always loads to an earlier state; what was promised survives |
| Replication (`replication.c`, `rdb.c`) | two replication IDs and offsets, backlog, state of the link to the master, cached master, state of every slave, RDB child | SYNC/PSYNC, full and partial resync, disk and diskless transfer, REPLCONF, cron, SLAVEOF | command execution feeds it; it loads snapshots | resyncs during role changes, lost links, restarts. A replica that is in sync has its master's data at its master's offset; it gets in sync again |
| Cluster bus (`cluster.c`) | per node: known nodes with flags and failure reports, slot table, epochs, last vote, election and manual failover state; `nodes.conf` | PING/PONG/FAIL/UPDATE/vote/MFSTART packets, cron, `clusterBeforeSleep`, CLUSTER FAILOVER | replication (data and offset), CLIENT PAUSE | packets of many pairs in any order, time-outs, restarts. One winner per epoch, by a majority; slots get one owner; a manual failover loses nothing |
| Resharding and redirection (`cluster.c`) | migrating and importing slots, the keys of a slot, MIGRATE's sockets | SETSLOT, MIGRATE, RESTORE-ASKING, ADDSLOTS, DELSLOTS, `getNodeByQuery` | clients that follow MOVED and ASK; the bus | keys of a slot on two nodes, connections that break. No write is lost, no value is read from the wrong node |
| Sentinel (`sentinel.c`) | per sentinel: the master with replicas and other sentinels, SDOWN/ODOWN, votes, failover state machine; its file | monitoring, INFO, hello messages, leader election, failover steps, FAILOVER and RESET | replicas through SLAVEOF | votes of several epochs, stale answers, restarts. One vote per epoch, one leader, one address per configuration epoch; the failover ends |
| Containers (`ziplist.c`, `quicklist.c`, `intset.c`, `t_zset.c`, `rax.c`, `hyperloglog.c`, `bitops.c`, `sds.c`) | encoded sequences, trees, registers, bits, bytes | insert, delete, search, range, merge | data types | cascading updates, width changes, header types, overflow. The value is that of the sequence, set or map it stands for |
| Background threads (`bio.c`, `lazyfree.c`) | three job queues, pending counters, reference counts | create, process, wait | AOF fsync, lazy deletion | real threads: locks, condition variables, objects handed over. Nothing freed twice, every job done |
| Event loop (`ae.c`, `ae_epoll.c`) | registered events, the fired set, the list of timers | create, delete, process | every component | handlers that remove other handlers' events, descriptors used again, timers deleted while the list is walked, clock set back |
| Client output, publish/subscribe (`networking.c`, `pubsub.c`) | reply list and buffer, pending-write list, limits; subscriptions by channel, pattern and client | add reply, write, close asynchronously; SUBSCRIBE, UNSUBSCRIBE, PUBLISH | every command | a client freed while it is referenced; output in order; the two directions of the index |
| Configuration (`config.c`) | the options, the file | load, CONFIG SET, GET, REWRITE | every component | a rewritten file must load to the settings there were, also after a crash during the rewrite |
| WAIT, min-slaves-to-write; cluster membership; objects; SORT, GEO; modules; introspection; helpers; tools; `deps/` | | | | not modelled (section 8) |

The hazards of this code, each at its line and with the properties that would
catch it, are listed in `PROJECT.json`.

## 2. Modules and how they correspond to the code

| Module | Models |
|---|---|
| `DictMap` | the abstract map that callers of `dict.c` rely on |
| `Dict` | `dict.c` with both tables; `serverCron`'s rehashing and the resize policy |
| `DictIter`, `DictScan` | `Dict` with a safe iterator and the body of its loop; with a client that scans it |
| `Commands` | the command loop |
| `Rdb`, `Snapshot` | the format of RDB files; when and how the data set is saved and loaded |
| `Scripting` | Lua scripts and their replication |
| `Keyspace` | the keyspace, expiry, eviction, the write commands and what they propagate |
| `Aof` | the append only file |
| `Replication` | replication between any number of servers |
| `Cluster`, `Reshard` | the cluster bus between a fixed set of nodes; one slot that is moved |
| `Sentinel` | the sentinels of one master |
| `Ziplist`, `Quicklist`, `Intset`, `SortedSet`, `Rax`, `HyperLogLog`, `Bits`, `Sds` | the containers |
| `Bio`, `Ae`, `Clients`, `Config` | background threads, event loop, output of clients and publish/subscribe, configuration file |
| `DictProofs`, `ReplicationProofs`, `AofProofs`, `SentinelProofs`, `ClusterProofs`, `SdsProofs`, `AeProofs`, `BioProofs` | the theorems and their proofs |
| `MCDict`, `MCCommands`, `MCKeyspace`, `MCAof`, `MCReplication`, `MCCluster`, `MCSentinel`, `MCContainers`, `MCServer` | instances for TLC |

`DictIter` and `DictScan` extend `Dict`; `MCDict` composes the two and the plain
dict in one specification whose variable `walk` says how the dict is walked.
`Dict` is shown to implement `DictMap`, by TLC (`MapSpec`) and by proof
(`Refinement`). `Snapshot` extends `Rdb`. `MCCommands` holds `Commands`, `Snapshot` and
`Scripting`, `MCContainers` the containers, `MCServer` the parts below the commands:
a variable (`part`, `which`) chosen in `Init` says which of them the behaviour is
about. Every other component is a module of its own, in which its neighbours
appear as far as the code uses them: `Aof` and `Replication` contain the part of
`call`/`propagate` that feeds them, `Commands` replays what it propagates, `Cluster`
contains the master's offset and the replication stream.

Conventions. Definitions keep the names of the C functions; a definition with
another name is a part of a function or an idea, and the map says where it is.
Operators named `X_Something`, preceded by a comment that begins with "Mutant",
are wrong versions of `X`: a property is only kept if replacing `X` by one of
them makes TLC report it. A run that needs several deployments has a CONSTANT
`Setups`: the variable `setup` is chosen in `Init` and never changes, and the
bounds of the run are part of it.

### Dict

A table is a record of `size`, `used` and a function from bucket index to the
set of its entries (the order of a chain is invisible to callers; where it
matters, in the iterator, every order is allowed). Hash values are a constant
function. One action per operation; every action performs the rehash step
(`_dictRehashStep`), the expansion check and the table choice in the order of the
code. `dictRehash(n)` moves n buckets and stops after n*10 empty ones: the
constants `EmptyVisits` and `CronBatch` scale that down. `MaxDoublings` bounds the
table sizes and `MaxIterators` the nested iterations.

`DictIter` keeps the iterator's position, the rest of the chain `nextEntry` leads
to and the entry just returned. The loop's body may add, replace, find and
resize, and delete only the entry it was given: the contract of safe iterators.

`DictScan` models `dictScan` with the real cursor arithmetic (`rev`, masks as mod
and plus) on a word of `CursorBits` bits.

### Commands, Scripting, Snapshot

The state `server` of `Commands` is a record: the databases, one record per client
(database, query buffer, MULTI state and queue, watched keys, blocked keys,
flags), the server-wide indexes and `propagated` commands. One event is one step:
`readQueryFromClient` appends a command to the query buffer and runs
`processInputBuffer` and `processCommand`/`call`, then `handleClientsBlockedOnLists`
as the code does after the command; `beforeSleep` processes unblocked clients;
`serverCron` times clients out. The variable `replay` is the data set of a
replica or AOF loader that executes what was propagated.

`Scripting` runs a script instruction by instruction, so that the event loop's
turns during a slow script (SCRIPT KILL, SHUTDOWN) fall in between; master,
slave and the file run the same instructions, and what a random command leaves
in the script's register differs between them. `Rdb` writes and reads files as
sequences of bytes, narrower than eight bits so that short strings reach the
limits of the encodings; `Snapshot` saves and loads them.

### Keyspace

Commands are operators on a context: the server that runs them, the time, its
role, and what has been propagated so far. A master executes clients' commands;
what it propagates reaches a replica some time later, and the append only file
in the translation of `catAppendOnlyGenericCommand` and
`catAppendOnlyExpireAtCommand`. The clock moves between any two steps.

### Aof

The file is a sequence of pieces (a command is two pieces, so that it can be
torn; a rewritten snapshot is one), with the length that is synced. Flushing
takes every outcome of `write(2)`: complete, short and undone, short and not
undone, none. The rewrite child reads its snapshot at the fork and receives the
difference through a pipe; the parent stops it, appends the rest and renames.
`Load` is `loadAppendOnlyFile`, with the MULTI handling and the truncation.

### Replication

`srv[s]` is the `server` struct of server s as far as replication uses it;
`conn[s]` is the link from s to its master together with the `client` struct the
master keeps for it, its output buffer and the bytes in flight. An offset counts
commands. Both directions of the handshake and all of `syncCommand`,
`masterTryPartialResynchronization`, `slaveTryPartialResynchronization`,
`replicationCron`, `updateSlavesWaitingBgsave`, `replicationSetMaster` and
`replicationUnsetMaster` are actions or parts of actions.

### Cluster and Reshard

`node[n]` is `server.cluster` of node n, `disk[n]` its `nodes.conf`, `net` the
packets on their way: two FIFO channels for every ordered pair (the link a node
opened, and the one it answers on). `Receive` is `clusterProcessPacket` for every
packet type, `Ping`/`PingTimeout`/`SlaveCron` are the parts of `clusterCron`, and
`Turn` ends each of them with what `clusterBeforeSleep` does. `hist` records votes,
wins and suspicions for the properties. The nodes, slots, bounds and starting state of a
situation are in `setup`, which never changes.

`Reshard` looks at one hash slot with its keys: SETSLOT MIGRATING/IMPORTING/NODE,
MIGRATE and RESTORE-ASKING in the order `redis-trib.rb` uses them, the tables of
slots the bus corrects, and clients that follow MOVED and ASK.

### Sentinel

`sen[s]` is what sentinel s knows of the master, its slaves and the other
sentinels; `disk[s]` what it has saved. Every callback of the event loop is one
action: the 100 ms timer (`sentinelTimer`, the whole of
`sentinelHandleRedisInstance`), the reply to INFO, a hello message, an
IS-MASTER-DOWN-BY-ADDR request or reply, a command of the operator. How much
time has passed is a nondeterministic choice.

### Containers

Each container is modelled on the representation the code has (entries with
length fields, nodes with ziplists, cells of an encoding, levels with spans,
compressed nodes, opcodes, bytes), and beside it a reference variable holds the
sequence, set, map or bits it should stand for. Limits of the encodings are
constants, so that small values reach them.

### Bio, Ae, Clients, Config

`Bio`: one thread per type of job takes the first job of its queue, processes it
without the lock and removes it with the lock again; steps are broken where the
lock is given up and where both threads see memory. `Ae`: `aeProcessEvents` step by
step, with handlers that close, accept, create and delete, so that descriptors
are used again while events of the same poll wait, and a clock that may be set
back. `Clients`: units of output are numbered in the order they have to reach a
client; the static buffer, the list of nodes, write handlers, limits and closing
are those of the code. `Config`: one or two options of every kind, a file as a
sequence of lines, and CONFIG REWRITE with its padding and truncation.

## 3. The runs

Twelve runs, one for each question asked of the system. All pass.

| Run | Instance | Shows |
|---|---|---|
| `dict` | 3 keys of which two share a bucket, 2 values, tables of 1 to 8 buckets, one iterator or scan | `TablesConsistent`, `LookupExact`, `ExpandNeverFails`, the refinement `MapSpec`; `IterSound` and `IterOnce` under a safe iterator; `ScanComplete` under a scan; `RehashEnds` under fairness. Deadlock is checked |
| `commands` | five setups of `Commands` (2 or 3 clients, 1 or 2 databases, 4 or 5 commands of a menu: blocking, watching, swapping, pipelining with freed clients and a role change, pausing), five of `Snapshot`, six of `Scripting` | `ReplayExact`; `BlockedSound`: no client waits for a list that is there, and the indexes agree; `ExecRefused`; `NoForgottenInput`; `SnapshotsSound`: the file is whole, `dirty` counts what is not in it, loading gives the data back; `ScriptsSound`: slave and file end with the master's data and know the scripts they are sent, and a restart gives back the data of before a script it interrupts |
| `keyspace` | nine setups: volatile keys, strings, sets, hashes, sorted sets, a writable replica, full memory under three policies | `KeyspaceSound`: the expires are keys of the database, encodings fit, memory, slot index and a writable slave's own keys are tracked, no assertion fails; `ReplaySame`: replica and file end with the master's data |
| `aof` | four setups: `everysec` and `always` with write errors, a rewrite and two power failures; `no` with two rewrites and the AOF switched off and on; a process that dies with an RDB preamble | `FileHoldsData`: the file loads to an earlier state, file and buffer hold all of the data, a truncating load is stable; `AckedIsDurable`, also when the power fails between the rename and the fsync of a rewritten file; `TransactionsAtomic` |
| `replication` | five setups: switchover, restart from a resync's file and from a save, diskless with failing children, a chain of three with a role change | `LinkStates`; `HistoryAgrees`: a replica in its master's history at the offset it applied, a backlog that ends at the offset; `ReplicaConverges`: in sync means the master's data |
| `repl_live` | a pair, two link failures and a save, with fairness | `EventuallySynced` |
| `cluster` | five setups: election of two slaves by three masters, a takeover that collides with an election, rejoin of an old master that crashes, suspicion among four masters, manual failover with writes | `ElectionsSound`: one winner per epoch, by a majority; `ConfigSound`: two nodes that both claim a slot do so under different configuration epochs, or after a takeover under an epoch newer than the replaced master's, and no assertion fails; `FailNeedsMajority`; `ManualFailoverKeepsWrites`, as long as the master holds its clients back |
| `cluster_live` | a stale master, a new cluster with equal epochs, colliding takeovers, with fairness | `ConfigsConverge` |
| `sentinel` | three sentinels in ten setups: elections in one and two epochs, a voter that restarts, RESET, a whole failover with every time-out, two slaves, a cut link, the old master back, tilt mode, two starters, SENTINEL FAILOVER with a crash | `FailoverShape`, `VotesOnce`, `OneLeaderPerEpoch`, `OneAddressPerEpoch` |
| `sentinel_live` | two sentinels, two slaves, a master that dies and comes back, with fairness | `FailoverCompletes` |
| `containers` | each container with three to five elements at the limits of the encodings | `CompactExact` (ziplist, quicklist, intset, HyperLogLog, bits), `OrderedExact` (sorted set, radix tree), `SdsSound` |
| `server` | background threads in three setups, the event loop with 2 descriptors and 3 timers, six setups of clients, four of resharding, eight of the configuration | `AeSound`, `ReshardSound`, `ServerSound` (threads, clients, configuration file), `BioEnds` under fairness |

Why the bounds are enough.

* Dict: three keys of which two share a bucket in tables of up to four, and a
  table that can double three times, give chains, several rehashes in both
  directions, keys in both tables and rehashes that start in the middle of a
  walk. `ForceRatio` and `MinFill` are chosen so that three keys cross both
  thresholds.
* Commands: every property needs at most two commands of one client between two
  of another; three clients are there for the order in which blocked clients
  are served. The menus keep together the commands that can interfere. The
  scripts contain every pair of calls whose order matters for replication.
* Keyspace: a key that expires in one tick, with three ticks, expires before,
  while and after a command reaches the replica; containers convert at the
  second entry.
* Aof: two or three writes put one command before, one during and one after a
  rewrite; two crashes let a repaired file be damaged again.
* Replication: a backlog of two commands overflows, two role changes bring a
  server back to its first role, and a chain of three is the smallest with a
  replica that has both roles.
* Cluster: three masters are the smallest cluster with a majority that can
  differ from all; two slaves compete; four masters are needed for two
  different majorities. Two attempts per slave exercise the retry.
* Sentinel: three sentinels are the smallest number with a majority that is not
  all; two starters compete, two epochs let votes of one meet those of the other.
* Containers: limits are scaled so that three to five elements cross each of
  them; cells, registers and bytes are narrower than in the code.
* Server: two descriptors, one of them used again; three timers, so that one can
  be deleted before, at and after the place of the walk; two objects and two
  keys to share and to evict; three nodes so that one hears of a move late.

`CHECK_DEADLOCK FALSE` is set where the budgets of a setup can be used up: then
nothing is left to happen, which says nothing about Redis. The dict run checks
deadlock.

The mutants show that each property can be broken by a plausible mistake in the
code: a missing `rehashidx` table choice (`Insert_FirstTable`), a `SELECT` memory
that survives a fork, a vote counted twice, an offset one too far.

## 4. Fairness

* `dict`: loops over a safe iterator end (weak fairness of
  `dictReleaseIterator`: iterations lie inside one handler); a saving child ends
  again and again (strong fairness of the step that allows resizing: children
  finish, and `serverCron` calls `updateDictResizePolicy` afterwards); and
  `serverCron` gets to `incrementallyRehash` while there is no child (strong
  fairness: the timer fires for ever, but children switch it on and off).
  Nothing is assumed of clients.
* `repl_live`: weak fairness, per server, of the steps that need neither a
  failure nor an administrator: sockets that stay readable are read, children
  end, `replicationCron` runs every second. Failures are bounded by the setup.
* `cluster_live`: packets are read and pings are sent. These are weak fairness
  conditions of `Receive` and `Ping`, written out as `[]<>` formulas with the
  conditions that enable them, because evaluating ENABLED of these long handlers
  is out of TLC's reach.
* `sentinel_live`: weak fairness of the timer of each sentinel, with a link that
  stays down or up noticed (`Prompt`: the down-after period is finite), of INFO
  replies, of hello messages and of requests for votes and their answers: all of
  them are sent periodically on connections that are opened again. Only one
  sentinel starts a failover and hello messages arrive in the time that is waited
  for them (`timely`): with two starters votes can split again and again, which
  the code makes unlikely by random delays only.
* `server`: each background thread runs (weak fairness of its steps; the code
  has one thread per type, and mutexes are released after a bounded section),
  and the loop of `freeMemoryIfNeeded` that waits for it looks again and again
  (strong fairness, since the lock may be taken in between).

## 5. The proofs

Eight modules, 897 theorems and lemmas in all. The results:

| Module | Theorem | States |
|---|---|---|
| `DictProofs` | `TypeCorrect` | `Spec => []TypeOK` |
| | `TablesCorrect` | `Spec => []TablesConsistent`: entries in the right bucket, no key twice, nothing left below `rehashidx`, exact counters |
| | `LookupCorrect` | `Spec => []LookupExact`: lookups see exactly the stored keys at every stage of a rehash |
| | `ExpandCorrect` | `Spec => []ExpandNeverFails`: `dictAddRaw` refuses no key for a failed expansion |
| | `Refinement` | `Spec => MapSpec`: the dict implements `DictMap` with `map <- Contents(dict)` |
| | `IteratorCorrect` | `IterSound`: the entry the iterator goes on to exists, and an iterator that ends has returned every key that stayed |
| | `ReturnsOnce` | `IterOnce`: no key twice, unless it was deleted and added again |
| `ReplicationProofs` | `LinksFit` | `LinkStates`: the two ends of a link, the cached master and the backlog fit together |
| | `HistoriesAgree` | `HistoryAgrees`: a connected replica has its master's ID and the offset it has applied; every backlog ends at its server's offset |
|  | `ReplicasConverge` | `FixedRoles => ReplicaConverges`: with fixed roles or without `repl-backlog-ttl`, what a replica has applied and what is in flight to it lead exactly to its master's data |
| `AofProofs` | `AofInvariant` | the inductive invariant `AofInv` |
| | `FileIsSafe` | `FileHoldsData` |
| | `AckedIsSafe` | `AckedIsDurable` |
| | `TransactionsAreAtomic` | `TransactionsAtomic` |
| `SentinelProofs` | `ShapeHolds` | `FailoverShape`: every pointer the failover follows is there, no epoch is ahead |
| | `OneVoteEach` | `VotesOnce`: one vote per epoch, across restarts |
| | `OneLeader` | `NoReset /\ OwnEpochs => OneLeaderPerEpoch`: majorities of all sentinels intersect, so an epoch has one leader |
| `ClusterProofs` | `AssertionsHold` | `TypeOK /\ NoAssertion`, two of the three parts of `ConfigSound`: the assertions of `clusterSetMaster` never fail |
| | `FailuresCorrect` | `[]QuorumsFull => []FailNeedsMajority`: FAIL rests on a majority that found the node unreachable |
| | `ElectionsCorrect` | `[]ElectionTerms => []ElectionsSound`: a winner has the votes of a majority, and no epoch has two |
| `SdsProofs` | `StringsSound` | `SdsSound`: no write outside of the memory, header and bytes those of the value |
| `AeProofs` | `LoopCorrect` | `AeSound`: handlers called only for what is watched, epoll and table agree, no timer twice, every due timer called |
| | `TimersStay` | `TimersKept`: no timer is lost from the list by what handlers do while it is walked |
| `BioProofs` | `ThreadsSound` | `BioSound`: no fsync pending only if all have returned, `lazyfree_objects` exact, no object freed twice or used when it is free |

**Dict.** The inductive invariant `Inv` says that the dict is `Good` (it has its
type, both tables are placed and counted, keys are unique, and the rehash has
its shape) and that `dict_can_resize` is a Boolean. No part is inductive alone:
that a key is not added twice needs a lookup that finds it, a lookup that finds
it needs the placement and that the buckets below `rehashidx` are empty, and
that the rehash stops in time needs exact counters. The proof is a chain of
lemmas, one for each operator of `Dict`, each saying that `Good` is preserved and
what happens to `Contents`; the theorem about `Next` has a step per action and
cites them. The same facts about `Contents` give the refinement: rehash steps and
resizes are stuttering. Moving several buckets is a step whose target index is
described by a predicate (`StopsBefore`) instead of recursion, so no induction
over data is needed.

**Iterator.** `IterInv` adds to `Inv` that a key that stayed was returned or is still
to come, in the rest of the chain or in a bucket ahead, and that no key that was
returned and is still stored is still to come. It is preserved because a safe
iterator stops the moving of buckets: a rehash that starts under it moves
nothing, and additions go to the second table, which is ahead.

**Replication.** `IInv` relates each server to its own link only (`ServerOK`, `LinkOK`
and the types of all messages), so that a step need not be compared with the
servers it does not name. `LinkStates` alone is not inductive: that a replica
which gets `+CONTINUE` has a cached master, that a transfer finds its RDB file, and
that a slave implies a backlog need the state of the handshake on both sides.

**Convergence.** `ReplicaConverges` relates the data of two servers through bytes that
are on the way, so it needs what the two have in common: for each replication ID
a *history*, the data set and the selected database at every offset. `Fits` says that there are
histories that everything agrees with: every server is at its offset of the
history of its ID, its second ID has the same history below the offset where it
ends, its backlog is the piece of the history that ends there, every RDB
file is a prefix, and every message on a link is the piece that follows what the
replica has. The histories are bound by an existential quantifier and not by a
variable, so the model has no ghost state: a write extends the history of the
ID, a new ID (`changeReplicationId`, a restart, a full resynchronisation of a
server that had none) gets one that begins like the old. The inductive invariant
is `IInv /\ (FixedRoles => Fits)`, one lemma per action, and `FitConverges` runs the
effect along the stream in flight to get the property. `FixedRoles` (if the
backlog has a time to live, no role changes) is what the code needs:
`replication.c:2616` frees a backlog and keeps the ID, so that two servers can have
one ID and different histories (section 6).

**Append only file.** `AofInv` says that the file followed by the buffer is a stream
of whole commands that loads to the data set (`Holds`), and so is the snapshot of
a rewrite with the pipe and the difference buffers, so that the switch to the new
file is safe at any moment; and that what is synced, and what a crash can leave
of the file, loads to an earlier state. `AckInv` adds that what a client was told
is in the synced part, and `TxInv` that the stream never ends inside a
transaction except where a buffer continues it. The lemmas about `Load` describe it
by its steps (`Read`) and need a fold over pieces that is unrolled at its end
only. The theorems hold for every configuration that is `Sane`: two are left out
because the code loses data in them (section 6, `aof.c:208` and `aof.c:630`).
`TransactionsAtomic` is about configurations without power failure and failed
writes, as the run's property is.

**Sentinel.** `IInv` types every record and file and states for each sentinel that its
tables hold neither the master nor itself, that the promoted slave is in the
table exactly in the states that use it, that slaves are reconfigured in no
earlier state, that epochs are bounded by the current one, and that `leader_epoch`
on disk and in memory covers every vote ever sent. `VotesOnce` needs the last:
the vote is flushed before it is sent, so a restart cannot forget it.

`OneLeader` needs a second invariant, `VInv`, about who knows what: the votes a
sentinel knows, its own and those its peers reported, are all in the history of
votes sent (`Honest`); as long as nobody was reset, every sentinel and its file
know all others (`Complete`), so that `voters/2+1` in `sentinelGetLeader` is a majority
of all and not of those it happens to know; and a leader elected in the epoch
it asked for votes in has a majority of all sentinels in the history (`Chosen`).
Two majorities have a sentinel in common, and `VotesOnce` says that it voted for
one. Both hypotheses are needed: SENTINEL RESET empties the table of sentinels
(`sentinel.c:1408`), and a sentinel counts votes for its *current* epoch and leads
with its *failover* epoch (`sentinel.c:3655`, `:3683`), which differ if another
failover raised the current one meanwhile. `OwnEpochs` says that no leader did so;
the history records both epochs of every leader.

**Cluster.** A packet may go through any of some twenty functions of `cluster.c`, so
the proof first says of each handler what it leaves alone: `Step` (no part in an
election, flags stay founded), `Move` (the same, if the packet read is founded) or
one of the few steps that elections consist of (`Asks`, `Wins`, `VotesFor`,
`Counts`). `NextIs` sums this up: a step of the system is an event of a running node
(`Does`), time that passes (`Ticks`), a crash (`Dies`) or a restart (`Returns`), and the
three invariants are proved over these four.

* `TInv`: types, and `Sane`: a node is known as a slave just if its master is, a node
  is not its own master, and a slave serves no slot, in memory and in `nodes.conf`
  alike. The last is what the assertions of `clusterSetMaster` need.
* `FInv`: every flag, in memory, in `nodes.conf` or in a packet, is `Founded`: PFAIL by
  the node itself, FAIL by a majority; and failure reports come from nodes that did
  suspect. `FailNeedsMajority` alone is not inductive, as a FAIL message or a saved
  flag could be unfounded. The hypothesis `QuorumsFull` says that running nodes count
  all masters. It is needed: `clusterInit` begins with `size` 1, so a node that has just
  restarted can flag another one alone (`cluster.c:1173`, section 6).
* `EInv`: nobody voted twice in an epoch (`NoDouble`) nor after its `lastVoteEpoch`
  (`Upto`); requests and votes in flight belong to the attempt their slave is in
  (`Asking`, `Answered`); `auth_count` is the number of distinct voters whose votes
  have arrived (`AllTallied`); winners had a majority (`Majorities`). The hypothesis
  `ElectionTerms` has four parts. No vote arrives after `auth_retry_time`, and no voter
  crashes before its vote was saved (`VotesSaved`): the code breaks the property
  without them (`cluster.c:2907` and `:2692`, section 6). The quorum of a slave is a
  majority (`SlavesFull`): again `size` after a restart. And in the epoch of a winner
  no more nodes voted than there are slots (`FewVoters`, the model gives every master
  one slot): a master that was replaced and has not heard of it votes beside
  its successor, and although a slave counts only voters that serve a slot in its
  own table, the tables of two slaves may differ.

TLC evaluated these hypotheses on all reachable states of the four situations of
the run `cluster`: all of them hold everywhere in the election, among the four
masters and in the manual failover. Where an old master restarts, `SlavesFull` and
`FewVoters` hold and the other two do not; there the properties themselves are
checked by TLC.

**Strings.** A string is `Whole` when its header and memory agree and `Good` for a
value when its bytes are those of the value. Each operation of `sds.c` has a lemma
(`sdsMakeRoomFor` with the change of the header type, growing with zeroes,
concatenation, copying, range, trim, formatting byte by byte), and the theorem
cites one per action.

**Event loop.** `WorldOK`: epoll, the table and the open descriptors agree, `maxfd` is
exact, and the list of timers is strictly decreasing in the identifiers, because
timers are linked at the head. `WalkOK`: `prev` is right before the timer the walk is
at, the walk does not pass `maxId`, and timers that are due and were not called
are ahead of it. The invariant survives handlers because all they do to the list
is to link one timer at its head or to mark one as deleted (`Follows`).

**Background threads.** `BioInv` says that the job a thread has in hand is the first
of its queue with some of its objects already freed, that jobs are in the order
of their identities (so that the node removed is the one that was processed),
that an fsync which has not returned belongs to a job of the queue, and that an
object has one holder, a key or a job (`OneHolder`). The last is what makes the
plain, not atomic, `decrRefCount` of the thread exact: what it reads is 1 and nobody
else writes it. It is false with RENAME under `lazyfree-lazy-server-del`, which
hands over an object that is referenced twice (section 6), so the theorem is
about setups that are `Sane`, without the two together. The total of the counts in
a queue is a sum over a sequence: lemmas about adding a job and removing the
first are proved by the least counterexample (`Climb`).

The assumptions are those on the constants (`DictAssumption`, `AofAssumption`,
`ReplicationAssumption`, `SentinelAssumption`, `ClusterAssumption`, `SdsAssumption`, `AeAssumption`, `BioAssumption`), and
TLC evaluates them in the runs. The theorems put no bound on keys, servers,
databases, writes, failures, descriptors, timers, objects or jobs; the `max` of a setup is any natural
number.

## 6. Where the code and its comments disagree

Met while modelling. The setups of the passing runs leave these cases out, or the
property names them as exceptions, and the change named in the last column shows each.

| Code | What happens | Setup that shows it |
|---|---|---|
| `replication.c:2616` (`:188`, `:1005`, `:2161`) | the backlog of a master without slaves is freed after `repl-backlog-ttl` and its replication ID is kept; writes from then on advance no offset, and after a failover the old master is accepted with `+CONTINUE` although it has data the new one lacks | `ReplicaConverges` with `ttl` and role changes |
| `aof.c:630` | `valid_up_to` does not include an RDB preamble: if the first command after it is torn, the file is truncated to nothing | `FileHoldsData` with `preamble` and `powerloss` |
| `aof.c:208` | `stopAppendOnly` keeps `aof_buf` when its write fails; a BGREWRITEAOF while the AOF is off replaces the file and clears nothing (`aof_fd` is -1); when it is switched on again the old buffer is written after the snapshot that already has its commands | `FileHoldsData` with `failures` and `toggles` |
| `aof.c:737` | a transaction that a power failure or a short write tore is loaded up to the tear if the file is cut between commands | `TransactionsAtomic` with power failures |
| `aof.c:1514` (`aof.c:1536`, contract at `aof.c:385`) | a rewritten file gets its name before the differences the parent appended to it are synced: a power failure in between loses writes that appendfsync always had acknowledged and synced in the old file | `AckedIsDurable` when `CrashAfterRename` forgets nothing |
| `server.c:2730` (`server.c:2820`, `aof.c:737`) | SHUTDOWN NOSAVE in a script that takes too long writes the MULTI and the effects so far to the file, and the loader executes them: half of the script survives | `ScriptsSound` without the exception `torn` |
| `db.c:967`, `db.c:1011` (comment `db.c:385`) | MOVE and SWAPDB do not call `signalModifiedKey()`: an EXEC that watches the keys is executed | `WatchMenu` with MOVE or SWAPDB |
| `sort.c:568` (`t_list.c:717`, `db.c:1024`) | SORT ... STORE over a key of another type does not signal clients that are blocked on it | `BlockMenu` with SORT into `k1` |
| `server.c:2696` (`multi.c:80`) | the refusal on a read-only slave does not call `flagTransaction` | `WatchMenu` with a role change |
| `multi.c:162` (`server.c:2692`) | EXEC executes writes that were queued before the instance became a slave | the same |
| `networking.c:2011` (`blocked.c:149`) | `clientsArePaused` queues a client that is already in `unblocked_clients` again | `IndexesAgree` without the condition on pauses |
| `dict.c:959`, comment at `dict.c:824` | a scan that calls in the middle of a rehash between tables that differ by two powers of two or more, with a cursor that has bits between the two masks, misses keys | `ScanComplete` without the condition on `Leaps` |
| `cluster.c:2907` (comment `cluster.c:1015`) | the vote counter is reset when an attempt is scheduled, not when votes are asked for: late votes of the attempt before are counted | `Election` with `latevotes` |
| `cluster.c:2692` (`cluster.c:1015`) | a vote is sent before `nodes.conf` is written; a voter that restarts in between votes twice in an epoch | `Election` with a voter among the crashers |
| `cluster.c:1173` (`cluster.c:1154`) | a master that has just restarted has cluster size 1 and flags a node as failing alone | `Unreachable` with a crasher |
| `cluster.c:1689` (`cluster.c:3137`) | the PAUSED packet of an earlier manual failover is taken for the current one's | `Manual` with two attempts |
| `cluster.c:2838` (`cluster.c:3147`, `:3158`, comment `cluster.c:3137`) | a slave that runs for a manual failover tests that the attempt is on, not its deadline, and the master stops pausing its clients at a deadline of its own: if the master's cron finds it first, a write it then accepts is lost when the slave wins | `ManualFailoverKeepsWrites` without `paused` |
| `sentinel.c:1408` (comment `sentinel.c:1391`) | SENTINEL RESET forgets the other sentinels, so that a majority of those known is a smaller number; a sentinel that is a candidate then can be elected beside another | `OneLeaderPerEpoch` with a RESET of a starter |
| `db.c:903` (`lazyfree.c:69`) | RENAME with `lazyfree-lazy-server-del` hands an object of two references over to the thread; both threads then change its count, which is not atomic, and it may be leaked or freed twice | `BioSound` with `rename` and `serverDel` |

Others, which no setup shows because the part that matters is abstracted or the
menus avoid it:

* Keyspace: INCRBYFLOAT is propagated as SET and drops a time-out
  (`t_string.c:553`); RESTORE with a time-out is written to the AOF with the
  relative one. HSETNX may convert the encoding without propagating, HINCRBY
  does not convert for a long field.
* Quicklist: a node keeps a stale `recompress` flag after `listTypeNext`
  (`t_list.c:116`, `quicklist.h:70`); with a depth of two or more and `2*depth` nodes
  a node in the middle can stay raw; the test for `at_tail` around `quicklist.c:857`
  is never true.
* Rax: `raxSeek` with `<` or `<=` can skip a key; `raxRandomWalk` divides by zero on
  an empty tree; a node's size is limited by `RAX_NODE_MAX_SIZE` without a check.
* Bits: BITFIELD of an i64 shifts by 64 (`bitops.c:258`, `:318`, `:360`, undefined);
  `OVERFLOW SAT SET iN` near `INT64_MIN` stores the maximum; SET uN of a negative
  number saturates to the maximum; BITPOS lacks BITCOUNT's test of start > end.
* Sentinel: votes of two epochs can make one majority (`sentinel.c:3655`); an epoch
  that another master's failover raises can give two leaders the same
  `failover_epoch`; a forced failover beside an automatic one can give two
  addresses for one configuration epoch; with `parallel_syncs` 1 the
  reconfiguration never reaches `slave-reconf-sent-timeout`; a new `config_epoch`
  of the same address is not flushed; a sentinel may make an instance replicate
  itself for a moment (`sentinel.c:4085`).
* Reshard: the epoch is not raised when not all nodes agree (`cluster.c:990`,
  `cluster.c:1508`); a connection of MIGRATE that breaks leaves the key on both
  nodes; `verifyClusterConfigWithData` reopens an import after a restart.
* Scripts: an EVALSHA that is not in the cache is propagated as EVAL even when it
  failed, was refused or killed (`scripting.c:1383`); an OOM refusal caught by
  `redis.pcall` before another write diverges (`:500`); a slave whose own BGSAVE
  failed refuses writes of replicated scripts (`:487`); `replicate_commands` inside
  MULTI emits a nested MULTI (`:545`); a script that catches the kill with Lua's
  `pcall` can write after SCRIPT KILL was accepted; a slave that restarts and
  resyncs partially has lost its scripts.
* Snapshots: DEBUG RELOAD during a BGSAVE makes `dirty` negative (`debug.c:337`); the
  orphan child of a process that crashed can rename an older snapshot over a
  newer one.
* Configuration: `repl-backlog-ttl` is rewritten in the memory format (2048 becomes
  2kb, `config.c:1981`) and loaded with `atoi`; `cluster-node-timeout 0` and
  `active-defrag-ignore-bytes 0` are accepted by CONFIG SET and refused at load;
  `lfu-log-factor` and `lfu-decay-time` are never rewritten, and out of bounds they are
  accepted at load, where `maxmemory_samples` is tested (`config.c:336`, `:342`); CONFIG SET
  `client-output-buffer-limit` checks with `memtoll` and stores with `strtoll`;
  `slowlog-log-slower-than` cannot be set to a negative number; `requirepass ""` in
  a file is an empty password and clears it in CONFIG SET; an option that is back
  at its default and stands only in an included file is not rewritten; lines of
  more than 1024 bytes are split by REWRITE and not by the loader; a short
  `write(2)` of the file is ignored (`config.c:1916`; a write that fails leaves the
  file as it was, which is no step of the model).
* Server: `bioWaitStepOfType` (`bio.c:208`, not called) can miss a wakeup; `fe` in `ae.c:441`
  is stale after a handler calls `aeResizeSetSize` (`config.c:873`); CLIENT REPLY
  OFF followed by QUIT leaves the connection open (`server.c:2580`);
  `copyClientOutputBuffer` does not check the limits.
* Strings: `sdstrim` strips NUL bytes; `sdsIncrLen(s,0)` fails its assertion on a string
  of type 5; `sdsrange` computes with `int`.

## 7. Abstractions

* Dict: chains are sets; random sampling, unsafe iterators and statistics only
  read. Tables have at most 2^`MaxDoublings` buckets: `dictExpand` is not asked for
  more because chains may grow.
* Commands: lists and strings stand for all types (a type with a blocking
  operation and one that overwrites). No expiry, Lua, WAIT, modules or cluster
  redirection. `refuse` stands for OOM and MISCONF, which a server enters and
  leaves for reasons outside the model. Slaves are read-only. The order in which
  SWAPDB reports ready keys is fixed. Input of a client that is about to be
  closed is ignored.
* Scripting: a script works on one register, does not catch errors with Lua's
  `pcall`, and is not called inside MULTI. Conversions between Lua and replies are
  left out.
* Snapshot: LZF and the CRC are stand-ins; a crash is of the machine; a child
  that is killed ends at once.
* Keyspace: one database; which keys an active cycle samples and which of the
  candidates eviction prefers is left open; the replica has no memory limit of
  its own, and the keys its own clients write are not the master's.
* Aof: `aof-load-truncated yes`; a rename is durable at once; an fsync does not
  fail; a restart always loads the AOF; a write to a descriptor that has been
  reused is a failing write. The per-type rewriting functions and the text of
  commands are not modelled.
* Replication: the PING/AUTH/REPLCONF part of the handshake is one state. When a
  slave closes its link the master's client is removed in the same step.
  Time-outs and errors of every kind are link breaks. Slaves are read-only, and a
  failed load of an RDB file leaves none. The AOF of a replica is not modelled, nor
  is a rewrite child of the master for which a BGSAVE would wait (`replication.c:752`,
  `:2640`) or a fork that fails when slaves are waiting for one (`:1000`).
* Cluster: fixed membership; gossip sections carry all nodes; rank and data age
  only delay an attempt, so every delay is allowed; the node time-out is larger
  than `CLUSTER_WRITABLE_DELAY`; packets of one direction of a link are not
  reordered; `FailNeedsMajority` asks who ever suspected a node, not who still does; a crash is of the process, so what was written to `nodes.conf` is
  there. `latevotes` says whether votes may take longer than the retry time.
* Reshard: the masters do not fail; late RESTOREs arrive in the order of the
  connection; a move begins when every node has heard of the last one; SETSLOT
  STABLE tests nothing, but the administrator gives a move up only while the target
  has no key of its own.
* Sentinel: one master; instances are what SLAVEOF sets and INFO reports; elapsed
  time is free except that an election times out before a sentinel that stands
  back for two failover timeouts starts its own. Writing the configuration file does
  not fail (`sentinel.c:1845` only logs it, and a crash would then forget a vote). No setup has votes of two epochs for one
  sentinel under way at once.
* Containers: list values have one size; with compression only the operations
  that leave no node decompressed behind are used; an element of a HyperLogLog is
  the register and the run of zeros it hashes to.
* Bio: the type of job that closes a file runs the same loop and is left out; RENAME over
  an existing key is a delete and then the rename.
  Ae: `aeResizeSetSize` and the other polling calls are left out; an event that cannot
  be created is one whose handler does nothing; with the run's three operations a
  handler closes a descriptor, and reuse of its number in one poll is left to the theorem.
* Config: one or two options of each kind; splitting into words, quoting and
  included files are left out.

## 8. What is only model-checked, and what is not modelled

Out of the prover's reach and left to TLC: the liveness properties (`RehashEnds`,
`EventuallySynced`, `ConfigsConverge`, `FailoverCompletes`, `BioEnds`).

Only model-checked, for the following reasons:

* `ScanComplete` is about a whole scan with bit-reversed cursors: a theorem needs
  an induction over the bits.
* `OneAddressPerEpoch`: a failover that a user forces (`sentinel.c:3966`) is led
  without votes, so beside an automatic one it can give two addresses for one
  configuration epoch (section 6). It holds in the instances that leave this out.
* Outside of the hypotheses of their theorems, `ReplicaConverges` (a time to live of
  the backlog with role changes) and `OneLeaderPerEpoch` (a RESET, or an epoch that
  moved between the start of a failover and its election) are not true in
  general; the runs say in which instances they still hold.
* The properties of `Commands`, `Keyspace`, `Scripting`, `Snapshot`, `Reshard` and of the
  containers other than `Sds`: these modules use RECURSIVE operators where the code
  loops over a growing list (serving ready keys, executing a queue, cascading
  updates), or state what a loop over data computes, which needs induction.
* `Cluster`: that two claims of a slot have different configuration epochs unless
  a slave was told to take over (`ClaimsOrdered`, the third part of `ConfigSound`), and
  `ManualFailoverKeepsWrites`. The first needs an account of every epoch a node
  might still hear of; that the collisions which takeovers do cause are settled is
  liveness (`ConfigsConverge`). The second does not hold for a second attempt or a
  master that gave up (section 6), and needs one of the pauses and offsets of a
  single attempt. `FailNeedsMajority` and `ElectionsSound` are proved under
  the hypotheses of section 5 and checked by TLC in the situations that violate them.
* The properties of `Clients` and `Config`, in one run with those of `Ae` and `Bio` (`ServerSound`): not attempted.

Not modelled: WAIT and min-slaves-to-write; the membership of a cluster and slave
migration; object reference counts outside of lazy freeing and the allocator;
zipmap, SORT's order and GEO; the script debugger; the modules API;
introspection (debug, latency, slow log, defragmentation); system call wrappers,
checksums and hashes; command line tools and `deps/`. They are sequential
functions of one value, interfaces, terminal I/O, or third-party code; WAIT and
membership have state of their own and are left for an extension.

## 9. Plan

1. Proofs: `ClaimsOrdered` of `Cluster`, with the epochs each node has heard of as part
   of the invariant.
2. `Wait`: acknowledged offsets, WAIT and min-slaves-to-write, on top of
   `Replication`.
3. Cluster membership: MEET, handshake, FORGET, slave migration.

Abstract specifications worth stating: a replicated log that `Replication`
implements; an abstract election that `Cluster` and `Sentinel` implement; a durable
log for `Aof`.
