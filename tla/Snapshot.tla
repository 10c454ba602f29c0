------------------------------ MODULE Snapshot ------------------------------
(***************************************************************************)
(* When and how the data set is saved and loaded (rdb.c, server.c, db.c):   *)
(* SAVE, BGSAVE with its child, the save points, FLUSHALL and SHUTDOWN,     *)
(* each of which may fail half-way, and restarts after a crash of the       *)
(* machine.  The bytes written are those of module Rdb.                     *)
(***************************************************************************)
EXTENDS Rdb

CONSTANTS
    SnSetups,      \* name -> data sets to start with and to write, whether to start from
                   \* SnFiles, limits, operations, and the bounds on changes and time
    SnFiles,       \* files of older versions: bytes and the databases they stand for
    SnSavePoint,   \* changes of the save point
    SnInfo         \* the replication fields of a file saved by a master

VARIABLES
    sn,          \* the server
    snfile,      \* the bytes of dump.rdb, <<>> if there is none
    snghost,     \* changes: made to the data; saved: those in the file; newest: the most
                 \* that ever were in it; data, rsi: what the file stands for
    snsetup

snapVars == <<sn, snfile, snghost, snsetup>>

SnSetup == SnSetups[snsetup]

NoChild == [phase |-> "none"]

\* What a value is to a client, whatever its encoding.
Content(o) ==
    [type |-> o.type,
     v |-> CASE o.type = "string" -> IF o.enc = "int" THEN ll2string(o.v) ELSE o.v
             [] o.type = "list"   -> Concat([i \in DOMAIN o.v |-> o.v[i].zl])
             [] o.type = "set"    -> IF o.enc = "intset" THEN setTypeConvert(o).v ELSE o.v
             [] o.type = "zset"   -> IF o.enc = "ziplist" THEN zsetOfZiplist(o.v) ELSE o.v
             [] o.type = "hash"   -> IF o.enc = "ziplist" THEN hashTypeConvert(o.v) ELSE o.v
             [] o.type = "module" -> o.v]

\* The keys of a database that have not expired, with their content.
Live(db, now) ==
    [k \in {x \in DOMAIN db : db[x].expire = NoExpire \/ db[x].expire >= now} |->
        [o |-> Content(db[k].o), expire |-> db[k].expire]]

LiveDbs(dbs, now) == [j \in 1..RdbDbs |-> Live(dbs[j], now)]

EmptyDbs == [j \in 1..RdbDbs |-> <<>>]

SnServer(dbs, lim) ==
    [up |-> TRUE, dbs |-> dbs, dirty |-> 0, dirty_before_bgsave |-> 0, child |-> NoChild, aof_child |-> FALSE,
     rdb_bgsave_scheduled |-> FALSE, lastbgsave_status |-> "OK", now |-> 0, lim |-> lim]

SnGhost(changes, data) == [changes |-> changes, saved |-> 0, newest |-> 0, data |-> data, rsi |-> NoSaveInfo]

\* The server runs and has saved nothing, or is about to start from a file, perhaps one
\* that an older version wrote.
SnapshotInit ==
    /\ snsetup \in DOMAIN SnSetups
    /\ \/ /\ \E i \in DOMAIN SnSetup.start : sn = [SnServer(SnSetup.start[i], SnSetup.lim) EXCEPT !.dirty = 1]
          /\ snfile = <<>>
          /\ snghost = SnGhost(1, EmptyDbs)
       \/ \E i \in IF SnSetup.old THEN DOMAIN SnFiles ELSE {} :
              /\ sn = [SnServer(EmptyDbs, SnSetup.lim) EXCEPT !.up = FALSE]
              /\ snfile = SnFiles[i].bytes
              /\ snghost = SnGhost(0, LiveDbs(SnFiles[i].dbs, 0))

May(op) == sn.up /\ op \in SnSetup.ops

\* dump.rdb is replaced by a file with the data dbs, as they were after n changes.
Renamed(bytes, dbs, at, n, rsi) ==
    /\ snfile' = bytes
    /\ snghost' = [snghost EXCEPT !.changes = IF n > @ THEN n ELSE @, !.saved = n, !.newest = IF n > @ THEN n ELSE @,
                     !.data = LiveDbs(dbs, at), !.rsi = rsi]

-----------------------------------------------------------------------------

\* A command that changes the data.  processCommand() refuses it after a failed save.
SnWrite(dbs) ==
    /\ May("write")
    /\ sn.lastbgsave_status = "OK"
    /\ snghost.changes < SnSetup.writes
    /\ dbs # sn.dbs
    /\ sn' = [sn EXCEPT !.dbs = dbs, !.dirty = @ + 1]
    /\ snghost' = [snghost EXCEPT !.changes = @ + 1]
    /\ UNCHANGED snfile

\* rdbSave() by the server itself, when it succeeds: the temporary file is written, flushed
\* and renamed.  After an error it is removed and the old file stays.
Saved(s, n, rsi) == Renamed(rdbSaveRio(s.dbs, s.now, rsi, s.lim), s.dbs, s.now, n, rsi)

saveCommand(ok) ==
    /\ May("save")
    /\ sn.child = NoChild
    /\ IF ok THEN Saved(sn, snghost.changes, SnInfo) /\ sn' = [sn EXCEPT !.dirty = 0, !.lastbgsave_status = "OK"]
       ELSE UNCHANGED <<sn, snfile, snghost>>

Forked(s, rsi) ==
    [s EXCEPT !.dirty_before_bgsave = s.dirty,
              !.child = [phase |-> "forked", dbs |-> s.dbs, n |-> snghost.changes, rsi |-> rsi,
                         bytes |-> <<>>, at |-> 0]]

rdbSaveBackground(ok, rsi) ==
    IF sn.aof_child \/ sn.child # NoChild THEN sn
    ELSE IF ok THEN Forked(sn, rsi)
    ELSE [sn EXCEPT !.dirty_before_bgsave = sn.dirty, !.lastbgsave_status = "ERR"]

bgsaveCommand(ok, schedule) ==
    /\ May("bgsave")
    /\ sn.child = NoChild
    /\ sn' = IF sn.aof_child THEN [sn EXCEPT !.rdb_bgsave_scheduled = @ \/ schedule]
             ELSE rdbSaveBackground(ok, NoSaveInfo)
    /\ UNCHANGED <<snfile, snghost>>

\* serverCron(): a save point that is reached; after an error only when some time has
\* passed, which the model leaves open.
SavePoint(ok) ==
    /\ May("bgsave")
    /\ sn.child = NoChild /\ ~sn.aof_child
    /\ sn.dirty >= SnSavePoint
    /\ sn' = rdbSaveBackground(ok, SnInfo)
    /\ UNCHANGED <<snfile, snghost>>

StartScheduled(ok) ==
    /\ sn.rdb_bgsave_scheduled /\ sn.child = NoChild /\ ~sn.aof_child
    /\ LET s == rdbSaveBackground(ok, SnInfo)
       IN  sn' = [s EXCEPT !.rdb_bgsave_scheduled = s.child = NoChild]
    /\ UNCHANGED <<snfile, snghost>>

AofChild(on) ==
    /\ May("aof")
    /\ on => sn.child = NoChild
    /\ sn' = [sn EXCEPT !.aof_child = on]
    /\ UNCHANGED <<snfile, snghost>>

\* The child: rdbSave() on the data of the fork, then exit.
ChildWrites ==
    /\ sn.child.phase = "forked"
    /\ sn' = [sn EXCEPT !.child.phase = "written", !.child.at = sn.now,
                        !.child.bytes = rdbSaveRio(sn.child.dbs, sn.now, sn.child.rsi, sn.lim)]
    /\ UNCHANGED <<snfile, snghost>>

ChildRenames ==
    /\ sn.child.phase = "written"
    /\ Renamed(sn.child.bytes, sn.child.dbs, sn.child.at, sn.child.n, sn.child.rsi)
    /\ sn' = [sn EXCEPT !.child.phase = "exit 0"]

ChildFails(how) ==
    /\ May("fail")
    /\ sn.child.phase \in {"forked", "written"}
    /\ sn' = [sn EXCEPT !.child.phase = how]
    /\ UNCHANGED <<snfile, snghost>>

backgroundSaveDoneHandlerDisk ==
    /\ sn.child.phase \in {"exit 0", "exit 1", "SIGUSR1", "SIGKILL"}
    /\ sn' = [sn EXCEPT
                !.child = NoChild,
                !.dirty = IF sn.child.phase = "exit 0" THEN @ - sn.dirty_before_bgsave ELSE @,
                !.lastbgsave_status = CASE sn.child.phase = "exit 0"              -> "OK"
                                        [] sn.child.phase \in {"exit 1", "SIGKILL"} -> "ERR"
                                        [] OTHER                                  -> @]
    /\ UNCHANGED <<snfile, snghost>>

\* Mutant: the child goes on.
Killed_Not(s) == s

\* kill(SIGUSR1): a child that has exited already is not changed by it.
Killed(s) ==
    IF s.child.phase \in {"forked", "written"} THEN [s EXCEPT !.child.phase = "SIGUSR1"] ELSE s

\* The FLUSHALL itself is one change; an empty file is saved at once, without the changes
\* counting as saved.
flushallSave(ok) ==
    /\ May("flushall")
    /\ sn.lastbgsave_status = "OK"
    /\ snghost.changes < SnSetup.writes
    /\ LET keys == FoldLeft(LAMBDA a, db : a + Cardinality(DOMAIN db), 0, sn.dbs)
           s    == Killed([sn EXCEPT !.dbs = EmptyDbs, !.dirty = @ + keys + 1])
       IN  sn' = IF ok THEN [s EXCEPT !.lastbgsave_status = "OK"] ELSE s
    /\ IF ok THEN Saved([sn EXCEPT !.dbs = EmptyDbs], snghost.changes + 1, SnInfo)
       ELSE UNCHANGED snfile /\ snghost' = [snghost EXCEPT !.changes = @ + 1]

Tick ==
    /\ sn.now < SnSetup.time
    /\ sn' = [sn EXCEPT !.now = @ + 1]
    /\ UNCHANGED <<snfile, snghost>>

-----------------------------------------------------------------------------

\* loadDataFromDisk(): no file is an empty data set.
Loaded(bytes, now, lim) ==
    IF bytes = <<>> THEN [Loader(1) EXCEPT !.eof = TRUE] ELSE rdbLoadRio(bytes, now, lim)

\* The server as it is after loading, perhaps with other limits.
Start(lim) ==
    /\ ~sn.up
    /\ sn' = [sn EXCEPT !.up = TRUE, !.dbs = Loaded(snfile, sn.now, lim).dbs, !.lim = lim]
    /\ UNCHANGED <<snfile, snghost>>

Stopped(s) == [SnServer(EmptyDbs, s.lim) EXCEPT !.up = FALSE, !.now = s.now]

\* The machine stops, the child with the server.
Crash ==
    /\ May("crash")
    /\ sn' = Stopped(sn)
    /\ snghost' = [snghost EXCEPT !.changes = snghost.saved]
    /\ UNCHANGED snfile

\* SHUTDOWN SAVE: the child is killed and the data saved; after an error the server goes on.
prepareForShutdown(ok) ==
    /\ May("shutdown")
    /\ IF ok THEN Saved(sn, snghost.changes, SnInfo) /\ sn' = Stopped(sn)
       ELSE sn' = Killed(sn) /\ UNCHANGED <<snfile, snghost>>

SnapshotNext ==
    /\ \/ \E dbs \in SnSetup.datas : SnWrite(dbs)
       \/ \E ok \in BOOLEAN : \/ saveCommand(ok)
                              \/ \E schedule \in BOOLEAN : bgsaveCommand(ok, schedule)
                              \/ SavePoint(ok)
                              \/ StartScheduled(ok)
                              \/ flushallSave(ok)
                              \/ prepareForShutdown(ok)
       \/ \E on \in BOOLEAN : AofChild(on)
       \/ ChildWrites \/ ChildRenames
       \/ \E how \in {"exit 1", "SIGKILL"} : ChildFails(how)
       \/ backgroundSaveDoneHandlerDisk
       \/ Tick
       \/ Crash
       \/ \E lim \in SnSetup.lims : Start(lim)
    /\ UNCHANGED snsetup

-----------------------------------------------------------------------------

\* An encoding that the commands could not have produced under these limits.
EncodingLegal(o, lim) ==
    CASE o.enc = "intset" -> Cardinality(o.v) <= lim.intset
      [] o.enc = "int"    -> TRUE
      [] o.type = "zset" /\ o.enc = "ziplist" -> Len(o.v) <= 2 * lim.zlen
      [] o.type = "hash" /\ o.enc = "ziplist" -> Len(o.v) <= 2 * lim.hlen
      [] OTHER -> TRUE

\* What the file stands for, without the keys that expired since if a master loads it.
Expected(slave) ==
    [j \in 1..RdbDbs |->
        [k \in {x \in DOMAIN snghost.data[j] : \/ slave
                                               \/ snghost.data[j][x].expire = NoExpire
                                               \/ snghost.data[j][x].expire >= sn.now} |-> snghost.data[j][k]]]

LoadedExactly(l, lim) ==
    /\ l.p # 0
    /\ LiveDbs(l.dbs, 0) = Expected(lim.slave)
    /\ l.rsi = snghost.rsi
    /\ \A j \in 1..RdbDbs : \A k \in DOMAIN l.dbs[j] : EncodingLegal(l.dbs[j][k].o, lim)

\* Whatever failed or crashed, the file is whole: a master and a slave load it, under every
\* choice of limits, to the data that were saved, and no part of it loads.
FileWhole ==
    snfile # <<>> =>
      /\ \A lim \in SnSetup.lims, slave \in BOOLEAN :
            LoadedExactly(rdbLoadRio(snfile, sn.now, [lim EXCEPT !.slave = slave]), [lim EXCEPT !.slave = slave])
      /\ \A i \in 0..(Len(snfile) - 1) :
            rdbLoadRio(SubSeq(snfile, 1, i), sn.now, [SnSetup.lim EXCEPT !.checksum = TRUE]).p = 0

\* An older snapshot never replaces a newer one, and server.dirty never says fewer changes
\* are unsaved than there are.
DirtyCounts ==
    /\ snghost.saved = snghost.newest
    /\ sn.dirty >= snghost.changes - snghost.saved

RestoredAs(r, o) == r.p # 0 /\ Content(r.v) = Content(o)

\* A value that is dumped and restored is the same value under every choice of limits.
DumpExact ==
    \A j \in 1..RdbDbs : \A k \in DOMAIN sn.dbs[j] : \A lim \in SnSetup.lims :
        RestoredAs(Restored(createDumpPayload(sn.dbs[j][k].o, sn.lim.compression), lim), sn.dbs[j][k].o)
=============================================================================
