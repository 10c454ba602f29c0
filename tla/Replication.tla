---------------------------- MODULE Replication ----------------------------
(***************************************************************************)
(* Master-replica replication (replication.c): the replication stream and  *)
(* its backlog, partial and full resynchronisation, chained replicas,      *)
(* promotion and demotion with the two replication IDs, broken links and   *)
(* restarts from an RDB file.                                              *)
(*                                                                         *)
(* A server's data set is the sequence of the writes applied to it, each   *)
(* with its database.  The stream is counted in commands, not bytes: an    *)
(* offset is the number of commands fed since the history began.           *)
(***************************************************************************)
EXTENDS Integers, Sequences, FiniteSets

CONSTANTS
    Hosts, NoOne,
    BacklogSize,    \* repl_backlog_size, in commands
    Setups          \* the deployments that are looked at, see Setup below

VARIABLES
    srv,    \* the replication part of each server's redisServer struct
    conn,   \* the connection of each replica to its master, both ends
    used,   \* how much of the bounds has been used
    setup   \* the deployment, one of Setups; never changes

vars == <<srv, conn, used, setup>>

\* A deployment: the slaveof of each server's redis.conf, the databases in
\* use, whether repl_backlog_time_limit is not zero, repl_diskless_sync, and
\* how often writes, pings, changes of replication ID, changes of role, broken
\* links, saves and crashes happen.
Bounds == {"writes", "pings", "ids", "roles", "breaks", "saves", "crashes"}
Setup == [master : UNION {[servers -> servers \cup {NoOne}] : servers \in SUBSET Hosts},
          dbs : SUBSET Nat, ttl : BOOLEAN, diskless : BOOLEAN, max : [Bounds -> Nat]]

ASSUME ReplicationAssumption ==
    /\ NoOne \notin Hosts /\ IsFiniteSet(Hosts)
    /\ BacklogSize \in Nat \ {0}
    /\ Setups \subseteq Setup
    /\ \A u \in Setups : u.max.ids >= Cardinality(Hosts)   \* every server starts with an ID

Servers == DOMAIN setup.master
Limit == setup.max

-----------------------------------------------------------------------------
(* Values. *)

None == [none |-> TRUE]
ZeroId == 0

Select(db) == [type |-> "select", arg |-> db]
WriteCmd(v) == [type |-> "write", arg |-> v]
PingCmd == [type |-> "ping", arg |-> 0]
StreamTypes == {"select", "write", "ping"}

\* An RDB file: the data, and the replication fields of rdbSaveInfoAuxFields
\* when there is a save info (stream_db = -1 stands for "not usable").
RdbOf(me) ==
    [data |-> me.data, replid |-> me.replid, offset |-> me.master_repl_offset,
     stream_db |-> IF me.masterhost = NoOne
                   THEN IF me.backlog = None THEN -1 ELSE me.slaveseldb
                   ELSE IF me.master = None THEN -1 ELSE me.master.db]

\* rdbPopulateSaveInfo() returns NULL: no save for replication is possible.
NoSaveInfo(me) == me.masterhost # NoOne /\ me.master = None

EmptyRdb == [data |-> <<>>, replid |-> ZeroId, offset |-> 0, stream_db |-> -1]

NewConn(m) == [to |-> m, psync |-> None, replstate |-> "NONE", on_ack |-> FALSE,
               buf |-> <<>>, init |-> 0, rdb |-> EmptyRdb, down |-> <<>>]

\* A server just started: it loaded `file', and is configured to replicate m.
\* A replica may resume the history its file was saved from.
Started(m, file, id) ==
    LET restored == m # NoOne /\ file.stream_db # -1 /\ file.replid # ZeroId
    IN  [masterhost |-> m,
         repl_state |-> IF m = NoOne THEN "NONE" ELSE "CONNECT",
         replid |-> IF restored THEN file.replid ELSE id,
         replid2 |-> ZeroId, second_replid_offset |-> -1,
         master_repl_offset |-> IF restored THEN file.offset ELSE 0,
         backlog |-> None, slaveseldb |-> -1,
         master |-> None,
         cached_master |-> IF restored
                           THEN [replid |-> file.replid, reploff |-> file.offset,
                                 db |-> file.stream_db]
                           ELSE None,
         master_replid |-> ZeroId, master_initial_offset |-> -1,
         data |-> file.data, rdb_child |-> None, dump |-> file]

-----------------------------------------------------------------------------
(* The master's side: slaves are the connections it has made slaves. *)

IsSlaveOf(c, s, m) == c[s] # None /\ c[s].to = m /\ c[s].replstate \notin {"NONE", "CLOSED"}
SlavesOf(c, m) == {s \in Servers : IsSlaveOf(c, s, m)}
InState(c, m, state) == {s \in SlavesOf(c, m) : c[s].replstate = state}

\* freeClient() on the given slaves of a master.  What was already sent can
\* still be read; what was only buffered is lost.
FreeSlaves(c, slaves) ==
    [s \in Servers |-> IF s \in slaves
                       THEN [c[s] EXCEPT !.replstate = "CLOSED", !.buf = <<>>]
                       ELSE c[s]]

\* disconnectSlaves().
DisconnectSlaves(c, m) == FreeSlaves(c, SlavesOf(c, m))

\* Replies to a slave wait in its buffer until it is really online.
Buffers(k) == k.replstate \in {"WAIT_BGSAVE_END", "SEND_BULK"} \/ k.on_ack

FeedSlaves(c, m, items) ==
    [s \in Servers |->
        IF ~IsSlaveOf(c, s, m) \/ c[s].replstate = "WAIT_BGSAVE_START" THEN c[s]
        ELSE IF Buffers(c[s]) THEN [c[s] EXCEPT !.buf = @ \o items]
        ELSE [c[s] EXCEPT !.down = @ \o items]]

\* The most recent n items of a sequence.
LastOf(seq, n) == SubSeq(seq, IF Len(seq) > n THEN Len(seq) - n + 1 ELSE 1, Len(seq))

createReplicationBacklog(me) ==
    [me EXCEPT !.backlog = [off |-> me.master_repl_offset + 1, items |-> <<>>]]

feedReplicationBacklog(me, items) ==
    LET kept == LastOf(me.backlog.items \o items, BacklogSize)
        end  == me.master_repl_offset + Len(items)
    IN  [me EXCEPT !.master_repl_offset = end,
                   !.backlog = [off |-> end - Len(kept) + 1, items |-> kept]]

\* A master without backlog has no slaves, and its offset stands still.
replicationFeedSlaves(me, db, items) ==
    IF me.backlog = None THEN me
    ELSE [feedReplicationBacklog(me, items) EXCEPT !.slaveseldb = db]

WithSelect(me, db, items) ==
    IF me.slaveseldb = db THEN items ELSE <<Select(db)>> \o items

clearReplicationId2(me) == [me EXCEPT !.replid2 = ZeroId, !.second_replid_offset = -1]

shiftReplicationId(me, id) ==
    [me EXCEPT !.replid2 = me.replid,
               !.second_replid_offset = me.master_repl_offset + 1,
               !.replid = id]

-----------------------------------------------------------------------------
(* A partial resynchronisation, seen by the master. *)

\* Mutant: the second ID is valid for every offset.
KnownHistory_AnyOffset(me, replid, offset) == replid \in {me.replid, me.replid2}

KnownHistory(me, replid, offset) ==
    \/ replid = me.replid
    \/ replid = me.replid2 /\ offset <= me.second_replid_offset

InBacklog(me, offset) ==
    /\ me.backlog # None
    /\ offset >= me.backlog.off
    /\ offset <= me.backlog.off + Len(me.backlog.items)

CanContinue(me, replid, offset) ==
    replid # ZeroId /\ KnownHistory(me, replid, offset) /\ InBacklog(me, offset)

\* addReplyReplicationBacklog().
BacklogFrom(me, offset) ==
    SubSeq(me.backlog.items, offset - me.backlog.off + 1, Len(me.backlog.items))

\* replicationSetupSlaveForFullResync().
SetupFullResync(k, me, offset) ==
    [k EXCEPT !.replstate = "WAIT_BGSAVE_END", !.init = offset,
              !.down = Append(@, [type |-> "FULLRESYNC", replid |-> me.replid, offset |-> offset])]

\* rdbSaveToSlavesSockets(), for one of the slaves that wait: it is told to
\* expect a full resync before the fork, and waits again if the fork fails.
rdbSaveToSlavesSockets(k, me, ok) ==
    LET told == SetupFullResync(k, me, me.master_repl_offset)
    IN  IF ok THEN told ELSE [told EXCEPT !.replstate = "WAIT_BGSAVE_START"]

\* startBgsaveForReplication(): ok says whether the fork succeeded.  On
\* failure the waiting slaves get an error and are closed.  With a file as
\* target the slaves are told what to expect once the child is there.
StartBgsave(c, m, me, ok) ==
    LET waiting == InState(c, m, "WAIT_BGSAVE_START")
        started == ok /\ ~NoSaveInfo(me)
        sockets == setup.diskless /\ ~NoSaveInfo(me)
        Tell(k)   == IF sockets THEN rdbSaveToSlavesSockets(k, me, ok)
                     ELSE IF started THEN SetupFullResync(k, me, me.master_repl_offset) ELSE k
        Refuse(k) == [k EXCEPT !.replstate = "CLOSED", !.down = Append(@, [type |-> "ERR"])]
    IN  [c  |-> [s \in Servers |->
                   IF s \notin waiting THEN c[s]
                   ELSE IF started THEN Tell(c[s]) ELSE Refuse(Tell(c[s]))],
         me |-> [me EXCEPT !.rdb_child  = IF started THEN [socket |-> setup.diskless, rdb |-> RdbOf(me)]
                                          ELSE @,
                           !.slaveseldb = IF started \/ sockets THEN -1 ELSE @]]

\* Failures count as breaks.
MayFail(ok) == ok \/ used.breaks < Limit.breaks
Failed(u, ok) == IF ok THEN u ELSE [u EXCEPT !.breaks = @ + 1]

-----------------------------------------------------------------------------
(* Masters. *)

HasId == used.ids < Limit.ids
FreshId == used.ids + 1

\* A client's write on a server that is not a replica.
Write(m, db) ==
    /\ srv[m].masterhost = NoOne
    /\ used.writes < Limit.writes
    /\ LET v     == used.writes + 1
           items == WithSelect(srv[m], db, <<WriteCmd(v)>>)
       IN  /\ srv' = [srv EXCEPT ![m] = [replicationFeedSlaves(srv[m], db, items)
                                            EXCEPT !.data = Append(@, <<db, v>>)]]
           /\ conn' = FeedSlaves(conn, m, items)
    /\ used' = [used EXCEPT !.writes = @ + 1]

\* replicationCron() pings the slaves in the current database of the stream.
Ping(m) ==
    /\ srv[m].masterhost = NoOne
    /\ SlavesOf(conn, m) # {}
    /\ used.pings < Limit.pings
    /\ srv' = [srv EXCEPT ![m] = replicationFeedSlaves(srv[m], srv[m].slaveseldb, <<PingCmd>>)]
    /\ conn' = FeedSlaves(conn, m, <<PingCmd>>)
    /\ used' = [used EXCEPT !.pings = @ + 1]

\* syncCommand(): the link to our own master is down.
RefusePsync(s) ==
    LET m == conn[s].to
    IN  /\ conn[s] # None /\ conn[s].psync # None
        /\ srv[m].masterhost # NoOne /\ srv[m].repl_state # "CONNECTED"
        /\ conn' = [conn EXCEPT ![s] = [conn[s] EXCEPT !.psync = None,
                                                 !.down = Append(@, [type |-> "NOMASTERLINK"])]]
        /\ UNCHANGED <<srv, used>>

MayServe(s) ==
    /\ conn[s] # None /\ conn[s].psync # None
    /\ LET me == srv[conn[s].to] IN me.masterhost = NoOne \/ me.repl_state = "CONNECTED"

\* masterTryPartialResynchronization() succeeds.
PartialResync(s) ==
    /\ MayServe(s)
    /\ LET me == srv[conn[s].to]
           p  == conn[s].psync
       IN  /\ CanContinue(me, p.replid, p.offset)
           /\ conn' = [conn EXCEPT ![s] = [conn[s] EXCEPT
                         !.psync = None, !.replstate = "ONLINE",
                         !.down = (@ \o <<[type |-> "CONTINUE", replid |-> me.replid]>>)
                                     \o BacklogFrom(me, p.offset)]]
    /\ UNCHANGED <<srv, used>>

\* The rest of syncCommand(): the first slave of a server without backlog
\* starts a new history; then attach to a running save, start one, or wait.
FullResync(s, ok) ==
    /\ MayServe(s)
    /\ LET m   == conn[s].to
           p   == conn[s].psync
           new == srv[m].backlog = None /\ SlavesOf(conn, m) = {}
           me  == IF ~new THEN srv[m]
                  ELSE createReplicationBacklog(
                         clearReplicationId2([srv[m] EXCEPT !.replid = FreshId]))
           c   == [conn EXCEPT ![s] = [conn[s] EXCEPT !.psync = None, !.replstate = "WAIT_BGSAVE_START"]]
           registered == InState(c, m, "WAIT_BGSAVE_END")
       IN  /\ ~CanContinue(srv[m], p.replid, p.offset)
           /\ new => HasId
           /\ MayFail(ok)
           /\ used' = Failed(IF new THEN [used EXCEPT !.ids = @ + 1] ELSE used, ok)
           /\ \/ /\ me.rdb_child # None /\ ~me.rdb_child.socket /\ registered # {}
                 /\ ok
                 /\ \E t \in registered :
                      /\ conn' = [c EXCEPT ![s] =
                                    [SetupFullResync(c[s], me, c[t].init) EXCEPT !.buf = c[t].buf]]
                      /\ srv' = [srv EXCEPT ![m] = [me EXCEPT !.slaveseldb = -1]]
              \/ /\ me.rdb_child # None /\ (me.rdb_child.socket \/ registered = {})
                 /\ ok
                 /\ conn' = c /\ srv' = [srv EXCEPT ![m] = me]
              \/ /\ me.rdb_child = None /\ setup.diskless
                 /\ ok
                 /\ conn' = c /\ srv' = [srv EXCEPT ![m] = me]
              \/ /\ me.rdb_child = None /\ ~setup.diskless
                 /\ LET r == StartBgsave(c, m, me, ok)
                    IN  conn' = r.c /\ srv' = [srv EXCEPT ![m] = r.me]

\* replicationCron(): slaves are waiting and no child is running.
CronBgsave(m, ok) ==
    /\ srv[m].rdb_child = None
    /\ InState(conn, m, "WAIT_BGSAVE_START") # {}
    /\ LET r == StartBgsave(conn, m, srv[m], ok)
       IN  conn' = r.c /\ srv' = [srv EXCEPT ![m] = r.me]
    /\ MayFail(ok) /\ used' = Failed(used, ok)

\* A child that no slave has asked for: rdbSaveBackground().
SaveInBackground(m, rdb) ==
    /\ srv[m].rdb_child = None
    /\ used.saves < Limit.saves
    /\ srv' = [srv EXCEPT ![m] = [@ EXCEPT !.rdb_child = [socket |-> FALSE, rdb |-> rdb]]]
    /\ used' = [used EXCEPT !.saves = @ + 1]
    /\ UNCHANGED conn

\* The save points, checked by serverCron().
SavePoint(m) == SaveInBackground(m, RdbOf(srv[m]))

\* BGSAVE passes no save info: the file has no replication fields.
bgsaveCommand(m) == SaveInBackground(m, [EmptyRdb EXCEPT !.data = srv[m].data])

\* backgroundSaveDoneHandlerSocket(): the child's report names the slaves that
\* have received the file; the others are closed.
backgroundSaveDoneHandlerSocket(c, ended, ok_slaves, rdb) ==
    [s \in Servers |-> IF s \in ok_slaves
                       THEN [c[s] EXCEPT !.down = Append(@, [type |-> "RDB", rdb |-> rdb])]
                       ELSE FreeSlaves(c, ended)[s]]

\* updateSlavesWaitingBgsave(), for a slave that registered for this save: it is
\* online after a transfer to its socket, and is sent the file otherwise.
updateSlavesWaitingBgsave(k, child) ==
    IF child.socket THEN [k EXCEPT !.replstate = "ONLINE", !.on_ack = TRUE]
    ELSE [k EXCEPT !.replstate = "SEND_BULK", !.rdb = child.rdb]

\* backgroundSaveDoneHandler*(): the slaves that registered for this save get
\* its file, those that came too late cause the next one.  In `served' are the
\* slaves to whom nothing went wrong.
BgsaveDone(m, ok) ==
    /\ srv[m].rdb_child # None
    /\ LET child  == srv[m].rdb_child
           ended  == InState(conn, m, "WAIT_BGSAVE_END")
           me     == [srv[m] EXCEPT !.rdb_child = None,
                                    !.dump = IF ok /\ ~child.socket THEN child.rdb ELSE @]
       IN  \E served \in {x \in SUBSET ended : ok \/ x = {}} :
             LET sent == IF child.socket
                         THEN backgroundSaveDoneHandlerSocket(conn, ended, served, child.rdb)
                         ELSE FreeSlaves(conn, ended \ served)
                 c == [s \in Servers |-> IF s \in served THEN updateSlavesWaitingBgsave(sent[s], child)
                                         ELSE sent[s]]
                 r == StartBgsave(c, m, me, TRUE)
             IN  /\ MayFail(served = ended /\ ok)
                 /\ used' = Failed(used, served = ended /\ ok)
                 /\ IF InState(c, m, "WAIT_BGSAVE_START") = {}
                    THEN conn' = c /\ srv' = [srv EXCEPT ![m] = me]
                    ELSE conn' = r.c /\ srv' = [srv EXCEPT ![m] = r.me]

\* The last part of the file was written: sendBulkToSlave(), putSlaveOnline().
sendBulkToSlave(s) ==
    /\ conn[s] # None /\ conn[s].replstate = "SEND_BULK"
    /\ conn' = [conn EXCEPT ![s] = [conn[s] EXCEPT
                  !.replstate = "ONLINE", !.buf = <<>>, !.rdb = EmptyRdb,
                  !.down = Append(@, [type |-> "RDB", rdb |-> conn[s].rdb]) \o conn[s].buf]]
    /\ UNCHANGED <<srv, used>>

\* REPLCONF ACK: after a diskless transfer the buffered stream starts to flow.
\* Connected replicas send it every second.
replconfAck(s) ==
    /\ conn[s] # None /\ conn[s].replstate = "ONLINE" /\ conn[s].on_ack
    /\ srv[s].repl_state = "CONNECTED"
    /\ conn' = [conn EXCEPT ![s] = [conn[s] EXCEPT !.on_ack = FALSE, !.buf = <<>>, !.down = @ \o conn[s].buf]]
    /\ UNCHANGED <<srv, used>>

\* replicationCron() drops a slave that has not acknowledged for too long.
TimeoutSlave(s) ==
    /\ conn[s] # None /\ conn[s].replstate = "ONLINE"
    /\ MayFail(FALSE) /\ used' = Failed(used, FALSE)
    /\ conn' = FreeSlaves(conn, {s})
    /\ UNCHANGED srv

\* replicationCron() frees the backlog of a master without slaves.
FreeBacklog(m) ==
    /\ setup.ttl
    /\ srv[m].masterhost = NoOne
    /\ srv[m].backlog # None
    /\ SlavesOf(conn, m) = {}
    /\ srv' = [srv EXCEPT ![m] = [@ EXCEPT !.backlog = None]]
    /\ UNCHANGED <<conn, used>>

-----------------------------------------------------------------------------
(* Replicas. *)

connectWithMaster(s) ==
    /\ srv[s].repl_state = "CONNECT"
    /\ srv' = [srv EXCEPT ![s] = [@ EXCEPT !.repl_state = "CONNECTING"]]
    /\ conn' = [conn EXCEPT ![s] = NewConn(srv[s].masterhost)]
    /\ UNCHANGED used

\* What slaveTryPartialResynchronization() asks for.
PsyncArgs(me) ==
    IF me.cached_master = None THEN [replid |-> ZeroId, offset |-> -1]
    ELSE [replid |-> me.cached_master.replid, offset |-> me.cached_master.reploff + 1]

\* The handshake up to and including the PSYNC command: syncWithMaster().  No
\* one reads what is written to a socket that the master has closed.
SendPsync(s) ==
    /\ srv[s].repl_state = "CONNECTING"
    /\ srv' = [srv EXCEPT ![s] = [@ EXCEPT !.repl_state = "RECEIVE_PSYNC", !.master_initial_offset = -1]]
    /\ conn' = [conn EXCEPT ![s] = [conn[s] EXCEPT !.psync = IF conn[s].replstate = "CLOSED" THEN None
                                                            ELSE PsyncArgs(srv[s])]]
    /\ UNCHANGED used

Received(s, state, types) ==
    /\ srv[s].repl_state = state
    /\ conn[s].down # <<>>
    /\ Head(conn[s].down).type \in types

\* The replica has read the first message.
Taken(s) == [conn EXCEPT ![s] = [conn[s] EXCEPT !.down = Tail(@)]]

\* The end of syncWithMaster(): without a partial resync our backlog belongs to
\* a history we leave, and so do our sub-slaves.
BeginTransfer(me) == [me EXCEPT !.repl_state = "TRANSFER", !.backlog = None]

ReplyFullResync(s) ==
    /\ Received(s, "RECEIVE_PSYNC", {"FULLRESYNC"})
    /\ LET reply == Head(conn[s].down)
       IN  srv' = [srv EXCEPT ![s] =
                     BeginTransfer([srv[s] EXCEPT !.master_replid = reply.replid,
                                                  !.master_initial_offset = reply.offset,
                                                  !.cached_master = None])]
    /\ conn' = DisconnectSlaves(Taken(s), s)
    /\ UNCHANGED used

\* The cached master becomes the master again, with the ID it now has.
replicationResurrectCachedMaster(me, id) ==
    [me EXCEPT !.repl_state = "CONNECTED", !.cached_master = None,
               !.master = [me.cached_master EXCEPT !.replid = id]]

\* Mutant: the new ID is not adopted as our own.
ReplyContinue_KeepsId(s) ==
    /\ Received(s, "RECEIVE_PSYNC", {"CONTINUE"})
    /\ LET id == Head(conn[s].down).replid
           me == replicationResurrectCachedMaster(srv[s], id)
       IN  srv' = [srv EXCEPT ![s] = IF me.backlog = None
                                     THEN createReplicationBacklog(me) ELSE me]
    /\ conn' = Taken(s)
    /\ UNCHANGED used

\* +CONTINUE, perhaps with the new ID our master has taken.
ReplyContinue(s) ==
    /\ Received(s, "RECEIVE_PSYNC", {"CONTINUE"})
    /\ LET id      == Head(conn[s].down).replid
           changed == id # srv[s].cached_master.replid
           me      == replicationResurrectCachedMaster(srv[s], id)
           moved   == IF ~changed THEN me
                      ELSE [me EXCEPT !.replid2 = srv[s].cached_master.replid,
                                      !.second_replid_offset = me.master_repl_offset + 1,
                                      !.replid = id]
           c       == Taken(s)
       IN  /\ srv' = [srv EXCEPT ![s] = IF moved.backlog = None
                                        THEN createReplicationBacklog(moved) ELSE moved]
           /\ conn' = IF changed THEN DisconnectSlaves(c, s) ELSE c
    /\ UNCHANGED used

\* The client of the master, at the offset the full resync began with.
replicationCreateMasterClient(me, dbid) ==
    [replid |-> me.master_replid, reploff |-> me.master_initial_offset,
     db |-> IF dbid = -1 THEN 0 ELSE dbid]

\* readSyncBulkPayload() has the whole file: it becomes our dump and our data.
LoadRdb(s) ==
    /\ Received(s, "TRANSFER", {"RDB"})
    /\ LET rdb == Head(conn[s].down).rdb
           me  == [srv[s] EXCEPT
                     !.repl_state = "CONNECTED", !.data = rdb.data, !.dump = rdb,
                     !.master = replicationCreateMasterClient(srv[s], rdb.stream_db),
                     !.replid = srv[s].master_replid,
                     !.master_repl_offset = srv[s].master_initial_offset]
       IN  srv' = [srv EXCEPT ![s] =
                     LET clean == clearReplicationId2(me)
                     IN  IF clean.backlog = None THEN createReplicationBacklog(clean) ELSE clean]
    /\ conn' = Taken(s)
    /\ UNCHANGED used

\* The file was received but cannot be loaded: the old data is gone, and so
\* is the old dump (a restart begins with no file rather than a broken one).
LoadRdbFails(s) ==
    /\ Received(s, "TRANSFER", {"RDB"})
    /\ MayFail(FALSE) /\ used' = Failed(used, FALSE)
    /\ srv' = [srv EXCEPT ![s] = [@ EXCEPT !.repl_state = "CONNECT", !.data = <<>>,
                                           !.dump = EmptyRdb]]
    /\ conn' = [conn EXCEPT ![s] = None]

Applied(me, item) ==
    [me EXCEPT !.master = [me.master EXCEPT !.reploff = @ + 1,
                                            !.db = IF item.type = "select" THEN item.arg ELSE @],
               !.data = IF item.type = "write" THEN Append(@, <<me.master.db, item.arg>>) ELSE @]

\* One command of the master's stream is executed, fed to our own backlog and
\* proxied to our sub-slaves.
ApplyStream(s) ==
    /\ Received(s, "CONNECTED", StreamTypes)
    /\ LET item == Head(conn[s].down)
           me   == Applied(srv[s], item)
       IN  /\ srv' = [srv EXCEPT ![s] = IF me.backlog = None THEN me
                                        ELSE feedReplicationBacklog(me, <<item>>)]
           /\ conn' = FeedSlaves(Taken(s), s, <<item>>)
    /\ UNCHANGED used

\* Mutant: the cached master is not cleared from server.master.
LoseMaster_KeepsMaster(me) ==
    IF me.master # None
    THEN [me EXCEPT !.cached_master = me.master, !.repl_state = "CONNECT"]
    ELSE [me EXCEPT !.repl_state = "CONNECT"]

\* What freeing the client of our master does: it is cached.
LoseMaster(me) ==
    IF me.master # None
    THEN [me EXCEPT !.cached_master = me.master, !.master = None, !.repl_state = "CONNECT"]
    ELSE [me EXCEPT !.repl_state = "CONNECT"]

\* Mutant: the end of file on the link goes unnoticed.
LinkDown_NoEof(s) ==
    /\ conn[s] # None
    /\ \/ Received(s, "RECEIVE_PSYNC", {"NOMASTERLINK"}) /\ UNCHANGED used
       \/ MayFail(FALSE) /\ used' = Failed(used, FALSE)
    /\ srv' = [srv EXCEPT ![s] = LoseMaster(@)]
    /\ conn' = [conn EXCEPT ![s] = None]

\* The replica sees its link end: a timeout, an error, or the end of file
\* after the master closed it.  cancelReplicationHandshake() or freeClient().
LinkDown(s) ==
    /\ conn[s] # None
    /\ \/ /\ conn[s].replstate = "CLOSED" /\ srv[s].repl_state # "RECEIVE_PSYNC"
          /\ UNCHANGED used
       \/ /\ Received(s, "RECEIVE_PSYNC", {"NOMASTERLINK"})
          /\ UNCHANGED used
       \/ MayFail(FALSE) /\ used' = Failed(used, FALSE)
    /\ srv' = [srv EXCEPT ![s] = LoseMaster(@)]
    /\ conn' = [conn EXCEPT ![s] = None]

\* An error instead of the reply to PSYNC, be it a read error: the replica
\* takes its master for one that knows no PSYNC, and forgets what a partial
\* resync would need.  The SYNC it falls back to goes to a closed socket.
ReplyError(s) ==
    /\ conn[s] # None /\ srv[s].repl_state = "RECEIVE_PSYNC"
    /\ \/ Received(s, "RECEIVE_PSYNC", {"ERR"}) /\ UNCHANGED used
       \/ conn[s].replstate = "CLOSED" /\ conn[s].down = <<>> /\ UNCHANGED used
       \/ MayFail(FALSE) /\ used' = Failed(used, FALSE)
    /\ srv' = [srv EXCEPT ![s] = [@ EXCEPT !.repl_state = "CONNECT", !.cached_master = None,
                                           !.backlog = None]]
    /\ conn' = DisconnectSlaves([conn EXCEPT ![s] = None], s)

-----------------------------------------------------------------------------
(* Administration and failures. *)

\* SLAVEOF NO ONE: replicationUnsetMaster().
replicationUnsetMaster(s) ==
    /\ HasId /\ used.roles < Limit.roles
    /\ srv' = [srv EXCEPT ![s] =
                 [shiftReplicationId(srv[s], FreshId) EXCEPT
                    !.masterhost = NoOne, !.master = None, !.cached_master = None,
                    !.repl_state = "NONE", !.slaveseldb = -1]]
    /\ conn' = DisconnectSlaves([conn EXCEPT ![s] = None], s)
    /\ used' = [used EXCEPT !.ids = @ + 1, !.roles = @ + 1]

\* replicationCacheMasterUsingMyself().
CacheMyself(me) ==
    [me EXCEPT !.cached_master = [replid |-> me.replid, reploff |-> me.master_repl_offset, db |-> 0],
               !.master_initial_offset = me.master_repl_offset]

\* SLAVEOF m: replicationSetMaster().
replicationSetMaster(s, m) ==
    /\ used.roles < Limit.roles
    /\ LET me == IF srv[s].masterhost = NoOne THEN CacheMyself(srv[s]) ELSE LoseMaster(srv[s])
       IN  srv' = [srv EXCEPT ![s] = [me EXCEPT !.masterhost = m, !.repl_state = "CONNECT"]]
    /\ conn' = DisconnectSlaves([conn EXCEPT ![s] = None], s)
    /\ used' = [used EXCEPT !.roles = @ + 1]

\* SLAVEOF changes nothing when the server is what it is asked to become.
slaveofCommand(s) ==
    \/ srv[s].masterhost # NoOne /\ replicationUnsetMaster(s)
    \/ \E m \in Servers : srv[s].masterhost # m /\ replicationSetMaster(s, m)

\* The process dies and is started again, with the same configuration.
Restart(s) ==
    /\ HasId /\ used.crashes < Limit.crashes
    /\ srv' = [srv EXCEPT ![s] = Started(srv[s].masterhost, srv[s].dump, FreshId)]
    /\ conn' = [t \in Servers |->
                  IF t = s THEN None
                  ELSE IF conn[t] # None /\ conn[t].to = s
                       THEN [conn[t] EXCEPT !.replstate = "CLOSED", !.psync = None, !.buf = <<>>]
                       ELSE conn[t]]
    /\ used' = [used EXCEPT !.ids = @ + 1, !.crashes = @ + 1]

-----------------------------------------------------------------------------

\* Every server starts with a replication ID of its own.
InitialId == CHOOSE f \in [Hosts -> 1..Cardinality(Hosts)] :
                \A s, t \in Hosts : f[s] = f[t] => s = t

Init ==
    /\ setup \in Setups
    /\ srv = [s \in Servers |-> Started(setup.master[s], EmptyRdb, InitialId[s])]
    /\ conn = [s \in Servers |-> None]
    /\ used = [writes |-> 0, pings |-> 0, ids |-> Cardinality(Hosts), roles |-> 0,
               breaks |-> 0, saves |-> 0, crashes |-> 0]

MasterStep(m) ==
    \/ \E db \in setup.dbs : Write(m, db)
    \/ Ping(m)
    \/ \E ok \in BOOLEAN : CronBgsave(m, ok) \/ BgsaveDone(m, ok)
    \/ SavePoint(m) \/ bgsaveCommand(m)
    \/ FreeBacklog(m)

LinkStep(s) ==
    \/ RefusePsync(s) \/ PartialResync(s)
    \/ \E ok \in BOOLEAN : FullResync(s, ok)
    \/ sendBulkToSlave(s) \/ replconfAck(s) \/ TimeoutSlave(s)

ReplicaStep(s) ==
    \/ connectWithMaster(s) \/ SendPsync(s)
    \/ ReplyFullResync(s) \/ ReplyContinue(s)
    \/ LoadRdb(s) \/ LoadRdbFails(s) \/ ApplyStream(s)
    \/ LinkDown(s) \/ ReplyError(s)

AdminStep(s) == slaveofCommand(s) \/ Restart(s)

Next ==
    /\ \E s \in Servers : MasterStep(s) \/ LinkStep(s) \/ ReplicaStep(s) \/ AdminStep(s)
    /\ UNCHANGED setup

Spec == Init /\ [][Next]_vars

\* What is not a failure or an administrator's decision goes on.
Progress(s) ==
    \/ CronBgsave(s, TRUE) \/ BgsaveDone(s, TRUE)
    \/ RefusePsync(s) \/ PartialResync(s) \/ FullResync(s, TRUE)
    \/ sendBulkToSlave(s) \/ replconfAck(s)
    \/ connectWithMaster(s) \/ SendPsync(s)
    \/ ReplyFullResync(s) \/ ReplyContinue(s) \/ LoadRdb(s) \/ ApplyStream(s)
    \/ LinkDown(s) \/ ReplyError(s)

FairSpec == Spec /\ \A s \in Hosts : WF_vars(s \in Servers /\ Progress(s) /\ UNCHANGED setup)

-----------------------------------------------------------------------------
(* Properties. *)

ReplStates == {"NONE", "CONNECT", "CONNECTING", "RECEIVE_PSYNC", "TRANSFER", "CONNECTED"}
SlaveStates == {"NONE", "WAIT_BGSAVE_START", "WAIT_BGSAVE_END", "SEND_BULK", "ONLINE", "CLOSED"}

TypeOK ==
    \A s \in Servers :
      /\ srv[s].masterhost \in Servers \cup {NoOne}
      /\ srv[s].repl_state \in ReplStates
      /\ srv[s].replid \in 1..Limit.ids /\ srv[s].replid2 \in 0..Limit.ids
      /\ srv[s].master_repl_offset \in Nat
      /\ conn[s] # None => conn[s].to \in Servers /\ conn[s].replstate \in SlaveStates

\* States and counters have their types; the states of both ends of a link, and of the cached master, fit together:
\* the asserts of replicationCacheMaster() and replicationCron() hold, and "We
\* can't have slaves attached and no backlog" (replication.c:194).
LinkStates ==
    /\ TypeOK
    /\ \A s \in Servers :
      /\ (srv[s].masterhost = NoOne) <=> (srv[s].repl_state = "NONE")
      /\ (srv[s].master # None) <=> (srv[s].repl_state = "CONNECTED")
      /\ srv[s].master # None => srv[s].cached_master = None
      /\ srv[s].masterhost = NoOne => srv[s].cached_master = None
      /\ (conn[s] = None) <=> (srv[s].repl_state \in {"NONE", "CONNECT"})
      /\ conn[s] # None => conn[s].to = srv[s].masterhost
      /\ SlavesOf(conn, s) # {} => srv[s].backlog # None

BacklogAtOffset ==
    \A m \in Servers : srv[m].backlog # None =>
        srv[m].backlog.off + Len(srv[m].backlog.items) = srv[m].master_repl_offset + 1

ReplicaInHistory ==
    \A s \in Servers : srv[s].master # None =>
        /\ srv[s].replid = srv[s].master.replid
        /\ srv[s].master_repl_offset = srv[s].master.reploff

\* A connected replica is in its master's history, at the offset it has applied;
\* the backlog ends at the current offset, so that PSYNC requests are measured
\* against the history the server is in.
HistoryAgrees == BacklogAtOffset /\ ReplicaInHistory

\* Everything on its way to the replica s: sent, or still to be sent.
OnTheWay(s) ==
    LET k   == conn[s]
        rdb == CASE k.replstate = "WAIT_BGSAVE_END" /\ srv[k.to].rdb_child # None
                       -> <<[type |-> "RDB", rdb |-> srv[k.to].rdb_child.rdb]>>
                 [] k.replstate = "SEND_BULK" -> <<[type |-> "RDB", rdb |-> k.rdb]>>
                 [] OTHER -> <<>>
    IN  k.down \o rdb \o k.buf

\* The effect of a message on a replica's data, selected database and offset.
Effect(st, msg) ==
    CASE msg.type = "select"     -> [st EXCEPT !.db = msg.arg, !.off = @ + 1]
      [] msg.type = "write"      -> [st EXCEPT !.data = Append(@, <<st.db, msg.arg>>), !.off = @ + 1]
      [] msg.type = "ping"       -> [st EXCEPT !.off = @ + 1]
      [] msg.type = "FULLRESYNC" -> [st EXCEPT !.off = msg.offset]
      [] msg.type = "RDB"        -> [st EXCEPT !.data = msg.rdb.data,
                                               !.db = IF msg.rdb.stream_db = -1 THEN 0
                                                      ELSE msg.rdb.stream_db]
      [] OTHER                   -> st

\* What a replica that is at st has become after these messages.
Reached(st, messages) ==
    LET after[n \in 0..Len(messages)] ==
          IF n = 0 THEN st ELSE Effect(after[n - 1], messages[n])
    IN  after[Len(messages)]

Position(me) ==
    CASE me.master # None        -> [data |-> me.data, db |-> me.master.db, off |-> me.master.reploff]
      [] me.cached_master # None -> [data |-> me.data, db |-> me.cached_master.db,
                                     off |-> me.cached_master.reploff]
      [] OTHER                   -> [data |-> me.data, db |-> 0, off |-> me.master_initial_offset]

Attached(s) ==
    conn[s] # None /\ conn[s].replstate \in {"WAIT_BGSAVE_END", "SEND_BULK", "ONLINE"}

\* A replica that has received all that is on its way has exactly its master's
\* data, in the same databases, at the same offset: whatever resyncs, role
\* changes, broken links and restarts there were.
ReplicaConverges ==
    \A s \in Servers : Attached(s) =>
        LET end == Reached(Position(srv[s]), OnTheWay(s))
            m   == srv[conn[s].to]
        IN  end.data = m.data /\ end.off = m.master_repl_offset

\* Once failures stop, every replica of a master catches up with it and stays.
EventuallySynced ==
    \A s \in Hosts :
        <>[](s \in Servers /\ srv[s].masterhost # NoOne =>
                /\ srv[s].repl_state = "CONNECTED"
                /\ srv[s].data = srv[srv[s].masterhost].data)
=============================================================================
