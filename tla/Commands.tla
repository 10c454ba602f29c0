------------------------------ MODULE Commands ------------------------------
(***************************************************************************)
(* The execution of commands: query buffers, MULTI/EXEC and WATCH,         *)
(* blocking list operations, and what is propagated to the append only     *)
(* file and the slaves (server.c, networking.c, multi.c, blocked.c,        *)
(* t_list.c, db.c, sort.c).                                                *)
(*                                                                         *)
(* The server is single threaded: an action is one event, with everything  *)
(* the event's handler calls.  A handler is written as an operator from    *)
(* the server's state `s' to its new state, in the order of the code.      *)
(***************************************************************************)
EXTENDS Integers, Sequences, SequencesExt, FiniteSets, TLC

CONSTANTS
    Keys,
    Setups   \* the situations to consider, see Setup

VARIABLES
    setup,    \* one of the Setups
    server,   \* struct redisServer
    replay,   \* what an instance that executes the propagated commands holds
    used      \* how much of the bounds has been used

vars == <<setup, server, replay, used>>

\* Who is connected, the databases, the commands the clients send (the menu), and
\* how often things may happen: commands sent, commands in a MULTI block,
\* connections lost, CLIENT PAUSE, times the instance becomes a slave, changes of
\* the conditions under which writes are refused.
Bounds == {"cmds", "queue", "frees", "pauses", "roles", "troubles"}
IsSetup(u) ==
    /\ DOMAIN u = {"clients", "dbs", "menu", "max"}
    /\ u.clients \subseteq Nat /\ u.dbs \subseteq Nat /\ 0 \in u.dbs
    /\ IsFiniteSet(u.clients) /\ IsFiniteSet(u.dbs)
    /\ u.max \in [Bounds -> Nat]

ASSUME CommandsAssumption ==
    /\ IsFiniteSet(Keys)
    /\ \A u \in Setups : IsSetup(u)

Clients     == setup.clients   \* in the order of server.clients
Dbs         == setup.dbs
Limit       == setup.max
MaxBuffered == 1               \* bound: commands waiting in a query buffer
Places      == Dbs \X Keys
ClientList  == SetToSortSeq(Clients, LAMBDA x, y : x < y)

-----------------------------------------------------------------------------
(* Values, and the effect of a command on the data set: the new data set,  *)
(* whether server.dirty grew, the keys signalModifiedKey() was called for, *)
(* the keys dbAdd() created as lists, in order, the keys a flush removed,  *)
(* and the command as it is propagated.                                    *)

Nil == [t |-> "nil"]
Str == [t |-> "string"]
List(l) == [t |-> "list", l |-> l]
ListOrNil(l) == IF l = <<>> THEN Nil ELSE List(l)
Elems(v) == IF v.t = "list" THEN v.l ELSE <<>>

Put(db, p, v) == [db EXCEPT ![p[1]][p[2]] = v]
At(db, p) == db[p[1]][p[2]]

NoEffect(db, cmd) ==
    [db |-> db, dirty |-> FALSE, touched |-> {}, added |-> <<>>, flushed |-> {}, as |-> cmd]
Effect(db, cmd, touched, added) ==
    [db |-> db, dirty |-> TRUE, touched |-> touched, added |-> added, flushed |-> {}, as |-> cmd]

listTypePush(l, where, v) == IF where = "head" THEN <<v>> \o l ELSE Append(l, v)
ListEnd(l, where)         == IF where = "head" THEN Head(l) ELSE Last(l)
listTypePop(l, where)     == IF where = "head" THEN Tail(l) ELSE Front(l)

pushGenericCommand(db, i, cmd) ==
    LET p == <<i, cmd.key>>
        v == At(db, p)
    IN  IF v.t = "string" THEN NoEffect(db, cmd)
        ELSE Effect(Put(db, p, List(listTypePush(Elems(v), cmd.where, cmd.val))), cmd,
                    {p}, IF v = Nil THEN <<p>> ELSE <<>>)

popGenericCommand(db, i, cmd) ==
    LET p == <<i, cmd.key>>
    IN  IF At(db, p).t # "list" THEN NoEffect(db, cmd)
        ELSE Effect(Put(db, p, ListOrNil(listTypePop(At(db, p).l, cmd.where))), cmd, {p}, <<>>)

rpoplpushCommand(db, i, cmd) ==
    LET src == <<i, cmd.key>>
        dst == <<i, cmd.dst>>
        v   == Last(At(db, src).l)
        db1 == Put(db, src, List(Front(At(db, src).l)))
        db2 == Put(db1, dst, List(<<v>> \o Elems(At(db1, dst))))
    IN  IF At(db, src).t # "list" \/ At(db, dst).t = "string" THEN NoEffect(db, cmd)
        ELSE Effect(Put(db2, src, ListOrNil(At(db2, src).l)), cmd, {src, dst},
                    IF At(db, dst) = Nil THEN <<dst>> ELSE <<>>)

setCommand(db, i, cmd) == Effect(Put(db, <<i, cmd.key>>, Str), cmd, {<<i, cmd.key>>}, <<>>)

delGenericCommand(db, i, cmd) ==
    IF At(db, <<i, cmd.key>>) = Nil THEN NoEffect(db, cmd)
    ELSE Effect(Put(db, <<i, cmd.key>>, Nil), cmd, {<<i, cmd.key>>}, <<>>)

renameGenericCommand(db, i, cmd) ==
    LET src == <<i, cmd.key>>
        dst == <<i, cmd.dst>>
        v   == At(db, src)
    IN  IF v = Nil \/ src = dst THEN NoEffect(db, cmd)
        ELSE Effect(Put(Put(db, dst, v), src, Nil), cmd, {src, dst},
                    IF v.t = "list" THEN <<dst>> ELSE <<>>)

\* No signalModifiedKey(): neither for the source nor for the destination.
moveCommand(db, i, cmd) ==
    LET src == <<i, cmd.key>>
        dst == <<cmd.to, cmd.key>>
        v   == At(db, src)
    IN  IF src = dst \/ v = Nil \/ At(db, dst) # Nil THEN NoEffect(db, cmd)
        ELSE Effect(Put(Put(db, dst, v), src, Nil), cmd, {},
                    IF v.t = "list" THEN <<dst>> ELSE <<>>)

\* Mutant: the databases are not scanned for lists that clients wait for.
swapdbCommand_NoScan(db, i, cmd) ==
    Effect([db EXCEPT ![0] = db[cmd.to], ![cmd.to] = db[0]], cmd, {}, <<>>)

\* dbSwapDatabases(): only the keys somebody is blocked on are signalled, see
\* signalListAsReady.
swapdbCommand(db, i, cmd) ==
    LET db2 == [db EXCEPT ![0] = db[cmd.to], ![cmd.to] = db[0]]
    IN  Effect(db2, cmd, {},
               SetToSeq({p \in {0, cmd.to} \X Keys : At(db2, p).t = "list"}))

\* SORT key STORE dst: setKey() creates the key, or overwrites it in place.
sortCommand(db, i, cmd) ==
    LET src == <<i, cmd.key>>
        dst == <<i, cmd.dst>>
        l   == SortSeq(Elems(At(db, src)), LAMBDA a, b : a < b)
    IN  IF At(db, src).t = "string" \/ (l = <<>> /\ At(db, dst) = Nil) THEN NoEffect(db, cmd)
        ELSE Effect(Put(db, dst, ListOrNil(l)), cmd, {dst},
                    IF l # <<>> /\ At(db, dst) = Nil THEN <<dst>> ELSE <<>>)

Present(db, dbs) == {p \in dbs \X Keys : At(db, p) # Nil}
EmptyDb == [k \in Keys |-> Nil]

flushdbCommand(db, i, cmd) ==
    [NoEffect([db EXCEPT ![i] = EmptyDb], cmd) EXCEPT !.flushed = Present(db, {i}),
                                                     !.dirty   = Present(db, {i}) # {}]
flushallCommand(db, i, cmd) ==
    [NoEffect([j \in Dbs |-> EmptyDb], cmd) EXCEPT !.flushed = Present(db, Dbs), !.dirty = TRUE]

\* A blocking pop that finds a value is a pop, and is propagated as one;
\* BRPOPLPUSH is propagated as it is.  Blocking itself is in blockForKeys.
blockingPopGenericCommand(db, i, cmd) ==
    LET found == {j \in 1..Len(cmd.keys) : db[i][cmd.keys[j]] # Nil}
        k     == cmd.keys[CHOOSE j \in found : \A m \in found : j <= m]
        pop   == [op |-> "pop", key |-> k, where |-> cmd.where]
    IN  IF found = {} THEN NoEffect(db, cmd) ELSE popGenericCommand(db, i, pop)

\* The command table, for the commands that read or write the data set.
DataEffect(db, i, cmd) ==
    CASE cmd.op = "push"       -> pushGenericCommand(db, i, cmd)
      [] cmd.op = "pop"        -> popGenericCommand(db, i, cmd)
      [] cmd.op = "rpoplpush"  -> rpoplpushCommand(db, i, cmd)
      [] cmd.op = "brpoplpush" -> rpoplpushCommand(db, i, cmd)
      [] cmd.op = "bpop"       -> blockingPopGenericCommand(db, i, cmd)
      [] cmd.op = "set"        -> setCommand(db, i, cmd)
      [] cmd.op = "del"        -> delGenericCommand(db, i, cmd)
      [] cmd.op = "rename"     -> renameGenericCommand(db, i, cmd)
      [] cmd.op = "move"       -> moveCommand(db, i, cmd)
      [] cmd.op = "swapdb"     -> swapdbCommand(db, i, cmd)
      [] cmd.op = "sort"       -> sortCommand(db, i, cmd)
      [] cmd.op = "flushdb"    -> flushdbCommand(db, i, cmd)
      [] cmd.op = "flushall"   -> flushallCommand(db, i, cmd)
      [] cmd.op = "get"        -> NoEffect(db, cmd)

ReadOnly   == {"get"}                                       \* CMD_READONLY
ControlOps == {"multi", "exec", "discard", "watch", "unwatch", "select", "unknown"}
Immediate  == {"multi", "exec", "discard", "watch"}         \* never queued
IsWrite(cmd) == cmd.op \notin ControlOps \cup ReadOnly      \* CMD_WRITE

-----------------------------------------------------------------------------
(* Clients.                                                                *)

NewClient ==
    [db |-> 0, querybuf |-> <<>>, multi |-> FALSE, dirtyCas |-> FALSE, dirtyExec |-> FALSE,
     queue |-> <<>>, watched |-> {}, blocked |-> FALSE, bkeys |-> {}, target |-> "none",
     where |-> "head", timeout |-> FALSE, unblocked |-> FALSE, closing |-> FALSE]

\* Bookkeeping for the properties: the clients one of whose watched keys has
\* another value than when it was watched.
Note(s, db2) ==
    [s EXCEPT !.db = db2,
              !.changed = @ \cup {c \in Clients :
                  \E p \in s.c[c].watched : At(s.db, p) # At(db2, p)}]

\* touchWatchedKey() for every key in `places', through db->watched_keys.
touchWatchedKeys(s, places) ==
    LET dirty == UNION {ToSet(At(s.watched_keys, p)) : p \in places}
    IN  [s EXCEPT !.c = [c \in dirty |-> [s.c[c] EXCEPT !.dirtyCas = TRUE]] @@ s.c]

\* Mutant: a flush does not touch the keys it removes.
touchWatchedKeysOnFlush_No(s, places) == s

\* touchWatchedKeysOnFlush(), through the lists of the connected clients.
touchWatchedKeysOnFlush(s, places) ==
    LET dirty == {c \in ToSet(s.clients) : s.c[c].watched \cap places # {}}
    IN  [s EXCEPT !.c = [c \in dirty |-> [s.c[c] EXCEPT !.dirtyCas = TRUE]] @@ s.c]

watchForKey(s, c, k) ==
    LET p == <<s.c[c].db, k>>
    IN  IF p \in s.c[c].watched THEN s
        ELSE [s EXCEPT !.watched_keys = Put(@, p, Append(At(@, p), c)),
                       !.c[c].watched = @ \cup {p}]

unwatchAllKeys(s, c) ==
    [s EXCEPT !.watched_keys = [i \in Dbs |-> [k \in Keys |->
                  IF <<i, k>> \in s.c[c].watched THEN Remove(s.watched_keys[i][k], c) ELSE s.watched_keys[i][k]]],
              !.c[c].watched = {}, !.changed = @ \ {c}]

discardTransaction(s, c) ==
    unwatchAllKeys([s EXCEPT !.c[c].queue = <<>>, !.c[c].multi = FALSE, !.c[c].dirtyCas = FALSE,
                             !.c[c].dirtyExec = FALSE, !.failed = @ \ {c}], c)

flagTransaction(s, c) == [s EXCEPT !.c[c].dirtyExec = @ \/ s.c[c].multi]

signalListAsReady(s, p) ==
    IF At(s.blocking_keys, p) = <<>> \/ p \in s.ready_dict THEN s
    ELSE [s EXCEPT !.ready_keys = Append(@, p), !.ready_dict = @ \cup {p}]

propagate(s, i, cmd) == [s EXCEPT !.out = Append(@, [db |-> i, cmd |-> cmd])]

\* blockForKeys() and blockClient().
blockForKeys(s, c, keys, cmd) ==
    LET i  == s.c[c].db
        bl == s.blocking_keys[i]
    IN  [s EXCEPT !.blocking_keys[i] = [k \in keys |-> Append(bl[k], c)] @@ bl,
                  !.c[c] = [@ EXCEPT !.blocked = TRUE, !.bkeys = keys,
                                     !.target  = IF cmd.op = "brpoplpush" THEN cmd.dst ELSE "none",
                                     !.where   = IF cmd.op = "bpop" THEN cmd.where ELSE "tail",
                                     !.timeout = cmd.timeout],
                  !.bpop_blocked_clients = @ + 1]

\* unblockClient() with unblockClientWaitingData().
unblockClient(s, c) ==
    LET i  == s.c[c].db
        bl == s.blocking_keys[i]
    IN  [s EXCEPT !.blocking_keys[i] = [k \in s.c[c].bkeys |-> Remove(bl[k], c)] @@ bl,
                  !.c[c] = [@ EXCEPT !.blocked = FALSE, !.bkeys = {}, !.target = "none",
                                     !.where = "head", !.timeout = FALSE, !.unblocked = TRUE],
                  !.bpop_blocked_clients = @ - 1,
                  !.unblocked_clients = IF s.c[c].unblocked THEN @ ELSE Append(@, c)]

-----------------------------------------------------------------------------
(* Serving the clients blocked on lists, after a command.                  *)

\* Mutant: the value is not put back when it cannot be delivered.
putBack_No(s, db) == [s EXCEPT !.db = db]

\* serveClientBlockedOnList() failed: the pop is undone.
putBack(s, db) == s

\* One turn of the inner loop of handleClientsBlockedOnLists(): the first
\* client blocked on p gets a value.  When the destination of a BRPOPLPUSH has
\* the wrong type the client gets an error, and the value goes back.
serveFirstClient(s, p) ==
    LET c     == Head(At(s.blocking_keys, p))
        r     == s.c[c]
        l     == At(s.db, p).l
        v     == ListEnd(l, r.where)
        dst   == <<r.db, r.target>>
        taken == Put(s.db, p, List(listTypePop(l, r.where)))
        s1    == unblockClient(s, c)
        pop   == [op |-> "pop", key |-> p[2], where |-> r.where]
        lpush == [op |-> "push", key |-> r.target, where |-> "head", val |-> v]
        push  == Put(taken, dst, List(<<v>> \o Elems(At(taken, dst))))
        sig   == IF At(taken, dst) = Nil THEN signalListAsReady(s1, dst) ELSE s1
    IN  CASE At(s.blocking_keys, p) = <<>> \/ l = <<>> -> s
          [] r.target = "none" -> propagate(Note(s1, taken), p[1], pop)
          [] r.target # "none" /\ At(taken, dst).t # "string" ->
               propagate(propagate(Note(touchWatchedKeys(sig, {dst}), push), p[1], pop), p[1], lpush)
          [] OTHER -> putBack(s1, taken)

\* One ready key: as many turns as there were clients, until the list is empty.
serveReadyKey(s, p) ==
    LET s1 == [s EXCEPT !.ready_dict = @ \ {p}]
        s2 == FoldLeft(LAMBDA t, j : serveFirstClient(t, p), s1,
                       [j \in 1..Len(At(s.blocking_keys, p)) |-> j])
    IN  IF At(s.db, p).t # "list" THEN s1
        ELSE [s2 EXCEPT !.db = Put(@, p, ListOrNil(At(@, p).l))]

RECURSIVE handleClientsBlockedOnLists(_)
handleClientsBlockedOnLists(s) ==
    IF s.ready_keys = <<>> THEN s
    ELSE handleClientsBlockedOnLists(
             FoldLeft(serveReadyKey, [s EXCEPT !.ready_keys = <<>>], s.ready_keys))

-----------------------------------------------------------------------------
(* Executing commands.                                                     *)

\* A command on the data set, with the signals it sends.
Signalled(s, e) ==
    [s |-> Note(FoldLeft(signalListAsReady,
                         touchWatchedKeysOnFlush(touchWatchedKeys(s, e.touched), e.flushed), e.added), e.db),
     dirty |-> e.dirty, as |-> e.as]

DataCommand(s, c, cmd) == Signalled(s, DataEffect(s.db, s.c[c].db, cmd))

Done(s, cmd) == [s |-> s, dirty |-> FALSE, as |-> cmd]

\* A blocking command that finds nothing.  Inside MULTI it is a timeout.
BlockingCommand(s, c, cmd) ==
    LET keys == IF cmd.op = "bpop" THEN ToSet(cmd.keys) ELSE {cmd.key}
    IN  IF s.c[c].multi THEN Done(s, cmd) ELSE Done(blockForKeys(s, c, keys, cmd), cmd)

Serves(s, c, cmd) ==
    \E k \in IF cmd.op = "bpop" THEN ToSet(cmd.keys) ELSE {cmd.key} : s.db[s.c[c].db][k] # Nil

\* c->cmd->proc(c), for every command but EXEC.
Proc(s, c, cmd) ==
    CASE cmd.op = "multi"   -> Done([s EXCEPT !.c[c].multi = TRUE], cmd)   \* nested: an error
      [] cmd.op = "discard" -> Done(IF s.c[c].multi THEN discardTransaction(s, c) ELSE s, cmd)
      [] cmd.op = "watch"   -> Done(IF s.c[c].multi THEN s ELSE watchForKey(s, c, cmd.key), cmd)
      [] cmd.op = "unwatch" -> Done([unwatchAllKeys(s, c) EXCEPT !.c[c].dirtyCas = FALSE], cmd)
      [] cmd.op = "select"  -> Done([s EXCEPT !.c[c].db = cmd.to], cmd)
      [] cmd.op \in {"bpop", "brpoplpush"} /\ ~Serves(s, c, cmd) -> BlockingCommand(s, c, cmd)
      [] OTHER              -> DataCommand(s, c, cmd)

\* Bookkeeping for the properties: a client wrote to a read-only slave.
SlaveWrite(s) == IF s.masterhost THEN [s EXCEPT !.broken = @ \cup {"slave"}] ELSE s

\* call(): what changed the data set is propagated, after it is executed.
Called(r, c) == IF r.dirty THEN propagate(SlaveWrite(r.s), r.s.c[c].db, r.as) ELSE r.s

call(s, c, cmd) == Called(Proc(s, c, cmd), c)

\* One command of the queue; MULTI is propagated before the first that may write.
execQueued(st, cmd) ==
    LET multi == ~st.must_propagate /\ cmd.op \notin ReadOnly
        s1    == IF multi THEN propagate(st.s, st.s.c[st.c].db, [op |-> "multi"]) ELSE st.s
    IN  [st EXCEPT !.s = call(s1, st.c, cmd), !.must_propagate = @ \/ multi]

\* EXEC closes the transaction if MULTI was propagated: execCommand() increments
\* server.dirty for call() to propagate it.
propagateExec(s, c, must_propagate) ==
    IF must_propagate THEN propagate(s, s.c[c].db, [op |-> "exec"]) ELSE s

execDone(st) == propagateExec(discardTransaction(st.s, st.c), st.c, st.must_propagate)

\* Run(s, c): the queue is executed.  `broken' records, for the properties, a
\* transaction executed though it had to be refused.
Run(s, c) ==
    LET why == {w \in {"cas", "queue"} : c \in (IF w = "cas" THEN s.changed ELSE s.failed)}
        s1  == [unwatchAllKeys(s, c) EXCEPT !.broken = @ \cup why]
    IN  execDone(FoldLeft(execQueued, [s |-> s1, c |-> c, must_propagate |-> FALSE], s.c[c].queue))

execCommand(s, c) ==
    CASE ~s.c[c].multi -> s
      [] s.c[c].multi /\ (s.c[c].dirtyCas \/ s.c[c].dirtyExec) -> discardTransaction(s, c)
      [] OTHER -> Run(s, c)

\* The command is refused before it is queued or executed: it is unknown, memory
\* is short, a master cannot persist or replicate, or it is a write to a slave.
\* All but the last flag the transaction.
FlaggedRefusal(s, cmd) ==
    \/ cmd.op = "unknown"
    \/ s.refuse = "oom" /\ cmd.op \in {"push", "set", "rpoplpush", "brpoplpush", "sort"}
    \/ s.refuse = "misconf" /\ ~s.masterhost /\ IsWrite(cmd)

Refused(s, cmd) == FlaggedRefusal(s, cmd) \/ (s.masterhost /\ IsWrite(cmd))

processCommand(s, c, cmd) ==
    CASE Refused(s, cmd) ->
           LET s1 == [s EXCEPT !.failed = IF s.c[c].multi THEN @ \cup {c} ELSE @]
           IN  IF FlaggedRefusal(s, cmd) THEN flagTransaction(s1, c) ELSE s1
      [] ~Refused(s, cmd) /\ s.c[c].multi /\ cmd.op \notin Immediate ->
           [s EXCEPT !.c[c].queue = Append(@, cmd)]
      [] OTHER -> handleClientsBlockedOnLists(
                      IF cmd.op = "exec" THEN execCommand(s, c) ELSE call(s, c, cmd))

\* Mutant: the clients are not queued for the processing of their input.
clientsArePaused_NotQueued(s) == IF s.paused = "over" THEN [s EXCEPT !.paused = "no"] ELSE s

\* clientsArePaused(), with its side effect when the pause is over.
clientsArePaused(s) ==
    LET free == SelectSeq(s.clients, LAMBDA c : ~s.c[c].blocked)
    IN  IF s.paused # "over" THEN s
        ELSE [s EXCEPT !.paused = "no", !.unblocked_clients = @ \o free,
                       !.c = [c \in ToSet(free) |-> [s.c[c] EXCEPT !.unblocked = TRUE]] @@ s.c]

RECURSIVE processInputBuffer(_, _)
processInputBuffer(s, c) ==
    LET s1 == clientsArePaused(s)
    IN  IF s.c[c].querybuf = <<>> THEN s
        ELSE IF s1.paused = "yes" \/ s1.c[c].blocked \/ s1.c[c].closing THEN s1
        ELSE processInputBuffer(
                 processCommand([s1 EXCEPT !.c[c].querybuf = Tail(@)], c, Head(s1.c[c].querybuf)), c)

RECURSIVE processUnblockedClients(_)
processUnblockedClients(s) ==
    LET c  == Head(s.unblocked_clients)
        s1 == [s EXCEPT !.unblocked_clients = Tail(@), !.c[c].unblocked = FALSE]
    IN  IF s.unblocked_clients = <<>> THEN s
        ELSE processUnblockedClients(IF s1.c[c].blocked THEN s1 ELSE processInputBuffer(s1, c))

\* unlinkClient(): the client is in unblocked_clients if its flag says so.
unlinkClient(s, c) ==
    [s EXCEPT !.clients = Remove(@, c), !.c[c].unblocked = FALSE,
              !.unblocked_clients = IF s.c[c].unblocked THEN RemoveFirst(@, c) ELSE @]

freeClient(s, c) ==
    LET s1 == [s EXCEPT !.c[c].querybuf = <<>>]
        s2 == IF s.c[c].blocked THEN unblockClient(s1, c) ELSE s1
        s3 == unlinkClient(unwatchAllKeys(s2, c), c)
    IN  [s3 EXCEPT !.c[c] = NewClient, !.failed = @ \ {c}]

\* disconnectAllBlockedClients(), when the instance becomes a slave.
disconnectAllBlockedClients(s) ==
    FoldLeft(LAMBDA t, c : IF t.c[c].blocked
                           THEN [unblockClient(t, c) EXCEPT !.c[c].closing = TRUE] ELSE t,
             s, s.clients)

-----------------------------------------------------------------------------
(* The instance at the other end of propagate(): the append only file when *)
(* it is loaded, or a slave.                                               *)

Replay(r, m) ==
    CASE m.cmd.op = "multi" -> [r EXCEPT !.multi = TRUE]
      [] m.cmd.op = "exec"  ->
           [db |-> FoldLeft(LAMBDA d, q : DataEffect(d, q.db, q.cmd).db, r.db, r.queue),
            multi |-> FALSE, queue |-> <<>>]
      [] m.cmd.op \notin {"multi", "exec"} /\ r.multi -> [r EXCEPT !.queue = Append(@, m)]
      [] OTHER -> [r EXCEPT !.db = DataEffect(r.db, m.db, m.cmd).db]

-----------------------------------------------------------------------------
(* Events.                                                                 *)

Init ==
    /\ setup \in Setups
    /\ server = [db |-> [i \in Dbs |-> EmptyDb], clients |-> ClientList,
                 c |-> [c \in Clients |-> NewClient],
                 blocking_keys |-> [i \in Dbs |-> [k \in Keys |-> <<>>]],
                 watched_keys  |-> [i \in Dbs |-> [k \in Keys |-> <<>>]],
                 ready_keys |-> <<>>, ready_dict |-> {}, unblocked_clients |-> <<>>,
                 bpop_blocked_clients |-> 0, paused |-> "no", masterhost |-> FALSE,
                 refuse |-> "no", out |-> <<>>, changed |-> {}, failed |-> {}, broken |-> {}]
    /\ replay = [db |-> [i \in Dbs |-> EmptyDb], multi |-> FALSE, queue |-> <<>>]
    /\ used = [cmds |-> 0, frees |-> 0, pauses |-> 0, roles |-> 0, troubles |-> 0]

\* The event's handler ends in state s.
Ends(s) ==
    /\ server' = [s EXCEPT !.out = <<>>]
    /\ replay' = FoldLeft(Replay, replay, s.out)

Uses(what) ==
    /\ used[what] < Limit[what]
    /\ used' = [used EXCEPT ![what] = @ + 1]

Connected == ToSet(server.clients)

readQueryFromClient(c, cmd) ==
    /\ c \in Connected /\ ~server.c[c].closing
    /\ Len(server.c[c].querybuf) < MaxBuffered
    /\ Len(server.c[c].queue) < Limit.queue \/ cmd.op \in Immediate
    /\ Uses("cmds")
    /\ LET arg == IF cmd.op = "push" THEN [cmd EXCEPT !.val = used.cmds + 1] ELSE cmd
       IN  Ends(processInputBuffer([server EXCEPT !.c[c].querybuf = Append(@, arg)], c))

beforeSleep ==
    /\ server.unblocked_clients # <<>>
    /\ Ends(processUnblockedClients(server))
    /\ UNCHANGED used

\* serverCron(): the blocked clients whose time is over, then the pause.
serverCron ==
    \E due \in SUBSET {c \in Connected : server.c[c].blocked /\ server.c[c].timeout} :
        /\ due # {} \/ server.paused = "over"
        /\ Ends(clientsArePaused(FoldLeft(LAMBDA s, c : IF c \in due THEN unblockClient(s, c) ELSE s,
                                          server, server.clients)))
        /\ UNCHANGED used

\* The connection is lost, or the last reply of a closing client was sent.
Disconnect(c) ==
    /\ c \in Connected
    /\ IF server.c[c].closing THEN UNCHANGED used ELSE Uses("frees")
    /\ Ends(freeClient(server, c))

pauseClients ==
    /\ Uses("pauses")
    /\ Ends([server EXCEPT !.paused = "yes"])

PauseEnds ==
    /\ server.paused = "yes"
    /\ Ends([server EXCEPT !.paused = "over"])
    /\ UNCHANGED used

replicationSetMaster ==
    /\ Uses("roles")
    /\ Ends(disconnectAllBlockedClients([server EXCEPT !.masterhost = TRUE]))

replicationUnsetMaster ==
    /\ server.masterhost
    /\ Ends([server EXCEPT !.masterhost = FALSE])
    /\ UNCHANGED used

\* Memory runs out, the disk fails, the slaves are gone, or all is well again.
Conditions ==
    \E r \in {"no", "oom", "misconf"} \ {server.refuse} :
        /\ Uses("troubles")
        /\ Ends([server EXCEPT !.refuse = r])

Next ==
    /\ \/ \E c \in Clients, cmd \in setup.menu : readQueryFromClient(c, cmd)
       \/ \E c \in Clients : Disconnect(c)
       \/ beforeSleep
       \/ serverCron
       \/ pauseClients
       \/ PauseEnds
       \/ replicationSetMaster
       \/ replicationUnsetMaster
       \/ Conditions
    /\ UNCHANGED setup

Spec == Init /\ [][Next]_vars

-----------------------------------------------------------------------------
(* Properties.                                                             *)

Value == [t : {"nil", "string"}] \cup [t : {"list"}, l : Seq(1..Limit.cmds)]

TypeOK ==
    /\ \A p \in Places : At(server.db, p) \in Value /\ At(server.db, p) # List(<<>>)
    /\ server.ready_keys = <<>> /\ server.ready_dict = {}
    /\ server.paused \in {"no", "yes", "over"} /\ server.masterhost \in BOOLEAN
    /\ \A c \in Clients : server.c[c].db \in Dbs /\ server.c[c].watched \subseteq Places

\* Between two events ready_keys is empty and no list is empty (TypeOK).
\* The two directions of the indexes agree: a client is in blocking_keys[k] (once)
\* exactly when it is blocked on k, in watched_keys[k] exactly when it watches k,
\* and bpop_blocked_clients counts the blocked clients (blocked.c, multi.c).  Unless
\* clients are paused, unblocked_clients holds a client once if its flag is set and
\* otherwise not at all: freeing a client removes every reference to it.
IndexesAgree ==
    /\ TypeOK
    /\ \A p \in Places : LET bl == At(server.blocking_keys, p)
                              wt == At(server.watched_keys, p)
                          IN  /\ IsInjective(bl) /\ IsInjective(wt)
                              /\ ToSet(bl) = {c \in Connected : server.c[c].blocked
                                                 /\ p[1] = server.c[c].db /\ p[2] \in server.c[c].bkeys}
                              /\ ToSet(wt) = {c \in Connected : p \in server.c[c].watched}
    /\ server.bpop_blocked_clients = Cardinality({c \in Clients : server.c[c].blocked})
    /\ Limit.pauses = 0 =>
          /\ IsInjective(server.unblocked_clients)
          /\ ToSet(server.unblocked_clients) = {c \in Connected : server.c[c].unblocked}

\* EXEC does not run the queue of a client one of whose watched keys has been
\* given another value since WATCH (touchWatchedKey), nor of one that was refused
\* a command while it was queueing (flagTransaction).
ExecRefused == {"cas", "queue"} \cap server.broken = {}

\* Executing what was propagated, in order, yields the data set of the server, and
\* no transaction is left open (call, execCommand, serveClientBlockedOnList).
ReplayExact == replay.db = server.db /\ ~replay.multi

\* No client stays blocked on a key that holds a list
\* (signalListAsReady, handleClientsBlockedOnLists, scanDatabaseForReadyLists).
NoneBlockedOnList ==
    \A p \in Places : At(server.blocking_keys, p) # <<>> => At(server.db, p).t # "list"

\* A blocked client can be found under every key it waits for, and none is left waiting
\* for a list that is there.
BlockedSound == IndexesAgree /\ NoneBlockedOnList

\* A client whose input waits in its query buffer, and that nothing holds back, is
\* in the list of the clients whose buffer is processed before the server sleeps; and
\* when it is processed, no command of an ordinary client changes the data set of a
\* read-only slave (processUnblockedClients, processCommand).
NoForgottenInput ==
    /\ \A c \in Connected :
        server.c[c].querybuf # <<>> /\ ~server.c[c].blocked /\ ~server.c[c].closing
            /\ server.paused = "no"
        => c \in ToSet(server.unblocked_clients)
    /\ "slave" \notin server.broken
=============================================================================
