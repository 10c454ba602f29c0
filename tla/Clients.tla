------------------------------ MODULE Clients ------------------------------
(***************************************************************************)
(* The output of clients, networking.c, and what feeds it: replies of       *)
(* commands, messages of pubsub.c, the stream of slaves.  A unit of output  *)
(* is a number; the units of a client are numbered in the order they have   *)
(* to reach it.  A static buffer of ClBuf units is filled first, then a     *)
(* list of nodes of up to ClChunk units; write() takes some of it, before   *)
(* sleeping or from a write handler.  One action is one event: a command, a *)
(* handler, a timer, the work before sleeping.                              *)
(***************************************************************************)
EXTENDS Integers, FiniteSets, SequencesExt, TLC

CONSTANTS
    ClIds,          \* clients
    ClBuf,          \* units of the static buffer, sizeof(c->buf)
    ClChunk,        \* PROTO_REPLY_CHUNK_BYTES
    ClHard, ClSoft, ClSoftSeconds,   \* client-output-buffer-limit; 0: no limit
    ClMaxClients,   \* maxclients
    ClSetups        \* name -> [ops: operation -> the clients that use it, start: clients connected
                    \*          at the start, sizes: units of a reply, units, time: bounds on the
                    \*          units of a client and on the clock]

VARIABLES clsetup, cl

clientVars == <<clsetup, cl>>

ClOps == DOMAIN ClSetups[clsetup].ops
ClUses(c, op) == op \in ClOps /\ c \in ClSetups[clsetup].ops[op]
ClSizes == ClSetups[clsetup].sizes
ClMaxUnits == ClSetups[clsetup].units
ClMaxTime == ClSetups[clsetup].time

NoClient == [open |-> FALSE, flags |-> {}, repl |-> "none", buf |-> <<>>, sent |-> 0, list |-> <<>>, bytes |-> 0,
             handler |-> "none", soft |-> 0, total |-> 0, out |-> <<>>, chans |-> {}, pats |-> {}]

Placeholder == <<0>>

clientHasPendingReplies(c) == c.buf # <<>> \/ c.list # <<>>

\* The static buffer, then the list; sentlen is into the first of them.
PendingUnits(c) ==
    LET all == c.buf \o FlattenSeq(c.list) IN SubSeq(all, c.sent + 1, Len(all))

-----------------------------------------------------------------------------
(* Freeing. *)

RemoveFrom(s, x) == SelectSeq(s, LAMBDA y : y # x)

pubsubUnsubscribeChannel(s, c, ch) ==
    [s EXCEPT !.c[c].chans = @ \ {ch}, !.channels[ch] = RemoveFrom(@, c)]

pubsubUnsubscribePattern(s, c, p) ==
    [s EXCEPT !.c[c].pats = @ \ {p}, !.patterns = RemoveFrom(@, [client |-> c, pattern |-> p])]

pubsubUnsubscribeAllChannels(s, c) ==
    FoldLeft(LAMBDA r, ch : pubsubUnsubscribeChannel(r, c, ch), s, SetToSeq(s.c[c].chans))

pubsubUnsubscribeAllPatterns(s, c) ==
    FoldLeft(LAMBDA r, p : pubsubUnsubscribePattern(r, c, p), s, SetToSeq(s.c[c].pats))

\* unlinkClient().
ClUnlink(s, c) ==
    [s EXCEPT !.clients = RemoveFrom(@, c),
              !.pendingWrite = IF "pending_write" \in s.c[c].flags THEN RemoveFrom(@, c) ELSE @]

freeClient(s0, c) ==
    LET s == ClUnlink(pubsubUnsubscribeAllPatterns(pubsubUnsubscribeAllChannels(s0, c), c), c)
    IN  [s EXCEPT !.slaves = IF "slave" \in s.c[c].flags THEN RemoveFrom(@, c) ELSE @,
                  !.toClose = IF "close_asap" \in s.c[c].flags THEN RemoveFrom(@, c) ELSE @,
                  !.c[c] = NoClient]

freeClientAsync(s, c) ==
    IF "close_asap" \in s.c[c].flags THEN s
    ELSE [s EXCEPT !.c[c].flags = @ \cup {"close_asap"}, !.toClose = Append(@, c)]

\* The flag is cleared first, so that freeClient() leaves the node to this loop.
freeClientsInAsyncFreeQueue(s) ==
    LET Free(r, c) == [freeClient([r EXCEPT !.c[c].flags = @ \ {"close_asap"}], c) EXCEPT !.toClose = Tail(@)]
    IN  FoldLeft(Free, s, s.toClose)

-----------------------------------------------------------------------------
(* Adding to the output. *)

getClientOutputBufferMemoryUsage(c) == c.bytes + Len(c.list)

\* The soft limit counts when it has been reached for long enough without a break.
checkClientOutputBufferLimits(c, now) ==
    LET used == getClientOutputBufferMemoryUsage(c)
        soft == ClSoft > 0 /\ used >= ClSoft
    IN  [reached |-> (ClHard > 0 /\ used >= ClHard) \/ (soft /\ c.soft # 0 /\ now - c.soft > ClSoftSeconds),
         since |-> IF ~soft THEN 0 ELSE IF c.soft = 0 THEN now ELSE c.soft]

asyncCloseClientOnOutputBufferLimitReached(s, c) ==
    LET r == checkClientOutputBufferLimits(s.c[c], s.now)
    IN  IF s.c[c].bytes = 0 \/ "close_asap" \in s.c[c].flags THEN s
        ELSE LET t == [s EXCEPT !.c[c].soft = r.since] IN IF r.reached THEN freeClientAsync(t, c) ELSE t

\* Whether c takes output at all.
TakesOutput(s, c) == s.c[c].flags \cap {"reply_off", "reply_skip"} = {}

\* Slaves that are not online yet collect their output.
CanBeWritten(c) == c.repl \in {"none", "online"}

prepareClientToWrite(s, c) ==
    IF ~clientHasPendingReplies(s.c[c]) /\ "pending_write" \notin s.c[c].flags /\ CanBeWritten(s.c[c])
    THEN [s EXCEPT !.c[c].flags = @ \cup {"pending_write"}, !.pendingWrite = <<c>> \o @]
    ELSE s

\* _addReplyStringToList(): glued to the last node when it fits and is no placeholder.
AddToList(c, u) ==
    LET tail == Last(c.list)
    IN  [c EXCEPT !.list = IF c.list # <<>> /\ tail # Placeholder /\ Len(tail) + Len(u) <= ClChunk
                           THEN Append(Front(c.list), tail \o u) ELSE Append(c.list, u),
                  !.bytes = @ + Len(u)]

\* _addReplyToBuffer(), else the list.
AddUnits(s, c, u) ==
    IF "close_after_reply" \in s.c[c].flags THEN s
    ELSE IF s.c[c].list = <<>> /\ Len(u) <= ClBuf - Len(s.c[c].buf) THEN [s EXCEPT !.c[c].buf = @ \o u]
    ELSE asyncCloseClientOnOutputBufferLimitReached([s EXCEPT !.c[c] = AddToList(@, u)], c)

Units(from, n) == [i \in 1..n |-> from + i]

\* addReply(), addReplySds(), addReplyString(): n units in one call.
addReply(s, c, n) ==
    IF ~TakesOutput(s, c) THEN s
    ELSE LET t == AddUnits(prepareClientToWrite(s, c), c, Units(s.c[c].total, n))
         IN  IF "close_after_reply" \in s.c[c].flags THEN t ELSE [t EXCEPT !.c[c].total = @ + n]

\* setDeferredMultiBulkLength() for the placeholder that is node i of the list: glued to
\* the node that follows.
SetLength(c, i, u) ==
    LET glue == i < Len(c.list) /\ c.list[i + 1] # Placeholder
    IN  [c EXCEPT !.list = SubSeq(c.list, 1, i - 1) \o <<IF glue THEN u \o c.list[i + 1] ELSE u>>
                           \o SubSeq(c.list, IF glue THEN i + 2 ELSE i + 1, Len(c.list)),
                  !.bytes = @ + Len(u)]

\* A reply of n parts whose number is not known before they are all added: a placeholder,
\* the parts, then the length in front of them.
DeferredReply(s, c, n) ==
    IF ~TakesOutput(s, c) \/ "close_after_reply" \in s.c[c].flags THEN s
    ELSE LET p   == prepareClientToWrite(s, c)
             i   == Len(p.c[c].list) + 1
             q   == [p EXCEPT !.c[c].list = Append(@, Placeholder), !.c[c].total = @ + 1]
             r   == FoldLeft(LAMBDA x, k : addReply(x, c, 1), q, [k \in 1..n |-> k])
         IN  asyncCloseClientOnOutputBufferLimitReached(
                 [r EXCEPT !.c[c] = SetLength(@, i, <<s.c[c].total + 1>>)], c)

-----------------------------------------------------------------------------
(* Writing. *)

\* What write() takes, k units at most, is taken from the static buffer and then from the
\* list, node by node; a node that is gone is no longer counted.
Written(c, k) ==
    LET n    == Len(PendingUnits(c))
        take == IF k < n THEN k ELSE n
        One(x, i) ==
            IF x.buf # <<>>
            THEN IF x.sent + 1 = Len(x.buf) THEN [x EXCEPT !.buf = <<>>, !.sent = 0] ELSE [x EXCEPT !.sent = @ + 1]
            ELSE IF x.sent + 1 = Len(x.list[1])
            THEN [x EXCEPT !.list = Tail(@), !.sent = 0, !.bytes = @ - Len(x.list[1])]
            ELSE [x EXCEPT !.sent = @ + 1]
    IN  [FoldLeft(One, c, [i \in 1..take |-> i]) EXCEPT !.out = @ \o SubSeq(PendingUnits(c), 1, take)]

WriteError == -1

\* Bound: units are numbered from 1 again when all that were asked for were written.
Renumbered(c) == IF c.out = Units(0, c.total) THEN [c EXCEPT !.out = <<>>, !.total = 0] ELSE c

\* writeToClient() when write() takes k units, or fails.
writeToClient(s, c, k, installed) ==
    IF k = WriteError THEN freeClient(s, c)
    ELSE LET w == [s EXCEPT !.c[c] = Renumbered(Written(@, k))]
             e == [w EXCEPT !.c[c].sent = 0, !.c[c].handler = IF installed THEN "none" ELSE @]
         IN  IF clientHasPendingReplies(w.c[c]) THEN w
             ELSE IF "close_after_reply" \in w.c[c].flags THEN freeClient(e, c) ELSE e

\* Each client of the list once; who has output left gets a write handler, or is closed
\* if the event loop refuses one.
handleClientsWithPendingWrites(s, take, refused) ==
    LET Try(r, c) ==
            LET w == writeToClient([r EXCEPT !.c[c].flags = @ \ {"pending_write"}, !.pendingWrite = Tail(@)],
                                   c, take[c], FALSE)
            IN  IF ~(w.c[c].open /\ clientHasPendingReplies(w.c[c])) THEN w
                ELSE IF c \in refused THEN freeClientAsync(w, c) ELSE [w EXCEPT !.c[c].handler = "send"]
    IN  FoldLeft(Try, s, s.pendingWrite)

\* Slaves are written to without returning to the event loop, for eviction and SHUTDOWN;
\* the handler stays installed.
flushSlavesOutputBuffers(s, take) ==
    LET Flush(r, c) == IF r.c[c].handler # "none" /\ r.c[c].repl = "online" /\ clientHasPendingReplies(r.c[c])
                       THEN writeToClient(r, c, take[c], FALSE) ELSE r
    IN  FoldLeft(Flush, s, s.slaves)

-----------------------------------------------------------------------------
(* Subscriptions: every notice is one unit, a message one. *)

pubsubSubscribeChannel(s, c, ch) ==
    addReply(IF ch \in s.c[c].chans THEN s
             ELSE [s EXCEPT !.c[c].chans = @ \cup {ch}, !.channels[ch] = Append(@, c)], c, 1)

pubsubSubscribePattern(s, c, p) ==
    addReply(IF p \in s.c[c].pats THEN s
             ELSE [s EXCEPT !.c[c].pats = @ \cup {p},
                            !.patterns = Append(@, [client |-> c, pattern |-> p])], c, 1)

clientSubscriptionsCount(c) == Cardinality(c.chans) + Cardinality(c.pats)

PubsubFlag(s, c) ==
    [s EXCEPT !.c[c].flags = IF clientSubscriptionsCount(s.c[c]) = 0 THEN @ \ {"pubsub"} ELSE @]

\* The one channel, the one pattern that matches it.
Channel == "ch"
Pattern == "c*"

pubsubPublishMessage(s, n) ==
    LET a == FoldLeft(LAMBDA r, c : addReply(r, c, n), s, s.channels[Channel])
    IN  FoldLeft(LAMBDA r, p : addReply(r, p.client, n), a, s.patterns)

-----------------------------------------------------------------------------
(* Slaves. *)

\* SYNC: with a slave that waits for the end of the same snapshot, its output is copied.
syncCommand(s, c) ==
    LET like == SelectSeq(s.slaves, LAMBDA d : s.c[d].repl = "wait_end")
        n    == [s EXCEPT !.c[c].flags = @ \cup {"slave"}, !.slaves = Append(@, c), !.c[c].repl = "wait_start"]
    IN  IF "slave" \in s.c[c].flags THEN s
        ELSE IF clientHasPendingReplies(s.c[c]) THEN addReply(s, c, 1)
        ELSE IF like = <<>> THEN n
        ELSE LET d == s.c[like[1]]
             IN  [n EXCEPT !.c[c].repl = "wait_end", !.c[c].list = d.list, !.c[c].buf = d.buf, !.c[c].bytes = d.bytes,
                           !.c[c].out = <<>>, !.c[c].total = d.total]

\* replicationFeedSlaves(): not to slaves whose snapshot has not begun.
replicationFeedSlaves(s, n) ==
    FoldLeft(LAMBDA r, c : IF r.c[c].repl = "wait_start" THEN r ELSE addReply(r, c, n), s, s.slaves)

putSlaveOnline(s, c) == [s EXCEPT !.c[c].repl = "online", !.c[c].handler = "send"]

\* The states of the slaves as the snapshot goes on: by disk, the file is sent by a
\* handler of its own; without disk, the slave is online with its first ACK.
SlaveStep(s, c) ==
    CASE s.c[c].repl = "wait_start" -> {[s EXCEPT !.c[c].repl = "wait_end", !.c[c].out = <<>>, !.c[c].total = 0]}
      [] s.c[c].repl = "wait_end"   -> {[s EXCEPT !.c[c].repl = "send_bulk", !.c[c].handler = "bulk"],
                                        [s EXCEPT !.c[c].repl = "online_on_ack"]}
      [] s.c[c].repl = "send_bulk"  -> {putSlaveOnline([s EXCEPT !.c[c].handler = "none"], c)}
      [] s.c[c].repl = "online_on_ack" -> {putSlaveOnline(s, c)}
      [] OTHER -> {}

-----------------------------------------------------------------------------
(* Events. *)

createClient(s, c) == [s EXCEPT !.c[c] = [NoClient EXCEPT !.open = TRUE], !.clients = Append(@, c)]

ClientsInit ==
    /\ clsetup \in DOMAIN ClSetups
    /\ cl = FoldLeft(createClient,
                     [c |-> [c \in ClIds |-> NoClient], clients |-> <<>>, pendingWrite |-> <<>>, toClose |-> <<>>,
                      slaves |-> <<>>, channels |-> Channel :> <<>>, patterns |-> <<>>, now |-> 1],
                     SetToSeq(ClSetups[clsetup].start))

ClSet(s) == cl' = s /\ UNCHANGED clsetup

\* Bound: no more output than the model has room for.
Room(s) == \A c \in ClIds : s.c[c].total <= ClMaxUnits

\* acceptCommonHandler(): one client too many is freed at once.
Accept(c) ==
    /\ ClUses(c, "accept") /\ ~cl.c[c].open
    /\ LET s == createClient(cl, c)
       IN  ClSet(IF Len(s.clients) > ClMaxClients THEN freeClient(s, c) ELSE s)

\* A client whose input is processed; in the Pub/Sub context few commands are.
Processed(c, op) ==
    /\ ClUses(c, op) /\ cl.c[c].open
    /\ cl.c[c].flags \cap {"close_after_reply", "close_asap"} = {}
    /\ "pubsub" \in cl.c[c].flags => op \in {"subscribe", "unsubscribe", "quit"}
    /\ "slave" \in cl.c[c].flags => op = "quit"

\* resetClient(): CLIENT REPLY SKIP silences the command that follows.
resetClient(s, c) ==
    IF ~s.c[c].open THEN s
    ELSE [s EXCEPT !.c[c].flags = (@ \ {"reply_skip", "reply_skip_next"})
                                  \cup (IF "reply_skip_next" \in @ THEN {"reply_skip"} ELSE {})]

Done(s, c) == Room(s) /\ ClSet(resetClient(s, c))

Command(c) ==
    \/ Processed(c, "reply") /\ \E n \in ClSizes : Done(addReply(cl, c, n), c)
    \/ Processed(c, "deferred") /\ \E n \in ClSizes : Done(DeferredReply(cl, c, n), c)
    \/ Processed(c, "write") /\ \E n \in ClSizes : Done(addReply(replicationFeedSlaves(cl, n), c, 1), c)
    \/ Processed(c, "publish") /\ \E n \in ClSizes : Done(addReply(pubsubPublishMessage(cl, n), c, 1), c)
    \/ /\ Processed(c, "subscribe")
       /\ \/ Done([pubsubSubscribeChannel(cl, c, Channel) EXCEPT !.c[c].flags = @ \cup {"pubsub"}], c)
          \/ Done([pubsubSubscribePattern(cl, c, Pattern) EXCEPT !.c[c].flags = @ \cup {"pubsub"}], c)
    \/ /\ Processed(c, "unsubscribe")
       /\ \/ Done(PubsubFlag(addReply(pubsubUnsubscribeChannel(cl, c, Channel), c, 1), c), c)
          \/ Done(PubsubFlag(addReply(pubsubUnsubscribePattern(cl, c, Pattern), c, 1), c), c)
    \/ Processed(c, "sync") /\ Done(syncCommand(cl, c), c)

\* CLIENT REPLY, CLIENT KILL and QUIT.  QUIT ends in processCommand(), without a reset.
clientCommand(c) ==
    \/ /\ Processed(c, "client_reply")
       /\ \/ Done(addReply([cl EXCEPT !.c[c].flags = @ \ {"reply_skip", "reply_off"}], c, 1), c)
          \/ Done([cl EXCEPT !.c[c].flags = @ \cup {"reply_off"}], c)
          \/ Done([cl EXCEPT !.c[c].flags = IF "reply_off" \in @ THEN @ ELSE @ \cup {"reply_skip_next"}], c)
    \/ /\ Processed(c, "kill")
       /\ \E victims \in SUBSET {d \in ClIds : cl.c[d].open} :
             /\ victims # {}
             /\ LET others == SelectSeq(cl.clients, LAMBDA d : d \in victims /\ d # c)
                    s == addReply(FoldLeft(freeClient, cl, others), c, 1)
                IN  Done(IF c \in victims THEN [s EXCEPT !.c[c].flags = @ \cup {"close_after_reply"}] ELSE s, c)
    \/ /\ Processed(c, "quit")
       /\ LET s == addReply(cl, c, 1)
          IN  Room(s) /\ ClSet([s EXCEPT !.c[c].flags = @ \cup {"close_after_reply"}])

\* The peer closes the connection, or nothing was heard from it for too long.
readQueryFromClient(c) == ClUses(c, "close") /\ cl.c[c].open /\ ClSet(freeClient(cl, c))

clientsCronHandleTimeout(c) ==
    /\ ClUses(c, "timeout") /\ cl.c[c].open
    /\ cl.c[c].flags \cap {"slave", "pubsub"} = {}
    /\ ClSet(freeClient(cl, c))

\* sendReplyToClient().
Writable(c) ==
    /\ cl.c[c].open /\ cl.c[c].handler = "send"
    /\ \E k \in {1, ClMaxUnits, WriteError} : ClSet(writeToClient(cl, c, k, TRUE))

Takes == [ClIds -> {0, ClMaxUnits, WriteError}]

ClBeforeSleep ==
    /\ cl.pendingWrite # <<>>
    /\ \E take \in Takes, refused \in SUBSET {c \in ToSet(cl.pendingWrite) : ClUses(c, "refuse")} :
          /\ \A c \in ClIds : c \notin ToSet(cl.pendingWrite) => take[c] = 0
          /\ ClSet(handleClientsWithPendingWrites(cl, take, refused))

FlushSlaves ==
    /\ "flush" \in ClOps /\ cl.slaves # <<>>
    /\ \E take \in Takes : (\A c \in ClIds : c \notin ToSet(cl.slaves) => take[c] = 0)
                           /\ ClSet(flushSlavesOutputBuffers(cl, take))

ClServerCron ==
    /\ cl.toClose # <<>> \/ cl.now < ClMaxTime
    /\ ClSet([freeClientsInAsyncFreeQueue(cl) EXCEPT !.now = IF @ < ClMaxTime THEN @ + 1 ELSE @])

SlaveEvent(c) == cl.c[c].open /\ \E s \in SlaveStep(cl, c) : ClSet(s)

ClientsNext ==
    \/ ClBeforeSleep \/ FlushSlaves \/ ClServerCron
    \/ \E c \in ClIds : Accept(c) \/ Command(c) \/ clientCommand(c) \/ readQueryFromClient(c)
                        \/ clientsCronHandleTimeout(c) \/ Writable(c) \/ SlaveEvent(c)

-----------------------------------------------------------------------------

\* What was written to a client and what waits for it are its replies in their order,
\* none missing, none twice, wherever they are kept and however they were cut; the bytes
\* of the list are counted right.
OutputExact ==
    \A c \in ClIds :
        LET x == cl.c[c]
        IN  /\ x.out \o PendingUnits(x) = Units(0, x.total)
            /\ x.bytes = Len(FlattenSeq(x.list))
            /\ \A i \in DOMAIN x.list : x.list[i] # <<>>

\* No output is forgotten: what waits for a client that can be written to is either
\* due before the next sleep or has a write handler, or the client is scheduled to be
\* closed, if the event loop refused it one or it is too slow; a client that is to be closed
\* after its reply has one (unless it takes none); a client over the hard limit is
\* scheduled to be closed (a slave may be over it with the output it copied).
NoStall ==
    \A c \in ClIds :
        LET x == cl.c[c]
        IN  x.open =>
            /\ clientHasPendingReplies(x) /\ CanBeWritten(x) =>
                  x.flags \cap {"pending_write", "close_asap"} # {} \/ x.handler = "send"
            /\ "close_after_reply" \in x.flags /\ TakesOutput(cl, c) /\ x.repl = "none" =>
                  clientHasPendingReplies(x)
            /\ ClHard > 0 /\ getClientOutputBufferMemoryUsage(x) >= ClHard /\ "slave" \notin x.flags =>
                  "close_asap" \in x.flags

\* A client is in exactly the lists its flags name, once, and a freed one in none; the
\* two sides of the subscriptions agree, and the Pub/Sub context is that of clients with
\* a subscription.
ListsAgree ==
    LET Is(list, P(_)) == Cardinality(ToSet(list)) = Len(list) /\ ToSet(list) = {c \in ClIds : P(cl.c[c])}
    IN  /\ Is(cl.clients, LAMBDA x : x.open)
        /\ Is(cl.pendingWrite, LAMBDA x : "pending_write" \in x.flags)
        /\ Is(cl.toClose, LAMBDA x : "close_asap" \in x.flags)
        /\ Is(cl.slaves, LAMBDA x : "slave" \in x.flags)
        /\ Is(cl.channels[Channel], LAMBDA x : Channel \in x.chans)
        /\ Is([i \in DOMAIN cl.patterns |-> cl.patterns[i].client], LAMBDA x : Pattern \in x.pats)
        /\ \A c \in ClIds : "pubsub" \in cl.c[c].flags <=> clientSubscriptionsCount(cl.c[c]) > 0

ClientsSound == OutputExact /\ NoStall /\ ListsAgree
=============================================================================
