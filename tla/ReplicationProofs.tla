------------------------- MODULE ReplicationProofs -------------------------
(***************************************************************************)
(* For any servers and any number of writes, role changes, broken links    *)
(* and crashes: the state of a server and that of its link fit each other  *)
(* (LinkStates), a connected replica is in its master's history at the     *)
(* offset it applied, a backlog ends at the offset (HistoryAgrees), and    *)
(* a replica comes to its master's data (ReplicaConverges).                *)
(* The invariant IInv relates each server to its own link only, so a step  *)
(* need not be compared with the servers and links it does not name.       *)
(***************************************************************************)
EXTENDS Replication, FiniteSetTheorems, SequenceTheorems, FunctionTheorems, WellFoundedInduction, TLAPS

\* The sets the parts of the state are taken from.
Ids == 1..Limit.ids
Items == [type : StreamTypes, arg : Int]
DataSets == Seq(Int \X Int)
Rdbs == [data : DataSets, replid : 0..Limit.ids, offset : Nat, stream_db : Int]
Backlogs == [off : Int, items : Seq(Items)]
Masters == [replid : Ids, reploff : Nat, db : Int]
Children == [socket : BOOLEAN, rdb : Rdbs]
Psyncs == [replid : 0..Limit.ids, offset : Int]
Messages == Items \cup [type : {"CONTINUE"}, replid : Ids]
             \cup [type : {"FULLRESYNC"}, replid : Ids, offset : Nat]
             \cup [type : {"RDB"}, rdb : Rdbs] \cup [type : {"ERR", "NOMASTERLINK"}]
ServerTypes ==
    [masterhost : Servers \cup {NoOne}, repl_state : ReplStates, replid : Ids, replid2 : 0..Limit.ids,
     second_replid_offset : Int, master_repl_offset : Nat, backlog : Backlogs \cup {None}, slaveseldb : Int,
     master : Masters \cup {None}, cached_master : Masters \cup {None}, master_replid : 0..Limit.ids,
     master_initial_offset : Int, data : DataSets, rdb_child : Children \cup {None}, dump : Rdbs]
Conns == [to : Servers, psync : Psyncs \cup {None}, replstate : SlaveStates, on_ack : BOOLEAN,
          buf : Seq(Items), init : Nat, rdb : Rdbs, down : Seq(Messages)]

\* What the fields of one server say of each other.
ServerOK(me) ==
    /\ (me.masterhost = NoOne) <=> (me.repl_state = "NONE")
    /\ (me.master # None) <=> (me.repl_state = "CONNECTED")
    /\ me.master # None => me.cached_master = None
    /\ me.masterhost = NoOne => me.cached_master = None
    /\ me.backlog # None => me.backlog.off + Len(me.backlog.items) = me.master_repl_offset + 1
    /\ me.master # None => /\ me.replid = me.master.replid /\ me.master_repl_offset = me.master.reploff
                           /\ me.backlog # None
    /\ me.cached_master # None => /\ me.replid = me.cached_master.replid
                                  /\ me.master_repl_offset = me.cached_master.reploff
    /\ me.repl_state = "TRANSFER" => /\ me.master_replid \in Ids /\ me.master_initial_offset \in Nat
                                     /\ me.backlog = None /\ me.cached_master = None

\* A slave that has nothing to continue from did not ask to, and is not told to.
NoContinue(k) == /\ k.psync # None => k.psync.replid = ZeroId
                 /\ \A i \in 1..Len(k.down) : k.down[i].type # "CONTINUE"

\* A connection nothing was sent on.
Untouched(k) == k.psync = None /\ k.down = <<>> /\ k.replstate \in {"NONE", "CLOSED"}

\* A server and the connection to its master.
LinkOK(k, me) ==
    /\ (k = None) <=> (me.repl_state \in {"NONE", "CONNECT"})
    /\ k # None => k.to = me.masterhost
    /\ me.repl_state = "CONNECTING" => Untouched(k)
    /\ me.repl_state = "RECEIVE_PSYNC" /\ me.cached_master = None => NoContinue(k)

\* None is none of the records.
LEMMA NoneElsewhere ==
    /\ None \notin Backlogs /\ None \notin Masters /\ None \notin Children
    /\ None \notin Psyncs /\ None \notin Conns
<1>1. DOMAIN None = {"none"}
  BY DEF None
<1>2. \A x \in Backlogs : "off" \in DOMAIN x
  BY DEF Backlogs
<1>3. \A x \in Masters : "replid" \in DOMAIN x
  BY DEF Masters
<1>4. \A x \in Children : "rdb" \in DOMAIN x
  BY DEF Children
<1>5. \A x \in Psyncs : "offset" \in DOMAIN x
  BY DEF Psyncs
<1>6. \A x \in Conns : "to" \in DOMAIN x
  BY DEF Conns
<1> QED  BY <1>1, <1>2, <1>3, <1>4, <1>5, <1>6

\* Identifiers are numbers.
LEMMA IdsNat == ASSUME setup \in Setups  PROVE  Limit.ids \in Nat /\ Ids \subseteq 0..Limit.ids
<1>1. setup.max \in [Bounds -> Nat]
  BY ReplicationAssumption DEF Setup
<1> QED  BY <1>1 DEF Limit, Bounds, Ids

\* A server that has just started.
LEMMA StartedOK ==
    ASSUME NEW m \in Servers \cup {NoOne}, NEW file \in Rdbs, NEW id \in Ids, setup \in Setups
    PROVE  /\ Started(m, file, id) \in ServerTypes /\ ServerOK(Started(m, file, id))
           /\ Started(m, file, id).backlog = None
           /\ Started(m, file, id).repl_state = IF m = NoOne THEN "NONE" ELSE "CONNECT"
           /\ Started(m, file, id).masterhost = m
<1> DEFINE me == Started(m, file, id)
           restored == m # NoOne /\ file.stream_db # -1 /\ file.replid # ZeroId
<1>1. /\ file.replid \in 0..Limit.ids /\ file.offset \in Nat /\ file.stream_db \in Int /\ file.data \in DataSets
      /\ restored => file.replid \in Ids
  BY DEF Rdbs, Ids, ZeroId
<1>2. [replid |-> file.replid, reploff |-> file.offset, db |-> file.stream_db] \in Masters \/ ~restored
  BY <1>1 DEF Masters
<1>3. me \in ServerTypes
  BY <1>1, <1>2, IdsNat DEF Started, ServerTypes, ReplStates, ZeroId
<1>4. ServerOK(me)
  BY <1>1, <1>2, NoneElsewhere DEF Started, ServerOK
<1> QED  BY <1>3, <1>4 DEF Started

\* The fields about the master are the same.
Same(r, me) ==
    /\ r.masterhost = me.masterhost /\ r.repl_state = me.repl_state
    /\ r.master = me.master /\ r.cached_master = me.cached_master
    /\ r.master_replid = me.master_replid /\ r.master_initial_offset = me.master_initial_offset

\* The most recent part of a sequence of commands is one.
LEMMA LastOfOK ==
    ASSUME NEW q \in Seq(Items), NEW n \in Nat
    PROVE  LastOf(q, n) \in Seq(Items)
<1> DEFINE a == IF Len(q) > n THEN Len(q) - n + 1 ELSE 1
<1>1. Len(q) \in Nat /\ a \in Int /\ a >= 1
  BY LenProperties
<1>2. \A i \in a..Len(q) : q[i] \in Items
  BY <1>1, ElementOfSeq
<1> HIDE DEF a
<1>3. SubSeq(q, a, Len(q)) \in Seq(Items)
  BY <1>1, <1>2, SubSeqProperties
<1> QED  BY <1>3 DEF LastOf, a

\* feedReplicationBacklog() advances the offset and the backlog together.
LEMMA FeedOK ==
    ASSUME NEW me \in ServerTypes, me.backlog # None, NEW items \in Seq(Items), setup \in Setups
    PROVE  /\ feedReplicationBacklog(me, items) \in ServerTypes
           /\ Same(feedReplicationBacklog(me, items), me)
           /\ feedReplicationBacklog(me, items).replid = me.replid
           /\ feedReplicationBacklog(me, items).data = me.data
           /\ feedReplicationBacklog(me, items).master_repl_offset = me.master_repl_offset + Len(items)
           /\ feedReplicationBacklog(me, items).backlog # None
           /\ feedReplicationBacklog(me, items).backlog.off + Len(feedReplicationBacklog(me, items).backlog.items)
                 = feedReplicationBacklog(me, items).master_repl_offset + 1
<1> DEFINE kept == LastOf(me.backlog.items \o items, BacklogSize)
           end  == me.master_repl_offset + Len(items)
           log  == [off |-> end - Len(kept) + 1, items |-> kept]
           r    == feedReplicationBacklog(me, items)
<1>1. me.backlog \in Backlogs /\ me.backlog.items \in Seq(Items) /\ me.master_repl_offset \in Nat
  BY DEF ServerTypes, Backlogs
<1>2. me.backlog.items \o items \in Seq(Items) /\ Len(items) \in Nat
  BY <1>1, ConcatProperties, LenProperties
<1>3. kept \in Seq(Items) /\ Len(kept) \in Nat /\ end \in Nat
  <2>1. kept \in Seq(Items)
    BY <1>2, LastOfOK, ReplicationAssumption
  <2> QED  BY <2>1, <1>1, <1>2, LenProperties
<1> HIDE DEF kept, end
<1>4. log \in Backlogs
  BY <1>3 DEF Backlogs
<1>5. r = [me EXCEPT !.master_repl_offset = end, !.backlog = log]
  BY DEF feedReplicationBacklog, kept, end
<1> HIDE DEF r
<1>6. r \in ServerTypes
  BY <1>3, <1>4, <1>5 DEF ServerTypes
<1>7. /\ r.master_repl_offset = end /\ r.backlog = log /\ r.replid = me.replid /\ r.data = me.data /\ Same(r, me)
  BY <1>5 DEF ServerTypes, Same
<1>8. r.backlog # None /\ r.backlog.off + Len(r.backlog.items) = end + 1
  BY <1>3, <1>4, <1>7, NoneElsewhere
<1> QED  BY <1>6, <1>7, <1>8 DEF r, end

\* createReplicationBacklog() makes a backlog that ends at the offset.
LEMMA CreateOK ==
    ASSUME NEW me \in ServerTypes
    PROVE  /\ createReplicationBacklog(me) \in ServerTypes
           /\ Same(createReplicationBacklog(me), me)
           /\ createReplicationBacklog(me).replid = me.replid
           /\ createReplicationBacklog(me).master_repl_offset = me.master_repl_offset
           /\ createReplicationBacklog(me).backlog # None
           /\ createReplicationBacklog(me).backlog.off + Len(createReplicationBacklog(me).backlog.items)
                 = createReplicationBacklog(me).master_repl_offset + 1
<1> DEFINE log == [off |-> me.master_repl_offset + 1, items |-> <<>>]
           r   == createReplicationBacklog(me)
<1>1. me.master_repl_offset \in Nat
  BY DEF ServerTypes
<1>2. log \in Backlogs
  BY <1>1, EmptySeq DEF Backlogs
<1>3. log # None
  BY <1>2, NoneElsewhere
<1>4. r = [me EXCEPT !.backlog = log]
  BY DEF createReplicationBacklog
<1> HIDE DEF r
<1>5. r \in ServerTypes
  BY <1>2, <1>4 DEF ServerTypes
<1>6. r.backlog = log /\ r.master_repl_offset = me.master_repl_offset /\ r.replid = me.replid /\ Same(r, me)
  BY <1>4 DEF ServerTypes, Same
<1>7. r.backlog.off + Len(r.backlog.items) = r.master_repl_offset + 1
  BY <1>1, <1>6, EmptySeq
<1> QED  BY <1>3, <1>5, <1>6, <1>7 DEF r

\* What the master's side does to the connection of a replica keeps what the replica knows of it.
KeepsLink(k2, k) ==
    /\ k2 \in Conns \cup {None} /\ (k2 = None <=> k = None)
    /\ k # None => /\ k2.to = k.to
                   /\ Untouched(k) => Untouched(k2)
                   /\ NoContinue(k) => NoContinue(k2)

\* A link that keeps what LinkOK is about still fits its server.
LEMMA LinkKept ==
    ASSUME NEW k, NEW k2, NEW me, NEW me2, KeepsLink(k2, k), LinkOK(k, me),
           me2.masterhost = me.masterhost, me2.repl_state = me.repl_state,
           me2.cached_master = me.cached_master
    PROVE  LinkOK(k2, me2)
BY DEF KeepsLink, LinkOK

\* A link that does not change keeps everything.
LEMMA KeptItself == ASSUME NEW k \in Conns \cup {None}  PROVE  KeepsLink(k, k)
BY DEF KeepsLink


\* No connection becomes a slave.
Serving(k) == k # None /\ k.replstate \notin {"NONE", "CLOSED"}

\* No connection becomes that of a slave.
NoNew(k2, k) == Serving(k2) => Serving(k) /\ k2.to = k.to

\* All connections, one for each server that has a master.
Links == [Servers -> Conns \cup {None}]

\* Replies other than CONTINUE.
Plain == {msg \in Messages : msg.type # "CONTINUE"}

\* The commands of the stream are messages, and not CONTINUE.
LEMMA PlainItems == Items \subseteq Messages /\ Items \subseteq Plain
<1>1. \A x \in Items : x.type # "CONTINUE"
  BY DEF Items, StreamTypes
<1> QED  BY <1>1 DEF Plain, Messages

\* More is sent to a slave, or its request is answered: nothing that the
\* replica knows of the link is lost.
LEMMA LongerKept ==
    ASSUME NEW k \in Conns, NEW k2 \in Conns, NEW more \in Seq(Plain), k2.to = k.to,
           k2.psync = k.psync \/ k2.psync = None, k2.down = k.down \o more, ~Untouched(k)
    PROVE  KeepsLink(k2, k)
<1>1. k # None /\ k2 # None
  BY NoneElsewhere
<1>2. NoContinue(k) => NoContinue(k2)
  <2> SUFFICES ASSUME NoContinue(k)  PROVE NoContinue(k2)
    OBVIOUS
  <2>1. k.down \in Seq(Messages) /\ more \in Seq(Messages)
    BY SeqMonotonic DEF Plain, Conns
  <2>2. Len(k.down) \in Nat /\ Len(more) \in Nat
    BY <2>1, LenProperties
  <2>3. /\ Len(k2.down) = Len(k.down) + Len(more)
        /\ \A i \in 1..Len(k.down) + Len(more) :
             k2.down[i] = IF i <= Len(k.down) THEN k.down[i] ELSE more[i - Len(k.down)]
    BY <2>1, ConcatProperties
  <2>4. \A j \in 1..Len(more) : more[j].type # "CONTINUE"
    BY ElementOfSeq DEF Plain
  <2>5. \A i \in 1..Len(k.down) : k.down[i].type # "CONTINUE"
    BY DEF NoContinue
  <2>6. \A i \in 1..Len(k2.down) : k2.down[i].type # "CONTINUE"
    <3> TAKE i \in 1..Len(k2.down)
    <3>1. CASE i <= Len(k.down)
      BY <3>1, <2>2, <2>3, <2>5
    <3>2. CASE ~(i <= Len(k.down))
      <4>1. i - Len(k.down) \in 1..Len(more)
        BY <3>2, <2>2, <2>3
      <4> QED  BY <4>1, <3>2, <2>2, <2>3, <2>4
    <3> QED  BY <3>1, <3>2
  <2> QED  BY <2>6 DEF NoContinue
<1> QED  BY <1>1, <1>2 DEF KeepsLink

\* freeClient() on a slave.
LEMMA FreedKept ==
    ASSUME NEW k \in Conns
    PROVE  /\ KeepsLink([k EXCEPT !.replstate = "CLOSED", !.buf = <<>>], k)
           /\ ~Serving([k EXCEPT !.replstate = "CLOSED", !.buf = <<>>])
<1> DEFINE k2 == [k EXCEPT !.replstate = "CLOSED", !.buf = <<>>]
<1>1. k2 \in Conns
  BY EmptySeq DEF Conns, SlaveStates
<1>2. k2.to = k.to /\ k2.psync = k.psync /\ k2.down = k.down /\ k2.replstate = "CLOSED"
  BY DEF Conns
<1> HIDE DEF k2
<1> QED  BY <1>1, <1>2, NoneElsewhere DEF KeepsLink, Untouched, NoContinue, Serving, k2

\* Freeing slaves closes their connections and no other.
LEMMA FreeSlavesKept ==
    ASSUME NEW c \in Links, NEW m \in Servers, NEW slaves \in SUBSET SlavesOf(c, m)
    PROVE  /\ FreeSlaves(c, slaves) \in Links
           /\ \A s \in Servers : /\ KeepsLink(FreeSlaves(c, slaves)[s], c[s])
                                 /\ NoNew(FreeSlaves(c, slaves)[s], c[s])
                                 /\ s \in slaves => ~Serving(FreeSlaves(c, slaves)[s])
                                 /\ s \notin slaves => FreeSlaves(c, slaves)[s] = c[s]
<1> DEFINE f == FreeSlaves(c, slaves)
<1>1. \A s \in Servers : f[s] = IF s \in slaves THEN [c[s] EXCEPT !.replstate = "CLOSED", !.buf = <<>>] ELSE c[s]
  BY DEF FreeSlaves
<1>2. f = [s \in Servers |-> f[s]]
  BY DEF FreeSlaves
<1> HIDE DEF f
<1>3. \A s \in Servers : c[s] \in Conns \cup {None} /\ (s \in slaves => c[s] \in Conns)
  BY DEF Links, SlavesOf, IsSlaveOf
<1>4. ASSUME NEW s \in Servers
      PROVE  /\ KeepsLink(f[s], c[s]) /\ NoNew(f[s], c[s])
             /\ s \in slaves => ~Serving(f[s])
             /\ s \notin slaves => f[s] = c[s]
  <2>1. CASE s \in slaves
    BY <2>1, <1>1, <1>3, FreedKept DEF NoNew
  <2>2. CASE s \notin slaves
    BY <2>2, <1>1, <1>3, KeptItself DEF NoNew
  <2> QED  BY <2>1, <2>2
<1>5. f \in Links
  BY <1>2, <1>4 DEF Links, KeepsLink
<1> QED  BY <1>4, <1>5 DEF f

\* disconnectSlaves() leaves a server without slaves.
LEMMA DisconnectKept ==
    ASSUME NEW c \in Links, NEW m \in Servers
    PROVE  /\ DisconnectSlaves(c, m) \in Links
           /\ \A s \in Servers : /\ KeepsLink(DisconnectSlaves(c, m)[s], c[s])
                                 /\ NoNew(DisconnectSlaves(c, m)[s], c[s])
                                 /\ ~IsSlaveOf(DisconnectSlaves(c, m), s, m)
<1> DEFINE slaves == SlavesOf(c, m)
           f == FreeSlaves(c, slaves)
<1>1. /\ f \in Links
      /\ \A s \in Servers : /\ KeepsLink(f[s], c[s]) /\ NoNew(f[s], c[s])
                            /\ s \in slaves => ~Serving(f[s])
                            /\ s \notin slaves => f[s] = c[s]
  BY FreeSlavesKept
<1> HIDE DEF f
<1>2. \A s \in Servers : ~IsSlaveOf(f, s, m)
  BY <1>1 DEF SlavesOf, IsSlaveOf, Serving
<1> QED  BY <1>1, <1>2 DEF DisconnectSlaves, f

\* The stream goes to the buffer or to the socket of each slave.
LEMMA FedKept ==
    ASSUME NEW c \in Links, NEW m \in Servers, NEW items \in Seq(Items)
    PROVE  /\ FeedSlaves(c, m, items) \in Links
           /\ \A s \in Servers : /\ KeepsLink(FeedSlaves(c, m, items)[s], c[s])
                                 /\ NoNew(FeedSlaves(c, m, items)[s], c[s])
<1> DEFINE f == FeedSlaves(c, m, items)
<1>1. \A s \in Servers : f[s] =
        IF ~IsSlaveOf(c, s, m) \/ c[s].replstate = "WAIT_BGSAVE_START" THEN c[s]
        ELSE IF Buffers(c[s]) THEN [c[s] EXCEPT !.buf = @ \o items]
        ELSE [c[s] EXCEPT !.down = @ \o items]
  BY DEF FeedSlaves
<1>2. f = [s \in Servers |-> f[s]]
  BY DEF FeedSlaves
<1> HIDE DEF f
<1>3. items \in Seq(Plain) /\ items \in Seq(Messages)
  BY PlainItems, SeqMonotonic
<1>4. ASSUME NEW s \in Servers  PROVE  KeepsLink(f[s], c[s]) /\ NoNew(f[s], c[s])
  <2> DEFINE k == c[s]
  <2>1. k \in Conns \cup {None}
    BY DEF Links
  <2>2. CASE f[s] = k
    BY <2>1, <2>2, KeptItself DEF NoNew
  <2>3. CASE IsSlaveOf(c, s, m) /\ f[s] = [k EXCEPT !.buf = @ \o items]
    <3>1. k \in Conns /\ ~Untouched(k) /\ Serving(k)
      BY <2>1, <2>3 DEF IsSlaveOf, Untouched, Serving
    <3>2. k.buf \in Seq(Items)
      BY <3>1 DEF Conns
    <3>3. k.buf \o items \in Seq(Items)
      BY <3>2, ConcatProperties
    <3>4. /\ f[s] \in Conns /\ f[s].to = k.to /\ f[s].psync = k.psync /\ f[s].down = k.down
          /\ f[s].replstate = k.replstate
      BY <3>1, <3>3, <2>3 DEF Conns
    <3>5. <<>> \in Seq(Plain) /\ k.down \o <<>> = k.down
      BY <3>1, EmptySeq, ConcatEmptySeq DEF Conns
    <3>6. KeepsLink(f[s], k)
      BY <3>1, <3>4, <3>5, LongerKept
    <3> QED  BY <3>6, <3>4, <3>1 DEF NoNew
  <2>4. CASE IsSlaveOf(c, s, m) /\ f[s] = [k EXCEPT !.down = @ \o items]
    <3>1. k \in Conns /\ ~Untouched(k) /\ Serving(k)
      BY <2>1, <2>4 DEF IsSlaveOf, Untouched, Serving
    <3>2. k.down \in Seq(Messages)
      BY <3>1 DEF Conns
    <3>3. k.down \o items \in Seq(Messages)
      BY <3>2, <1>3, ConcatProperties
    <3>4. /\ f[s] \in Conns /\ f[s].to = k.to /\ f[s].psync = k.psync /\ f[s].down = k.down \o items
          /\ f[s].replstate = k.replstate
      BY <3>1, <3>3, <2>4 DEF Conns
    <3>6. KeepsLink(f[s], k)
      BY <3>1, <3>4, <1>3, LongerKept
    <3> QED  BY <3>6, <3>4, <3>1 DEF NoNew
  <2> QED  BY <1>1, <2>2, <2>3, <2>4
<1>5. f \in Links
  BY <1>2, <1>4 DEF Links, KeepsLink
<1> QED  BY <1>4, <1>5 DEF f

\* The file of a save has the type of one.
LEMMA RdbOfOK == ASSUME NEW me \in ServerTypes, setup \in Setups  PROVE  RdbOf(me) \in Rdbs
<1>1. /\ me.data \in DataSets /\ me.replid \in 0..Limit.ids /\ me.master_repl_offset \in Nat
      /\ me.slaveseldb \in Int /\ me.master \in Masters \cup {None}
  BY IdsNat DEF ServerTypes
<1>2. me.master # None => me.master.db \in Int
  BY <1>1 DEF Masters
<1>3. RdbOf(me).stream_db \in Int
  BY <1>1, <1>2 DEF RdbOf
<1> QED  BY <1>1, <1>3 DEF RdbOf, Rdbs

\* replicationSetupSlaveForFullResync() on a slave, or on one that becomes a slave.
LEMMA SetupKept ==
    ASSUME NEW k \in Conns, NEW me \in ServerTypes, NEW offset \in Nat, setup \in Setups
    PROVE  LET k2 == SetupFullResync(k, me, offset)
           IN  /\ k2 \in Conns /\ k2.to = k.to /\ k2.psync = k.psync /\ k2.buf = k.buf
               /\ k2.replstate = "WAIT_BGSAVE_END"
               /\ \E more \in Seq(Plain) : k2.down = k.down \o more
<1> DEFINE msg == [type |-> "FULLRESYNC", replid |-> me.replid, offset |-> offset]
           k2  == SetupFullResync(k, me, offset)
<1>1. me.replid \in Ids
  BY DEF ServerTypes
<1>2. msg \in Messages /\ msg \in Plain
  BY <1>1 DEF Messages, Plain
<1> HIDE DEF msg
<1>3. k.down \in Seq(Messages)
  BY DEF Conns
<1>4. Append(k.down, msg) \in Seq(Messages) /\ Append(k.down, msg) = k.down \o <<msg>> /\ <<msg>> \in Seq(Plain)
  BY <1>2, <1>3, AppendProperties, AppendIsConcat
<1>5. k2 = [k EXCEPT !.replstate = "WAIT_BGSAVE_END", !.init = offset, !.down = Append(k.down, msg)]
  BY DEF SetupFullResync, msg
<1> HIDE DEF k2
<1>6. /\ k2 \in Conns /\ k2.to = k.to /\ k2.psync = k.psync /\ k2.replstate = "WAIT_BGSAVE_END"
      /\ k2.down = Append(k.down, msg) /\ k2.buf = k.buf
  BY <1>4, <1>5 DEF Conns, SlaveStates
<1> QED  BY <1>4, <1>6 DEF k2

\* A slave that will get the file on its socket.
LEMMA SocketKept ==
    ASSUME NEW k \in Conns, NEW me \in ServerTypes, NEW ok \in BOOLEAN, me.master_repl_offset \in Nat, setup \in Setups
    PROVE  LET k2 == rdbSaveToSlavesSockets(k, me, ok)
           IN  /\ k2 \in Conns /\ k2.to = k.to /\ k2.psync = k.psync
               /\ \E more \in Seq(Plain) : k2.down = k.down \o more
<1> DEFINE told == SetupFullResync(k, me, me.master_repl_offset)
           back == [told EXCEPT !.replstate = "WAIT_BGSAVE_START"]
<1>1. /\ told \in Conns /\ told.to = k.to /\ told.psync = k.psync
      /\ \E more \in Seq(Plain) : told.down = k.down \o more
  BY SetupKept
<1> HIDE DEF told
<1>2. back \in Conns /\ back.to = told.to /\ back.psync = told.psync /\ back.down = told.down
  BY <1>1 DEF Conns, SlaveStates
<1> HIDE DEF back
<1>3. rdbSaveToSlavesSockets(k, me, ok) = IF ok THEN told ELSE back
  BY DEF rdbSaveToSlavesSockets, told, back
<1> QED  BY <1>1, <1>2, <1>3

\* The error reply and the closing that end a failed startBgsaveForReplication().
LEMMA RefuseKept ==
    ASSUME NEW k \in Conns
    PROVE  LET k2 == [k EXCEPT !.replstate = "CLOSED", !.down = Append(@, [type |-> "ERR"])]
           IN  /\ k2 \in Conns /\ k2.to = k.to /\ k2.psync = k.psync /\ ~Serving(k2)
               /\ \E more \in Seq(Plain) : k2.down = k.down \o more
<1> DEFINE msg == [type |-> "ERR"]
           k2  == [k EXCEPT !.replstate = "CLOSED", !.down = Append(k.down, msg)]
<1>2. msg \in Messages /\ msg \in Plain
  BY DEF Messages, Plain
<1> HIDE DEF msg
<1>3. k.down \in Seq(Messages)
  BY DEF Conns
<1>4. Append(k.down, msg) \in Seq(Messages) /\ Append(k.down, msg) = k.down \o <<msg>> /\ <<msg>> \in Seq(Plain)
  BY <1>2, <1>3, AppendProperties, AppendIsConcat
<1>6. /\ k2 \in Conns /\ k2.to = k.to /\ k2.psync = k.psync /\ k2.replstate = "CLOSED"
      /\ k2.down = Append(k.down, msg)
  BY <1>4 DEF Conns, SlaveStates
<1> HIDE DEF k2
<1> QED  BY <1>4, <1>6 DEF k2, msg, Serving

\* Concatenation is associative.
LEMMA ThreeParts ==
    ASSUME NEW a \in Seq(Messages), NEW b \in Seq(Messages), NEW d \in Seq(Messages)
    PROVE  (a \o b) \o d = a \o (b \o d)
BY ConcatAssociative

\* What the connections and the server look like after startBgsaveForReplication().
LEMMA StartKept ==
    ASSUME NEW c \in Links, NEW m \in Servers, NEW me \in ServerTypes, NEW ok \in BOOLEAN, setup \in Setups
    PROVE  LET r == StartBgsave(c, m, me, ok)
           IN  /\ r.c \in Links
               /\ \A s \in Servers : KeepsLink(r.c[s], c[s]) /\ NoNew(r.c[s], c[s])
               /\ r.me \in ServerTypes /\ Same(r.me, me) /\ r.me.replid = me.replid
               /\ r.me.master_repl_offset = me.master_repl_offset /\ r.me.backlog = me.backlog
<1> DEFINE r == StartBgsave(c, m, me, ok)
           waiting == InState(c, m, "WAIT_BGSAVE_START")
           started == ok /\ ~NoSaveInfo(me)
           sockets == setup.diskless /\ ~NoSaveInfo(me)
           Tell(k)   == IF sockets THEN rdbSaveToSlavesSockets(k, me, ok)
                        ELSE IF started THEN SetupFullResync(k, me, me.master_repl_offset) ELSE k
           Refuse(k) == [k EXCEPT !.replstate = "CLOSED", !.down = Append(@, [type |-> "ERR"])]
           child == IF started THEN [socket |-> setup.diskless, rdb |-> RdbOf(me)] ELSE me.rdb_child
           sel   == IF started \/ sockets THEN -1 ELSE me.slaveseldb
<1>1. r.me = [me EXCEPT !.rdb_child = child, !.slaveseldb = sel]
  BY DEF StartBgsave
<1>2. \A s \in Servers : r.c[s] = IF s \notin waiting THEN c[s]
                                  ELSE IF started THEN Tell(c[s]) ELSE Refuse(Tell(c[s]))
  BY DEF StartBgsave
<1>3. r.c = [s \in Servers |-> r.c[s]]
  BY DEF StartBgsave
<1> HIDE DEF r
<1>4. setup.diskless \in BOOLEAN
  BY ReplicationAssumption DEF Setup
<1>5. child \in Children \cup {None} /\ sel \in Int
  BY <1>4, RdbOfOK DEF Children, ServerTypes
<1>6. me.master_repl_offset \in Nat
  BY DEF ServerTypes
<1> HIDE DEF child, sel
<1>7. r.me \in ServerTypes
  BY <1>1, <1>5 DEF ServerTypes
<1>8. /\ Same(r.me, me) /\ r.me.replid = me.replid
      /\ r.me.master_repl_offset = me.master_repl_offset /\ r.me.backlog = me.backlog
  BY <1>1 DEF ServerTypes, Same
<1>9. ASSUME NEW s \in Servers  PROVE  KeepsLink(r.c[s], c[s]) /\ NoNew(r.c[s], c[s])
  <2> DEFINE k == c[s]
  <2>1. k \in Conns \cup {None}
    BY DEF Links
  <2>2. CASE s \notin waiting
    BY <2>1, <2>2, <1>2, KeptItself DEF NoNew
  <2>3. CASE s \in waiting
    <3>1. k \in Conns /\ ~Untouched(k) /\ Serving(k)
      BY <2>1, <2>3 DEF InState, SlavesOf, IsSlaveOf, Untouched, Serving
    <3>2. r.c[s] = IF started THEN Tell(k) ELSE Refuse(Tell(k))
      BY <2>3, <1>2
    <3>3. /\ Tell(k) \in Conns /\ Tell(k).to = k.to /\ Tell(k).psync = k.psync
          /\ \E more \in Seq(Plain) : Tell(k).down = k.down \o more
      <4>1. CASE sockets
        BY <4>1, <3>1, <1>6, SocketKept
      <4>3. CASE ~sockets /\ started
        BY <4>3, <3>1, <1>6, SetupKept
      <4>2. CASE ~sockets /\ ~started
        <5>1. <<>> \in Seq(Plain) /\ k.down \o <<>> = k.down
          BY <3>1, EmptySeq, ConcatEmptySeq DEF Conns
        <5> QED  BY <4>2, <3>1, <5>1
      <4> QED  BY <4>1, <4>2, <4>3
    <3> HIDE DEF Tell
    <3>4. PICK more \in Seq(Plain) : Tell(k).down = k.down \o more
      BY <3>3
    <3>5. /\ Refuse(Tell(k)) \in Conns /\ Refuse(Tell(k)).to = k.to /\ Refuse(Tell(k)).psync = k.psync
          /\ \E more2 \in Seq(Plain) : Refuse(Tell(k)).down = Tell(k).down \o more2
      BY <3>3, RefuseKept
    <3> HIDE DEF Refuse
    <3>6. PICK more2 \in Seq(Plain) : Refuse(Tell(k)).down = Tell(k).down \o more2
      BY <3>5
    <3>7. /\ more \o more2 \in Seq(Plain) /\ Refuse(Tell(k)).down = k.down \o (more \o more2)
      <4>1. more \o more2 \in Seq(Plain)
        BY ConcatProperties
      <4>2. k.down \in Seq(Messages) /\ more \in Seq(Messages) /\ more2 \in Seq(Messages)
        BY <3>1, SeqMonotonic DEF Conns, Plain
      <4>3. (k.down \o more) \o more2 = k.down \o (more \o more2)
        BY <4>2, ThreeParts
      <4> QED  BY <4>1, <4>3, <3>4, <3>6
    <3>8. KeepsLink(Tell(k), k) /\ KeepsLink(Refuse(Tell(k)), k)
      <4>1. KeepsLink(Tell(k), k)
        BY <3>1, <3>3, <3>4, LongerKept
      <4>2. KeepsLink(Refuse(Tell(k)), k)
        BY <3>1, <3>5, <3>7, LongerKept
      <4> QED  BY <4>1, <4>2
    <3> QED  BY <3>1, <3>2, <3>3, <3>5, <3>8 DEF NoNew
  <2> QED  BY <2>2, <2>3
<1>10. r.c \in Links
  BY <1>3, <1>9 DEF Links, KeepsLink
<1> QED  BY <1>7, <1>8, <1>9, <1>10 DEF r

-----------------------------------------------------------------------------
(* The inductive invariant. *)

\* How much of each bound is used.
Useds == [writes : Nat, pings : Nat, ids : Nat, roles : Nat, breaks : Nat, saves : Nat, crashes : Nat]

\* A server with slaves has a backlog.
SlavesHaveBacklog == \A s, m \in Servers : IsSlaveOf(conn, s, m) => srv[m].backlog # None

\* The inductive invariant.
IInv ==
    /\ setup \in Setups /\ used \in Useds
    /\ srv \in [Servers -> ServerTypes] /\ conn \in Links
    /\ \A s \in Servers : ServerOK(srv[s]) /\ LinkOK(conn[s], srv[s])
    /\ SlavesHaveBacklog

\* The sets that depend on the setup do not change.
LEMMA SetsStay ==
    ASSUME setup' = setup
    PROVE  /\ Servers' = Servers /\ Limit' = Limit /\ Ids' = Ids /\ ServerTypes' = ServerTypes
           /\ Conns' = Conns /\ Links' = Links
<1>1. Servers' = Servers /\ Limit' = Limit
  BY DEF Servers, Limit
<1>2. Ids' = Ids /\ Rdbs' = Rdbs /\ Masters' = Masters /\ Psyncs' = Psyncs
  BY <1>1 DEF Ids, Rdbs, Masters, Psyncs
<1>3. Messages' = Messages /\ Children' = Children
  BY <1>2 DEF Messages, Children
<1>4. ServerTypes' = ServerTypes
  BY <1>1, <1>2, <1>3 DEF ServerTypes
<1>5. Conns' = Conns
  BY <1>1, <1>2, <1>3 DEF Conns
<1> QED  BY <1>1, <1>2, <1>4, <1>5 DEF Links

\* One server and connections change: what has to be shown of them.
LEMMA StepOK ==
    ASSUME IInv, setup' = setup, used' \in Useds,
           NEW x \in Servers, NEW me \in ServerTypes, ServerOK(me), srv' = [srv EXCEPT ![x] = me],
           conn' \in Links, LinkOK(conn'[x], me),
           \A t \in Servers \ {x} : KeepsLink(conn'[t], conn[t]),
           \A t \in Servers : Serving(conn'[t]) /\ conn'[t].to # x => Serving(conn[t]) /\ conn[t].to = conn'[t].to,
           me.backlog = None => \A t \in Servers : ~IsSlaveOf(conn', t, x)
    PROVE  IInv'
<1> USE SetsStay
<1>1. setup' \in Setups /\ used' \in Useds /\ conn' \in Links
  BY DEF IInv
<1>2. srv' \in [Servers -> ServerTypes]
  BY DEF IInv
<1>3. ASSUME NEW t \in Servers  PROVE ServerOK(srv'[t]) /\ LinkOK(conn'[t], srv'[t])
  <2>1. CASE t = x
    BY <2>1 DEF IInv
  <2>2. CASE t # x
    <3>1. srv'[t] = srv[t] /\ ServerOK(srv[t]) /\ LinkOK(conn[t], srv[t])
      BY <2>2 DEF IInv
    <3>2. KeepsLink(conn'[t], conn[t])
      BY <2>2
    <3> QED  BY <3>1, <3>2, LinkKept
  <2> QED  BY <2>1, <2>2
<1>4. \A t \in Servers : ServerOK(srv[t])' /\ LinkOK(conn[t], srv[t])'
  BY <1>3 DEF ServerOK, LinkOK, NoContinue, Untouched
<1>5. ASSUME NEW s \in Servers, NEW m \in Servers, IsSlaveOf(conn', s, m)  PROVE  srv'[m].backlog # None
  <2>1. CASE m = x
    BY <2>1, <1>5 DEF IInv
  <2>2. CASE m # x
    <3>1. Serving(conn'[s]) /\ conn'[s].to = m
      BY <1>5 DEF IsSlaveOf, Serving
    <3>2. Serving(conn[s]) /\ conn[s].to = m
      BY <2>2, <3>1
    <3> QED  BY <2>2, <3>2 DEF IInv, SlavesHaveBacklog, IsSlaveOf, Serving
  <2> QED  BY <2>1, <2>2
<1>6. SlavesHaveBacklog'
  BY <1>5 DEF SlavesHaveBacklog, IsSlaveOf
<1> QED  BY <1>1, <1>2, <1>4, <1>6 DEF IInv

\* A server only acts as a master: its own link is not concerned.
LEMMA MasterStepOK ==
    ASSUME IInv, setup' = setup, used' \in Useds,
           NEW x \in Servers, NEW me \in ServerTypes, ServerOK(me), srv' = [srv EXCEPT ![x] = me],
           me.masterhost = srv[x].masterhost, me.repl_state = srv[x].repl_state,
           me.cached_master = srv[x].cached_master,
           conn' \in Links,
           \A t \in Servers : KeepsLink(conn'[t], conn[t]),
           \A t \in Servers : Serving(conn'[t]) /\ conn'[t].to # x => Serving(conn[t]) /\ conn[t].to = conn'[t].to,
           me.backlog = None => \A t \in Servers : ~IsSlaveOf(conn', t, x)
    PROVE  IInv'
<1>1. LinkOK(conn'[x], me)
  BY LinkKept DEF IInv
<1> QED  BY <1>1, StepOK

-----------------------------------------------------------------------------
(* The actions of a master. *)

\* A failure counted.
LEMMA UsedFails == ASSUME NEW u \in Useds, NEW ok  PROVE  Failed(u, ok) \in Useds
BY DEF Failed, Useds

\* Two counts set.
LEMMA UsedSet ==
    ASSUME NEW u \in Useds, NEW a \in Nat, NEW b \in Nat
    PROVE  [u EXCEPT !.ids = a, !.roles = b] \in Useds /\ [u EXCEPT !.ids = a, !.crashes = b] \in Useds
BY DEF Useds

\* A server that differs in nothing its invariant speaks of.
LEMMA SameOK ==
    ASSUME NEW me, NEW r, ServerOK(me), Same(r, me), r.replid = me.replid,
           r.master_repl_offset = me.master_repl_offset, r.backlog = me.backlog
    PROVE  ServerOK(r)
BY DEF ServerOK, Same

\* A master feeds its own backlog.
LEMMA StreamOK ==
    ASSUME NEW me \in ServerTypes, ServerOK(me), me.masterhost = NoOne, NEW items \in Seq(Items), NEW db \in Int,
           setup \in Setups
    PROVE  LET r == replicationFeedSlaves(me, db, items)
           IN  /\ r \in ServerTypes /\ ServerOK(r) /\ Same(r, me)
               /\ r.data = me.data /\ (r.backlog = None <=> me.backlog = None)
<1> DEFINE r == replicationFeedSlaves(me, db, items)
<1>1. CASE me.backlog = None
  BY <1>1 DEF replicationFeedSlaves, Same
<1>2. CASE me.backlog # None
  <2> DEFINE f == feedReplicationBacklog(me, items)
  <2>1. /\ f \in ServerTypes /\ Same(f, me) /\ f.data = me.data /\ f.backlog # None
        /\ f.backlog.off + Len(f.backlog.items) = f.master_repl_offset + 1
    BY <1>2, FeedOK
  <2>2. r = [f EXCEPT !.slaveseldb = db]
    BY <1>2 DEF replicationFeedSlaves
  <2> HIDE DEF f, r
  <2>3. /\ r \in ServerTypes /\ Same(r, f) /\ r.data = f.data /\ r.backlog = f.backlog
        /\ r.master_repl_offset = f.master_repl_offset
    BY <2>1, <2>2 DEF ServerTypes, Same
  <2>4. me.master = None /\ me.cached_master = None /\ me.repl_state = "NONE"
    BY DEF ServerOK
  <2>5. ServerOK(r)
    BY <2>1, <2>3, <2>4 DEF ServerOK, Same
  <2> QED  BY <1>2, <2>1, <2>3, <2>5 DEF Same, r
<1> QED  BY <1>1, <1>2

\* Write() keeps the invariant.
LEMMA WriteOK ==
    ASSUME IInv, setup' = setup, NEW m \in Servers, NEW db \in setup.dbs, Write(m, db)
    PROVE  IInv'
<1> DEFINE v     == used.writes + 1
           items == WithSelect(srv[m], db, <<WriteCmd(v)>>)
           fed   == replicationFeedSlaves(srv[m], db, items)
           me    == [fed EXCEPT !.data = Append(@, <<db, v>>)]
<1>1. /\ srv[m] \in ServerTypes /\ ServerOK(srv[m]) /\ srv[m].masterhost = NoOne /\ used.writes \in Nat
      /\ used' \in Useds
  BY DEF Write, IInv, Useds
<1>2. db \in Int /\ v \in Int
  <2>1. setup \in Setup
    BY ReplicationAssumption DEF IInv
  <2>2. setup.dbs \subseteq Nat
    BY <2>1 DEF Setup
  <2> QED  BY <1>1, <2>2
<1> HIDE DEF v
<1>3. items \in Seq(Items)
  <2>1. WriteCmd(v) \in Items /\ Select(db) \in Items
    BY <1>2 DEF WriteCmd, Select, Items, StreamTypes
  <2>2. <<WriteCmd(v)>> \in Seq(Items) /\ <<Select(db)>> \in Seq(Items)
    BY <2>1
  <2>3. <<Select(db)>> \o <<WriteCmd(v)>> \in Seq(Items)
    BY <2>2, ConcatProperties
  <2> QED  BY <2>2, <2>3 DEF WithSelect
<1>4. srv' = [srv EXCEPT ![m] = me] /\ conn' = FeedSlaves(conn, m, items)
  BY DEF Write, v
<1> HIDE DEF items
<1>5. /\ fed \in ServerTypes /\ ServerOK(fed) /\ Same(fed, srv[m])
      /\ fed.data = srv[m].data /\ (fed.backlog = None <=> srv[m].backlog = None)
  BY <1>1, <1>2, <1>3, StreamOK DEF IInv
<1> HIDE DEF fed
<1>6. Append(fed.data, <<db, v>>) \in DataSets
  BY <1>2, <1>5, AppendProperties DEF ServerTypes, DataSets
<1>7. /\ me \in ServerTypes /\ Same(me, fed) /\ me.replid = fed.replid
      /\ me.master_repl_offset = fed.master_repl_offset /\ me.backlog = fed.backlog
  BY <1>5, <1>6 DEF ServerTypes, Same
<1> HIDE DEF me
<1>8. ServerOK(me)
  BY <1>5, <1>7, SameOK
<1>9. conn' \in Links /\ \A t \in Servers : KeepsLink(conn'[t], conn[t]) /\ NoNew(conn'[t], conn[t])
  BY <1>3, <1>4, FedKept DEF IInv
<1>10. me.backlog = None => \A t \in Servers : ~IsSlaveOf(conn', t, m)
  BY <1>5, <1>7, <1>9 DEF IInv, SlavesHaveBacklog, IsSlaveOf, NoNew, Serving
<1> QED  BY <1>1, <1>4, <1>5, <1>7, <1>8, <1>9, <1>10, MasterStepOK DEF Same, NoNew

\* Ping() keeps the invariant.
LEMMA PingOK ==
    ASSUME IInv, setup' = setup, NEW m \in Servers, Ping(m)
    PROVE  IInv'
<1> DEFINE items == <<PingCmd>>
           db == srv[m].slaveseldb
           me == replicationFeedSlaves(srv[m], db, items)
<1>1. /\ srv[m] \in ServerTypes /\ ServerOK(srv[m]) /\ srv[m].masterhost = NoOne
      /\ used' \in Useds
  BY DEF Ping, IInv, Useds
<1>2. db \in Int
  BY <1>1 DEF ServerTypes
<1>3. items \in Seq(Items)
  <2>1. PingCmd \in Items
    BY DEF PingCmd, Items, StreamTypes
  <2> QED  BY <2>1
<1>4. srv' = [srv EXCEPT ![m] = me] /\ conn' = FeedSlaves(conn, m, items)
  BY DEF Ping
<1> HIDE DEF items, db
<1>5. /\ me \in ServerTypes /\ ServerOK(me) /\ Same(me, srv[m])
      /\ (me.backlog = None <=> srv[m].backlog = None)
  BY <1>1, <1>2, <1>3, StreamOK DEF IInv
<1> HIDE DEF me
<1>9. conn' \in Links /\ \A t \in Servers : KeepsLink(conn'[t], conn[t]) /\ NoNew(conn'[t], conn[t])
  BY <1>3, <1>4, FedKept DEF IInv
<1>10. me.backlog = None => \A t \in Servers : ~IsSlaveOf(conn', t, m)
  BY <1>5, <1>9 DEF IInv, SlavesHaveBacklog, IsSlaveOf, NoNew, Serving
<1> QED  BY <1>1, <1>4, <1>5, <1>9, <1>10, MasterStepOK DEF Same, NoNew

\* CronBgsave() keeps the invariant.
LEMMA CronBgsaveOK ==
    ASSUME IInv, setup' = setup, NEW m \in Servers, NEW ok \in BOOLEAN, CronBgsave(m, ok)
    PROVE  IInv'
<1> DEFINE r == StartBgsave(conn, m, srv[m], ok)
<1>1. srv[m] \in ServerTypes /\ ServerOK(srv[m]) /\ used' \in Useds /\ setup \in Setups /\ conn \in Links
  BY UsedFails DEF CronBgsave, IInv
<1>2. conn' = r.c /\ srv' = [srv EXCEPT ![m] = r.me]
  BY DEF CronBgsave
<1>3. /\ r.c \in Links
      /\ \A s \in Servers : KeepsLink(r.c[s], conn[s]) /\ NoNew(r.c[s], conn[s])
      /\ r.me \in ServerTypes /\ Same(r.me, srv[m]) /\ r.me.replid = srv[m].replid
      /\ r.me.master_repl_offset = srv[m].master_repl_offset /\ r.me.backlog = srv[m].backlog
  BY <1>1, StartKept
<1> HIDE DEF r
<1>4. ServerOK(r.me)
  BY <1>1, <1>3, SameOK
<1>5. r.me.backlog = None => \A t \in Servers : ~IsSlaveOf(conn', t, m)
  BY <1>2, <1>3 DEF IInv, SlavesHaveBacklog, IsSlaveOf, NoNew, Serving
<1> QED  BY <1>1, <1>2, <1>3, <1>4, <1>5, MasterStepOK DEF Same, NoNew

\* A background save starts.
LEMMA SaveOK ==
    ASSUME IInv, setup' = setup, NEW m \in Servers, NEW rdb \in Rdbs, SaveInBackground(m, rdb)
    PROVE  IInv'
<1> DEFINE child == [socket |-> FALSE, rdb |-> rdb]
           me == [srv[m] EXCEPT !.rdb_child = child]
<1>1. srv[m] \in ServerTypes /\ ServerOK(srv[m]) /\ used' \in Useds /\ conn' = conn /\ conn \in Links
  BY DEF SaveInBackground, IInv, Useds
<1>2. srv' = [srv EXCEPT ![m] = me]
  BY DEF SaveInBackground
<1>3. child \in Children
  BY DEF Children
<1> HIDE DEF child
<1>4. /\ me \in ServerTypes /\ Same(me, srv[m]) /\ me.replid = srv[m].replid
      /\ me.master_repl_offset = srv[m].master_repl_offset /\ me.backlog = srv[m].backlog
  BY <1>1, <1>3 DEF ServerTypes, Same
<1> HIDE DEF me
<1>5. ServerOK(me)
  BY <1>1, <1>4, SameOK
<1>6. \A t \in Servers : KeepsLink(conn[t], conn[t])
  BY <1>1, KeptItself DEF Links
<1>7. me.backlog = None => \A t \in Servers : ~IsSlaveOf(conn', t, m)
  BY <1>1, <1>4 DEF IInv, SlavesHaveBacklog
<1> QED  BY <1>1, <1>2, <1>4, <1>5, <1>6, <1>7, MasterStepOK DEF Same

\* The empty data set is an RDB file.
LEMMA EmptyRdbOK == ASSUME setup \in Setups  PROVE EmptyRdb \in Rdbs
BY IdsNat, EmptySeq DEF EmptyRdb, Rdbs, DataSets, ZeroId

\* Save points and BGSAVE keep the invariant.
LEMMA SavesOK ==
    ASSUME IInv, setup' = setup, NEW m \in Servers, SavePoint(m) \/ bgsaveCommand(m)
    PROVE  IInv'
<1>1. srv[m] \in ServerTypes /\ setup \in Setups /\ srv[m].data \in DataSets
  BY DEF IInv, ServerTypes
<1>2. CASE SavePoint(m)
  BY <1>1, <1>2, RdbOfOK, SaveOK DEF SavePoint
<1>3. CASE bgsaveCommand(m)
  <2>1. [EmptyRdb EXCEPT !.data = srv[m].data] \in Rdbs
    BY <1>1, EmptyRdbOK DEF Rdbs
  <2> QED  BY <1>3, <2>1, SaveOK DEF bgsaveCommand
<1> QED  BY <1>2, <1>3

\* FreeBacklog() keeps the invariant.
LEMMA FreeBacklogOK ==
    ASSUME IInv, setup' = setup, NEW m \in Servers, FreeBacklog(m)
    PROVE  IInv'
<1> DEFINE me == [srv[m] EXCEPT !.backlog = None]
<1>1. srv[m] \in ServerTypes /\ ServerOK(srv[m]) /\ used' \in Useds /\ conn' = conn /\ conn \in Links
  BY DEF FreeBacklog, IInv
<1>2. srv' = [srv EXCEPT ![m] = me] /\ srv[m].masterhost = NoOne /\ SlavesOf(conn, m) = {}
  BY DEF FreeBacklog
<1>4. /\ me \in ServerTypes /\ Same(me, srv[m]) /\ me.backlog = None
  BY <1>1 DEF ServerTypes, Same
<1> HIDE DEF me
<1>5. ServerOK(me)
  BY <1>1, <1>2, <1>4 DEF ServerOK, Same
<1>6. \A t \in Servers : KeepsLink(conn[t], conn[t])
  BY <1>1, KeptItself DEF Links
<1>7. \A t \in Servers : ~IsSlaveOf(conn', t, m)
  BY <1>1, <1>2 DEF SlavesOf
<1> QED  BY <1>1, <1>2, <1>4, <1>5, <1>6, <1>7, MasterStepOK DEF Same

\* Two changes in a row that keep a link keep it.
LEMMA KeepsTransitive ==
    ASSUME NEW a, NEW b, NEW d, KeepsLink(b, a), KeepsLink(d, b), NoNew(b, a), NoNew(d, b)
    PROVE  KeepsLink(d, a) /\ NoNew(d, a)
BY DEF KeepsLink, NoNew

\* A slave has got the file, or will be sent it.
LEMMA ServedKept ==
    ASSUME NEW k \in Conns, Serving(k), NEW child \in Children
    PROVE  LET k1 == [k EXCEPT !.down = Append(@, [type |-> "RDB", rdb |-> child.rdb])]
           IN  /\ child.socket => /\ KeepsLink(updateSlavesWaitingBgsave(k1, child), k)
                                  /\ NoNew(updateSlavesWaitingBgsave(k1, child), k)
               /\ ~child.socket => /\ KeepsLink(updateSlavesWaitingBgsave(k, child), k)
                                   /\ NoNew(updateSlavesWaitingBgsave(k, child), k)
<1> DEFINE rdb == child.rdb
           msg == [type |-> "RDB", rdb |-> rdb]
           k1  == [k EXCEPT !.down = Append(k.down, msg)]
           k2  == [k1 EXCEPT !.replstate = "ONLINE", !.on_ack = TRUE]
           k3  == [k EXCEPT !.replstate = "SEND_BULK", !.rdb = rdb]
<1>1. rdb \in Rdbs
  BY DEF Children
<1>2. msg \in Messages /\ msg \in Plain
  BY <1>1 DEF Messages, Plain
<1> HIDE DEF msg
<1>3. k.down \in Seq(Messages) /\ ~Untouched(k)
  BY DEF Conns, Serving, Untouched
<1>4. Append(k.down, msg) \in Seq(Messages) /\ Append(k.down, msg) = k.down \o <<msg>> /\ <<msg>> \in Seq(Plain)
  BY <1>2, <1>3, AppendProperties, AppendIsConcat
<1>5. <<>> \in Seq(Plain) /\ k.down \o <<>> = k.down
  BY <1>3, EmptySeq, ConcatEmptySeq
<1>6. k1 \in Conns /\ k1.to = k.to /\ k1.psync = k.psync /\ k1.down = Append(k.down, msg)
  BY <1>4 DEF Conns
<1> HIDE DEF k1
<1>7. k2 \in Conns /\ k2.to = k1.to /\ k2.psync = k1.psync /\ k2.down = k1.down
  BY <1>6 DEF Conns, SlaveStates
<1>8. k3 \in Conns /\ k3.to = k.to /\ k3.psync = k.psync /\ k3.down = k.down
  BY <1>1 DEF Conns, SlaveStates
<1>9. (child.socket => updateSlavesWaitingBgsave(k1, child) = k2)
      /\ (~child.socket => updateSlavesWaitingBgsave(k, child) = k3)
  BY DEF updateSlavesWaitingBgsave
<1> HIDE DEF k2, k3
<1>10. KeepsLink(k2, k)
  BY <1>3, <1>4, <1>6, <1>7, LongerKept
<1>11. KeepsLink(k3, k)
  BY <1>3, <1>5, <1>8, LongerKept
<1>12. NoNew(k2, k) /\ NoNew(k3, k)
  BY <1>6, <1>7, <1>8 DEF NoNew
<1> QED  BY <1>9, <1>10, <1>11, <1>12 DEF k1, msg

\* BgsaveDone() keeps the invariant.
LEMMA BgsaveDoneOK ==
    ASSUME IInv, setup' = setup, NEW m \in Servers, NEW ok \in BOOLEAN, BgsaveDone(m, ok)
    PROVE  IInv'
<1> DEFINE child  == srv[m].rdb_child
           ended  == InState(conn, m, "WAIT_BGSAVE_END")
           dump   == IF ok /\ ~child.socket THEN child.rdb ELSE srv[m].dump
           me     == [srv[m] EXCEPT !.rdb_child = None, !.dump = dump]
           Sent(served) == IF child.socket THEN backgroundSaveDoneHandlerSocket(conn, ended, served, child.rdb)
                           ELSE FreeSlaves(conn, ended \ served)
           C(served) == [s \in Servers |-> IF s \in served THEN updateSlavesWaitingBgsave(Sent(served)[s], child)
                                           ELSE Sent(served)[s]]
<1>1. PICK served \in SUBSET ended :
        /\ used' = Failed(used, served = ended /\ ok)
        /\ \/ conn' = C(served) /\ srv' = [srv EXCEPT ![m] = me]
           \/ /\ conn' = StartBgsave(C(served), m, me, TRUE).c
              /\ srv' = [srv EXCEPT ![m] = StartBgsave(C(served), m, me, TRUE).me]
  BY DEF BgsaveDone
<1> DEFINE sent == Sent(served)
           c == C(served)
           r == StartBgsave(c, m, me, TRUE)
<1>2. /\ srv[m] \in ServerTypes /\ ServerOK(srv[m]) /\ used' \in Useds /\ setup \in Setups /\ conn \in Links
      /\ child \in Children
  BY <1>1, UsedFails DEF BgsaveDone, IInv, ServerTypes
<1>3. child.rdb \in Rdbs /\ child.socket \in BOOLEAN /\ dump \in Rdbs
  BY <1>2 DEF Children, ServerTypes
<1>4. \A s \in Servers : c[s] = IF s \in served THEN updateSlavesWaitingBgsave(sent[s], child) ELSE sent[s]
  OBVIOUS
<1>5. c = [s \in Servers |-> c[s]]
  OBVIOUS
<1> HIDE DEF dump, c, sent
<1>6. /\ me \in ServerTypes /\ Same(me, srv[m]) /\ me.replid = srv[m].replid
      /\ me.master_repl_offset = srv[m].master_repl_offset /\ me.backlog = srv[m].backlog
  BY <1>2, <1>3 DEF ServerTypes, Same
<1> HIDE DEF me
<1>7. ended \in SUBSET SlavesOf(conn, m) /\ \A s \in ended : s \in Servers /\ Serving(conn[s]) /\ conn[s] \in Conns
  BY <1>2 DEF InState, SlavesOf, IsSlaveOf, Serving, Links
<1>8. ASSUME NEW s \in Servers  PROVE KeepsLink(c[s], conn[s]) /\ NoNew(c[s], conn[s])
  <2> DEFINE k  == conn[s]
             k1 == [k EXCEPT !.down = Append(@, [type |-> "RDB", rdb |-> child.rdb])]
  <2>1. CASE s \in served
    <3>1. k \in Conns /\ Serving(k)
      BY <2>1, <1>7
    <3>2. /\ child.socket => /\ KeepsLink(updateSlavesWaitingBgsave(k1, child), k)
                             /\ NoNew(updateSlavesWaitingBgsave(k1, child), k)
          /\ ~child.socket => /\ KeepsLink(updateSlavesWaitingBgsave(k, child), k)
                              /\ NoNew(updateSlavesWaitingBgsave(k, child), k)
      BY <3>1, <1>2, ServedKept
    <3>3. /\ child.socket => sent[s] = k1
          /\ ~child.socket => sent[s] = k
      BY <2>1 DEF sent, backgroundSaveDoneHandlerSocket, FreeSlaves
    <3> QED  BY <2>1, <1>3, <1>4, <3>2, <3>3
  <2>2. CASE s \notin served
    <3>1. sent[s] = FreeSlaves(conn, ended)[s]
      BY <2>2 DEF sent, backgroundSaveDoneHandlerSocket, FreeSlaves
    <3> QED  BY <2>2, <3>1, <1>4, <1>2, <1>7, FreeSlavesKept
  <2> QED  BY <2>1, <2>2
<1>9. c \in Links
  BY <1>5, <1>8 DEF Links, KeepsLink
<1>10. \/ conn' = c /\ srv' = [srv EXCEPT ![m] = me]
       \/ conn' = r.c /\ srv' = [srv EXCEPT ![m] = r.me]
  BY <1>1 DEF c
<1>11. /\ r.c \in Links
       /\ \A s \in Servers : KeepsLink(r.c[s], c[s]) /\ NoNew(r.c[s], c[s])
       /\ r.me \in ServerTypes /\ Same(r.me, me) /\ r.me.replid = me.replid
       /\ r.me.master_repl_offset = me.master_repl_offset /\ r.me.backlog = me.backlog
  BY <1>2, <1>6, <1>9, StartKept
<1> HIDE DEF r
<1>12. \A s \in Servers : KeepsLink(r.c[s], conn[s]) /\ NoNew(r.c[s], conn[s])
  BY <1>8, <1>11, KeepsTransitive
<1>13. ServerOK(me) /\ ServerOK(r.me)
  BY <1>2, <1>6, <1>11, SameOK
<1>14. CASE conn' = c /\ srv' = [srv EXCEPT ![m] = me]
  <2>1. me.backlog = None => \A t \in Servers : ~IsSlaveOf(conn', t, m)
    BY <1>14, <1>6, <1>8 DEF IInv, SlavesHaveBacklog, IsSlaveOf, NoNew, Serving
  <2> QED  BY <2>1, <1>14, <1>2, <1>6, <1>8, <1>9, <1>13, MasterStepOK DEF Same, NoNew
<1>15. CASE conn' = r.c /\ srv' = [srv EXCEPT ![m] = r.me]
  <2>1. r.me.backlog = None => \A t \in Servers : ~IsSlaveOf(conn', t, m)
    BY <1>15, <1>6, <1>11, <1>12 DEF IInv, SlavesHaveBacklog, IsSlaveOf, NoNew, Serving
  <2> QED  BY <2>1, <1>15, <1>2, <1>6, <1>11, <1>12, <1>13, MasterStepOK DEF Same, NoNew
<1> QED  BY <1>10, <1>14, <1>15

-----------------------------------------------------------------------------
(* The actions of a master on one of its links. *)

\* A step that changes one link, and no server, keeps the invariant.
LEMMA LinkStepOK ==
    ASSUME IInv, setup' = setup, used' \in Useds, srv' = srv,
           NEW s \in Servers, conn[s] # None, NEW k \in Conns, conn' = [conn EXCEPT ![s] = k],
           KeepsLink(k, conn[s]), Serving(k) => Serving(conn[s]) \/ srv[conn[s].to].backlog # None
    PROVE  IInv'
<1> DEFINE x == conn[s].to
<1>1. conn \in Links /\ srv \in [Servers -> ServerTypes] /\ conn[s] \in Conns /\ x \in Servers
  BY DEF IInv, Links, Conns
<1>2. k.to = x
  BY <1>1 DEF KeepsLink
<1> HIDE DEF x
<1>3. srv' = [srv EXCEPT ![x] = srv[x]] /\ srv[x] \in ServerTypes /\ ServerOK(srv[x])
  BY <1>1 DEF IInv
<1>4. /\ conn' \in Links
      /\ \A t \in Servers : conn'[t] = IF t = s THEN k ELSE conn[t]
  BY <1>1 DEF Links
<1>5. \A t \in Servers : KeepsLink(conn'[t], conn[t])
  BY <1>1, <1>4, KeptItself DEF Links
<1>6. srv[x].backlog = None => \A t \in Servers : ~IsSlaveOf(conn', t, x)
  BY <1>1, <1>2, <1>4 DEF IInv, SlavesHaveBacklog, IsSlaveOf, Serving, x
<1>7. \A t \in Servers : Serving(conn'[t]) /\ conn'[t].to # x => Serving(conn[t]) /\ conn[t].to = conn'[t].to
  BY <1>2, <1>4
<1> QED  BY <1>1, <1>3, <1>4, <1>5, <1>6, <1>7, MasterStepOK

\* RefusePsync() keeps the invariant.
LEMMA RefusePsyncOK ==
    ASSUME IInv, setup' = setup, NEW s \in Servers, RefusePsync(s)
    PROVE  IInv'
<1> DEFINE msg == [type |-> "NOMASTERLINK"]
           k   == conn[s]
           k2  == [k EXCEPT !.psync = None, !.down = Append(k.down, msg)]
<1>1. k \in Conns /\ k # None /\ k.psync # None /\ conn \in Links
  BY DEF RefusePsync, IInv, Links
<1>2. srv' = srv /\ used' \in Useds /\ conn' = [conn EXCEPT ![s] = k2]
  BY DEF RefusePsync, IInv
<1>3. msg \in Messages /\ msg \in Plain
  BY DEF Messages, Plain
<1> HIDE DEF msg, k
<1>4. k.down \in Seq(Messages) /\ ~Untouched(k)
  BY <1>1 DEF Conns, Untouched
<1>5. Append(k.down, msg) \in Seq(Messages) /\ Append(k.down, msg) = k.down \o <<msg>> /\ <<msg>> \in Seq(Plain)
  BY <1>3, <1>4, AppendProperties, AppendIsConcat
<1>6. /\ k2 \in Conns /\ k2.to = k.to /\ k2.psync = None /\ k2.down = Append(k.down, msg)
      /\ k2.replstate = k.replstate
  BY <1>1, <1>5 DEF Conns
<1> HIDE DEF k2
<1>7. KeepsLink(k2, k)
  BY <1>1, <1>4, <1>5, <1>6, LongerKept
<1> QED  BY <1>1, <1>2, <1>6, <1>7, LinkStepOK DEF k, Serving

\* PartialResync() keeps the invariant.
LEMMA PartialResyncOK ==
    ASSUME IInv, setup' = setup, NEW s \in Servers, PartialResync(s)
    PROVE  IInv'
<1> DEFINE k    == conn[s]
           me   == srv[k.to]
           off  == k.psync.offset
           msg  == [type |-> "CONTINUE", replid |-> me.replid]
           rest == BacklogFrom(me, off)
           down == (k.down \o <<msg>>) \o rest
           k2   == [k EXCEPT !.psync = None, !.replstate = "ONLINE", !.down = down]
<1>1. k \in Conns /\ k # None /\ k.psync # None /\ CanContinue(me, k.psync.replid, off)
  BY DEF PartialResync, MayServe, IInv, Links
<1>2. srv' = srv /\ used' \in Useds /\ conn' = [conn EXCEPT ![s] = k2]
  BY DEF PartialResync, IInv
<1>3. me \in ServerTypes /\ off \in Int /\ k.down \in Seq(Messages) /\ k.psync.replid # ZeroId /\ me.backlog # None
  <2>1. k.to \in Servers /\ k.psync \in Psyncs /\ k.down \in Seq(Messages)
    BY <1>1 DEF Conns
  <2>2. off \in Int
    BY <2>1 DEF Psyncs
  <2> QED  BY <2>1, <2>2, <1>1 DEF IInv, CanContinue, InBacklog
<1>4. me.backlog \in Backlogs /\ me.replid \in Ids
  BY <1>3 DEF ServerTypes
<1>5. rest \in Seq(Items)
  <2> DEFINE items == me.backlog.items
             a == off - me.backlog.off + 1
  <2>1. items \in Seq(Items) /\ me.backlog.off \in Int
    BY <1>4 DEF Backlogs
  <2>2. Len(items) \in Nat /\ a \in Int /\ a >= 1
    BY <2>1, <1>1, <1>3, LenProperties DEF CanContinue, InBacklog
  <2> HIDE DEF a
  <2>3. \A i \in a..Len(items) : items[i] \in Items
    BY <2>1, <2>2, ElementOfSeq
  <2>4. SubSeq(items, a, Len(items)) \in Seq(Items)
    BY <2>2, <2>3, SubSeqProperties
  <2> QED  BY <2>4 DEF BacklogFrom, a
<1>6. down \in Seq(Messages)
  <2>1. msg \in Messages
    BY <1>4 DEF Messages
  <2> HIDE DEF msg
  <2>2. <<msg>> \in Seq(Messages) /\ rest \in Seq(Messages)
    BY <2>1, <1>5, PlainItems, SeqMonotonic
  <2>3. k.down \o <<msg>> \in Seq(Messages)
    BY <2>2, <1>3, ConcatProperties
  <2> QED  BY <2>2, <2>3, ConcatProperties
<1> HIDE DEF down
<1>7. k2 \in Conns /\ k2.to = k.to
  BY <1>1, <1>6 DEF Conns, SlaveStates
<1> HIDE DEF k2
<1>8. KeepsLink(k2, k)
  BY <1>1, <1>3, <1>7, NoneElsewhere DEF KeepsLink, Untouched, NoContinue
<1> QED  BY <1>1, <1>2, <1>3, <1>7, <1>8, LinkStepOK

\* sendBulk() keeps the invariant.
LEMMA sendBulkOK ==
    ASSUME IInv, setup' = setup, NEW s \in Servers, sendBulkToSlave(s)
    PROVE  IInv'
<1> DEFINE k    == conn[s]
           msg  == [type |-> "RDB", rdb |-> k.rdb]
           down == Append(k.down, msg) \o k.buf
           k2   == [k EXCEPT !.replstate = "ONLINE", !.buf = <<>>, !.rdb = EmptyRdb, !.down = down]
<1>1. k \in Conns /\ k # None /\ k.replstate = "SEND_BULK"
  BY DEF sendBulkToSlave, IInv, Links
<1>2. srv' = srv /\ used' \in Useds /\ conn' = [conn EXCEPT ![s] = k2]
  BY DEF sendBulkToSlave, IInv
<1>3. /\ k.down \in Seq(Messages) /\ k.buf \in Seq(Items) /\ k.rdb \in Rdbs /\ ~Untouched(k) /\ Serving(k)
  BY <1>1 DEF Conns, Untouched, Serving
<1>4. msg \in Messages /\ msg \in Plain
  BY <1>3 DEF Messages, Plain
<1> HIDE DEF msg, k
<1>5. <<msg>> \in Seq(Plain) /\ <<msg>> \in Seq(Messages) /\ k.buf \in Seq(Plain) /\ k.buf \in Seq(Messages)
  BY <1>3, <1>4, PlainItems, SeqMonotonic
<1>6. /\ <<msg>> \o k.buf \in Seq(Plain) /\ down = k.down \o (<<msg>> \o k.buf) /\ down \in Seq(Messages)
  <2>1. <<msg>> \o k.buf \in Seq(Plain) /\ <<msg>> \o k.buf \in Seq(Messages)
    BY <1>5, ConcatProperties
  <2>2. Append(k.down, msg) = k.down \o <<msg>>
    BY <1>3, <1>4, AppendIsConcat
  <2>3. (k.down \o <<msg>>) \o k.buf = k.down \o (<<msg>> \o k.buf)
    BY <1>3, <1>5, ThreeParts
  <2>4. k.down \o (<<msg>> \o k.buf) \in Seq(Messages)
    BY <1>3, <2>1, ConcatProperties
  <2> QED  BY <2>1, <2>2, <2>3, <2>4
<1> HIDE DEF down
<1>7. k2 \in Conns /\ k2.to = k.to /\ k2.psync = k.psync /\ k2.down = down
  BY <1>1, <1>6, EmptySeq, EmptyRdbOK DEF Conns, SlaveStates, IInv
<1> HIDE DEF k2
<1>8. KeepsLink(k2, k)
  BY <1>1, <1>3, <1>6, <1>7, LongerKept
<1> QED  BY <1>1, <1>2, <1>3, <1>7, <1>8, LinkStepOK DEF k

\* replconfAck() keeps the invariant.
LEMMA replconfAckOK ==
    ASSUME IInv, setup' = setup, NEW s \in Servers, replconfAck(s)
    PROVE  IInv'
<1> DEFINE k    == conn[s]
           down == k.down \o k.buf
           k2   == [k EXCEPT !.on_ack = FALSE, !.buf = <<>>, !.down = down]
<1>1. k \in Conns /\ k # None /\ k.replstate = "ONLINE"
  BY DEF replconfAck, IInv, Links
<1>2. srv' = srv /\ used' \in Useds /\ conn' = [conn EXCEPT ![s] = k2]
  BY DEF replconfAck, IInv
<1>3. /\ k.down \in Seq(Messages) /\ k.buf \in Seq(Items) /\ ~Untouched(k) /\ Serving(k)
  BY <1>1 DEF Conns, Untouched, Serving
<1> HIDE DEF k
<1>5. k.buf \in Seq(Plain) /\ k.buf \in Seq(Messages)
  BY <1>3, PlainItems, SeqMonotonic
<1>6. down \in Seq(Messages)
  BY <1>3, <1>5, ConcatProperties
<1> HIDE DEF down
<1>7. k2 \in Conns /\ k2.to = k.to /\ k2.psync = k.psync /\ k2.down = down
  BY <1>1, <1>6, EmptySeq DEF Conns
<1> HIDE DEF k2
<1>8. KeepsLink(k2, k)
  BY <1>1, <1>3, <1>5, <1>7, LongerKept DEF down
<1> QED  BY <1>1, <1>2, <1>3, <1>7, <1>8, LinkStepOK DEF k

\* TimeoutSlave() keeps the invariant.
LEMMA TimeoutSlaveOK ==
    ASSUME IInv, setup' = setup, NEW s \in Servers, TimeoutSlave(s)
    PROVE  IInv'
<1> DEFINE k  == conn[s]
           k2 == [k EXCEPT !.replstate = "CLOSED", !.buf = <<>>]
<1>1. k \in Conns /\ k # None /\ conn \in Links
  BY DEF TimeoutSlave, IInv, Links
<1>2. srv' = srv /\ used' \in Useds
  BY UsedFails DEF TimeoutSlave, IInv
<1>3. conn' = [conn EXCEPT ![s] = k2]
  BY <1>1 DEF TimeoutSlave, FreeSlaves, Links
<1>4. KeepsLink(k2, k) /\ ~Serving(k2)
  BY <1>1, FreedKept
<1> HIDE DEF k2
<1>5. k2 \in Conns
  BY <1>1, <1>4 DEF KeepsLink
<1> QED  BY <1>1, <1>2, <1>3, <1>4, <1>5, LinkStepOK

\* A replication ID that was not used before.
LEMMA FreshOK == ASSUME IInv, HasId  PROVE  FreshId \in Ids
BY IdsNat DEF IInv, HasId, FreshId, Useds, Ids

\* The first slave of a server without backlog starts a new history.
LEMMA NewHistoryOK ==
    ASSUME NEW me \in ServerTypes, ServerOK(me), me.masterhost = NoOne, NEW id \in Ids, setup \in Setups
    PROVE  LET r == createReplicationBacklog(clearReplicationId2([me EXCEPT !.replid = id]))
           IN  r \in ServerTypes /\ ServerOK(r) /\ Same(r, me) /\ r.backlog # None
<1> DEFINE a == [me EXCEPT !.replid = id]
           b == clearReplicationId2(a)
           r == createReplicationBacklog(b)
<1>1. a \in ServerTypes /\ Same(a, me)
  BY DEF ServerTypes, Same
<1>2. b = [a EXCEPT !.replid2 = ZeroId, !.second_replid_offset = -1]
  BY DEF clearReplicationId2
<1> HIDE DEF a, b
<1>3. b \in ServerTypes /\ Same(b, a)
  <2>1. ZeroId \in 0..Limit.ids /\ -1 \in Int
    BY IdsNat DEF ZeroId
  <2>2. b \in ServerTypes
    BY <1>1, <1>2, <2>1 DEF ServerTypes
  <2>3. Same(b, a)
    BY <1>1, <1>2 DEF ServerTypes, Same
  <2> QED  BY <2>2, <2>3
<1>4. /\ r \in ServerTypes /\ Same(r, b) /\ r.backlog # None
      /\ r.backlog.off + Len(r.backlog.items) = r.master_repl_offset + 1
  BY <1>3, CreateOK
<1> HIDE DEF r
<1>5. me.master = None /\ me.cached_master = None /\ me.repl_state = "NONE"
  BY DEF ServerOK
<1>6. Same(r, me)
  BY <1>1, <1>3, <1>4 DEF Same
<1>7. ServerOK(r)
  BY <1>4, <1>5, <1>6 DEF ServerOK, Same
<1> QED  BY <1>4, <1>6, <1>7 DEF r, b, a

\* FullResync() keeps the invariant.
LEMMA FullResyncOK ==
    ASSUME IInv, setup' = setup, NEW s \in Servers, NEW ok \in BOOLEAN, FullResync(s, ok)
    PROVE  IInv'
<1> DEFINE k   == conn[s]
           m   == k.to
           new == srv[m].backlog = None /\ SlavesOf(conn, m) = {}
           me  == IF ~new THEN srv[m]
                  ELSE createReplicationBacklog(clearReplicationId2([srv[m] EXCEPT !.replid = FreshId]))
           k1  == [k EXCEPT !.psync = None, !.replstate = "WAIT_BGSAVE_START"]
           c   == [conn EXCEPT ![s] = k1]
           Attach(t) == [SetupFullResync(c[s], me, c[t].init) EXCEPT !.buf = c[t].buf]
           r   == StartBgsave(c, m, me, ok)
<1>1. /\ k \in Conns /\ k # None /\ k.psync # None /\ conn \in Links /\ setup \in Setups
      /\ srv[m].masterhost = NoOne \/ srv[m].repl_state = "CONNECTED"
      /\ new => HasId
  BY DEF FullResync, MayServe, IInv, Links
<1>2. m \in Servers /\ srv[m] \in ServerTypes /\ ServerOK(srv[m])
  BY <1>1 DEF Conns, IInv
<1>3. used' \in Useds
  <2>1. (IF new THEN [used EXCEPT !.ids = @ + 1] ELSE used) \in Useds
    BY DEF IInv, Useds
  <2>2. used' = Failed(IF new THEN [used EXCEPT !.ids = @ + 1] ELSE used, ok)
    BY DEF FullResync
  <2> QED  BY <2>1, <2>2, UsedFails
<1>4. \/ \E t \in InState(c, m, "WAIT_BGSAVE_END") :
           /\ conn' = [c EXCEPT ![s] = Attach(t)]
           /\ srv' = [srv EXCEPT ![m] = [me EXCEPT !.slaveseldb = -1]]
      \/ conn' = c /\ srv' = [srv EXCEPT ![m] = me]
      \/ conn' = r.c /\ srv' = [srv EXCEPT ![m] = r.me]
  BY DEF FullResync
<1>5. me \in ServerTypes /\ ServerOK(me) /\ Same(me, srv[m]) /\ me.backlog # None
  <2>1. CASE new
    <3>1. srv[m].masterhost = NoOne /\ FreshId \in Ids
      BY <2>1, <1>1, <1>2, FreshOK DEF ServerOK
    <3> QED  BY <2>1, <3>1, <1>1, <1>2, NewHistoryOK
  <2>2. CASE ~new
    <3>1. srv[m].backlog # None
      BY <2>2, <1>2 DEF IInv, SlavesHaveBacklog, SlavesOf
    <3> QED  BY <2>2, <3>1, <1>2 DEF Same
  <2> QED  BY <2>1, <2>2
<1> HIDE DEF me, new
<1>6. /\ k1 \in Conns /\ k1.to = k.to /\ k1.psync = None /\ k1.down = k.down
      /\ k1.replstate = "WAIT_BGSAVE_START" /\ k.down \in Seq(Messages)
  BY <1>1 DEF Conns, SlaveStates
<1>7. KeepsLink(k1, k) /\ ~Untouched(k)
  <2>1. <<>> \in Seq(Plain) /\ k.down \o <<>> = k.down /\ ~Untouched(k)
    BY <1>1, <1>6, EmptySeq, ConcatEmptySeq DEF Untouched
  <2> QED  BY <1>1, <1>6, <2>1, LongerKept
<1>8. c \in Links /\ c[s] = k1 /\ \A t \in Servers : t # s => c[t] = conn[t]
  BY <1>1, <1>6 DEF Links
<1> HIDE DEF k1, c
<1>9. \A t \in Servers : /\ KeepsLink(c[t], conn[t])
                         /\ Serving(c[t]) /\ c[t].to # m => Serving(conn[t]) /\ conn[t].to = c[t].to
  BY <1>1, <1>6, <1>7, <1>8, KeptItself DEF Links
<1>10. CASE \E t \in InState(c, m, "WAIT_BGSAVE_END") :
             /\ conn' = [c EXCEPT ![s] = Attach(t)]
             /\ srv' = [srv EXCEPT ![m] = [me EXCEPT !.slaveseldb = -1]]
  <2>1. PICK t \in InState(c, m, "WAIT_BGSAVE_END") :
             /\ conn' = [c EXCEPT ![s] = Attach(t)]
             /\ srv' = [srv EXCEPT ![m] = [me EXCEPT !.slaveseldb = -1]]
    BY <1>10
  <2> DEFINE a  == SetupFullResync(c[s], me, c[t].init)
             k2 == Attach(t)
             me2 == [me EXCEPT !.slaveseldb = -1]
  <2>2. c[t].init \in Nat /\ c[t].buf \in Seq(Items)
    <3>1. c[t] \in Conns
      BY <1>8 DEF InState, SlavesOf, IsSlaveOf, Links
    <3> QED  BY <3>1 DEF Conns
  <2>3. /\ a \in Conns /\ a.to = k1.to /\ a.psync = k1.psync
        /\ \E more \in Seq(Plain) : a.down = k1.down \o more
    BY <1>1, <1>5, <1>6, <1>8, <2>2, SetupKept
  <2> HIDE DEF a
  <2>4. k2 = [a EXCEPT !.buf = c[t].buf]
    BY DEF a
  <2> HIDE DEF k2
  <2>5. k2 \in Conns /\ k2.to = a.to /\ k2.psync = a.psync /\ k2.down = a.down
    BY <2>2, <2>3, <2>4 DEF Conns
  <2>6. KeepsLink(k2, k)
    <3>1. PICK more \in Seq(Plain) : a.down = k1.down \o more
      BY <2>3
    <3> QED  BY <3>1, <2>3, <2>5, <1>1, <1>6, <1>7, LongerKept
  <2>7. /\ me2 \in ServerTypes /\ Same(me2, me) /\ me2.replid = me.replid
        /\ me2.master_repl_offset = me.master_repl_offset /\ me2.backlog = me.backlog
    BY <1>5 DEF ServerTypes, Same
  <2> HIDE DEF me2
  <2>8. ServerOK(me2)
    BY <2>7, <1>5, SameOK
  <2>9. conn' \in Links /\ conn'[s] = k2 /\ \A u \in Servers : u # s => conn'[u] = c[u]
    BY <2>1, <2>5, <1>8 DEF k2, Links
  <2>10. \A u \in Servers : /\ KeepsLink(conn'[u], conn[u])
                            /\ Serving(conn'[u]) /\ conn'[u].to # m => Serving(conn[u]) /\ conn[u].to = conn'[u].to
    BY <2>3, <2>5, <2>6, <2>9, <1>6, <1>9
  <2>11. /\ srv' = [srv EXCEPT ![m] = me2] /\ me2.masterhost = srv[m].masterhost
         /\ me2.repl_state = srv[m].repl_state /\ me2.cached_master = srv[m].cached_master /\ me2.backlog # None
    BY <2>1, <2>7, <1>5 DEF Same, me2
  <2> HIDE DEF m
  <2> QED  BY <2>7, <2>8, <2>9, <2>10, <2>11, <1>2, <1>3, MasterStepOK
<1>11. CASE conn' = c /\ srv' = [srv EXCEPT ![m] = me]
  <2> HIDE DEF m
  <2> QED  BY <1>2, <1>3, <1>5, <1>8, <1>9, <1>11, MasterStepOK DEF Same
<1>12. CASE conn' = r.c /\ srv' = [srv EXCEPT ![m] = r.me]
  <2>1. /\ r.c \in Links
        /\ \A u \in Servers : KeepsLink(r.c[u], c[u]) /\ NoNew(r.c[u], c[u])
        /\ r.me \in ServerTypes /\ Same(r.me, me) /\ r.me.replid = me.replid
        /\ r.me.master_repl_offset = me.master_repl_offset /\ r.me.backlog = me.backlog
    BY <1>1, <1>2, <1>5, <1>8, StartKept
  <2> HIDE DEF r
  <2>2. ServerOK(r.me)
    BY <2>1, <1>5, SameOK
  <2>3. \A u \in Servers : /\ KeepsLink(conn'[u], conn[u])
                           /\ Serving(conn'[u]) /\ conn'[u].to # m => Serving(conn[u]) /\ conn[u].to = conn'[u].to
    BY <2>1, <1>9, <1>12 DEF KeepsLink, NoNew
  <2>4. /\ r.me.masterhost = srv[m].masterhost /\ r.me.repl_state = srv[m].repl_state
        /\ r.me.cached_master = srv[m].cached_master /\ r.me.backlog # None
    BY <2>1, <1>5 DEF Same
  <2>5. conn' \in Links
    BY <2>1, <1>12
  <2> HIDE DEF m
  <2> QED  BY <2>1, <2>2, <2>3, <2>4, <2>5, <1>2, <1>3, <1>12, MasterStepOK
<1> QED  BY <1>4, <1>10, <1>11, <1>12

-----------------------------------------------------------------------------
(* The actions of a replica. *)

\* The replica reads the first message.
LEMMA TakenOK ==
    ASSUME IInv, NEW s \in Servers, NEW state \in ReplStates \ {"NONE", "CONNECT"}, NEW types,
           Received(s, state, types)
    PROVE  /\ conn[s] \in Conns /\ Head(conn[s].down) \in Messages /\ Head(conn[s].down) = conn[s].down[1]
           /\ 1 \in 1..Len(conn[s].down) /\ Head(conn[s].down).type \in types
           /\ srv[s].repl_state = state /\ srv[s].masterhost \in Servers
           /\ srv[s] \in ServerTypes /\ ServerOK(srv[s]) /\ LinkOK(conn[s], srv[s])
           /\ Taken(s) \in Links /\ Taken(s)[s] \in Conns /\ Taken(s)[s].to = srv[s].masterhost
           /\ \A t \in Servers : t # s => Taken(s)[t] = conn[t]
           /\ \A t \in Servers : NoNew(Taken(s)[t], conn[t])
<1> DEFINE k == conn[s]
           k2 == [k EXCEPT !.down = Tail(k.down)]
<1>1. /\ srv[s].repl_state = state /\ srv[s] \in ServerTypes /\ ServerOK(srv[s]) /\ LinkOK(k, srv[s])
      /\ conn \in Links /\ k \in Conns \cup {None} /\ k.down # <<>> /\ Head(k.down).type \in types
  BY DEF Received, IInv, Links
<1>2. k \in Conns /\ k.to = srv[s].masterhost
  BY <1>1 DEF LinkOK
<1>3. k.down \in Seq(Messages) /\ k.to \in Servers
  BY <1>2 DEF Conns
<1>4. Head(k.down) \in Messages /\ Tail(k.down) \in Seq(Messages) /\ Head(k.down) = k.down[1]
  BY <1>1, <1>3, HeadTailProperties
<1>5. 1 \in 1..Len(k.down)
  BY <1>1, <1>3, EmptySeq
<1>6. k2 \in Conns /\ k2.to = k.to /\ k2.replstate = k.replstate
  BY <1>2, <1>4 DEF Conns
<1>7. Taken(s) = [conn EXCEPT ![s] = k2]
  BY DEF Taken
<1> HIDE DEF k2
<1>8. Taken(s) \in Links /\ Taken(s)[s] = k2 /\ \A t \in Servers : t # s => Taken(s)[t] = conn[t]
  BY <1>1, <1>6, <1>7 DEF Links
<1>9. k2 # None /\ k # None
  BY <1>2, <1>6, NoneElsewhere
<1>10. \A t \in Servers : NoNew(Taken(s)[t], conn[t])
  BY <1>6, <1>8, <1>9 DEF NoNew, Serving
<1> QED  BY <1>1, <1>2, <1>3, <1>4, <1>5, <1>6, <1>8, <1>10

\* connect() keeps the invariant.
LEMMA connectOK ==
    ASSUME IInv, setup' = setup, NEW s \in Servers, connectWithMaster(s)
    PROVE  IInv'
<1> DEFINE me == [srv[s] EXCEPT !.repl_state = "CONNECTING"]
           k  == NewConn(srv[s].masterhost)
<1>1. /\ srv[s] \in ServerTypes /\ ServerOK(srv[s]) /\ LinkOK(conn[s], srv[s]) /\ srv[s].repl_state = "CONNECT"
      /\ conn \in Links /\ used' \in Useds /\ setup \in Setups
  BY DEF connectWithMaster, IInv
<1>2. srv' = [srv EXCEPT ![s] = me] /\ conn' = [conn EXCEPT ![s] = k]
  BY DEF connectWithMaster
<1>3. srv[s].masterhost \in Servers /\ srv[s].master = None
  BY <1>1 DEF ServerTypes, ServerOK
<1>4. /\ me \in ServerTypes /\ me.repl_state = "CONNECTING" /\ me.masterhost = srv[s].masterhost
      /\ me.master = srv[s].master /\ me.cached_master = srv[s].cached_master /\ me.backlog = srv[s].backlog
      /\ me.replid = srv[s].replid /\ me.master_repl_offset = srv[s].master_repl_offset
  BY <1>1 DEF ServerTypes, ReplStates
<1> HIDE DEF me
<1>5. ServerOK(me)
  BY <1>1, <1>3, <1>4 DEF ServerOK
<1>6. k \in Conns /\ Untouched(k) /\ ~Serving(k) /\ k.to = srv[s].masterhost
  BY <1>1, <1>3, EmptySeq, EmptyRdbOK DEF NewConn, Conns, SlaveStates, Untouched, Serving
<1> HIDE DEF k
<1>7. LinkOK(k, me)
  BY <1>4, <1>6, NoneElsewhere DEF LinkOK
<1>8. conn' \in Links /\ conn'[s] = k /\ \A t \in Servers : t # s => conn'[t] = conn[t]
  BY <1>1, <1>2, <1>6 DEF Links
<1>9. \A t \in Servers \ {s} : KeepsLink(conn'[t], conn[t])
  BY <1>1, <1>8, KeptItself DEF Links
<1>10. \A t \in Servers : Serving(conn'[t]) => conn'[t] = conn[t]
  BY <1>6, <1>8
<1>11. me.backlog = None => \A t \in Servers : ~IsSlaveOf(conn', t, s)
  BY <1>4, <1>10 DEF IInv, SlavesHaveBacklog, IsSlaveOf, Serving
<1> QED  BY <1>1, <1>2, <1>4, <1>5, <1>7, <1>8, <1>9, <1>10, <1>11, StepOK

\* SendPsync() keeps the invariant.
LEMMA SendPsyncOK ==
    ASSUME IInv, setup' = setup, NEW s \in Servers, SendPsync(s)
    PROVE  IInv'
<1> DEFINE me == [srv[s] EXCEPT !.repl_state = "RECEIVE_PSYNC", !.master_initial_offset = -1]
           p  == IF conn[s].replstate = "CLOSED" THEN None ELSE PsyncArgs(srv[s])
           k  == [conn[s] EXCEPT !.psync = p]
<1>1. /\ srv[s] \in ServerTypes /\ ServerOK(srv[s]) /\ LinkOK(conn[s], srv[s]) /\ srv[s].repl_state = "CONNECTING"
      /\ conn \in Links /\ used' \in Useds /\ setup \in Setups
  BY DEF SendPsync, IInv
<1>2. srv' = [srv EXCEPT ![s] = me] /\ conn' = [conn EXCEPT ![s] = k]
  BY DEF SendPsync
<1>3. conn[s] \in Conns /\ conn[s].to = srv[s].masterhost /\ Untouched(conn[s])
  BY <1>1 DEF Links, LinkOK
<1>4. /\ me \in ServerTypes /\ me.repl_state = "RECEIVE_PSYNC" /\ me.masterhost = srv[s].masterhost
      /\ me.master = srv[s].master /\ me.cached_master = srv[s].cached_master /\ me.backlog = srv[s].backlog
      /\ me.replid = srv[s].replid /\ me.master_repl_offset = srv[s].master_repl_offset
  <2>1. "RECEIVE_PSYNC" \in ReplStates /\ -1 \in Int
    BY DEF ReplStates
  <2>2. me \in ServerTypes
    BY <1>1, <2>1 DEF ServerTypes
  <2> QED  BY <1>1, <2>2 DEF ServerTypes
<1> HIDE DEF me
<1>5. ServerOK(me)
  BY <1>1, <1>4 DEF ServerOK
<1>6. p \in Psyncs \cup {None} /\ (p # None /\ srv[s].cached_master = None => p.replid = ZeroId)
  <2>1. srv[s].cached_master \in Masters \cup {None}
    BY <1>1 DEF ServerTypes
  <2>2. srv[s].cached_master # None => /\ srv[s].cached_master.replid \in 0..Limit.ids
                                       /\ srv[s].cached_master.reploff \in Nat
    BY <2>1, <1>1, IdsNat DEF Masters
  <2> QED  BY <1>1, <2>2, IdsNat DEF PsyncArgs, Psyncs, ZeroId
<1> HIDE DEF p
<1>7. k \in Conns /\ k.to = srv[s].masterhost /\ k.psync = p /\ k.down = <<>> /\ k.replstate \in {"NONE", "CLOSED"}
  BY <1>3, <1>6 DEF Conns, Untouched
<1> HIDE DEF k
<1>8. LinkOK(k, me)
  BY <1>4, <1>6, <1>7, NoneElsewhere, EmptySeq DEF LinkOK, NoContinue
<1>9. conn' \in Links /\ conn'[s] = k /\ \A t \in Servers : t # s => conn'[t] = conn[t]
  BY <1>1, <1>2, <1>7 DEF Links
<1>10. \A t \in Servers \ {s} : KeepsLink(conn'[t], conn[t])
  BY <1>1, <1>9, KeptItself DEF Links
<1>11. \A t \in Servers : Serving(conn'[t]) => conn'[t] = conn[t]
  BY <1>7, <1>9 DEF Serving
<1>12. me.backlog = None => \A t \in Servers : ~IsSlaveOf(conn', t, s)
  BY <1>4, <1>11 DEF IInv, SlavesHaveBacklog, IsSlaveOf, Serving
<1> QED  BY <1>1, <1>2, <1>4, <1>5, <1>8, <1>9, <1>10, <1>11, <1>12, StepOK

\* ReplyFullResync() keeps the invariant.
LEMMA ReplyFullResyncOK ==
    ASSUME IInv, setup' = setup, NEW s \in Servers, ReplyFullResync(s)
    PROVE  IInv'
<1> DEFINE reply == Head(conn[s].down)
           me == [srv[s] EXCEPT !.repl_state = "TRANSFER", !.master_replid = reply.replid,
                                !.master_initial_offset = reply.offset,
                                !.cached_master = None, !.backlog = None]
           c  == Taken(s)
<1>1. Received(s, "RECEIVE_PSYNC", {"FULLRESYNC"}) /\ "RECEIVE_PSYNC" \in ReplStates \ {"NONE", "CONNECT"}
  BY DEF ReplyFullResync, ReplStates
<1>2. /\ conn[s] \in Conns /\ reply \in Messages /\ reply.type = "FULLRESYNC"
      /\ srv[s].repl_state = "RECEIVE_PSYNC" /\ srv[s].masterhost \in Servers
      /\ srv[s] \in ServerTypes /\ ServerOK(srv[s])
      /\ c \in Links /\ c[s] \in Conns /\ c[s].to = srv[s].masterhost
      /\ \A t \in Servers : t # s => c[t] = conn[t]
      /\ \A t \in Servers : NoNew(c[t], conn[t])
  BY <1>1, TakenOK
<1>3. srv' = [srv EXCEPT ![s] = me] /\ conn' = DisconnectSlaves(c, s) /\ used' \in Useds
  BY <1>2 DEF ReplyFullResync, BeginTransfer, IInv, ServerTypes
<1> HIDE DEF c
<1>4. reply.replid \in Ids /\ reply.offset \in Nat
  BY <1>2 DEF Messages, Items, StreamTypes
<1> HIDE DEF reply
<1>5. /\ me \in ServerTypes /\ me.repl_state = "TRANSFER" /\ me.masterhost = srv[s].masterhost
      /\ me.master = srv[s].master /\ me.cached_master = None /\ me.backlog = None
      /\ me.master_replid = reply.replid /\ me.master_initial_offset = reply.offset
  <2>1. "TRANSFER" \in ReplStates /\ reply.replid \in 0..Limit.ids /\ reply.offset \in Int
    BY <1>4, IdsNat DEF ReplStates, IInv
  <2> QED  BY <1>2, <2>1 DEF ServerTypes
<1> HIDE DEF me
<1>6. ServerOK(me)
  BY <1>2, <1>4, <1>5 DEF ServerOK
<1>7. /\ conn' \in Links
      /\ \A t \in Servers : /\ KeepsLink(conn'[t], c[t]) /\ NoNew(conn'[t], c[t]) /\ ~IsSlaveOf(conn', t, s)
  BY <1>2, <1>3, DisconnectKept
<1>8. LinkOK(conn'[s], me)
  BY <1>2, <1>5, <1>7, NoneElsewhere DEF LinkOK, KeepsLink
<1>9. \A t \in Servers \ {s} : KeepsLink(conn'[t], conn[t])
  BY <1>2, <1>7
<1>10. \A t \in Servers : Serving(conn'[t]) /\ conn'[t].to # s => Serving(conn[t]) /\ conn[t].to = conn'[t].to
  BY <1>2, <1>7 DEF NoNew
<1> QED  BY <1>3, <1>5, <1>6, <1>7, <1>8, <1>9, <1>10, StepOK

\* The backlog that a replica needs for the history it continues or begins.
LEMMA ConnectedOK ==
    ASSUME NEW me \in ServerTypes, me.masterhost # NoOne, me.repl_state = "CONNECTED",
           me.master \in Masters, me.cached_master = None,
           me.backlog # None => me.backlog.off + Len(me.backlog.items) = me.master_repl_offset + 1,
           me.replid = me.master.replid, me.master_repl_offset = me.master.reploff
    PROVE  LET r == IF me.backlog = None THEN createReplicationBacklog(me) ELSE me
           IN  /\ r \in ServerTypes /\ ServerOK(r) /\ r.backlog # None
               /\ r.repl_state = "CONNECTED" /\ r.masterhost = me.masterhost
<1>1. me.master # None
  BY NoneElsewhere
<1>2. CASE me.backlog = None
  <2> DEFINE r == createReplicationBacklog(me)
  <2>1. /\ r \in ServerTypes /\ Same(r, me) /\ r.replid = me.replid /\ r.backlog # None
        /\ r.master_repl_offset = me.master_repl_offset
        /\ r.backlog.off + Len(r.backlog.items) = r.master_repl_offset + 1
    BY CreateOK
  <2> HIDE DEF r
  <2>2. ServerOK(r)
    BY <1>1, <2>1 DEF ServerOK, Same
  <2> QED  BY <1>2, <2>1, <2>2 DEF Same, r
<1>3. CASE me.backlog # None
  <2>1. ServerOK(me)
    BY <1>1, <1>3 DEF ServerOK
  <2> QED  BY <1>3, <2>1
<1> QED  BY <1>2, <1>3

\* ReplyContinue() keeps the invariant.
LEMMA ReplyContinueOK ==
    ASSUME IInv, setup' = setup, NEW s \in Servers, ReplyContinue(s)
    PROVE  IInv'
<1> DEFINE id      == Head(conn[s].down).replid
           old     == srv[s].cached_master
           changed == id # old.replid
           master  == [old EXCEPT !.replid = id]
           me      == [srv[s] EXCEPT !.repl_state = "CONNECTED", !.cached_master = None, !.master = master]
           moved   == IF ~changed THEN me
                      ELSE [me EXCEPT !.replid2 = old.replid,
                                      !.second_replid_offset = me.master_repl_offset + 1, !.replid = id]
           r       == IF moved.backlog = None THEN createReplicationBacklog(moved) ELSE moved
           c       == Taken(s)
<1>1. Received(s, "RECEIVE_PSYNC", {"CONTINUE"}) /\ "RECEIVE_PSYNC" \in ReplStates \ {"NONE", "CONNECT"}
  BY DEF ReplyContinue, ReplStates
<1>2. /\ conn[s] \in Conns /\ Head(conn[s].down) \in Messages /\ Head(conn[s].down) = conn[s].down[1]
      /\ 1 \in 1..Len(conn[s].down) /\ Head(conn[s].down).type = "CONTINUE"
      /\ srv[s].repl_state = "RECEIVE_PSYNC" /\ srv[s].masterhost \in Servers
      /\ srv[s] \in ServerTypes /\ ServerOK(srv[s]) /\ LinkOK(conn[s], srv[s])
      /\ c \in Links /\ c[s] \in Conns /\ c[s].to = srv[s].masterhost
      /\ \A t \in Servers : t # s => c[t] = conn[t]
      /\ \A t \in Servers : NoNew(c[t], conn[t])
  BY <1>1, TakenOK
<1>3. /\ srv' = [srv EXCEPT ![s] = r] /\ conn' = IF changed THEN DisconnectSlaves(c, s) ELSE c
      /\ used' \in Useds
  BY DEF ReplyContinue, replicationResurrectCachedMaster, IInv
<1> HIDE DEF c
<1>4. id \in Ids
  BY <1>2 DEF Messages, Items, StreamTypes
<1>5. old \in Masters /\ srv[s].masterhost # NoOne
  <2>1. old # None
    BY <1>2 DEF LinkOK, NoContinue
  <2> QED  BY <2>1, <1>2 DEF ServerTypes, ServerOK
<1> HIDE DEF id, old
<1>6. master \in Masters /\ master.replid = id /\ master.reploff = old.reploff /\ old.replid \in Ids
  BY <1>4, <1>5 DEF Masters
<1>7. srv[s].replid = old.replid /\ srv[s].master_repl_offset = old.reploff
  BY <1>2, <1>5, NoneElsewhere DEF ServerOK, old
<1> HIDE DEF master
<1>8. /\ me \in ServerTypes /\ me.repl_state = "CONNECTED" /\ me.masterhost = srv[s].masterhost
      /\ me.master = master /\ me.cached_master = None /\ me.backlog = srv[s].backlog
      /\ me.replid = srv[s].replid /\ me.master_repl_offset = srv[s].master_repl_offset
  <2>1. "CONNECTED" \in ReplStates
    BY DEF ReplStates
  <2> QED  BY <2>1, <1>2, <1>6 DEF ServerTypes
<1> HIDE DEF me
<1>9. /\ moved \in ServerTypes /\ moved.repl_state = "CONNECTED" /\ moved.masterhost = srv[s].masterhost
      /\ moved.master = master /\ moved.cached_master = None /\ moved.backlog = srv[s].backlog
      /\ moved.replid = id /\ moved.master_repl_offset = old.reploff
  <2>1. CASE ~changed
    BY <2>1, <1>7, <1>8
  <2>2. CASE changed
    <3>1. old.replid \in 0..Limit.ids /\ me.master_repl_offset + 1 \in Int
      BY <1>6, <1>8, IdsNat DEF ServerTypes, IInv
    <3>2. moved = [me EXCEPT !.replid2 = old.replid,
                             !.second_replid_offset = me.master_repl_offset + 1, !.replid = id]
      BY <2>2
    <3> HIDE DEF moved
    <3> QED  BY <3>1, <3>2, <1>4, <1>7, <1>8 DEF ServerTypes
  <2> QED  BY <2>1, <2>2
<1> HIDE DEF moved
<1>10. moved.backlog # None => moved.backlog.off + Len(moved.backlog.items) = moved.master_repl_offset + 1
  BY <1>2, <1>7, <1>9 DEF ServerOK
<1>11. /\ r \in ServerTypes /\ ServerOK(r) /\ r.backlog # None
       /\ r.repl_state = "CONNECTED" /\ r.masterhost = srv[s].masterhost
  BY <1>5, <1>6, <1>9, <1>10, ConnectedOK
<1> HIDE DEF r
<1>12. /\ conn' \in Links
       /\ \A t \in Servers : KeepsLink(conn'[t], c[t]) /\ NoNew(conn'[t], c[t])
  <2>1. \A t \in Servers : KeepsLink(c[t], c[t]) /\ NoNew(c[t], c[t])
    BY <1>2, KeptItself DEF Links, NoNew
  <2> QED  BY <2>1, <1>2, <1>3, DisconnectKept
<1>13. LinkOK(conn'[s], r)
  BY <1>2, <1>11, <1>12, NoneElsewhere DEF LinkOK, KeepsLink
<1>14. \A t \in Servers \ {s} : KeepsLink(conn'[t], conn[t])
  BY <1>2, <1>12
<1>15. \A t \in Servers : Serving(conn'[t]) /\ conn'[t].to # s => Serving(conn[t]) /\ conn[t].to = conn'[t].to
  BY <1>2, <1>12 DEF NoNew
<1> QED  BY <1>3, <1>11, <1>12, <1>13, <1>14, <1>15, StepOK

\* LoadRdb() keeps the invariant.
LEMMA LoadRdbOK ==
    ASSUME IInv, setup' = setup, NEW s \in Servers, LoadRdb(s)
    PROVE  IInv'
<1> DEFINE rdb == Head(conn[s].down).rdb
           master == [replid |-> srv[s].master_replid, reploff |-> srv[s].master_initial_offset,
                      db |-> IF rdb.stream_db = -1 THEN 0 ELSE rdb.stream_db]
           me  == [srv[s] EXCEPT !.repl_state = "CONNECTED", !.data = rdb.data, !.dump = rdb, !.master = master,
                                 !.replid = srv[s].master_replid,
                                 !.master_repl_offset = srv[s].master_initial_offset]
           clean == clearReplicationId2(me)
           r  == IF clean.backlog = None THEN createReplicationBacklog(clean) ELSE clean
           c  == Taken(s)
<1>1. Received(s, "TRANSFER", {"RDB"}) /\ "TRANSFER" \in ReplStates \ {"NONE", "CONNECT"}
  BY DEF LoadRdb, ReplStates
<1>2. /\ conn[s] \in Conns /\ Head(conn[s].down) \in Messages /\ Head(conn[s].down).type = "RDB"
      /\ srv[s].repl_state = "TRANSFER" /\ srv[s].masterhost \in Servers
      /\ srv[s] \in ServerTypes /\ ServerOK(srv[s])
      /\ c \in Links /\ c[s] \in Conns /\ c[s].to = srv[s].masterhost
      /\ \A t \in Servers : t # s => c[t] = conn[t]
      /\ \A t \in Servers : NoNew(c[t], conn[t])
  BY <1>1, TakenOK
<1>3. srv' = [srv EXCEPT ![s] = r] /\ conn' = c /\ used' \in Useds /\ setup \in Setups
  BY DEF LoadRdb, replicationCreateMasterClient, IInv
<1> HIDE DEF c
<1>4. rdb \in Rdbs
  BY <1>2 DEF Messages, Items, StreamTypes
<1> HIDE DEF rdb
<1>5. /\ srv[s].master_replid \in Ids /\ srv[s].master_initial_offset \in Nat /\ srv[s].backlog = None
      /\ srv[s].masterhost # NoOne /\ srv[s].cached_master \in Masters \cup {None}
  BY <1>2 DEF ServerOK, ServerTypes
<1>6. rdb.data \in DataSets /\ (IF rdb.stream_db = -1 THEN 0 ELSE rdb.stream_db) \in Int
  BY <1>4 DEF Rdbs
<1>7. master \in Masters /\ master.replid = srv[s].master_replid /\ master.reploff = srv[s].master_initial_offset
  BY <1>5, <1>6 DEF Masters
<1> HIDE DEF master
<1>8. /\ me \in ServerTypes /\ me.repl_state = "CONNECTED" /\ me.masterhost = srv[s].masterhost
      /\ me.master = master /\ me.cached_master = srv[s].cached_master /\ me.backlog = None
      /\ me.replid = master.replid /\ me.master_repl_offset = master.reploff
  <2>1. "CONNECTED" \in ReplStates
    BY DEF ReplStates
  <2> QED  BY <2>1, <1>2, <1>4, <1>5, <1>6, <1>7 DEF ServerTypes
<1> HIDE DEF me
<1>9. /\ clean \in ServerTypes /\ clean.repl_state = "CONNECTED" /\ clean.masterhost = srv[s].masterhost
      /\ clean.master = master /\ clean.cached_master = srv[s].cached_master /\ clean.backlog = None
      /\ clean.replid = master.replid /\ clean.master_repl_offset = master.reploff
  <2>1. ZeroId \in 0..Limit.ids /\ -1 \in Int
    BY <1>3, IdsNat DEF ZeroId
  <2>2. clean = [me EXCEPT !.replid2 = ZeroId, !.second_replid_offset = -1]
    BY DEF clearReplicationId2
  <2> HIDE DEF clean
  <2>3. clean \in ServerTypes
    BY <2>1, <2>2, <1>8 DEF ServerTypes
  <2> QED  BY <2>2, <2>3, <1>8 DEF ServerTypes
<1> HIDE DEF clean
<1>10. srv[s].cached_master = None
  BY <1>2 DEF ServerOK
<1>11. /\ r \in ServerTypes /\ ServerOK(r) /\ r.backlog # None
       /\ r.repl_state = "CONNECTED" /\ r.masterhost = srv[s].masterhost
  BY <1>5, <1>7, <1>9, <1>10, ConnectedOK
<1> HIDE DEF r
<1>13. LinkOK(conn'[s], r)
  BY <1>2, <1>3, <1>11, NoneElsewhere DEF LinkOK
<1>14. \A t \in Servers \ {s} : KeepsLink(conn'[t], conn[t])
  BY <1>2, <1>3, KeptItself DEF IInv, Links
<1>15. \A t \in Servers : Serving(conn'[t]) /\ conn'[t].to # s => Serving(conn[t]) /\ conn[t].to = conn'[t].to
  BY <1>2, <1>3 DEF NoNew
<1>16. conn' \in Links
  BY <1>2, <1>3
<1> QED  BY <1>3, <1>11, <1>13, <1>14, <1>15, <1>16, StepOK

\* A link that ends at the replica, with the sub-slaves closed or not.
LEMMA LeaveOK ==
    ASSUME IInv, setup' = setup, used' \in Useds, NEW s \in Servers, NEW me \in ServerTypes, ServerOK(me),
           srv' = [srv EXCEPT ![s] = me], me.repl_state \in {"NONE", "CONNECT"},
           \/ conn' = DisconnectSlaves([conn EXCEPT ![s] = None], s)
           \/ conn' = [conn EXCEPT ![s] = None] /\ (me.backlog = None => srv[s].backlog = None)
    PROVE  IInv'
<1> DEFINE c == [conn EXCEPT ![s] = None]
<1>1. /\ conn \in Links /\ c \in Links /\ c[s] = None /\ \A t \in Servers : t # s => c[t] = conn[t]
  BY DEF IInv, Links
<1> HIDE DEF c
<1>2. \A t \in Servers : NoNew(c[t], conn[t])
  BY <1>1 DEF NoNew, Serving
<1>3. /\ conn' \in Links
      /\ \A t \in Servers : KeepsLink(conn'[t], c[t]) /\ NoNew(conn'[t], c[t])
      /\ me.backlog = None => \A t \in Servers : ~IsSlaveOf(conn', t, s)
  <2>1. CASE conn' = DisconnectSlaves(c, s)
    BY <2>1, <1>1, DisconnectKept
  <2>2. CASE conn' = c /\ (me.backlog = None => srv[s].backlog = None)
    <3>1. \A t \in Servers : KeepsLink(c[t], c[t]) /\ NoNew(c[t], c[t])
      BY <1>1, KeptItself DEF Links, NoNew
    <3>2. srv[s].backlog = None => \A t \in Servers : ~IsSlaveOf(c, t, s)
      BY <1>1 DEF IInv, SlavesHaveBacklog, IsSlaveOf
    <3> QED  BY <2>2, <1>1, <3>1, <3>2
  <2> QED  BY <2>1, <2>2 DEF c
<1>4. LinkOK(conn'[s], me)
  BY <1>1, <1>3 DEF LinkOK, KeepsLink
<1>5. \A t \in Servers \ {s} : KeepsLink(conn'[t], conn[t])
  BY <1>1, <1>3
<1>6. \A t \in Servers : Serving(conn'[t]) /\ conn'[t].to # s => Serving(conn[t]) /\ conn[t].to = conn'[t].to
  BY <1>2, <1>3 DEF NoNew
<1> QED  BY <1>3, <1>4, <1>5, <1>6, StepOK

\* LoadRdbFails() keeps the invariant.
LEMMA LoadRdbFailsOK ==
    ASSUME IInv, setup' = setup, NEW s \in Servers, LoadRdbFails(s)
    PROVE  IInv'
<1> DEFINE me == [srv[s] EXCEPT !.repl_state = "CONNECT", !.data = <<>>, !.dump = EmptyRdb]
<1>1. /\ srv[s] \in ServerTypes /\ ServerOK(srv[s]) /\ srv[s].repl_state = "TRANSFER" /\ setup \in Setups
      /\ used' \in Useds /\ srv' = [srv EXCEPT ![s] = me] /\ conn' = [conn EXCEPT ![s] = None]
  BY UsedFails DEF LoadRdbFails, Received, IInv
<1>2. "CONNECT" \in ReplStates /\ <<>> \in DataSets /\ EmptyRdb \in Rdbs
  BY <1>1, EmptySeq, EmptyRdbOK DEF ReplStates, DataSets
<1>3. /\ me \in ServerTypes /\ me.repl_state = "CONNECT" /\ me.masterhost = srv[s].masterhost
      /\ me.master = srv[s].master /\ me.cached_master = srv[s].cached_master /\ me.backlog = srv[s].backlog
      /\ me.replid = srv[s].replid /\ me.master_repl_offset = srv[s].master_repl_offset
  BY <1>1, <1>2 DEF ServerTypes
<1> HIDE DEF me
<1>4. ServerOK(me)
  BY <1>1, <1>3 DEF ServerOK
<1> QED  BY <1>1, <1>3, <1>4, LeaveOK

\* Freeing the client of the master.
LEMMA LoseOK ==
    ASSUME NEW me \in ServerTypes, ServerOK(me), me.masterhost # NoOne
    PROVE  /\ LoseMaster(me) \in ServerTypes /\ ServerOK(LoseMaster(me))
           /\ LoseMaster(me).repl_state = "CONNECT" /\ LoseMaster(me).masterhost = me.masterhost
           /\ LoseMaster(me).backlog = me.backlog /\ LoseMaster(me).master = None
<1> DEFINE r == LoseMaster(me)
<1>1. "CONNECT" \in ReplStates
  BY DEF ReplStates
<1>2. CASE me.master # None
  <2>1. r = [me EXCEPT !.cached_master = me.master, !.master = None, !.repl_state = "CONNECT"]
    BY <1>2 DEF LoseMaster
  <2> HIDE DEF r
  <2>2. /\ r \in ServerTypes /\ r.cached_master = me.master /\ r.master = None /\ r.repl_state = "CONNECT"
        /\ r.masterhost = me.masterhost /\ r.backlog = me.backlog /\ r.replid = me.replid
        /\ r.master_repl_offset = me.master_repl_offset
    BY <1>1, <2>1 DEF ServerTypes
  <2>3. ServerOK(r)
    BY <1>2, <2>2 DEF ServerOK
  <2> QED  BY <2>2, <2>3 DEF r
<1>3. CASE me.master = None
  <2>1. r = [me EXCEPT !.repl_state = "CONNECT"]
    BY <1>3 DEF LoseMaster
  <2> HIDE DEF r
  <2>2. /\ r \in ServerTypes /\ r.cached_master = me.cached_master /\ r.master = None /\ r.repl_state = "CONNECT"
        /\ r.masterhost = me.masterhost /\ r.backlog = me.backlog /\ r.replid = me.replid
        /\ r.master_repl_offset = me.master_repl_offset
    BY <1>1, <1>3, <2>1 DEF ServerTypes
  <2>3. ServerOK(r)
    BY <1>3, <2>2 DEF ServerOK
  <2> QED  BY <2>2, <2>3 DEF r
<1> QED  BY <1>2, <1>3

\* LinkDown() keeps the invariant.
LEMMA LinkDownOK ==
    ASSUME IInv, setup' = setup, NEW s \in Servers, LinkDown(s)
    PROVE  IInv'
<1> DEFINE me == LoseMaster(srv[s])
<1>1. /\ srv[s] \in ServerTypes /\ ServerOK(srv[s]) /\ LinkOK(conn[s], srv[s]) /\ conn[s] # None
      /\ srv' = [srv EXCEPT ![s] = me] /\ conn' = [conn EXCEPT ![s] = None]
  BY DEF LinkDown, IInv
<1>2. used' \in Useds
  BY UsedFails DEF LinkDown, IInv
<1>3. srv[s].masterhost # NoOne
  BY <1>1 DEF LinkOK, ServerOK
<1>4. me \in ServerTypes /\ ServerOK(me) /\ me.repl_state = "CONNECT" /\ me.backlog = srv[s].backlog
  BY <1>1, <1>3, LoseOK
<1> HIDE DEF me
<1> QED  BY <1>1, <1>2, <1>4, LeaveOK

\* ReplyError() keeps the invariant.
LEMMA ReplyErrorOK ==
    ASSUME IInv, setup' = setup, NEW s \in Servers, ReplyError(s)
    PROVE  IInv'
<1> DEFINE me == [srv[s] EXCEPT !.repl_state = "CONNECT", !.cached_master = None, !.backlog = None]
<1>1. /\ srv[s] \in ServerTypes /\ ServerOK(srv[s]) /\ srv[s].repl_state = "RECEIVE_PSYNC"
      /\ srv' = [srv EXCEPT ![s] = me] /\ conn' = DisconnectSlaves([conn EXCEPT ![s] = None], s)
  BY DEF ReplyError, IInv
<1>2. used' \in Useds
  BY UsedFails DEF ReplyError, IInv
<1>3. "CONNECT" \in ReplStates
  BY DEF ReplStates
<1>4. /\ me \in ServerTypes /\ me.repl_state = "CONNECT" /\ me.masterhost = srv[s].masterhost
      /\ me.master = srv[s].master /\ me.cached_master = None /\ me.backlog = None
  BY <1>1, <1>3 DEF ServerTypes
<1> HIDE DEF me
<1>5. ServerOK(me)
  BY <1>1, <1>4 DEF ServerOK
<1> QED  BY <1>1, <1>2, <1>4, <1>5, LeaveOK

\* ApplyStream() keeps the invariant.
LEMMA ApplyStreamOK ==
    ASSUME IInv, setup' = setup, NEW s \in Servers, ApplyStream(s)
    PROVE  IInv'
<1> DEFINE item == Head(conn[s].down)
           old  == srv[s].master
           db   == IF item.type = "select" THEN item.arg ELSE old.db
           off  == old.reploff + 1
           master == [old EXCEPT !.reploff = off, !.db = db]
           data == IF item.type = "write" THEN Append(srv[s].data, <<old.db, item.arg>>) ELSE srv[s].data
           me   == [srv[s] EXCEPT !.master = master, !.data = data]
           r    == feedReplicationBacklog(me, <<item>>)
           c    == Taken(s)
<1>1. Received(s, "CONNECTED", StreamTypes) /\ "CONNECTED" \in ReplStates \ {"NONE", "CONNECT"}
  BY DEF ApplyStream, ReplStates
<1>2. /\ conn[s] \in Conns /\ item \in Messages /\ item.type \in StreamTypes
      /\ srv[s].repl_state = "CONNECTED" /\ srv[s].masterhost \in Servers
      /\ srv[s] \in ServerTypes /\ ServerOK(srv[s])
      /\ c \in Links /\ c[s] \in Conns /\ c[s].to = srv[s].masterhost
      /\ \A t \in Servers : t # s => c[t] = conn[t]
      /\ \A t \in Servers : NoNew(c[t], conn[t])
  BY <1>1, TakenOK
<1>3. item \in Items
  BY <1>2 DEF Messages, StreamTypes
<1>4. /\ old \in Masters /\ srv[s].cached_master = None /\ srv[s].backlog # None
      /\ srv[s].replid = old.replid /\ srv[s].master_repl_offset = old.reploff
  BY <1>2 DEF ServerOK, ServerTypes
<1>5. Applied(srv[s], item) = me
  BY DEF Applied
<1>6. /\ srv' = [srv EXCEPT ![s] = IF me.backlog = None THEN me ELSE r]
      /\ conn' = FeedSlaves(c, s, <<item>>) /\ used' \in Useds
  BY <1>5 DEF ApplyStream, IInv
<1> HIDE DEF item, c, old
<1>7. item.arg \in Int /\ old.reploff \in Nat /\ old.db \in Int
  BY <1>3, <1>4 DEF Items, Masters
<1>8. master \in Masters /\ master.replid = old.replid /\ master.reploff = old.reploff + 1
  <2>1. db \in Int /\ off \in Nat
    BY <1>7
  <2> HIDE DEF db
  <2>2. master \in Masters /\ master.replid = old.replid /\ master.reploff = off
    <3> HIDE DEF off
    <3> QED  BY <1>4, <2>1 DEF Masters
  <2> QED  BY <2>2
<1>9. data \in DataSets
  BY <1>2, <1>7, AppendProperties DEF ServerTypes, DataSets
<1> HIDE DEF master, data
<1>10. /\ me \in ServerTypes /\ me.repl_state = "CONNECTED" /\ me.masterhost = srv[s].masterhost
       /\ me.master = master /\ me.cached_master = None /\ me.backlog = srv[s].backlog
       /\ me.replid = old.replid /\ me.master_repl_offset = old.reploff
  BY <1>2, <1>4, <1>8, <1>9 DEF ServerTypes
<1> HIDE DEF me
<1>11. <<item>> \in Seq(Items) /\ Len(<<item>>) = 1
  BY <1>3
<1>12. /\ r \in ServerTypes /\ Same(r, me) /\ r.replid = me.replid /\ r.backlog # None
       /\ r.master_repl_offset = me.master_repl_offset + 1
       /\ r.backlog.off + Len(r.backlog.items) = r.master_repl_offset + 1
  BY <1>4, <1>10, <1>11, FeedOK DEF IInv
<1> HIDE DEF r
<1>13. ServerOK(r)
  BY <1>2, <1>8, <1>10, <1>12, NoneElsewhere, ReplicationAssumption DEF ServerOK, Same
<1>14. srv' = [srv EXCEPT ![s] = r]
  BY <1>4, <1>6, <1>10
<1>15. /\ conn' \in Links
       /\ \A t \in Servers : KeepsLink(conn'[t], c[t]) /\ NoNew(conn'[t], c[t])
  BY <1>2, <1>6, <1>11, FedKept
<1>16. LinkOK(conn'[s], r)
  BY <1>2, <1>10, <1>12, <1>15, NoneElsewhere DEF LinkOK, KeepsLink, Same
<1>17. \A t \in Servers \ {s} : KeepsLink(conn'[t], conn[t])
  BY <1>2, <1>15
<1>18. \A t \in Servers : Serving(conn'[t]) /\ conn'[t].to # s => Serving(conn[t]) /\ conn[t].to = conn'[t].to
  BY <1>2, <1>15 DEF NoNew
<1> QED  BY <1>6, <1>12, <1>13, <1>14, <1>15, <1>16, <1>17, <1>18, StepOK

-----------------------------------------------------------------------------
(* Administration and failures. *)

\* Unset() keeps the invariant.
LEMMA UnsetOK ==
    ASSUME IInv, setup' = setup, NEW s \in Servers, replicationUnsetMaster(s)
    PROVE  IInv'
<1> DEFINE a  == shiftReplicationId(srv[s], FreshId)
           me == [a EXCEPT !.masterhost = NoOne, !.master = None, !.cached_master = None,
                           !.repl_state = "NONE", !.slaveseldb = -1]
<1>1. /\ srv[s] \in ServerTypes /\ ServerOK(srv[s]) /\ setup \in Setups /\ HasId
      /\ srv' = [srv EXCEPT ![s] = me] /\ conn' = DisconnectSlaves([conn EXCEPT ![s] = None], s)
      /\ used' \in Useds
  <2>1. used \in Useds /\ used' = [used EXCEPT !.ids = used.ids + 1, !.roles = used.roles + 1]
    BY DEF replicationUnsetMaster, IInv
  <2>2. used.ids + 1 \in Nat /\ used.roles + 1 \in Nat /\ used.crashes + 1 \in Nat
    BY <2>1 DEF Useds
  <2>3. used' \in Useds
    BY <2>1, <2>2, UsedSet
  <2> QED  BY <2>3 DEF replicationUnsetMaster, IInv
<1>2. FreshId \in Ids
  BY <1>1, FreshOK
<1>3. /\ srv[s].replid \in 0..Limit.ids /\ srv[s].master_repl_offset + 1 \in Int
      /\ "NONE" \in ReplStates /\ -1 \in Int
  BY <1>1, IdsNat DEF ServerTypes, ReplStates
<1>4. a = [srv[s] EXCEPT !.replid2 = srv[s].replid, !.second_replid_offset = srv[s].master_repl_offset + 1,
                         !.replid = FreshId]
  BY DEF shiftReplicationId
<1> HIDE DEF a
<1>5. a \in ServerTypes /\ a.backlog = srv[s].backlog /\ a.master_repl_offset = srv[s].master_repl_offset
  BY <1>1, <1>2, <1>3, <1>4 DEF ServerTypes
<1>6. /\ me \in ServerTypes /\ me.repl_state = "NONE" /\ me.masterhost = NoOne
      /\ me.master = None /\ me.cached_master = None /\ me.backlog = srv[s].backlog
      /\ me.master_repl_offset = srv[s].master_repl_offset
  BY <1>3, <1>5 DEF ServerTypes
<1> HIDE DEF me
<1>7. ServerOK(me)
  BY <1>1, <1>6 DEF ServerOK
<1> QED  BY <1>1, <1>6, <1>7, LeaveOK

\* No server is called NoOne.
LEMMA HostsOnly == ASSUME setup \in Setups  PROVE NoOne \notin Servers /\ Servers \subseteq Hosts
<1>1. setup \in Setup
  BY ReplicationAssumption
<1>2. PICK servers \in SUBSET Hosts : setup.master \in [servers -> servers \cup {NoOne}]
  BY <1>1 DEF Setup
<1>3. Servers = servers
  BY <1>2 DEF Servers
<1> QED  BY <1>3, ReplicationAssumption

\* SetMaster() keeps the invariant.
LEMMA SetMasterOK ==
    ASSUME IInv, setup' = setup, NEW s \in Servers, NEW m \in Servers, replicationSetMaster(s, m)
    PROVE  IInv'
<1> DEFINE a  == IF srv[s].masterhost = NoOne THEN CacheMyself(srv[s]) ELSE LoseMaster(srv[s])
           me == [a EXCEPT !.masterhost = m, !.repl_state = "CONNECT"]
<1>1. /\ srv[s] \in ServerTypes /\ ServerOK(srv[s]) /\ setup \in Setups
      /\ srv' = [srv EXCEPT ![s] = me] /\ conn' = DisconnectSlaves([conn EXCEPT ![s] = None], s)
      /\ used' \in Useds
  BY DEF replicationSetMaster, IInv, Useds
<1>2. /\ a \in ServerTypes /\ a.master = None
      /\ a.backlog # None => a.backlog.off + Len(a.backlog.items) = a.master_repl_offset + 1
      /\ a.cached_master # None => a.replid = a.cached_master.replid /\ a.master_repl_offset = a.cached_master.reploff
  <2>1. CASE srv[s].masterhost = NoOne
    <3> DEFINE cached == [replid |-> srv[s].replid, reploff |-> srv[s].master_repl_offset, db |-> 0]
    <3>1. srv[s].replid \in Ids /\ srv[s].master_repl_offset \in Nat
      BY <1>1 DEF ServerTypes
    <3>2. cached \in Masters /\ cached.replid = srv[s].replid /\ cached.reploff = srv[s].master_repl_offset
      BY <3>1 DEF Masters
    <3> DEFINE start == srv[s].master_repl_offset
    <3>3. a = [srv[s] EXCEPT !.cached_master = cached, !.master_initial_offset = start] /\ start \in Int
      BY <2>1, <3>1 DEF CacheMyself
    <3> HIDE DEF cached, a, start
    <3>4. /\ a \in ServerTypes /\ a.cached_master = cached /\ a.master = srv[s].master /\ a.replid = srv[s].replid
          /\ a.backlog = srv[s].backlog /\ a.master_repl_offset = srv[s].master_repl_offset
      <4>1. a \in ServerTypes
        BY <1>1, <3>1, <3>2, <3>3 DEF ServerTypes
      <4> QED  BY <1>1, <4>1, <3>3 DEF ServerTypes
    <3> QED  BY <1>1, <2>1, <3>2, <3>4 DEF ServerOK
  <2>2. CASE srv[s].masterhost # NoOne
    <3>1. a \in ServerTypes /\ ServerOK(a) /\ a.master = None
      BY <1>1, <2>2, LoseOK
    <3> QED  BY <3>1 DEF ServerOK
  <2> QED  BY <2>1, <2>2
<1> HIDE DEF a
<1>3. "CONNECT" \in ReplStates /\ m # NoOne
  BY <1>1, HostsOnly DEF ReplStates
<1>4. /\ me \in ServerTypes /\ me.repl_state = "CONNECT" /\ me.masterhost = m /\ me.master = None
      /\ me.cached_master = a.cached_master /\ me.backlog = a.backlog
      /\ me.replid = a.replid /\ me.master_repl_offset = a.master_repl_offset
  BY <1>2, <1>3 DEF ServerTypes
<1> HIDE DEF me
<1>5. ServerOK(me)
  BY <1>2, <1>3, <1>4 DEF ServerOK
<1> QED  BY <1>1, <1>4, <1>5, LeaveOK

\* Restart() keeps the invariant.
LEMMA RestartOK ==
    ASSUME IInv, setup' = setup, NEW s \in Servers, Restart(s)
    PROVE  IInv'
<1> DEFINE me == Started(srv[s].masterhost, srv[s].dump, FreshId)
           Cut(k) == [k EXCEPT !.replstate = "CLOSED", !.psync = None, !.buf = <<>>]
<1>1. /\ srv[s] \in ServerTypes /\ ServerOK(srv[s]) /\ setup \in Setups /\ HasId /\ conn \in Links
      /\ srv' = [srv EXCEPT ![s] = me] /\ used' \in Useds
  <2>1. used \in Useds /\ used' = [used EXCEPT !.ids = used.ids + 1, !.crashes = used.crashes + 1]
    BY DEF Restart, IInv
  <2>2. used.ids + 1 \in Nat /\ used.roles + 1 \in Nat /\ used.crashes + 1 \in Nat
    BY <2>1 DEF Useds
  <2>3. used' \in Useds
    BY <2>1, <2>2, UsedSet
  <2> QED  BY <2>3 DEF Restart, IInv
<1>2. \A t \in Servers : conn'[t] = IF t = s THEN None
                                    ELSE IF conn[t] # None /\ conn[t].to = s THEN Cut(conn[t]) ELSE conn[t]
  BY DEF Restart
<1>3. conn' = [t \in Servers |-> conn'[t]]
  BY DEF Restart
<1>4. FreshId \in Ids /\ srv[s].masterhost \in Servers \cup {NoOne} /\ srv[s].dump \in Rdbs
  BY <1>1, FreshOK DEF ServerTypes
<1>5. /\ me \in ServerTypes /\ ServerOK(me) /\ me.backlog = None
      /\ me.repl_state \in {"NONE", "CONNECT"} /\ me.masterhost = srv[s].masterhost
  BY <1>1, <1>4, StartedOK
<1> HIDE DEF me
<1>6. ASSUME NEW k \in Conns  PROVE  KeepsLink(Cut(k), k) /\ ~Serving(Cut(k)) /\ Cut(k) \in Conns
  <2>1. Cut(k) \in Conns
    BY EmptySeq DEF Conns, SlaveStates
  <2>2. Cut(k).to = k.to /\ Cut(k).psync = None /\ Cut(k).down = k.down /\ Cut(k).replstate = "CLOSED"
    BY DEF Conns
  <2> HIDE DEF Cut
  <2> QED  BY <2>1, <2>2, NoneElsewhere DEF KeepsLink, Untouched, NoContinue, Serving
<1> HIDE DEF Cut
<1>7. \A t \in Servers \ {s} : KeepsLink(conn'[t], conn[t]) /\ (Serving(conn'[t]) => conn'[t] = conn[t] /\ conn[t].to # s)
  <2> TAKE t \in Servers \ {s}
  <2>1. conn[t] \in Conns \cup {None}
    BY <1>1 DEF Links
  <2>2. CASE conn[t] # None /\ conn[t].to = s
    BY <2>1, <2>2, <1>2, <1>6
  <2>3. CASE ~(conn[t] # None /\ conn[t].to = s)
    BY <2>1, <2>3, <1>2, KeptItself DEF Serving
  <2> QED  BY <2>2, <2>3
<1>8. conn'[s] = None
  BY <1>2
<1>9. conn' \in Links
  BY <1>3, <1>7, <1>8 DEF Links, KeepsLink
<1>10. LinkOK(conn'[s], me)
  BY <1>5, <1>8 DEF LinkOK
<1>11. \A t \in Servers : ~IsSlaveOf(conn', t, s)
  BY <1>7, <1>8 DEF IsSlaveOf, Serving
<1>12. \A t \in Servers : Serving(conn'[t]) /\ conn'[t].to # s => Serving(conn[t]) /\ conn[t].to = conn'[t].to
  BY <1>7, <1>8 DEF Serving
<1> QED  BY <1>1, <1>5, <1>7, <1>9, <1>10, <1>11, <1>12, StepOK

-----------------------------------------------------------------------------

\* There are enough different IDs for the servers to start with.
LEMMA InitialIds == InitialId \in [Hosts -> 1..Cardinality(Hosts)] /\ Cardinality(Hosts) \in Nat
<1> DEFINE n == Cardinality(Hosts)
           Good(f) == \A s, t \in Hosts : f[s] = f[t] => s = t
<1>1. n \in Nat /\ ExistsBijection(1..n, Hosts)
  BY FS_CardinalityType, ReplicationAssumption
<1> HIDE DEF n
<1>2. PICK g : g \in Bijection(1..n, Hosts)
  BY <1>1 DEF ExistsBijection
<1>3. Inverse(g, 1..n, Hosts) \in Bijection(Hosts, 1..n)
  BY <1>2, Fun_BijInverse
<1>4. PICK f : f \in Bijection(Hosts, 1..n)
  BY <1>3
<1>5. f \in [Hosts -> 1..n] /\ Good(f)
  BY <1>4, Fun_BijectionProperties
<1> HIDE DEF Good
<1>6. (CHOOSE h \in [Hosts -> 1..n] : Good(h)) \in [Hosts -> 1..n]
  BY <1>5
<1> QED  BY <1>1, <1>6 DEF InitialId, n, Good

\* The initial states.
LEMMA InitOK == Init => IInv
<1> SUFFICES ASSUME Init  PROVE IInv
  OBVIOUS
<1>1. setup \in Setups /\ setup \in Setup
  BY ReplicationAssumption DEF Init
<1>2. Cardinality(Hosts) <= Limit.ids /\ Cardinality(Hosts) \in Nat /\ Limit.ids \in Nat
  BY <1>1, ReplicationAssumption, InitialIds, IdsNat DEF Limit
<1>3. used \in Useds
  BY <1>2 DEF Init, Useds
<1>4. \A s \in Servers : setup.master[s] \in Servers \cup {NoOne}
  BY <1>1 DEF Servers, Setup
<1>5. \A s \in Servers : InitialId[s] \in Ids
  <2>1. \A s \in Servers : InitialId[s] \in 1..Cardinality(Hosts)
    BY <1>1, HostsOnly, InitialIds
  <2> QED  BY <2>1, <1>2 DEF Ids
<1>6. \A s \in Servers : /\ srv[s] \in ServerTypes /\ ServerOK(srv[s]) /\ srv[s].repl_state \in {"NONE", "CONNECT"}
  <2> TAKE s \in Servers
  <2>1. srv[s] = Started(setup.master[s], EmptyRdb, InitialId[s])
    BY DEF Init
  <2> QED  BY <2>1, <1>1, <1>4, <1>5, EmptyRdbOK, StartedOK
<1>7. srv \in [Servers -> ServerTypes]
  BY <1>6 DEF Init
<1>8. conn \in Links /\ \A s \in Servers : conn[s] = None
  BY DEF Init, Links
<1>9. \A s \in Servers : LinkOK(conn[s], srv[s])
  BY <1>6, <1>8 DEF LinkOK
<1>10. SlavesHaveBacklog
  BY <1>8 DEF SlavesHaveBacklog, IsSlaveOf
<1> QED  BY <1>1, <1>3, <1>6, <1>7, <1>8, <1>9, <1>10 DEF IInv

\* A step in which nothing changes.
LEMMA StutterOK == ASSUME IInv, UNCHANGED vars  PROVE IInv'
<1>1. setup' = setup /\ srv' = srv /\ conn' = conn /\ used' = used
  BY DEF vars
<1>2. Servers' = Servers /\ Ids' = Ids /\ ServerTypes' = ServerTypes /\ Links' = Links
  BY <1>1, SetsStay
<1>3. \A s \in Servers : ServerOK(srv[s])' /\ LinkOK(conn[s], srv[s])'
  BY <1>1, <1>2 DEF IInv, ServerOK, LinkOK, NoContinue, Untouched
<1>4. SlavesHaveBacklog'
  BY <1>1, <1>2 DEF IInv, SlavesHaveBacklog, IsSlaveOf
<1> QED  BY <1>1, <1>2, <1>3, <1>4 DEF IInv

\* Every action keeps the invariant.
LEMMA NextOK == ASSUME IInv, [Next]_vars  PROVE IInv'
<1>1. CASE UNCHANGED vars
  BY <1>1, StutterOK
<1>2. CASE Next
  <2>1. setup' = setup
    BY <1>2 DEF Next
  <2>2. PICK s \in Servers : MasterStep(s) \/ LinkStep(s) \/ ReplicaStep(s) \/ AdminStep(s)
    BY <1>2 DEF Next
  <2>3. CASE MasterStep(s)
    BY <2>1, <2>3, WriteOK, PingOK, CronBgsaveOK, BgsaveDoneOK, SavesOK, FreeBacklogOK DEF MasterStep
  <2>4. CASE LinkStep(s)
    BY <2>1, <2>4, RefusePsyncOK, PartialResyncOK, FullResyncOK, sendBulkOK, replconfAckOK, TimeoutSlaveOK
       DEF LinkStep
  <2>5. CASE ReplicaStep(s)
    BY <2>1, <2>5, connectOK, SendPsyncOK, ReplyFullResyncOK, ReplyContinueOK, LoadRdbOK, LoadRdbFailsOK,
       ApplyStreamOK, LinkDownOK, ReplyErrorOK DEF ReplicaStep
  <2>6. CASE AdminStep(s)
    BY <2>1, <2>6, UnsetOK, SetMasterOK, RestartOK DEF AdminStep, slaveofCommand
  <2> QED  BY <2>2, <2>3, <2>4, <2>5, <2>6
<1> QED  BY <1>1, <1>2

\* The inductive invariant holds in every state.
LEMMA Invariant == Spec => []IInv
<1>1. IInv /\ [Next]_vars => IInv'
  BY NextOK
<1> QED  BY <1>1, InitOK, PTL DEF Spec

\* In every deployment, whatever the number of servers, the size of the
\* backlog and the number of failures: both ends of every link, the cached
\* master and the backlog fit together (LinkStates).
THEOREM LinksFit == Spec => []LinkStates
<1>1. IInv => LinkStates
  <2> SUFFICES ASSUME IInv  PROVE LinkStates
    OBVIOUS
  <2>1. \A s \in Servers : /\ srv[s] \in ServerTypes /\ ServerOK(srv[s]) /\ LinkOK(conn[s], srv[s])
                           /\ conn[s] \in Conns \cup {None}
    BY DEF IInv, Links
  <2>2. TypeOK
    <3> SUFFICES ASSUME NEW s \in Servers
                 PROVE  /\ srv[s].masterhost \in Servers \cup {NoOne}
                        /\ srv[s].repl_state \in ReplStates
                        /\ srv[s].replid \in 1..Limit.ids /\ srv[s].replid2 \in 0..Limit.ids
                        /\ srv[s].master_repl_offset \in Nat
                        /\ conn[s] # None => conn[s].to \in Servers /\ conn[s].replstate \in SlaveStates
      BY DEF TypeOK
    <3>1. /\ srv[s].masterhost \in Servers \cup {NoOne} /\ srv[s].repl_state \in ReplStates
          /\ srv[s].replid \in Ids /\ srv[s].replid2 \in 0..Limit.ids /\ srv[s].master_repl_offset \in Nat
      BY <2>1 DEF ServerTypes
    <3>2. conn[s] # None => conn[s].to \in Servers /\ conn[s].replstate \in SlaveStates
      BY <2>1 DEF Conns
    <3> QED  BY <3>1, <3>2 DEF Ids
  <2>3. \A s \in Servers : SlavesOf(conn, s) # {} => srv[s].backlog # None
    BY DEF IInv, SlavesHaveBacklog, SlavesOf
  <2> QED  BY <2>1, <2>2, <2>3 DEF LinkStates, ServerOK, LinkOK
<1> QED  BY <1>1, Invariant, PTL

\* A connected replica has its master's replication ID and the offset it has
\* applied, and every backlog ends at the offset of its server: what a later
\* PSYNC is measured against (HistoryAgrees).
THEOREM HistoriesAgree == Spec => []HistoryAgrees
<1>1. IInv => HistoryAgrees
  BY DEF IInv, ServerOK, HistoryAgrees, BacklogAtOffset, ReplicaInHistory
<1> QED  BY <1>1, Invariant, PTL

-----------------------------------------------------------------------------
(***************************************************************************)
(* A replica that has received all that is on its way has its master's     *)
(* data (ReplicaConverges).                                                *)
(*                                                                         *)
(* The argument is about the history of each replication ID: what a server *)
(* of that ID holds at every offset.  No server keeps a history, so the    *)
(* invariant says that there is one for each ID that some backlog has, and *)
(* that every server, RDB file, backlog and message fits it.  A history    *)
(* grows only at its end, by the writes of the one master that has its ID; *)
(* a promoted server begins a new one, the old one up to its offset.       *)
(***************************************************************************)

(* Histories. *)

\* What a server of the history holds at an offset: its data, and the database
\* that the next write goes to.  No write follows directly where that is -1, so
\* that any database may be selected there.
Positions == [data : DataSets, db : Int]

\* A history: its positions, as far as the offset hi.
Histories == [hi : Nat, pos : [Nat -> Positions]]

\* The histories of some of the replication IDs.
IsBook(H) == H \in [DOMAIN H -> Histories] /\ DOMAIN H \subseteq Nat

\* The command leads from the position p to the position q.
Reaches(p, item, q) ==
    /\ item.type = "write" => p.db # -1
    /\ q.data = IF item.type = "write" THEN Append(p.data, <<p.db, item.arg>>) ELSE p.data
    /\ q.db \in {-1, IF item.type = "select" THEN item.arg ELSE p.db}

\* What follows the first n messages is the history's stream from the offset.
Stream(h, off, n, w) ==
    /\ off + Len(w) - n <= h.hi
    /\ \A i \in n + 1 .. Len(w) :
         w[i] \in Items /\ Reaches(h.pos[off + i - n - 1], w[i], h.pos[off + i - n])

\* Data and database at an offset of the history.
At(h, off, data, db) == off <= h.hi /\ data = h.pos[off].data /\ h.pos[off].db \in {-1, db}

\* A file that can be resumed from was saved in a history.
RdbAt(H, rdb) ==
    rdb.stream_db # -1 => /\ rdb.replid \in DOMAIN H
                          /\ At(H[rdb.replid], rdb.offset, rdb.data, rdb.stream_db)

\* What a replica has after loading the file.
Loads(h, off, rdb) == At(h, off, rdb.data, IF rdb.stream_db = -1 THEN 0 ELSE rdb.stream_db)

\* The history of y begins like that of x, up to the offset: what fits there
\* in x fits in y, also when no more writes are made in x.
Shared(H, x, y, off) ==
    /\ x \in DOMAIN H /\ y \in DOMAIN H /\ off <= H[x].hi /\ off <= H[y].hi
    /\ x # y => \A r \in 0..off :
         /\ H[y].pos[r].data = H[x].pos[r].data
         /\ (r = off /\ H[y].pos[r].db = -1) \/ (r < H[x].hi /\ H[y].pos[r].db = H[x].pos[r].db)

\* h2 continues h.  At the end of h, the database may have become undetermined.
Longer(h, h2) ==
    /\ h.hi <= h2.hi
    /\ \A r \in 0..h.hi : /\ h2.pos[r].data = h.pos[r].data
                          /\ h2.pos[r].db = h.pos[r].db \/ (r = h.hi /\ h2.pos[r].db = -1)

\* Histories grow, and the new ones have IDs that were not in use.
Grows(H, H2, u) ==
    /\ DOMAIN H \subseteq DOMAIN H2
    /\ \A x \in DOMAIN H2 : x \in DOMAIN H \/ x > u
    /\ \A x \in DOMAIN H : Longer(H[x], H2[x])

\* What is known of the histories of a book.
LEMMA BookOK ==
    ASSUME NEW H, IsBook(H), NEW x \in DOMAIN H
    PROVE  /\ x \in Nat /\ H[x] \in Histories /\ H[x].hi \in Nat /\ H[x].pos \in [Nat -> Positions]
           /\ \A r \in Nat : H[x].pos[r] \in Positions /\ H[x].pos[r].data \in DataSets /\ H[x].pos[r].db \in Int
<1>1. x \in Nat /\ H[x] \in Histories
  BY DEF IsBook
<1>2. H[x].hi \in Nat /\ H[x].pos \in [Nat -> Positions]
  BY <1>1 DEF Histories
<1>3. \A r \in Nat : H[x].pos[r] \in Positions
  BY <1>2
<1> QED  BY <1>1, <1>2, <1>3 DEF Positions

\* A history continues itself.
LEMMA LongerItself == ASSUME NEW h  PROVE Longer(h, h) \/ ~(h.hi \in Nat)
BY DEF Longer

\* A book that does not change grows.
LEMMA GrowsItself == ASSUME NEW H, IsBook(H), NEW u  PROVE Grows(H, H, u)
<1>1. \A x \in DOMAIN H : H[x].hi \in Nat
  BY BookOK
<1> QED  BY <1>1, LongerItself DEF Grows

\* What fits a history fits one that continues it.
LEMMA AtLonger ==
    ASSUME NEW h \in Histories, NEW h2 \in Histories, Longer(h, h2), NEW off \in Nat, NEW data, NEW db,
           At(h, off, data, db)
    PROVE  At(h2, off, data, db)
<1>1. h.hi \in Nat /\ h2.hi \in Nat
  BY DEF Histories
<1>2. off \in 0..h.hi /\ off <= h2.hi
  BY <1>1 DEF At, Longer
<1> QED  BY <1>2 DEF At, Longer

\* A command still leads from one position to the next.
LEMMA ReachesLonger ==
    ASSUME NEW h \in Histories, NEW h2 \in Histories, Longer(h, h2), NEW r \in Nat, r < h.hi, NEW item,
           Reaches(h.pos[r], item, h.pos[r + 1])
    PROVE  Reaches(h2.pos[r], item, h2.pos[r + 1])
<1>1. h.hi \in Nat
  BY DEF Histories
<1>2. r \in 0..h.hi /\ r + 1 \in 0..h.hi /\ r # h.hi
  BY <1>1
<1>3. /\ h2.pos[r].data = h.pos[r].data /\ h2.pos[r].db = h.pos[r].db
      /\ h2.pos[r + 1].data = h.pos[r + 1].data
      /\ h2.pos[r + 1].db = h.pos[r + 1].db \/ h2.pos[r + 1].db = -1
  BY <1>2 DEF Longer
<1> QED  BY <1>3 DEF Reaches

\* The stream of a history is the stream of one that continues it.
LEMMA StreamLonger ==
    ASSUME NEW h \in Histories, NEW h2 \in Histories, Longer(h, h2), NEW off \in Nat, NEW n \in Nat,
           NEW w \in Seq(Messages), Stream(h, off, n, w)
    PROVE  Stream(h2, off, n, w)
<1>1. h.hi \in Nat /\ h2.hi \in Nat /\ Len(w) \in Nat
  BY LenProperties DEF Histories
<1>2. off + Len(w) - n <= h2.hi
  BY <1>1 DEF Stream, Longer
<1>3. ASSUME NEW i \in n + 1 .. Len(w)
      PROVE  w[i] \in Items /\ Reaches(h2.pos[off + i - n - 1], w[i], h2.pos[off + i - n])
  <2> DEFINE r == off + i - n - 1
  <2>1. r \in Nat /\ r < h.hi /\ r + 1 = off + i - n
    BY <1>1 DEF Stream
  <2>2. w[i] \in Items /\ Reaches(h.pos[r], w[i], h.pos[r + 1])
    BY <2>1 DEF Stream
  <2> HIDE DEF r
  <2>3. Reaches(h2.pos[r], w[i], h2.pos[r + 1])
    BY <2>1, <2>2, ReachesLonger
  <2> QED  BY <2>1, <2>2, <2>3 DEF r
<1> QED  BY <1>2, <1>3 DEF Stream

\* A common beginning stays when histories grow.
LEMMA SharedGrows ==
    ASSUME NEW H, IsBook(H), NEW H2, IsBook(H2), NEW u, Grows(H, H2, u), NEW x, NEW y, NEW off \in Int,
           Shared(H, x, y, off)
    PROVE  Shared(H2, x, y, off)
<1>1. /\ x \in DOMAIN H /\ y \in DOMAIN H /\ x \in DOMAIN H2 /\ y \in DOMAIN H2
      /\ off <= H[x].hi /\ off <= H[y].hi /\ Longer(H[x], H2[x]) /\ Longer(H[y], H2[y])
  BY DEF Shared, Grows
<1>2. H[x].hi \in Nat /\ H[y].hi \in Nat /\ H2[x].hi \in Nat /\ H2[y].hi \in Nat
  BY <1>1, BookOK
<1>3. off <= H2[x].hi /\ off <= H2[y].hi /\ H[x].hi <= H2[x].hi
  BY <1>1, <1>2 DEF Longer
<1>4. ASSUME x # y, NEW r \in 0..off
      PROVE  /\ H2[y].pos[r].data = H2[x].pos[r].data
             /\ (r = off /\ H2[y].pos[r].db = -1) \/ (r < H2[x].hi /\ H2[y].pos[r].db = H2[x].pos[r].db)
  <2>1. r \in 0..H[x].hi /\ r \in 0..H[y].hi
    BY <1>1, <1>2
  <2>2. /\ H2[x].pos[r].data = H[x].pos[r].data /\ H2[y].pos[r].data = H[y].pos[r].data
        /\ r < H[x].hi => H2[x].pos[r].db = H[x].pos[r].db
        /\ H2[y].pos[r].db = H[y].pos[r].db \/ (r = H[y].hi /\ H2[y].pos[r].db = -1)
    BY <1>1, <1>2, <2>1 DEF Longer
  <2>3. /\ H[y].pos[r].data = H[x].pos[r].data
        /\ (r = off /\ H[y].pos[r].db = -1) \/ (r < H[x].hi /\ H[y].pos[r].db = H[x].pos[r].db)
    BY <1>4 DEF Shared
  <2>4. (r < H[x].hi => r < H2[x].hi) /\ (r = H[y].hi => r = off)
    BY <2>1, <1>1, <1>2, <1>3
  <2> QED  BY <2>2, <2>3, <2>4
<1> QED  BY <1>1, <1>3, <1>4 DEF Shared

\* What fits a history fits one that shares the offset.
LEMMA AtShared ==
    ASSUME NEW H, IsBook(H), NEW x, NEW y, NEW off \in Nat, Shared(H, x, y, off), NEW data, NEW db,
           At(H[x], off, data, db)
    PROVE  At(H[y], off, data, db)
<1>1. CASE x = y
  BY <1>1
<1>2. CASE x # y
  <2>1. off \in 0..off
    OBVIOUS
  <2> QED  BY <1>2, <2>1 DEF Shared, At
<1> QED  BY <1>1, <1>2

\* A shorter common beginning.
LEMMA SharedLess ==
    ASSUME NEW H, IsBook(H), NEW x, NEW y, NEW off \in Int, NEW o \in Int, o <= off, Shared(H, x, y, off)
    PROVE  Shared(H, x, y, o)
<1>1. x \in DOMAIN H /\ y \in DOMAIN H /\ H[x].hi \in Nat /\ H[y].hi \in Nat
  BY BookOK DEF Shared
<1>2. o <= H[x].hi /\ o <= H[y].hi
  BY <1>1 DEF Shared
<1>3. ASSUME x # y, NEW r \in 0..o
      PROVE  /\ H[y].pos[r].data = H[x].pos[r].data
             /\ (r = o /\ H[y].pos[r].db = -1) \/ (r < H[x].hi /\ H[y].pos[r].db = H[x].pos[r].db)
  <2>1. r \in 0..off /\ (r = off => r = o)
    OBVIOUS
  <2> QED  BY <1>3, <2>1 DEF Shared
<1> QED  BY <1>1, <1>2, <1>3 DEF Shared

\* The stream up to an offset that is shared.
LEMMA StreamShared ==
    ASSUME NEW H, IsBook(H), NEW x, NEW y, NEW off \in Nat, NEW w \in Seq(Messages), Stream(H[x], off, 0, w),
           Shared(H, x, y, off + Len(w))
    PROVE  Stream(H[y], off, 0, w)
<1>1. x \in DOMAIN H /\ y \in DOMAIN H /\ H[x].hi \in Nat /\ H[y].hi \in Nat /\ Len(w) \in Nat
  BY BookOK, LenProperties DEF Shared
<1>2. off + Len(w) - 0 <= H[y].hi
  BY <1>1 DEF Shared
<1>3. ASSUME x # y, NEW i \in 0 + 1 .. Len(w)
      PROVE  w[i] \in Items /\ Reaches(H[y].pos[off + i - 0 - 1], w[i], H[y].pos[off + i - 0])
  <2> DEFINE r == off + i - 0 - 1
             e == off + Len(w)
  <2>1. r \in 0..e /\ r + 1 \in 0..e /\ r # e /\ off + i - 0 = r + 1
    BY <1>1
  <2>2. w[i] \in Items /\ Reaches(H[x].pos[r], w[i], H[x].pos[r + 1])
    BY <2>1 DEF Stream
  <2>3. Shared(H, x, y, e)
    OBVIOUS
  <2> HIDE DEF r, e
  <2>4. /\ H[y].pos[r].data = H[x].pos[r].data /\ H[y].pos[r].db = H[x].pos[r].db
        /\ H[y].pos[r + 1].data = H[x].pos[r + 1].data
        /\ H[y].pos[r + 1].db = -1 \/ H[y].pos[r + 1].db = H[x].pos[r + 1].db
    BY <1>3, <2>1, <2>3 DEF Shared
  <2>5. Reaches(H[y].pos[r], w[i], H[y].pos[r + 1])
    BY <2>2, <2>4 DEF Reaches
  <2> QED  BY <2>1, <2>2, <2>5 DEF r
<1>4. CASE x = y
  BY <1>4
<1>5. CASE x # y
  BY <1>5, <1>2, <1>3 DEF Stream
<1> QED  BY <1>4, <1>5

\* A file still fits when histories grow.
LEMMA RdbGrows ==
    ASSUME NEW H, IsBook(H), NEW H2, IsBook(H2), NEW u, Grows(H, H2, u), NEW rdb \in Rdbs, RdbAt(H, rdb)
    PROVE  RdbAt(H2, rdb)
<1> SUFFICES ASSUME rdb.stream_db # -1
             PROVE  rdb.replid \in DOMAIN H2 /\ At(H2[rdb.replid], rdb.offset, rdb.data, rdb.stream_db)
  BY DEF RdbAt
<1>1. rdb.replid \in DOMAIN H /\ At(H[rdb.replid], rdb.offset, rdb.data, rdb.stream_db)
  BY DEF RdbAt
<1>2. rdb.replid \in DOMAIN H2 /\ Longer(H[rdb.replid], H2[rdb.replid])
  BY <1>1 DEF Grows
<1>3. H[rdb.replid] \in Histories /\ H2[rdb.replid] \in Histories /\ rdb.offset \in Nat
  BY <1>1, <1>2, BookOK DEF Rdbs
<1> QED  BY <1>1, <1>2, <1>3, AtLonger

-----------------------------------------------------------------------------
(* Servers and links in the histories. *)

\* The one server that writes in its history.
Owner(me) == me.masterhost = NoOne /\ me.backlog # None

\* A master is at the end of its history.
MasterAt(h, me) == /\ h.hi = me.master_repl_offset /\ h.pos[h.hi].data = me.data
                   /\ h.pos[h.hi].db = me.slaveseldb

\* The backlog holds the last commands of the server's history.
BacklogAt(H, me) == /\ me.replid \in DOMAIN H /\ me.backlog.off >= 1
                    /\ Stream(H[me.replid], me.backlog.off - 1, 0, me.backlog.items)

\* A server fits the histories.  The ID of a master without backlog is no one
\* else's, unless it had a backlog that was freed (ttl).
ServerAt(H, me, ttl) ==
    /\ me.backlog # None => BacklogAt(H, me)
    /\ Owner(me) => MasterAt(H[me.replid], me)
    /\ me.masterhost = NoOne /\ me.backlog = None /\ ~ttl => me.replid \notin DOMAIN H
    /\ me.masterhost # NoOne /\ me.backlog # None => me.master # None \/ me.cached_master # None
    /\ me.master # None => At(H[me.replid], me.master_repl_offset, me.data, me.master.db)
    /\ me.cached_master # None /\ me.replid \in DOMAIN H =>
         At(H[me.replid], me.master_repl_offset, me.data, me.cached_master.db)
    /\ me.replid \in DOMAIN H /\ (me.backlog # None \/ me.cached_master # None) /\ me.replid2 # ZeroId =>
         Shared(H, me.replid2, me.replid, me.second_replid_offset - 1)
    /\ RdbAt(H, me.dump)
    /\ me.rdb_child # None => RdbAt(H, me.rdb_child.rdb)

\* The messages w that come to the replica begin with n replies, and then the
\* stream of the history id from the offset off follows.
Header(me, w, id, off, n) ==
    \/ /\ me.repl_state = "CONNECTED" /\ n = 0 /\ id = me.replid /\ off = me.master_repl_offset
    \/ /\ me.repl_state = "TRANSFER" /\ n = 1 /\ Len(w) >= 1 /\ w[1].type = "RDB"
       /\ id = me.master_replid /\ off = me.master_initial_offset
    \/ /\ me.repl_state = "RECEIVE_PSYNC" /\ n = 1 /\ Len(w) >= 1 /\ w[1].type = "CONTINUE"
       /\ id = w[1].replid /\ off = me.master_repl_offset
    \/ /\ me.repl_state = "RECEIVE_PSYNC" /\ n = 2 /\ Len(w) >= 2 /\ w[1].type = "FULLRESYNC"
       /\ w[2].type = "RDB" /\ id = w[1].replid /\ off = w[1].offset

\* The replies put the replica at that offset of that history.
HeaderAt(H, me, w, id, off, n) ==
    /\ id \in DOMAIN H
    /\ n >= 1 /\ w[n].type = "RDB" => Loads(H[id], off, w[n].rdb) /\ RdbAt(H, w[n].rdb)
    /\ n = 1 /\ w[1].type = "CONTINUE" => me.cached_master # None /\ Shared(H, me.replid, id, off)

\* The replies and the stream behind them are those of the history.
Good(H, me, w, id, off, n) ==
    Header(me, w, id, off, n) /\ HeaderAt(H, me, w, id, off, n) /\ Stream(H[id], off, n, w)

\* The messages lead the replica to this offset of this history.
Leads(H, me, w, id, end) ==
    \E off \in Nat, n \in 0..2 : Good(H, me, w, id, off, n) /\ off + Len(w) - n = end

\* No stream comes: there is no answer yet, or an error.
Silent(me, w) ==
    /\ me.repl_state # "CONNECTED"
    /\ \/ Len(w) = 0
       \/ Len(w) >= 1 /\ w[1].type \in {"ERR", "NOMASTERLINK"}
       \/ /\ me.repl_state = "RECEIVE_PSYNC" /\ Len(w) >= 1 /\ w[1].type = "FULLRESYNC"
          /\ Len(w) = 1 \/ (Len(w) >= 2 /\ w[2].type = "ERR")

\* Nothing comes, or what comes leads the replica somewhere in a history.
WayOK(H, me, w) == Silent(me, w) \/ \E id \in DOMAIN H, end \in Nat : Leads(H, me, w, id, end)

\* What is on its way over a link: sent, the file of the save the slave waits
\* for or is being sent, and what is buffered behind it.
FileMsg(rdb) == [type |-> "RDB", rdb |-> rdb]
\* The file that the slave waits for, or is being sent.
Pending(k, child) == IF k.replstate = "WAIT_BGSAVE_END" THEN <<FileMsg(child.rdb)>>
                     ELSE IF k.replstate = "SEND_BULK" THEN <<FileMsg(k.rdb)>> ELSE <<>>
\* All that is on its way over the link.
Coming(k, child) == (k.down \o Pending(k, child)) \o k.buf

\* The slave has been told what to expect, and follows its master.
Follows(k) == k.replstate \in {"WAIT_BGSAVE_END", "SEND_BULK", "ONLINE"}

\* What the parts of a link say of each other.
ShapeOK(k, me) ==
    /\ k.psync # None => /\ me.repl_state = "RECEIVE_PSYNC" /\ k.replstate = "NONE" /\ k.down = <<>>
                         /\ k.psync = PsyncArgs(me)
    /\ k.replstate \in {"NONE", "WAIT_BGSAVE_START", "CLOSED"} => k.buf = <<>>
    /\ k.on_ack => k.replstate \in {"ONLINE", "CLOSED"}
    /\ k.replstate = "ONLINE" /\ ~k.on_ack => k.buf = <<>>
    /\ k.replstate = "WAIT_BGSAVE_START" => me.repl_state = "RECEIVE_PSYNC" /\ k.down = <<>>

\* A slave that waits for a save: its file, and then its buffer, lead from the
\* offset of the save to the master's.
Waits(H, k, m) ==
    /\ m.rdb_child # None /\ m.replid \in DOMAIN H
    /\ Loads(H[m.replid], k.init, m.rdb_child.rdb)
    /\ Stream(H[m.replid], k.init, 0, k.buf) /\ k.init + Len(k.buf) = m.master_repl_offset

\* The link of the server me to the server m.
LinkAt(H, k, me, m) ==
    /\ ShapeOK(k, me)
    /\ k.replstate = "WAIT_BGSAVE_END" => Waits(H, k, m)
    /\ Follows(k) => Leads(H, me, Coming(k, m.rdb_child), m.replid, m.master_repl_offset)
    /\ ~Follows(k) => WayOK(H, me, k.down)

\* Servers and links fit the histories H; IDs up to u are in use.
FitsIn(H, sv, cn, u) ==
    /\ IsBook(H) /\ DOMAIN H \subseteq 1..u
    /\ \A s \in Servers : sv[s].replid <= u /\ ServerAt(H, sv[s], setup.ttl)
    /\ \A s, t \in Servers : Owner(sv[s]) /\ Owner(sv[t]) /\ sv[s].replid = sv[t].replid => s = t
    /\ \A s \in Servers : cn[s] # None => LinkAt(H, cn[s], sv[s], sv[cn[s].to])
    /\ \A s \in Servers : Serving(cn[s]) => cn[s].to # s

\* What is on its way is a sequence of messages.
LEMMA ComingOK ==
    ASSUME NEW k \in Conns, NEW child \in Children \cup {None}, k.replstate = "WAIT_BGSAVE_END" => child # None
    PROVE  /\ Coming(k, child) \in Seq(Messages) /\ k.down \in Seq(Messages) /\ k.buf \in Seq(Messages)
           /\ k.buf \in Seq(Items) /\ Pending(k, child) \in Seq(Messages) /\ Len(k.buf) \in Nat
           /\ Len(Coming(k, child)) = Len(k.down) + Len(Pending(k, child)) + Len(k.buf)
<1>1. k.down \in Seq(Messages) /\ k.buf \in Seq(Items) /\ k.rdb \in Rdbs
  BY DEF Conns
<1>2. k.buf \in Seq(Messages)
  BY <1>1, PlainItems, SeqMonotonic
<1>3. child # None => child.rdb \in Rdbs
  BY DEF Children
<1>4. \A rdb \in Rdbs : FileMsg(rdb) \in Messages
  BY DEF FileMsg, Messages
<1>5. Pending(k, child) \in Seq(Messages)
  <2>1. CASE k.replstate = "WAIT_BGSAVE_END"
    <3>1. FileMsg(child.rdb) \in Messages
      BY <1>3, <1>4, <2>1
    <3> QED  BY <2>1, <3>1 DEF Pending
  <2>2. CASE k.replstate = "SEND_BULK"
    <3>1. FileMsg(k.rdb) \in Messages
      BY <1>1, <1>4
    <3> QED  BY <2>2, <3>1 DEF Pending
  <2>3. CASE k.replstate \notin {"WAIT_BGSAVE_END", "SEND_BULK"}
    BY <2>3, EmptySeq DEF Pending
  <2> QED  BY <2>1, <2>2, <2>3
<1>6. k.down \o Pending(k, child) \in Seq(Messages) /\ Len(k.down \o Pending(k, child)) = Len(k.down) + Len(Pending(k, child))
  BY <1>1, <1>5, ConcatProperties
<1>7. Coming(k, child) \in Seq(Messages) /\ Len(Coming(k, child)) = Len(k.down \o Pending(k, child)) + Len(k.buf)
  BY <1>2, <1>6, ConcatProperties DEF Coming
<1> QED  BY <1>1, <1>2, <1>5, <1>6, <1>7, LenProperties

-----------------------------------------------------------------------------
(* What is on its way. *)

\* The fields of a replica that its way depends on.
SameWay(me2, me) ==
    /\ me2.repl_state = me.repl_state /\ me2.replid = me.replid
    /\ me2.master_repl_offset = me.master_repl_offset /\ me2.master_replid = me.master_replid
    /\ me2.master_initial_offset = me.master_initial_offset /\ me2.cached_master = me.cached_master

\* Where messages lead depends on these fields only.
LEMMA LeadsSame ==
    ASSUME NEW H, NEW me, NEW me2, SameWay(me2, me), NEW w, NEW id, NEW end, Leads(H, me, w, id, end)
    PROVE  Leads(H, me2, w, id, end)
BY DEF Leads, Good, Header, HeaderAt, SameWay

\* Whether messages are in order depends on these fields only.
LEMMA WaySame ==
    ASSUME NEW H, NEW me, NEW me2, SameWay(me2, me), NEW w, WayOK(H, me, w)
    PROVE  WayOK(H, me2, w)
<1>1. CASE Silent(me, w)
  BY <1>1 DEF Silent, WayOK, SameWay
<1>2. CASE \E id \in DOMAIN H, end \in Nat : Leads(H, me, w, id, end)
  BY <1>2, LeadsSame DEF WayOK
<1> QED  BY <1>1, <1>2 DEF WayOK

\* The replies are typed.
LEMMA HeaderTypes ==
    ASSUME NEW me, NEW w \in Seq(Messages), NEW id, NEW off, NEW n, Header(me, w, id, off, n)
    PROVE  n \in 0..2 /\ n <= Len(w) /\ (n >= 1 /\ w[n].type = "RDB" => w[n].rdb \in Rdbs)
<1>1. Len(w) \in Nat /\ \A i \in 1..Len(w) : w[i] \in Messages
  BY LenProperties, ElementOfSeq
<1>2. n \in 0..2 /\ n <= Len(w)
  BY <1>1 DEF Header
<1>3. ASSUME n >= 1, w[n].type = "RDB"  PROVE w[n].rdb \in Rdbs
  <2>1. w[n] \in Messages
    BY <1>1, <1>2, <1>3
  <2> DEFINE msg == w[n]
  <2> HIDE DEF msg
  <2>2. msg \in Messages /\ msg.type = "RDB"
    BY <2>1, <1>3 DEF msg
  <2>3. msg \in [type : {"RDB"}, rdb : Rdbs]
    BY <2>2 DEF Messages, Items, StreamTypes
  <2> QED  BY <2>3 DEF msg
<1> QED  BY <1>2, <1>3

\* Messages lead to the same offset when histories grow.
LEMMA LeadsGrows ==
    ASSUME NEW H, IsBook(H), NEW H2, IsBook(H2), NEW u, Grows(H, H2, u), NEW me, NEW w \in Seq(Messages),
           NEW id, NEW end, Leads(H, me, w, id, end)
    PROVE  Leads(H2, me, w, id, end)
<1>1. PICK off \in Nat, n \in 0..2 : Good(H, me, w, id, off, n) /\ off + Len(w) - n = end
  BY DEF Leads
<1>2. Header(me, w, id, off, n) /\ HeaderAt(H, me, w, id, off, n) /\ Stream(H[id], off, n, w)
  BY <1>1 DEF Good
<1>3. id \in DOMAIN H /\ id \in DOMAIN H2 /\ Longer(H[id], H2[id])
  BY <1>2 DEF HeaderAt, Grows
<1>4. H[id] \in Histories /\ H2[id] \in Histories
  BY <1>3, BookOK
<1>5. Stream(H2[id], off, n, w)
  <2>1. n \in Nat
    OBVIOUS
  <2> QED  BY <1>2, <1>3, <1>4, <2>1, StreamLonger
<1>6. n >= 1 /\ w[n].type = "RDB" => Loads(H2[id], off, w[n].rdb) /\ RdbAt(H2, w[n].rdb)
  <2> SUFFICES ASSUME n >= 1, w[n].type = "RDB"  PROVE Loads(H2[id], off, w[n].rdb) /\ RdbAt(H2, w[n].rdb)
    OBVIOUS
  <2>1. w[n].rdb \in Rdbs
    BY <1>2, HeaderTypes
  <2>2. Loads(H[id], off, w[n].rdb) /\ RdbAt(H, w[n].rdb)
    BY <1>2 DEF HeaderAt
  <2>3. RdbAt(H2, w[n].rdb)
    BY <2>1, <2>2, RdbGrows
  <2>4. Loads(H2[id], off, w[n].rdb)
    BY <2>2, <1>3, <1>4, AtLonger DEF Loads
  <2> QED  BY <2>3, <2>4
<1>7. n = 1 /\ w[1].type = "CONTINUE" => me.cached_master # None /\ Shared(H2, me.replid, id, off)
  BY <1>2, SharedGrows DEF HeaderAt
<1>8. HeaderAt(H2, me, w, id, off, n)
  BY <1>3, <1>6, <1>7 DEF HeaderAt
<1> QED  BY <1>1, <1>2, <1>5, <1>8 DEF Leads, Good

\* Messages in order are in order when histories grow.
LEMMA WayGrows ==
    ASSUME NEW H, IsBook(H), NEW H2, IsBook(H2), NEW u, Grows(H, H2, u), NEW me, NEW w \in Seq(Messages),
           WayOK(H, me, w)
    PROVE  WayOK(H2, me, w)
<1>1. CASE Silent(me, w)
  BY <1>1 DEF WayOK
<1>2. CASE \E id \in DOMAIN H, end \in Nat : Leads(H, me, w, id, end)
  BY <1>2, LeadsGrows DEF WayOK, Grows
<1> QED  BY <1>1, <1>2 DEF WayOK

\* A stream, and what follows it.
LEMMA StreamConcat ==
    ASSUME NEW h \in Histories, NEW off \in Nat, NEW n \in Nat, NEW w \in Seq(Messages), n <= Len(w),
           NEW items \in Seq(Messages), Stream(h, off, n, w), Stream(h, off + Len(w) - n, 0, items)
    PROVE  Stream(h, off, n, w \o items)
<1> DEFINE q == w \o items
<1>1. /\ Len(w) \in Nat /\ Len(items) \in Nat /\ Len(q) = Len(w) + Len(items) /\ h.hi \in Nat
      /\ \A i \in 1..Len(w) + Len(items) : q[i] = IF i <= Len(w) THEN w[i] ELSE items[i - Len(w)]
  BY LenProperties, ConcatProperties DEF Histories
<1>2. off + Len(q) - n <= h.hi
  BY <1>1 DEF Stream
<1>3. ASSUME NEW i \in n + 1 .. Len(q)
      PROVE  q[i] \in Items /\ Reaches(h.pos[off + i - n - 1], q[i], h.pos[off + i - n])
  <2>1. CASE i <= Len(w)
    <3>1. i \in n + 1 .. Len(w) /\ q[i] = w[i]
      BY <1>1, <2>1
    <3> QED  BY <3>1 DEF Stream
  <2>2. CASE ~(i <= Len(w))
    <3> DEFINE j == i - Len(w)
               o == off + Len(w) - n
    <3>1. j \in 0 + 1 .. Len(items) /\ q[i] = items[j]
      BY <1>1, <2>2
    <3>2. items[j] \in Items /\ Reaches(h.pos[o + j - 0 - 1], items[j], h.pos[o + j - 0])
      BY <3>1 DEF Stream
    <3>3. o + j - 0 - 1 = off + i - n - 1 /\ o + j - 0 = off + i - n
      BY <1>1, <2>2
    <3> HIDE DEF j, o
    <3> QED  BY <3>1, <3>2, <3>3
  <2> QED  BY <2>1, <2>2
<1> HIDE DEF q
<1> QED  BY <1>2, <1>3 DEF Stream, q

\* A part of the messages is a part of the stream.
LEMMA StreamPrefix ==
    ASSUME NEW h \in Histories, NEW off \in Nat, NEW n \in Nat, NEW w \in Seq(Messages), n <= Len(w),
           NEW v \in Seq(Messages), Stream(h, off, n, w \o v)
    PROVE  Stream(h, off, n, w)
<1>1. /\ Len(w) \in Nat /\ Len(v) \in Nat /\ Len(w \o v) = Len(w) + Len(v) /\ h.hi \in Nat
      /\ \A i \in 1..Len(w) + Len(v) : (w \o v)[i] = IF i <= Len(w) THEN w[i] ELSE v[i - Len(w)]
  BY LenProperties, ConcatProperties DEF Histories
<1>2. off + Len(w) - n <= h.hi
  BY <1>1 DEF Stream
<1>3. \A i \in n + 1 .. Len(w) : i \in n + 1 .. Len(w \o v) /\ (w \o v)[i] = w[i]
  BY <1>1
<1> QED  BY <1>2, <1>3 DEF Stream

\* The part of a stream from one of its commands on.
LEMMA StreamFrom ==
    ASSUME NEW h \in Histories, NEW off \in Nat, NEW w \in Seq(Messages), NEW a \in 1 .. Len(w) + 1,
           Stream(h, off, 0, w)
    PROVE  /\ SubSeq(w, a, Len(w)) \in Seq(Messages) /\ Len(SubSeq(w, a, Len(w))) = Len(w) - a + 1
           /\ Stream(h, off + a - 1, 0, SubSeq(w, a, Len(w)))
<1> DEFINE v == SubSeq(w, a, Len(w))
<1>1. Len(w) \in Nat /\ h.hi \in Nat /\ \A i \in a..Len(w) : w[i] \in Messages
  BY LenProperties, ElementOfSeq DEF Histories
<1>2. /\ v \in Seq(Messages) /\ Len(v) = Len(w) - a + 1
      /\ \A i \in 1..Len(w) - a + 1 : v[i] = w[a + i - 1]
  BY <1>1, SubSeqProperties
<1> HIDE DEF v
<1>3. off + a - 1 + Len(v) - 0 <= h.hi
  BY <1>1, <1>2 DEF Stream
<1>4. ASSUME NEW i \in 0 + 1 .. Len(v)
      PROVE  v[i] \in Items /\ Reaches(h.pos[off + a - 1 + i - 0 - 1], v[i], h.pos[off + a - 1 + i - 0])
  <2> DEFINE j == a + i - 1
  <2>1. j \in 0 + 1 .. Len(w) /\ v[i] = w[j]
    BY <1>1, <1>2
  <2>2. w[j] \in Items /\ Reaches(h.pos[off + j - 0 - 1], w[j], h.pos[off + j - 0])
    BY <2>1 DEF Stream
  <2>3. off + j - 0 - 1 = off + a - 1 + i - 0 - 1 /\ off + j - 0 = off + a - 1 + i - 0
    BY <1>2
  <2> HIDE DEF j
  <2> QED  BY <2>1, <2>2, <2>3
<1> QED  BY <1>2, <1>3, <1>4 DEF Stream, v

\* The first message has been read.
LEMMA StreamTail ==
    ASSUME NEW h \in Histories, NEW off \in Nat, NEW n \in Nat, NEW w \in Seq(Messages), Len(w) >= 1,
           Stream(h, off, n, w)
    PROVE  /\ Tail(w) \in Seq(Messages) /\ Len(Tail(w)) = Len(w) - 1
           /\ \A i \in 1 .. Len(w) - 1 : Tail(w)[i] = w[i + 1]
           /\ n >= 1 => Stream(h, off, n - 1, Tail(w))
           /\ n = 0 => Stream(h, off + 1, 0, Tail(w))
<1>1. Len(w) \in Nat /\ w # <<>> /\ h.hi \in Nat
  BY LenProperties, EmptySeq DEF Histories
<1>2. Tail(w) \in Seq(Messages) /\ Len(Tail(w)) = Len(w) - 1 /\ \A i \in 1 .. Len(Tail(w)) : Tail(w)[i] = w[i + 1]
  BY <1>1, HeadTailProperties
<1> DEFINE v == Tail(w)
<1> HIDE DEF v
<1>3. v \in Seq(Messages) /\ Len(v) = Len(w) - 1 /\ \A i \in 1 .. Len(v) : v[i] = w[i + 1]
  BY <1>2 DEF v
<1>4. ASSUME n >= 1  PROVE Stream(h, off, n - 1, v)
  <2>1. off + Len(v) - (n - 1) <= h.hi
    BY <1>1, <1>3 DEF Stream
  <2>2. ASSUME NEW i \in n - 1 + 1 .. Len(v)
        PROVE  v[i] \in Items /\ Reaches(h.pos[off + i - (n - 1) - 1], v[i], h.pos[off + i - (n - 1)])
    <3> DEFINE j == i + 1
    <3>1. j \in n + 1 .. Len(w) /\ v[i] = w[j]
      BY <1>1, <1>3, <1>4
    <3>2. w[j] \in Items /\ Reaches(h.pos[off + j - n - 1], w[j], h.pos[off + j - n])
      BY <3>1 DEF Stream
    <3>3. off + j - n - 1 = off + i - (n - 1) - 1 /\ off + j - n = off + i - (n - 1)
      BY <1>3
    <3> HIDE DEF j
    <3> QED  BY <3>1, <3>2, <3>3
  <2> QED  BY <2>1, <2>2 DEF Stream
<1>5. ASSUME n = 0  PROVE Stream(h, off + 1, 0, v)
  <2>1. off + 1 + Len(v) - 0 <= h.hi
    BY <1>1, <1>3, <1>5 DEF Stream
  <2>2. ASSUME NEW i \in 0 + 1 .. Len(v)
        PROVE  v[i] \in Items /\ Reaches(h.pos[off + 1 + i - 0 - 1], v[i], h.pos[off + 1 + i - 0])
    <3> DEFINE j == i + 1
    <3>1. j \in n + 1 .. Len(w) /\ v[i] = w[j]
      BY <1>1, <1>3, <1>5
    <3>2. w[j] \in Items /\ Reaches(h.pos[off + j - n - 1], w[j], h.pos[off + j - n])
      BY <3>1 DEF Stream
    <3>3. off + j - n - 1 = off + 1 + i - 0 - 1 /\ off + j - n = off + 1 + i - 0
      BY <1>1, <1>3, <1>5
    <3> HIDE DEF j
    <3> QED  BY <3>1, <3>2, <3>3
  <2> QED  BY <2>1, <2>2 DEF Stream
<1> QED  BY <1>2, <1>3, <1>4, <1>5 DEF v

\* No commands are a stream anywhere in the history.
LEMMA StreamNone ==
    ASSUME NEW h \in Histories, NEW off \in Nat, off <= h.hi
    PROVE  Stream(h, off, 0, <<>>)
BY EmptySeq DEF Stream

\* The first messages of a longer sequence.
LEMMA HeaderMore ==
    ASSUME NEW w \in Seq(Messages), NEW v \in Seq(Messages)
    PROVE  /\ w \o v \in Seq(Messages) /\ Len(w \o v) = Len(w) + Len(v) /\ Len(w) \in Nat /\ Len(v) \in Nat
           /\ \A i \in 1..Len(w) : (w \o v)[i] = w[i]
           /\ \A i \in 1..Len(v) : (w \o v)[Len(w) + i] = v[i]
<1>1. /\ w \o v \in Seq(Messages) /\ Len(w \o v) = Len(w) + Len(v) /\ Len(w) \in Nat /\ Len(v) \in Nat
      /\ \A i \in 1..Len(w) + Len(v) : (w \o v)[i] = IF i <= Len(w) THEN w[i] ELSE v[i - Len(w)]
  BY LenProperties, ConcatProperties
<1>2. ASSUME NEW i \in 1..Len(v)  PROVE (w \o v)[Len(w) + i] = v[i]
  <2>1. Len(w) + i \in 1..Len(w) + Len(v) /\ ~(Len(w) + i <= Len(w)) /\ Len(w) + i - Len(w) = i
    BY <1>1
  <2> QED  BY <1>1, <2>1
<1> QED  BY <1>1, <1>2

\* More of the stream follows.
LEMMA LeadsMore ==
    ASSUME NEW H, IsBook(H), NEW me, NEW w \in Seq(Messages), NEW id, NEW end \in Nat, Leads(H, me, w, id, end),
           NEW items \in Seq(Messages), Stream(H[id], end, 0, items)
    PROVE  Leads(H, me, w \o items, id, end + Len(items))
<1>1. PICK off \in Nat, n \in 0..2 : Good(H, me, w, id, off, n) /\ off + Len(w) - n = end
  BY DEF Leads
<1>2. Header(me, w, id, off, n) /\ HeaderAt(H, me, w, id, off, n) /\ Stream(H[id], off, n, w)
  BY <1>1 DEF Good
<1>3. n <= Len(w) /\ n \in Nat /\ id \in DOMAIN H /\ H[id] \in Histories
  BY <1>2, HeaderTypes, BookOK DEF HeaderAt
<1> DEFINE q == w \o items
<1>4. /\ Len(q) = Len(w) + Len(items) /\ Len(w) \in Nat /\ Len(items) \in Nat
      /\ \A i \in 1..Len(w) : q[i] = w[i]
  BY HeaderMore
<1>5. Stream(H[id], off, n, q)
  BY <1>1, <1>2, <1>3, StreamConcat
<1> HIDE DEF q
<1>6. Len(w) >= 1 => q[1] = w[1]
  BY <1>4
<1>7. Len(w) >= 2 => q[2] = w[2]
  BY <1>4
<1>8. Header(me, q, id, off, n)
  BY <1>2, <1>4, <1>6, <1>7 DEF Header
<1>9. n >= 1 => q[n] = w[n]
  BY <1>3, <1>4
<1>10. HeaderAt(H, me, q, id, off, n)
  BY <1>2, <1>3, <1>9 DEF HeaderAt
<1>11. off + Len(q) - n = end + Len(items)
  BY <1>1, <1>4
<1> QED  BY <1>5, <1>8, <1>10, <1>11 DEF Leads, Good, q

\* Replies are at most two.
LEMMA FewReplies ==
    ASSUME NEW n \in 0..2, NEW l \in Nat, ~(n <= l)
    PROVE  n # 0 /\ (l = 0 \/ (l = 1 /\ n = 2))
<1>1. n = 0 \/ n = 1 \/ n = 2
  OBVIOUS
<1>2. l < n
  BY <1>1
<1>3. l = 0 \/ l = 1
  BY <1>1, <1>2
<1> QED  BY <1>1, <1>2, <1>3

\* What was only buffered is lost.
LEMMA LeadsPrefix ==
    ASSUME NEW H, IsBook(H), NEW me, NEW w \in Seq(Messages), NEW v \in Seq(Messages), NEW id, NEW end,
           Leads(H, me, w \o v, id, end)
    PROVE  WayOK(H, me, w)
<1> DEFINE q == w \o v
<1>1. PICK off \in Nat, n \in 0..2 : Good(H, me, q, id, off, n) /\ off + Len(q) - n = end
  BY DEF Leads
<1>2. Header(me, q, id, off, n) /\ HeaderAt(H, me, q, id, off, n) /\ Stream(H[id], off, n, q)
  BY <1>1 DEF Good
<1>3. /\ q \in Seq(Messages) /\ Len(q) = Len(w) + Len(v) /\ Len(w) \in Nat /\ Len(v) \in Nat
      /\ \A i \in 1..Len(w) : q[i] = w[i]
  BY HeaderMore
<1>4. n <= Len(q) /\ n \in Nat /\ id \in DOMAIN H /\ H[id] \in Histories
  <2> HIDE DEF q
  <2>1. n <= Len(q)
    BY <1>2, <1>3, HeaderTypes
  <2>2. id \in DOMAIN H
    BY <1>2 DEF HeaderAt
  <2> QED  BY <2>1, <2>2, BookOK
<1>5. CASE n <= Len(w)
  <2>1. Stream(H[id], off, n, w)
    BY <1>2, <1>4, <1>5, StreamPrefix
  <2> HIDE DEF q
  <2>2. Len(w) >= 1 => q[1] = w[1]
    BY <1>3
  <2>3. Len(w) >= 2 => q[2] = w[2]
    BY <1>3
  <2>4. Header(me, w, id, off, n)
    BY <1>2, <1>3, <1>5, <2>2, <2>3 DEF Header
  <2>5. n >= 1 => q[n] = w[n]
    BY <1>3, <1>4, <1>5
  <2>6. HeaderAt(H, me, w, id, off, n)
    BY <1>2, <1>4, <2>5 DEF HeaderAt
  <2>7. off + Len(w) - n \in Nat
    BY <1>3, <1>5
  <2>8. Leads(H, me, w, id, off + Len(w) - n)
    BY <2>1, <2>4, <2>6 DEF Leads, Good
  <2> QED  BY <1>4, <2>7, <2>8 DEF WayOK
<1>6. CASE ~(n <= Len(w))
  <2> HIDE DEF q
  <2>1. n # 0 /\ (Len(w) = 0 \/ (Len(w) = 1 /\ n = 2))
    <3>1. Len(w) \in Nat
      BY <1>3
    <3> QED  BY <1>6, <3>1, FewReplies
  <2>2. me.repl_state # "CONNECTED"
    BY <1>2, <2>1 DEF Header
  <2>3. CASE Len(w) = 0
    BY <2>2, <2>3 DEF WayOK, Silent
  <2>4. CASE Len(w) = 1 /\ n = 2
    <3>1. q[1] = w[1]
      BY <1>3, <2>4
    <3>2. me.repl_state = "RECEIVE_PSYNC" /\ w[1].type = "FULLRESYNC"
      BY <1>2, <2>4, <3>1 DEF Header
    <3> QED  BY <2>2, <2>4, <3>2 DEF WayOK, Silent
  <2> QED  BY <2>1, <2>3, <2>4
<1> QED  BY <1>5, <1>6

-----------------------------------------------------------------------------
(* Links. *)

\* Concatenations of messages.
LEMMA Joined ==
    ASSUME NEW a \in Seq(Messages), NEW b \in Seq(Messages), NEW c \in Seq(Messages)
    PROVE  /\ (a \o b) \o c = a \o (b \o c) /\ a \o b \in Seq(Messages) /\ b \o c \in Seq(Messages)
           /\ a \o <<>> = a
<1>1. (a \o b) \o c = a \o (b \o c)
  BY ConcatAssociative
<1> QED  BY <1>1, ConcatProperties, ConcatEmptySeq

\* Only a slave that waits for a save depends on the child.
LEMMA ComingSame ==
    ASSUME NEW k, NEW child, NEW child2, k.replstate = "WAIT_BGSAVE_END" => child2 = child
    PROVE  Coming(k, child2) = Coming(k, child)
BY DEF Coming, Pending

\* The messages, buffers and offsets of a link are typed.
LEMMA LinkTypes ==
    ASSUME NEW H, NEW k \in Conns, NEW me, NEW m \in ServerTypes, LinkAt(H, k, me, m)
    PROVE  /\ Coming(k, m.rdb_child) \in Seq(Messages) /\ k.down \in Seq(Messages) /\ k.buf \in Seq(Messages)
           /\ k.buf \in Seq(Items) /\ Pending(k, m.rdb_child) \in Seq(Messages)
           /\ k.init \in Nat /\ m.master_repl_offset \in Nat /\ k.replstate \in SlaveStates
<1>1. m.rdb_child \in Children \cup {None} /\ m.master_repl_offset \in Nat
  BY DEF ServerTypes
<1>2. k.replstate = "WAIT_BGSAVE_END" => m.rdb_child # None
  BY DEF LinkAt, Waits
<1>3. k.init \in Nat /\ k.replstate \in SlaveStates
  BY DEF Conns
<1> QED  BY <1>1, <1>2, <1>3, ComingOK

\* A link in histories that grow.
LEMMA LinkGrows ==
    ASSUME NEW H, IsBook(H), NEW H2, IsBook(H2), NEW u, Grows(H, H2, u), NEW k \in Conns, NEW me,
           NEW m \in ServerTypes, LinkAt(H, k, me, m)
    PROVE  LinkAt(H2, k, me, m)
<1>1. /\ Coming(k, m.rdb_child) \in Seq(Messages) /\ k.down \in Seq(Messages) /\ k.buf \in Seq(Messages)
      /\ k.init \in Nat
  BY LinkTypes
<1>2. ASSUME k.replstate = "WAIT_BGSAVE_END"  PROVE Waits(H2, k, m)
  <2>1. Waits(H, k, m)
    BY <1>2 DEF LinkAt
  <2>2. m.replid \in DOMAIN H /\ m.replid \in DOMAIN H2 /\ Longer(H[m.replid], H2[m.replid])
    BY <2>1 DEF Waits, Grows
  <2>3. H[m.replid] \in Histories /\ H2[m.replid] \in Histories
    BY <2>2, BookOK
  <2>4. Stream(H[m.replid], k.init, 0, k.buf) /\ Loads(H[m.replid], k.init, m.rdb_child.rdb)
    BY <2>1 DEF Waits
  <2>5. Stream(H2[m.replid], k.init, 0, k.buf)
    BY <1>1, <2>2, <2>3, <2>4, StreamLonger
  <2>6. Loads(H2[m.replid], k.init, m.rdb_child.rdb)
    BY <1>1, <2>2, <2>3, <2>4, AtLonger DEF Loads
  <2> QED  BY <2>1, <2>2, <2>5, <2>6 DEF Waits
<1>3. Follows(k) => Leads(H2, me, Coming(k, m.rdb_child), m.replid, m.master_repl_offset)
  BY <1>1, LeadsGrows DEF LinkAt
<1>4. ~Follows(k) => WayOK(H2, me, k.down)
  BY <1>1, WayGrows DEF LinkAt
<1> QED  BY <1>2, <1>3, <1>4 DEF LinkAt

\* A link whose ends change in what it does not depend on.
LEMMA LinkSame ==
    ASSUME NEW H, NEW k \in Conns, NEW me, NEW me2, SameWay(me2, me), NEW m, NEW m2,
           Follows(k) => m2.replid = m.replid /\ m2.master_repl_offset = m.master_repl_offset,
           k.replstate = "WAIT_BGSAVE_END" => m2.rdb_child = m.rdb_child,
           LinkAt(H, k, me, m)
    PROVE  LinkAt(H, k, me2, m2)
<1>1. ShapeOK(k, me2)
  BY DEF LinkAt, ShapeOK, SameWay, PsyncArgs
<1>2. k.replstate = "WAIT_BGSAVE_END" => Waits(H, k, m2)
  BY DEF LinkAt, Waits, Follows
<1>3. Coming(k, m2.rdb_child) = Coming(k, m.rdb_child)
  BY ComingSame
<1>4. Follows(k) => Leads(H, me2, Coming(k, m2.rdb_child), m2.replid, m2.master_repl_offset)
  BY <1>3, LeadsSame DEF LinkAt
<1>5. ~Follows(k) => WayOK(H, me2, k.down)
  BY WaySame DEF LinkAt
<1> QED  BY <1>1, <1>2, <1>4, <1>5 DEF LinkAt

\* What was sent before the master closed a link can still be read.
LEMMA LinkClosed ==
    ASSUME NEW H, IsBook(H), NEW k \in Conns, NEW k2 \in Conns, NEW me, NEW m \in ServerTypes, NEW m2,
           k2.replstate = "CLOSED", k2.buf = <<>>, k2.psync = None, k2.down = k.down,
           LinkAt(H, k, me, m)
    PROVE  LinkAt(H, k2, me, m2)
<1>1. /\ Coming(k, m.rdb_child) \in Seq(Messages) /\ k.down \in Seq(Messages) /\ k.buf \in Seq(Messages)
      /\ Pending(k, m.rdb_child) \in Seq(Messages)
  BY LinkTypes
<1>2. WayOK(H, me, k.down)
  <2>1. CASE Follows(k)
    <3> DEFINE p == Pending(k, m.rdb_child)
               v == p \o k.buf
    <3>1. v \in Seq(Messages) /\ Coming(k, m.rdb_child) = k.down \o v
      <4>1. p \in Seq(Messages) /\ Coming(k, m.rdb_child) = (k.down \o p) \o k.buf
        BY <1>1 DEF Coming
      <4> DEFINE a == k.down
                 c == k.buf
      <4>2. a \in Seq(Messages) /\ c \in Seq(Messages)
        BY <1>1
      <4> HIDE DEF p, a, c
      <4>3. (a \o p) \o c = a \o (p \o c) /\ p \o c \in Seq(Messages)
        BY <4>1, <4>2, Joined
      <4> QED  BY <4>1, <4>3 DEF a, c
    <3>2. Leads(H, me, k.down \o v, m.replid, m.master_repl_offset)
      BY <2>1, <3>1 DEF LinkAt
    <3> HIDE DEF v
    <3> QED  BY <1>1, <3>1, <3>2, LeadsPrefix
  <2>2. CASE ~Follows(k)
    BY <2>2 DEF LinkAt
  <2> QED  BY <2>1, <2>2
<1>3. ~Follows(k2) /\ ShapeOK(k2, me)
  BY DEF Follows, ShapeOK
<1> QED  BY <1>2, <1>3 DEF LinkAt

\* The stream is fed to a slave: to its buffer or to its socket.
LEMMA LinkFed ==
    ASSUME NEW H, IsBook(H), NEW k \in Conns, NEW k2 \in Conns, NEW me, NEW m \in ServerTypes, NEW m2,
           LinkAt(H, k, me, m), Follows(k), NEW items \in Seq(Items), Stream(H[m.replid], m.master_repl_offset, 0, items),
           m.replid \in DOMAIN H, m2.replid = m.replid, m2.rdb_child = m.rdb_child,
           m2.master_repl_offset = m.master_repl_offset + Len(items),
           k2.psync = k.psync, k2.replstate = k.replstate, k2.on_ack = k.on_ack, k2.init = k.init, k2.rdb = k.rdb,
           k2.buf = IF Buffers(k) THEN k.buf \o items ELSE k.buf,
           k2.down = IF Buffers(k) THEN k.down ELSE k.down \o items
    PROVE  LinkAt(H, k2, me, m2)
<1> DEFINE w == Coming(k, m.rdb_child)
           p == Pending(k, m.rdb_child)
<1>1. /\ w \in Seq(Messages) /\ k.down \in Seq(Messages) /\ k.buf \in Seq(Messages)
      /\ p \in Seq(Messages) /\ k.buf \in Seq(Items) /\ k.init \in Nat /\ m.master_repl_offset \in Nat
      /\ k.replstate \in SlaveStates
  BY LinkTypes
<1>2. items \in Seq(Messages) /\ Len(items) \in Nat
  BY PlainItems, SeqMonotonic, LenProperties
<1>3. Pending(k2, m2.rdb_child) = p /\ Follows(k2) /\ ShapeOK(k, me)
  BY DEF Pending, Follows, LinkAt
<1>4. Coming(k2, m2.rdb_child) = w \o items
  <2>1. CASE Buffers(k)
    <3> DEFINE a == k.down \o p
               b == k.buf
    <3>1. a \in Seq(Messages) /\ b \in Seq(Messages)
      BY <1>1, Joined
    <3> HIDE DEF p, a, b
    <3>2. a \o (b \o items) = (a \o b) \o items
      BY <3>1, <1>2, Joined
    <3> QED  BY <2>1, <3>2, <1>3 DEF Coming, p, w, a, b
  <2>2. CASE ~Buffers(k)
    <3>1. k.replstate = "ONLINE" /\ ~k.on_ack /\ k.buf = <<>> /\ p = <<>>
      BY <2>2, <1>3 DEF Buffers, Follows, ShapeOK, Pending
    <3>2. w = k.down
      BY <3>1, <1>1, ConcatEmptySeq DEF Coming
    <3>3. k.down \o items \in Seq(Messages)
      BY <1>1, <1>2, ConcatProperties
    <3>4. Coming(k2, m2.rdb_child) = ((k.down \o items) \o <<>>) \o <<>>
      BY <2>2, <3>1, <1>3 DEF Coming
    <3>5. Coming(k2, m2.rdb_child) = k.down \o items
      BY <3>3, <3>4, ConcatEmptySeq
    <3> QED  BY <3>2, <3>5
  <2> QED  BY <2>1, <2>2
<1>5. Leads(H, me, w, m.replid, m.master_repl_offset)
  BY DEF LinkAt
<1> HIDE DEF w, p
<1>6. Leads(H, me, w \o items, m.replid, m.master_repl_offset + Len(items))
  BY <1>1, <1>2, <1>5, LeadsMore
<1>7. ASSUME k2.replstate = "WAIT_BGSAVE_END"  PROVE Waits(H, k2, m2)
  <2>1. Waits(H, k, m) /\ Buffers(k)
    BY <1>7 DEF LinkAt, Buffers
  <2>2. H[m.replid] \in Histories
    BY BookOK
  <2>3. Stream(H[m.replid], k.init, 0, k.buf) /\ k.init + Len(k.buf) = m.master_repl_offset
    BY <2>1 DEF Waits
  <2>4. Len(k.buf) \in Nat /\ Len(k.buf \o items) = Len(k.buf) + Len(items) /\ k.init + Len(k.buf) - 0 = m.master_repl_offset
    BY <1>1, <1>2, <2>3, ConcatProperties, LenProperties
  <2>5. Stream(H[m.replid], k.init + Len(k.buf) - 0, 0, items)
    BY <2>4
  <2>6. Stream(H[m.replid], k.init, 0, k.buf \o items)
    BY <1>1, <1>2, <2>2, <2>3, <2>4, <2>5, StreamConcat
  <2>7. k.init + Len(k.buf \o items) = m2.master_repl_offset
    BY <1>1, <1>2, <2>3, <2>4
  <2> QED  BY <2>1, <2>6, <2>7 DEF Waits
<1>8. ShapeOK(k2, me)
  <2>1. k.psync = None
    BY <1>3 DEF ShapeOK, Follows
  <2>2. k.replstate = "ONLINE" /\ ~k.on_ack => ~Buffers(k) /\ k.buf = <<>>
    BY <1>3 DEF ShapeOK, Buffers
  <2> QED  BY <1>3, <2>1, <2>2 DEF ShapeOK, Follows
<1> QED  BY <1>3, <1>4, <1>6, <1>7, <1>8 DEF LinkAt

-----------------------------------------------------------------------------
(* One server changes. *)

\* What IInv says of servers and links.
Base(sv, cn) ==
    /\ setup \in Setups /\ sv \in [Servers -> ServerTypes] /\ cn \in Links
    /\ \A s \in Servers : ServerOK(sv[s])
    /\ \A s, m \in Servers : IsSlaveOf(cn, s, m) => sv[m].backlog # None

\* The types of servers and links.
LEMMA BaseTypes ==
    ASSUME NEW sv, NEW cn, Base(sv, cn), NEW s \in Servers
    PROVE  /\ sv[s] \in ServerTypes /\ ServerOK(sv[s]) /\ cn[s] \in Conns \cup {None}
           /\ cn[s] # None => cn[s] \in Conns /\ cn[s].to \in Servers /\ sv[cn[s].to] \in ServerTypes
           /\ cn[s] # None /\ Follows(cn[s]) => sv[cn[s].to].backlog # None
           /\ cn[s] # None /\ Follows(cn[s]) => Serving(cn[s])
<1>1. sv[s] \in ServerTypes /\ ServerOK(sv[s]) /\ cn[s] \in Conns \cup {None}
  BY DEF Base, Links
<1>2. ASSUME cn[s] # None  PROVE cn[s] \in Conns /\ cn[s].to \in Servers /\ sv[cn[s].to] \in ServerTypes
  <2>1. cn[s] \in Conns
    BY <1>1, <1>2
  <2>2. cn[s].to \in Servers
    BY <2>1 DEF Conns
  <2> QED  BY <2>1, <2>2 DEF Base
<1>3. ASSUME cn[s] # None, Follows(cn[s])  PROVE sv[cn[s].to].backlog # None /\ Serving(cn[s])
  BY <1>2, <1>3 DEF Base, IsSlaveOf, Follows, Serving
<1> QED  BY <1>1, <1>2, <1>3

\* A server that does not change, in histories that grow.
LEMMA ServerGrows ==
    ASSUME NEW H, IsBook(H), NEW H2, IsBook(H2), NEW u \in Nat, Grows(H, H2, u), NEW me \in ServerTypes,
           me.replid <= u, ServerOK(me), NEW ttl, ServerAt(H, me, ttl), Owner(me) => H2[me.replid] = H[me.replid],
           setup \in Setups
    PROVE  ServerAt(H2, me, ttl)
<1>1. /\ me.replid \in Ids /\ me.master_repl_offset \in Nat /\ me.second_replid_offset \in Int
      /\ me.dump \in Rdbs /\ me.rdb_child \in Children \cup {None} /\ me.backlog \in Backlogs \cup {None}
      /\ me.replid \in Nat
  BY IdsNat DEF ServerTypes, Ids
<1>2. me.replid \in DOMAIN H2 => me.replid \in DOMAIN H
  <2>1. ~(me.replid > u)
    BY <1>1
  <2> QED  BY <2>1 DEF Grows
<1>3. me.replid \in DOMAIN H => /\ me.replid \in DOMAIN H2 /\ Longer(H[me.replid], H2[me.replid])
                                /\ H[me.replid] \in Histories /\ H2[me.replid] \in Histories
  BY BookOK DEF Grows
<1>4. ASSUME me.backlog # None  PROVE BacklogAt(H2, me)
  <2>1. BacklogAt(H, me) /\ me.backlog \in Backlogs
    BY <1>1, <1>4 DEF ServerAt
  <2>2. me.backlog.items \in Seq(Messages) /\ me.backlog.off \in Int
    BY <2>1, PlainItems, SeqMonotonic DEF Backlogs
  <2>3. me.backlog.off - 1 \in Nat /\ me.replid \in DOMAIN H /\ Stream(H[me.replid], me.backlog.off - 1, 0, me.backlog.items)
    BY <2>1, <2>2 DEF BacklogAt
  <2>4. Stream(H2[me.replid], me.backlog.off - 1, 0, me.backlog.items)
    BY <1>3, <2>2, <2>3, StreamLonger
  <2> QED  BY <1>3, <2>1, <2>3, <2>4 DEF BacklogAt
<1>5. Owner(me) => MasterAt(H2[me.replid], me)
  BY DEF ServerAt
<1>6. me.masterhost = NoOne /\ me.backlog = None /\ ~ttl => me.replid \notin DOMAIN H2
  BY <1>2 DEF ServerAt
<1>7. me.master # None => At(H2[me.replid], me.master_repl_offset, me.data, me.master.db)
  <2> SUFFICES ASSUME me.master # None  PROVE At(H2[me.replid], me.master_repl_offset, me.data, me.master.db)
    OBVIOUS
  <2>1. me.replid \in DOMAIN H
    BY DEF ServerOK, ServerAt, BacklogAt
  <2> QED  BY <1>1, <1>3, <2>1, AtLonger DEF ServerAt
<1>8. me.cached_master # None /\ me.replid \in DOMAIN H2 =>
        At(H2[me.replid], me.master_repl_offset, me.data, me.cached_master.db)
  BY <1>1, <1>2, <1>3, AtLonger DEF ServerAt
<1>9. me.replid \in DOMAIN H2 /\ (me.backlog # None \/ me.cached_master # None) /\ me.replid2 # ZeroId =>
         Shared(H2, me.replid2, me.replid, me.second_replid_offset - 1)
  <2>1. me.second_replid_offset - 1 \in Int
    BY <1>1
  <2> QED  BY <1>2, <2>1, SharedGrows DEF ServerAt
<1>10. RdbAt(H2, me.dump)
  BY <1>1, RdbGrows DEF ServerAt
<1>11. me.rdb_child # None => RdbAt(H2, me.rdb_child.rdb)
  <2> SUFFICES ASSUME me.rdb_child # None  PROVE RdbAt(H2, me.rdb_child.rdb)
    OBVIOUS
  <2>1. me.rdb_child.rdb \in Rdbs
    BY <1>1 DEF Children
  <2> QED  BY <2>1, RdbGrows DEF ServerAt
<1> QED  BY <1>4, <1>5, <1>6, <1>7, <1>8, <1>9, <1>10, <1>11 DEF ServerAt

\* A link that does not change, where neither end does in what matters to it.
LEMMA LinkElsewhere ==
    ASSUME NEW sv, NEW cn, Base(sv, cn), NEW H, NEW u, FitsIn(H, sv, cn, u), NEW H2, IsBook(H2), Grows(H, H2, u),
           NEW x \in Servers, NEW me \in ServerTypes, NEW t \in Servers, cn[t] # None,
           t = x => SameWay(me, sv[x]),
           cn[t].to = x /\ Follows(cn[t]) =>
             me.replid = sv[x].replid /\ me.master_repl_offset = sv[x].master_repl_offset,
           cn[t].to = x /\ cn[t].replstate = "WAIT_BGSAVE_END" => me.rdb_child = sv[x].rdb_child
    PROVE  LinkAt(H2, cn[t], [sv EXCEPT ![x] = me][t], [sv EXCEPT ![x] = me][cn[t].to])
<1> DEFINE sv2 == [sv EXCEPT ![x] = me]
           k == cn[t]
           m == sv[cn[t].to]
<1>1. k \in Conns /\ k.to \in Servers /\ m \in ServerTypes
  BY BaseTypes
<1>2. IsBook(H) /\ LinkAt(H, k, sv[t], m)
  BY DEF FitsIn
<1>3. /\ sv2[t] = IF t = x THEN me ELSE sv[t]
      /\ sv2[k.to] = IF k.to = x THEN me ELSE sv[k.to]
  BY <1>1 DEF Base
<1> HIDE DEF sv2
<1>4. LinkAt(H2, k, sv[t], m)
  BY <1>1, <1>2, LinkGrows
<1>5. SameWay(sv2[t], sv[t])
  BY <1>3 DEF SameWay
<1>6. /\ Follows(k) => sv2[k.to].replid = m.replid /\ sv2[k.to].master_repl_offset = m.master_repl_offset
      /\ k.replstate = "WAIT_BGSAVE_END" => sv2[k.to].rdb_child = m.rdb_child
  BY <1>3
<1> HIDE DEF k, m
<1>7. LinkAt(H2, k, sv2[t], sv2[k.to])
  BY <1>1, <1>4, <1>5, <1>6, LinkSame
<1> QED  BY <1>7 DEF k, sv2

\* One server changes, and links do: what has to be shown.
LEMMA FitsStep ==
    ASSUME NEW sv, NEW cn, Base(sv, cn), NEW H, NEW u \in Nat, FitsIn(H, sv, cn, u),
           NEW H2, IsBook(H2), Grows(H, H2, u), NEW u2 \in Nat, u <= u2, DOMAIN H2 \subseteq 1..u2,
           NEW x \in Servers, NEW me \in ServerTypes, me.replid <= u2, ServerAt(H2, me, setup.ttl),
           Owner(me) => (Owner(sv[x]) /\ me.replid = sv[x].replid) \/ me.replid > u,
           \A t \in Servers \ {x} : Owner(sv[t]) => H2[sv[t].replid] = H[sv[t].replid],
           NEW cn2,
           \A t \in Servers : cn2[t] # None =>
             LinkAt(H2, cn2[t], [sv EXCEPT ![x] = me][t], [sv EXCEPT ![x] = me][cn2[t].to]),
           \A t \in Servers : Serving(cn2[t]) => cn2[t].to # t
    PROVE  FitsIn(H2, [sv EXCEPT ![x] = me], cn2, u2)
<1> DEFINE sv2 == [sv EXCEPT ![x] = me]
<1>1. \A t \in Servers : sv2[t] = IF t = x THEN me ELSE sv[t]
  BY DEF Base
<1>2. /\ IsBook(H) /\ \A s \in Servers : sv[s].replid <= u /\ ServerAt(H, sv[s], setup.ttl)
      /\ \A s, t \in Servers : Owner(sv[s]) /\ Owner(sv[t]) /\ sv[s].replid = sv[t].replid => s = t
  BY DEF FitsIn
<1>3. \A t \in Servers : sv2[t] \in ServerTypes /\ sv2[t].replid \in Nat /\ sv[t].replid \in Nat
  BY <1>1, BaseTypes, IdsNat DEF ServerTypes, Ids, Base
<1> HIDE DEF sv2
<1>4. ASSUME NEW t \in Servers  PROVE sv2[t].replid <= u2 /\ ServerAt(H2, sv2[t], setup.ttl)
  <2>1. CASE t = x
    BY <2>1, <1>1
  <2>2. CASE t # x
    <3>1. sv2[t] = sv[t] /\ sv[t] \in ServerTypes /\ ServerOK(sv[t]) /\ sv[t].replid <= u /\ ServerAt(H, sv[t], setup.ttl)
      BY <2>2, <1>1, <1>2, BaseTypes
    <3>2. Owner(sv[t]) => H2[sv[t].replid] = H[sv[t].replid]
      BY <2>2
    <3>3. ServerAt(H2, sv[t], setup.ttl)
      BY <3>1, <3>2, <1>2, ServerGrows DEF Base
    <3>4. sv[t].replid <= u2
      BY <3>1, <1>3
    <3> QED  BY <3>1, <3>3, <3>4
  <2> QED  BY <2>1, <2>2
<1>5. ASSUME NEW s \in Servers, NEW t \in Servers, Owner(sv2[s]), Owner(sv2[t]), sv2[s].replid = sv2[t].replid
      PROVE  s = t
  <2> SUFFICES ASSUME s # t  PROVE FALSE
    OBVIOUS
  <2>1. \A z \in Servers \ {x} : ~(me.replid > u /\ me.replid = sv[z].replid)
    BY <1>2, <1>3
  <2>2. CASE s = x
    BY <2>1, <2>2, <1>1, <1>2, <1>5
  <2>3. CASE t = x
    BY <2>1, <2>3, <1>1, <1>2, <1>5
  <2>4. CASE s # x /\ t # x
    BY <2>4, <1>1, <1>2, <1>5
  <2> QED  BY <2>2, <2>3, <2>4
<1>6. FitsIn(H2, sv2, cn2, u2)
  BY <1>4, <1>5 DEF FitsIn, sv2
<1> QED  BY <1>6 DEF sv2

-----------------------------------------------------------------------------
(* Answers to a replica. *)

\* The invariant gives the base facts, before and after a step.
LEMMA BaseAll ==
    ASSUME IInv, IInv', setup' = setup
    PROVE  Base(srv, conn) /\ Base(srv', conn') /\ used.ids \in Nat /\ used'.ids \in Nat
<1>1. Base(srv, conn) /\ used.ids \in Nat
  BY DEF IInv, Base, SlavesHaveBacklog, Useds
<1>2. /\ srv' \in [Servers -> ServerTypes] /\ conn' \in Links /\ used'.ids \in Nat
      /\ \A s \in Servers : ServerOK(srv'[s])
  BY SetsStay DEF IInv, ServerOK, Useds
<1>3. \A s, m \in Servers : IsSlaveOf(conn', s, m) => srv'[m].backlog # None
  BY SetsStay DEF IInv, SlavesHaveBacklog, IsSlaveOf
<1> QED  BY <1>1, <1>2, <1>3 DEF Base, IInv

\* Only links change.
LEMMA FitsLinks ==
    ASSUME NEW sv, NEW cn, NEW H, NEW u, FitsIn(H, sv, cn, u), NEW cn2,
           \A t \in Servers : cn2[t] # None => LinkAt(H, cn2[t], sv[t], sv[cn2[t].to]),
           \A t \in Servers : Serving(cn2[t]) => cn2[t].to # t
    PROVE  FitsIn(H, sv, cn2, u)
BY DEF FitsIn

\* Only one link changes.
LEMMA FitsLink ==
    ASSUME NEW sv, NEW cn, Base(sv, cn), NEW H, NEW u, FitsIn(H, sv, cn, u), NEW s \in Servers, NEW k2,
           LinkAt(H, k2, sv[s], sv[k2.to]), Serving(k2) => k2.to # s
    PROVE  FitsIn(H, sv, [cn EXCEPT ![s] = k2], u)
<1> DEFINE cn2 == [cn EXCEPT ![s] = k2]
<1>1. \A t \in Servers : cn2[t] = IF t = s THEN k2 ELSE cn[t]
  BY DEF Base, Links
<1> HIDE DEF cn2
<1>2. \A t \in Servers : cn2[t] # None => LinkAt(H, cn2[t], sv[t], sv[cn2[t].to])
  BY <1>1 DEF FitsIn
<1>3. \A t \in Servers : Serving(cn2[t]) => cn2[t].to # t
  BY <1>1 DEF FitsIn
<1>4. FitsIn(H, sv, cn2, u)
  BY <1>2, <1>3, FitsLinks
<1> QED  BY <1>4 DEF cn2

\* A reply before a stream.
LEMMA StreamCons ==
    ASSUME NEW h \in Histories, NEW off \in Nat, NEW n \in Nat, NEW msg \in Messages, NEW q \in Seq(Messages),
           Stream(h, off, n, q)
    PROVE  /\ <<msg>> \o q \in Seq(Messages) /\ Len(<<msg>> \o q) = Len(q) + 1 /\ Len(q) \in Nat
           /\ (<<msg>> \o q)[1] = msg /\ \A i \in 1..Len(q) : (<<msg>> \o q)[i + 1] = q[i]
           /\ Stream(h, off, n + 1, <<msg>> \o q)
<1> DEFINE w == <<msg>> \o q
<1>1. <<msg>> \in Seq(Messages) /\ Len(<<msg>>) = 1 /\ <<msg>>[1] = msg
  OBVIOUS
<1>2. /\ w \in Seq(Messages) /\ Len(w) = 1 + Len(q) /\ Len(q) \in Nat
      /\ \A i \in 1..Len(<<msg>>) : w[i] = <<msg>>[i]
      /\ \A i \in 1..Len(q) : w[Len(<<msg>>) + i] = q[i]
  BY <1>1, HeaderMore
<1> HIDE DEF w
<1>3. w[1] = msg /\ \A i \in 1..Len(q) : w[i + 1] = q[i]
  BY <1>1, <1>2
<1>4. h.hi \in Nat
  BY DEF Histories
<1>5. off + Len(w) - (n + 1) <= h.hi
  BY <1>2, <1>4 DEF Stream
<1>6. ASSUME NEW i \in n + 1 + 1 .. Len(w)
      PROVE  w[i] \in Items /\ Reaches(h.pos[off + i - (n + 1) - 1], w[i], h.pos[off + i - (n + 1)])
  <2> DEFINE j == i - 1
  <2>1. j \in n + 1 .. Len(q) /\ j \in 1..Len(q) /\ j + 1 = i
    BY <1>2
  <2>2. w[i] = q[j]
    BY <2>1, <1>3
  <2>3. q[j] \in Items /\ Reaches(h.pos[off + j - n - 1], q[j], h.pos[off + j - n])
    BY <2>1 DEF Stream
  <2>4. off + j - n - 1 = off + i - (n + 1) - 1 /\ off + j - n = off + i - (n + 1)
    BY <1>2
  <2> HIDE DEF j
  <2> QED  BY <2>2, <2>3, <2>4
<1> QED  BY <1>2, <1>3, <1>5, <1>6 DEF Stream, w

\* RefusePsync() keeps the histories.
LEMMA RefusePsyncFits ==
    ASSUME IInv, IInv', setup' = setup, NEW H, FitsIn(H, srv, conn, used.ids), NEW s \in Servers, RefusePsync(s)
    PROVE  \E H2 : FitsIn(H2, srv', conn', used'.ids)
<1> DEFINE k  == conn[s]
           k2 == [k EXCEPT !.psync = None, !.down = Append(@, [type |-> "NOMASTERLINK"])]
<1>1. conn' = [conn EXCEPT ![s] = k2] /\ srv' = srv /\ used' = used /\ k # None /\ k.psync # None
  BY DEF RefusePsync
<1>2. Base(srv, conn) /\ k \in Conns
  BY <1>1, BaseAll, BaseTypes
<1>3. LinkAt(H, k, srv[s], srv[k.to])
  BY <1>1 DEF FitsIn
<1>4. srv[s].repl_state = "RECEIVE_PSYNC" /\ k.replstate = "NONE" /\ k.down = <<>> /\ ShapeOK(k, srv[s])
  BY <1>1, <1>3 DEF LinkAt, ShapeOK
<1> HIDE DEF k
<1>5. /\ k2.psync = None /\ k2.replstate = "NONE" /\ k2.down = Append(<<>>, [type |-> "NOMASTERLINK"])
      /\ k2.buf = k.buf /\ k2.on_ack = k.on_ack
  BY <1>2, <1>4 DEF Conns
<1> HIDE DEF k2
<1>6. Len(k2.down) = 1 /\ k2.down[1].type = "NOMASTERLINK"
  BY <1>5
<1>7. WayOK(H, srv[s], k2.down)
  BY <1>4, <1>6 DEF WayOK, Silent
<1>8. ShapeOK(k2, srv[s]) /\ ~Follows(k2)
  BY <1>4, <1>5 DEF ShapeOK, Follows
<1>9. LinkAt(H, k2, srv[s], srv[k2.to])
  BY <1>7, <1>8, <1>5 DEF LinkAt
<1>10. ~Serving(k2)
  BY <1>5 DEF Serving
<1>11. FitsIn(H, srv, [conn EXCEPT ![s] = k2], used.ids)
  BY <1>2, <1>9, <1>10, FitsLink
<1> QED  BY <1>1, <1>11

\* A server does not serve itself.
LEMMA NotItself ==
    ASSUME IInv, NEW H, FitsIn(H, srv, conn, used.ids), NEW s \in Servers, MayServe(s)
    PROVE  /\ conn[s] \in Conns /\ conn[s].to \in Servers /\ conn[s].to # s /\ LinkAt(H, conn[s], srv[s], srv[conn[s].to])
           /\ srv[s] \in ServerTypes /\ ServerOK(srv[s]) /\ srv[conn[s].to] \in ServerTypes /\ ServerOK(srv[conn[s].to])
           /\ srv[s].repl_state = "RECEIVE_PSYNC" /\ conn[s].replstate = "NONE" /\ conn[s].down = <<>>
           /\ conn[s].psync = PsyncArgs(srv[s]) /\ conn[s].buf = <<>> /\ ~conn[s].on_ack
<1>1. Base(srv, conn)
  BY DEF IInv, Base, SlavesHaveBacklog
<1>2. conn[s] # None /\ conn[s].psync # None
  BY DEF MayServe
<1>3. /\ conn[s] \in Conns /\ conn[s].to \in Servers /\ srv[s] \in ServerTypes /\ ServerOK(srv[s])
      /\ srv[conn[s].to] \in ServerTypes /\ ServerOK(srv[conn[s].to])
  BY <1>1, <1>2, BaseTypes
<1>4. LinkAt(H, conn[s], srv[s], srv[conn[s].to]) /\ ShapeOK(conn[s], srv[s])
  BY <1>2 DEF FitsIn, LinkAt
<1>5. /\ srv[s].repl_state = "RECEIVE_PSYNC" /\ conn[s].replstate = "NONE" /\ conn[s].down = <<>>
      /\ conn[s].psync = PsyncArgs(srv[s]) /\ conn[s].buf = <<>> /\ ~conn[s].on_ack
  BY <1>2, <1>4 DEF ShapeOK
<1>6. conn[s].to # s
  BY <1>3, <1>5 DEF MayServe, ServerOK
<1> QED  BY <1>3, <1>4, <1>5, <1>6

\* Where a replica that may continue is in the history of the server it asks,
\* and what it has missed.
LEMMA ContinuesAt ==
    ASSUME NEW H, IsBook(H), NEW me \in ServerTypes, ServerOK(me), NEW m \in ServerTypes, ServerOK(m), NEW ttl,
           ServerAt(H, me, ttl), ServerAt(H, m, ttl), setup \in Setups,
           CanContinue(m, PsyncArgs(me).replid, PsyncArgs(me).offset)
    PROVE  /\ me.cached_master # None /\ me.master_repl_offset \in Nat /\ m.replid \in DOMAIN H
           /\ Shared(H, me.replid, m.replid, me.master_repl_offset)
           /\ BacklogFrom(m, PsyncArgs(me).offset) \in Seq(Messages)
           /\ Stream(H[m.replid], me.master_repl_offset, 0, BacklogFrom(m, PsyncArgs(me).offset))
           /\ me.master_repl_offset + Len(BacklogFrom(m, PsyncArgs(me).offset)) = m.master_repl_offset
<1> DEFINE p == PsyncArgs(me)
           o == me.master_repl_offset
<1>1. p.replid # ZeroId /\ KnownHistory(m, p.replid, p.offset) /\ InBacklog(m, p.offset)
  BY DEF CanContinue
<1>2. me.cached_master # None
  BY <1>1 DEF PsyncArgs
<1>3. p.replid = me.replid /\ p.offset = o + 1
  BY <1>2 DEF PsyncArgs, ServerOK
<1>4. /\ me.replid \in Nat /\ o \in Nat /\ m.replid \in Nat /\ m.second_replid_offset \in Int
      /\ m.master_repl_offset \in Nat /\ m.backlog \in Backlogs \cup {None}
  BY IdsNat DEF ServerTypes, Ids
<1>5. m.backlog # None /\ m.backlog \in Backlogs
  BY <1>1, <1>4 DEF InBacklog
<1>6. BacklogAt(H, m)
  BY <1>5 DEF ServerAt
<1>7. m.backlog.off \in Int /\ m.backlog.items \in Seq(Messages) /\ Len(m.backlog.items) \in Nat /\ m.replid \in DOMAIN H
  BY <1>5, <1>6, PlainItems, SeqMonotonic, LenProperties DEF Backlogs, BacklogAt
<1>8. H[m.replid] \in Histories
  BY <1>7, BookOK
<1>9. o + 1 >= m.backlog.off /\ o + 1 <= m.backlog.off + Len(m.backlog.items) /\ m.backlog.off >= 1
  BY <1>1, <1>3, <1>6 DEF InBacklog, BacklogAt
<1>10. m.backlog.off + Len(m.backlog.items) = m.master_repl_offset + 1
  BY <1>5 DEF ServerOK
<1>11. Shared(H, me.replid, m.replid, o)
  <2>1. CASE me.replid = m.replid
    <3>1. At(H[me.replid], o, me.data, me.cached_master.db)
      BY <2>1, <1>2, <1>7 DEF ServerAt
    <3>2. o <= H[me.replid].hi
      BY <3>1 DEF At
    <3> QED  BY <2>1, <3>2, <1>7 DEF Shared
  <2>2. CASE me.replid # m.replid
    <3>1. me.replid = m.replid2 /\ o + 1 <= m.second_replid_offset
      BY <2>2, <1>1, <1>3 DEF KnownHistory
    <3>2. m.replid2 # ZeroId
      BY <3>1, <1>1, <1>3
    <3>3. Shared(H, m.replid2, m.replid, m.second_replid_offset - 1)
      BY <3>2, <1>5, <1>7 DEF ServerAt
    <3>4. o <= m.second_replid_offset - 1 /\ m.second_replid_offset - 1 \in Int
      BY <3>1, <1>4
    <3> QED  BY <3>1, <3>3, <3>4, <1>4, SharedLess
  <2> QED  BY <2>1, <2>2
<1> DEFINE b == m.backlog.off
           q == m.backlog.items
           a == (o + 1) - b + 1
<1>12. Stream(H[m.replid], b - 1, 0, q)
  BY <1>6 DEF BacklogAt
<1>13. BacklogFrom(m, o + 1) = SubSeq(q, a, Len(q))
  BY DEF BacklogFrom
<1>14. /\ q \in Seq(Messages) /\ Len(q) \in Nat /\ b \in Int /\ o \in Nat /\ o + 1 >= b /\ o + 1 <= b + Len(q) /\ b >= 1
       /\ b + Len(q) = m.master_repl_offset + 1 /\ m.master_repl_offset \in Nat /\ a = (o + 1) - b + 1 /\ p.offset = o + 1
  BY <1>3, <1>4, <1>7, <1>9, <1>10
<1> HIDE DEF a, b, q, p, o
<1>15. /\ b - 1 \in Nat /\ a \in 1 .. Len(q) + 1
       /\ b - 1 + a - 1 = o /\ o + (Len(q) - a + 1) = m.master_repl_offset
  BY <1>14
<1>16. /\ SubSeq(q, a, Len(q)) \in Seq(Messages) /\ Len(SubSeq(q, a, Len(q))) = Len(q) - a + 1
       /\ Stream(H[m.replid], b - 1 + a - 1, 0, SubSeq(q, a, Len(q)))
  BY <1>8, <1>12, <1>14, <1>15, StreamFrom
<1>17. /\ BacklogFrom(m, p.offset) \in Seq(Messages) /\ Stream(H[m.replid], o, 0, BacklogFrom(m, p.offset))
       /\ o + Len(BacklogFrom(m, p.offset)) = m.master_repl_offset
  BY <1>13, <1>14, <1>15, <1>16
<1>18. me.cached_master # None /\ o \in Nat /\ m.replid \in DOMAIN H /\ Shared(H, me.replid, m.replid, o)
  BY <1>2, <1>4, <1>7, <1>11 DEF o
<1> QED  BY <1>17, <1>18 DEF p, o

\* PartialResync() keeps the histories.
LEMMA PartialResyncFits ==
    ASSUME IInv, IInv', setup' = setup, NEW H, FitsIn(H, srv, conn, used.ids), NEW s \in Servers, PartialResync(s)
    PROVE  \E H2 : FitsIn(H2, srv', conn', used'.ids)
<1> DEFINE k   == conn[s]
           me  == srv[s]
           m   == srv[k.to]
           msg == [type |-> "CONTINUE", replid |-> m.replid]
           q   == BacklogFrom(m, PsyncArgs(me).offset)
           o   == me.master_repl_offset
           w   == <<msg>> \o q
           k2  == [k EXCEPT !.psync = None, !.replstate = "ONLINE", !.down = (@ \o <<msg>>) \o BacklogFrom(m, k.psync.offset)]
<1>1. MayServe(s) /\ srv' = srv /\ used' = used /\ conn' = [conn EXCEPT ![s] = k2]
  BY DEF PartialResync
<1>2. CanContinue(m, k.psync.replid, k.psync.offset)
  BY DEF PartialResync
<1>3. /\ k \in Conns /\ k.to \in Servers /\ k.to # s /\ me \in ServerTypes /\ ServerOK(me)
      /\ m \in ServerTypes /\ ServerOK(m) /\ k.psync = PsyncArgs(me)
      /\ me.repl_state = "RECEIVE_PSYNC" /\ k.replstate = "NONE" /\ k.down = <<>> /\ k.buf = <<>> /\ ~k.on_ack
  BY <1>1, NotItself
<1>4. IsBook(H) /\ ServerAt(H, me, setup.ttl) /\ ServerAt(H, m, setup.ttl) /\ setup \in Setups
  BY <1>3 DEF FitsIn, IInv
<1>5. /\ me.cached_master # None /\ o \in Nat /\ m.replid \in DOMAIN H
      /\ Shared(H, me.replid, m.replid, o) /\ q \in Seq(Messages) /\ Stream(H[m.replid], o, 0, q)
      /\ o + Len(q) = m.master_repl_offset
  BY <1>2, <1>3, <1>4, ContinuesAt
<1>6. /\ msg \in Messages /\ msg.type = "CONTINUE" /\ msg.replid = m.replid
  BY <1>3 DEF Messages, ServerTypes
<1>7. k2 = [k EXCEPT !.psync = None, !.replstate = "ONLINE", !.down = (@ \o <<msg>>) \o q]
  BY <1>3
<1> HIDE DEF k, me, m, q, msg, o
<1>8. H[m.replid] \in Histories
  BY <1>4, <1>5, BookOK
<1>9. /\ w \in Seq(Messages) /\ Len(w) = Len(q) + 1 /\ Len(q) \in Nat /\ w[1] = msg
      /\ Stream(H[m.replid], o, 0 + 1, w)
  <2> DEFINE h == H[m.replid]
  <2>1. h \in Histories /\ Stream(h, o, 0, q) /\ o \in Nat /\ 0 \in Nat /\ q \in Seq(Messages) /\ msg \in Messages
    BY <1>5, <1>6, <1>8
  <2> HIDE DEF h
  <2>2. /\ w \in Seq(Messages) /\ Len(w) = Len(q) + 1 /\ Len(q) \in Nat /\ w[1] = msg
        /\ Stream(h, o, 0 + 1, w)
    BY <2>1, StreamCons
  <2> QED  BY <2>2 DEF h
<1>10. (<<>> \o <<msg>>) \o q = w
  <2>1. <<msg>> \in Seq(Messages)
    BY <1>6
  <2>2. <<>> \o <<msg>> = <<msg>>
    BY <2>1, ConcatEmptySeq
  <2> QED  BY <2>2
<1> HIDE DEF w
<1>11. /\ k2.psync = None /\ k2.replstate = "ONLINE" /\ k2.down = w /\ k2.buf = <<>> /\ ~k2.on_ack /\ k2.to = k.to
  BY <1>3, <1>7, <1>10 DEF Conns
<1> HIDE DEF k2
<1>12. Coming(k2, m.rdb_child) = w
  <2>1. Coming(k2, m.rdb_child) = (w \o <<>>) \o <<>>
    BY <1>11 DEF Coming, Pending
  <2> QED  BY <1>9, <2>1, ConcatEmptySeq
<1>13. Header(me, w, m.replid, o, 1)
  <2>1. Len(w) >= 1
    BY <1>9
  <2> QED  BY <1>3, <1>6, <1>9, <2>1 DEF Header, o
<1>14. HeaderAt(H, me, w, m.replid, o, 1)
  <2>1. w[1].type # "RDB"
    BY <1>6, <1>9
  <2> QED  BY <1>5, <2>1 DEF HeaderAt
<1>15. Leads(H, me, w, m.replid, m.master_repl_offset)
  <2>1. o + Len(w) - 1 = m.master_repl_offset /\ 1 \in 0..2 /\ 0 + 1 = 1
    BY <1>5, <1>9
  <2>2. Good(H, me, w, m.replid, o, 1)
    BY <1>9, <1>13, <1>14, <2>1 DEF Good
  <2> QED  BY <1>5, <2>1, <2>2 DEF Leads
<1>16. ShapeOK(k2, me) /\ Follows(k2)
  BY <1>11 DEF ShapeOK, Follows
<1>17. LinkAt(H, k2, me, m)
  BY <1>11, <1>12, <1>15, <1>16 DEF LinkAt
<1>18. FitsIn(H, srv, [conn EXCEPT ![s] = k2], used.ids)
  <2>1. Base(srv, conn)
    BY BaseAll
  <2> QED  BY <1>3, <1>11, <1>17, <2>1, FitsLink DEF k, me, m
<1> QED  BY <1>1, <1>18 DEF k2, k, me, m, msg

\* A link on which the same comes in the same order.
LEMMA LinkMoved ==
    ASSUME IInv, NEW H, FitsIn(H, srv, conn, used.ids), NEW s \in Servers, conn[s] # None, NEW k2,
           Follows(conn[s]), Follows(k2), k2.replstate # "WAIT_BGSAVE_END", k2.to = conn[s].to,
           ShapeOK(k2, srv[s]),
           Coming(k2, srv[k2.to].rdb_child) = Coming(conn[s], srv[k2.to].rdb_child)
    PROVE  FitsIn(H, srv, [conn EXCEPT ![s] = k2], used.ids)
<1>1. Base(srv, conn)
  BY DEF IInv, Base, SlavesHaveBacklog
<1>2. LinkAt(H, conn[s], srv[s], srv[k2.to]) /\ k2.to # s
  BY DEF FitsIn, Serving, Follows
<1>3. LinkAt(H, k2, srv[s], srv[k2.to])
  BY <1>2 DEF LinkAt
<1> QED  BY <1>1, <1>2, <1>3, FitsLink

\* sendBulkToSlave() keeps the histories.
LEMMA sendBulkFits ==
    ASSUME IInv, IInv', setup' = setup, NEW H, FitsIn(H, srv, conn, used.ids), NEW s \in Servers, sendBulkToSlave(s)
    PROVE  \E H2 : FitsIn(H2, srv', conn', used'.ids)
<1> DEFINE k  == conn[s]
           f  == FileMsg(k.rdb)
           k2 == [k EXCEPT !.replstate = "ONLINE", !.buf = <<>>, !.rdb = EmptyRdb, !.down = Append(@, f) \o k.buf]
<1>1. conn' = [conn EXCEPT ![s] = k2] /\ srv' = srv /\ used' = used /\ k # None /\ k.replstate = "SEND_BULK"
  BY DEF sendBulkToSlave, FileMsg
<1>2. k \in Conns /\ LinkAt(H, k, srv[s], srv[k.to]) /\ srv[k.to] \in ServerTypes
  BY <1>1, BaseAll, BaseTypes DEF FitsIn
<1>3. k.psync = None /\ ~k.on_ack
  BY <1>1, <1>2 DEF LinkAt, ShapeOK
<1>4. k.down \in Seq(Messages) /\ k.buf \in Seq(Messages) /\ f \in Messages
  <2>1. k.rdb \in Rdbs
    BY <1>2 DEF Conns
  <2> QED  BY <1>2, <2>1, LinkTypes DEF FileMsg, Messages
<1> HIDE DEF k, f
<1>5. /\ k2.replstate = "ONLINE" /\ k2.buf = <<>> /\ k2.down = Append(k.down, f) \o k.buf /\ k2.to = k.to
      /\ k2.psync = None /\ ~k2.on_ack
  BY <1>2, <1>3 DEF Conns
<1> HIDE DEF k2
<1>6. Append(k.down, f) = k.down \o <<f>> /\ Append(k.down, f) \in Seq(Messages) /\ <<f>> \in Seq(Messages)
  BY <1>4, AppendIsConcat, AppendProperties
<1>7. Coming(k, srv[k.to].rdb_child) = Append(k.down, f) \o k.buf
  BY <1>1, <1>6 DEF Coming, Pending, f
<1>8. Coming(k2, srv[k2.to].rdb_child) = Append(k.down, f) \o k.buf
  <2>1. Append(k.down, f) \o k.buf \in Seq(Messages)
    BY <1>4, <1>6, ConcatProperties
  <2>2. Coming(k2, srv[k2.to].rdb_child) = ((Append(k.down, f) \o k.buf) \o <<>>) \o <<>>
    BY <1>5 DEF Coming, Pending
  <2> QED  BY <2>1, <2>2, ConcatEmptySeq
<1>9. ShapeOK(k2, srv[s]) /\ Follows(k2) /\ Follows(k)
  BY <1>1, <1>5 DEF ShapeOK, Follows
<1>10. FitsIn(H, srv, [conn EXCEPT ![s] = k2], used.ids)
  BY <1>1, <1>5, <1>7, <1>8, <1>9, LinkMoved DEF k
<1> QED  BY <1>1, <1>10 DEF k2, k, f

\* replconfAck() keeps the histories.
LEMMA replconfAckFits ==
    ASSUME IInv, IInv', setup' = setup, NEW H, FitsIn(H, srv, conn, used.ids), NEW s \in Servers, replconfAck(s)
    PROVE  \E H2 : FitsIn(H2, srv', conn', used'.ids)
<1> DEFINE k  == conn[s]
           k2 == [k EXCEPT !.on_ack = FALSE, !.buf = <<>>, !.down = @ \o k.buf]
<1>1. /\ conn' = [conn EXCEPT ![s] = k2] /\ srv' = srv /\ used' = used /\ k # None
      /\ k.replstate = "ONLINE"
  BY DEF replconfAck
<1>2. k \in Conns /\ LinkAt(H, k, srv[s], srv[k.to]) /\ srv[k.to] \in ServerTypes
  BY <1>1, BaseAll, BaseTypes DEF FitsIn
<1>3. k.psync = None
  BY <1>1, <1>2 DEF LinkAt, ShapeOK
<1>4. k.down \in Seq(Messages) /\ k.buf \in Seq(Messages)
  BY <1>2, LinkTypes
<1> HIDE DEF k
<1>5. /\ k2.replstate = "ONLINE" /\ k2.buf = <<>> /\ k2.down = k.down \o k.buf /\ k2.to = k.to
      /\ k2.psync = None /\ ~k2.on_ack
  BY <1>1, <1>2, <1>3 DEF Conns
<1> HIDE DEF k2
<1>6. Coming(k, srv[k.to].rdb_child) = k.down \o k.buf
  <2>1. k.down \o <<>> = k.down
    BY <1>4, ConcatEmptySeq
  <2> QED  BY <1>1, <2>1 DEF Coming, Pending
<1>7. Coming(k2, srv[k2.to].rdb_child) = k.down \o k.buf
  <2>1. k.down \o k.buf \in Seq(Messages)
    BY <1>4, ConcatProperties
  <2>2. Coming(k2, srv[k2.to].rdb_child) = ((k.down \o k.buf) \o <<>>) \o <<>>
    BY <1>5 DEF Coming, Pending
  <2> QED  BY <2>1, <2>2, ConcatEmptySeq
<1>8. ShapeOK(k2, srv[s]) /\ Follows(k2) /\ Follows(k)
  BY <1>1, <1>5 DEF ShapeOK, Follows
<1>9. FitsIn(H, srv, [conn EXCEPT ![s] = k2], used.ids)
  BY <1>1, <1>5, <1>6, <1>7, <1>8, LinkMoved DEF k
<1> QED  BY <1>1, <1>9 DEF k2, k

-----------------------------------------------------------------------------
(* Slaves are freed. *)

\* Freed slaves can still read what was sent to them.
LEMMA FreedFits ==
    ASSUME NEW sv, NEW cn, Base(sv, cn), NEW H, NEW u, FitsIn(H, sv, cn, u), NEW slaves \in SUBSET Servers,
           \A t \in slaves : Serving(cn[t])
    PROVE  /\ Base(sv, FreeSlaves(cn, slaves)) /\ FitsIn(H, sv, FreeSlaves(cn, slaves), u)
           /\ \A t \in slaves : ~Serving(FreeSlaves(cn, slaves)[t])
           /\ \A t \in Servers \ slaves : FreeSlaves(cn, slaves)[t] = cn[t]
<1> DEFINE c == FreeSlaves(cn, slaves)
<1>1. \A t \in Servers : c[t] = IF t \in slaves THEN [cn[t] EXCEPT !.replstate = "CLOSED", !.buf = <<>>] ELSE cn[t]
  BY DEF FreeSlaves
<1>2. DOMAIN c = Servers /\ c = [t \in Servers |-> c[t]]
  BY DEF FreeSlaves
<1> HIDE DEF c
<1>3. ASSUME NEW t \in slaves
      PROVE  /\ cn[t] # None /\ cn[t] \in Conns /\ c[t] \in Conns /\ c[t] # None /\ c[t].replstate = "CLOSED"
             /\ c[t].buf = <<>> /\ c[t].psync = cn[t].psync /\ c[t].down = cn[t].down /\ c[t].to = cn[t].to
  <2>1. cn[t] \in Conns /\ cn[t] # None
    BY BaseTypes DEF Serving
  <2>2. c[t] = [cn[t] EXCEPT !.replstate = "CLOSED", !.buf = <<>>]
    BY <1>1
  <2>3. c[t] \in Conns
    BY <2>1, <2>2, EmptySeq DEF Conns, SlaveStates
  <2> QED  BY <2>1, <2>2, <2>3, NoneElsewhere DEF Conns
<1>4. c \in Links
  <2>1. ASSUME NEW t \in Servers  PROVE c[t] \in Conns \cup {None}
    <3>1. cn[t] \in Conns \cup {None}
      BY BaseTypes
    <3> QED  BY <3>1, <1>1, <1>3
  <2> QED  BY <1>2, <2>1 DEF Links
<1>5. \A s, m \in Servers : IsSlaveOf(c, s, m) => IsSlaveOf(cn, s, m)
  BY <1>1, <1>3 DEF IsSlaveOf
<1>6. Base(sv, c)
  BY <1>4, <1>5 DEF Base
<1>7. ASSUME NEW t \in Servers, c[t] # None  PROVE LinkAt(H, c[t], sv[t], sv[c[t].to])
  <2>1. CASE t \in slaves
    <3>1. /\ cn[t] \in Conns /\ c[t] \in Conns /\ c[t].replstate = "CLOSED" /\ c[t].buf = <<>>
          /\ c[t].down = cn[t].down /\ c[t].psync = cn[t].psync /\ sv[cn[t].to] \in ServerTypes
      BY <2>1, <1>3, BaseTypes
    <3>2. IsBook(H) /\ LinkAt(H, cn[t], sv[t], sv[cn[t].to])
      BY <2>1, <1>3 DEF FitsIn
    <3>3. c[t].psync = None
      BY <2>1, <3>1, <3>2 DEF LinkAt, ShapeOK, Serving
    <3> QED  BY <3>1, <3>2, <3>3, LinkClosed
  <2>2. CASE t \notin slaves
    BY <2>2, <1>1, <1>7 DEF FitsIn
  <2> QED  BY <2>1, <2>2
<1>8. \A t \in Servers : Serving(c[t]) => c[t].to # t
  BY <1>1, <1>3 DEF FitsIn, Serving
<1>9. FitsIn(H, sv, c, u)
  BY <1>7, <1>8, FitsLinks
<1> QED  BY <1>1, <1>3, <1>6, <1>9 DEF c, Serving

\* disconnectSlaves(): no one follows the server after it.
LEMMA DisconnectFits ==
    ASSUME NEW sv, NEW cn, Base(sv, cn), NEW H, NEW u, FitsIn(H, sv, cn, u), NEW x \in Servers
    PROVE  /\ Base(sv, DisconnectSlaves(cn, x)) /\ FitsIn(H, sv, DisconnectSlaves(cn, x), u)
           /\ \A t \in Servers : ~IsSlaveOf(DisconnectSlaves(cn, x), t, x)
           /\ DisconnectSlaves(cn, x)[x] = cn[x]
<1> DEFINE slaves == SlavesOf(cn, x)
<1>1. slaves \in SUBSET Servers /\ \A t \in slaves : Serving(cn[t])
  BY DEF SlavesOf, IsSlaveOf, Serving
<1>2. x \notin slaves
  BY DEF SlavesOf, IsSlaveOf, FitsIn, Serving
<1>3. \A t \in Servers \ slaves : ~IsSlaveOf(cn, t, x)
  BY DEF SlavesOf
<1> DEFINE c == FreeSlaves(cn, slaves)
<1> HIDE DEF slaves
<1>4. /\ Base(sv, c) /\ FitsIn(H, sv, c, u) /\ \A t \in slaves : ~Serving(c[t])
      /\ \A t \in Servers \ slaves : c[t] = cn[t]
  BY <1>1, FreedFits
<1> HIDE DEF c
<1>5. \A t \in Servers : ~IsSlaveOf(c, t, x)
  BY <1>3, <1>4 DEF IsSlaveOf, Serving
<1>6. c[x] = cn[x]
  BY <1>2, <1>4
<1> QED  BY <1>4, <1>5, <1>6 DEF c, slaves, DisconnectSlaves

\* The link of a server is not one of its slaves.
LEMMA DisconnectLast ==
    ASSUME NEW cn \in Links, NEW x \in Servers, NEW k2, ~(k2 # None /\ k2.to = x /\ Serving(k2)), ~IsSlaveOf(cn, x, x)
    PROVE  DisconnectSlaves([cn EXCEPT ![x] = k2], x) = [DisconnectSlaves(cn, x) EXCEPT ![x] = k2]
<1> DEFINE c2 == [cn EXCEPT ![x] = k2]
           a == DisconnectSlaves(c2, x)
           b == [DisconnectSlaves(cn, x) EXCEPT ![x] = k2]
<1>1. \A t \in Servers : c2[t] = IF t = x THEN k2 ELSE cn[t]
  BY DEF Links
<1> HIDE DEF c2
<1>2. /\ a = [t \in Servers |-> a[t]]
      /\ \A t \in Servers : a[t] = IF IsSlaveOf(c2, t, x) THEN [c2[t] EXCEPT !.replstate = "CLOSED", !.buf = <<>>] ELSE c2[t]
  BY DEF DisconnectSlaves, FreeSlaves, SlavesOf
<1> DEFINE d == DisconnectSlaves(cn, x)
<1>3. /\ d = [t \in Servers |-> d[t]]
      /\ \A t \in Servers : d[t] = IF IsSlaveOf(cn, t, x) THEN [cn[t] EXCEPT !.replstate = "CLOSED", !.buf = <<>>] ELSE cn[t]
  BY DEF DisconnectSlaves, FreeSlaves, SlavesOf
<1>4. b = [d EXCEPT ![x] = k2]
  OBVIOUS
<1> HIDE DEF a, b, d
<1>5. b = [t \in Servers |-> b[t]] /\ \A t \in Servers : b[t] = IF t = x THEN k2 ELSE d[t]
  BY <1>3, <1>4
<1>6. ASSUME NEW t \in Servers  PROVE a[t] = b[t]
  <2>1. CASE t = x
    <3>1. ~IsSlaveOf(c2, x, x)
      BY <1>1 DEF IsSlaveOf, Serving
    <3> QED  BY <2>1, <3>1, <1>1, <1>2, <1>5
  <2>2. CASE t # x
    <3>1. c2[t] = cn[t] /\ (IsSlaveOf(c2, t, x) <=> IsSlaveOf(cn, t, x))
      BY <2>2, <1>1 DEF IsSlaveOf
    <3> QED  BY <2>2, <3>1, <1>2, <1>3, <1>5
  <2> QED  BY <2>1, <2>2
<1>7. a = b
  BY <1>2, <1>5, <1>6
<1> QED  BY <1>7 DEF a, b, c2, d

\* TimeoutSlave() keeps the histories.
LEMMA TimeoutSlaveFits ==
    ASSUME IInv, IInv', setup' = setup, NEW H, FitsIn(H, srv, conn, used.ids), NEW s \in Servers, TimeoutSlave(s)
    PROVE  \E H2 : FitsIn(H2, srv', conn', used'.ids)
<1>1. /\ conn' = FreeSlaves(conn, {s}) /\ srv' = srv /\ used' = Failed(used, FALSE)
      /\ conn[s] # None /\ conn[s].replstate = "ONLINE"
  BY DEF TimeoutSlave
<1>2. Base(srv, conn) /\ {s} \in SUBSET Servers /\ \A t \in {s} : Serving(conn[t])
  BY <1>1, BaseAll DEF Serving
<1>3. FitsIn(H, srv, FreeSlaves(conn, {s}), used.ids)
  BY <1>2, FreedFits
<1>4. used'.ids = used.ids
  BY <1>1 DEF IInv, Useds, Failed
<1> QED  BY <1>1, <1>3, <1>4
-----------------------------------------------------------------------------
(* Replicas. *)

\* A server and its own link change.
LEMMA OneFits ==
    ASSUME NEW sv, NEW cn, Base(sv, cn), NEW H, NEW u \in Nat, FitsIn(H, sv, cn, u),
           NEW H2, IsBook(H2), Grows(H, H2, u), NEW u2 \in Nat, u <= u2, DOMAIN H2 \subseteq 1..u2,
           NEW x \in Servers, NEW me \in ServerTypes, me.replid <= u2, ServerAt(H2, me, setup.ttl),
           Owner(me) => (Owner(sv[x]) /\ me.replid = sv[x].replid) \/ me.replid > u,
           \A t \in Servers \ {x} : Owner(sv[t]) => H2[sv[t].replid] = H[sv[t].replid],
           \A t \in Servers \ {x} : cn[t] # None /\ cn[t].to = x /\ Follows(cn[t]) =>
              /\ me.replid = sv[x].replid /\ me.master_repl_offset = sv[x].master_repl_offset
              /\ me.rdb_child = sv[x].rdb_child,
           NEW k2, k2 # None => LinkAt(H2, k2, me, [sv EXCEPT ![x] = me][k2.to]), Serving(k2) => k2.to # x
    PROVE  FitsIn(H2, [sv EXCEPT ![x] = me], [cn EXCEPT ![x] = k2], u2)
<1> DEFINE cn2 == [cn EXCEPT ![x] = k2]
           sv2 == [sv EXCEPT ![x] = me]
<1>1. \A t \in Servers : cn2[t] = IF t = x THEN k2 ELSE cn[t]
  BY DEF Base, Links
<1>2. sv2[x] = me
  BY DEF Base
<1>3. ASSUME NEW t \in Servers, t # x, cn[t] # None  PROVE LinkAt(H2, cn[t], sv2[t], sv2[cn[t].to])
  <2>1. /\ cn[t].to = x /\ Follows(cn[t]) =>
             me.replid = sv[x].replid /\ me.master_repl_offset = sv[x].master_repl_offset
        /\ cn[t].to = x /\ cn[t].replstate = "WAIT_BGSAVE_END" => me.rdb_child = sv[x].rdb_child
    BY <1>3 DEF Follows
  <2> QED  BY <1>3, <2>1, LinkElsewhere
<1> HIDE DEF cn2
<1>4. \A t \in Servers : cn2[t] # None => LinkAt(H2, cn2[t], sv2[t], sv2[cn2[t].to])
  <2> SUFFICES ASSUME NEW t \in Servers, cn2[t] # None  PROVE LinkAt(H2, cn2[t], sv2[t], sv2[cn2[t].to])
    OBVIOUS
  <2>1. CASE t = x
    <3> HIDE DEF sv2
    <3>1. cn2[t] = k2 /\ sv2[t] = me /\ k2 # None /\ LinkAt(H2, k2, me, sv2[k2.to])
      BY <2>1, <1>1, <1>2 DEF sv2
    <3> QED  BY <3>1
  <2>2. CASE t # x
    <3>1. cn2[t] = cn[t]
      BY <2>2, <1>1
    <3> HIDE DEF sv2
    <3> QED  BY <2>2, <3>1, <1>3
  <2> QED  BY <2>1, <2>2
<1>5. \A t \in Servers : Serving(cn2[t]) => cn2[t].to # t
  BY <1>1 DEF FitsIn
<1>6. FitsIn(H2, sv2, cn2, u2)
  BY <1>4, <1>5, FitsStep
<1> QED  BY <1>6 DEF cn2

\* The same for a replica, which does not write in the histories.
LEMMA ReplicaFits ==
    ASSUME NEW sv, NEW cn, Base(sv, cn), NEW H, NEW u \in Nat, FitsIn(H, sv, cn, u),
           NEW x \in Servers, NEW me \in ServerTypes, me.replid <= u, ServerAt(H, me, setup.ttl), me.masterhost # NoOne,
           \A t \in Servers \ {x} : cn[t] # None /\ cn[t].to = x /\ Follows(cn[t]) =>
              /\ me.replid = sv[x].replid /\ me.master_repl_offset = sv[x].master_repl_offset
              /\ me.rdb_child = sv[x].rdb_child,
           NEW k2, k2 # None => LinkAt(H, k2, me, [sv EXCEPT ![x] = me][k2.to]), Serving(k2) => k2.to # x
    PROVE  FitsIn(H, [sv EXCEPT ![x] = me], [cn EXCEPT ![x] = k2], u)
<1>1. IsBook(H) /\ DOMAIN H \subseteq 1..u
  BY DEF FitsIn
<1>2. Grows(H, H, u) /\ u <= u /\ ~Owner(me)
  BY <1>1, GrowsItself DEF Owner
<1>3. /\ Owner(me) => (Owner(sv[x]) /\ me.replid = sv[x].replid) \/ me.replid > u
      /\ \A t \in Servers \ {x} : Owner(sv[t]) => H[sv[t].replid] = H[sv[t].replid]
  BY <1>2
<1> QED  BY <1>1, <1>2, <1>3, OneFits

\* The fields that ServerAt is about.
SameServer(me2, me) ==
    /\ me2.masterhost = me.masterhost /\ me2.replid = me.replid /\ me2.replid2 = me.replid2
    /\ me2.second_replid_offset = me.second_replid_offset /\ me2.master_repl_offset = me.master_repl_offset
    /\ me2.backlog = me.backlog /\ me2.slaveseldb = me.slaveseldb /\ me2.master = me.master
    /\ me2.cached_master = me.cached_master /\ me2.data = me.data /\ me2.rdb_child = me.rdb_child
    /\ me2.dump = me.dump

\* A server that is the same in these fits the histories.
LEMMA ServerSame ==
    ASSUME NEW H, NEW me, NEW me2, SameServer(me2, me), NEW ttl, ServerAt(H, me, ttl)
    PROVE  ServerAt(H, me2, ttl)
BY DEF SameServer, ServerAt, BacklogAt, MasterAt, Owner

\* Where a step begins.
LEMMA Here ==
    ASSUME IInv, IInv', setup' = setup, NEW H, FitsIn(H, srv, conn, used.ids), NEW s \in Servers
    PROVE  /\ Base(srv, conn) /\ used.ids \in Nat /\ srv[s] \in ServerTypes /\ ServerOK(srv[s]) /\ srv'[s] \in ServerTypes
           /\ ServerAt(H, srv[s], setup.ttl) /\ srv[s].replid <= used.ids /\ IsBook(H) /\ setup \in Setups
           /\ conn \in Links /\ srv \in [Servers -> ServerTypes] /\ LinkOK(conn[s], srv[s])
           /\ conn[s] # None => LinkAt(H, conn[s], srv[s], srv[conn[s].to]) /\ conn[s] \in Conns /\ conn[s].to \in Servers
<1>1. Base(srv, conn) /\ Base(srv', conn') /\ used.ids \in Nat
  BY BaseAll
<1>2. srv[s] \in ServerTypes /\ ServerOK(srv[s]) /\ srv'[s] \in ServerTypes
  BY <1>1 DEF Base
<1> QED  BY <1>1, <1>2, BaseTypes DEF FitsIn, IInv, Base

\* connectWithMaster() keeps the histories.
LEMMA connectFits ==
    ASSUME IInv, IInv', setup' = setup, NEW H, FitsIn(H, srv, conn, used.ids), NEW s \in Servers, connectWithMaster(s)
    PROVE  \E H2 : FitsIn(H2, srv', conn', used'.ids)
<1> DEFINE me == [srv[s] EXCEPT !.repl_state = "CONNECTING"]
           k2 == NewConn(srv[s].masterhost)
<1>1. srv[s].repl_state = "CONNECT" /\ srv' = [srv EXCEPT ![s] = me] /\ conn' = [conn EXCEPT ![s] = k2] /\ used' = used
  BY DEF connectWithMaster
<1>2. /\ Base(srv, conn) /\ used.ids \in Nat /\ srv[s] \in ServerTypes /\ ServerOK(srv[s])
      /\ ServerAt(H, srv[s], setup.ttl) /\ srv[s].replid <= used.ids
  BY Here
<1>3. me \in ServerTypes /\ me.repl_state = "CONNECTING" /\ SameServer(me, srv[s]) /\ me.masterhost # NoOne
  BY <1>1, <1>2 DEF ServerTypes, ReplStates, SameServer, ServerOK
<1>4. /\ k2.psync = None /\ k2.replstate = "NONE" /\ ~k2.on_ack /\ k2.buf = <<>> /\ k2.down = <<>>
  BY DEF NewConn
<1>5. ShapeOK(k2, me) /\ ~Follows(k2) /\ ~Serving(k2)
  BY <1>4 DEF ShapeOK, Follows, Serving
<1> HIDE DEF me, k2
<1>6. WayOK(H, me, k2.down)
  BY <1>3, <1>4, EmptySeq DEF WayOK, Silent
<1>7. LinkAt(H, k2, me, [srv EXCEPT ![s] = me][k2.to])
  BY <1>4, <1>5, <1>6 DEF LinkAt
<1>8. ServerAt(H, me, setup.ttl)
  BY <1>2, <1>3, ServerSame
<1>9. me.replid <= used.ids /\ me.replid = srv[s].replid /\ me.master_repl_offset = srv[s].master_repl_offset
      /\ me.rdb_child = srv[s].rdb_child
  BY <1>2, <1>3 DEF SameServer
<1>10. FitsIn(H, srv', conn', used.ids)
  BY <1>1, <1>2, <1>3, <1>5, <1>7, <1>8, <1>9, ReplicaFits
<1> QED  BY <1>1, <1>10

\* SendPsync() keeps the histories.
LEMMA SendPsyncFits ==
    ASSUME IInv, IInv', setup' = setup, NEW H, FitsIn(H, srv, conn, used.ids), NEW s \in Servers, SendPsync(s)
    PROVE  \E H2 : FitsIn(H2, srv', conn', used'.ids)
<1> DEFINE me == [srv[s] EXCEPT !.repl_state = "RECEIVE_PSYNC", !.master_initial_offset = -1]
           k  == conn[s]
           k2 == [k EXCEPT !.psync = IF k.replstate = "CLOSED" THEN None ELSE PsyncArgs(srv[s])]
<1>1. srv[s].repl_state = "CONNECTING" /\ srv' = [srv EXCEPT ![s] = me] /\ conn' = [conn EXCEPT ![s] = k2] /\ used' = used
  BY DEF SendPsync
<1>2. /\ Base(srv, conn) /\ used.ids \in Nat /\ srv[s] \in ServerTypes /\ ServerOK(srv[s]) /\ LinkOK(k, srv[s])
      /\ ServerAt(H, srv[s], setup.ttl) /\ srv[s].replid <= used.ids
      /\ k # None => LinkAt(H, k, srv[s], srv[k.to]) /\ k \in Conns
  BY Here
<1>3. k # None /\ k \in Conns /\ k.down = <<>> /\ k.replstate \in {"NONE", "CLOSED"} /\ ShapeOK(k, srv[s])
  BY <1>1, <1>2 DEF LinkOK, Untouched, LinkAt
<1>4. /\ me \in ServerTypes /\ me.repl_state = "RECEIVE_PSYNC" /\ SameServer(me, srv[s]) /\ me.masterhost # NoOne
  <2>1. srv[s].masterhost # NoOne
    BY <1>1, <1>2 DEF ServerOK
  <2>2. me \in ServerTypes
    <3> HIDE DEF me
    <3>1. srv'[s] = me
      BY <1>1, <1>2 DEF Base
    <3> QED  BY <3>1, Here
  <2>3. me.repl_state = "RECEIVE_PSYNC" /\ SameServer(me, srv[s])
    BY <1>2 DEF ServerTypes, SameServer
  <2> QED  BY <2>1, <2>2, <2>3 DEF SameServer
<1>5. PsyncArgs(me) = PsyncArgs(srv[s])
  BY <1>4 DEF SameServer, PsyncArgs
<1> HIDE DEF me, k
<1>6. /\ k2.psync = None \/ (k2.psync = PsyncArgs(me) /\ k2.replstate = "NONE")
      /\ k2.replstate = k.replstate /\ k2.on_ack = k.on_ack /\ k2.buf = k.buf /\ k2.down = k.down
  BY <1>3, <1>5 DEF Conns
<1> HIDE DEF k2
<1>7. ShapeOK(k2, me) /\ ~Follows(k2) /\ ~Serving(k2)
  BY <1>3, <1>4, <1>6 DEF ShapeOK, Follows, Serving
<1>8. WayOK(H, me, k2.down)
  BY <1>3, <1>4, <1>6, EmptySeq DEF WayOK, Silent
<1>9. LinkAt(H, k2, me, [srv EXCEPT ![s] = me][k2.to])
  BY <1>3, <1>6, <1>7, <1>8 DEF LinkAt
<1>10. ServerAt(H, me, setup.ttl)
  BY <1>2, <1>4, ServerSame
<1>11. me.replid <= used.ids /\ me.replid = srv[s].replid /\ me.master_repl_offset = srv[s].master_repl_offset
      /\ me.rdb_child = srv[s].rdb_child
  BY <1>2, <1>4 DEF SameServer
<1>12. FitsIn(H, srv', conn', used.ids)
  BY <1>1, <1>2, <1>4, <1>7, <1>9, <1>10, <1>11, ReplicaFits
<1> QED  BY <1>1, <1>12
-----------------------------------------------------------------------------
(* A replica reads a message. *)

\* The first message of a concatenation.
LEMMA TailConcat ==
    ASSUME NEW a \in Seq(Messages), NEW b \in Seq(Messages), a # <<>>
    PROVE  /\ Tail(a \o b) = Tail(a) \o b /\ (a \o b)[1] = a[1] /\ Len(a \o b) >= 1 /\ a \o b # <<>>
           /\ Tail(a) \in Seq(Messages) /\ Head(a) = a[1] /\ Len(a) >= 1 /\ Len(Tail(a)) = Len(a) - 1
<1> DEFINE q == a \o b
           c == Tail(a)
<1>1. /\ q \in Seq(Messages) /\ Len(q) = Len(a) + Len(b) /\ Len(a) \in Nat /\ Len(b) \in Nat
      /\ \A i \in 1..Len(a) + Len(b) : q[i] = IF i <= Len(a) THEN a[i] ELSE b[i - Len(a)]
  BY LenProperties, ConcatProperties
<1>2. Len(a) >= 1
  BY <1>1, EmptySeq
<1> HIDE DEF q
<1>3. q # <<>> /\ q[1] = a[1] /\ Len(q) >= 1
  BY <1>1, <1>2
<1>4. /\ Tail(q) \in Seq(Messages) /\ Len(Tail(q)) = Len(q) - 1
      /\ \A i \in 1..Len(Tail(q)) : Tail(q)[i] = q[i + 1]
  BY <1>1, <1>3, HeadTailProperties
<1>5. /\ c \in Seq(Messages) /\ Len(c) = Len(a) - 1 /\ \A i \in 1..Len(c) : c[i] = a[i + 1]
  BY HeadTailProperties
<1> HIDE DEF c
<1>6. /\ c \o b \in Seq(Messages) /\ Len(c \o b) = Len(c) + Len(b)
      /\ \A i \in 1..Len(c) + Len(b) : (c \o b)[i] = IF i <= Len(c) THEN c[i] ELSE b[i - Len(c)]
  BY <1>5, ConcatProperties
<1>7. ASSUME NEW i \in 1..Len(Tail(q))  PROVE Tail(q)[i] = (c \o b)[i]
  <2>1. i \in Nat /\ i + 1 \in 1..Len(a) + Len(b) /\ i \in 1..Len(c) + Len(b)
    BY <1>1, <1>4, <1>5
  <2>2. Tail(q)[i] = IF i + 1 <= Len(a) THEN a[i + 1] ELSE b[i + 1 - Len(a)]
    BY <2>1, <1>1, <1>4
  <2>3. CASE i <= Len(c)
    <3>1. i \in 1..Len(c) /\ i + 1 <= Len(a)
      BY <2>1, <2>3, <1>1, <1>5
    <3> QED  BY <2>1, <2>2, <2>3, <3>1, <1>5, <1>6
  <2>4. CASE ~(i <= Len(c))
    <3>1. ~(i + 1 <= Len(a)) /\ i + 1 - Len(a) = i - Len(c)
      BY <2>1, <2>4, <1>1, <1>5
    <3> QED  BY <2>1, <2>2, <2>4, <3>1, <1>6
  <2> QED  BY <2>3, <2>4
<1>8. Len(Tail(q)) = Len(c \o b)
  BY <1>1, <1>4, <1>5, <1>6
<1>9. Tail(q) = c \o b
  BY <1>4, <1>6, <1>7, <1>8, SeqEqual, Zenon
<1>10. Head(a) = a[1]
  OBVIOUS
<1> QED  BY <1>2, <1>3, <1>5, <1>9, <1>10 DEF q, c

\* The replica has read the first message: the others come as before.
LEMMA LinkTaken ==
    ASSUME NEW H, IsBook(H), NEW k \in Conns, NEW k2 \in Conns, NEW me, NEW me2, NEW m \in ServerTypes, NEW m2,
           LinkAt(H, k, me, m), k.down # <<>>, k2.down = Tail(k.down), k2.psync = k.psync, k2.replstate = k.replstate,
           k2.on_ack = k.on_ack, k2.buf = k.buf, k2.init = k.init, k2.rdb = k.rdb, Follows(k) => m2 = m,
           \A w \in Seq(Messages) : \A id, end : Len(w) >= 1 /\ w[1] = k.down[1] /\ Leads(H, me, w, id, end)
              => Leads(H, me2, Tail(w), id, end),
           Silent(me, k.down) => Silent(me2, Tail(k.down))
    PROVE  LinkAt(H, k2, me2, m2)
<1> DEFINE p == Pending(k, m.rdb_child)
           a == k.down
           b == k.buf
           v == p \o b
           w == a \o v
<1>1. /\ k.down \in Seq(Messages) /\ k.buf \in Seq(Messages) /\ p \in Seq(Messages)
      /\ k.buf \in Seq(Items) /\ k.init \in Nat
  BY LinkTypes
<1>2. ShapeOK(k2, me2)
  <2>1. ShapeOK(k, me)
    BY DEF LinkAt
  <2> QED  BY <2>1 DEF ShapeOK
<1>3. k2.replstate = "WAIT_BGSAVE_END" => Waits(H, k2, m2)
  BY DEF LinkAt, Waits, Follows
<1>4. ASSUME Follows(k)  PROVE Leads(H, me2, Coming(k2, m2.rdb_child), m2.replid, m2.master_repl_offset)
  <2>1. Coming(k, m.rdb_child) = (a \o p) \o b /\ Coming(k2, m2.rdb_child) = (Tail(a) \o p) \o b
    BY <1>4 DEF Coming, Pending
  <2>2. Leads(H, me, (a \o p) \o b, m.replid, m.master_repl_offset) /\ a # <<>> /\ m2 = m
    BY <2>1, <1>4 DEF LinkAt
  <2> DEFINE c == Tail(a)
  <2> HIDE DEF p, a, b
  <2>3. a \in Seq(Messages) /\ b \in Seq(Messages) /\ p \in Seq(Messages)
    BY <1>1 DEF a, b, p
  <2>4. c \in Seq(Messages)
    BY <2>2, <2>3, TailConcat
  <2> HIDE DEF c
  <2>5. (a \o p) \o b = w /\ (c \o p) \o b = c \o v /\ v \in Seq(Messages)
    <3>1. (a \o p) \o b = a \o (p \o b) /\ p \o b \in Seq(Messages)
      BY <2>3, Joined
    <3>2. (c \o p) \o b = c \o (p \o b)
      BY <2>3, <2>4, Joined
    <3> QED  BY <3>1, <3>2
  <2> HIDE DEF v
  <2>6. Tail(w) = c \o v /\ w[1] = a[1] /\ Len(w) >= 1 /\ w \in Seq(Messages)
    BY <2>2, <2>3, <2>5, TailConcat, ConcatProperties DEF c
  <2> HIDE DEF w
  <2>7. Leads(H, me2, Tail(w), m.replid, m.master_repl_offset)
    BY <2>2, <2>5, <2>6 DEF a
  <2> QED  BY <2>1, <2>2, <2>5, <2>6, <2>7 DEF c
<1>5. ASSUME ~Follows(k)  PROVE WayOK(H, me2, k2.down)
  <2>1. CASE Silent(me, k.down)
    BY <2>1 DEF WayOK
  <2>2. CASE ~Silent(me, k.down)
    <3>1. PICK id \in DOMAIN H, end \in Nat : Leads(H, me, k.down, id, end)
      BY <2>2, <1>5 DEF LinkAt, WayOK
    <3>2. k.down \in Seq(Messages) /\ Len(k.down) >= 1
      BY <1>1, TailConcat
    <3>3. Leads(H, me2, Tail(k.down), id, end)
      BY <3>1, <3>2
    <3> QED  BY <3>3 DEF WayOK
  <2> QED  BY <2>1, <2>2
<1> QED  BY <1>2, <1>3, <1>4, <1>5 DEF LinkAt, Follows

\* A full resync is announced: its file comes next.
LEMMA FullReplyLeads ==
    ASSUME NEW H, IsBook(H), NEW me, NEW me2, NEW w \in Seq(Messages), NEW id, NEW end, Leads(H, me, w, id, end),
           Len(w) >= 1, w[1].type = "FULLRESYNC", me.repl_state = "RECEIVE_PSYNC", me2.repl_state = "TRANSFER",
           me2.master_replid = w[1].replid, me2.master_initial_offset = w[1].offset
    PROVE  Leads(H, me2, Tail(w), id, end)
<1>1. PICK off \in Nat, n \in 0..2 : Good(H, me, w, id, off, n) /\ off + Len(w) - n = end
  BY DEF Leads
<1>2. Header(me, w, id, off, n) /\ HeaderAt(H, me, w, id, off, n) /\ Stream(H[id], off, n, w)
  BY <1>1 DEF Good
<1>3. n = 2 /\ Len(w) >= 2 /\ w[2].type = "RDB" /\ id = w[1].replid /\ off = w[1].offset
  BY <1>2 DEF Header
<1>4. id \in DOMAIN H /\ Loads(H[id], off, w[2].rdb) /\ RdbAt(H, w[2].rdb) /\ H[id] \in Histories
  BY <1>2, <1>3, BookOK DEF HeaderAt
<1>5. /\ Tail(w) \in Seq(Messages) /\ Len(Tail(w)) = Len(w) - 1
      /\ Stream(H[id], off, n - 1, Tail(w))
      /\ \A i \in 1 .. Len(w) - 1 : Tail(w)[i] = w[i + 1]
  BY <1>2, <1>3, <1>4, StreamTail
<1> DEFINE q == Tail(w)
<1> HIDE DEF q
<1>6. Len(w) \in Nat /\ q[1] = w[2] /\ Len(q) >= 1 /\ Len(q) = Len(w) - 1 /\ Stream(H[id], off, 1, q)
  BY <1>3, <1>5, LenProperties DEF q
<1>7. Header(me2, q, id, off, 1)
  BY <1>3, <1>6 DEF Header
<1>8. HeaderAt(H, me2, q, id, off, 1)
  BY <1>3, <1>4, <1>6 DEF HeaderAt
<1>9. 1 \in 0..2 /\ off + Len(q) - 1 = end
  BY <1>1, <1>3, <1>6
<1>10. Good(H, me2, q, id, off, 1)
  BY <1>6, <1>7, <1>8 DEF Good
<1> QED  BY <1>9, <1>10 DEF Leads, q

\* The replica continues: the stream comes next.
LEMMA ContinueLeads ==
    ASSUME NEW H, IsBook(H), NEW me, NEW me2, NEW w \in Seq(Messages), NEW id, NEW end, Leads(H, me, w, id, end),
           Len(w) >= 1, w[1].type = "CONTINUE", me.repl_state = "RECEIVE_PSYNC", me2.repl_state = "CONNECTED",
           me2.replid = w[1].replid, me2.master_repl_offset = me.master_repl_offset
    PROVE  /\ Leads(H, me2, Tail(w), id, end)
           /\ me.cached_master # None /\ Shared(H, me.replid, w[1].replid, me.master_repl_offset)
<1>1. PICK off \in Nat, n \in 0..2 : Good(H, me, w, id, off, n) /\ off + Len(w) - n = end
  BY DEF Leads
<1>2. Header(me, w, id, off, n) /\ HeaderAt(H, me, w, id, off, n) /\ Stream(H[id], off, n, w)
  BY <1>1 DEF Good
<1>3. n = 1 /\ id = w[1].replid /\ off = me.master_repl_offset
  BY <1>2 DEF Header
<1>4. id \in DOMAIN H /\ H[id] \in Histories /\ me.cached_master # None /\ Shared(H, me.replid, id, off)
  BY <1>2, <1>3, BookOK DEF HeaderAt
<1> DEFINE q == Tail(w)
<1>5. Len(q) = Len(w) - 1 /\ Stream(H[id], off, n - 1, q)
  BY <1>2, <1>3, <1>4, StreamTail
<1> HIDE DEF q
<1>6. Len(w) \in Nat /\ Stream(H[id], off, 0, q) /\ off + Len(q) - 0 = end
  BY <1>1, <1>3, <1>5, LenProperties
<1>7. Header(me2, q, id, off, 0)
  BY <1>3 DEF Header
<1>8. HeaderAt(H, me2, q, id, off, 0)
  BY <1>4 DEF HeaderAt
<1>9. Good(H, me2, q, id, off, 0)
  BY <1>6, <1>7, <1>8 DEF Good
<1>10. Leads(H, me2, q, id, end)
  <2>1. 0 \in 0..2
    OBVIOUS
  <2> QED  BY <2>1, <1>6, <1>9 DEF Leads
<1> QED  BY <1>3, <1>4, <1>10 DEF q

\* The file of a full resync is loaded: the stream comes next.
LEMMA LoadLeads ==
    ASSUME NEW H, IsBook(H), NEW me, NEW me2, NEW w \in Seq(Messages), NEW id, NEW end, Leads(H, me, w, id, end),
           Len(w) >= 1, w[1].type = "RDB", me.repl_state = "TRANSFER", me2.repl_state = "CONNECTED",
           me2.replid = me.master_replid, me2.master_repl_offset = me.master_initial_offset
    PROVE  /\ Leads(H, me2, Tail(w), id, end)
           /\ me.master_replid \in DOMAIN H /\ Loads(H[me.master_replid], me.master_initial_offset, w[1].rdb)
           /\ RdbAt(H, w[1].rdb)
<1>1. PICK off \in Nat, n \in 0..2 : Good(H, me, w, id, off, n) /\ off + Len(w) - n = end
  BY DEF Leads
<1>2. Header(me, w, id, off, n) /\ HeaderAt(H, me, w, id, off, n) /\ Stream(H[id], off, n, w)
  BY <1>1 DEF Good
<1>3. n = 1 /\ id = me.master_replid /\ off = me.master_initial_offset
  BY <1>2 DEF Header
<1>4. id \in DOMAIN H /\ H[id] \in Histories /\ Loads(H[id], off, w[1].rdb) /\ RdbAt(H, w[1].rdb)
  BY <1>2, <1>3, BookOK DEF HeaderAt
<1> DEFINE q == Tail(w)
<1>5. Len(q) = Len(w) - 1 /\ Stream(H[id], off, n - 1, q)
  BY <1>2, <1>3, <1>4, StreamTail
<1> HIDE DEF q
<1>6. Len(w) \in Nat /\ Stream(H[id], off, 0, q) /\ off + Len(q) - 0 = end
  BY <1>1, <1>3, <1>5, LenProperties
<1>7. Header(me2, q, id, off, 0)
  BY <1>3 DEF Header
<1>8. HeaderAt(H, me2, q, id, off, 0)
  BY <1>4 DEF HeaderAt
<1>9. Good(H, me2, q, id, off, 0)
  BY <1>6, <1>7, <1>8 DEF Good
<1>10. Leads(H, me2, q, id, end)
  <2>1. 0 \in 0..2
    OBVIOUS
  <2> QED  BY <2>1, <1>6, <1>9 DEF Leads
<1> QED  BY <1>3, <1>4, <1>10 DEF q

\* A command of the stream is applied: the rest comes next.
LEMMA ApplyLeads ==
    ASSUME NEW H, IsBook(H), NEW me, NEW me2, NEW w \in Seq(Messages), NEW id, NEW end, Leads(H, me, w, id, end),
           Len(w) >= 1, me.repl_state = "CONNECTED", me2.repl_state = "CONNECTED",
           me2.replid = me.replid, me.master_repl_offset \in Nat, me2.master_repl_offset = me.master_repl_offset + 1
    PROVE  /\ Leads(H, me2, Tail(w), id, end)
           /\ me.replid \in DOMAIN H /\ me.master_repl_offset + 1 <= H[me.replid].hi
           /\ w[1] \in Items
           /\ Reaches(H[me.replid].pos[me.master_repl_offset], w[1], H[me.replid].pos[me.master_repl_offset + 1])
<1>1. PICK off \in Nat, n \in 0..2 : Good(H, me, w, id, off, n) /\ off + Len(w) - n = end
  BY DEF Leads
<1>2. Header(me, w, id, off, n) /\ HeaderAt(H, me, w, id, off, n) /\ Stream(H[id], off, n, w)
  BY <1>1 DEF Good
<1>3. n = 0 /\ id = me.replid /\ off = me.master_repl_offset
  BY <1>2 DEF Header
<1>4. id \in DOMAIN H /\ H[id] \in Histories /\ H[id].hi \in Nat
  BY <1>2, <1>3, BookOK DEF HeaderAt
<1> DEFINE q == Tail(w)
<1>5. Len(q) = Len(w) - 1 /\ Stream(H[id], off + 1, 0, q)
  BY <1>2, <1>3, <1>4, StreamTail
<1> HIDE DEF q
<1>6. Len(w) \in Nat /\ off + 1 + Len(q) - 0 = end /\ off + 1 \in Nat /\ off + 1 <= H[id].hi
  BY <1>1, <1>2, <1>3, <1>4, <1>5, LenProperties DEF Stream
<1>7. Header(me2, q, id, off + 1, 0)
  BY <1>3 DEF Header
<1>8. HeaderAt(H, me2, q, id, off + 1, 0)
  BY <1>4 DEF HeaderAt
<1>9. Good(H, me2, q, id, off + 1, 0)
  BY <1>5, <1>7, <1>8 DEF Good
<1>10. w[1] \in Items /\ Reaches(H[id].pos[off], w[1], H[id].pos[off + 1])
  <2>1. 1 \in 0 + 1 .. Len(w) /\ off + 1 - 0 - 1 = off /\ off + 1 - 0 = off + 1
    BY <1>6
  <2> QED  BY <1>2, <1>3, <2>1 DEF Stream
<1> QED  BY <1>3, <1>4, <1>6, <1>9, <1>10 DEF Leads, q
\* A replica that has nothing to continue from.
LEMMA BareAt ==
    ASSUME NEW H, NEW me, NEW ttl, me.masterhost # NoOne, me.backlog = None, me.master = None, me.cached_master = None,
           RdbAt(H, me.dump), me.rdb_child # None => RdbAt(H, me.rdb_child.rdb)
    PROVE  ServerAt(H, me, ttl)
BY DEF ServerAt, Owner

\* A replica and its link change, and its sub-slaves are closed.
LEMMA LeaveFits ==
    ASSUME IInv, IInv', setup' = setup, NEW H, FitsIn(H, srv, conn, used.ids), NEW s \in Servers,
           NEW me \in ServerTypes, me.replid <= used.ids, ServerAt(H, me, setup.ttl), me.masterhost # NoOne,
           srv' = [srv EXCEPT ![s] = me], used'.ids = used.ids, NEW k2,
           conn' = DisconnectSlaves([conn EXCEPT ![s] = k2], s),
           k2 # None => LinkAt(H, k2, me, [srv EXCEPT ![s] = me][k2.to]), Serving(k2) => k2.to # s
    PROVE  \E H2 : FitsIn(H2, srv', conn', used'.ids)
<1> DEFINE c == DisconnectSlaves(conn, s)
<1>1. Base(srv, conn) /\ used.ids \in Nat /\ conn \in Links
  BY Here
<1>2. /\ Base(srv, c) /\ FitsIn(H, srv, c, used.ids) /\ \A t \in Servers : ~IsSlaveOf(c, t, s)
  BY <1>1, DisconnectFits
<1>3. ~IsSlaveOf(conn, s, s) /\ ~(k2 # None /\ k2.to = s /\ Serving(k2))
  BY DEF FitsIn, IsSlaveOf, Serving
<1>4. conn' = [c EXCEPT ![s] = k2]
  BY <1>1, <1>3, DisconnectLast
<1> HIDE DEF c
<1>5. \A t \in Servers \ {s} : c[t] # None /\ c[t].to = s /\ Follows(c[t]) =>
              /\ me.replid = srv[s].replid /\ me.master_repl_offset = srv[s].master_repl_offset
              /\ me.rdb_child = srv[s].rdb_child
  BY <1>2 DEF IsSlaveOf, Follows
<1>6. FitsIn(H, [srv EXCEPT ![s] = me], [c EXCEPT ![s] = k2], used.ids)
  BY <1>1, <1>2, <1>5, ReplicaFits
<1> QED  BY <1>4, <1>6

\* The link after the replica has read the first message.
LEMMA ReadHere ==
    ASSUME IInv, IInv', setup' = setup, NEW H, FitsIn(H, srv, conn, used.ids), NEW s \in Servers, NEW me,
           NEW state \in ReplStates \ {"NONE", "CONNECT"}, NEW types, Received(s, state, types),
           \A w \in Seq(Messages) : \A id, end :
              Len(w) >= 1 /\ w[1] = conn[s].down[1] /\ Leads(H, srv[s], w, id, end) => Leads(H, me, Tail(w), id, end),
           Silent(srv[s], conn[s].down) => Silent(me, Tail(conn[s].down))
    PROVE  LET k2 == [conn[s] EXCEPT !.down = Tail(@)]
           IN  /\ Taken(s) = [conn EXCEPT ![s] = k2] /\ k2 \in Conns /\ k2.to = conn[s].to /\ k2.replstate = conn[s].replstate
               /\ LinkAt(H, k2, me, [srv EXCEPT ![s] = me][k2.to]) /\ (Serving(k2) => k2.to # s)
<1> DEFINE k == conn[s]
           k2 == [k EXCEPT !.down = Tail(k.down)]
           m == srv[k.to]
           m2 == [srv EXCEPT ![s] = me][k.to]
<1>1. conn \in Links /\ k \in Conns /\ k # None /\ Taken(s)[s] \in Conns /\ k.down # <<>>
  BY TakenOK, NoneElsewhere DEF IInv, Received
<1>2. k.to \in Servers /\ m \in ServerTypes /\ LinkAt(H, k, srv[s], m) /\ srv \in [Servers -> ServerTypes] /\ IsBook(H)
  BY <1>1, Here, BaseTypes
<1>3. Taken(s) = [conn EXCEPT ![s] = k2]
  BY DEF Taken
<1>4. Taken(s)[s] = k2
  BY <1>1, <1>3 DEF Links
<1>5. k2 \in Conns
  BY <1>1, <1>4
<1>6. Serving(k) => k.to # s
  BY DEF FitsIn
<1>7. Follows(k) => m2 = m
  BY <1>1, <1>2, <1>6 DEF Follows, Serving
<1> HIDE DEF k, m, m2
<1>8. /\ k2.down = Tail(k.down) /\ k2.psync = k.psync /\ k2.replstate = k.replstate /\ k2.to = k.to
      /\ k2.on_ack = k.on_ack /\ k2.buf = k.buf /\ k2.init = k.init /\ k2.rdb = k.rdb
  BY <1>1 DEF Conns
<1> HIDE DEF k2
<1>9. Silent(srv[s], k.down) => Silent(me, Tail(k.down))
  BY DEF k
<1>10. \A w \in Seq(Messages) : \A id, end :
              Len(w) >= 1 /\ w[1] = k.down[1] /\ Leads(H, srv[s], w, id, end) => Leads(H, me, Tail(w), id, end)
  BY DEF k
<1>11. LinkAt(H, k2, me, m2)
  BY <1>1, <1>2, <1>5, <1>7, <1>8, <1>9, <1>10, LinkTaken
<1>12. Serving(k2) => k2.to # s
  BY <1>1, <1>6, <1>8 DEF Serving
<1> QED  BY <1>3, <1>5, <1>8, <1>11, <1>12 DEF k2, m2, k

\* What the replica reads is expected: it begins what leads it on.
LEMMA Expected ==
    ASSUME IInv, IInv', setup' = setup, NEW H, FitsIn(H, srv, conn, used.ids), NEW s \in Servers,
           NEW state \in ReplStates \ {"NONE", "CONNECT"}, NEW types, Received(s, state, types)
    PROVE  \/ Silent(srv[s], conn[s].down)
           \/ \E w \in Seq(Messages) : \E id, end :
                Len(w) >= 1 /\ w[1] = conn[s].down[1] /\ Leads(H, srv[s], w, id, end)
<1> DEFINE k == conn[s]
           m == srv[k.to]
<1>1. k \in Conns /\ k # None /\ k.down # <<>>
  BY TakenOK, NoneElsewhere DEF Received
<1>2. m \in ServerTypes /\ LinkAt(H, k, srv[s], m)
  BY <1>1, Here, BaseTypes
<1>3. /\ Coming(k, m.rdb_child) \in Seq(Messages) /\ k.down \in Seq(Messages) /\ k.buf \in Seq(Messages)
      /\ Pending(k, m.rdb_child) \in Seq(Messages)
  BY <1>1, <1>2, LinkTypes
<1>4. CASE Follows(k)
  <2> DEFINE a == k.down
             p == Pending(k, m.rdb_child)
             b == k.buf
             w == Coming(k, m.rdb_child)
  <2>1. w = (a \o p) \o b /\ a # <<>>
    BY <1>1 DEF Coming
  <2>2. Leads(H, srv[s], w, m.replid, m.master_repl_offset)
    BY <1>2, <1>4 DEF LinkAt
  <2>3. a \in Seq(Messages) /\ p \in Seq(Messages) /\ b \in Seq(Messages) /\ w \in Seq(Messages)
    BY <1>3
  <2> HIDE DEF a, p, b, w
  <2>4. a \o p \in Seq(Messages) /\ (a \o p)[1] = a[1] /\ a \o p # <<>>
    BY <2>1, <2>3, TailConcat, ConcatProperties
  <2>5. w[1] = a[1] /\ Len(w) >= 1
    BY <2>1, <2>3, <2>4, TailConcat
  <2> QED  BY <2>2, <2>3, <2>5 DEF a
<1>5. CASE ~Follows(k)
  <2>1. Len(k.down) >= 1
    BY <1>1, <1>3, TailConcat
  <2> QED  BY <1>2, <1>3, <1>5, <2>1 DEF LinkAt, WayOK
<1> QED  BY <1>4, <1>5

\* ReplyFullResync() keeps the histories.
LEMMA ReplyFullResyncFits ==
    ASSUME IInv, IInv', setup' = setup, NEW H, FitsIn(H, srv, conn, used.ids), NEW s \in Servers, ReplyFullResync(s)
    PROVE  \E H2 : FitsIn(H2, srv', conn', used'.ids)
<1> DEFINE reply == Head(conn[s].down)
           me == [srv[s] EXCEPT !.repl_state = "TRANSFER", !.master_replid = reply.replid,
                                !.master_initial_offset = reply.offset,
                                !.cached_master = None, !.backlog = None]
           k2 == [conn[s] EXCEPT !.down = Tail(@)]
<1>1. Received(s, "RECEIVE_PSYNC", {"FULLRESYNC"}) /\ "RECEIVE_PSYNC" \in ReplStates \ {"NONE", "CONNECT"}
  BY DEF ReplyFullResync, ReplStates
<1>2. /\ conn[s] \in Conns /\ reply.type = "FULLRESYNC" /\ srv[s].repl_state = "RECEIVE_PSYNC"
      /\ srv[s].masterhost \in Servers /\ reply = conn[s].down[1]
  BY <1>1, TakenOK
<1>3. /\ srv[s] \in ServerTypes /\ ServerOK(srv[s]) /\ srv'[s] \in ServerTypes /\ srv \in [Servers -> ServerTypes]
      /\ ServerAt(H, srv[s], setup.ttl) /\ srv[s].replid <= used.ids /\ IsBook(H)
  BY Here
<1>4. srv' = [srv EXCEPT ![s] = me] /\ conn' = DisconnectSlaves(Taken(s), s) /\ used' = used
  BY <1>3 DEF ReplyFullResync, BeginTransfer, ServerTypes
<1> HIDE DEF reply
<1>5. /\ me.repl_state = "TRANSFER" /\ me.masterhost = srv[s].masterhost /\ me.replid = srv[s].replid
      /\ me.master = srv[s].master /\ me.cached_master = None /\ me.backlog = None
      /\ me.master_replid = reply.replid /\ me.master_initial_offset = reply.offset
      /\ me.dump = srv[s].dump /\ me.rdb_child = srv[s].rdb_child
  BY <1>3 DEF ServerTypes
<1> HIDE DEF me
<1>6. me = srv'[s] /\ me \in ServerTypes
  BY <1>3, <1>4
<1>7. srv[s].master = None /\ srv[s].masterhost # NoOne
  BY <1>2, <1>3 DEF ServerOK
<1>8. ServerAt(H, me, setup.ttl)
  <2>1. RdbAt(H, me.dump) /\ (me.rdb_child # None => RdbAt(H, me.rdb_child.rdb))
    BY <1>3, <1>5 DEF ServerAt
  <2> QED  BY <1>5, <1>7, <2>1, BareAt
<1>9. ASSUME NEW w \in Seq(Messages), NEW id, NEW end, Len(w) >= 1, w[1] = conn[s].down[1], Leads(H, srv[s], w, id, end)
      PROVE  Leads(H, me, Tail(w), id, end)
  BY <1>9, <1>2, <1>3, <1>5, FullReplyLeads
<1>10. ASSUME Silent(srv[s], conn[s].down)  PROVE Silent(me, Tail(conn[s].down))
  <2> DEFINE d == conn[s].down
  <2>1. d \in Seq(Messages) /\ d # <<>> /\ d[1].type = "FULLRESYNC" /\ Silent(srv[s], d)
    BY <1>1, <1>2, <1>10 DEF Conns, Received
  <2> HIDE DEF d
  <2>2. Len(d) \in Nat /\ Len(Tail(d)) = Len(d) - 1 /\ \A i \in 1..Len(Tail(d)) : Tail(d)[i] = d[i + 1]
    BY <2>1, HeadTailProperties, LenProperties
  <2>3. Len(d) = 1 \/ (Len(d) >= 2 /\ d[2].type = "ERR") \/ Len(d) = 0
    BY <2>1 DEF Silent
  <2>4. Len(d) # 0
    BY <2>1, EmptySeq
  <2>5. Len(Tail(d)) = 0 \/ (Len(Tail(d)) >= 1 /\ Tail(d)[1].type = "ERR")
    BY <2>2, <2>3, <2>4
  <2> QED  BY <2>5, <1>5 DEF Silent, d
<1>11. /\ Taken(s) = [conn EXCEPT ![s] = k2] /\ k2 \in Conns
       /\ LinkAt(H, k2, me, [srv EXCEPT ![s] = me][k2.to]) /\ (Serving(k2) => k2.to # s)
  BY <1>1, <1>9, <1>10, ReadHere
<1> HIDE DEF k2
<1>12. me.masterhost # NoOne /\ me.replid <= used.ids /\ used'.ids = used.ids /\ conn' = DisconnectSlaves([conn EXCEPT ![s] = k2], s)
  BY <1>3, <1>4, <1>5, <1>7, <1>11
<1> QED  BY <1>4, <1>6, <1>8, <1>11, <1>12, LeaveFits
\* LoadRdbFails() keeps the histories.
LEMMA LoadRdbFailsFits ==
    ASSUME IInv, IInv', setup' = setup, NEW H, FitsIn(H, srv, conn, used.ids), NEW s \in Servers, LoadRdbFails(s)
    PROVE  \E H2 : FitsIn(H2, srv', conn', used'.ids)
<1> DEFINE me == [srv[s] EXCEPT !.repl_state = "CONNECT", !.data = <<>>, !.dump = EmptyRdb]
<1>1. /\ srv[s].repl_state = "TRANSFER" /\ used' = Failed(used, FALSE)
      /\ srv' = [srv EXCEPT ![s] = me] /\ conn' = [conn EXCEPT ![s] = None]
  BY DEF LoadRdbFails, Received
<1>2. /\ Base(srv, conn) /\ used.ids \in Nat /\ srv[s] \in ServerTypes /\ ServerOK(srv[s]) /\ srv'[s] \in ServerTypes
      /\ ServerAt(H, srv[s], setup.ttl) /\ srv[s].replid <= used.ids /\ srv \in [Servers -> ServerTypes]
  BY Here
<1>3. /\ me.masterhost = srv[s].masterhost /\ me.master = srv[s].master /\ me.cached_master = srv[s].cached_master
      /\ me.backlog = srv[s].backlog /\ me.replid = srv[s].replid /\ me.rdb_child = srv[s].rdb_child
      /\ me.master_repl_offset = srv[s].master_repl_offset /\ me.dump = EmptyRdb
  BY <1>2 DEF ServerTypes
<1> HIDE DEF me
<1>4. me \in ServerTypes
  <2>1. me = srv'[s]
    BY <1>1, <1>2
  <2> QED  BY <2>1, <1>2
<1>5. srv[s].master = None /\ srv[s].cached_master = None /\ srv[s].backlog = None /\ srv[s].masterhost # NoOne
  BY <1>1, <1>2 DEF ServerOK
<1>6. ServerAt(H, me, setup.ttl)
  <2>1. RdbAt(H, me.dump)
    BY <1>3 DEF RdbAt, EmptyRdb
  <2>2. me.rdb_child # None => RdbAt(H, me.rdb_child.rdb)
    BY <1>2, <1>3 DEF ServerAt
  <2> QED  BY <1>3, <1>5, <2>1, <2>2, BareAt
<1>7. used'.ids = used.ids
  BY <1>1 DEF IInv, Useds, Failed
<1>8. me.replid <= used.ids /\ me.masterhost # NoOne /\ ~Serving(None)
  BY <1>2, <1>3, <1>5 DEF Serving
<1>9. FitsIn(H, [srv EXCEPT ![s] = me], [conn EXCEPT ![s] = None], used.ids)
  BY <1>2, <1>3, <1>4, <1>6, <1>8, ReplicaFits
<1> QED  BY <1>1, <1>7, <1>9

\* The cached master is where the master was.
LEMMA LoseAt ==
    ASSUME NEW H, NEW me \in ServerTypes, ServerOK(me), me.masterhost # NoOne, NEW ttl, ServerAt(H, me, ttl)
    PROVE  /\ ServerAt(H, LoseMaster(me), ttl) /\ LoseMaster(me) \in ServerTypes
           /\ LoseMaster(me).masterhost = me.masterhost /\ LoseMaster(me).replid = me.replid
           /\ LoseMaster(me).master_repl_offset = me.master_repl_offset /\ LoseMaster(me).rdb_child = me.rdb_child
<1> DEFINE r == LoseMaster(me)
<1>1. r \in ServerTypes
  BY LoseOK
<1>2. CASE me.master # None
  <2>1. r = [me EXCEPT !.cached_master = me.master, !.master = None, !.repl_state = "CONNECT"]
    BY <1>2 DEF LoseMaster
  <2> HIDE DEF r
  <2>2. /\ r.cached_master = me.master /\ r.master = None /\ r.data = me.data
        /\ r.masterhost = me.masterhost /\ r.backlog = me.backlog /\ r.replid = me.replid
        /\ r.master_repl_offset = me.master_repl_offset /\ r.replid2 = me.replid2 /\ r.dump = me.dump
        /\ r.second_replid_offset = me.second_replid_offset /\ r.rdb_child = me.rdb_child
    BY <2>1 DEF ServerTypes
  <2>3. me.backlog # None
    BY <1>2 DEF ServerOK
  <2>4. ServerAt(H, r, ttl)
    BY <1>2, <2>2, <2>3 DEF ServerAt, Owner, BacklogAt
  <2> QED  BY <1>1, <2>2, <2>4 DEF r
<1>3. CASE me.master = None
  <2>1. r = [me EXCEPT !.repl_state = "CONNECT"]
    BY <1>3 DEF LoseMaster
  <2> HIDE DEF r
  <2>2. SameServer(r, me)
    BY <2>1 DEF ServerTypes, SameServer
  <2>3. ServerAt(H, r, ttl)
    BY <2>2, ServerSame
  <2> QED  BY <1>1, <2>2, <2>3 DEF r, SameServer
<1> QED  BY <1>2, <1>3

\* LinkDown() keeps the histories.
LEMMA LinkDownFits ==
    ASSUME IInv, IInv', setup' = setup, NEW H, FitsIn(H, srv, conn, used.ids), NEW s \in Servers, LinkDown(s)
    PROVE  \E H2 : FitsIn(H2, srv', conn', used'.ids)
<1> DEFINE me == LoseMaster(srv[s])
<1>1. /\ conn[s] # None /\ used' \in {used, Failed(used, FALSE)}
      /\ srv' = [srv EXCEPT ![s] = me] /\ conn' = [conn EXCEPT ![s] = None]
  BY DEF LinkDown
<1>2. /\ Base(srv, conn) /\ used.ids \in Nat /\ srv[s] \in ServerTypes /\ ServerOK(srv[s]) /\ LinkOK(conn[s], srv[s])
      /\ ServerAt(H, srv[s], setup.ttl) /\ srv[s].replid <= used.ids
  BY Here
<1>3. srv[s].masterhost # NoOne
  BY <1>1, <1>2 DEF LinkOK, ServerOK
<1>4. /\ ServerAt(H, me, setup.ttl) /\ me \in ServerTypes /\ me.masterhost = srv[s].masterhost /\ me.replid = srv[s].replid
      /\ me.master_repl_offset = srv[s].master_repl_offset /\ me.rdb_child = srv[s].rdb_child
  BY <1>2, <1>3, LoseAt
<1> HIDE DEF me
<1>5. used'.ids = used.ids
  BY <1>1 DEF IInv, Useds, Failed
<1>6. me.replid <= used.ids /\ me.masterhost # NoOne /\ ~Serving(None)
  BY <1>2, <1>3, <1>4 DEF Serving
<1>7. FitsIn(H, [srv EXCEPT ![s] = me], [conn EXCEPT ![s] = None], used.ids)
  BY <1>2, <1>4, <1>6, ReplicaFits
<1> QED  BY <1>1, <1>5, <1>7

\* ReplyError() keeps the histories.
LEMMA ReplyErrorFits ==
    ASSUME IInv, IInv', setup' = setup, NEW H, FitsIn(H, srv, conn, used.ids), NEW s \in Servers, ReplyError(s)
    PROVE  \E H2 : FitsIn(H2, srv', conn', used'.ids)
<1> DEFINE me == [srv[s] EXCEPT !.repl_state = "CONNECT", !.cached_master = None, !.backlog = None]
<1>1. /\ srv[s].repl_state = "RECEIVE_PSYNC" /\ used' \in {used, Failed(used, FALSE)}
      /\ srv' = [srv EXCEPT ![s] = me] /\ conn' = DisconnectSlaves([conn EXCEPT ![s] = None], s)
  BY DEF ReplyError
<1>2. /\ Base(srv, conn) /\ used.ids \in Nat /\ srv[s] \in ServerTypes /\ ServerOK(srv[s]) /\ srv'[s] \in ServerTypes
      /\ ServerAt(H, srv[s], setup.ttl) /\ srv[s].replid <= used.ids /\ srv \in [Servers -> ServerTypes]
  BY Here
<1>3. /\ me.masterhost = srv[s].masterhost /\ me.master = srv[s].master /\ me.cached_master = None
      /\ me.backlog = None /\ me.replid = srv[s].replid /\ me.rdb_child = srv[s].rdb_child /\ me.dump = srv[s].dump
  BY <1>2 DEF ServerTypes
<1> HIDE DEF me
<1>4. me \in ServerTypes
  <2>1. me = srv'[s]
    BY <1>1, <1>2
  <2> QED  BY <2>1, <1>2
<1>5. srv[s].master = None /\ srv[s].masterhost # NoOne
  BY <1>1, <1>2 DEF ServerOK
<1>6. ServerAt(H, me, setup.ttl)
  <2>1. RdbAt(H, me.dump) /\ (me.rdb_child # None => RdbAt(H, me.rdb_child.rdb))
    BY <1>2, <1>3 DEF ServerAt
  <2> QED  BY <1>3, <1>5, <2>1, BareAt
<1>7. used'.ids = used.ids
  BY <1>1 DEF IInv, Useds, Failed
<1>8. me.replid <= used.ids /\ me.masterhost # NoOne /\ ~Serving(None)
  BY <1>2, <1>3, <1>5 DEF Serving
<1> QED  BY <1>1, <1>4, <1>6, <1>7, <1>8, LeaveFits
-----------------------------------------------------------------------------
(* The backlog in its history. *)

\* What createReplicationBacklog() leaves alone.
LEMMA CreateFields ==
    ASSUME NEW me \in ServerTypes
    PROVE  LET r == createReplicationBacklog(me)
           IN  /\ r.backlog = [off |-> me.master_repl_offset + 1, items |-> <<>>]
               /\ r.masterhost = me.masterhost /\ r.repl_state = me.repl_state /\ r.replid = me.replid
               /\ r.replid2 = me.replid2 /\ r.second_replid_offset = me.second_replid_offset
               /\ r.master_repl_offset = me.master_repl_offset /\ r.slaveseldb = me.slaveseldb /\ r.master = me.master
               /\ r.cached_master = me.cached_master /\ r.master_replid = me.master_replid
               /\ r.master_initial_offset = me.master_initial_offset /\ r.data = me.data
               /\ r.rdb_child = me.rdb_child /\ r.dump = me.dump
<1> DEFINE log == [off |-> me.master_repl_offset + 1, items |-> <<>>]
           r == createReplicationBacklog(me)
<1>1. r = [me EXCEPT !.backlog = log]
  BY DEF createReplicationBacklog
<1> HIDE DEF r, log
<1>2. /\ r.backlog = log
      /\ r.masterhost = me.masterhost /\ r.repl_state = me.repl_state /\ r.replid = me.replid
      /\ r.replid2 = me.replid2 /\ r.second_replid_offset = me.second_replid_offset
      /\ r.master_repl_offset = me.master_repl_offset /\ r.slaveseldb = me.slaveseldb /\ r.master = me.master
      /\ r.cached_master = me.cached_master /\ r.master_replid = me.master_replid
      /\ r.master_initial_offset = me.master_initial_offset /\ r.data = me.data
      /\ r.rdb_child = me.rdb_child /\ r.dump = me.dump
  BY <1>1 DEF ServerTypes
<1> QED  BY <1>2 DEF r, log

\* A new backlog is at the end.
LEMMA NewBacklogAt ==
    ASSUME NEW H, IsBook(H), NEW me, me.replid \in DOMAIN H, me.master_repl_offset \in Nat,
           me.master_repl_offset <= H[me.replid].hi,
           me.backlog = [off |-> me.master_repl_offset + 1, items |-> <<>>]
    PROVE  BacklogAt(H, me)
<1>1. H[me.replid] \in Histories
  BY BookOK
<1>2. Stream(H[me.replid], me.master_repl_offset, 0, <<>>)
  BY <1>1, StreamNone
<1>3. /\ me.backlog.off >= 1 /\ me.backlog.off - 1 = me.master_repl_offset /\ me.backlog.items = <<>>
  OBVIOUS
<1> QED  BY <1>2, <1>3 DEF BacklogAt

\* What feedReplicationBacklog() leaves alone.
LEMMA FeedFields ==
    ASSUME NEW me \in ServerTypes, NEW items
    PROVE  LET r == feedReplicationBacklog(me, items)
           IN  /\ r.masterhost = me.masterhost /\ r.repl_state = me.repl_state /\ r.replid = me.replid
               /\ r.replid2 = me.replid2 /\ r.second_replid_offset = me.second_replid_offset
               /\ r.slaveseldb = me.slaveseldb /\ r.master = me.master
               /\ r.cached_master = me.cached_master /\ r.data = me.data
               /\ r.rdb_child = me.rdb_child /\ r.dump = me.dump
               /\ r.master_repl_offset = me.master_repl_offset + Len(items)
               /\ r.backlog = [off |-> (me.master_repl_offset + Len(items)) - Len(LastOf(me.backlog.items \o items, BacklogSize)) + 1,
                               items |-> LastOf(me.backlog.items \o items, BacklogSize)]
<1> DEFINE kept == LastOf(me.backlog.items \o items, BacklogSize)
           end == me.master_repl_offset + Len(items)
           log == [off |-> end - Len(kept) + 1, items |-> kept]
           r == feedReplicationBacklog(me, items)
<1>1. r = [me EXCEPT !.master_repl_offset = end, !.backlog = log]
  BY DEF feedReplicationBacklog
<1> HIDE DEF r, log, end
<1>2. /\ r.masterhost = me.masterhost /\ r.repl_state = me.repl_state /\ r.replid = me.replid
      /\ r.replid2 = me.replid2 /\ r.second_replid_offset = me.second_replid_offset
      /\ r.slaveseldb = me.slaveseldb /\ r.master = me.master
      /\ r.cached_master = me.cached_master /\ r.data = me.data
      /\ r.rdb_child = me.rdb_child /\ r.dump = me.dump
      /\ r.master_repl_offset = end /\ r.backlog = log
  BY <1>1 DEF ServerTypes
<1> QED  BY <1>2 DEF r, log, end

\* The offset of the backlog that is left.
LEMMA KeptOffset ==
    ASSUME NEW b \in Int, NEW off \in Nat, NEW l0 \in Nat, NEW l \in Nat, b + l0 = off + 1, b >= 1,
           NEW a \in Nat, a >= 1, NEW lk \in Int, lk = (l0 + l) - a + 1
    PROVE  (off + l) - lk + 1 >= 1 /\ (off + l) - lk + 1 - 1 = b - 1 + a - 1 /\ b - 1 \in Nat /\ b - 1 + l0 - 0 = off
OBVIOUS

\* Where the most recent items begin.
LEMMA LastFrom ==
    ASSUME NEW q \in Seq(Messages), NEW n \in Nat
    PROVE  \E a \in 1 .. Len(q) + 1 : LastOf(q, n) = SubSeq(q, a, Len(q))
<1> DEFINE a == IF Len(q) > n THEN Len(q) - n + 1 ELSE 1
<1>1. Len(q) \in Nat
  BY LenProperties
<1>2. a \in 1 .. Len(q) + 1
  BY <1>1
<1>3. LastOf(q, n) = SubSeq(q, a, Len(q))
  BY DEF LastOf
<1> HIDE DEF a
<1> QED  BY <1>2, <1>3

\* The backlog follows the history when the stream is fed to it.
LEMMA FeedAt ==
    ASSUME NEW H, IsBook(H), NEW me \in ServerTypes, ServerOK(me), me.backlog # None, BacklogAt(H, me),
           NEW items \in Seq(Items), Stream(H[me.replid], me.master_repl_offset, 0, items), setup \in Setups,
           NEW r, r.replid = me.replid, r.backlog = feedReplicationBacklog(me, items).backlog
    PROVE  BacklogAt(H, r)
<1> DEFINE h  == H[me.replid]
           b  == me.backlog.off
           q0 == me.backlog.items
           o  == me.master_repl_offset
           q  == q0 \o items
           v  == LastOf(q, BacklogSize)
<1>1. me.backlog \in Backlogs /\ o \in Nat
  BY DEF ServerTypes
<1>2. /\ b \in Int /\ q0 \in Seq(Messages) /\ items \in Seq(Messages) /\ b + Len(q0) = o + 1
      /\ b >= 1 /\ Stream(h, b - 1, 0, q0) /\ h \in Histories /\ me.replid \in DOMAIN H
  BY <1>1, PlainItems, SeqMonotonic, BookOK DEF Backlogs, ServerOK, BacklogAt
<1>3. r.backlog = [off |-> (o + Len(items)) - Len(v) + 1, items |-> v]
  BY FeedFields
<1>4. Stream(h, o, 0, items)
  OBVIOUS
<1> HIDE DEF h, b, q0, o
<1>5. q \in Seq(Messages) /\ Len(q) = Len(q0) + Len(items) /\ Len(q0) \in Nat /\ Len(items) \in Nat
  BY <1>2, ConcatProperties, LenProperties
<1>6. b - 1 \in Nat /\ b - 1 + Len(q0) - 0 = o
  BY <1>1, <1>2, <1>5, KeptOffset
<1>7. Stream(h, b - 1, 0, q)
  BY <1>2, <1>4, <1>5, <1>6, StreamConcat
<1> HIDE DEF q
<1>8. PICK a \in 1 .. Len(q) + 1 : v = SubSeq(q, a, Len(q))
  BY <1>5, LastFrom, ReplicationAssumption
<1> HIDE DEF v
<1>9. v \in Seq(Messages) /\ Len(v) = Len(q) - a + 1 /\ Stream(h, b - 1 + a - 1, 0, v)
  BY <1>2, <1>5, <1>6, <1>7, <1>8, StreamFrom
<1>10. a \in Nat /\ a >= 1 /\ Len(v) \in Int /\ Len(v) = (Len(q0) + Len(items)) - a + 1
  BY <1>5, <1>8, <1>9, LenProperties
<1> DEFINE off == (o + Len(items)) - Len(v) + 1
<1>11. off >= 1 /\ off - 1 = b - 1 + a - 1
  <2> DEFINE l0 == Len(q0)
             l  == Len(items)
             lk == Len(v)
  <2>1. /\ b \in Int /\ o \in Nat /\ l0 \in Nat /\ l \in Nat /\ b + l0 = o + 1 /\ b >= 1
        /\ a \in Nat /\ a >= 1 /\ lk \in Int /\ lk = (l0 + l) - a + 1 /\ off = (o + l) - lk + 1
    BY <1>1, <1>2, <1>5, <1>10
  <2> HIDE DEF l0, l, lk, off
  <2> QED  BY <2>1, KeptOffset
<1>12. r.backlog.off = off /\ r.backlog.items = v
  BY <1>3
<1> HIDE DEF off
<1> QED  BY <1>2, <1>9, <1>11, <1>12 DEF BacklogAt, h
\* LoadRdb() keeps the histories.
LEMMA LoadRdbFits ==
    ASSUME IInv, IInv', setup' = setup, NEW H, FitsIn(H, srv, conn, used.ids), NEW s \in Servers, LoadRdb(s)
    PROVE  \E H2 : FitsIn(H2, srv', conn', used'.ids)
<1> DEFINE rdb == Head(conn[s].down).rdb
           id  == srv[s].master_replid
           off == srv[s].master_initial_offset
           db  == IF rdb.stream_db = -1 THEN 0 ELSE rdb.stream_db
           master == [replid |-> id, reploff |-> off, db |-> db]
           me  == [srv[s] EXCEPT !.repl_state = "CONNECTED", !.data = rdb.data, !.dump = rdb, !.master = master,
                                 !.replid = id, !.master_repl_offset = off]
           clean == clearReplicationId2(me)
           r  == IF clean.backlog = None THEN createReplicationBacklog(clean) ELSE clean
           k2 == [conn[s] EXCEPT !.down = Tail(@)]
<1>1. Received(s, "TRANSFER", {"RDB"}) /\ "TRANSFER" \in ReplStates \ {"NONE", "CONNECT"}
  BY DEF LoadRdb, ReplStates
<1>2. /\ conn[s] \in Conns /\ Head(conn[s].down) \in Messages /\ Head(conn[s].down).type = "RDB"
      /\ srv[s].repl_state = "TRANSFER" /\ srv[s].masterhost \in Servers /\ Head(conn[s].down) = conn[s].down[1]
  BY <1>1, TakenOK
<1>3. /\ Base(srv, conn) /\ used.ids \in Nat /\ srv[s] \in ServerTypes /\ ServerOK(srv[s]) /\ srv'[s] \in ServerTypes
      /\ ServerAt(H, srv[s], setup.ttl) /\ srv[s].replid <= used.ids /\ IsBook(H) /\ setup \in Setups
      /\ srv \in [Servers -> ServerTypes]
  BY Here
<1>4. srv' = [srv EXCEPT ![s] = r] /\ conn' = Taken(s) /\ used' = used
  BY DEF LoadRdb, replicationCreateMasterClient
<1>5. /\ id \in Ids /\ off \in Nat /\ srv[s].backlog = None /\ srv[s].cached_master = None /\ srv[s].master = None
      /\ srv[s].masterhost # NoOne
  BY <1>2, <1>3 DEF ServerOK
<1>6. rdb \in Rdbs
  BY <1>2 DEF Messages, Items, StreamTypes
<1>7. rdb = conn[s].down[1].rdb /\ conn[s].down[1].type = "RDB"
  BY <1>2
<1> HIDE DEF rdb, id, off
<1>8. master \in Masters /\ master.db = db /\ master # None
  BY <1>5, <1>6, NoneElsewhere DEF Masters, Rdbs
<1>9. rdb.data \in DataSets /\ "CONNECTED" \in ReplStates
  BY <1>6 DEF Rdbs, ReplStates
<1> HIDE DEF master, db
<1>10. /\ me \in ServerTypes /\ me.repl_state = "CONNECTED" /\ me.masterhost = srv[s].masterhost
       /\ me.master = master /\ me.cached_master = None /\ me.backlog = None
       /\ me.replid = id /\ me.master_repl_offset = off /\ me.data = rdb.data /\ me.dump = rdb
       /\ me.rdb_child = srv[s].rdb_child
  BY <1>3, <1>5, <1>6, <1>8, <1>9 DEF ServerTypes
<1> HIDE DEF me
<1>11. /\ clean \in ServerTypes /\ clean.repl_state = "CONNECTED" /\ clean.masterhost = srv[s].masterhost
       /\ clean.master = master /\ clean.cached_master = None /\ clean.backlog = None
       /\ clean.replid = id /\ clean.master_repl_offset = off /\ clean.data = rdb.data /\ clean.dump = rdb
       /\ clean.rdb_child = srv[s].rdb_child /\ clean.replid2 = ZeroId
  <2>1. ZeroId \in 0..Limit.ids /\ -1 \in Int
    BY <1>3, IdsNat DEF ZeroId
  <2>2. clean = [me EXCEPT !.replid2 = ZeroId, !.second_replid_offset = -1]
    BY DEF clearReplicationId2
  <2> HIDE DEF clean
  <2>3. clean \in ServerTypes
    BY <2>1, <2>2, <1>10 DEF ServerTypes
  <2> QED  BY <2>2, <2>3, <1>10 DEF ServerTypes
<1> HIDE DEF clean
<1>12. /\ r.repl_state = "CONNECTED" /\ r.masterhost = srv[s].masterhost /\ r.master = master /\ r.cached_master = None
       /\ r.backlog = [off |-> off + 1, items |-> <<>>] /\ r.replid = id /\ r.master_repl_offset = off
       /\ r.data = rdb.data /\ r.dump = rdb /\ r.rdb_child = srv[s].rdb_child /\ r.replid2 = ZeroId
  <2>1. r = createReplicationBacklog(clean)
    BY <1>11
  <2> HIDE DEF r
  <2> QED  BY <2>1, <1>11, CreateFields
<1> HIDE DEF r
<1>13. r \in ServerTypes
  <2>1. r = srv'[s]
    BY <1>3, <1>4
  <2> QED  BY <2>1, <1>3
<1>14. ~Silent(srv[s], conn[s].down)
  <2>1. Len(conn[s].down) # 0
    BY <1>1, <1>2, EmptySeq DEF Received, Conns
  <2> QED  BY <1>2, <1>7, <2>1 DEF Silent
<1>15. PICK w0 \in Seq(Messages) : \E i, e : Len(w0) >= 1 /\ w0[1] = conn[s].down[1] /\ Leads(H, srv[s], w0, i, e)
  BY <1>1, <1>14, Expected
<1>16. PICK i, e : Len(w0) >= 1 /\ w0[1] = conn[s].down[1] /\ Leads(H, srv[s], w0, i, e)
  BY <1>15
<1>17. id \in DOMAIN H /\ Loads(H[id], off, rdb) /\ RdbAt(H, rdb)
  <2>1. r.replid = srv[s].master_replid /\ r.master_repl_offset = srv[s].master_initial_offset
    BY <1>12 DEF id, off
  <2> QED  BY <2>1, <1>2, <1>3, <1>7, <1>12, <1>16, LoadLeads DEF id, off
<1>18. off <= H[id].hi /\ At(H[id], off, rdb.data, master.db)
  BY <1>8, <1>17 DEF Loads, At, db
<1>19. BacklogAt(H, r)
  BY <1>3, <1>5, <1>12, <1>17, <1>18, NewBacklogAt
<1>20. ServerAt(H, r, setup.ttl)
  <2>1. r.rdb_child # None => RdbAt(H, r.rdb_child.rdb)
    BY <1>3, <1>12 DEF ServerAt
  <2> QED  BY <2>1, <1>5, <1>8, <1>12, <1>17, <1>18, <1>19 DEF ServerAt, Owner
<1>21. ASSUME NEW w \in Seq(Messages), NEW x, NEW end, Len(w) >= 1, w[1] = conn[s].down[1], Leads(H, srv[s], w, x, end)
      PROVE  Leads(H, r, Tail(w), x, end)
  <2>1. r.replid = srv[s].master_replid /\ r.master_repl_offset = srv[s].master_initial_offset
    BY <1>12 DEF id, off
  <2> QED  BY <2>1, <1>2, <1>3, <1>7, <1>12, <1>21, LoadLeads
<1>22. /\ Taken(s) = [conn EXCEPT ![s] = k2] /\ k2 \in Conns
       /\ LinkAt(H, k2, r, [srv EXCEPT ![s] = r][k2.to]) /\ (Serving(k2) => k2.to # s)
  BY <1>1, <1>14, <1>21, ReadHere
<1> HIDE DEF k2
<1>23. r.replid <= used.ids
  <2>1. id \in 1..used.ids
    BY <1>17 DEF FitsIn
  <2> QED  BY <2>1, <1>3, <1>12
<1>24. \A t \in Servers : conn[t] # None /\ conn[t].to = s => ~Follows(conn[t])
  <2> SUFFICES ASSUME NEW t \in Servers, conn[t] # None, conn[t].to = s, Follows(conn[t])  PROVE FALSE
    OBVIOUS
  <2>1. IsSlaveOf(conn, t, s)
    BY DEF IsSlaveOf, Follows
  <2> QED  BY <2>1, <1>3, <1>5 DEF Base
<1>25. FitsIn(H, [srv EXCEPT ![s] = r], [conn EXCEPT ![s] = k2], used.ids)
  BY <1>3, <1>5, <1>12, <1>13, <1>20, <1>22, <1>23, <1>24, ReplicaFits
<1> QED  BY <1>4, <1>22, <1>25

\* ReplyContinue() keeps the histories.
LEMMA ReplyContinueFits ==
    ASSUME IInv, IInv', setup' = setup, NEW H, FitsIn(H, srv, conn, used.ids), NEW s \in Servers, ReplyContinue(s)
    PROVE  \E H2 : FitsIn(H2, srv', conn', used'.ids)
<1> DEFINE id      == Head(conn[s].down).replid
           old     == srv[s].cached_master
           o       == srv[s].master_repl_offset
           changed == id # old.replid
           master  == [old EXCEPT !.replid = id]
           me      == [srv[s] EXCEPT !.repl_state = "CONNECTED", !.cached_master = None, !.master = master]
           moved   == IF ~changed THEN me
                      ELSE [me EXCEPT !.replid2 = old.replid,
                                      !.second_replid_offset = me.master_repl_offset + 1, !.replid = id]
           r       == IF moved.backlog = None THEN createReplicationBacklog(moved) ELSE moved
           k2      == [conn[s] EXCEPT !.down = Tail(@)]
<1>1. Received(s, "RECEIVE_PSYNC", {"CONTINUE"}) /\ "RECEIVE_PSYNC" \in ReplStates \ {"NONE", "CONNECT"}
  BY DEF ReplyContinue, ReplStates
<1>2. /\ conn[s] \in Conns /\ Head(conn[s].down) \in Messages /\ Head(conn[s].down) = conn[s].down[1]
      /\ Head(conn[s].down).type = "CONTINUE" /\ srv[s].repl_state = "RECEIVE_PSYNC" /\ srv[s].masterhost \in Servers
      /\ LinkOK(conn[s], srv[s]) /\ 1 \in 1..Len(conn[s].down)
  BY <1>1, TakenOK
<1>3. /\ Base(srv, conn) /\ used.ids \in Nat /\ srv[s] \in ServerTypes /\ ServerOK(srv[s]) /\ srv'[s] \in ServerTypes
      /\ ServerAt(H, srv[s], setup.ttl) /\ srv[s].replid <= used.ids /\ IsBook(H) /\ setup \in Setups
      /\ srv \in [Servers -> ServerTypes]
  BY Here
<1>4. /\ srv' = [srv EXCEPT ![s] = r] /\ conn' = IF changed THEN DisconnectSlaves(Taken(s), s) ELSE Taken(s)
      /\ used' = used
  BY DEF ReplyContinue, replicationResurrectCachedMaster
<1>5. id \in Ids
  BY <1>2 DEF Messages, Items, StreamTypes
<1>6. old \in Masters /\ old # None /\ srv[s].masterhost # NoOne /\ srv[s].master = None
  <2>1. old # None
    BY <1>2 DEF LinkOK, NoContinue
  <2> QED  BY <2>1, <1>2, <1>3 DEF ServerTypes, ServerOK
<1>7. srv[s].replid = old.replid /\ o = old.reploff /\ o \in Nat
  BY <1>3, <1>6 DEF ServerOK, ServerTypes
<1>8. id = conn[s].down[1].replid /\ conn[s].down[1].type = "CONTINUE"
  BY <1>2
<1> HIDE DEF id, old, o
<1>9. master \in Masters /\ master.db = old.db /\ old.replid \in Ids /\ master # None
  BY <1>5, <1>6, NoneElsewhere DEF Masters
<1> HIDE DEF master
<1>10. /\ me \in ServerTypes /\ me.repl_state = "CONNECTED" /\ me.masterhost = srv[s].masterhost
      /\ me.master = master /\ me.cached_master = None /\ me.backlog = srv[s].backlog
      /\ me.replid = srv[s].replid /\ me.master_repl_offset = srv[s].master_repl_offset
      /\ me.data = srv[s].data /\ me.dump = srv[s].dump /\ me.rdb_child = srv[s].rdb_child
      /\ me.replid2 = srv[s].replid2 /\ me.second_replid_offset = srv[s].second_replid_offset
  <2>1. "CONNECTED" \in ReplStates
    BY DEF ReplStates
  <2> QED  BY <2>1, <1>3, <1>9 DEF ServerTypes
<1> HIDE DEF me
<1>11. /\ moved \in ServerTypes /\ moved.repl_state = "CONNECTED" /\ moved.masterhost = srv[s].masterhost
       /\ moved.master = master /\ moved.cached_master = None /\ moved.backlog = srv[s].backlog
       /\ moved.replid = id /\ moved.master_repl_offset = o
       /\ moved.data = srv[s].data /\ moved.dump = srv[s].dump /\ moved.rdb_child = srv[s].rdb_child
       /\ ~changed => moved.replid2 = srv[s].replid2 /\ moved.second_replid_offset = srv[s].second_replid_offset
       /\ changed => moved.replid2 = srv[s].replid /\ moved.second_replid_offset = o + 1
  <2>1. CASE ~changed
    BY <2>1, <1>7, <1>10 DEF o
  <2>2. CASE changed
    <3>1. old.replid \in 0..Limit.ids /\ me.master_repl_offset + 1 \in Int /\ me.master_repl_offset = o
      BY <1>9, <1>10, IdsNat, <1>3 DEF ServerTypes, o
    <3>2. moved = [me EXCEPT !.replid2 = old.replid,
                             !.second_replid_offset = me.master_repl_offset + 1, !.replid = id]
      BY <2>2
    <3> HIDE DEF moved
    <3>3. moved \in ServerTypes
      BY <3>1, <3>2, <1>5, <1>10 DEF ServerTypes
    <3> QED  BY <2>2, <3>1, <3>2, <3>3, <1>7, <1>10 DEF ServerTypes
  <2> QED  BY <2>1, <2>2
<1> HIDE DEF moved
<1>12. /\ r.repl_state = "CONNECTED" /\ r.masterhost = srv[s].masterhost
       /\ r.master = master /\ r.cached_master = None
       /\ r.backlog = IF srv[s].backlog = None THEN [off |-> o + 1, items |-> <<>>] ELSE srv[s].backlog
       /\ r.replid = id /\ r.master_repl_offset = o
       /\ r.data = srv[s].data /\ r.dump = srv[s].dump /\ r.rdb_child = srv[s].rdb_child
       /\ ~changed => r.replid2 = srv[s].replid2 /\ r.second_replid_offset = srv[s].second_replid_offset
       /\ changed => r.replid2 = srv[s].replid /\ r.second_replid_offset = o + 1
  <2>1. CASE srv[s].backlog = None
    <3>1. r = createReplicationBacklog(moved)
      BY <2>1, <1>11
    <3> HIDE DEF r
    <3> QED  BY <2>1, <3>1, <1>11, CreateFields
  <2>2. CASE srv[s].backlog # None
    BY <2>2, <1>11
  <2> QED  BY <2>1, <2>2
<1> HIDE DEF r
<1>13. r \in ServerTypes
  <2>1. r = srv'[s]
    BY <1>3, <1>4
  <2> QED  BY <2>1, <1>3
<1>14. ~Silent(srv[s], conn[s].down)
  <2>1. Len(conn[s].down) # 0
    BY <1>1, <1>2, EmptySeq DEF Received, Conns
  <2> QED  BY <1>8, <2>1 DEF Silent
<1>15. PICK w0 \in Seq(Messages) : \E i, e : Len(w0) >= 1 /\ w0[1] = conn[s].down[1] /\ Leads(H, srv[s], w0, i, e)
  BY <1>1, <1>14, Expected
<1>16. PICK i, e : Len(w0) >= 1 /\ w0[1] = conn[s].down[1] /\ Leads(H, srv[s], w0, i, e)
  BY <1>15
<1>17. Shared(H, srv[s].replid, id, o)
  <2>1. r.replid = w0[1].replid /\ r.master_repl_offset = srv[s].master_repl_offset
    BY <1>8, <1>12, <1>16 DEF o
  <2> QED  BY <2>1, <1>2, <1>3, <1>8, <1>12, <1>16, ContinueLeads DEF o
<1>18. id \in DOMAIN H /\ srv[s].replid \in DOMAIN H /\ o <= H[id].hi
  BY <1>17 DEF Shared
<1>19. At(H[id], o, srv[s].data, master.db)
  <2>1. At(H[srv[s].replid], o, srv[s].data, old.db)
    BY <1>3, <1>6, <1>18 DEF ServerAt, old, o
  <2> QED  BY <2>1, <1>3, <1>7, <1>9, <1>17, AtShared
<1>20. BacklogAt(H, r)
  <2>1. CASE srv[s].backlog = None
    BY <2>1, <1>3, <1>7, <1>12, <1>18, NewBacklogAt
  <2>2. CASE srv[s].backlog # None
    <3> DEFINE b == srv[s].backlog.off
               q == srv[s].backlog.items
    <3>1. srv[s].backlog \in Backlogs /\ BacklogAt(H, srv[s]) /\ b + Len(q) = o + 1
      BY <2>2, <1>3 DEF ServerTypes, ServerAt, ServerOK, o
    <3>2. b \in Int /\ q \in Seq(Messages) /\ Len(q) \in Nat /\ b >= 1 /\ Stream(H[srv[s].replid], b - 1, 0, q)
      BY <3>1, PlainItems, SeqMonotonic, LenProperties DEF Backlogs, BacklogAt
    <3>3. r.backlog.off = b /\ r.backlog.items = q
      BY <2>2, <1>12
    <3> HIDE DEF b, q
    <3>4. b - 1 \in Nat /\ b - 1 + Len(q) = o
      BY <3>1, <3>2, <1>7
    <3>5. Stream(H[id], b - 1, 0, q)
      BY <3>2, <3>4, <1>3, <1>17, StreamShared
    <3> QED  BY <3>2, <3>3, <3>5, <1>12, <1>18 DEF BacklogAt
  <2> QED  BY <2>1, <2>2
<1>21. r.replid2 # ZeroId => Shared(H, r.replid2, r.replid, r.second_replid_offset - 1)
  <2>1. CASE changed
    <3>1. r.second_replid_offset - 1 = o
      BY <2>1, <1>7, <1>12
    <3> QED  BY <2>1, <3>1, <1>12, <1>17
  <2>2. CASE ~changed
    <3>1. id = srv[s].replid
      BY <2>2, <1>7
    <3> QED  BY <2>2, <3>1, <1>3, <1>6, <1>12, <1>18 DEF ServerAt, old
  <2> QED  BY <2>1, <2>2
<1>22. ServerAt(H, r, setup.ttl)
  <2>1. RdbAt(H, r.dump) /\ (r.rdb_child # None => RdbAt(H, r.rdb_child.rdb))
    BY <1>3, <1>12 DEF ServerAt
  <2> QED  BY <2>1, <1>6, <1>9, <1>12, <1>18, <1>19, <1>20, <1>21 DEF ServerAt, Owner
<1>23. ASSUME NEW w \in Seq(Messages), NEW x, NEW end, Len(w) >= 1, w[1] = conn[s].down[1], Leads(H, srv[s], w, x, end)
      PROVE  Leads(H, r, Tail(w), x, end)
  <2>1. r.replid = w[1].replid /\ r.master_repl_offset = srv[s].master_repl_offset
    BY <1>8, <1>12, <1>23 DEF o
  <2> QED  BY <2>1, <1>2, <1>3, <1>8, <1>12, <1>23, ContinueLeads
<1>24. /\ Taken(s) = [conn EXCEPT ![s] = k2] /\ k2 \in Conns
       /\ LinkAt(H, k2, r, [srv EXCEPT ![s] = r][k2.to]) /\ (Serving(k2) => k2.to # s)
  BY <1>1, <1>14, <1>23, ReadHere
<1> HIDE DEF k2
<1>25. r.replid <= used.ids /\ r.masterhost # NoOne
  <2>1. id \in 1..used.ids
    BY <1>18 DEF FitsIn
  <2> QED  BY <2>1, <1>3, <1>6, <1>12
<1>26. CASE changed
  <2>1. conn' = DisconnectSlaves([conn EXCEPT ![s] = k2], s) /\ used'.ids = used.ids
    BY <1>4, <1>24, <1>26
  <2> QED  BY <2>1, <1>4, <1>13, <1>22, <1>24, <1>25, LeaveFits
<1>27. CASE ~changed
  <2>1. r.replid = srv[s].replid /\ r.master_repl_offset = srv[s].master_repl_offset /\ r.rdb_child = srv[s].rdb_child
    BY <1>7, <1>12, <1>27 DEF o
  <2>2. FitsIn(H, [srv EXCEPT ![s] = r], [conn EXCEPT ![s] = k2], used.ids)
    BY <2>1, <1>3, <1>13, <1>22, <1>24, <1>25, ReplicaFits
  <2> QED  BY <2>2, <1>4, <1>24, <1>27
<1> QED  BY <1>26, <1>27
-----------------------------------------------------------------------------
(* The stream. *)

\* The data and the database after a command of the stream.
DataAfter(data, db, item) == IF item.type = "write" THEN Append(data, <<db, item.arg>>) ELSE data
\* The database that is selected after a command of the stream.
DbAfter(db, item) == IF item.type = "select" THEN item.arg ELSE db

\* Who is in the history and applies its next command stays in it.
LEMMA AtReaches ==
    ASSUME NEW h, NEW o, NEW data, NEW db, At(h, o, data, db), NEW item, Reaches(h.pos[o], item, h.pos[o + 1]), o + 1 <= h.hi
    PROVE  At(h, o + 1, DataAfter(data, db, item), DbAfter(db, item))
<1>1. data = h.pos[o].data /\ h.pos[o].db \in {-1, db}
  BY DEF At
<1>2. h.pos[o + 1].data = DataAfter(data, db, item)
  BY <1>1 DEF Reaches, DataAfter
<1>3. h.pos[o + 1].db \in {-1, DbAfter(db, item)}
  BY <1>1 DEF Reaches, DbAfter
<1> QED  BY <1>2, <1>3 DEF At

\* A server feeds the stream to its slaves.
LEMMA FedFits ==
    ASSUME NEW sv, NEW cn, Base(sv, cn), NEW H, NEW u \in Nat, FitsIn(H, sv, cn, u), NEW H2, IsBook(H2), Grows(H, H2, u),
           DOMAIN H2 \subseteq 1..u, NEW x \in Servers, NEW me \in ServerTypes, NEW items \in Seq(Items),
           me.replid = sv[x].replid, me.replid \in DOMAIN H2, me.rdb_child = sv[x].rdb_child,
           me.master_repl_offset = sv[x].master_repl_offset + Len(items),
           Stream(H2[me.replid], sv[x].master_repl_offset, 0, items),
           ServerAt(H2, me, setup.ttl), Owner(me) => Owner(sv[x]),
           \A t \in Servers \ {x} : Owner(sv[t]) => H2[sv[t].replid] = H[sv[t].replid],
           NEW k2 \in Conns \cup {None}, k2 # None => LinkAt(H2, k2, me, [sv EXCEPT ![x] = me][k2.to]), Serving(k2) => k2.to # x
    PROVE  FitsIn(H2, [sv EXCEPT ![x] = me], FeedSlaves([cn EXCEPT ![x] = k2], x, items), u)
<1> DEFINE c == [cn EXCEPT ![x] = k2]
           f == FeedSlaves(c, x, items)
           sv2 == [sv EXCEPT ![x] = me]
<1>1. c \in Links /\ \A t \in Servers : c[t] = IF t = x THEN k2 ELSE cn[t]
  BY DEF Base, Links
<1>2. sv2[x] = me /\ \A t \in Servers : t # x => sv2[t] = sv[t]
  BY DEF Base
<1>3. IsBook(H) /\ setup \in Setups
  BY DEF FitsIn, Base
<1> HIDE DEF c
<1>4. \A t \in Servers : f[t] =
        IF ~IsSlaveOf(c, t, x) \/ c[t].replstate = "WAIT_BGSAVE_START" THEN c[t]
        ELSE IF Buffers(c[t]) THEN [c[t] EXCEPT !.buf = @ \o items]
        ELSE [c[t] EXCEPT !.down = @ \o items]
  BY DEF FeedSlaves
<1>5. f \in Links
  BY <1>1, FedKept
<1> HIDE DEF f
<1>6. f[x] = k2
  BY <1>1, <1>4 DEF IsSlaveOf, Serving
<1>7. ASSUME NEW t \in Servers, t # x, f[t] # None
      PROVE  LinkAt(H2, f[t], sv2[t], sv2[f[t].to]) /\ (Serving(f[t]) => f[t].to # t)
  <2> DEFINE k == cn[t]
  <2>1. c[t] = k /\ k \in Conns \cup {None}
    BY <1>1, <1>7, BaseTypes
  <2>2. CASE ~IsSlaveOf(c, t, x) \/ k.replstate = "WAIT_BGSAVE_START"
    <3>1. f[t] = k /\ k # None
      BY <2>1, <2>2, <1>4, <1>7
    <3>2. ~(k.to = x /\ Follows(k)) /\ ~(k.to = x /\ k.replstate = "WAIT_BGSAVE_END")
      BY <2>1, <2>2, <3>1 DEF IsSlaveOf, Follows
    <3>3. LinkAt(H2, k, sv2[t], sv2[k.to])
      BY <1>7, <3>1, <3>2, LinkElsewhere
    <3> HIDE DEF sv2
    <3> QED  BY <3>1, <3>3 DEF FitsIn
  <2>3. CASE IsSlaveOf(c, t, x) /\ k.replstate # "WAIT_BGSAVE_START"
    <3>1. k \in Conns /\ k # None /\ k.to = x /\ Serving(k)
      BY <2>1, <2>3 DEF IsSlaveOf, Serving
    <3>2. Follows(k)
      BY <2>3, <3>1 DEF Follows, Serving, Conns, SlaveStates
    <3>3. f[t] = IF Buffers(k) THEN [k EXCEPT !.buf = @ \o items] ELSE [k EXCEPT !.down = @ \o items]
      BY <2>1, <2>3, <1>4
    <3>4. f[t] \in Conns
      BY <1>5, <1>7 DEF Links
    <3>5. LinkAt(H, k, sv[t], sv[x]) /\ sv[x] \in ServerTypes
      BY <3>1, BaseTypes DEF FitsIn
    <3> HIDE DEF k
    <3>6. LinkAt(H2, k, sv[t], sv[x])
      BY <1>3, <3>1, <3>5, LinkGrows
    <3>7. /\ f[t].to = k.to /\ f[t].psync = k.psync /\ f[t].replstate = k.replstate /\ f[t].on_ack = k.on_ack
          /\ f[t].init = k.init /\ f[t].rdb = k.rdb
          /\ f[t].buf = IF Buffers(k) THEN k.buf \o items ELSE k.buf
          /\ f[t].down = IF Buffers(k) THEN k.down ELSE k.down \o items
      <4>1. CASE Buffers(k)
        BY <3>1, <3>3, <4>1 DEF Conns
      <4>2. CASE ~Buffers(k)
        BY <3>1, <3>3, <4>2 DEF Conns
      <4> QED  BY <4>1, <4>2
    <3>8. /\ Stream(H2[sv[x].replid], sv[x].master_repl_offset, 0, items) /\ sv[x].replid \in DOMAIN H2
      OBVIOUS
    <3>9. LinkAt(H2, f[t], sv[t], me)
      BY <3>1, <3>2, <3>4, <3>5, <3>6, <3>7, <3>8, LinkFed
    <3>10. k.to # t
      BY <1>7, <3>1
    <3> QED  BY <3>1, <3>7, <3>9, <3>10, <1>2, <1>7
  <2> QED  BY <2>1, <2>2, <2>3
<1>8. \A t \in Servers : f[t] # None => LinkAt(H2, f[t], sv2[t], sv2[f[t].to])
  <2> SUFFICES ASSUME NEW t \in Servers, f[t] # None  PROVE LinkAt(H2, f[t], sv2[t], sv2[f[t].to])
    OBVIOUS
  <2> HIDE DEF sv2
  <2>1. k2 # None => LinkAt(H2, k2, me, sv2[k2.to])
    BY DEF sv2
  <2> QED  BY <2>1, <1>2, <1>6, <1>7
<1>9. \A t \in Servers : Serving(f[t]) => f[t].to # t
  <2> HIDE DEF sv2
  <2> QED  BY <1>6, <1>7 DEF Serving
<1>10. me.replid <= u /\ u <= u /\ (Owner(me) => (Owner(sv[x]) /\ me.replid = sv[x].replid) \/ me.replid > u)
  BY DEF FitsIn
<1>11. FitsIn(H2, sv2, f, u)
  BY <1>8, <1>9, <1>10, FitsStep
<1> QED  BY <1>11 DEF f, c

\* A server with other data, whose master has sent them.
LEMMA DataFields ==
    ASSUME NEW me \in ServerTypes, NEW x \in Masters, NEW d \in DataSets,
           NEW r, r = [me EXCEPT !.master = x, !.data = d]
    PROVE  r \in ServerTypes
BY DEF ServerTypes

\* ApplyStream() keeps the histories.
LEMMA ApplyStreamFits ==
    ASSUME IInv, IInv', setup' = setup, NEW H, FitsIn(H, srv, conn, used.ids), NEW s \in Servers, ApplyStream(s)
    PROVE  \E H2 : FitsIn(H2, srv', conn', used'.ids)
<1> DEFINE item == Head(conn[s].down)
           old  == srv[s].master
           o    == srv[s].master_repl_offset
           master == [old EXCEPT !.reploff = @ + 1, !.db = IF item.type = "select" THEN item.arg ELSE @]
           data == IF item.type = "write" THEN Append(srv[s].data, <<old.db, item.arg>>) ELSE srv[s].data
           me   == [srv[s] EXCEPT !.master = master, !.data = data]
           r    == feedReplicationBacklog(me, <<item>>)
           k2   == [conn[s] EXCEPT !.down = Tail(@)]
<1>1. Received(s, "CONNECTED", StreamTypes) /\ "CONNECTED" \in ReplStates \ {"NONE", "CONNECT"}
  BY DEF ApplyStream, ReplStates
<1>2. /\ conn[s] \in Conns /\ item \in Messages /\ item.type \in StreamTypes /\ item = conn[s].down[1]
      /\ srv[s].repl_state = "CONNECTED" /\ srv[s].masterhost \in Servers
  BY <1>1, TakenOK
<1>3. /\ Base(srv, conn) /\ used.ids \in Nat /\ srv[s] \in ServerTypes /\ ServerOK(srv[s]) /\ srv'[s] \in ServerTypes
      /\ ServerAt(H, srv[s], setup.ttl) /\ srv[s].replid <= used.ids /\ IsBook(H) /\ setup \in Setups
      /\ srv \in [Servers -> ServerTypes]
  BY Here
<1>4. item \in Items
  BY <1>2 DEF Messages, StreamTypes
<1>5. /\ old \in Masters /\ old # None /\ srv[s].cached_master = None /\ srv[s].backlog # None /\ srv[s].masterhost # NoOne
      /\ srv[s].replid = old.replid /\ o \in Nat /\ srv[s].backlog \in Backlogs
  BY <1>2, <1>3 DEF ServerOK, ServerTypes
<1>6. /\ srv' = [srv EXCEPT ![s] = IF me.backlog = None THEN me ELSE r]
      /\ conn' = FeedSlaves(Taken(s), s, <<item>>) /\ used' = used
  BY DEF ApplyStream, Applied
<1> HIDE DEF item, old
<1>7. item.arg \in Int /\ old.reploff \in Nat /\ old.db \in Int
  BY <1>4, <1>5 DEF Items, Masters
<1>8. master \in Masters /\ master.db = DbAfter(old.db, item) /\ master # None
  <2> DEFINE db == IF item.type = "select" THEN item.arg ELSE old.db
             off == old.reploff + 1
  <2>1. db \in Int /\ off \in Nat
    BY <1>7
  <2>2. master = [old EXCEPT !.reploff = off, !.db = db]
    BY <1>5 DEF Masters
  <2> HIDE DEF db, off, master
  <2>3. master \in Masters /\ master.db = db
    BY <1>5, <2>1, <2>2 DEF Masters
  <2> QED  BY <2>3, NoneElsewhere DEF db, DbAfter
<1>9. data \in DataSets /\ data = DataAfter(srv[s].data, old.db, item)
  BY <1>3, <1>7, AppendProperties DEF ServerTypes, DataSets, DataAfter
<1> HIDE DEF master, data
<1>10. /\ me \in ServerTypes /\ me.repl_state = "CONNECTED" /\ me.masterhost = srv[s].masterhost
       /\ me.master = master /\ me.cached_master = None /\ me.backlog = srv[s].backlog
       /\ me.replid = srv[s].replid /\ me.master_repl_offset = o /\ me.data = data /\ me.rdb_child = srv[s].rdb_child
       /\ me.dump = srv[s].dump /\ me.replid2 = srv[s].replid2 /\ me.second_replid_offset = srv[s].second_replid_offset
  <2>1. srv[s] \in ServerTypes /\ master \in Masters /\ data \in DataSets
    BY <1>3, <1>8, <1>9
  <2>0. me = [srv[s] EXCEPT !.master = master, !.data = data]
    OBVIOUS
  <2> HIDE DEF me
  <2>2. /\ me \in ServerTypes /\ me.master = master /\ me.data = data
        /\ me.masterhost = srv[s].masterhost /\ me.repl_state = srv[s].repl_state /\ me.replid = srv[s].replid
        /\ me.replid2 = srv[s].replid2 /\ me.second_replid_offset = srv[s].second_replid_offset
        /\ me.master_repl_offset = srv[s].master_repl_offset
        /\ me.cached_master = srv[s].cached_master /\ me.backlog = srv[s].backlog
        /\ me.rdb_child = srv[s].rdb_child /\ me.dump = srv[s].dump
    <3> DEFINE sx == srv[s]
               xx == master
               dd == data
    <3>1. sx \in ServerTypes /\ xx \in Masters /\ dd \in DataSets /\ me = [sx EXCEPT !.master = xx, !.data = dd]
      BY <2>0, <2>1
    <3> HIDE DEF sx, xx, dd
    <3>2. me \in ServerTypes
      BY <3>1, DataFields
    <3>3. /\ me.master = xx /\ me.data = dd
        /\ me.masterhost = sx.masterhost /\ me.repl_state = sx.repl_state /\ me.replid = sx.replid
        /\ me.replid2 = sx.replid2 /\ me.second_replid_offset = sx.second_replid_offset
        /\ me.master_repl_offset = sx.master_repl_offset
        /\ me.cached_master = sx.cached_master /\ me.backlog = sx.backlog
        /\ me.rdb_child = sx.rdb_child /\ me.dump = sx.dump
      BY <3>1 DEF ServerTypes
    <3> QED  BY <3>2, <3>3 DEF sx, xx, dd
  <2> QED  BY <2>2, <1>2, <1>5
<1> HIDE DEF me
<1>11. <<item>> \in Seq(Items) /\ Len(<<item>>) = 1
  BY <1>4
<1>12. /\ r.repl_state = "CONNECTED" /\ r.masterhost = srv[s].masterhost
       /\ r.master = master /\ r.cached_master = None
       /\ r.backlog = feedReplicationBacklog(srv[s], <<item>>).backlog
       /\ r.replid = srv[s].replid /\ r.master_repl_offset = o + Len(<<item>>) /\ r.data = data /\ r.rdb_child = srv[s].rdb_child
       /\ r.dump = srv[s].dump /\ r.replid2 = srv[s].replid2 /\ r.second_replid_offset = srv[s].second_replid_offset
  <2> DEFINE one == <<item>>
             p == feedReplicationBacklog(srv[s], one)
  <2> HIDE DEF one, o
  <2>1. /\ r.masterhost = me.masterhost /\ r.repl_state = me.repl_state /\ r.replid = me.replid
        /\ r.replid2 = me.replid2 /\ r.second_replid_offset = me.second_replid_offset
        /\ r.master = me.master /\ r.cached_master = me.cached_master /\ r.data = me.data
        /\ r.rdb_child = me.rdb_child /\ r.dump = me.dump
        /\ r.master_repl_offset = me.master_repl_offset + Len(one)
        /\ r.backlog = [off |-> (me.master_repl_offset + Len(one)) - Len(LastOf(me.backlog.items \o one, BacklogSize)) + 1,
                        items |-> LastOf(me.backlog.items \o one, BacklogSize)]
    BY <1>10, FeedFields, ZenonT(60) DEF one
  <2>2. p.backlog = [off |-> (srv[s].master_repl_offset + Len(one)) - Len(LastOf(srv[s].backlog.items \o one, BacklogSize)) + 1,
                     items |-> LastOf(srv[s].backlog.items \o one, BacklogSize)]
    BY <1>3, FeedFields
  <2> HIDE DEF r, p
  <2>3. r.backlog = p.backlog
    BY <2>1, <2>2, <1>10 DEF o
  <2> QED  BY <2>1, <2>3, <1>10 DEF one, p
<1>13. srv' = [srv EXCEPT ![s] = r]
  BY <1>5, <1>6, <1>10
<1> HIDE DEF r
<1>14. r \in ServerTypes
  <2>1. r = srv'[s]
    BY <1>3, <1>13
  <2> QED  BY <2>1, <1>3
<1>15. r.master_repl_offset = srv[s].master_repl_offset + 1
  BY <1>11, <1>12
<1>16. ~Silent(srv[s], conn[s].down)
  BY <1>2 DEF Silent
<1>17. PICK w0 \in Seq(Messages) : \E i, e : Len(w0) >= 1 /\ w0[1] = conn[s].down[1] /\ Leads(H, srv[s], w0, i, e)
  BY <1>1, <1>16, Expected
<1>18. PICK i, e : Len(w0) >= 1 /\ w0[1] = conn[s].down[1] /\ Leads(H, srv[s], w0, i, e)
  BY <1>17
<1> DEFINE h == H[srv[s].replid]
<1>19. srv[s].replid \in DOMAIN H /\ o + 1 <= h.hi /\ Reaches(h.pos[o], item, h.pos[o + 1])
  BY <1>2, <1>3, <1>5, <1>12, <1>15, <1>18, ApplyLeads
<1>20. Stream(h, o, 0, <<item>>)
  <2> HIDE DEF h, o
  <2>1. o + 1 <= h.hi /\ Reaches(h.pos[o], item, h.pos[o + 1]) /\ o \in Nat
    BY <1>5, <1>19
  <2>2. o + Len(<<item>>) - 0 <= h.hi
    BY <2>1, <1>11
  <2>3. ASSUME NEW j \in 0 + 1 .. Len(<<item>>)
        PROVE  <<item>>[j] \in Items /\ Reaches(h.pos[o + j - 0 - 1], <<item>>[j], h.pos[o + j - 0])
    <3>1. j = 1 /\ o + j - 0 - 1 = o /\ o + j - 0 = o + 1 /\ <<item>>[j] = item
      BY <1>11, <2>1
    <3> QED  BY <3>1, <2>1, <1>4
  <2> QED  BY <2>2, <2>3 DEF Stream
<1>21. At(h, o + 1, data, master.db)
  <2>1. At(h, o, srv[s].data, old.db)
    BY <1>3, <1>5 DEF ServerAt, old
  <2> HIDE DEF h, o
  <2> QED  BY <2>1, <1>8, <1>9, <1>19, AtReaches
<1>22. BacklogAt(H, r)
  <2>1. BacklogAt(H, srv[s])
    BY <1>3, <1>5 DEF ServerAt
  <2> QED  BY <2>1, <1>3, <1>5, <1>11, <1>12, <1>20, FeedAt
<1>23. ServerAt(H, r, setup.ttl)
  <2>1. RdbAt(H, r.dump) /\ (r.rdb_child # None => RdbAt(H, r.rdb_child.rdb))
    BY <1>3, <1>12 DEF ServerAt
  <2>2. r.replid2 # ZeroId => Shared(H, r.replid2, r.replid, r.second_replid_offset - 1)
    BY <1>3, <1>5, <1>12, <1>19 DEF ServerAt
  <2>3. At(H[r.replid], r.master_repl_offset, r.data, r.master.db)
    BY <1>12, <1>15, <1>21
  <2>4. r.masterhost # NoOne /\ r.master # None
    BY <1>5, <1>8, <1>12
  <2> QED  BY <2>1, <2>2, <2>3, <2>4, <1>12, <1>22 DEF ServerAt, Owner
<1>24. ASSUME NEW w \in Seq(Messages), NEW x, NEW end, Len(w) >= 1, w[1] = conn[s].down[1], Leads(H, srv[s], w, x, end)
      PROVE  Leads(H, r, Tail(w), x, end)
  BY <1>2, <1>3, <1>5, <1>12, <1>15, <1>24, ApplyLeads
<1>25. /\ Taken(s) = [conn EXCEPT ![s] = k2] /\ k2 \in Conns
       /\ LinkAt(H, k2, r, [srv EXCEPT ![s] = r][k2.to]) /\ (Serving(k2) => k2.to # s)
  BY <1>1, <1>16, <1>24, ReadHere
<1> HIDE DEF k2
<1>26. /\ DOMAIN H \subseteq 1..used.ids /\ Grows(H, H, used.ids) /\ ~Owner(r)
  BY <1>3, <1>5, <1>12, GrowsItself DEF FitsIn, Owner
<1>27. /\ r.replid = srv[s].replid /\ r.replid \in DOMAIN H /\ r.rdb_child = srv[s].rdb_child
       /\ r.master_repl_offset = srv[s].master_repl_offset + Len(<<item>>)
       /\ Stream(H[r.replid], srv[s].master_repl_offset, 0, <<item>>)
  BY <1>12, <1>19, <1>20
<1>28. FitsIn(H, [srv EXCEPT ![s] = r], FeedSlaves([conn EXCEPT ![s] = k2], s, <<item>>), used.ids)
  BY <1>3, <1>11, <1>14, <1>23, <1>25, <1>26, <1>27, FedFits
<1> QED  BY <1>6, <1>13, <1>25, <1>28

-----------------------------------------------------------------------------
(* Masters write. *)

\* The same for a server without master.
LEMMA FedMasterFits ==
    ASSUME NEW sv, NEW cn, Base(sv, cn), NEW H, NEW u \in Nat, FitsIn(H, sv, cn, u), NEW H2, IsBook(H2), Grows(H, H2, u),
           DOMAIN H2 \subseteq 1..u, NEW x \in Servers, NEW me \in ServerTypes, NEW items \in Seq(Items),
           me.replid = sv[x].replid, me.replid \in DOMAIN H2, me.rdb_child = sv[x].rdb_child,
           me.master_repl_offset = sv[x].master_repl_offset + Len(items),
           Stream(H2[me.replid], sv[x].master_repl_offset, 0, items),
           ServerAt(H2, me, setup.ttl), Owner(me) => Owner(sv[x]), cn[x] = None,
           \A t \in Servers \ {x} : Owner(sv[t]) => H2[sv[t].replid] = H[sv[t].replid]
    PROVE  FitsIn(H2, [sv EXCEPT ![x] = me], FeedSlaves(cn, x, items), u)
<1>1. [cn EXCEPT ![x] = cn[x]] = cn
  BY DEF Base, Links
<1>2. cn[x] \in Conns \cup {None} /\ ~Serving(cn[x])
  BY DEF Serving
<1>3. FitsIn(H2, [sv EXCEPT ![x] = me], FeedSlaves([cn EXCEPT ![x] = cn[x]], x, items), u)
  BY <1>2, FedFits
<1> QED  BY <1>1, <1>3

\* The only server that writes in its history continues it.
LEMMA OwnerFits ==
    ASSUME IInv, IInv', setup' = setup, NEW H, FitsIn(H, srv, conn, used.ids), NEW m \in Servers, Owner(srv[m]),
           NEW items \in Seq(Items), NEW h2 \in Histories, h2.hi = srv[m].master_repl_offset + Len(items),
           \A r \in 0..srv[m].master_repl_offset : h2.pos[r] = H[srv[m].replid].pos[r],
           Stream(h2, srv[m].master_repl_offset, 0, items),
           NEW me, srv' = [srv EXCEPT ![m] = me], conn' = FeedSlaves(conn, m, items), used'.ids = used.ids,
           me.masterhost = NoOne, me.replid = srv[m].replid, me.replid2 = srv[m].replid2,
           me.second_replid_offset = srv[m].second_replid_offset, me.rdb_child = srv[m].rdb_child,
           me.dump = srv[m].dump, me.master = None, me.cached_master = None,
           me.master_repl_offset = srv[m].master_repl_offset + Len(items),
           me.backlog = feedReplicationBacklog(srv[m], items).backlog, me.backlog # None, MasterAt(h2, me)
    PROVE  \E H2 : FitsIn(H2, srv', conn', used'.ids)
<1> DEFINE id == srv[m].replid
           o  == srv[m].master_repl_offset
           H2 == [H EXCEPT ![id] = h2]
           u  == used.ids
<1>1. /\ Base(srv, conn) /\ u \in Nat /\ srv[m] \in ServerTypes /\ ServerOK(srv[m]) /\ srv'[m] \in ServerTypes
      /\ ServerAt(H, srv[m], setup.ttl) /\ id <= u /\ IsBook(H) /\ setup \in Setups
      /\ conn \in Links /\ srv \in [Servers -> ServerTypes] /\ LinkOK(conn[m], srv[m])
  BY Here
<1>2. me \in ServerTypes
  <2>1. me = srv'[m]
    BY <1>1
  <2> QED  BY <2>1, <1>1
<1>3. id \in DOMAIN H /\ H[id].hi = o /\ o \in Nat /\ srv[m].backlog # None /\ BacklogAt(H, srv[m])
  BY <1>1 DEF Owner, ServerAt, MasterAt, BacklogAt, ServerTypes
<1>4. conn[m] = None
  <2>1. srv[m].repl_state = "NONE"
    BY <1>1 DEF Owner, ServerOK
  <2> QED  BY <2>1, <1>1 DEF LinkOK
<1>5. /\ H2[id] = h2 /\ DOMAIN H2 = DOMAIN H /\ IsBook(H2) /\ \A x \in DOMAIN H : x # id => H2[x] = H[x]
  BY <1>1, <1>3 DEF IsBook
<1>6. \A x \in DOMAIN H : H[x].hi \in Nat
  BY <1>1, BookOK
<1> HIDE DEF H2
<1>7. Longer(H[id], h2)
  <2>1. h2.hi \in Nat /\ Len(items) \in Nat
    BY LenProperties DEF Histories
  <2> QED  BY <2>1, <1>3 DEF Longer
<1>8. Grows(H, H2, u) /\ DOMAIN H2 \subseteq 1..u
  <2>1. \A x \in DOMAIN H : Longer(H[x], H2[x])
    BY <1>5, <1>6, <1>7, LongerItself
  <2> QED  BY <2>1, <1>5 DEF Grows, FitsIn
<1>9. \A t \in Servers \ {m} : Owner(srv[t]) => H2[srv[t].replid] = H[srv[t].replid]
  <2> SUFFICES ASSUME NEW t \in Servers \ {m}, Owner(srv[t])  PROVE H2[srv[t].replid] = H[srv[t].replid]
    OBVIOUS
  <2>1. srv[t].replid # id
    BY DEF FitsIn
  <2>2. srv[t].replid \in DOMAIN H
    BY DEF FitsIn, ServerAt, Owner, BacklogAt
  <2> QED  BY <2>1, <2>2, <1>5
<1>10. BacklogAt(H2, srv[m])
  <2> DEFINE q == srv[m].backlog.items
             b == srv[m].backlog.off - 1
  <2>1. q \in Seq(Messages) /\ srv[m].backlog.off \in Int
    BY <1>1, <1>3, PlainItems, SeqMonotonic DEF ServerTypes, Backlogs
  <2>2. Stream(H[id], b, 0, q) /\ srv[m].backlog.off >= 1
    BY <1>3 DEF BacklogAt
  <2>3. b \in Nat /\ 0 \in Nat
    BY <2>1, <2>2
  <2>4. H[id] \in Histories
    BY <1>1, <1>3, BookOK
  <2> HIDE DEF q, b
  <2>5. Stream(h2, b, 0, q)
    BY <2>1, <2>2, <2>3, <2>4, <1>7, StreamLonger
  <2> QED  BY <2>2, <2>5, <1>3, <1>5 DEF BacklogAt, q, b
<1>11. BacklogAt(H2, me)
  BY <1>1, <1>3, <1>5, <1>10, FeedAt
<1>12. RdbAt(H2, me.dump) /\ (me.rdb_child # None => RdbAt(H2, me.rdb_child.rdb))
  <2>1. RdbAt(H, me.dump) /\ me.dump \in Rdbs
    BY <1>1, <1>2 DEF ServerAt, ServerTypes
  <2>2. me.rdb_child # None => RdbAt(H, me.rdb_child.rdb) /\ me.rdb_child.rdb \in Rdbs
    BY <1>1, <1>2 DEF ServerAt, ServerTypes, Children
  <2> QED  BY <2>1, <2>2, <1>1, <1>5, <1>8, RdbGrows
<1>13. me.replid2 # ZeroId => Shared(H2, me.replid2, me.replid, me.second_replid_offset - 1)
  <2> SUFFICES ASSUME me.replid2 # ZeroId  PROVE Shared(H2, me.replid2, me.replid, me.second_replid_offset - 1)
    OBVIOUS
  <2>1. Shared(H, me.replid2, me.replid, me.second_replid_offset - 1)
    BY <1>1, <1>3 DEF ServerAt
  <2>2. me.second_replid_offset - 1 \in Int
    BY <1>2 DEF ServerTypes
  <2> QED  BY <2>1, <2>2, <1>1, <1>5, <1>8, SharedGrows
<1>14. ServerAt(H2, me, setup.ttl)
  BY <1>5, <1>11, <1>12, <1>13 DEF ServerAt
<1>15. FitsIn(H2, [srv EXCEPT ![m] = me], FeedSlaves(conn, m, items), u)
  <2>1. /\ me.replid = srv[m].replid /\ me.replid \in DOMAIN H2 /\ me.rdb_child = srv[m].rdb_child
        /\ me.master_repl_offset = srv[m].master_repl_offset + Len(items)
        /\ Stream(H2[me.replid], srv[m].master_repl_offset, 0, items)
        /\ Owner(me) => Owner(srv[m])
    BY <1>3, <1>5
  <2>2. /\ Base(srv, conn) /\ used.ids \in Nat /\ IsBook(H2) /\ Grows(H, H2, used.ids)
        /\ DOMAIN H2 \subseteq 1..used.ids /\ me \in ServerTypes /\ ServerAt(H2, me, setup.ttl) /\ conn[m] = None
    BY <1>1, <1>2, <1>4, <1>5, <1>8, <1>14
  <2> QED  BY <2>1, <2>2, <1>9, FedMasterFits, ZenonT(60)
<1> QED  BY <1>15

\* The history with one more position.
OneMore(h, p) == [hi |-> h.hi + 1, pos |-> [n \in Nat |-> IF n = h.hi + 1 THEN p ELSE h.pos[n]]]

\* It is a history, which one command continues.
LEMMA OneMoreOK ==
    ASSUME NEW h \in Histories, NEW p \in Positions
    PROVE  /\ OneMore(h, p) \in Histories /\ OneMore(h, p).hi = h.hi + 1 /\ OneMore(h, p).pos[h.hi + 1] = p
           /\ \A r \in 0..h.hi : OneMore(h, p).pos[r] = h.pos[r]
           /\ \A item \in Items : Reaches(h.pos[h.hi], item, p) => Stream(OneMore(h, p), h.hi, 0, <<item>>)
<1> DEFINE g == OneMore(h, p)
           o == h.hi
           f == [n \in Nat |-> IF n = o + 1 THEN p ELSE h.pos[n]]
<1>1. o \in Nat /\ h.pos \in [Nat -> Positions]
  BY DEF Histories
<1>2. g.hi = o + 1 /\ g.pos = f
  BY DEF OneMore
<1>3. f \in [Nat -> Positions] /\ o + 1 \in Nat
  BY <1>1
<1>4. g \in Histories
  BY <1>3 DEF OneMore, Histories
<1>5. g.pos[o + 1] = p /\ \A r \in 0..o : g.pos[r] = h.pos[r]
  BY <1>1, <1>2
<1> HIDE DEF g, o, f
<1>6. ASSUME NEW item \in Items, Reaches(h.pos[o], item, p)
      PROVE  Stream(g, o, 0, <<item>>)
  <2>1. Len(<<item>>) = 1 /\ o \in 0..o
    BY <1>1
  <2>2. o + Len(<<item>>) - 0 <= g.hi
    BY <2>1, <1>1, <1>2
  <2>3. ASSUME NEW j \in 0 + 1 .. Len(<<item>>)
        PROVE  <<item>>[j] \in Items /\ Reaches(g.pos[o + j - 0 - 1], <<item>>[j], g.pos[o + j - 0])
    <3>1. j = 1 /\ o + j - 0 - 1 = o /\ o + j - 0 = o + 1 /\ <<item>>[j] = item
      BY <2>1, <1>1
    <3> QED  BY <3>1, <2>1, <1>5, <1>6
  <2> QED  BY <2>2, <2>3 DEF Stream
<1> QED  BY <1>2, <1>4, <1>5, <1>6 DEF g, o

\* A server changes, and no link does.
LEMMA ServerFits ==
    ASSUME NEW sv, NEW cn, Base(sv, cn), NEW H, NEW u \in Nat, FitsIn(H, sv, cn, u),
           NEW H2, IsBook(H2), Grows(H, H2, u), NEW u2 \in Nat, u <= u2, DOMAIN H2 \subseteq 1..u2,
           NEW x \in Servers, NEW me \in ServerTypes, me.replid <= u2, ServerAt(H2, me, setup.ttl),
           Owner(me) => (Owner(sv[x]) /\ me.replid = sv[x].replid) \/ me.replid > u,
           \A t \in Servers \ {x} : Owner(sv[t]) => H2[sv[t].replid] = H[sv[t].replid],
           SameWay(me, sv[x]) \/ cn[x] = None,
           \A t \in Servers : cn[t] # None /\ cn[t].to = x /\ Follows(cn[t]) =>
              me.replid = sv[x].replid /\ me.master_repl_offset = sv[x].master_repl_offset,
           \A t \in Servers : cn[t] # None /\ cn[t].to = x /\ cn[t].replstate = "WAIT_BGSAVE_END" =>
              me.rdb_child = sv[x].rdb_child
    PROVE  FitsIn(H2, [sv EXCEPT ![x] = me], cn, u2)
<1> DEFINE sv2 == [sv EXCEPT ![x] = me]
<1>1. ASSUME NEW t \in Servers, cn[t] # None  PROVE LinkAt(H2, cn[t], sv2[t], sv2[cn[t].to])
  BY <1>1, LinkElsewhere
<1>2. \A t \in Servers : Serving(cn[t]) => cn[t].to # t
  BY DEF FitsIn
<1> QED  BY <1>1, <1>2, FitsStep

\* A server without slaves feeds no one.
LEMMA FedNone ==
    ASSUME NEW cn \in Links, NEW x \in Servers, \A t \in Servers : ~IsSlaveOf(cn, t, x), NEW items
    PROVE  FeedSlaves(cn, x, items) = cn
BY DEF FeedSlaves, Links

\* A master that has no backlog has no slaves either.
LEMMA WriteAlone ==
    ASSUME IInv, IInv', setup' = setup, NEW H, FitsIn(H, srv, conn, used.ids), NEW m \in Servers,
           srv[m].masterhost = NoOne, srv[m].backlog = None, NEW d, NEW items,
           srv' = [srv EXCEPT ![m] = [srv[m] EXCEPT !.data = d]], conn' = FeedSlaves(conn, m, items), used'.ids = used.ids
    PROVE  \E H2 : FitsIn(H2, srv', conn', used'.ids)
<1> DEFINE me == [srv[m] EXCEPT !.data = d]
<1>1. /\ Base(srv, conn) /\ used.ids \in Nat /\ srv[m] \in ServerTypes /\ ServerOK(srv[m]) /\ srv'[m] \in ServerTypes
      /\ ServerAt(H, srv[m], setup.ttl) /\ srv[m].replid <= used.ids /\ IsBook(H)
      /\ conn \in Links /\ srv \in [Servers -> ServerTypes] /\ LinkOK(conn[m], srv[m])
  BY Here
<1>2. /\ me.masterhost = NoOne /\ me.replid = srv[m].replid /\ me.replid2 = srv[m].replid2 /\ me.backlog = None
      /\ me.master = srv[m].master /\ me.cached_master = srv[m].cached_master /\ me.rdb_child = srv[m].rdb_child
      /\ me.dump = srv[m].dump /\ me.master_repl_offset = srv[m].master_repl_offset
  BY <1>1 DEF ServerTypes
<1> HIDE DEF me
<1>3. me \in ServerTypes
  <2>1. me = srv'[m]
    BY <1>1 DEF me
  <2> QED  BY <2>1, <1>1
<1>4. srv[m].repl_state = "NONE" /\ srv[m].master = None /\ srv[m].cached_master = None
  BY <1>1 DEF ServerOK
<1>5. conn[m] = None
  BY <1>1, <1>4 DEF LinkOK
<1>6. \A t \in Servers : ~IsSlaveOf(conn, t, m)
  BY DEF IInv, SlavesHaveBacklog
<1>7. conn' = conn
  BY <1>1, <1>6, FedNone
<1>8. \A t \in Servers : ~(conn[t] # None /\ conn[t].to = m /\ Follows(conn[t]))
  BY <1>6 DEF IsSlaveOf, Follows
<1>9. \A t \in Servers : ~(conn[t] # None /\ conn[t].to = m /\ conn[t].replstate = "WAIT_BGSAVE_END")
  BY <1>8 DEF Follows
<1>10. ServerAt(H, me, setup.ttl) /\ ~Owner(me)
  BY <1>1, <1>2, <1>4 DEF ServerAt, Owner
<1>11. /\ me.replid <= used.ids /\ Grows(H, H, used.ids) /\ used.ids <= used.ids /\ DOMAIN H \subseteq 1..used.ids
  BY <1>1, <1>2, GrowsItself DEF FitsIn
<1>12. FitsIn(H, [srv EXCEPT ![m] = me], conn, used.ids)
  BY <1>1, <1>3, <1>5, <1>8, <1>9, <1>10, <1>11, ServerFits
<1> QED  BY <1>7, <1>12 DEF me

\* The fields that a write leaves as they are, but for the data and the
\* database of the stream.
SameFed(me, fed) ==
    /\ me.masterhost = fed.masterhost /\ me.replid = fed.replid /\ me.replid2 = fed.replid2
    /\ me.second_replid_offset = fed.second_replid_offset /\ me.master = fed.master
    /\ me.cached_master = fed.cached_master /\ me.rdb_child = fed.rdb_child /\ me.dump = fed.dump
    /\ me.master_repl_offset = fed.master_repl_offset /\ me.backlog = fed.backlog

\* A master feeds its backlog and its slaves.
LEMMA FeedFits ==
    ASSUME IInv, IInv', setup' = setup, NEW H, FitsIn(H, srv, conn, used.ids), NEW m \in Servers, Owner(srv[m]),
           NEW items \in Seq(Items), NEW h2 \in Histories, h2.hi = srv[m].master_repl_offset + Len(items),
           \A r \in 0..srv[m].master_repl_offset : h2.pos[r] = H[srv[m].replid].pos[r],
           Stream(h2, srv[m].master_repl_offset, 0, items),
           NEW me, srv' = [srv EXCEPT ![m] = me], conn' = FeedSlaves(conn, m, items), used'.ids = used.ids,
           SameFed(me, feedReplicationBacklog(srv[m], items)),
           h2.pos[h2.hi].data = me.data, h2.pos[h2.hi].db = me.slaveseldb
    PROVE  \E H2 : FitsIn(H2, srv', conn', used'.ids)
<1> DEFINE fed == feedReplicationBacklog(srv[m], items)
<1>1. /\ srv[m] \in ServerTypes /\ ServerOK(srv[m]) /\ setup \in Setups
  BY Here
<1>2. srv[m].masterhost = NoOne /\ srv[m].backlog # None /\ srv[m].master = None /\ srv[m].cached_master = None
  BY <1>1 DEF Owner, ServerOK
<1>3. fed.backlog # None
  BY <1>1, <1>2, FeedOK
<1>4. /\ fed.masterhost = srv[m].masterhost /\ fed.replid = srv[m].replid
      /\ fed.replid2 = srv[m].replid2 /\ fed.second_replid_offset = srv[m].second_replid_offset
      /\ fed.master = srv[m].master /\ fed.cached_master = srv[m].cached_master
      /\ fed.rdb_child = srv[m].rdb_child /\ fed.dump = srv[m].dump
      /\ fed.master_repl_offset = srv[m].master_repl_offset + Len(items)
  BY <1>1, FeedFields
<1> HIDE DEF fed
<1>5. /\ me.masterhost = NoOne /\ me.replid = srv[m].replid /\ me.replid2 = srv[m].replid2
      /\ me.second_replid_offset = srv[m].second_replid_offset /\ me.rdb_child = srv[m].rdb_child
      /\ me.dump = srv[m].dump /\ me.master = None /\ me.cached_master = None
      /\ me.master_repl_offset = srv[m].master_repl_offset + Len(items)
      /\ me.backlog = feedReplicationBacklog(srv[m], items).backlog /\ me.backlog # None
  BY <1>2, <1>3, <1>4 DEF SameFed, fed
<1>6. MasterAt(h2, me)
  BY <1>5 DEF MasterAt
<1> QED  BY <1>5, <1>6, OwnerFits

\* The last position of a master's history.
LEMMA MasterEnd ==
    ASSUME NEW H, IsBook(H), NEW me, NEW ttl, ServerAt(H, me, ttl), Owner(me)
    PROVE  LET h == H[me.replid]
           IN  /\ me.replid \in DOMAIN H /\ h \in Histories /\ h.hi \in Nat /\ h.hi = me.master_repl_offset
               /\ h.pos[h.hi] \in Positions /\ h.pos[h.hi].data = me.data /\ h.pos[h.hi].db = me.slaveseldb
<1>1. me.replid \in DOMAIN H /\ MasterAt(H[me.replid], me)
  BY DEF ServerAt, Owner, BacklogAt
<1> QED  BY <1>1, BookOK DEF MasterAt

\* Ping() keeps the histories.
LEMMA PingFits ==
    ASSUME IInv, IInv', setup' = setup, NEW H, FitsIn(H, srv, conn, used.ids), NEW m \in Servers, Ping(m)
    PROVE  \E H2 : FitsIn(H2, srv', conn', used'.ids)
<1> DEFINE h  == H[srv[m].replid]
           p  == h.pos[h.hi]
           items == <<PingCmd>>
           fed == feedReplicationBacklog(srv[m], items)
           me == [fed EXCEPT !.slaveseldb = srv[m].slaveseldb]
           h2 == OneMore(h, p)
<1>1. /\ srv[m] \in ServerTypes /\ ServerOK(srv[m])
      /\ ServerAt(H, srv[m], setup.ttl) /\ IsBook(H) /\ setup \in Setups
  BY Here
<1>2. srv[m].masterhost = NoOne /\ SlavesOf(conn, m) # {} /\ conn' = FeedSlaves(conn, m, items)
      /\ used' = [used EXCEPT !.pings = @ + 1]
      /\ srv' = [srv EXCEPT ![m] = replicationFeedSlaves(srv[m], srv[m].slaveseldb, items)]
  BY DEF Ping
<1>3. srv[m].backlog # None
  BY <1>2 DEF SlavesOf, IInv, SlavesHaveBacklog
<1>4. Owner(srv[m])
  BY <1>2, <1>3 DEF Owner
<1>5. PingCmd \in Items /\ PingCmd.type = "ping"
  BY DEF PingCmd, Items, StreamTypes
<1>6. items \in Seq(Items) /\ Len(items) = 1
  BY <1>5
<1>7. /\ h \in Histories /\ h.hi \in Nat /\ h.hi = srv[m].master_repl_offset
      /\ p \in Positions /\ p.data = srv[m].data /\ p.db = srv[m].slaveseldb
  BY <1>1, <1>4, MasterEnd
<1> HIDE DEF h, p
<1>8. Reaches(h.pos[h.hi], PingCmd, p)
  BY <1>5 DEF Reaches, p
<1>9. /\ h2 \in Histories /\ h2.hi = h.hi + 1 /\ h2.pos[h.hi + 1] = p
      /\ \A r \in 0..h.hi : h2.pos[r] = h.pos[r]
      /\ Stream(h2, h.hi, 0, items)
  BY <1>5, <1>7, <1>8, OneMoreOK
<1> HIDE DEF h2, items
<1>10. fed \in ServerTypes /\ fed.data = srv[m].data
  BY <1>1, <1>3, <1>6, FeedOK
<1>11. srv' = [srv EXCEPT ![m] = me]
  BY <1>2, <1>3 DEF replicationFeedSlaves
<1> HIDE DEF fed
<1>12. SameFed(me, fed) /\ me.slaveseldb = srv[m].slaveseldb /\ me.data = fed.data
  BY <1>10 DEF ServerTypes, SameFed
<1> HIDE DEF me
<1>13. used'.ids = used.ids
  BY <1>2 DEF IInv, Useds
<1>14. /\ h2.hi = srv[m].master_repl_offset + Len(items)
       /\ \A r \in 0..srv[m].master_repl_offset : h2.pos[r] = H[srv[m].replid].pos[r]
       /\ Stream(h2, srv[m].master_repl_offset, 0, items)
       /\ h2.pos[h2.hi].data = me.data /\ h2.pos[h2.hi].db = me.slaveseldb
  BY <1>6, <1>7, <1>9, <1>10, <1>12 DEF h
<1>15. /\ Owner(srv[m]) /\ items \in Seq(Items) /\ h2 \in Histories /\ srv' = [srv EXCEPT ![m] = me]
       /\ conn' = FeedSlaves(conn, m, items) /\ SameFed(me, feedReplicationBacklog(srv[m], items))
  BY <1>2, <1>4, <1>6, <1>9, <1>11, <1>12 DEF fed
<1> QED  BY <1>13, <1>14, <1>15, FeedFits

\* Write() keeps the histories.
LEMMA WriteFits ==
    ASSUME IInv, IInv', setup' = setup, NEW H, FitsIn(H, srv, conn, used.ids), NEW m \in Servers, NEW db \in setup.dbs,
           Write(m, db)
    PROVE  \E H2 : FitsIn(H2, srv', conn', used'.ids)
<1> DEFINE v    == used.writes + 1
           cmd  == WriteCmd(v)
           items == WithSelect(srv[m], db, <<cmd>>)
           fed  == feedReplicationBacklog(srv[m], items)
           data == Append(srv[m].data, <<db, v>>)
           h    == H[srv[m].replid]
<1>1. /\ srv[m] \in ServerTypes /\ ServerOK(srv[m])
      /\ ServerAt(H, srv[m], setup.ttl) /\ IsBook(H) /\ setup \in Setups
  BY Here
<1>2. /\ srv[m].masterhost = NoOne /\ conn' = FeedSlaves(conn, m, items) /\ used' = [used EXCEPT !.writes = @ + 1]
      /\ srv' = [srv EXCEPT ![m] = [replicationFeedSlaves(srv[m], db, items) EXCEPT !.data = Append(@, <<db, v>>)]]
  BY DEF Write
<1>3. used'.ids = used.ids /\ v \in Int
  BY <1>2 DEF IInv, Useds
<1>4. CASE srv[m].backlog = None
  <2>1. replicationFeedSlaves(srv[m], db, items) = srv[m]
    BY <1>4 DEF replicationFeedSlaves
  <2>2. srv' = [srv EXCEPT ![m] = [srv[m] EXCEPT !.data = data]]
    BY <1>2, <2>1
  <2> HIDE DEF data, items
  <2> QED  BY <1>2, <1>3, <1>4, <2>2, WriteAlone
<1>5. CASE srv[m].backlog # None
  <2> DEFINE me == [fed EXCEPT !.slaveseldb = db, !.data = data]
             last == [data |-> data, db |-> db]
             sel  == [data |-> srv[m].data, db |-> db]
  <2>1. Owner(srv[m])
    BY <1>2, <1>5 DEF Owner
  <2>2. db \in Int /\ db # -1
    BY <1>1, ReplicationAssumption DEF Setup
  <2>3. data \in DataSets /\ srv[m].data \in DataSets
    <3>1. srv[m].data \in Seq(Int \X Int) /\ <<db, v>> \in Int \X Int
      BY <1>1, <1>3, <2>2 DEF ServerTypes, DataSets
    <3> QED  BY <3>1, AppendProperties DEF DataSets
  <2>4. last \in Positions /\ sel \in Positions /\ last.data = data /\ last.db = db /\ sel.data = srv[m].data /\ sel.db = db
    BY <2>2, <2>3 DEF Positions
  <2>5. cmd \in Items /\ cmd.type = "write" /\ cmd.arg = v /\ Select(db) \in Items /\ Select(db).type = "select" /\ Select(db).arg = db
    BY <1>3, <2>2 DEF WriteCmd, Select, Items, StreamTypes
  <2>6. /\ h \in Histories /\ h.hi \in Nat /\ h.hi = srv[m].master_repl_offset
        /\ h.pos[h.hi].data = srv[m].data /\ h.pos[h.hi].db = srv[m].slaveseldb
    BY <1>1, <2>1, MasterEnd
  <2> HIDE DEF h, last, sel, cmd
  <2>7. items \in Seq(Items) /\ \E h2 \in Histories :
          /\ h2.hi = h.hi + Len(items) /\ \A r \in 0..h.hi : h2.pos[r] = h.pos[r]
          /\ Stream(h2, h.hi, 0, items) /\ h2.pos[h2.hi] = last
    <3>1. CASE srv[m].slaveseldb = db
      <4>1. items = <<cmd>>
        BY <3>1 DEF WithSelect
      <4>2. Reaches(h.pos[h.hi], cmd, last)
        BY <2>2, <2>4, <2>5, <2>6, <3>1 DEF Reaches
      <4> HIDE DEF items
      <4>3. items \in Seq(Items) /\ Len(items) = 1
        BY <4>1, <2>5
      <4> DEFINE h2 == OneMore(h, last)
      <4>4. /\ h2 \in Histories /\ h2.hi = h.hi + 1 /\ h2.pos[h.hi + 1] = last
            /\ \A r \in 0..h.hi : h2.pos[r] = h.pos[r]
            /\ Stream(h2, h.hi, 0, <<cmd>>)
        BY <2>4, <2>5, <2>6, <4>2, OneMoreOK
      <4> HIDE DEF h2
      <4> QED  BY <4>1, <4>3, <4>4
    <3>2. CASE srv[m].slaveseldb # db
      <4> DEFINE h1 == OneMore(h, sel)
                 h2 == OneMore(h1, last)
                 s1 == <<Select(db)>>
                 s2 == <<cmd>>
      <4>1. items = s1 \o s2
        BY <3>2 DEF WithSelect
      <4>2. Reaches(h.pos[h.hi], Select(db), sel)
        BY <2>2, <2>4, <2>5, <2>6 DEF Reaches
      <4>3. /\ h1 \in Histories /\ h1.hi = h.hi + 1 /\ h1.pos[h.hi + 1] = sel
            /\ \A r \in 0..h.hi : h1.pos[r] = h.pos[r]
            /\ Stream(h1, h.hi, 0, s1)
        BY <2>4, <2>5, <2>6, <4>2, OneMoreOK
      <4> HIDE DEF h1
      <4>4. h1.pos[h1.hi] = sel
        BY <4>3
      <4>5. Reaches(h1.pos[h1.hi], cmd, last)
        BY <2>2, <2>4, <2>5, <4>4 DEF Reaches
      <4>6. /\ h2 \in Histories /\ h2.hi = h1.hi + 1 /\ h2.pos[h1.hi + 1] = last
            /\ \A r \in 0..h1.hi : h2.pos[r] = h1.pos[r]
            /\ Stream(h2, h1.hi, 0, s2)
        BY <2>4, <2>5, <4>3, <4>5, OneMoreOK
      <4>7. s1 \in Seq(Items) /\ s2 \in Seq(Items) /\ Len(s1) = 1 /\ Len(s2) = 1
        BY <2>5
      <4> HIDE DEF h2, s1, s2, items
      <4>8. s1 \in Seq(Messages) /\ s2 \in Seq(Messages)
        BY <4>7, PlainItems, SeqMonotonic
      <4>9. s1 \o s2 \in Seq(Items) /\ Len(s1 \o s2) = 2
        BY <4>7, ConcatProperties
      <4>10. Longer(h1, h2)
        BY <4>3, <4>6, <2>6 DEF Longer
      <4>11. Stream(h2, h.hi, 0, s1)
        BY <2>6, <4>3, <4>6, <4>8, <4>10, StreamLonger
      <4>12. h.hi + Len(s1) - 0 = h1.hi /\ 0 <= Len(s1) /\ 0 \in Nat
        BY <2>6, <4>3, <4>7
      <4>13. Stream(h2, h.hi, 0, s1 \o s2)
        BY <2>6, <4>6, <4>8, <4>11, <4>12, StreamConcat
      <4>14. \A r \in 0..h.hi : h2.pos[r] = h.pos[r]
        BY <2>6, <4>3, <4>6
      <4>15. h2.hi = h.hi + Len(items) /\ h2.pos[h2.hi] = last
        BY <2>6, <4>1, <4>3, <4>6, <4>9
      <4> QED  BY <4>1, <4>6, <4>9, <4>13, <4>14, <4>15
    <3> QED  BY <3>1, <3>2
  <2> HIDE DEF items
  <2>8. PICK h2 \in Histories :
          /\ h2.hi = h.hi + Len(items) /\ \A r \in 0..h.hi : h2.pos[r] = h.pos[r]
          /\ Stream(h2, h.hi, 0, items) /\ h2.pos[h2.hi] = last
    BY <2>7
  <2>9. fed \in ServerTypes /\ fed.data = srv[m].data
    BY <1>1, <1>5, <2>7, FeedOK
  <2>10. srv' = [srv EXCEPT ![m] = me]
    <3>1. replicationFeedSlaves(srv[m], db, items) = [fed EXCEPT !.slaveseldb = db]
      BY <1>5 DEF replicationFeedSlaves
    <3> DEFINE f1 == [fed EXCEPT !.slaveseldb = db]
    <3>2. f1.data = srv[m].data
      BY <2>9 DEF ServerTypes
    <3>3. [f1 EXCEPT !.data = Append(@, <<db, v>>)] = [f1 EXCEPT !.data = data]
      BY <3>2
    <3> HIDE DEF fed
    <3>4. [f1 EXCEPT !.data = data] = me
      BY <2>9 DEF ServerTypes
    <3> QED  BY <1>2, <3>1, <3>3, <3>4
  <2> HIDE DEF fed, data
  <2>11. SameFed(me, fed) /\ me.slaveseldb = db /\ me.data = data
    BY <2>9 DEF ServerTypes, SameFed
  <2> HIDE DEF me
  <2>12. /\ h2.hi = srv[m].master_repl_offset + Len(items)
         /\ \A r \in 0..srv[m].master_repl_offset : h2.pos[r] = H[srv[m].replid].pos[r]
         /\ Stream(h2, srv[m].master_repl_offset, 0, items)
         /\ h2.pos[h2.hi].data = me.data /\ h2.pos[h2.hi].db = me.slaveseldb
    BY <2>4, <2>6, <2>8, <2>11 DEF h
  <2>13. SameFed(me, feedReplicationBacklog(srv[m], items))
    BY <2>11 DEF fed
  <2>14. items \in Seq(Items) /\ conn' = FeedSlaves(conn, m, items) /\ used'.ids = used.ids
    BY <1>2, <1>3, <2>7
  <2> QED  BY <2>1, <2>10, <2>12, <2>13, <2>14, FeedFits
<1> QED  BY <1>4, <1>5

-----------------------------------------------------------------------------
(* Books that grow. *)

\* The history after which any database may be selected.
Undecided(h) ==
    [hi |-> h.hi, pos |-> [n \in Nat |-> IF n = h.hi THEN [data |-> h.pos[n].data, db |-> -1] ELSE h.pos[n]]]

\* A history whose last database is undetermined continues it.
LEMMA UndecidedOK ==
    ASSUME NEW h \in Histories
    PROVE  /\ Undecided(h) \in Histories /\ Undecided(h).hi = h.hi /\ Longer(h, Undecided(h))
           /\ Undecided(h).pos[h.hi].data = h.pos[h.hi].data /\ Undecided(h).pos[h.hi].db = -1
           /\ \A r \in Nat : r # h.hi => Undecided(h).pos[r] = h.pos[r]
<1> DEFINE o == h.hi
           f == [n \in Nat |-> IF n = o THEN [data |-> h.pos[n].data, db |-> -1] ELSE h.pos[n]]
           g == Undecided(h)
<1>1. o \in Nat /\ h.pos \in [Nat -> Positions]
  BY DEF Histories
<1>2. ASSUME NEW n \in Nat  PROVE f[n] \in Positions
  <2>1. h.pos[n] \in Positions
    BY <1>1
  <2>2. [data |-> h.pos[n].data, db |-> -1] \in Positions
    BY <2>1 DEF Positions
  <2> QED  BY <2>1, <2>2
<1>3. f \in [Nat -> Positions]
  BY <1>2
<1>4. g.hi = o /\ g.pos = f
  BY DEF Undecided
<1>5. g \in Histories
  BY <1>1, <1>3 DEF Undecided, Histories
<1>6. f[o] = [data |-> h.pos[o].data, db |-> -1] /\ \A n \in Nat : n # o => f[n] = h.pos[n]
  BY <1>1
<1> HIDE DEF f, g, o
<1>7. g.pos[o].data = h.pos[o].data /\ g.pos[o].db = -1 /\ \A n \in Nat : n # o => g.pos[n] = h.pos[n]
  BY <1>4, <1>6
<1>8. Longer(h, g)
  <2>1. ASSUME NEW r \in 0..h.hi
        PROVE  g.pos[r].data = h.pos[r].data /\ (g.pos[r].db = h.pos[r].db \/ (r = h.hi /\ g.pos[r].db = -1))
    BY <1>1, <1>7 DEF o
  <2>2. h.hi <= g.hi
    BY <1>1, <1>4 DEF o
  <2> QED  BY <2>1, <2>2 DEF Longer
<1> QED  BY <1>4, <1>5, <1>7, <1>8 DEF g, o

\* One history of the book grows.
LEMMA BookChanged ==
    ASSUME NEW H, IsBook(H), NEW id \in DOMAIN H, NEW h2 \in Histories, Longer(H[id], h2), NEW u
    PROVE  LET H2 == [H EXCEPT ![id] = h2]
           IN  /\ IsBook(H2) /\ DOMAIN H2 = DOMAIN H /\ H2[id] = h2 /\ Grows(H, H2, u)
               /\ \A x \in DOMAIN H : x # id => H2[x] = H[x]
<1> DEFINE H2 == [H EXCEPT ![id] = h2]
<1>1. IsBook(H2) /\ DOMAIN H2 = DOMAIN H /\ H2[id] = h2 /\ \A x \in DOMAIN H : x # id => H2[x] = H[x]
  BY DEF IsBook
<1>2. \A x \in DOMAIN H : H[x].hi \in Nat
  BY BookOK
<1> HIDE DEF H2
<1>3. \A x \in DOMAIN H : Longer(H[x], H2[x])
  BY <1>1, <1>2, LongerItself
<1>4. Grows(H, H2, u)
  BY <1>1, <1>3 DEF Grows
<1> QED  BY <1>1, <1>4 DEF H2

\* A history begins.
Begun(H, id, g) == [x \in DOMAIN H \cup {id} |-> IF x = id THEN g ELSE H[x]]

\* A book with one more history is a book.
LEMMA BookAdded ==
    ASSUME NEW H, IsBook(H), NEW u \in Nat, DOMAIN H \subseteq 1..u, NEW g \in Histories
    PROVE  LET H2 == Begun(H, u + 1, g)
           IN  /\ IsBook(H2) /\ DOMAIN H2 = DOMAIN H \cup {u + 1} /\ H2[u + 1] = g /\ Grows(H, H2, u)
               /\ \A x \in DOMAIN H : H2[x] = H[x]
               /\ DOMAIN H2 \subseteq 1 .. u + 1
<1> DEFINE H2 == Begun(H, u + 1, g)
<1>1. u + 1 \notin DOMAIN H /\ u + 1 \in Nat
  OBVIOUS
<1>2. DOMAIN H2 = DOMAIN H \cup {u + 1} /\ H2[u + 1] = g /\ \A x \in DOMAIN H : H2[x] = H[x]
  BY <1>1 DEF Begun
<1>3. H2 \in [DOMAIN H2 -> Histories]
  <2>1. \A x \in DOMAIN H : H[x] \in Histories
    BY BookOK
  <2> QED  BY <2>1 DEF Begun
<1>4. DOMAIN H2 \subseteq 1 .. u + 1
  BY <1>2
<1> HIDE DEF H2
<1>5. IsBook(H2)
  BY <1>3, <1>4 DEF IsBook
<1>6. \A x \in DOMAIN H : H[x].hi \in Nat
  BY BookOK
<1>7. Grows(H, H2, u)
  BY <1>2, <1>6, LongerItself DEF Grows
<1> QED  BY <1>2, <1>4, <1>5, <1>7 DEF H2

\* Who has not the ID of the server that writes.
LEMMA OtherOwners ==
    ASSUME NEW sv, NEW cn, NEW H, NEW u, FitsIn(H, sv, cn, u), NEW x \in Servers, Owner(sv[x]),
           NEW t \in Servers \ {x}, Owner(sv[t])
    PROVE  sv[t].replid # sv[x].replid /\ sv[t].replid \in DOMAIN H /\ sv[x].replid \in DOMAIN H
<1>1. sv[t].replid # sv[x].replid
  BY DEF FitsIn
<1>2. ServerAt(H, sv[t], setup.ttl) /\ ServerAt(H, sv[x], setup.ttl)
  BY DEF FitsIn
<1> QED  BY <1>1, <1>2 DEF ServerAt, Owner, BacklogAt

\* The files of a server fit a book that has grown.
LEMMA FilesGrow ==
    ASSUME NEW H, IsBook(H), NEW H2, IsBook(H2), NEW u, Grows(H, H2, u), NEW me \in ServerTypes,
           RdbAt(H, me.dump), me.rdb_child # None => RdbAt(H, me.rdb_child.rdb)
    PROVE  RdbAt(H2, me.dump) /\ (me.rdb_child # None => RdbAt(H2, me.rdb_child.rdb))
<1>1. me.dump \in Rdbs /\ (me.rdb_child # None => me.rdb_child.rdb \in Rdbs)
  BY DEF ServerTypes, Children
<1> QED  BY <1>1, RdbGrows

-----------------------------------------------------------------------------
(* Saves, the end of a backlog, and restarts. *)

\* A server saves what it holds in its history.
LEMMA RdbOfAt ==
    ASSUME NEW H, NEW me \in ServerTypes, ServerOK(me), NEW ttl, ServerAt(H, me, ttl)
    PROVE  RdbAt(H, RdbOf(me))
<1> DEFINE rdb == RdbOf(me)
<1>1. /\ rdb.data = me.data /\ rdb.replid = me.replid /\ rdb.offset = me.master_repl_offset
      /\ rdb.stream_db = IF me.masterhost = NoOne
                         THEN IF me.backlog = None THEN -1 ELSE me.slaveseldb
                         ELSE IF me.master = None THEN -1 ELSE me.master.db
  BY DEF RdbOf
<1> HIDE DEF rdb
<1>2. CASE me.masterhost = NoOne /\ me.backlog # None
  <2>1. MasterAt(H[me.replid], me) /\ me.replid \in DOMAIN H
    BY <1>2 DEF ServerAt, Owner, BacklogAt
  <2>2. me.master_repl_offset \in Nat
    BY DEF ServerTypes
  <2> QED  BY <1>1, <1>2, <2>1, <2>2 DEF RdbAt, At, MasterAt, rdb
<1>3. CASE me.masterhost # NoOne /\ me.master # None
  <2>1. me.replid \in DOMAIN H /\ At(H[me.replid], me.master_repl_offset, me.data, me.master.db)
    BY <1>3 DEF ServerAt, ServerOK, BacklogAt
  <2> QED  BY <1>1, <1>3, <2>1 DEF RdbAt, rdb
<1>4. CASE rdb.stream_db = -1
  BY <1>4 DEF RdbAt, rdb
<1> QED  BY <1>1, <1>2, <1>3, <1>4

\* No slave waits for the end of a save that does not run.
LEMMA NoneWaits ==
    ASSUME NEW sv, NEW cn, NEW H, NEW u, FitsIn(H, sv, cn, u), NEW t \in Servers, cn[t] # None,
           cn[t].replstate = "WAIT_BGSAVE_END"
    PROVE  sv[cn[t].to].rdb_child # None
<1>1. LinkAt(H, cn[t], sv[t], sv[cn[t].to])
  BY DEF FitsIn
<1> QED  BY <1>1 DEF LinkAt, Waits

\* SaveInBackground() keeps the histories.
LEMMA SaveFits ==
    ASSUME IInv, IInv', setup' = setup, NEW H, FitsIn(H, srv, conn, used.ids), NEW m \in Servers, NEW rdb,
           RdbAt(H, rdb), SaveInBackground(m, rdb)
    PROVE  \E H2 : FitsIn(H2, srv', conn', used'.ids)
<1> DEFINE child == [socket |-> FALSE, rdb |-> rdb]
           me == [srv[m] EXCEPT !.rdb_child = child]
<1>1. /\ Base(srv, conn) /\ used.ids \in Nat /\ srv[m] \in ServerTypes /\ ServerOK(srv[m]) /\ srv'[m] \in ServerTypes
      /\ ServerAt(H, srv[m], setup.ttl) /\ srv[m].replid <= used.ids /\ IsBook(H) /\ srv \in [Servers -> ServerTypes]
  BY Here
<1>2. /\ srv[m].rdb_child = None /\ srv' = [srv EXCEPT ![m] = me] /\ used' = [used EXCEPT !.saves = @ + 1] /\ conn' = conn
  BY DEF SaveInBackground
<1>3. used'.ids = used.ids
  BY <1>2 DEF IInv, Useds
<1>4. child.rdb = rdb
  OBVIOUS
<1> HIDE DEF child
<1>5. /\ me.masterhost = srv[m].masterhost /\ me.replid = srv[m].replid /\ me.replid2 = srv[m].replid2
      /\ me.second_replid_offset = srv[m].second_replid_offset /\ me.master_repl_offset = srv[m].master_repl_offset
      /\ me.backlog = srv[m].backlog /\ me.slaveseldb = srv[m].slaveseldb /\ me.master = srv[m].master
      /\ me.cached_master = srv[m].cached_master /\ me.data = srv[m].data /\ me.rdb_child = child
      /\ me.dump = srv[m].dump /\ me.repl_state = srv[m].repl_state /\ me.master_replid = srv[m].master_replid
      /\ me.master_initial_offset = srv[m].master_initial_offset
  BY <1>1 DEF ServerTypes
<1> HIDE DEF me
<1>6. me \in ServerTypes
  <2>1. me = srv'[m]
    BY <1>1, <1>2
  <2> QED  BY <2>1, <1>1
<1>7. ServerAt(H, me, setup.ttl)
  BY <1>1, <1>4, <1>5 DEF ServerAt, BacklogAt, MasterAt, Owner
<1>8. SameWay(me, srv[m]) /\ (Owner(me) <=> Owner(srv[m]))
  BY <1>5 DEF SameWay, Owner
<1>9. \A t \in Servers : ~(conn[t] # None /\ conn[t].to = m /\ conn[t].replstate = "WAIT_BGSAVE_END")
  BY <1>2, NoneWaits
<1>10. /\ me.replid <= used.ids /\ Grows(H, H, used.ids) /\ used.ids <= used.ids /\ DOMAIN H \subseteq 1..used.ids
  BY <1>1, <1>5, GrowsItself DEF FitsIn
<1>11. /\ Owner(me) => (Owner(srv[m]) /\ me.replid = srv[m].replid) \/ me.replid > used.ids
       /\ me.replid = srv[m].replid /\ me.master_repl_offset = srv[m].master_repl_offset
  BY <1>5, <1>8
<1>12. FitsIn(H, [srv EXCEPT ![m] = me], conn, used.ids)
  BY <1>1, <1>6, <1>7, <1>8, <1>9, <1>10, <1>11, ServerFits
<1> QED  BY <1>2, <1>3, <1>12

\* SavePoint() and bgsaveCommand() keep the histories.
LEMMA SavesFit ==
    ASSUME IInv, IInv', setup' = setup, NEW H, FitsIn(H, srv, conn, used.ids), NEW m \in Servers,
           SavePoint(m) \/ bgsaveCommand(m)
    PROVE  \E H2 : FitsIn(H2, srv', conn', used'.ids)
<1>1. CASE SavePoint(m)
  <2>1. RdbAt(H, RdbOf(srv[m]))
    BY Here, RdbOfAt
  <2> QED  BY <1>1, <2>1, SaveFits DEF SavePoint
<1>2. CASE bgsaveCommand(m)
  <2> DEFINE rdb == [EmptyRdb EXCEPT !.data = srv[m].data]
  <2>1. rdb.stream_db = -1
    BY DEF EmptyRdb
  <2>2. SaveInBackground(m, rdb)
    BY <1>2 DEF bgsaveCommand
  <2> HIDE DEF rdb
  <2>3. RdbAt(H, rdb)
    BY <2>1 DEF RdbAt
  <2> QED  BY <2>2, <2>3, SaveFits
<1> QED  BY <1>1, <1>2

\* FreeBacklog() keeps the histories.
LEMMA FreeBacklogFits ==
    ASSUME IInv, IInv', setup' = setup, NEW H, FitsIn(H, srv, conn, used.ids), NEW m \in Servers, FreeBacklog(m)
    PROVE  \E H2 : FitsIn(H2, srv', conn', used'.ids)
<1> DEFINE me == [srv[m] EXCEPT !.backlog = None]
<1>1. /\ Base(srv, conn) /\ used.ids \in Nat /\ srv[m] \in ServerTypes /\ ServerOK(srv[m]) /\ srv'[m] \in ServerTypes
      /\ ServerAt(H, srv[m], setup.ttl) /\ srv[m].replid <= used.ids /\ IsBook(H) /\ srv \in [Servers -> ServerTypes]
  BY Here
<1>2. /\ setup.ttl /\ srv[m].masterhost = NoOne /\ SlavesOf(conn, m) = {} /\ srv' = [srv EXCEPT ![m] = me]
      /\ conn' = conn /\ used' = used
  BY DEF FreeBacklog
<1>3. /\ me.masterhost = srv[m].masterhost /\ me.replid = srv[m].replid /\ me.master_repl_offset = srv[m].master_repl_offset
      /\ me.backlog = None /\ me.master = srv[m].master /\ me.cached_master = srv[m].cached_master
      /\ me.rdb_child = srv[m].rdb_child /\ me.dump = srv[m].dump /\ me.repl_state = srv[m].repl_state
      /\ me.master_replid = srv[m].master_replid /\ me.master_initial_offset = srv[m].master_initial_offset
  BY <1>1 DEF ServerTypes
<1> HIDE DEF me
<1>4. me \in ServerTypes
  <2>1. me = srv'[m]
    BY <1>1, <1>2
  <2> QED  BY <2>1, <1>1
<1>5. srv[m].master = None /\ srv[m].cached_master = None
  BY <1>1, <1>2 DEF ServerOK
<1>6. ServerAt(H, me, setup.ttl) /\ ~Owner(me)
  BY <1>1, <1>2, <1>3, <1>5 DEF ServerAt, Owner
<1>7. SameWay(me, srv[m])
  BY <1>3 DEF SameWay
<1>8. /\ me.replid <= used.ids /\ Grows(H, H, used.ids) /\ used.ids <= used.ids /\ DOMAIN H \subseteq 1..used.ids
  BY <1>1, <1>3, GrowsItself DEF FitsIn
<1>9. FitsIn(H, [srv EXCEPT ![m] = me], conn, used.ids)
  BY <1>1, <1>3, <1>4, <1>6, <1>7, <1>8, ServerFits
<1> QED  BY <1>2, <1>9

\* A server that starts has what is in its file.
LEMMA StartedAt ==
    ASSUME NEW H, NEW u \in Nat, DOMAIN H \subseteq 1..u, NEW m, NEW file \in Rdbs, RdbAt(H, file), NEW ttl
    PROVE  LET me == Started(m, file, u + 1)
           IN  ServerAt(H, me, ttl) /\ ~Owner(me) /\ me.replid <= u + 1
<1> DEFINE me == Started(m, file, u + 1)
           restored == m # NoOne /\ file.stream_db # -1 /\ file.replid # ZeroId
<1>1. /\ me.masterhost = m /\ me.backlog = None /\ me.master = None /\ me.replid2 = ZeroId /\ me.rdb_child = None
      /\ me.dump = file /\ me.data = file.data
      /\ restored => /\ me.replid = file.replid /\ me.master_repl_offset = file.offset
                     /\ me.cached_master.db = file.stream_db
      /\ ~restored => me.replid = u + 1 /\ me.cached_master = None
      /\ m = NoOne => ~restored
  BY DEF Started
<1> HIDE DEF me, restored
<1>2. restored => file.replid \in DOMAIN H /\ At(H[file.replid], file.offset, file.data, file.stream_db)
  BY DEF RdbAt, restored
<1>3. ~restored => me.replid \notin DOMAIN H
  BY <1>1
<1>4. me.replid <= u + 1
  BY <1>1, <1>2
<1>5. ServerAt(H, me, ttl) /\ ~Owner(me)
  BY <1>1, <1>2, <1>3 DEF ServerAt, Owner
<1> QED  BY <1>4, <1>5 DEF me

\* Restart() keeps the histories.
LEMMA RestartFits ==
    ASSUME IInv, IInv', setup' = setup, NEW H, FitsIn(H, srv, conn, used.ids), NEW s \in Servers, Restart(s)
    PROVE  \E H2 : FitsIn(H2, srv', conn', used'.ids)
<1> DEFINE me == Started(srv[s].masterhost, srv[s].dump, used.ids + 1)
           sv2 == [srv EXCEPT ![s] = me]
           u2 == used.ids + 1
<1>1. /\ Base(srv, conn) /\ used.ids \in Nat /\ srv[s] \in ServerTypes /\ srv'[s] \in ServerTypes
      /\ ServerAt(H, srv[s], setup.ttl) /\ IsBook(H) /\ srv \in [Servers -> ServerTypes] /\ conn \in Links
  BY Here
<1>2. /\ srv' = sv2 /\ used' = [used EXCEPT !.ids = @ + 1, !.crashes = @ + 1]
      /\ conn' = [t \in Servers |->
                  IF t = s THEN None
                  ELSE IF conn[t] # None /\ conn[t].to = s
                       THEN [conn[t] EXCEPT !.replstate = "CLOSED", !.psync = None, !.buf = <<>>]
                       ELSE conn[t]]
  BY DEF Restart, FreshId
<1>3. used'.ids = u2
  BY <1>2 DEF IInv, Useds
<1>4. DOMAIN H \subseteq 1..used.ids /\ srv[s].dump \in Rdbs /\ RdbAt(H, srv[s].dump)
  BY <1>1 DEF FitsIn, ServerAt, ServerTypes
<1>5. ServerAt(H, me, setup.ttl) /\ ~Owner(me) /\ me.replid <= u2
  BY <1>1, <1>4, StartedAt
<1> HIDE DEF me
<1>6. me \in ServerTypes /\ sv2[s] = me /\ \A t \in Servers : t # s => sv2[t] = srv[t]
  <2>1. me = srv'[s]
    BY <1>1, <1>2
  <2> QED  BY <2>1, <1>1
<1>7. ASSUME NEW t \in Servers, conn'[t] # None
      PROVE  LinkAt(H, conn'[t], sv2[t], sv2[conn'[t].to]) /\ ~(Serving(conn'[t]) /\ conn'[t].to = t)
  <2>1. t # s /\ conn[t] # None
    BY <1>2, <1>7
  <2>2. conn[t] \in Conns /\ LinkAt(H, conn[t], srv[t], srv[conn[t].to]) /\ srv[conn[t].to] \in ServerTypes
    BY <1>1, <2>1, BaseTypes DEF FitsIn
  <2>3. CASE conn[t].to = s
    <3> DEFINE k == conn[t]
               k2 == [k EXCEPT !.replstate = "CLOSED", !.psync = None, !.buf = <<>>]
    <3>1. conn'[t] = k2
      BY <1>2, <2>1, <2>3
    <3>2. k2 \in Conns /\ k2.replstate = "CLOSED" /\ k2.buf = <<>> /\ k2.psync = None /\ k2.down = k.down
      BY <2>2, EmptySeq DEF Conns, SlaveStates
    <3> HIDE DEF k2
    <3>3. LinkAt(H, k2, srv[t], sv2[k2.to])
      BY <1>1, <2>2, <3>2, LinkClosed
    <3> QED  BY <3>1, <3>2, <3>3, <2>1, <1>6 DEF Serving
  <2>4. CASE conn[t].to # s
    <3>1. conn'[t] = conn[t]
      BY <1>2, <2>1, <2>4
    <3>2. Grows(H, H, used.ids)
      BY <1>1, GrowsItself
    <3>3. LinkAt(H, conn[t], sv2[t], sv2[conn[t].to])
      BY <1>1, <1>6, <2>1, <2>4, <3>2, LinkElsewhere
    <3> HIDE DEF sv2
    <3> QED  BY <3>1, <3>3 DEF FitsIn
  <2> QED  BY <2>3, <2>4
<1>8. Grows(H, H, used.ids) /\ used.ids <= u2 /\ DOMAIN H \subseteq 1..u2 /\ u2 \in Nat
  BY <1>1, <1>4, GrowsItself
<1> DEFINE cn2 == conn'
<1>9. /\ \A t \in Servers : cn2[t] # None => LinkAt(H, cn2[t], sv2[t], sv2[cn2[t].to])
      /\ \A t \in Servers : Serving(cn2[t]) => cn2[t].to # t
  BY <1>7 DEF Serving
<1> HIDE DEF cn2
<1>10. FitsIn(H, sv2, cn2, u2)
  BY <1>1, <1>5, <1>6, <1>8, <1>9, FitsStep
<1> QED  BY <1>2, <1>3, <1>10 DEF cn2

-----------------------------------------------------------------------------
(* Changes of role. *)

\* A server that drops its slaves and its own link.
LEMMA DropFits ==
    ASSUME IInv, IInv', setup' = setup, NEW H, FitsIn(H, srv, conn, used.ids), NEW s \in Servers,
           NEW H2, IsBook(H2), Grows(H, H2, used.ids), NEW u2 \in Nat, used.ids <= u2, DOMAIN H2 \subseteq 1..u2,
           NEW me \in ServerTypes, me.replid <= u2, ServerAt(H2, me, setup.ttl),
           Owner(me) => me.replid > used.ids,
           \A t \in Servers \ {s} : Owner(srv[t]) => H2[srv[t].replid] = H[srv[t].replid]
    PROVE  FitsIn(H2, [srv EXCEPT ![s] = me], DisconnectSlaves([conn EXCEPT ![s] = None], s), u2)
<1> DEFINE c == DisconnectSlaves(conn, s)
           k == None
<1>1. Base(srv, conn) /\ used.ids \in Nat /\ conn \in Links
  BY Here
<1>2. /\ Base(srv, c) /\ FitsIn(H, srv, c, used.ids) /\ \A t \in Servers : ~IsSlaveOf(c, t, s)
  BY <1>1, DisconnectFits
<1>3. ~IsSlaveOf(conn, s, s) /\ ~Serving(k) /\ k = None
  BY DEF FitsIn, IsSlaveOf, Serving
<1> HIDE DEF k
<1>4. DisconnectSlaves([conn EXCEPT ![s] = k], s) = [c EXCEPT ![s] = k]
  BY <1>1, <1>3, DisconnectLast, ZenonT(60)
<1> HIDE DEF c
<1>5. \A t \in Servers \ {s} : ~(c[t] # None /\ c[t].to = s /\ Follows(c[t]))
  BY <1>2 DEF IsSlaveOf, Follows
<1>6. FitsIn(H2, [srv EXCEPT ![s] = me], [c EXCEPT ![s] = k], u2)
  BY <1>1, <1>2, <1>3, <1>5, OneFits
<1> QED  BY <1>4, <1>6 DEF k

\* A promoted server begins a history, which is the old one up to its offset.
Branch(h, o, data) ==
    [hi |-> o, pos |-> [n \in Nat |-> IF n = o THEN [data |-> data, db |-> -1] ELSE h.pos[n]]]

\* A branch is a history that differs only in its last position.
LEMMA BranchOK ==
    ASSUME NEW h \in Histories, NEW o \in Nat, NEW data \in DataSets
    PROVE  /\ Branch(h, o, data) \in Histories /\ Branch(h, o, data).hi = o
           /\ Branch(h, o, data).pos[o].data = data /\ Branch(h, o, data).pos[o].db = -1
           /\ \A r \in Nat : r # o => Branch(h, o, data).pos[r] = h.pos[r]
<1> DEFINE p == [data |-> data, db |-> -1]
           f == [n \in Nat |-> IF n = o THEN p ELSE h.pos[n]]
           g == Branch(h, o, data)
<1>1. h.pos \in [Nat -> Positions]
  BY DEF Histories
<1>2. p \in Positions /\ p.data = data /\ p.db = -1
  BY DEF Positions
<1>3. g.hi = o /\ g.pos = f
  BY DEF Branch
<1> HIDE DEF p
<1>4. f \in [Nat -> Positions]
  BY <1>1, <1>2
<1>5. g \in Histories
  BY <1>4 DEF Branch, Histories, p
<1>6. f[o] = p /\ \A r \in Nat : r # o => f[r] = h.pos[r]
  OBVIOUS
<1> HIDE DEF f, g
<1> QED  BY <1>2, <1>3, <1>5, <1>6 DEF g

\* The branch shares the old history up to the offset.
LEMMA BranchShared ==
    ASSUME NEW H, IsBook(H), NEW x \in DOMAIN H, NEW y \in DOMAIN H, x # y, NEW o \in Nat, o <= H[x].hi,
           NEW data \in DataSets, data = H[x].pos[o].data, H[y] = Branch(H[x], o, data)
    PROVE  Shared(H, x, y, o)
<1>1. H[x] \in Histories /\ H[x].hi \in Nat
  BY BookOK
<1> DEFINE h == H[x]
           g == Branch(h, o, data)
<1> HIDE DEF h
<1>4. /\ g.hi = o /\ g.pos[o].data = data /\ g.pos[o].db = -1
      /\ \A r \in Nat : r # o => g.pos[r] = h.pos[r]
  <2>1. h \in Histories
    BY <1>1 DEF h
  <2> HIDE DEF g
  <2>2. Branch(h, o, data).hi = o /\ Branch(h, o, data).pos[o].data = data
    BY <2>1, BranchOK
  <2>3. Branch(h, o, data).pos[o].db = -1
    BY <2>1, BranchOK
  <2>4. \A r \in Nat : r # o => Branch(h, o, data).pos[r] = h.pos[r]
    BY <2>1, BranchOK
  <2> QED  BY <2>2, <2>3, <2>4 DEF g
<1>5. H[y] = g
  BY DEF h
<1> HIDE DEF g
<1>2. /\ H[y].hi = o /\ H[y].pos[o].data = data /\ H[y].pos[o].db = -1
      /\ \A r \in Nat : r # o => H[y].pos[r] = H[x].pos[r]
  BY <1>4, <1>5 DEF h
<1>3. ASSUME NEW r \in 0..o
      PROVE  /\ H[y].pos[r].data = H[x].pos[r].data
             /\ (r = o /\ H[y].pos[r].db = -1) \/ (r < H[x].hi /\ H[y].pos[r].db = H[x].pos[r].db)
  <2>1. CASE r = o
    BY <2>1, <1>2
  <2>2. CASE r # o
    <3>1. r \in Nat /\ r < H[x].hi
      BY <2>2, <1>1
    <3> QED  BY <2>2, <3>1, <1>2
  <2> QED  BY <2>1, <2>2
<1>6. o <= H[y].hi
  BY <1>2
<1> QED  BY <1>3, <1>6, Zenon DEF Shared

\* replicationUnsetMaster() keeps the histories.
LEMMA UnsetFits ==
    ASSUME IInv, IInv', setup' = setup, NEW H, FitsIn(H, srv, conn, used.ids), NEW s \in Servers,
           srv[s].masterhost # NoOne, replicationUnsetMaster(s)
    PROVE  \E H2 : FitsIn(H2, srv', conn', used'.ids)
<1> DEFINE id == used.ids + 1
           old == srv[s].replid
           o   == srv[s].master_repl_offset
           me  == [shiftReplicationId(srv[s], id) EXCEPT
                    !.masterhost = NoOne, !.master = None, !.cached_master = None,
                    !.repl_state = "NONE", !.slaveseldb = -1]
           g   == Branch(H[old], o, srv[s].data)
           H2  == Begun(H, id, g)
<1>1. /\ Base(srv, conn) /\ used.ids \in Nat /\ srv[s] \in ServerTypes /\ srv'[s] \in ServerTypes /\ ServerOK(srv[s])
      /\ ServerAt(H, srv[s], setup.ttl) /\ IsBook(H) /\ srv \in [Servers -> ServerTypes] /\ conn \in Links
  BY Here
<1>2. /\ srv' = [srv EXCEPT ![s] = me] /\ used' = [used EXCEPT !.ids = @ + 1, !.roles = @ + 1]
      /\ conn' = DisconnectSlaves([conn EXCEPT ![s] = None], s)
  BY DEF replicationUnsetMaster, FreshId
<1>3. used'.ids = id /\ id \in Nat
  BY <1>1, <1>2 DEF IInv, Useds
<1>4. /\ me.masterhost = NoOne /\ me.master = None /\ me.cached_master = None /\ me.slaveseldb = -1
      /\ me.replid2 = old /\ me.second_replid_offset = o + 1 /\ me.replid = id /\ me.master_repl_offset = o
      /\ me.backlog = srv[s].backlog /\ me.data = srv[s].data /\ me.rdb_child = srv[s].rdb_child
      /\ me.dump = srv[s].dump
  BY <1>1 DEF ServerTypes, shiftReplicationId
<1> HIDE DEF me
<1>5. me \in ServerTypes
  <2>1. me = srv'[s]
    BY <1>1, <1>2
  <2> QED  BY <2>1, <1>1
<1>6. DOMAIN H \subseteq 1..used.ids /\ o \in Nat /\ srv[s].data \in DataSets
  BY <1>1 DEF FitsIn, ServerTypes
<1>7. CASE srv[s].backlog = None
  <2>1. ServerAt(H, me, setup.ttl) /\ ~Owner(me)
    <3>1. me.replid \notin DOMAIN H
      BY <1>1, <1>4, <1>6
    <3> QED  BY <1>1, <1>4, <1>7, <3>1 DEF ServerAt, Owner
  <2>2. /\ Grows(H, H, used.ids) /\ used.ids <= id /\ DOMAIN H \subseteq 1..id /\ me.replid <= id
    BY <1>1, <1>4, <1>6, GrowsItself
  <2>3. FitsIn(H, [srv EXCEPT ![s] = me], DisconnectSlaves([conn EXCEPT ![s] = None], s), id)
    <3> HIDE DEF id
    <3> QED  BY <1>1, <1>3, <1>5, <2>1, <2>2, DropFits
  <2> QED  BY <1>2, <1>3, <2>3
<1>8. CASE srv[s].backlog # None
  <2>1. BacklogAt(H, srv[s]) /\ old \in DOMAIN H
    BY <1>1, <1>8 DEF ServerAt, BacklogAt
  <2>2. o <= H[old].hi /\ srv[s].data = H[old].pos[o].data
    BY <1>1, <1>8, <2>1 DEF ServerAt, At
  <2>3. H[old] \in Histories
    BY <1>1, <2>1, BookOK
  <2>4. /\ g \in Histories /\ g.hi = o /\ g.pos[o].data = srv[s].data /\ g.pos[o].db = -1
    BY <1>6, <2>3, BranchOK
  <2> HIDE DEF g, o, old
  <2>5. /\ IsBook(H2) /\ DOMAIN H2 = DOMAIN H \cup {id} /\ H2[id] = g /\ Grows(H, H2, used.ids)
        /\ \A x \in DOMAIN H : H2[x] = H[x]
        /\ DOMAIN H2 \subseteq 1..id
    BY <1>1, <1>6, <2>4, BookAdded
  <2>6. id > used.ids /\ id \notin DOMAIN H /\ old # id
    BY <1>1, <1>6, <2>1
  <2> HIDE DEF H2, id
  <2>7. Shared(H2, old, id, o)
    <3>1. old \in DOMAIN H2 /\ id \in DOMAIN H2 /\ H2[old] = H[old] /\ H2[id] = Branch(H2[old], o, srv[s].data)
      BY <2>1, <2>5 DEF g
    <3> QED  BY <2>2, <2>5, <2>6, <3>1, <1>6, BranchShared
  <2>8. BacklogAt(H2, me)
    <3> DEFINE q == srv[s].backlog.items
               b == srv[s].backlog.off - 1
    <3>1. q \in Seq(Messages) /\ srv[s].backlog.off \in Int /\ Len(q) \in Nat
      BY <1>1, <1>8, PlainItems, SeqMonotonic, LenProperties DEF ServerTypes, Backlogs
    <3>2. Stream(H[old], b, 0, q) /\ srv[s].backlog.off >= 1
      BY <2>1 DEF BacklogAt, old
    <3>3. srv[s].backlog.off + Len(q) = o + 1
      BY <1>1, <1>8 DEF ServerOK, o
    <3>4. b \in Nat /\ b + Len(q) = o
      <4> DEFINE l == Len(q)
                 f == srv[s].backlog.off
      <4>1. l \in Nat /\ f \in Int /\ f >= 1 /\ f + l = o + 1 /\ o \in Nat
        BY <3>1, <3>2, <3>3, <1>6
      <4> HIDE DEF l, f
      <4>2. f - 1 \in Nat /\ (f - 1) + l = o
        BY <4>1
      <4> QED  BY <4>2 DEF l, f
    <3> HIDE DEF q, b
    <3>5. Stream(H2[old], b, 0, q)
      BY <2>1, <2>5, <3>2
    <3>6. Stream(H2[id], b, 0, q)
      BY <2>5, <2>7, <3>1, <3>4, <3>5, StreamShared
    <3> QED  BY <3>2, <3>6, <2>5, <1>4 DEF BacklogAt, q, b
  <2>9. MasterAt(H2[me.replid], me)
    BY <1>4, <2>4, <2>5 DEF MasterAt
  <2>10. RdbAt(H2, me.dump) /\ (me.rdb_child # None => RdbAt(H2, me.rdb_child.rdb))
    BY <1>1, <1>4, <1>5, <2>5, FilesGrow DEF ServerAt
  <2>11. Shared(H2, me.replid2, me.replid, me.second_replid_offset - 1)
    BY <2>7, <1>4, <1>6
  <2>12. ServerAt(H2, me, setup.ttl)
    BY <1>4, <1>8, <2>8, <2>9, <2>10, <2>11 DEF ServerAt
  <2>13. \A t \in Servers \ {s} : Owner(srv[t]) => H2[srv[t].replid] = H[srv[t].replid]
    <3> SUFFICES ASSUME NEW t \in Servers \ {s}, Owner(srv[t])  PROVE H2[srv[t].replid] = H[srv[t].replid]
      OBVIOUS
    <3>1. srv[t].replid \in DOMAIN H
      BY DEF FitsIn, ServerAt, Owner, BacklogAt
    <3> QED  BY <3>1, <2>5
  <2>14. me.replid <= id /\ me.replid > used.ids /\ used.ids <= id
    BY <1>1, <1>3, <1>4, <2>6
  <2>15. FitsIn(H2, [srv EXCEPT ![s] = me], DisconnectSlaves([conn EXCEPT ![s] = None], s), id)
    BY <1>3, <1>5, <2>5, <2>12, <2>13, <2>14, DropFits
  <2> QED  BY <1>2, <1>3, <2>15
<1> QED  BY <1>7, <1>8

\* replicationSetMaster() keeps the histories, when no backlog is freed for
\* want of slaves.
LEMMA SetMasterFits ==
    ASSUME IInv, IInv', setup' = setup, NEW H, FitsIn(H, srv, conn, used.ids), NEW s \in Servers, NEW m \in Servers,
           ~setup.ttl, replicationSetMaster(s, m)
    PROVE  \E H2 : FitsIn(H2, srv', conn', used'.ids)
<1> DEFINE me1 == IF srv[s].masterhost = NoOne THEN CacheMyself(srv[s]) ELSE LoseMaster(srv[s])
           me  == [me1 EXCEPT !.masterhost = m, !.repl_state = "CONNECT"]
           id  == srv[s].replid
           o   == srv[s].master_repl_offset
<1>1. /\ Base(srv, conn) /\ used.ids \in Nat /\ srv[s] \in ServerTypes /\ srv'[s] \in ServerTypes /\ ServerOK(srv[s])
      /\ ServerAt(H, srv[s], setup.ttl) /\ IsBook(H) /\ srv \in [Servers -> ServerTypes] /\ conn \in Links
      /\ id <= used.ids /\ setup \in Setups
  BY Here
<1>2. /\ srv' = [srv EXCEPT ![s] = me] /\ used' = [used EXCEPT !.roles = @ + 1]
      /\ conn' = DisconnectSlaves([conn EXCEPT ![s] = None], s)
  BY DEF replicationSetMaster
<1>3. used'.ids = used.ids /\ m # NoOne
  BY <1>1, <1>2, HostsOnly DEF IInv, Useds
<1> HIDE DEF me1
<1>4. me \in ServerTypes
  <2> HIDE DEF me
  <2>1. me = srv'[s]
    BY <1>1, <1>2
  <2> QED  BY <2>1, <1>1
<1>5. DOMAIN H \subseteq 1..used.ids /\ o \in Nat /\ used.ids <= used.ids
  BY <1>1 DEF FitsIn, ServerTypes
<1>6. CASE srv[s].masterhost # NoOne
  <2>1. me1 = LoseMaster(srv[s])
    BY <1>6 DEF me1
  <2>2. ServerAt(H, me1, setup.ttl) /\ me1 \in ServerTypes /\ me1.masterhost # NoOne /\ me1.replid = id
    BY <1>1, <1>6, <2>1, LoseAt
  <2>3. /\ me.masterhost = m /\ me.replid = me1.replid /\ me.replid2 = me1.replid2
        /\ me.second_replid_offset = me1.second_replid_offset /\ me.master_repl_offset = me1.master_repl_offset
        /\ me.backlog = me1.backlog /\ me.master = me1.master
        /\ me.cached_master = me1.cached_master /\ me.data = me1.data /\ me.rdb_child = me1.rdb_child
        /\ me.dump = me1.dump
    BY <2>2 DEF ServerTypes
  <2> HIDE DEF me
  <2>4. ServerAt(H, me, setup.ttl) /\ ~Owner(me)
    BY <1>3, <2>2, <2>3 DEF ServerAt, BacklogAt, Owner
  <2>5. Grows(H, H, used.ids) /\ me.replid <= used.ids
    BY <1>1, <2>2, <2>3, GrowsItself
  <2>6. FitsIn(H, [srv EXCEPT ![s] = me], DisconnectSlaves([conn EXCEPT ![s] = None], s), used.ids)
    BY <1>1, <1>4, <1>5, <2>4, <2>5, DropFits
  <2> QED  BY <1>2, <1>3, <2>6
<1>7. CASE srv[s].masterhost = NoOne
  <2> DEFINE cached == [replid |-> id, reploff |-> o, db |-> 0]
  <2>1. me1 = [srv[s] EXCEPT !.cached_master = cached, !.master_initial_offset = o]
    BY <1>7 DEF me1, CacheMyself
  <2>2. cached.db = 0
    OBVIOUS
  <2> HIDE DEF cached
  <2>3. /\ me.masterhost = m /\ me.replid = id /\ me.replid2 = srv[s].replid2
        /\ me.second_replid_offset = srv[s].second_replid_offset /\ me.master_repl_offset = o
        /\ me.backlog = srv[s].backlog /\ me.master = srv[s].master
        /\ me.cached_master = cached /\ me.data = srv[s].data /\ me.rdb_child = srv[s].rdb_child
        /\ me.dump = srv[s].dump
    BY <1>1, <2>1 DEF ServerTypes
  <2> HIDE DEF me
  <2>4. srv[s].master = None /\ ~Owner(me)
    BY <1>1, <1>3, <1>7, <2>3 DEF ServerOK, Owner
  <2>5. me.cached_master # None
    <3>1. cached \in Masters
      BY <1>1, <1>5 DEF ServerTypes, Masters, cached
    <3> QED  BY <2>3, <3>1, NoneElsewhere
  <2>6. CASE srv[s].backlog = None
    <3>1. id \notin DOMAIN H
      BY <1>1, <1>7, <2>6 DEF ServerAt
    <3>2. ServerAt(H, me, setup.ttl)
      BY <1>1, <1>3, <2>3, <2>4, <2>6, <3>1 DEF ServerAt, Owner
    <3>3. Grows(H, H, used.ids) /\ me.replid <= used.ids
      BY <1>1, <2>3, GrowsItself
    <3>4. FitsIn(H, [srv EXCEPT ![s] = me], DisconnectSlaves([conn EXCEPT ![s] = None], s), used.ids)
      BY <1>1, <1>4, <1>5, <2>4, <3>2, <3>3, DropFits
    <3> QED  BY <1>2, <1>3, <3>4
  <2>7. CASE srv[s].backlog # None
    <3> DEFINE h == H[id]
               h2 == Undecided(h)
               H2 == [H EXCEPT ![id] = h2]
    <3>1. Owner(srv[s])
      BY <1>7, <2>7 DEF Owner
    <3>2. /\ id \in DOMAIN H /\ h \in Histories /\ h.hi \in Nat /\ h.hi = o /\ h.pos[h.hi].data = srv[s].data
      BY <1>1, <3>1, MasterEnd
    <3>3. /\ h2 \in Histories /\ h2.hi = h.hi /\ Longer(h, h2)
          /\ h2.pos[h.hi].data = h.pos[h.hi].data /\ h2.pos[h.hi].db = -1
      BY <3>2, UndecidedOK
    <3> HIDE DEF h2
    <3>4. /\ IsBook(H2) /\ DOMAIN H2 = DOMAIN H /\ H2[id] = h2 /\ Grows(H, H2, used.ids)
          /\ \A x \in DOMAIN H : x # id => H2[x] = H[x]
      BY <1>1, <3>2, <3>3, BookChanged
    <3> HIDE DEF H2, h
    <3>5. At(H2[id], o, me.data, 0)
      BY <2>3, <3>2, <3>3, <3>4, <1>5 DEF At
    <3>6. BacklogAt(H2, me)
      <4> DEFINE q == srv[s].backlog.items
                 b == srv[s].backlog.off - 1
      <4>1. q \in Seq(Messages) /\ srv[s].backlog.off \in Int
        BY <1>1, <2>7, PlainItems, SeqMonotonic DEF ServerTypes, Backlogs
      <4>2. Stream(h, b, 0, q) /\ srv[s].backlog.off >= 1
        BY <1>1, <2>7 DEF ServerAt, BacklogAt, h
      <4>3. b \in Nat /\ 0 \in Nat
        BY <4>1, <4>2
      <4> HIDE DEF q, b
      <4>4. Stream(h2, b, 0, q)
        BY <4>1, <4>2, <4>3, <3>2, <3>3, StreamLonger
      <4> QED  BY <4>2, <4>4, <2>3, <3>2, <3>4 DEF BacklogAt, q, b
    <3>7. RdbAt(H2, me.dump) /\ (me.rdb_child # None => RdbAt(H2, me.rdb_child.rdb))
      BY <1>1, <1>4, <2>3, <3>4, FilesGrow DEF ServerAt
    <3>8. me.replid2 # ZeroId => Shared(H2, me.replid2, me.replid, me.second_replid_offset - 1)
      <4> SUFFICES ASSUME me.replid2 # ZeroId  PROVE Shared(H2, me.replid2, me.replid, me.second_replid_offset - 1)
        OBVIOUS
      <4>1. Shared(H, me.replid2, me.replid, me.second_replid_offset - 1)
        BY <1>1, <2>3, <2>7, <3>2 DEF ServerAt
      <4>2. me.second_replid_offset - 1 \in Int
        BY <1>4 DEF ServerTypes
      <4> QED  BY <4>1, <4>2, <1>1, <3>4, SharedGrows
    <3>9. ServerAt(H2, me, setup.ttl)
      BY <1>3, <2>2, <2>3, <2>4, <2>5, <3>5, <3>6, <3>7, <3>8 DEF ServerAt, Owner
    <3>10. \A t \in Servers \ {s} : Owner(srv[t]) => H2[srv[t].replid] = H[srv[t].replid]
      BY <3>1, <3>4, OtherOwners
    <3>11. DOMAIN H2 \subseteq 1..used.ids /\ me.replid <= used.ids
      BY <1>1, <1>5, <2>3, <3>4
    <3>12. FitsIn(H2, [srv EXCEPT ![s] = me], DisconnectSlaves([conn EXCEPT ![s] = None], s), used.ids)
      BY <1>1, <1>4, <1>5, <2>4, <3>4, <3>9, <3>10, <3>11, DropFits
    <3> QED  BY <1>2, <1>3, <3>12
  <2> QED  BY <2>6, <2>7
<1> QED  BY <1>6, <1>7

-----------------------------------------------------------------------------
(* Saves for slaves. *)

\* A backlog fits a book that has grown.
LEMMA BacklogGrows ==
    ASSUME NEW H, IsBook(H), NEW H2, IsBook(H2), NEW u, Grows(H, H2, u), NEW me \in ServerTypes, me.backlog # None,
           BacklogAt(H, me)
    PROVE  BacklogAt(H2, me)
<1> DEFINE q == me.backlog.items
           b == me.backlog.off - 1
           id == me.replid
<1>1. q \in Seq(Messages) /\ me.backlog.off \in Int
  BY PlainItems, SeqMonotonic DEF ServerTypes, Backlogs
<1>2. id \in DOMAIN H /\ Stream(H[id], b, 0, q) /\ me.backlog.off >= 1
  BY DEF BacklogAt
<1>3. id \in DOMAIN H2 /\ Longer(H[id], H2[id])
  BY <1>2 DEF Grows
<1>4. H[id] \in Histories /\ H2[id] \in Histories
  BY <1>2, <1>3, BookOK
<1>5. b \in Nat /\ 0 \in Nat
  BY <1>1, <1>2
<1> HIDE DEF q, b
<1>6. Stream(H2[id], b, 0, q)
  BY <1>1, <1>2, <1>3, <1>4, <1>5, StreamLonger
<1> QED  BY <1>2, <1>3, <1>6 DEF BacklogAt, q, b

\* The book in which the server m, if it writes, may go on in any database.
Loose(H, H2, sv, m, u) ==
    /\ IsBook(H2) /\ Grows(H, H2, u) /\ DOMAIN H2 \subseteq 1..u
    /\ \A t \in Servers \ {m} : Owner(sv[t]) => H2[sv[t].replid] = H[sv[t].replid]
    /\ Owner(sv[m]) => /\ H2[sv[m].replid].hi = sv[m].master_repl_offset
                       /\ H2[sv[m].replid].pos[sv[m].master_repl_offset].data = sv[m].data
                       /\ H2[sv[m].replid].pos[sv[m].master_repl_offset].db = -1

\* There is such a book.
LEMMA Loosened ==
    ASSUME NEW sv, NEW cn, Base(sv, cn), NEW H, NEW u, FitsIn(H, sv, cn, u), NEW m \in Servers
    PROVE  \E H2 : Loose(H, H2, sv, m, u)
<1>1. IsBook(H) /\ DOMAIN H \subseteq 1..u /\ ServerAt(H, sv[m], setup.ttl)
  BY DEF FitsIn
<1>2. CASE ~Owner(sv[m])
  BY <1>1, <1>2, GrowsItself DEF Loose
<1>3. CASE Owner(sv[m])
  <2> DEFINE id == sv[m].replid
             h == H[id]
             h2 == Undecided(h)
             H2 == [H EXCEPT ![id] = h2]
  <2>1. /\ id \in DOMAIN H /\ h \in Histories /\ h.hi \in Nat /\ h.hi = sv[m].master_repl_offset
        /\ h.pos[h.hi].data = sv[m].data
    BY <1>1, <1>3, MasterEnd
  <2>2. /\ h2 \in Histories /\ h2.hi = h.hi /\ Longer(h, h2)
        /\ h2.pos[h.hi].data = h.pos[h.hi].data /\ h2.pos[h.hi].db = -1
    BY <2>1, UndecidedOK
  <2> HIDE DEF h2
  <2>3. /\ IsBook(H2) /\ DOMAIN H2 = DOMAIN H /\ H2[id] = h2 /\ Grows(H, H2, u)
        /\ \A x \in DOMAIN H : x # id => H2[x] = H[x]
    BY <1>1, <2>1, <2>2, BookChanged
  <2> HIDE DEF H2, h
  <2>4. \A t \in Servers \ {m} : Owner(sv[t]) => H2[sv[t].replid] = H[sv[t].replid]
    BY <1>3, <2>3, OtherOwners
  <2>5. Loose(H, H2, sv, m, u)
    BY <1>1, <2>1, <2>2, <2>3, <2>4 DEF Loose
  <2> QED  BY <2>5
<1> QED  BY <1>2, <1>3

\* The server then fits it with any database selected.
LEMMA LoosenedAt ==
    ASSUME NEW sv, NEW cn, Base(sv, cn), NEW H, NEW u \in Nat, FitsIn(H, sv, cn, u), NEW m \in Servers, NEW H2,
           Loose(H, H2, sv, m, u), NEW me2 \in ServerTypes,
           me2.masterhost = sv[m].masterhost, me2.replid = sv[m].replid, me2.replid2 = sv[m].replid2,
           me2.second_replid_offset = sv[m].second_replid_offset, me2.master_repl_offset = sv[m].master_repl_offset,
           me2.backlog = sv[m].backlog, me2.slaveseldb = -1, me2.master = sv[m].master,
           me2.cached_master = sv[m].cached_master, me2.data = sv[m].data, me2.dump = sv[m].dump,
           me2.rdb_child # None => RdbAt(H2, me2.rdb_child.rdb)
    PROVE  ServerAt(H2, me2, setup.ttl)
<1> DEFINE me == sv[m]
<1>1. /\ IsBook(H) /\ IsBook(H2) /\ ServerAt(H, me, setup.ttl) /\ Grows(H, H2, u) /\ me.replid <= u /\ setup \in Setups
      /\ me \in ServerTypes /\ ServerOK(me)
  BY BaseTypes DEF FitsIn, Loose, Base
<1> HIDE DEF me
<1>2. CASE ~Owner(me)
  <2>1. ServerAt(H2, me, setup.ttl)
    BY <1>1, <1>2, ServerGrows
  <2> QED  BY <1>2, <2>1 DEF ServerAt, BacklogAt, Owner, me
<1>3. CASE Owner(me)
  <2>1. me.master = None /\ me.cached_master = None /\ me.backlog # None /\ me.masterhost = NoOne
    BY <1>1, <1>3 DEF Owner, ServerOK
  <2>2. BacklogAt(H2, me)
    BY <1>1, <2>1, BacklogGrows DEF ServerAt
  <2>3. BacklogAt(H2, me2)
    BY <2>2 DEF BacklogAt, me
  <2>4. MasterAt(H2[me2.replid], me2)
    BY <1>3 DEF MasterAt, Loose, me
  <2>5. RdbAt(H2, me2.dump)
    <3>1. RdbAt(H, me.dump) /\ me.dump \in Rdbs
      BY <1>1 DEF ServerAt, ServerTypes
    <3> QED  BY <1>1, <3>1, RdbGrows DEF me
  <2>6. me2.replid2 # ZeroId => Shared(H2, me2.replid2, me2.replid, me2.second_replid_offset - 1)
    <3> SUFFICES ASSUME me.replid2 # ZeroId  PROVE Shared(H2, me.replid2, me.replid, me.second_replid_offset - 1)
      BY DEF me
    <3>1. Shared(H, me.replid2, me.replid, me.second_replid_offset - 1)
      BY <1>1, <2>1 DEF ServerAt, BacklogAt
    <3>2. me.second_replid_offset - 1 \in Int
      BY <1>1 DEF ServerTypes
    <3> QED  BY <3>1, <3>2, <1>1, SharedGrows
  <2> QED  BY <2>1, <2>3, <2>4, <2>5, <2>6 DEF ServerAt, me
<1> QED  BY <1>2, <1>3

\* What is saved can be loaded, and continued from.
LEMMA LoadsOf ==
    ASSUME NEW sv, NEW cn, Base(sv, cn), NEW H, NEW u \in Nat, FitsIn(H, sv, cn, u), NEW m \in Servers, NEW H2,
           Loose(H, H2, sv, m, u), ~NoSaveInfo(sv[m]), sv[m].backlog # None
    PROVE  /\ RdbAt(H2, RdbOf(sv[m])) /\ RdbOf(sv[m]) \in Rdbs /\ sv[m].replid \in DOMAIN H2
           /\ Loads(H2[sv[m].replid], sv[m].master_repl_offset, RdbOf(sv[m]))
           /\ sv[m].master_repl_offset <= H2[sv[m].replid].hi
<1> DEFINE me == sv[m]
           rdb == RdbOf(me)
           id == me.replid
           o == me.master_repl_offset
<1>1. /\ IsBook(H) /\ IsBook(H2) /\ ServerAt(H, me, setup.ttl) /\ Grows(H, H2, u) /\ me.replid <= u /\ setup \in Setups
      /\ me \in ServerTypes /\ ServerOK(me)
  BY BaseTypes DEF FitsIn, Loose, Base
<1>2. rdb \in Rdbs /\ RdbAt(H, rdb)
  BY <1>1, RdbOfOK, RdbOfAt
<1>3. RdbAt(H2, rdb)
  BY <1>1, <1>2, RdbGrows
<1>4. id \in DOMAIN H /\ id \in DOMAIN H2 /\ Longer(H[id], H2[id])
  BY <1>1 DEF ServerAt, BacklogAt, Grows
<1>5. H[id] \in Histories /\ H2[id] \in Histories /\ o \in Nat
  BY <1>1, <1>4, BookOK DEF ServerTypes
<1>6. rdb.data = me.data
  BY DEF RdbOf
<1>7. CASE Owner(me)
  <2>1. H2[id].hi = o /\ H2[id].pos[o].data = me.data /\ H2[id].pos[o].db = -1
    BY <1>7 DEF Loose
  <2> HIDE DEF rdb, me
  <2> QED  BY <1>2, <1>3, <1>4, <1>5, <1>6, <2>1 DEF Loads, At, rdb, me
<1>8. CASE ~Owner(me)
  <2>1. me.masterhost # NoOne /\ me.master # None
    BY <1>8 DEF Owner, NoSaveInfo
  <2>2. rdb.stream_db = me.master.db
    BY <2>1 DEF RdbOf
  <2>3. At(H[id], o, me.data, me.master.db)
    BY <1>1, <2>1 DEF ServerAt
  <2> HIDE DEF rdb, me
  <2>4. At(H2[id], o, me.data, me.master.db)
    BY <1>4, <1>5, <2>3, AtLonger
  <2> QED  BY <1>2, <1>3, <1>4, <1>6, <2>2, <2>4 DEF Loads, At, rdb, me
<1> QED  BY <1>7, <1>8

\* The reply FULLRESYNC.
FullMsg(id, off) == [type |-> "FULLRESYNC", replid |-> id, offset |-> off]

\* The reply, the file and what is buffered lead to where the buffer ends.
LEMMA ToldLeads ==
    ASSUME NEW H, IsBook(H), NEW me, me.repl_state = "RECEIVE_PSYNC", NEW id \in Ids, id \in DOMAIN H, NEW off \in Nat,
           NEW rdb \in Rdbs, Loads(H[id], off, rdb), RdbAt(H, rdb), NEW buf \in Seq(Messages), Stream(H[id], off, 0, buf)
    PROVE  Leads(H, me, (<<FullMsg(id, off)>> \o <<FileMsg(rdb)>>) \o buf, id, off + Len(buf))
<1> DEFINE full == FullMsg(id, off)
           file == FileMsg(rdb)
           q == <<file>> \o buf
           w == <<full>> \o q
<1>1. full \in Messages /\ full.type = "FULLRESYNC" /\ full.replid = id /\ full.offset = off
  BY DEF FullMsg, Messages
<1>2. file \in Messages /\ file.type = "RDB" /\ file.rdb = rdb
  BY DEF FileMsg, Messages
<1> HIDE DEF full, file
<1>3. H[id] \in Histories
  BY BookOK
<1>4. /\ q \in Seq(Messages) /\ Len(q) = Len(buf) + 1 /\ Len(buf) \in Nat /\ q[1] = file
      /\ Stream(H[id], off, 0 + 1, q)
  BY <1>2, <1>3, StreamCons
<1> HIDE DEF q
<1>5. 0 + 1 = 1 /\ 1 \in Nat /\ Stream(H[id], off, 1, q)
  BY <1>4
<1>6. /\ w \in Seq(Messages) /\ Len(w) = Len(q) + 1 /\ w[1] = full /\ \A i \in 1..Len(q) : w[i + 1] = q[i]
      /\ Stream(H[id], off, 1 + 1, w)
  BY <1>1, <1>3, <1>4, <1>5, StreamCons
<1> HIDE DEF w
<1>7. w[2] = file /\ Len(w) = Len(buf) + 2 /\ Stream(H[id], off, 2, w)
  <2>1. 1 \in 1..Len(q) /\ 1 + 1 = 2
    BY <1>4
  <2> QED  BY <2>1, <1>4, <1>6
<1>8. Header(me, w, id, off, 2)
  BY <1>1, <1>2, <1>4, <1>6, <1>7 DEF Header
<1>9. HeaderAt(H, me, w, id, off, 2)
  BY <1>2, <1>7 DEF HeaderAt
<1>10. 2 \in 0..2 /\ off + Len(w) - 2 = off + Len(buf)
  BY <1>4, <1>7
<1>11. Leads(H, me, w, id, off + Len(buf))
  BY <1>7, <1>8, <1>9, <1>10 DEF Leads, Good
<1>12. (<<full>> \o <<file>>) \o buf = w
  <2>1. <<full>> \in Seq(Messages) /\ <<file>> \in Seq(Messages)
    BY <1>1, <1>2
  <2> DEFINE a == <<full>>
             b == <<file>>
  <2> HIDE DEF a, b
  <2>2. (a \o b) \o buf = a \o (b \o buf)
    BY <2>1, Joined DEF a, b
  <2> QED  BY <2>2 DEF a, b, w, q
<1> QED  BY <1>11, <1>12 DEF full, file

\* What a link is while its slave waits for a save to begin.
LEMMA WaitingLink ==
    ASSUME NEW H, NEW k \in Conns, NEW me, NEW m, LinkAt(H, k, me, m), k.replstate = "WAIT_BGSAVE_START"
    PROVE  /\ k.psync = None /\ k.buf = <<>> /\ ~k.on_ack /\ k.down = <<>> /\ me.repl_state = "RECEIVE_PSYNC"
BY DEF LinkAt, ShapeOK

\* The slave is told to expect a file, and waits for its save to end.
LEMMA ToldLink ==
    ASSUME NEW H, IsBook(H), NEW me, me.repl_state = "RECEIVE_PSYNC", NEW k2 \in Conns, k2.replstate = "WAIT_BGSAVE_END",
           k2.psync = None, ~k2.on_ack, NEW m2 \in ServerTypes, m2.rdb_child # None, m2.replid \in DOMAIN H,
           k2.down = <<FullMsg(m2.replid, k2.init)>>, Loads(H[m2.replid], k2.init, m2.rdb_child.rdb),
           RdbAt(H, m2.rdb_child.rdb), Stream(H[m2.replid], k2.init, 0, k2.buf),
           k2.init + Len(k2.buf) = m2.master_repl_offset
    PROVE  LinkAt(H, k2, me, m2)
<1> DEFINE rdb == m2.rdb_child.rdb
<1>1. rdb \in Rdbs /\ m2.replid \in Ids
  BY DEF ServerTypes, Children
<1>2. k2.init \in Nat /\ k2.buf \in Seq(Messages)
  BY PlainItems, SeqMonotonic DEF Conns
<1>3. Coming(k2, m2.rdb_child) = (<<FullMsg(m2.replid, k2.init)>> \o <<FileMsg(rdb)>>) \o k2.buf
  BY DEF Coming, Pending
<1> HIDE DEF rdb
<1>4. Loads(H[m2.replid], k2.init, rdb) /\ RdbAt(H, rdb)
  BY DEF rdb
<1>5. Leads(H, me, (<<FullMsg(m2.replid, k2.init)>> \o <<FileMsg(rdb)>>) \o k2.buf, m2.replid, k2.init + Len(k2.buf))
  BY <1>1, <1>2, <1>4, ToldLeads
<1>6. Leads(H, me, Coming(k2, m2.rdb_child), m2.replid, m2.master_repl_offset)
  BY <1>3, <1>5
<1>7. Waits(H, k2, m2)
  BY DEF Waits
<1>8. ShapeOK(k2, me)
  BY DEF ShapeOK
<1> QED  BY <1>6, <1>7, <1>8 DEF LinkAt, Follows

\* The slave is refused.
LEMMA RefusedLink ==
    ASSUME NEW H, NEW me, me.repl_state = "RECEIVE_PSYNC", NEW k2 \in Conns, k2.replstate = "CLOSED",
           k2.psync = None, k2.buf = <<>>, NEW m2, NEW first,
           k2.down = <<[type |-> "ERR"]>> \/ (k2.down = <<first, [type |-> "ERR"]>> /\ first.type = "FULLRESYNC")
    PROVE  LinkAt(H, k2, me, m2)
<1>1. ShapeOK(k2, me) /\ ~Follows(k2)
  BY DEF ShapeOK, Follows
<1> DEFINE w == k2.down
<1>2. Silent(me, w)
  <2>1. CASE w = <<[type |-> "ERR"]>>
    <3>1. Len(w) = 1 /\ w[1] = [type |-> "ERR"]
      BY <2>1
    <3> HIDE DEF w
    <3> QED  BY <3>1 DEF Silent
  <2>2. CASE w = <<first, [type |-> "ERR"]>> /\ first.type = "FULLRESYNC"
    <3>1. Len(w) = 2 /\ w[1] = first /\ w[2] = [type |-> "ERR"]
      BY <2>2
    <3> HIDE DEF w
    <3> QED  BY <3>1, <2>2 DEF Silent
  <2> QED  BY <2>1, <2>2
<1> QED  BY <1>1, <1>2 DEF LinkAt, WayOK

\* A sequence of two.
LEMMA TwoOf ==
    ASSUME NEW S, NEW p \in Seq(S), NEW b \in S, NEW q \in Seq(S), Len(p) = 1, Len(q) = 2, p[1] = q[1], q[2] = b,
           NEW r, r = Append(p, b)
    PROVE  r = q
<1>1. r \in Seq(S)
  OBVIOUS
<1>2. Len(r) = 2 /\ r[1] = q[1] /\ r[2] = q[2]
  OBVIOUS
<1>3. \A i \in 1..Len(r) : r[i] = q[i]
  <2> SUFFICES ASSUME NEW i \in 1..Len(r)  PROVE r[i] = q[i]
    OBVIOUS
  <2>1. i = 1 \/ i = 2
    BY <1>2
  <2> QED  BY <1>2, <2>1
<1> QED  BY <1>1, <1>2, <1>3, SeqEqual

\* Two elements.
LEMMA AppendTwo == ASSUME NEW a, NEW b  PROVE Append(<<a>>, b) = <<a, b>>
<1> DEFINE p == <<a>>
           q == <<a, b>>
           S == {a, b}
<1>1. p \in Seq(S) /\ Len(p) = 1 /\ p[1] = q[1] /\ q \in Seq(S) /\ Len(q) = 2 /\ q[2] = b /\ b \in S
  OBVIOUS
<1> HIDE DEF p, q, S
<1> DEFINE r == Append(p, b)
<1>2. r = Append(p, b)
  OBVIOUS
<1> HIDE DEF r
<1>3. r = q
  BY <1>1, <1>2, TwoOf
<1> QED  BY <1>3 DEF p, q, r

\* The fork of startBgsaveForReplication() succeeds.
Starts(me, ok) == ok /\ ~NoSaveInfo(me)

\* A slave that is refused, and one that waits again.
Refused(k) == [k EXCEPT !.replstate = "CLOSED", !.down = Append(@, [type |-> "ERR"])]
\* The slave waits for the start of another save.
WaitsAgain(k) == [k EXCEPT !.replstate = "WAIT_BGSAVE_START"]

\* What startBgsaveForReplication() does to the links of the slaves that wait.
LEMMA StartLinks ==
    ASSUME NEW c, NEW m, NEW me, NEW ok \in BOOLEAN, NEW t \in Servers,
           NEW k2, k2 = StartBgsave(c, m, me, ok).c[t],
           NEW told, told = SetupFullResync(c[t], me, me.master_repl_offset)
    PROVE  /\ t \notin InState(c, m, "WAIT_BGSAVE_START") => k2 = c[t]
           /\ t \in InState(c, m, "WAIT_BGSAVE_START") /\ Starts(me, ok) => k2 = told
           /\ t \in InState(c, m, "WAIT_BGSAVE_START") /\ ~Starts(me, ok) =>
                k2 = Refused(c[t]) \/ k2 = Refused(WaitsAgain(told))
<1> DEFINE waits == t \in InState(c, m, "WAIT_BGSAVE_START")
           sockets == setup.diskless /\ ~NoSaveInfo(me)
           tell == IF sockets THEN rdbSaveToSlavesSockets(c[t], me, ok)
                   ELSE IF Starts(me, ok) THEN told ELSE c[t]
<1>1. k2 = IF ~waits THEN c[t] ELSE IF Starts(me, ok) THEN tell ELSE Refused(tell)
  BY DEF StartBgsave, Starts, Refused
<1>2. Starts(me, ok) => tell = told
  BY DEF Starts, rdbSaveToSlavesSockets
<1>3. ~Starts(me, ok) => tell = c[t] \/ tell = WaitsAgain(told)
  BY DEF Starts, rdbSaveToSlavesSockets, WaitsAgain
<1> HIDE DEF waits, tell
<1> QED  BY <1>1, <1>2, <1>3 DEF waits

\* What it does to the server.
StartsFrom(r, me, ok) ==
    /\ r.masterhost = me.masterhost /\ r.replid = me.replid /\ r.replid2 = me.replid2
    /\ r.second_replid_offset = me.second_replid_offset /\ r.master_repl_offset = me.master_repl_offset
    /\ r.backlog = me.backlog /\ r.master = me.master /\ r.cached_master = me.cached_master
    /\ r.data = me.data /\ r.dump = me.dump /\ SameWay(r, me)
    /\ Starts(me, ok) => /\ r.rdb_child.rdb = RdbOf(me) /\ r.slaveseldb = -1
                         /\ r.rdb_child = [socket |-> setup.diskless, rdb |-> RdbOf(me)]
    /\ ~Starts(me, ok) => r.rdb_child = me.rdb_child /\ r.slaveseldb \in {-1, me.slaveseldb}

\* Starting a save changes only these fields of the server.
LEMMA StartServer ==
    ASSUME NEW c, NEW m, NEW me \in ServerTypes, NEW ok \in BOOLEAN, NEW r, r = StartBgsave(c, m, me, ok).me
    PROVE  StartsFrom(r, me, ok)
<1> DEFINE child == IF Starts(me, ok) THEN [socket |-> setup.diskless, rdb |-> RdbOf(me)] ELSE me.rdb_child
           db == IF Starts(me, ok) \/ (setup.diskless /\ ~NoSaveInfo(me)) THEN -1 ELSE me.slaveseldb
<1>1. r = [me EXCEPT !.rdb_child = child, !.slaveseldb = db]
  BY DEF StartBgsave, Starts
<1>2. /\ Starts(me, ok) => child = [socket |-> setup.diskless, rdb |-> RdbOf(me)] /\ child.rdb = RdbOf(me) /\ db = -1
      /\ ~Starts(me, ok) => child = me.rdb_child /\ db \in {-1, me.slaveseldb}
  OBVIOUS
<1> HIDE DEF child, db
<1>3. /\ r.masterhost = me.masterhost /\ r.replid = me.replid /\ r.replid2 = me.replid2
      /\ r.second_replid_offset = me.second_replid_offset /\ r.master_repl_offset = me.master_repl_offset
      /\ r.backlog = me.backlog /\ r.master = me.master /\ r.cached_master = me.cached_master
      /\ r.data = me.data /\ r.dump = me.dump /\ r.rdb_child = child /\ r.slaveseldb = db
      /\ r.repl_state = me.repl_state /\ r.master_replid = me.master_replid
      /\ r.master_initial_offset = me.master_initial_offset
  BY <1>1 DEF ServerTypes
<1>4. SameWay(r, me)
  BY <1>3 DEF SameWay
<1> QED  BY <1>2, <1>3, <1>4 DEF StartsFrom

\* The link of a slave that waits, when the save starts or does not.
LEMMA StartedLink ==
    ASSUME NEW sv, NEW cn, Base(sv, cn), NEW H, NEW u \in Nat, FitsIn(H, sv, cn, u), NEW m \in Servers, NEW H2,
           IsBook(H2), NEW ok \in BOOLEAN,
           Starts(sv[m], ok) => Loose(H, H2, sv, m, u),
           NEW t \in InState(cn, m, "WAIT_BGSAVE_START"), NEW me2 \in ServerTypes,
           me2 = StartBgsave(cn, m, sv[m], ok).me
    PROVE  LET k2 == StartBgsave(cn, m, sv[m], ok).c[t]
           IN  LinkAt(H2, k2, sv[t], me2) /\ k2.to = m /\ t # m
<1> DEFINE k  == cn[t]
           me == sv[m]
           o  == me.master_repl_offset
           k2 == StartBgsave(cn, m, me, ok).c[t]
           full == FullMsg(me.replid, o)
           err == [type |-> "ERR"]
<1>1. /\ t \in Servers /\ IsSlaveOf(cn, t, m) /\ k.replstate = "WAIT_BGSAVE_START" /\ k # None /\ k.to = m
  BY DEF InState, SlavesOf, IsSlaveOf
<1>2. k \in Conns /\ LinkAt(H, k, sv[t], me) /\ me \in ServerTypes /\ me.backlog # None /\ setup \in Setups /\ cn \in Links
  BY <1>1, BaseTypes DEF FitsIn, Base
<1>3. t # m
  BY <1>1 DEF FitsIn, Serving
<1>4. k.psync = None /\ k.buf = <<>> /\ ~k.on_ack /\ k.down = <<>> /\ sv[t].repl_state = "RECEIVE_PSYNC"
  BY <1>1, <1>2, WaitingLink
<1>5. o \in Nat /\ me.replid \in Ids
  BY <1>2 DEF ServerTypes
<1> HIDE DEF k, me
<1> DEFINE told == SetupFullResync(k, me, o)
<1>6. /\ told \in Conns /\ told.to = m /\ told.psync = None /\ told.buf = <<>> /\ told.replstate = "WAIT_BGSAVE_END"
      /\ ~told.on_ack /\ told.init = o /\ told.down = <<full>> /\ full.type = "FULLRESYNC"
  <2>1. told \in Conns
    BY <1>2, <1>5, SetupKept
  <2>2. told = [k EXCEPT !.replstate = "WAIT_BGSAVE_END", !.init = o, !.down = Append(@, full)]
    BY DEF SetupFullResync, FullMsg
  <2>3. full.type = "FULLRESYNC"
    BY DEF FullMsg
  <2>4. Append(<<>>, full) = <<full>>
    OBVIOUS
  <2> HIDE DEF told, full
  <2> QED  BY <1>1, <1>2, <1>4, <2>1, <2>2, <2>3, <2>4 DEF Conns, k
<1>7. k2 \in Conns
  <2>1. StartBgsave(cn, m, me, ok).c \in Links
    BY <1>2, StartKept
  <2>2. KeepsLink(k2, k) /\ NoNew(k2, k)
    BY <1>1, <1>2, StartKept DEF k
  <2>3. k2 # None
    BY <2>2, <1>1 DEF KeepsLink, k
  <2> QED  BY <1>1, <2>1, <2>3 DEF Links
<1>8. CASE Starts(me, ok)
  <2>1. k2 = told
    <3>1. told = SetupFullResync(cn[t], me, me.master_repl_offset)
      BY DEF k
    <3>2. k2 = StartBgsave(cn, m, me, ok).c[t] /\ t \in InState(cn, m, "WAIT_BGSAVE_START")
      OBVIOUS
    <3> HIDE DEF told, k2
    <3>3. cn \in Links /\ me \in ServerTypes /\ t \in Servers
      BY <1>1, <1>2
    <3> QED  BY <1>8, <3>1, <3>2, <3>3, StartLinks
  <2>2. ~NoSaveInfo(me) /\ Loose(H, H2, sv, m, u)
    BY <1>8 DEF Starts, me
  <2>3. /\ RdbAt(H2, RdbOf(me)) /\ RdbOf(me) \in Rdbs /\ me.replid \in DOMAIN H2
        /\ Loads(H2[me.replid], o, RdbOf(me)) /\ o <= H2[me.replid].hi
    BY <1>2, <2>2, LoadsOf DEF me
  <2>4. /\ me2.rdb_child = [socket |-> setup.diskless, rdb |-> RdbOf(me)] /\ me2.rdb_child.rdb = RdbOf(me)
        /\ me2.replid = me.replid /\ me2.master_repl_offset = o
    <3>1. StartsFrom(me2, me, ok)
      BY <1>2, StartServer DEF me
    <3> QED  BY <1>8, <3>1 DEF StartsFrom
  <2>5. me2.rdb_child # None
    <3>1. DOMAIN me2.rdb_child = {"socket", "rdb"} /\ DOMAIN None = {"none"}
      BY <2>4 DEF None
    <3> QED  BY <3>1
  <2> HIDE DEF told, full
  <2>6. Stream(H2[me2.replid], told.init, 0, told.buf) /\ told.init + Len(told.buf) = me2.master_repl_offset
    <3>1. H2[me.replid] \in Histories /\ Len(<<>>) = 0
      BY <2>3, BookOK
    <3> QED  BY <3>1, <1>5, <1>6, <2>3, <2>4, StreamNone
  <2>7. /\ told.down = <<FullMsg(me2.replid, told.init)>> /\ Loads(H2[me2.replid], told.init, me2.rdb_child.rdb)
        /\ RdbAt(H2, me2.rdb_child.rdb) /\ me2.replid \in DOMAIN H2
    BY <1>6, <2>3, <2>4 DEF full
  <2>8. LinkAt(H2, told, sv[t], me2)
    BY <1>4, <1>6, <2>5, <2>6, <2>7, ToldLink
  <2> QED  BY <1>3, <1>6, <2>1, <2>8 DEF me
<1>9. CASE ~Starts(me, ok)
  <2> HIDE DEF told, full
  <2>1. k2 = Refused(k) \/ k2 = Refused(WaitsAgain(told))
    <3>1. told = SetupFullResync(cn[t], me, me.master_repl_offset)
      BY DEF k, told
    <3>2. k2 = StartBgsave(cn, m, me, ok).c[t] /\ t \in InState(cn, m, "WAIT_BGSAVE_START")
      OBVIOUS
    <3> HIDE DEF k2
    <3>3. cn \in Links /\ me \in ServerTypes /\ t \in Servers
      BY <1>1, <1>2
    <3> QED  BY <1>9, <3>1, <3>2, <3>3, StartLinks DEF k
  <2>2. CASE k2 = Refused(k)
    <3>1. Append(<<>>, err) = <<err>>
      OBVIOUS
    <3> HIDE DEF k2
    <3>2. k2.to = k.to /\ k2.replstate = "CLOSED" /\ k2.psync = None /\ k2.buf = <<>> /\ k2.down = <<err>>
      <4>1. k2 = [k EXCEPT !.replstate = "CLOSED", !.down = Append(@, err)]
        BY <2>2 DEF Refused
      <4> HIDE DEF err
      <4> QED  BY <1>2, <1>4, <4>1, <3>1 DEF Conns
    <3>3. LinkAt(H2, k2, sv[t], me2)
      BY <1>4, <1>7, <3>2, RefusedLink
    <3> QED  BY <1>1, <1>3, <3>2, <3>3 DEF k, k2, me
  <2>3. CASE k2 = Refused(WaitsAgain(told))
    <3>1. Append(<<full>>, err) = <<full, err>>
      BY AppendTwo
    <3> HIDE DEF k2
    <3>2. k2.to = told.to /\ k2.replstate = "CLOSED" /\ k2.psync = None /\ k2.buf = <<>> /\ k2.down = <<full, err>>
      <4>1. k2 = [[told EXCEPT !.replstate = "WAIT_BGSAVE_START"] EXCEPT !.replstate = "CLOSED", !.down = Append(@, err)]
        BY <2>3 DEF Refused, WaitsAgain
      <4> HIDE DEF err
      <4> QED  BY <1>6, <4>1, <3>1 DEF Conns
    <3>3. LinkAt(H2, k2, sv[t], me2)
      BY <1>4, <1>6, <1>7, <3>2, RefusedLink
    <3> QED  BY <1>3, <1>6, <3>2, <3>3 DEF k2, me
  <2> QED  BY <2>1, <2>2, <2>3
<1> QED  BY <1>8, <1>9

\* The histories after startBgsaveForReplication(): they grow, and the server fits.
LEMMA StartHistories ==
    ASSUME NEW sv, NEW cn, Base(sv, cn), NEW H, NEW u \in Nat, FitsIn(H, sv, cn, u), NEW m \in Servers,
           sv[m].rdb_child = None, NEW ok \in BOOLEAN, NEW me2 \in ServerTypes, me2 = StartBgsave(cn, m, sv[m], ok).me
    PROVE  \E H2 : /\ IsBook(H2) /\ Grows(H, H2, u) /\ DOMAIN H2 \subseteq 1..u
                   /\ \A t \in Servers \ {m} : Owner(sv[t]) => H2[sv[t].replid] = H[sv[t].replid]
                   /\ ServerAt(H2, me2, setup.ttl) /\ (Starts(sv[m], ok) => Loose(H, H2, sv, m, u))
<1> DEFINE me == sv[m]
<1>1. me \in ServerTypes /\ ServerOK(me) /\ IsBook(H) /\ DOMAIN H \subseteq 1..u /\ ServerAt(H, me, setup.ttl)
  BY BaseTypes DEF FitsIn
<1>2. /\ me2.masterhost = me.masterhost /\ me2.replid = me.replid /\ me2.replid2 = me.replid2
      /\ me2.second_replid_offset = me.second_replid_offset /\ me2.master_repl_offset = me.master_repl_offset
      /\ me2.backlog = me.backlog /\ me2.master = me.master /\ me2.cached_master = me.cached_master
      /\ me2.data = me.data /\ me2.dump = me.dump
      /\ Starts(me, ok) => me2.rdb_child.rdb = RdbOf(me) /\ me2.slaveseldb = -1
      /\ ~Starts(me, ok) => me2.rdb_child = me.rdb_child /\ me2.slaveseldb \in {-1, me.slaveseldb}
  <2>1. StartsFrom(me2, me, ok)
    BY <1>1, StartServer
  <2> HIDE DEF me
  <2> QED  BY <2>1 DEF StartsFrom
<1>3. CASE me2.slaveseldb = -1
  <2>1. PICK H2 : Loose(H, H2, sv, m, u)
    BY Loosened
  <2>2. /\ IsBook(H2) /\ Grows(H, H2, u) /\ DOMAIN H2 \subseteq 1..u
        /\ \A t \in Servers \ {m} : Owner(sv[t]) => H2[sv[t].replid] = H[sv[t].replid]
    BY <2>1 DEF Loose
  <2>3. me2.rdb_child # None => RdbAt(H2, me2.rdb_child.rdb)
    <3> SUFFICES ASSUME me2.rdb_child # None  PROVE RdbAt(H2, me2.rdb_child.rdb)
      OBVIOUS
    <3>1. me2.rdb_child.rdb = RdbOf(me)
      BY <1>2
    <3>2. RdbAt(H, RdbOf(me))
      BY <1>1, RdbOfAt
    <3>3. me2.rdb_child.rdb \in Rdbs
      BY DEF ServerTypes, Children
    <3> HIDE DEF me
    <3> QED  BY <1>1, <2>2, <3>1, <3>2, <3>3, RdbGrows
  <2>4. ServerAt(H2, me2, setup.ttl)
    BY <1>2, <1>3, <2>1, <2>3, LoosenedAt
  <2> QED  BY <2>1, <2>2, <2>4
<1>4. CASE me2.slaveseldb # -1
  <2>1. ~Starts(me, ok) /\ SameServer(me2, me)
    BY <1>2, <1>4 DEF SameServer
  <2>2. ServerAt(H, me2, setup.ttl)
    BY <1>1, <2>1, ServerSame
  <2>3. Grows(H, H, u)
    BY <1>1, GrowsItself
  <2> QED  BY <1>1, <2>1, <2>2, <2>3
<1> QED  BY <1>3, <1>4

\* startBgsaveForReplication().
LEMMA StartFits ==
    ASSUME NEW sv, NEW cn, Base(sv, cn), NEW H, NEW u \in Nat, FitsIn(H, sv, cn, u), NEW m \in Servers,
           sv[m].rdb_child = None, NEW ok \in BOOLEAN, NEW me2, me2 = StartBgsave(cn, m, sv[m], ok).me,
           NEW cn2, cn2 = StartBgsave(cn, m, sv[m], ok).c
    PROVE  \E H2 : FitsIn(H2, [sv EXCEPT ![m] = me2], cn2, u)
<1> DEFINE me == sv[m]
           sv2 == [sv EXCEPT ![m] = me2]
           waiting == InState(cn, m, "WAIT_BGSAVE_START")
<1>1. me \in ServerTypes /\ ServerOK(me) /\ IsBook(H) /\ DOMAIN H \subseteq 1..u /\ me.replid <= u /\ setup \in Setups
      /\ cn \in Links
  BY BaseTypes DEF FitsIn, Base
<1>2. me2 \in ServerTypes
  BY <1>1, StartKept
<1>3. /\ me2.masterhost = me.masterhost /\ me2.replid = me.replid /\ me2.master_repl_offset = me.master_repl_offset
      /\ me2.backlog = me.backlog /\ SameWay(me2, me)
  <2>1. StartsFrom(me2, me, ok)
    BY <1>1, StartServer
  <2> HIDE DEF me
  <2> QED  BY <2>1 DEF StartsFrom
<1>4. PICK H2 : /\ IsBook(H2) /\ Grows(H, H2, u) /\ DOMAIN H2 \subseteq 1..u
                /\ \A t \in Servers \ {m} : Owner(sv[t]) => H2[sv[t].replid] = H[sv[t].replid]
                /\ ServerAt(H2, me2, setup.ttl) /\ (Starts(sv[m], ok) => Loose(H, H2, sv, m, u))
  BY <1>2, StartHistories
<1>5. sv2[m] = me2 /\ \A t \in Servers : t # m => sv2[t] = sv[t]
  BY DEF Base
<1>6. ASSUME NEW t \in Servers, t \in waiting
      PROVE  LinkAt(H2, cn2[t], sv2[t], sv2[cn2[t].to]) /\ (Serving(cn2[t]) => cn2[t].to # t)
  <2>1. LinkAt(H2, cn2[t], sv[t], me2) /\ cn2[t].to = m /\ t # m
    BY <1>2, <1>4, <1>6, StartedLink
  <2> HIDE DEF sv2
  <2> QED  BY <1>5, <2>1
<1>7. ASSUME NEW t \in Servers, t \notin waiting
      PROVE  cn2[t] = cn[t]
  BY <1>7, StartLinks
<1>8. ASSUME NEW t \in Servers, t \notin waiting, cn[t] # None
      PROVE  LinkAt(H2, cn[t], sv2[t], sv2[cn[t].to])
  <2>1. cn[t].to = m => cn[t].replstate # "WAIT_BGSAVE_END"
    BY <1>8, NoneWaits
  <2>2. /\ t = m => SameWay(me2, sv[m])
        /\ cn[t].to = m /\ Follows(cn[t]) =>
             me2.replid = sv[m].replid /\ me2.master_repl_offset = sv[m].master_repl_offset
        /\ cn[t].to = m /\ cn[t].replstate = "WAIT_BGSAVE_END" => me2.rdb_child = sv[m].rdb_child
    BY <1>3, <2>1
  <2> QED  BY <1>2, <1>4, <1>8, <2>2, LinkElsewhere
<1> HIDE DEF waiting
<1>9. \A t \in Servers : cn2[t] # None => LinkAt(H2, cn2[t], sv2[t], sv2[cn2[t].to])
  BY <1>6, <1>7, <1>8
<1>10. \A t \in Servers : Serving(cn2[t]) => cn2[t].to # t
  <2> SUFFICES ASSUME NEW t \in Servers, Serving(cn2[t])  PROVE cn2[t].to # t
    OBVIOUS
  <2>1. CASE t \in waiting
    BY <2>1, <1>6
  <2>2. CASE t \notin waiting
    BY <2>2, <1>7 DEF FitsIn
  <2> QED  BY <2>1, <2>2
<1>11. me2.replid <= u /\ (Owner(me2) => (Owner(sv[m]) /\ me2.replid = sv[m].replid) \/ me2.replid > u)
  BY <1>1, <1>3 DEF Owner
<1>12. u <= u
  OBVIOUS
<1>13. FitsIn(H2, sv2, cn2, u)
  BY <1>2, <1>4, <1>9, <1>10, <1>11, <1>12, FitsStep
<1> QED  BY <1>13

\* replicationCron() starts a save for the slaves that wait.
LEMMA CronBgsaveFits ==
    ASSUME IInv, IInv', setup' = setup, NEW H, FitsIn(H, srv, conn, used.ids), NEW m \in Servers, NEW ok \in BOOLEAN,
           CronBgsave(m, ok)
    PROVE  \E H2 : FitsIn(H2, srv', conn', used'.ids)
<1> DEFINE r == StartBgsave(conn, m, srv[m], ok)
<1>1. Base(srv, conn) /\ used.ids \in Nat
  BY BaseAll
<1>2. srv[m].rdb_child = None /\ conn' = r.c /\ srv' = [srv EXCEPT ![m] = r.me] /\ used'.ids = used.ids
  <2>1. used' = Failed(used, ok) /\ srv[m].rdb_child = None /\ conn' = r.c /\ srv' = [srv EXCEPT ![m] = r.me]
    BY DEF CronBgsave
  <2>2. Failed(used, ok).ids = used.ids
    BY DEF Failed, IInv, Useds
  <2> QED  BY <2>1, <2>2
<1>3. \E H2 : FitsIn(H2, [srv EXCEPT ![m] = r.me], r.c, used.ids)
  BY <1>1, <1>2, StartFits
<1> QED  BY <1>2, <1>3

-----------------------------------------------------------------------------
(* The end of a save. *)

\* A slave that is served is sent the file, or has it and goes online.
ServedAs(k2, k, child) ==
    \/ k2.replstate = "SEND_BULK" /\ k2.rdb = child.rdb /\ k2.down = k.down /\ k2.on_ack = k.on_ack
    \/ k2.replstate = "ONLINE" /\ k2.on_ack = TRUE /\ k2.down = Append(k.down, FileMsg(child.rdb))

\* A slave that is served gets what it was waiting for.
LEMMA ServedLink ==
    ASSUME NEW H, NEW k \in Conns, NEW k2 \in Conns, NEW me, NEW m \in ServerTypes, NEW m2, LinkAt(H, k, me, m),
           k.replstate = "WAIT_BGSAVE_END", NEW child, child = m.rdb_child,
           m2.replid = m.replid, m2.master_repl_offset = m.master_repl_offset, k2.psync = k.psync, k2.buf = k.buf,
           ServedAs(k2, k, child)
    PROVE  LinkAt(H, k2, me, m2)
<1> DEFINE f == FileMsg(child.rdb)
<1>1. /\ Leads(H, me, Coming(k, child), m.replid, m.master_repl_offset) /\ ShapeOK(k, me) /\ child # None
  BY DEF LinkAt, Follows, Waits
<1>2. k.psync = None /\ ~k.on_ack /\ Follows(k2) /\ k2.replstate # "WAIT_BGSAVE_END"
  BY <1>1 DEF ShapeOK, Follows, Conns, ServedAs
<1>3. f \in Messages /\ k.down \in Seq(Messages) /\ k.buf \in Seq(Messages)
  <2>1. child \in Children
    BY <1>1 DEF ServerTypes
  <2>2. child.rdb \in Rdbs
    BY <2>1 DEF Children
  <2>3. f \in Messages
    BY <2>2 DEF FileMsg, Messages
  <2> QED  BY <2>3, LinkTypes
<1>4. Coming(k2, m2.rdb_child) = Coming(k, child)
  <2>1. Coming(k, child) = (k.down \o <<f>>) \o k.buf
    BY DEF Coming, Pending
  <2>2. CASE k2.replstate = "SEND_BULK"
    <3>1. k2.rdb = child.rdb /\ k2.down = k.down
      BY <2>2 DEF ServedAs
    <3>2. Coming(k2, m2.rdb_child) = (k2.down \o <<FileMsg(k2.rdb)>>) \o k2.buf
      BY <2>2 DEF Coming, Pending
    <3> QED  BY <2>1, <3>1, <3>2
  <2>3. CASE k2.replstate # "SEND_BULK"
    <3>1. k2.replstate = "ONLINE" /\ k2.down = Append(k.down, f)
      BY <2>3 DEF ServedAs
    <3>2. Coming(k2, m2.rdb_child) = (k2.down \o <<>>) \o k2.buf
      BY <3>1 DEF Coming, Pending
    <3> HIDE DEF f
    <3>3. Append(k.down, f) = k.down \o <<f>> /\ Append(k.down, f) \in Seq(Messages)
      BY <1>3, AppendIsConcat, AppendProperties
    <3>4. k2.down \o <<>> = k2.down
      BY <3>1, <3>3, ConcatEmptySeq
    <3> QED  BY <2>1, <3>1, <3>2, <3>3, <3>4
  <2> QED  BY <2>2, <2>3
<1>5. ShapeOK(k2, me)
  BY <1>2 DEF ShapeOK, ServedAs
<1> HIDE DEF f
<1> QED  BY <1>1, <1>2, <1>4, <1>5 DEF LinkAt

\* The server when a save has ended.
EndedMe(m, ok) ==
    LET child == srv[m].rdb_child
    IN  [srv[m] EXCEPT !.rdb_child = None, !.dump = IF ok /\ ~child.socket THEN child.rdb ELSE @]
\* The links when a save has ended.
EndedLinks(m, served) ==
    LET child == srv[m].rdb_child
        ended == InState(conn, m, "WAIT_BGSAVE_END")
        sent  == IF child.socket THEN backgroundSaveDoneHandlerSocket(conn, ended, served, child.rdb)
                 ELSE FreeSlaves(conn, ended \ served)
    IN  [s \in Servers |-> IF s \in served THEN updateSlavesWaitingBgsave(sent[s], child) ELSE sent[s]]

\* The end of a save, and the start of the save that may follow it.
LEMMA EndedSteps ==
    ASSUME NEW m \in Servers, NEW ok \in BOOLEAN, BgsaveDone(m, ok)
    PROVE  \E served \in SUBSET InState(conn, m, "WAIT_BGSAVE_END") :
             /\ used' = Failed(used, served = InState(conn, m, "WAIT_BGSAVE_END") /\ ok)
             /\ \/ conn' = EndedLinks(m, served) /\ srv' = [srv EXCEPT ![m] = EndedMe(m, ok)]
                \/ /\ conn' = StartBgsave(EndedLinks(m, served), m, EndedMe(m, ok), TRUE).c
                   /\ srv' = [srv EXCEPT ![m] = StartBgsave(EndedLinks(m, served), m, EndedMe(m, ok), TRUE).me]
BY DEF BgsaveDone, EndedLinks, EndedMe

\* What becomes of each link.
EndsAs(k2, k, t, served, ended, child) ==
    /\ t \in served /\ child.socket =>
         k2 = [k EXCEPT !.down = Append(@, FileMsg(child.rdb)), !.replstate = "ONLINE", !.on_ack = TRUE]
    /\ t \in served /\ ~child.socket => k2 = [k EXCEPT !.replstate = "SEND_BULK", !.rdb = child.rdb]
    /\ t \notin served /\ t \in ended => k2 = [k EXCEPT !.replstate = "CLOSED", !.buf = <<>>]
    /\ t \notin ended => k2 = k

\* The link of a slave when a save has ended.
LEMMA EndedLink ==
    ASSUME NEW m \in Servers, NEW served \in SUBSET InState(conn, m, "WAIT_BGSAVE_END"), NEW t \in Servers,
           conn[t] \in Conns \cup {None}, srv[m].rdb_child.socket \in BOOLEAN
    PROVE  EndsAs(EndedLinks(m, served)[t], conn[t], t, served, InState(conn, m, "WAIT_BGSAVE_END"), srv[m].rdb_child)
<1> DEFINE k == conn[t]
           k2 == EndedLinks(m, served)[t]
           child == srv[m].rdb_child
<1> DEFINE ended == InState(conn, m, "WAIT_BGSAVE_END")
           sent  == IF child.socket THEN backgroundSaveDoneHandlerSocket(conn, ended, served, child.rdb)
                    ELSE FreeSlaves(conn, ended \ served)
<1>0. k \in Conns \cup {None} /\ child.socket \in BOOLEAN
  OBVIOUS
<1>1. k2 = IF t \in served THEN updateSlavesWaitingBgsave(sent[t], child) ELSE sent[t]
  BY DEF EndedLinks
<1>2. /\ child.socket => sent[t] = IF t \in served THEN [k EXCEPT !.down = Append(@, FileMsg(child.rdb))]
                                   ELSE IF t \in ended THEN [k EXCEPT !.replstate = "CLOSED", !.buf = <<>>] ELSE k
      /\ ~child.socket => sent[t] = IF t \in ended \ served THEN [k EXCEPT !.replstate = "CLOSED", !.buf = <<>>] ELSE k
  BY DEF backgroundSaveDoneHandlerSocket, FreeSlaves, FileMsg
<1> HIDE DEF sent, k, k2, child
<1>3. t \in served => t \in ended
  OBVIOUS
<1> HIDE DEF ended
<1> SUFFICES EndsAs(k2, k, t, served, ended, child)
  BY DEF k2, k, ended, child
<1>4. CASE t \in served
  <2>1. k2 = updateSlavesWaitingBgsave(sent[t], child)
    BY <1>1, <1>4
  <2>2. CASE child.socket
    <3>1. sent[t] = [k EXCEPT !.down = Append(@, FileMsg(child.rdb))]
      BY <1>2, <1>4, <2>2
    <3>2. k2 = [sent[t] EXCEPT !.replstate = "ONLINE", !.on_ack = TRUE]
      BY <2>1, <2>2 DEF updateSlavesWaitingBgsave
    <3> QED  BY <1>0, <1>3, <1>4, <2>2, <3>1, <3>2 DEF EndsAs
  <2>3. CASE ~child.socket
    <3>1. sent[t] = k
      BY <1>2, <1>4, <2>3
    <3>2. k2 = [sent[t] EXCEPT !.replstate = "SEND_BULK", !.rdb = child.rdb]
      BY <2>1, <2>3 DEF updateSlavesWaitingBgsave
    <3> QED  BY <1>0, <1>3, <1>4, <2>3, <3>1, <3>2 DEF EndsAs
  <2> QED  BY <2>2, <2>3
<1>5. CASE t \notin served
  <2>1. k2 = sent[t]
    BY <1>1, <1>5
  <2>2. CASE t \in ended
    BY <1>0, <1>2, <1>5, <2>1, <2>2 DEF EndsAs
  <2>3. CASE t \notin ended
    BY <1>0, <1>2, <1>5, <2>1, <2>3 DEF EndsAs
  <2> QED  BY <2>2, <2>3
<1> QED  BY <1>4, <1>5

\* The server when a save ends.
LEMMA EndedServer ==
    ASSUME IInv, NEW H, FitsIn(H, srv, conn, used.ids), NEW m \in Servers, NEW ok \in BOOLEAN,
           srv[m].rdb_child # None, NEW me, me = EndedMe(m, ok)
    PROVE  /\ me \in ServerTypes /\ ServerOK(me) /\ ServerAt(H, me, setup.ttl) /\ SameWay(me, srv[m])
           /\ me.masterhost = srv[m].masterhost /\ me.backlog = srv[m].backlog /\ me.rdb_child = None
           /\ me.replid = srv[m].replid /\ me.master_repl_offset = srv[m].master_repl_offset
<1> DEFINE old   == srv[m]
           child == old.rdb_child
           dump  == IF ok /\ ~child.socket THEN child.rdb ELSE old.dump
<1>1. old \in ServerTypes /\ ServerOK(old) /\ ServerAt(H, old, setup.ttl)
  BY DEF IInv, FitsIn
<1>2. child \in Children
  BY <1>1 DEF ServerTypes
<1>3. dump \in Rdbs /\ RdbAt(H, dump)
  <2>1. child.rdb \in Rdbs /\ old.dump \in Rdbs
    BY <1>1, <1>2 DEF Children, ServerTypes
  <2>2. RdbAt(H, child.rdb) /\ RdbAt(H, old.dump)
    BY <1>1 DEF ServerAt
  <2> QED  BY <2>1, <2>2
<1>4. me = [old EXCEPT !.rdb_child = None, !.dump = dump]
  BY DEF EndedMe
<1> HIDE DEF dump, old
<1>5. /\ me \in ServerTypes /\ me.masterhost = old.masterhost /\ me.replid = old.replid /\ me.replid2 = old.replid2
      /\ me.second_replid_offset = old.second_replid_offset /\ me.master_repl_offset = old.master_repl_offset
      /\ me.backlog = old.backlog /\ me.slaveseldb = old.slaveseldb /\ me.master = old.master
      /\ me.cached_master = old.cached_master /\ me.data = old.data /\ me.rdb_child = None /\ me.dump = dump
      /\ me.repl_state = old.repl_state /\ me.master_replid = old.master_replid
      /\ me.master_initial_offset = old.master_initial_offset
  BY <1>1, <1>3, <1>4 DEF ServerTypes
<1>6. SameWay(me, old)
  BY <1>5 DEF SameWay
<1>7. ServerAt(H, me, setup.ttl)
  BY <1>1, <1>3, <1>5 DEF ServerAt, BacklogAt, MasterAt, Owner
<1>8. ServerOK(me)
  <2>1. Same(me, old)
    BY <1>5 DEF Same
  <2> QED  BY <1>1, <1>5, <2>1, SameOK
<1> QED  BY <1>5, <1>6, <1>7, <1>8 DEF old

\* The links when a save ends.
LEMMA EndedFits ==
    ASSUME IInv, NEW H, FitsIn(H, srv, conn, used.ids), NEW m \in Servers, NEW ok \in BOOLEAN, srv[m].rdb_child # None,
           NEW served \in SUBSET InState(conn, m, "WAIT_BGSAVE_END"),
           NEW me, me = EndedMe(m, ok), NEW c, c = EndedLinks(m, served)
    PROVE  Base([srv EXCEPT ![m] = me], c) /\ FitsIn(H, [srv EXCEPT ![m] = me], c, used.ids)
<1> DEFINE sv == [srv EXCEPT ![m] = me]
           ended == InState(conn, m, "WAIT_BGSAVE_END")
           child == srv[m].rdb_child
<1>1. Base(srv, conn) /\ IsBook(H) /\ DOMAIN H \subseteq 1..used.ids /\ used.ids \in Nat /\ srv[m].replid <= used.ids
  BY DEF FitsIn, Base, IInv, SlavesHaveBacklog, Useds
<1>2. /\ me \in ServerTypes /\ ServerOK(me) /\ ServerAt(H, me, setup.ttl) /\ SameWay(me, srv[m])
      /\ me.masterhost = srv[m].masterhost /\ me.backlog = srv[m].backlog /\ me.rdb_child = None
      /\ me.replid = srv[m].replid /\ me.master_repl_offset = srv[m].master_repl_offset
  BY EndedServer
<1>3. sv[m] = me /\ (\A t \in Servers : t # m => sv[t] = srv[t]) /\ srv[m] \in ServerTypes /\ child \in Children
      /\ setup \in Setups /\ conn \in Links /\ sv \in [Servers -> ServerTypes]
  BY <1>1, <1>2 DEF Base, ServerTypes
<1>4. child.socket \in BOOLEAN /\ child.rdb \in Rdbs
  BY <1>3 DEF Children
<1>5. c = [t \in Servers |-> c[t]]
  BY DEF EndedLinks
<1>6. ASSUME NEW t \in Servers  PROVE EndsAs(c[t], conn[t], t, served, ended, child)
  <2>1. conn[t] \in Conns \cup {None}
    BY <1>3 DEF Links
  <2> QED  BY <1>4, <2>1, EndedLink
<1>7. ASSUME NEW t \in ended
      PROVE  /\ t \in Servers /\ t # m /\ conn[t] \in Conns /\ conn[t].to = m /\ conn[t].replstate = "WAIT_BGSAVE_END"
             /\ LinkAt(H, conn[t], srv[t], srv[m]) /\ conn[t].psync = None /\ IsSlaveOf(conn, t, m)
  <2>1. t \in Servers /\ conn[t] # None /\ conn[t].to = m /\ conn[t].replstate = "WAIT_BGSAVE_END" /\ Serving(conn[t])
        /\ IsSlaveOf(conn, t, m)
    BY DEF InState, SlavesOf, IsSlaveOf, Serving
  <2>2. conn[t] \in Conns /\ LinkAt(H, conn[t], srv[t], srv[m]) /\ t # m
    BY <1>3, <2>1 DEF FitsIn, Links
  <2>3. conn[t].psync = None
    BY <2>1, <2>2 DEF LinkAt, ShapeOK
  <2> QED  BY <2>1, <2>2, <2>3
<1>8. ASSUME NEW t \in served
      PROVE  LinkAt(H, c[t], srv[t], me) /\ c[t].to = m /\ c[t] \in Conns
  <2>1. t \in ended /\ t \in Servers
    BY <1>7
  <2>2. FileMsg(child.rdb) \in Messages
    BY <1>4 DEF FileMsg, Messages
  <2>3. Append(conn[t].down, FileMsg(child.rdb)) \in Seq(Messages)
    BY <1>7, <2>1, <2>2, AppendProperties, Zenon DEF Conns
  <2> DEFINE k == conn[t]
             k2 == c[t]
             d == Append(k.down, FileMsg(child.rdb))
  <2>4. /\ child.socket => k2 = [k EXCEPT !.down = d, !.replstate = "ONLINE", !.on_ack = TRUE]
        /\ ~child.socket => k2 = [k EXCEPT !.replstate = "SEND_BULK", !.rdb = child.rdb]
    BY <1>6, <2>1, Zenon DEF EndsAs
  <2>5. k \in Conns /\ k.to = m /\ k.replstate = "WAIT_BGSAVE_END" /\ LinkAt(H, k, srv[t], srv[m]) /\ d \in Seq(Messages)
    BY <1>7, <2>1, <2>3
  <2>6. "ONLINE" \in SlaveStates /\ "SEND_BULK" \in SlaveStates
    BY DEF SlaveStates
  <2>7. child = srv[m].rdb_child
    OBVIOUS
  <2>8. d = Append(k.down, FileMsg(child.rdb))
    OBVIOUS
  <2> HIDE DEF k, k2, d, child
  <2>9. /\ k2 \in Conns /\ k2.to = m /\ k2.psync = k.psync /\ k2.buf = k.buf
        /\ \/ k2.replstate = "SEND_BULK" /\ k2.rdb = child.rdb /\ k2.down = k.down /\ k2.on_ack = k.on_ack
           \/ k2.replstate = "ONLINE" /\ k2.on_ack = TRUE /\ k2.down = d
    <3>1. CASE child.socket
      BY <2>4, <2>5, <2>6, <3>1 DEF Conns
    <3>2. CASE ~child.socket
      BY <1>4, <2>4, <2>5, <2>6, <3>2 DEF Conns
    <3> QED  BY <3>1, <3>2
  <2>10. ServedAs(k2, k, child)
    BY <2>8, <2>9 DEF ServedAs
  <2>11. LinkAt(H, k2, srv[t], me)
    BY <1>2, <1>3, <2>5, <2>7, <2>9, <2>10, ServedLink
  <2> QED  BY <2>9, <2>11 DEF k2
<1>9. ASSUME NEW t \in ended, t \notin served
      PROVE  LinkAt(H, c[t], srv[t], me) /\ c[t].to = m /\ c[t] \in Conns
  <2> DEFINE k == conn[t]
             k2 == c[t]
  <2>1. k2 = [k EXCEPT !.replstate = "CLOSED", !.buf = <<>>] /\ k \in Conns /\ k.to = m /\ k.psync = None
        /\ LinkAt(H, k, srv[t], srv[m])
    BY <1>6, <1>7, <1>9, Zenon DEF EndsAs
  <2>2. "CLOSED" \in SlaveStates /\ <<>> \in Seq(Items)
    BY EmptySeq DEF SlaveStates
  <2> HIDE DEF k, k2
  <2>3. k2 \in Conns /\ k2.replstate = "CLOSED" /\ k2.buf = <<>> /\ k2.psync = None /\ k2.down = k.down /\ k2.to = m
    BY <2>1, <2>2 DEF Conns
  <2>4. LinkAt(H, k2, srv[t], me)
    BY <1>1, <1>3, <2>1, <2>3, LinkClosed
  <2> QED  BY <2>3, <2>4, Zenon DEF k2
<1>10. ASSUME NEW t \in Servers, t \notin ended, conn[t] # None
       PROVE  LinkAt(H, conn[t], sv[t], sv[conn[t].to])
  <2>1. ~(conn[t].to = m /\ conn[t].replstate = "WAIT_BGSAVE_END")
    BY <1>10 DEF InState, SlavesOf, IsSlaveOf
  <2>2. Grows(H, H, used.ids)
    BY <1>1, GrowsItself
  <2> QED  BY <1>1, <1>2, <1>10, <2>1, <2>2, LinkElsewhere
<1> HIDE DEF sv, ended
<1>11. \A t \in Servers : c[t] # None => LinkAt(H, c[t], sv[t], sv[c[t].to])
  <2> SUFFICES ASSUME NEW t \in Servers, c[t] # None  PROVE LinkAt(H, c[t], sv[t], sv[c[t].to])
    OBVIOUS
  <2>1. CASE t \in ended
    <3>1. LinkAt(H, c[t], srv[t], me) /\ c[t].to = m /\ t # m
      BY <2>1, <1>7, <1>8, <1>9, Zenon
    <3> QED  BY <1>3, <3>1
  <2>2. CASE t \notin ended
    BY <2>2, <1>6, <1>10, Zenon DEF EndsAs
  <2> QED  BY <2>1, <2>2
<1>12. \A t \in Servers : /\ c[t] \in Conns \cup {None}
                          /\ Serving(c[t]) => Serving(conn[t]) /\ c[t].to = conn[t].to
  <2> SUFFICES ASSUME NEW t \in Servers  PROVE /\ c[t] \in Conns \cup {None}
                                               /\ Serving(c[t]) => Serving(conn[t]) /\ c[t].to = conn[t].to
    OBVIOUS
  <2>1. CASE t \in ended
    <3>1. c[t].to = m /\ c[t] \in Conns
      BY <2>1, <1>8, <1>9
    <3>2. conn[t].to = m /\ Serving(conn[t])
      BY <2>1, <1>7, Zenon DEF IsSlaveOf, Serving
    <3> QED  BY <3>1, <3>2
  <2>2. CASE t \notin ended
    BY <2>2, <1>3, <1>6, Zenon DEF Links, EndsAs
  <2> QED  BY <2>1, <2>2
<1>13. \A t \in Servers : Serving(c[t]) => c[t].to # t
  BY <1>12 DEF FitsIn
<1>14. Grows(H, H, used.ids) /\ used.ids <= used.ids /\ me.replid <= used.ids
       /\ (Owner(me) => (Owner(srv[m]) /\ me.replid = srv[m].replid) \/ me.replid > used.ids)
       /\ \A t \in Servers \ {m} : Owner(srv[t]) => H[srv[t].replid] = H[srv[t].replid]
  BY <1>1, <1>2, GrowsItself DEF Owner
<1>15. FitsIn(H, sv, c, used.ids)
  BY <1>1, <1>2, <1>11, <1>13, <1>14, FitsStep DEF sv
<1>16. Base(sv, c)
  <2>1. c \in Links
    BY <1>5, <1>12 DEF Links
  <2>2. \A t \in Servers : ServerOK(sv[t])
    BY <1>1, <1>2, <1>3 DEF Base
  <2>3. \A t, x \in Servers : IsSlaveOf(c, t, x) => sv[x].backlog # None
    <3> SUFFICES ASSUME NEW t \in Servers, NEW x \in Servers, IsSlaveOf(c, t, x)  PROVE sv[x].backlog # None
      OBVIOUS
    <3>1. IsSlaveOf(conn, t, x)
      BY <1>12 DEF IsSlaveOf, Serving
    <3>2. srv[x].backlog # None
      BY <1>1, <3>1 DEF Base
    <3> QED  BY <1>2, <1>3, <3>2
  <2> QED  BY <1>3, <2>1, <2>2, <2>3 DEF Base
<1> QED  BY <1>15, <1>16 DEF sv

\* BgsaveDone() keeps the histories.
LEMMA BgsaveDoneFits ==
    ASSUME IInv, IInv', setup' = setup, NEW H, FitsIn(H, srv, conn, used.ids), NEW m \in Servers, NEW ok \in BOOLEAN,
           BgsaveDone(m, ok)
    PROVE  \E H2 : FitsIn(H2, srv', conn', used'.ids)
<1> DEFINE me == EndedMe(m, ok)
<1>1. PICK served \in SUBSET InState(conn, m, "WAIT_BGSAVE_END") :
             /\ used' = Failed(used, served = InState(conn, m, "WAIT_BGSAVE_END") /\ ok)
             /\ \/ conn' = EndedLinks(m, served) /\ srv' = [srv EXCEPT ![m] = me]
                \/ /\ conn' = StartBgsave(EndedLinks(m, served), m, me, TRUE).c
                   /\ srv' = [srv EXCEPT ![m] = StartBgsave(EndedLinks(m, served), m, me, TRUE).me]
  BY EndedSteps
<1> DEFINE c == EndedLinks(m, served)
           sv == [srv EXCEPT ![m] = me]
<1>2. used'.ids = used.ids /\ used.ids \in Nat
  <2>1. \A b : Failed(used, b).ids = used.ids
    BY DEF Failed, IInv, Useds
  <2> QED  BY <1>1, <2>1 DEF IInv, Useds
<1>3. srv[m].rdb_child # None /\ srv \in [Servers -> ServerTypes]
  BY DEF BgsaveDone, IInv
<1>4. Base(sv, c) /\ FitsIn(H, sv, c, used.ids)
  BY <1>3, EndedFits
<1>5. me.rdb_child = None
  BY <1>3, EndedServer
<1> HIDE DEF me, c
<1>6. CASE conn' = c /\ srv' = sv
  BY <1>2, <1>4, <1>6
<1>7. CASE conn' = StartBgsave(c, m, me, TRUE).c /\ srv' = [srv EXCEPT ![m] = StartBgsave(c, m, me, TRUE).me]
  <2> DEFINE me2 == StartBgsave(c, m, me, TRUE).me
             cn2 == StartBgsave(c, m, me, TRUE).c
  <2>1. sv[m] = me /\ me2 = StartBgsave(c, m, sv[m], TRUE).me /\ cn2 = StartBgsave(c, m, sv[m], TRUE).c
    BY <1>3
  <2>2. conn' = cn2 /\ srv' = [srv EXCEPT ![m] = me2]
    BY <1>7
  <2> HIDE DEF me2, cn2
  <2>3. srv' = [sv EXCEPT ![m] = me2]
    BY <2>2
  <2> HIDE DEF sv
  <2>4. sv[m].rdb_child = None
    BY <1>5, <2>1
  <2>5. \E H2 : FitsIn(H2, [sv EXCEPT ![m] = me2], cn2, used.ids)
    BY <1>2, <1>4, <2>1, <2>4, StartFits
  <2> QED  BY <1>2, <2>2, <2>3, <2>5
<1> QED  BY <1>1, <1>6, <1>7 DEF c

-----------------------------------------------------------------------------
(* A slave that comes without a history to continue. *)

\* The next command of the stream will select its database.
Reselects(me, old) ==
    /\ me.masterhost = old.masterhost /\ me.replid = old.replid /\ me.replid2 = old.replid2
    /\ me.second_replid_offset = old.second_replid_offset /\ me.master_repl_offset = old.master_repl_offset
    /\ me.backlog = old.backlog /\ me.slaveseldb = -1 /\ me.master = old.master
    /\ me.cached_master = old.cached_master /\ me.data = old.data /\ me.dump = old.dump
    /\ me.rdb_child = old.rdb_child /\ me.repl_state = old.repl_state /\ me.master_replid = old.master_replid
    /\ me.master_initial_offset = old.master_initial_offset

\* The server that selects the database again has these fields.
LEMMA ReselectsOK ==
    ASSUME NEW old \in ServerTypes, NEW me, me = [old EXCEPT !.slaveseldb = -1]
    PROVE  me \in ServerTypes /\ Reselects(me, old)
BY DEF ServerTypes, Reselects

\* A slave that attaches is told what the slave it attaches to was told.
Attaches(k2, m, l, id) ==
    /\ k2.to = m /\ k2.psync = None /\ ~k2.on_ack /\ k2.replstate = "WAIT_BGSAVE_END"
    /\ k2.init = l.init /\ k2.buf = l.buf /\ k2.down = <<FullMsg(id, l.init)>>

\* The link of the slave that waits for the running save has these fields.
LEMMA AttachesOK ==
    ASSUME NEW k \in Conns, k.psync = None, ~k.on_ack, k.down = <<>>, NEW l \in Conns, NEW me \in ServerTypes,
           setup \in Setups, NEW k2, k2 = [SetupFullResync(k, me, l.init) EXCEPT !.buf = l.buf]
    PROVE  k2 \in Conns /\ Attaches(k2, k.to, l, me.replid)
<1> DEFINE told == SetupFullResync(k, me, l.init)
           full == FullMsg(me.replid, l.init)
<1>1. l.init \in Nat /\ l.buf \in Seq(Items)
  BY DEF Conns
<1>2. /\ told \in Conns /\ told.to = k.to /\ told.psync = k.psync /\ told.replstate = "WAIT_BGSAVE_END"
  BY <1>1, SetupKept
<1>3. told = [k EXCEPT !.replstate = "WAIT_BGSAVE_END", !.init = l.init, !.down = Append(@, full)]
  BY DEF SetupFullResync, FullMsg
<1>4. k2 = [told EXCEPT !.buf = l.buf]
  OBVIOUS
<1>5. Append(<<>>, full) = <<full>>
  OBVIOUS
<1> HIDE DEF told, full
<1>6. told.init = l.init /\ told.down = <<full>> /\ ~told.on_ack
  BY <1>3, <1>5 DEF Conns
<1>7. /\ k2 \in Conns /\ k2.to = k.to /\ k2.psync = None /\ ~k2.on_ack /\ k2.replstate = "WAIT_BGSAVE_END"
      /\ k2.init = l.init /\ k2.buf = l.buf /\ k2.down = <<full>>
  BY <1>1, <1>2, <1>4, <1>6 DEF Conns
<1> QED  BY <1>7 DEF Attaches, full

\* A slave attaches to the save that another one waits for.
LEMMA AttachFits ==
    ASSUME NEW sv, NEW cn, Base(sv, cn), NEW H, NEW u \in Nat, FitsIn(H, sv, cn, u), NEW m \in Servers, NEW s \in Servers,
           cn[s] # None, cn[s].to = m, cn[s].replstate = "WAIT_BGSAVE_START",
           NEW t \in InState(cn, m, "WAIT_BGSAVE_END"), NEW me \in ServerTypes, Reselects(me, sv[m]),
           NEW k2 \in Conns, Attaches(k2, m, cn[t], sv[m].replid)
    PROVE  \E H2 : FitsIn(H2, [sv EXCEPT ![m] = me], [cn EXCEPT ![s] = k2], u)
<1> DEFINE l == cn[t]
           sv2 == [sv EXCEPT ![m] = me]
<1>1. /\ sv[m] \in ServerTypes /\ ServerOK(sv[m]) /\ cn[s] \in Conns /\ IsBook(H) /\ sv[m].replid <= u
      /\ setup \in Setups /\ sv \in [Servers -> ServerTypes] /\ cn \in Links /\ LinkAt(H, cn[s], sv[s], sv[m])
      /\ ServerAt(H, sv[m], setup.ttl)
  BY BaseTypes DEF FitsIn, Base
<1>2. t \in Servers /\ l # None /\ l.to = m /\ l.replstate = "WAIT_BGSAVE_END" /\ Serving(cn[s])
  BY DEF InState, SlavesOf, IsSlaveOf, Serving
<1>3. s # m
  BY <1>1, <1>2 DEF FitsIn
<1>4. sv[s].repl_state = "RECEIVE_PSYNC"
  BY <1>1, WaitingLink
<1>5. PICK H2 : Loose(H, H2, sv, m, u)
  BY Loosened
<1>6. /\ IsBook(H2) /\ Grows(H, H2, u) /\ DOMAIN H2 \subseteq 1..u
      /\ \A x \in Servers \ {m} : Owner(sv[x]) => H2[sv[x].replid] = H[sv[x].replid]
  BY <1>5 DEF Loose
<1>7. sv2[m] = me /\ (\A x \in Servers : x # m => sv2[x] = sv[x])
  BY <1>1
<1>8. SameWay(me, sv[m]) /\ ServerOK(me)
  <2>1. Same(me, sv[m])
    BY DEF Same, Reselects
  <2> QED  BY <1>1, <2>1, SameOK DEF SameWay, Reselects
<1>9. me.rdb_child # None => RdbAt(H2, me.rdb_child.rdb)
  <2>1. RdbAt(H, sv[m].dump) /\ (sv[m].rdb_child # None => RdbAt(H, sv[m].rdb_child.rdb)) /\ me.rdb_child = sv[m].rdb_child
    BY <1>1 DEF ServerAt, Reselects
  <2> QED  BY <1>1, <1>6, <2>1, FilesGrow
<1>10. ServerAt(H2, me, setup.ttl)
  <2>1. /\ me.masterhost = sv[m].masterhost /\ me.replid = sv[m].replid /\ me.replid2 = sv[m].replid2
        /\ me.second_replid_offset = sv[m].second_replid_offset /\ me.master_repl_offset = sv[m].master_repl_offset
        /\ me.backlog = sv[m].backlog /\ me.slaveseldb = -1 /\ me.master = sv[m].master
        /\ me.cached_master = sv[m].cached_master /\ me.data = sv[m].data /\ me.dump = sv[m].dump
    BY DEF Reselects
  <2> QED  BY <1>5, <1>9, <2>1, LoosenedAt
<1> HIDE DEF l, sv2
<1>11. FitsIn(H2, sv2, cn, u)
  <2>1. /\ me.replid <= u /\ u <= u
        /\ Owner(me) => (Owner(sv[m]) /\ me.replid = sv[m].replid) \/ me.replid > u
        /\ SameWay(me, sv[m]) \/ cn[m] = None
        /\ \A x \in Servers : cn[x] # None /\ cn[x].to = m /\ Follows(cn[x]) =>
              me.replid = sv[m].replid /\ me.master_repl_offset = sv[m].master_repl_offset
        /\ \A x \in Servers : cn[x] # None /\ cn[x].to = m /\ cn[x].replstate = "WAIT_BGSAVE_END" =>
              me.rdb_child = sv[m].rdb_child
    BY <1>1, <1>8 DEF Reselects, Owner
  <2>2. FitsIn(H2, [sv EXCEPT ![m] = me], cn, u)
    BY <1>6, <1>10, <2>1, ServerFits
  <2> QED  BY <2>2 DEF sv2
<1>12. Base(sv2, cn)
  <2>1. sv2 \in [Servers -> ServerTypes]
    BY <1>1 DEF sv2
  <2>2. \A x \in Servers : ServerOK(sv2[x])
    BY <1>7, <1>8 DEF Base
  <2>3. \A x, y \in Servers : IsSlaveOf(cn, x, y) => sv2[y].backlog # None
    BY <1>7 DEF Base, Reselects
  <2> QED  BY <1>1, <2>1, <2>2, <2>3 DEF Base
<1>13. Waits(H2, l, me)
  <2>1. LinkAt(H2, l, sv2[t], me)
    BY <1>2, <1>7, <1>11 DEF FitsIn, l
  <2> QED  BY <1>2, <2>1 DEF LinkAt
<1>14. /\ k2.to = m /\ k2.psync = None /\ ~k2.on_ack /\ k2.replstate = "WAIT_BGSAVE_END"
       /\ k2.init = l.init /\ k2.buf = l.buf /\ k2.down = <<FullMsg(me.replid, k2.init)>>
  BY DEF Attaches, Reselects, l
<1>15. LinkAt(H2, k2, sv[s], me)
  <2>1. /\ me.rdb_child # None /\ me.replid \in DOMAIN H2 /\ Loads(H2[me.replid], k2.init, me.rdb_child.rdb)
        /\ Stream(H2[me.replid], k2.init, 0, k2.buf) /\ k2.init + Len(k2.buf) = me.master_repl_offset
    BY <1>13, <1>14 DEF Waits
  <2> QED  BY <1>4, <1>6, <1>9, <1>14, <2>1, ToldLink
<1>16. LinkAt(H2, k2, sv2[s], sv2[k2.to]) /\ (Serving(k2) => k2.to # s)
  BY <1>3, <1>7, <1>14, <1>15
<1>17. FitsIn(H2, sv2, [cn EXCEPT ![s] = k2], u)
  BY <1>11, <1>12, <1>16, FitsLink
<1> QED  BY <1>17 DEF sv2

\* The history of a server that had none.
Root(me) == [hi |-> me.master_repl_offset, pos |-> [n \in Nat |-> [data |-> me.data, db |-> me.slaveseldb]]]

\* What syncCommand() does to a server without backlog and slaves.
NewHistory(me, id) == createReplicationBacklog(clearReplicationId2([me EXCEPT !.replid = id]))

\* A history that begins with this data is a history.
LEMMA RootOK ==
    ASSUME NEW me \in ServerTypes
    PROVE  /\ Root(me) \in Histories /\ Root(me).hi = me.master_repl_offset
           /\ \A n \in Nat : Root(me).pos[n].data = me.data /\ Root(me).pos[n].db = me.slaveseldb
<1> DEFINE p == [data |-> me.data, db |-> me.slaveseldb]
<1>1. p \in Positions /\ me.master_repl_offset \in Nat /\ p.data = me.data /\ p.db = me.slaveseldb
  BY DEF Positions, ServerTypes
<1> HIDE DEF p
<1>2. Root(me) = [hi |-> me.master_repl_offset, pos |-> [n \in Nat |-> p]]
  BY DEF Root, p
<1>3. Root(me).hi = me.master_repl_offset /\ Root(me).pos = [n \in Nat |-> p]
  BY <1>2
<1>4. \A n \in Nat : Root(me).pos[n] = p
  BY <1>3
<1>5. Root(me) \in Histories
  BY <1>1, <1>2 DEF Histories
<1> QED  BY <1>1, <1>3, <1>4, <1>5

\* What is new, and what is not.
NewAs(r, me, id) ==
    /\ r.masterhost = me.masterhost /\ r.replid = id /\ r.replid2 = ZeroId
    /\ r.master_repl_offset = me.master_repl_offset /\ r.slaveseldb = me.slaveseldb /\ r.master = me.master
    /\ r.backlog = [off |-> me.master_repl_offset + 1, items |-> <<>>]
    /\ r.cached_master = me.cached_master /\ r.data = me.data /\ r.dump = me.dump /\ r.rdb_child = me.rdb_child

\* The fields of a server that begins a new history.
LEMMA NewHistoryFields ==
    ASSUME NEW me \in ServerTypes, NEW id \in Ids
    PROVE  NewAs(NewHistory(me, id), me, id)
BY DEF NewAs, NewHistory, createReplicationBacklog, clearReplicationId2, ServerTypes

\* The server is at the end, and at the beginning, of its new history.
LEMMA NewHistoryAt ==
    ASSUME NEW H, IsBook(H), NEW H2, IsBook(H2), NEW u, Grows(H, H2, u), NEW me \in ServerTypes, NEW ttl, ServerAt(H, me, ttl),
           ServerOK(me), me.masterhost = NoOne, NEW id \in Ids, id \in DOMAIN H2, H2[id] = Root(me),
           NEW r \in ServerTypes, r = NewHistory(me, id)
    PROVE  ServerAt(H2, r, ttl)
<1>1. /\ r.masterhost = NoOne /\ r.replid = id /\ r.replid2 = ZeroId
      /\ r.master_repl_offset = me.master_repl_offset /\ r.slaveseldb = me.slaveseldb /\ r.master = me.master
      /\ r.backlog = [off |-> me.master_repl_offset + 1, items |-> <<>>]
      /\ r.cached_master = me.cached_master /\ r.data = me.data /\ r.dump = me.dump /\ r.rdb_child = me.rdb_child
  <2>1. NewAs(r, me, id)
    BY NewHistoryFields
  <2> QED  BY <2>1 DEF NewAs
<1>2. me.master = None /\ me.cached_master = None
  BY DEF ServerOK
<1>3. /\ Root(me) \in Histories /\ Root(me).hi = me.master_repl_offset
      /\ \A n \in Nat : Root(me).pos[n].data = me.data /\ Root(me).pos[n].db = me.slaveseldb
  BY RootOK
<1> DEFINE o == me.master_repl_offset
           h == Root(me)
<1>4. o \in Nat /\ h = H2[r.replid] /\ h.hi = o /\ h \in Histories
  BY <1>1, <1>3 DEF ServerTypes
<1>5. h.pos[o].data = me.data /\ h.pos[o].db = me.slaveseldb
  BY <1>3, <1>4
<1> HIDE DEF o, h
<1>6. r.backlog.off = o + 1 /\ r.backlog.items = <<>>
  BY <1>1 DEF o
<1>7. BacklogAt(H2, r)
  <2>1. Stream(h, o, 0, <<>>)
    <3>1. o <= h.hi
      BY <1>4
    <3> QED  BY <1>4, <3>1, StreamNone
  <2>2. (o + 1) - 1 = o /\ o + 1 >= 1
    BY <1>4
  <2>3. r.backlog.off - 1 = o /\ r.backlog.off >= 1
    BY <1>6, <2>2
  <2> QED  BY <1>1, <1>4, <1>6, <2>1, <2>3 DEF BacklogAt
<1>8. MasterAt(H2[r.replid], r)
  BY <1>1, <1>4, <1>5 DEF MasterAt, o
<1>9. RdbAt(H2, r.dump) /\ (r.rdb_child # None => RdbAt(H2, r.rdb_child.rdb))
  <2>1. RdbAt(H, me.dump) /\ (me.rdb_child # None => RdbAt(H, me.rdb_child.rdb))
    BY DEF ServerAt
  <2>2. RdbAt(H2, me.dump) /\ (me.rdb_child # None => RdbAt(H2, me.rdb_child.rdb))
    BY <2>1, FilesGrow
  <2> QED  BY <1>1, <2>2
<1>10. r.backlog # None
  <2>1. DOMAIN r.backlog = {"off", "items"} /\ DOMAIN None = {"none"}
    BY <1>1 DEF None
  <2> QED  BY <2>1
<1> QED  BY <1>1, <1>2, <1>7, <1>8, <1>9, <1>10 DEF ServerAt

\* The first slave of a server without backlog: the server begins a history.
LEMMA NewHistoryFits ==
    ASSUME IInv, NEW H, FitsIn(H, srv, conn, used.ids), NEW m \in Servers, srv[m].masterhost = NoOne,
           SlavesOf(conn, m) = {}, HasId, NEW me, me = NewHistory(srv[m], FreshId)
    PROVE  \E H2 : FitsIn(H2, [srv EXCEPT ![m] = me], conn, used.ids + 1)
<1> DEFINE old == srv[m]
           H2 == Begun(H, used.ids + 1, Root(old))
<1>1. /\ old \in ServerTypes /\ ServerOK(old) /\ ServerAt(H, old, setup.ttl) /\ IsBook(H) /\ setup \in Setups
      /\ used.ids \in Nat /\ DOMAIN H \subseteq 1..used.ids /\ conn[m] = None
  BY DEF IInv, FitsIn, Useds, ServerOK, LinkOK
<1>2. FreshId \in Ids /\ FreshId = used.ids + 1
  BY FreshOK DEF FreshId
<1>3. me \in ServerTypes
  BY <1>1, <1>2, NewHistoryOK DEF NewHistory
<1>4. me.masterhost = NoOne /\ me.replid = used.ids + 1
  <2>1. NewAs(me, old, FreshId)
    BY <1>1, <1>2, NewHistoryFields
  <2> QED  BY <1>2, <2>1 DEF NewAs
<1>5. /\ IsBook(H2) /\ DOMAIN H2 = DOMAIN H \cup {used.ids + 1} /\ H2[used.ids + 1] = Root(old)
      /\ Grows(H, H2, used.ids) /\ (\A x \in DOMAIN H : H2[x] = H[x]) /\ DOMAIN H2 \subseteq 1 .. used.ids + 1
  <2> DEFINE g == Root(old)
  <2>1. g \in Histories
    BY <1>1, RootOK
  <2> DEFINE n == used.ids
             B == Begun(H, n + 1, g)
  <2>2. H2 = B /\ n \in Nat /\ DOMAIN H \subseteq 1..n /\ IsBook(H) /\ g = Root(old) /\ n = used.ids
    BY <1>1
  <2> HIDE DEF g, old, n
  <2>3. /\ IsBook(B) /\ DOMAIN B = DOMAIN H \cup {n + 1} /\ B[n + 1] = g /\ Grows(H, B, n)
        /\ \A x \in DOMAIN H : B[x] = H[x]
        /\ DOMAIN B \subseteq 1 .. n + 1
    BY <2>1, <2>2, BookAdded
  <2> HIDE DEF B, H2
  <2> QED  BY <2>2, <2>3
<1>6. me = NewHistory(old, FreshId)
  OBVIOUS
<1> HIDE DEF H2, old
<1>7. ServerAt(H2, me, setup.ttl)
  <2>1. FreshId \in DOMAIN H2 /\ H2[FreshId] = Root(old)
    BY <1>2, <1>5
  <2>2. old.masterhost = NoOne
    BY DEF old
  <2> QED  BY <1>1, <1>2, <1>3, <1>5, <1>6, <2>1, <2>2, NewHistoryAt
<1>8. \A t \in Servers : ~(conn[t] # None /\ conn[t].to = m /\ Follows(conn[t]))
  BY DEF SlavesOf, IsSlaveOf, Follows
<1>9. \A t \in Servers \ {m} : Owner(srv[t]) => H2[srv[t].replid] = H[srv[t].replid]
  BY <1>5 DEF FitsIn, ServerAt, Owner, BacklogAt
<1>10. /\ used.ids + 1 \in Nat /\ used.ids <= used.ids + 1 /\ me.replid <= used.ids + 1 /\ me.replid > used.ids
       /\ Base(srv, conn)
  BY <1>1, <1>4 DEF Base, IInv, SlavesHaveBacklog
<1>11. \A t \in Servers : conn[t] # None /\ conn[t].to = m /\ conn[t].replstate = "WAIT_BGSAVE_END" =>
              me.rdb_child = srv[m].rdb_child
  BY <1>8 DEF Follows
<1>12. FitsIn(H2, [srv EXCEPT ![m] = me], conn, used.ids + 1)
  BY <1>1, <1>3, <1>5, <1>7, <1>8, <1>9, <1>10, <1>11, ServerFits
<1> QED  BY <1>12

\* The server begins a new history for the first slave that asks for a full resync.
AskedNew(m) == srv[m].backlog = None /\ SlavesOf(conn, m) = {}
\* The server when the slave has asked.
Asked(m) == IF ~AskedNew(m) THEN srv[m] ELSE NewHistory(srv[m], FreshId)
\* The IDs in use then.
AskedIds(m) == IF AskedNew(m) THEN used.ids + 1 ELSE used.ids
\* The link of the slave then.
AskedLink(s) == [conn[s] EXCEPT !.psync = None, !.replstate = "WAIT_BGSAVE_START"]
\* All links then.
AskedConns(s) == [conn EXCEPT ![s] = AskedLink(s)]
\* All servers then.
AskedServers(m) == [srv EXCEPT ![m] = Asked(m)]

\* The server is typed then, and has a backlog.
LEMMA AskedOK ==
    ASSUME IInv, NEW s \in Servers, MayServe(s), NEW m, m = conn[s].to, AskedNew(m) => HasId
    PROVE  /\ m \in Servers /\ srv[m] \in ServerTypes /\ ServerOK(srv[m])
           /\ Asked(m) \in ServerTypes /\ ServerOK(Asked(m)) /\ Asked(m).backlog # None
           /\ AskedNew(m) => srv[m].masterhost = NoOne
<1>1. conn[s] \in Conns /\ setup \in Setups /\ (srv[m].masterhost = NoOne \/ srv[m].repl_state = "CONNECTED")
  BY DEF MayServe, IInv, Links
<1>2. m \in Servers /\ srv[m] \in ServerTypes /\ ServerOK(srv[m])
  BY <1>1 DEF Conns, IInv
<1>3. CASE AskedNew(m)
  <2>1. srv[m].masterhost = NoOne
    BY <1>1, <1>2, <1>3 DEF ServerOK, AskedNew
  <2>2. FreshId \in Ids
    BY <1>3, FreshOK
  <2>3. LET r == NewHistory(srv[m], FreshId) IN r \in ServerTypes /\ ServerOK(r) /\ r.backlog # None
    BY <1>1, <1>2, <2>1, <2>2, NewHistoryOK DEF NewHistory
  <2> QED  BY <1>2, <1>3, <2>1, <2>3 DEF Asked
<1>4. CASE ~AskedNew(m)
  <2>1. srv[m].backlog # None
    BY <1>2, <1>4 DEF IInv, SlavesHaveBacklog, SlavesOf, AskedNew
  <2> QED  BY <1>2, <1>4, <2>1 DEF Asked
<1> QED  BY <1>3, <1>4

\* The state then fits some histories.
LEMMA AskedFits ==
    ASSUME IInv, NEW H, FitsIn(H, srv, conn, used.ids), NEW s \in Servers, MayServe(s), NEW m, m = conn[s].to,
           AskedNew(m) => HasId, NEW k1, k1 = AskedLink(s)
    PROVE  /\ Base(AskedServers(m), AskedConns(s)) /\ \E H2 : FitsIn(H2, AskedServers(m), AskedConns(s), AskedIds(m))
           /\ AskedIds(m) \in Nat /\ k1 \in Conns /\ k1.to = m /\ k1.replstate = "WAIT_BGSAVE_START"
           /\ k1.psync = None /\ ~k1.on_ack /\ k1.down = <<>> /\ s # m
<1> DEFINE me == Asked(m)
           sv == [srv EXCEPT ![m] = me]
           c == [conn EXCEPT ![s] = k1]
<1>1. /\ m \in Servers /\ srv[m] \in ServerTypes /\ ServerOK(srv[m]) /\ me \in ServerTypes /\ ServerOK(me)
      /\ me.backlog # None /\ (AskedNew(m) => srv[m].masterhost = NoOne)
  BY AskedOK
<1>2. /\ conn[s] \in Conns /\ m # s /\ srv[s].repl_state = "RECEIVE_PSYNC" /\ conn[s].replstate = "NONE"
      /\ conn[s].down = <<>> /\ conn[s].buf = <<>> /\ ~conn[s].on_ack
  BY NotItself
<1>3. used.ids \in Nat /\ AskedIds(m) \in Nat /\ srv \in [Servers -> ServerTypes] /\ conn \in Links /\ setup \in Setups
  BY DEF IInv, Useds, AskedIds
<1>4. \E H2 : FitsIn(H2, sv, conn, AskedIds(m))
  <2>1. CASE AskedNew(m)
    BY <1>1, <2>1, NewHistoryFits DEF Asked, AskedIds, AskedNew
  <2>2. CASE ~AskedNew(m)
    <3>1. sv = srv
      BY <1>3, <2>2 DEF Asked
    <3> QED  BY <2>2, <3>1 DEF AskedIds
  <2> QED  BY <2>1, <2>2
<1>5. /\ k1 \in Conns /\ k1.to = m /\ k1.psync = None /\ k1.replstate = "WAIT_BGSAVE_START" /\ k1.down = <<>>
      /\ k1.buf = <<>> /\ ~k1.on_ack
  BY <1>2 DEF AskedLink, Conns, SlaveStates
<1>6. /\ sv[m] = me /\ (\A x \in Servers : x # m => sv[x] = srv[x]) /\ sv \in [Servers -> ServerTypes]
      /\ c \in Links /\ c[s] = k1 /\ (\A x \in Servers : x # s => c[x] = conn[x])
  BY <1>1, <1>3, <1>5 DEF Links
<1> HIDE DEF sv, c
<1>7. \A x \in Servers : ServerOK(sv[x])
  BY <1>1, <1>6 DEF IInv
<1>8. Base(sv, conn)
  <2>1. \A x, y \in Servers : IsSlaveOf(conn, x, y) => sv[y].backlog # None
    BY <1>1, <1>6 DEF IInv, SlavesHaveBacklog
  <2> QED  BY <1>3, <1>6, <1>7, <2>1 DEF Base
<1>9. Base(sv, c)
  <2>1. \A x, y \in Servers : IsSlaveOf(c, x, y) => sv[y].backlog # None
    <3> SUFFICES ASSUME NEW x \in Servers, NEW y \in Servers, IsSlaveOf(c, x, y), y # m  PROVE sv[y].backlog # None
      BY <1>1, <1>6
    <3>1. IsSlaveOf(conn, x, y)
      BY <1>5, <1>6 DEF IsSlaveOf
    <3> QED  BY <1>8, <3>1 DEF Base
  <2> QED  BY <1>3, <1>6, <1>7, <2>1 DEF Base
<1>10. PICK H2 : FitsIn(H2, sv, conn, AskedIds(m))
  BY <1>4
<1>11. LinkAt(H2, k1, sv[s], sv[k1.to]) /\ (Serving(k1) => k1.to # s)
  <2>1. sv[s].repl_state = "RECEIVE_PSYNC"
    BY <1>2, <1>6
  <2>2. Len(k1.down) = 0
    BY <1>5
  <2>3. WayOK(H2, sv[s], k1.down)
    BY <2>1, <2>2 DEF WayOK, Silent
  <2>4. ShapeOK(k1, sv[s])
    BY <1>5, <2>1 DEF ShapeOK
  <2> QED  BY <1>2, <1>5, <2>3, <2>4 DEF LinkAt, Follows
<1>12. FitsIn(H2, sv, c, AskedIds(m))
  BY <1>8, <1>10, <1>11, FitsLink DEF c
<1>13. sv = AskedServers(m) /\ c = AskedConns(s)
  BY Zenon DEF sv, c, AskedServers, AskedConns
<1> HIDE DEF me
<1> QED  BY <1>2, <1>3, <1>5, <1>9, <1>12, <1>13

\* FullResync() in these terms.
LEMMA FullSteps ==
    ASSUME NEW s \in Servers, NEW ok \in BOOLEAN, FullResync(s, ok)
    PROVE  LET m == conn[s].to
               me == Asked(m)
               c == AskedConns(s)
           IN
           /\ MayServe(s) /\ (AskedNew(m) => HasId)
           /\ used' = Failed(IF AskedNew(m) THEN [used EXCEPT !.ids = @ + 1] ELSE used, ok)
           /\ \/ \E t \in InState(c, m, "WAIT_BGSAVE_END") :
                   /\ conn' = [c EXCEPT ![s] = [SetupFullResync(c[s], me, c[t].init) EXCEPT !.buf = c[t].buf]]
                   /\ srv' = [srv EXCEPT ![m] = [me EXCEPT !.slaveseldb = -1]]
              \/ conn' = c /\ srv' = AskedServers(m)
              \/ /\ me.rdb_child = None
                 /\ conn' = StartBgsave(c, m, me, ok).c /\ srv' = [srv EXCEPT ![m] = StartBgsave(c, m, me, ok).me]
BY Zenon DEF FullResync, Asked, AskedNew, AskedLink, AskedConns, AskedServers, NewHistory

\* FullResync() keeps the histories.
LEMMA FullResyncFits ==
    ASSUME IInv, IInv', setup' = setup, NEW H, FitsIn(H, srv, conn, used.ids), NEW s \in Servers, NEW ok \in BOOLEAN,
           FullResync(s, ok)
    PROVE  \E H2 : FitsIn(H2, srv', conn', used'.ids)
<1> DEFINE m == conn[s].to
           me == Asked(m)
           k1 == AskedLink(s)
           c == AskedConns(s)
           sv == AskedServers(m)
           u == AskedIds(m)
           A(t) == [SetupFullResync(c[s], me, c[t].init) EXCEPT !.buf = c[t].buf]
<1>1. /\ MayServe(s) /\ (AskedNew(m) => HasId)
      /\ used' = Failed(IF AskedNew(m) THEN [used EXCEPT !.ids = @ + 1] ELSE used, ok)
      /\ \/ \E t \in InState(c, m, "WAIT_BGSAVE_END") :
              conn' = [c EXCEPT ![s] = A(t)] /\ srv' = [srv EXCEPT ![m] = [me EXCEPT !.slaveseldb = -1]]
         \/ conn' = c /\ srv' = sv
         \/ /\ me.rdb_child = None
            /\ conn' = StartBgsave(c, m, me, ok).c /\ srv' = [srv EXCEPT ![m] = StartBgsave(c, m, me, ok).me]
  BY FullSteps
<1>2. used'.ids = u
  <2>1. \A x \in Useds : Failed(x, ok).ids = x.ids
    BY DEF Failed, Useds
  <2>2. used \in Useds
    BY DEF IInv
  <2>3. CASE AskedNew(m)
    <3>1. [used EXCEPT !.ids = @ + 1] \in Useds /\ [used EXCEPT !.ids = @ + 1].ids = used.ids + 1
      BY <2>2 DEF Useds
    <3> QED  BY <1>1, <2>1, <2>3, <3>1 DEF AskedIds
  <2>4. CASE ~AskedNew(m)
    BY <1>1, <2>1, <2>2, <2>4 DEF AskedIds
  <2> QED  BY <2>3, <2>4
<1>3. /\ Base(sv, c) /\ (\E H2 : FitsIn(H2, sv, c, u)) /\ u \in Nat /\ k1 \in Conns /\ k1.to = m
      /\ k1.replstate = "WAIT_BGSAVE_START" /\ k1.psync = None /\ ~k1.on_ack /\ k1.down = <<>> /\ s # m
  BY <1>1, AskedFits
<1>4. m \in Servers /\ me \in ServerTypes /\ srv \in [Servers -> ServerTypes] /\ conn \in Links /\ setup \in Setups
  BY <1>1, AskedOK DEF IInv
<1>5. sv[m] = me /\ c[s] = k1
  BY <1>4 DEF Links, AskedServers, AskedConns
<1>6. PICK H1 : FitsIn(H1, sv, c, u)
  BY <1>3
<1>7. CASE conn' = c /\ srv' = sv
  BY <1>2, <1>6, <1>7
<1>8. ASSUME NEW me2  PROVE [srv EXCEPT ![m] = me2] = [sv EXCEPT ![m] = me2]
  BY DEF AskedServers
<1> HIDE DEF sv, me, k1, c, u, m
<1>9. CASE me.rdb_child = None /\ conn' = StartBgsave(c, m, me, ok).c /\ srv' = [srv EXCEPT ![m] = StartBgsave(c, m, me, ok).me]
  <2> DEFINE me2 == StartBgsave(c, m, me, ok).me
             cn2 == StartBgsave(c, m, me, ok).c
  <2>1. conn' = cn2 /\ srv' = [srv EXCEPT ![m] = me2] /\ me2 = StartBgsave(c, m, sv[m], ok).me /\ cn2 = StartBgsave(c, m, sv[m], ok).c
    BY <1>5, <1>9
  <2> HIDE DEF me2, cn2
  <2>2. srv' = [sv EXCEPT ![m] = me2] /\ sv[m].rdb_child = None
    BY <1>5, <1>8, <1>9, <2>1
  <2>3. \E H2 : FitsIn(H2, [sv EXCEPT ![m] = me2], cn2, u)
    BY <1>3, <1>4, <1>6, <2>1, <2>2, StartFits
  <2> QED  BY <1>2, <2>1, <2>2, <2>3
<1>10. ASSUME NEW t \in InState(c, m, "WAIT_BGSAVE_END"), conn' = [c EXCEPT ![s] = A(t)],
              srv' = [srv EXCEPT ![m] = [me EXCEPT !.slaveseldb = -1]]
       PROVE  \E H2 : FitsIn(H2, srv', conn', used'.ids)
  <2> DEFINE me2 == [me EXCEPT !.slaveseldb = -1]
             k2 == A(t)
             l == c[t]
  <2>1. l \in Conns
    BY <1>3 DEF InState, SlavesOf, IsSlaveOf, Base, Links
  <2>2. me2 \in ServerTypes /\ Reselects(me2, me)
    BY <1>4, ReselectsOK
  <2>3. k2 = [SetupFullResync(k1, me, l.init) EXCEPT !.buf = l.buf]
    BY <1>5
  <2>4. conn' = [c EXCEPT ![s] = k2] /\ srv' = [srv EXCEPT ![m] = me2]
    BY <1>10
  <2> HIDE DEF me2, k2, l
  <2>5. k2 \in Conns /\ Attaches(k2, m, l, me.replid)
    BY <1>3, <1>4, <2>1, <2>3, AttachesOK
  <2>6. srv' = [sv EXCEPT ![m] = me2]
    BY <1>8, <2>4
  <2>7. c[s] # None /\ c[s].to = m /\ c[s].replstate = "WAIT_BGSAVE_START"
    BY <1>3, <1>5, NoneElsewhere
  <2>8. Reselects(me2, sv[m]) /\ Attaches(k2, m, c[t], sv[m].replid)
    BY <1>5, <2>2, <2>5 DEF l
  <2>9. \E H2 : FitsIn(H2, [sv EXCEPT ![m] = me2], [c EXCEPT ![s] = k2], u)
    BY <1>3, <1>4, <1>6, <2>2, <2>5, <2>7, <2>8, AttachFits
  <2> QED  BY <1>2, <2>4, <2>6, <2>9
<1> QED  BY <1>1, <1>7, <1>9, <1>10
-----------------------------------------------------------------------------
(* The histories exist in every state. *)

\* There are histories that everything fits.
Fits == \E H : FitsIn(H, srv, conn, used.ids)

\* Roles do not change where a master frees its backlog: a master that has
\* freed its backlog does not count the writes it makes, and would still have
\* its ID, and its offset, as the slave of another server.
FixedRoles == setup.ttl => Limit.roles = 0

\* Histories of the next state.
LEMMA FitsNext ==
    ASSUME setup' = setup, \E H2 : FitsIn(H2, srv', conn', used'.ids)
    PROVE  Fits'
<1>1. Servers' = Servers
  BY DEF Servers
<1> QED  BY <1>1 DEF FitsIn, Fits

\* At first there is no history: no server has a backlog.
LEMMA InitFits == Init => Fits
<1> SUFFICES ASSUME Init  PROVE Fits
  OBVIOUS
<1> DEFINE H == [x \in {} |-> x]
<1>1. DOMAIN H = {} /\ H = [x \in DOMAIN H |-> H[x]]
  OBVIOUS
<1> HIDE DEF H
<1>2. IsBook(H)
  BY <1>1 DEF IsBook
<1>3. used.ids = Cardinality(Hosts) /\ Cardinality(Hosts) \in Nat
  BY InitialIds DEF Init
<1>4. \A s \in Servers : conn[s] = None
  BY DEF Init
<1>5. setup \in Setups
  BY DEF Init
<1>6. ASSUME NEW s \in Servers
      PROVE  srv[s].replid <= used.ids /\ ServerAt(H, srv[s], setup.ttl) /\ ~Owner(srv[s])
  <2> DEFINE u == InitialId[s] - 1
             me == Started(setup.master[s], EmptyRdb, u + 1)
  <2>1. InitialId[s] \in 1..Cardinality(Hosts)
    BY <1>5, HostsOnly, InitialIds
  <2>2. u \in Nat /\ u + 1 = InitialId[s] /\ DOMAIN H \subseteq 1..u
    BY <1>1, <1>3, <2>1
  <2>3. srv[s] = me
    BY <2>2 DEF Init
  <2>4. EmptyRdb \in Rdbs /\ RdbAt(H, EmptyRdb)
    <3>1. EmptyRdb.stream_db = -1
      BY DEF EmptyRdb
    <3> QED  BY <3>1, <1>5, EmptyRdbOK DEF RdbAt
  <2> HIDE DEF u
  <2>5. ServerAt(H, me, setup.ttl) /\ ~Owner(me) /\ me.replid <= u + 1
    BY <2>2, <2>4, StartedAt
  <2>6. u + 1 <= used.ids
    BY <2>1, <2>2, <1>3
  <2>7. me.replid = u + 1
    BY DEF Started, EmptyRdb
  <2> HIDE DEF me
  <2> QED  BY <2>3, <2>5, <2>6, <2>7
<1>7. FitsIn(H, srv, conn, used.ids)
  BY <1>1, <1>2, <1>4, <1>6 DEF FitsIn, Serving
<1> QED  BY <1>7 DEF Fits

\* What no step changes still fits.
LEMMA StutterFits == ASSUME Fits, UNCHANGED vars  PROVE Fits'
<1>1. setup' = setup /\ srv' = srv /\ conn' = conn /\ used' = used
  BY DEF vars
<1> QED  BY <1>1, FitsNext DEF Fits

\* Every step leaves histories that everything fits.
LEMMA NextFits == ASSUME IInv, IInv', FixedRoles, Fits, Next  PROVE Fits'
<1>1. setup' = setup
  BY DEF Next
<1>2. PICK s \in Servers : MasterStep(s) \/ LinkStep(s) \/ ReplicaStep(s) \/ AdminStep(s)
  BY DEF Next
<1>3. PICK H : FitsIn(H, srv, conn, used.ids)
  BY DEF Fits
<1> DEFINE Found == \E H2 : FitsIn(H2, srv', conn', used'.ids)
<1> HIDE DEF Found
<1>4. ASSUME MasterStep(s)  PROVE Found
  <2>1. ASSUME NEW db \in setup.dbs, Write(s, db)  PROVE Found
    BY <1>1, <1>3, <2>1, WriteFits DEF Found
  <2>2. ASSUME Ping(s)  PROVE Found
    BY <1>1, <1>3, <2>2, PingFits DEF Found
  <2>3. ASSUME NEW ok \in BOOLEAN, CronBgsave(s, ok)  PROVE Found
    BY <1>1, <1>3, <2>3, CronBgsaveFits DEF Found
  <2>4. ASSUME NEW ok \in BOOLEAN, BgsaveDone(s, ok)  PROVE Found
    BY <1>1, <1>3, <2>4, BgsaveDoneFits DEF Found
  <2>5. ASSUME SavePoint(s) \/ bgsaveCommand(s)  PROVE Found
    BY <1>1, <1>3, <2>5, SavesFit DEF Found
  <2>6. ASSUME FreeBacklog(s)  PROVE Found
    BY <1>1, <1>3, <2>6, FreeBacklogFits DEF Found
  <2> QED  BY <1>4, <2>1, <2>2, <2>3, <2>4, <2>5, <2>6 DEF MasterStep
<1>5. ASSUME LinkStep(s)  PROVE Found
  <2>1. ASSUME RefusePsync(s)  PROVE Found
    BY <1>1, <1>3, <2>1, RefusePsyncFits DEF Found
  <2>2. ASSUME PartialResync(s)  PROVE Found
    BY <1>1, <1>3, <2>2, PartialResyncFits DEF Found
  <2>3. ASSUME NEW ok \in BOOLEAN, FullResync(s, ok)  PROVE Found
    BY <1>1, <1>3, <2>3, FullResyncFits DEF Found
  <2>4. ASSUME sendBulkToSlave(s)  PROVE Found
    BY <1>1, <1>3, <2>4, sendBulkFits DEF Found
  <2>5. ASSUME replconfAck(s)  PROVE Found
    BY <1>1, <1>3, <2>5, replconfAckFits DEF Found
  <2>6. ASSUME TimeoutSlave(s)  PROVE Found
    BY <1>1, <1>3, <2>6, TimeoutSlaveFits DEF Found
  <2> QED  BY <1>5, <2>1, <2>2, <2>3, <2>4, <2>5, <2>6 DEF LinkStep
<1>6. ASSUME ReplicaStep(s)  PROVE Found
  <2>1. ASSUME connectWithMaster(s)  PROVE Found
    BY <1>1, <1>3, <2>1, connectFits DEF Found
  <2>2. ASSUME SendPsync(s)  PROVE Found
    BY <1>1, <1>3, <2>2, SendPsyncFits DEF Found
  <2>3. ASSUME ReplyFullResync(s)  PROVE Found
    BY <1>1, <1>3, <2>3, ReplyFullResyncFits DEF Found
  <2>4. ASSUME ReplyContinue(s)  PROVE Found
    BY <1>1, <1>3, <2>4, ReplyContinueFits DEF Found
  <2>5. ASSUME LoadRdb(s)  PROVE Found
    BY <1>1, <1>3, <2>5, LoadRdbFits DEF Found
  <2>6. ASSUME LoadRdbFails(s)  PROVE Found
    BY <1>1, <1>3, <2>6, LoadRdbFailsFits DEF Found
  <2>7. ASSUME ApplyStream(s)  PROVE Found
    BY <1>1, <1>3, <2>7, ApplyStreamFits DEF Found
  <2>8. ASSUME LinkDown(s)  PROVE Found
    BY <1>1, <1>3, <2>8, LinkDownFits DEF Found
  <2>9. ASSUME ReplyError(s)  PROVE Found
    BY <1>1, <1>3, <2>9, ReplyErrorFits DEF Found
  <2> QED  BY <1>6, <2>1, <2>2, <2>3, <2>4, <2>5, <2>6, <2>7, <2>8, <2>9 DEF ReplicaStep
<1>7. ASSUME AdminStep(s)  PROVE Found
  <2>1. ASSUME slaveofCommand(s)  PROVE Found
    <3>1. used.roles < Limit.roles /\ used.roles \in Nat
      BY <2>1 DEF slaveofCommand, replicationUnsetMaster, replicationSetMaster, IInv, Useds
    <3>2. ~setup.ttl
      BY <3>1 DEF FixedRoles
    <3>3. ASSUME srv[s].masterhost # NoOne, replicationUnsetMaster(s)  PROVE Found
      BY <1>1, <1>3, <3>3, UnsetFits DEF Found
    <3>4. ASSUME NEW m \in Servers, replicationSetMaster(s, m)  PROVE Found
      BY <1>1, <1>3, <3>2, <3>4, SetMasterFits DEF Found
    <3> QED  BY <2>1, <3>3, <3>4 DEF slaveofCommand
  <2>2. ASSUME Restart(s)  PROVE Found
    BY <1>1, <1>3, <2>2, RestartFits DEF Found
  <2> QED  BY <1>7, <2>1, <2>2 DEF AdminStep
<1>8. Found
  BY <1>2, <1>4, <1>5, <1>6, <1>7
<1> QED  BY <1>1, <1>8, FitsNext DEF Found
-----------------------------------------------------------------------------
(* Where the messages lead to. *)

\* A set of natural numbers that is not empty has a least element.
LEMMA LeastNat ==
    ASSUME NEW S, S \subseteq Nat, S # {}
    PROVE  \E m \in S : \A n \in S : m <= n
<1> DEFINE R == OpToRel(<, Nat)
<1>1. \A m, n \in Nat : <<m, n>> \in R <=> m < n
  BY DEF OpToRel
<1>2. IsWellFoundedOn(R, Nat)
  BY NatLessThanWellFounded
<1> HIDE DEF R
<1>3. PICK m \in S : \A n \in S : ~(<<n, m>> \in R)
  BY <1>2, WFMin
<1>4. m \in Nat /\ \A n \in S : n \in Nat
  OBVIOUS
<1>5. \A n \in S : ~(n < m)
  BY <1>1, <1>3, <1>4, Zenon
<1>6. \A n \in S : m <= n
  BY <1>4, <1>5
<1> QED  BY <1>6

\* A set with 0 and with the successor, up to b, of each of its members.
LEMMA Climb ==
    ASSUME NEW S, 0 \in S, NEW b \in Nat, \A n \in 0..(b - 1) : n \in S => n + 1 \in S
    PROVE  \A n \in 0..b : n \in S
<1> DEFINE U == {n \in 0..b : n \notin S}
<1> SUFFICES ASSUME U # {}  PROVE FALSE
  OBVIOUS
<1>1. U \subseteq Nat
  OBVIOUS
<1> HIDE DEF U
<1>2. PICK m \in U : \A n \in U : m <= n
  BY <1>1, LeastNat
<1>3. m \in 0..b /\ m \notin S
  BY <1>2 DEF U
<1>4. m # 0 /\ m - 1 \in 0..(b - 1) /\ m - 1 + 1 = m
  BY <1>3
<1>5. m - 1 \in S
  BY <1>2, <1>4 DEF U
<1> QED  BY <1>3, <1>4, <1>5

\* The positions of a replica that is at p and receives the messages w.
Run(g, p, w, b) == g = [i \in 0..b |-> IF i = 0 THEN p ELSE Effect(g[i - 1], w[i])]

\* There is such a sequence of positions.
LEMMA RunExists == ASSUME NEW p, NEW w, NEW b \in Nat  PROVE \E g : Run(g, p, w, b)
<1> DEFINE S == {n \in Nat : \E g : Run(g, p, w, n)}
<1>1. 0 \in S
  <2> DEFINE g == [i \in 0..0 |-> p]
  <2>1. Run(g, p, w, 0)
    BY DEF Run
  <2> QED  BY <2>1
<1>2. ASSUME NEW n \in 0..(b - 1), n \in S  PROVE n + 1 \in S
  <2>1. PICK g : Run(g, p, w, n)
    BY <1>2
  <2> DEFINE g2 == [i \in 0..n + 1 |-> IF i = n + 1 THEN Effect(g[n], w[n + 1]) ELSE g[i]]
             g3 == [i \in 0..n + 1 |-> IF i = 0 THEN p ELSE Effect(g2[i - 1], w[i])]
  <2>2. \A i \in 0..n : g[i] = IF i = 0 THEN p ELSE Effect(g[i - 1], w[i])
    BY <2>1 DEF Run
  <2>3. \A i \in 0..n : g2[i] = g[i]
    BY <1>2
  <2>4. ASSUME NEW i \in 0..n + 1  PROVE g2[i] = IF i = 0 THEN p ELSE Effect(g2[i - 1], w[i])
    <3>1. CASE i = n + 1
      <4>1. i - 1 = n /\ i # 0 /\ n \in 0..n
        BY <3>1, <1>2
      <4>2. g2[i] = Effect(g[n], w[n + 1])
        BY <3>1
      <4> HIDE DEF g2
      <4>3. g2[i - 1] = g[n] /\ w[i] = w[n + 1]
        BY <3>1, <4>1, <2>3
      <4> QED  BY <4>1, <4>2, <4>3
    <3>2. CASE i # n + 1
      <4>1. i \in 0..n /\ (i # 0 => i - 1 \in 0..n)
        BY <3>2, <1>2
      <4> HIDE DEF g2
      <4>2. g2[i] = g[i] /\ (i # 0 => g2[i - 1] = g[i - 1])
        BY <4>1, <2>3
      <4> QED  BY <2>2, <4>1, <4>2
    <3> QED  BY <3>1, <3>2
  <2>5. g2 = g3
    <3>1. \A i \in 0..n + 1 : g2[i] = g3[i]
      BY <2>4
    <3> QED  BY <3>1
  <2>6. Run(g2, p, w, n + 1)
    BY <2>5 DEF Run
  <2> QED  BY <1>2, <2>6
<1> HIDE DEF S
<1>3. b \in 0..b
  OBVIOUS
<1>4. b \in S
  BY <1>1, <1>2, <1>3, Climb
<1> QED  BY <1>4 DEF S

\* What a replica becomes is the last of these positions.
LEMMA ReachedIs ==
    ASSUME NEW p, NEW w, Len(w) \in Nat
    PROVE  \E g : g[0] = p /\ (\A i \in 1..Len(w) : g[i] = Effect(g[i - 1], w[i])) /\ Reached(p, w) = g[Len(w)]
<1>1. PICK f : Run(f, p, w, Len(w))
  BY RunExists
<1>2. f = [i \in 0..Len(w) |-> IF i = 0 THEN p ELSE Effect(f[i - 1], w[i])]
  BY <1>1 DEF Run
<1> DEFINE after[i \in 0..Len(w)] == IF i = 0 THEN p ELSE Effect(after[i - 1], w[i])
<1>3. after = [i \in 0..Len(w) |-> IF i = 0 THEN p ELSE Effect(after[i - 1], w[i])]
  BY <1>2, Zenon
<1>4. Reached(p, w) = after[Len(w)]
  BY Zenon DEF Reached
<1> HIDE DEF after
<1>5. after[0] = p /\ \A i \in 1..Len(w) : after[i] = Effect(after[i - 1], w[i])
  BY <1>3
<1> QED  BY <1>4, <1>5

\* Where a replica is: its data, the database it has selected, its offset.
Places == [data : DataSets, db : Int, off : Int]

\* The effect of a command of the stream.
LEMMA EffectItem ==
    ASSUME NEW st \in Places, NEW item \in Items
    PROVE  LET e == Effect(st, item)
           IN  /\ e \in Places /\ e.off = st.off + 1 /\ e.data = DataAfter(st.data, st.db, item)
               /\ e.db = DbAfter(st.db, item)
<1> DEFINE e == Effect(st, item)
<1>1. st.data \in Seq(Int \X Int) /\ st.db \in Int /\ st.off \in Int /\ item.arg \in Int
  BY DEF Places, Items, DataSets
<1>2. item.type \in {"select", "write", "ping"}
  BY DEF Items, StreamTypes
<1>3. CASE item.type = "select"
  <2>1. e = [st EXCEPT !.db = item.arg, !.off = @ + 1]
    BY <1>3 DEF Effect
  <2>2. e = [data |-> st.data, db |-> item.arg, off |-> st.off + 1]
    BY <2>1 DEF Places
  <2>3. e.data = st.data /\ e.db = item.arg /\ e.off = st.off + 1
    BY <2>2
  <2>4. e \in Places
    BY <1>1, <2>2 DEF Places, DataSets
  <2> QED  BY <1>3, <2>3, <2>4 DEF DataAfter, DbAfter
<1>4. CASE item.type = "write"
  <2> DEFINE d == Append(st.data, <<st.db, item.arg>>)
  <2>1. e = [st EXCEPT !.data = d, !.off = @ + 1]
    BY <1>4 DEF Effect
  <2>2. d \in DataSets
    BY <1>1, AppendProperties DEF DataSets
  <2> HIDE DEF d
  <2>3. e = [data |-> d, db |-> st.db, off |-> st.off + 1]
    BY <2>1 DEF Places
  <2>4. e.data = d /\ e.db = st.db /\ e.off = st.off + 1
    BY <2>3
  <2>5. e \in Places
    BY <1>1, <2>2, <2>3 DEF Places
  <2> QED  BY <1>4, <2>4, <2>5 DEF DataAfter, DbAfter, d
<1>5. CASE item.type = "ping"
  <2>1. e = [st EXCEPT !.off = @ + 1]
    BY <1>5 DEF Effect
  <2>2. e.data = st.data /\ e.db = st.db /\ e.off = st.off + 1 /\ e \in Places
    BY <1>1, <2>1 DEF Places
  <2> QED  BY <1>5, <2>2 DEF DataAfter, DbAfter
<1> QED  BY <1>2, <1>3, <1>4, <1>5

\* The effect of the replies to PSYNC.
LEMMA EffectReply ==
    ASSUME NEW st \in Places, NEW msg \in Messages
    PROVE  /\ msg.type = "CONTINUE" => Effect(st, msg) = st
           /\ msg.type = "FULLRESYNC" => Effect(st, msg) \in Places /\ Effect(st, msg).off = msg.offset
           /\ msg.type = "RDB" => LET e == Effect(st, msg)
                                  IN  /\ e \in Places /\ e.off = st.off /\ e.data = msg.rdb.data
                                      /\ e.db = IF msg.rdb.stream_db = -1 THEN 0 ELSE msg.rdb.stream_db
<1> DEFINE e == Effect(st, msg)
<1>1. ASSUME msg.type = "CONTINUE"  PROVE e = st
  BY <1>1 DEF Effect
<1>2. ASSUME msg.type = "FULLRESYNC"  PROVE e \in Places /\ e.off = msg.offset
  <2>1. msg.offset \in Nat
    BY <1>2 DEF Messages, Items, StreamTypes
  <2>2. e = [st EXCEPT !.off = msg.offset]
    BY <1>2 DEF Effect
  <2> QED  BY <2>1, <2>2 DEF Places
<1>3. ASSUME msg.type = "RDB"
      PROVE  /\ e \in Places /\ e.off = st.off /\ e.data = msg.rdb.data
             /\ e.db = IF msg.rdb.stream_db = -1 THEN 0 ELSE msg.rdb.stream_db
  <2> DEFINE db == IF msg.rdb.stream_db = -1 THEN 0 ELSE msg.rdb.stream_db
  <2>1. msg.rdb \in Rdbs
    BY <1>3 DEF Messages, Items, StreamTypes
  <2>2. msg.rdb.data \in DataSets /\ db \in Int
    BY <2>1 DEF Rdbs
  <2>3. e = [st EXCEPT !.data = msg.rdb.data, !.db = db]
    BY <1>3 DEF Effect
  <2> HIDE DEF db
  <2>4. e.off = st.off /\ e.data = msg.rdb.data /\ e.db = db /\ e \in Places
    BY <2>2, <2>3 DEF Places
  <2> QED  BY <2>4 DEF db
<1> QED  BY <1>1, <1>2, <1>3

\* The replica is at the offset of the history.
Stands(h, off, st) == st \in Places /\ st.off = off /\ At(h, off, st.data, st.db)

\* Who stands in the history, and receives its stream, stands at its end.
LEMMA StreamLeads ==
    ASSUME NEW h \in Histories, NEW off \in Nat, NEW w \in Seq(Messages), NEW n \in Nat, n <= Len(w), Stream(h, off, n, w),
           NEW g, \A i \in 1..Len(w) : g[i] = Effect(g[i - 1], w[i]), Stands(h, off, g[n])
    PROVE  Stands(h, off + Len(w) - n, g[Len(w)])
<1> DEFINE S == {j \in Nat : Stands(h, off + j, g[n + j])}
           b == Len(w) - n
<1>1. Len(w) \in Nat /\ b \in Nat /\ h.hi \in Nat
  BY LenProperties DEF Histories
<1>2. 0 \in S
  <2>1. off + 0 = off /\ n + 0 = n
    OBVIOUS
  <2> QED  BY <2>1
<1>3. ASSUME NEW j \in 0..(b - 1), j \in S  PROVE j + 1 \in S
  <2> DEFINE i == n + j + 1
             o == off + j
  <2>1. i \in n + 1 .. Len(w) /\ i \in 1..Len(w) /\ i - 1 = n + j /\ o \in Nat /\ off + i - n - 1 = o /\ off + i - n = o + 1
    BY <1>1
  <2>2. o + 1 <= h.hi
    BY <1>1 DEF Stream
  <2>3. w[i] \in Items /\ Reaches(h.pos[o], w[i], h.pos[o + 1])
    BY <2>1 DEF Stream
  <2>4. Stands(h, o, g[i - 1])
    BY <1>3, <2>1
  <2>5. g[i] = Effect(g[i - 1], w[i])
    BY <2>1
  <2>6. i = n + (j + 1) /\ o + 1 = off + (j + 1) /\ j + 1 \in Nat
    BY <1>1
  <2> HIDE DEF i, o
  <2>7. g[i - 1] \in Places /\ g[i - 1].off = o /\ At(h, o, g[i - 1].data, g[i - 1].db)
    BY <2>4 DEF Stands
  <2>8. /\ g[i] \in Places /\ g[i].off = o + 1 /\ g[i].data = DataAfter(g[i - 1].data, g[i - 1].db, w[i])
        /\ g[i].db = DbAfter(g[i - 1].db, w[i])
    BY <2>3, <2>5, <2>7, EffectItem
  <2>9. At(h, o + 1, g[i].data, g[i].db)
    BY <2>2, <2>3, <2>7, <2>8, AtReaches
  <2>10. Stands(h, o + 1, g[i])
    BY <2>8, <2>9 DEF Stands
  <2> QED  BY <2>6, <2>10
<1>4. b \in 0..b /\ off + b = off + Len(w) - n /\ n + b = Len(w)
  BY <1>1
<1> HIDE DEF S, b
<1>5. b \in S
  BY <1>1, <1>2, <1>3, <1>4, Climb
<1>6. Stands(h, off + b, g[n + b])
  BY <1>5 DEF S
<1> QED  BY <1>4, <1>6

\* After the replies to its PSYNC, the replica stands in the history.
LEMMA HeaderLeads ==
    ASSUME NEW H, IsBook(H), NEW me \in ServerTypes, ServerOK(me), ServerAt(H, me, setup.ttl), NEW w \in Seq(Messages),
           NEW id, NEW off \in Nat, NEW n \in 0..2, Header(me, w, id, off, n), HeaderAt(H, me, w, id, off, n),
           NEW g, g[0] = Position(me), \A i \in 1..Len(w) : g[i] = Effect(g[i - 1], w[i])
    PROVE  Stands(H[id], off, g[n])
<1>1. Len(w) \in Nat /\ n <= Len(w) /\ \A i \in 1..Len(w) : w[i] \in Messages
  BY LenProperties, ElementOfSeq, HeaderTypes
<1>2. /\ me.data \in DataSets /\ me.master_initial_offset \in Int /\ me.master_repl_offset \in Nat
      /\ me.master \in Masters \cup {None} /\ me.cached_master \in Masters \cup {None}
  BY DEF ServerTypes
<1>3. \A x \in Masters : x.db \in Int /\ x.reploff \in Nat
  BY DEF Masters
<1>4. g[0] \in Places /\ g[0].data = me.data
  BY <1>2, <1>3 DEF Position, Places
<1>5. CASE me.repl_state = "CONNECTED" /\ n = 0 /\ id = me.replid /\ off = me.master_repl_offset
  <2>1. me.master # None /\ me.cached_master = None /\ me.master_repl_offset = me.master.reploff
    BY <1>5 DEF ServerOK
  <2>2. g[0].db = me.master.db /\ g[0].off = me.master.reploff
    <3>1. g[0] = [data |-> me.data, db |-> me.master.db, off |-> me.master.reploff]
      BY <2>1 DEF Position
    <3> QED  BY <3>1
  <2>3. At(H[id], off, me.data, me.master.db)
    BY <1>5, <2>1 DEF ServerAt
  <2> QED  BY <1>4, <1>5, <2>1, <2>2, <2>3 DEF Stands
<1>6. CASE /\ me.repl_state = "TRANSFER" /\ n = 1 /\ Len(w) >= 1 /\ w[1].type = "RDB"
           /\ id = me.master_replid /\ off = me.master_initial_offset
  <2>1. me.master = None /\ me.cached_master = None
    BY <1>6 DEF ServerOK
  <2>2. g[0].off = off
    BY <1>6, <2>1 DEF Position
  <2>3. 1 \in 1..Len(w) /\ 1 - 1 = 0
    BY <1>1, <1>6
  <2>4. w[1] \in Messages /\ g[1] = Effect(g[0], w[1])
    BY <1>1, <2>3
  <2>5. Loads(H[id], off, w[1].rdb)
    BY <1>6 DEF HeaderAt
  <2>6. /\ g[1] \in Places /\ g[1].off = off /\ g[1].data = w[1].rdb.data
        /\ g[1].db = IF w[1].rdb.stream_db = -1 THEN 0 ELSE w[1].rdb.stream_db
    BY <1>4, <1>6, <2>2, <2>4, EffectReply
  <2> QED  BY <1>6, <2>5, <2>6 DEF Stands, Loads
<1>7. CASE /\ me.repl_state = "RECEIVE_PSYNC" /\ n = 1 /\ Len(w) >= 1 /\ w[1].type = "CONTINUE"
           /\ id = w[1].replid /\ off = me.master_repl_offset
  <2>1. me.master = None /\ me.cached_master # None /\ Shared(H, me.replid, id, off)
    BY <1>7 DEF ServerOK, HeaderAt
  <2>2. me.cached_master.reploff = off
    BY <1>7, <2>1 DEF ServerOK
  <2>3. g[0].off = off /\ g[0].db = me.cached_master.db
    BY <2>1, <2>2 DEF Position
  <2>4. At(H[me.replid], off, me.data, me.cached_master.db)
    BY <1>7, <2>1 DEF ServerAt, Shared
  <2>5. At(H[id], off, me.data, me.cached_master.db)
    BY <2>1, <2>4, AtShared
  <2>6. 1 \in 1..Len(w) /\ 1 - 1 = 0
    BY <1>1, <1>7
  <2>7. w[1] \in Messages /\ g[1] = Effect(g[0], w[1])
    BY <1>1, <2>6
  <2>8. g[1] = g[0]
    BY <1>4, <1>7, <2>7, EffectReply
  <2> QED  BY <1>4, <1>7, <2>3, <2>5, <2>8 DEF Stands
<1>8. CASE /\ me.repl_state = "RECEIVE_PSYNC" /\ n = 2 /\ Len(w) >= 2 /\ w[1].type = "FULLRESYNC"
           /\ w[2].type = "RDB" /\ id = w[1].replid /\ off = w[1].offset
  <2>1. 1 \in 1..Len(w) /\ 2 \in 1..Len(w) /\ 1 - 1 = 0 /\ 2 - 1 = 1
    BY <1>1, <1>8
  <2>2. w[1] \in Messages /\ w[2] \in Messages /\ g[1] = Effect(g[0], w[1]) /\ g[2] = Effect(g[1], w[2])
    BY <1>1, <2>1
  <2>3. Loads(H[id], off, w[2].rdb)
    BY <1>8 DEF HeaderAt
  <2>4. g[1] \in Places /\ g[1].off = off
    BY <1>4, <1>8, <2>2, EffectReply
  <2>5. /\ g[2] \in Places /\ g[2].off = off /\ g[2].data = w[2].rdb.data
        /\ g[2].db = IF w[2].rdb.stream_db = -1 THEN 0 ELSE w[2].rdb.stream_db
    BY <1>8, <2>2, <2>4, EffectReply
  <2> QED  BY <1>8, <2>3, <2>5 DEF Stands, Loads
<1> QED  BY <1>5, <1>6, <1>7, <1>8 DEF Header

\* A server with slaves is in its history, at its offset.
LEMMA MasterStands ==
    ASSUME NEW H, NEW m, m.backlog # None, ServerAt(H, m, setup.ttl)
    PROVE  m.replid \in DOMAIN H /\ m.data = H[m.replid].pos[m.master_repl_offset].data
<1>1. m.replid \in DOMAIN H
  BY DEF ServerAt, BacklogAt
<1>2. CASE m.masterhost = NoOne
  <2>1. MasterAt(H[m.replid], m)
    BY <1>2 DEF ServerAt, Owner
  <2> QED  BY <1>1, <2>1 DEF MasterAt
<1>3. CASE m.masterhost # NoOne
  BY <1>1, <1>3 DEF ServerAt, At
<1> QED  BY <1>1, <1>2, <1>3

\* All that is on its way leads each replica to its master's data.
LEMMA FitConverges == ASSUME IInv, Fits  PROVE ReplicaConverges
<1>1. PICK H : FitsIn(H, srv, conn, used.ids)
  BY DEF Fits
<1> SUFFICES ASSUME NEW s \in Servers, Attached(s)
             PROVE  /\ Reached(Position(srv[s]), OnTheWay(s)).data = srv[conn[s].to].data
                    /\ Reached(Position(srv[s]), OnTheWay(s)).off = srv[conn[s].to].master_repl_offset
  BY DEF ReplicaConverges
<1> DEFINE me == srv[s]
           k == conn[s]
           m == srv[k.to]
           w == OnTheWay(s)
           end == m.master_repl_offset
<1>2. k # None /\ Follows(k) /\ k \in Conns /\ k.to \in Servers
  BY DEF Attached, Follows, IInv, Links, Conns
<1>3. /\ me \in ServerTypes /\ ServerOK(me) /\ m \in ServerTypes
      /\ IsBook(H) /\ ServerAt(H, me, setup.ttl) /\ ServerAt(H, m, setup.ttl) /\ LinkAt(H, k, me, m)
  BY <1>1, <1>2 DEF FitsIn, IInv
<1>4. m.backlog # None
  BY <1>2 DEF IInv, SlavesHaveBacklog, IsSlaveOf, Follows
<1>5. m.rdb_child \in Children \cup {None} /\ (k.replstate = "WAIT_BGSAVE_END" => m.rdb_child # None) /\ end \in Nat
  BY <1>3 DEF LinkAt, Waits, ServerTypes
<1>6. w = Coming(k, m.rdb_child)
  <2>1. CASE k.replstate = "WAIT_BGSAVE_END"
    BY <2>1, <1>5 DEF OnTheWay, Coming, Pending, FileMsg
  <2>2. CASE k.replstate = "SEND_BULK"
    BY <2>2 DEF OnTheWay, Coming, Pending, FileMsg
  <2>3. CASE k.replstate = "ONLINE"
    BY <2>3 DEF OnTheWay, Coming, Pending
  <2> QED  BY <2>1, <2>2, <2>3, <1>2 DEF Follows
<1>7. w \in Seq(Messages) /\ Len(w) \in Nat
  BY <1>2, <1>5, <1>6, ComingOK, LenProperties
<1>8. Leads(H, me, w, m.replid, end)
  BY <1>2, <1>3, <1>6 DEF LinkAt
<1> HIDE DEF me, k, m, w, end
<1>9. PICK off \in Nat, n \in 0..2 : Good(H, me, w, m.replid, off, n) /\ off + Len(w) - n = end
  BY <1>8 DEF Leads
<1>10. Header(me, w, m.replid, off, n) /\ HeaderAt(H, me, w, m.replid, off, n) /\ Stream(H[m.replid], off, n, w)
  BY <1>9 DEF Good
<1>11. PICK g : /\ g[0] = Position(me) /\ (\A i \in 1..Len(w) : g[i] = Effect(g[i - 1], w[i]))
                /\ Reached(Position(me), w) = g[Len(w)]
  BY <1>7, ReachedIs
<1>12. Stands(H[m.replid], off, g[n])
  BY <1>3, <1>7, <1>10, <1>11, HeaderLeads
<1>13. m.replid \in DOMAIN H /\ m.data = H[m.replid].pos[end].data
  BY <1>3, <1>4, MasterStands DEF end
<1>14. H[m.replid] \in Histories /\ n \in Nat /\ n <= Len(w)
  BY <1>3, <1>7, <1>10, <1>13, BookOK, HeaderTypes
<1>15. Stands(H[m.replid], off + Len(w) - n, g[Len(w)])
  BY <1>7, <1>10, <1>11, <1>12, <1>14, StreamLeads
<1>16. Stands(H[m.replid], end, g[Len(w)])
  BY <1>9, <1>15
<1>17. g[Len(w)].data = m.data /\ g[Len(w)].off = end
  BY <1>13, <1>16 DEF Stands, At
<1> QED  BY <1>11, <1>17 DEF me, k, m, w, end

\* A replica that has received all that is on its way has exactly the data of
\* its master, in the same databases, and its offset: for every number of
\* servers, every size of the backlog, and every sequence of writes, resyncs,
\* broken links, restarts and role changes; a deployment whose masters free
\* their backlogs (repl-backlog-ttl) has fixed roles (ReplicaConverges).
THEOREM ReplicasConverge == Spec => [](FixedRoles => ReplicaConverges)
<1> DEFINE Inv == IInv /\ (FixedRoles => Fits)
<1>1. Init => Inv
  BY InitOK, InitFits
<1>2. Inv /\ [Next]_vars => Inv'
  <2> SUFFICES ASSUME Inv, [Next]_vars  PROVE Inv'
    OBVIOUS
  <2>1. IInv'
    BY NextOK
  <2>2. setup' = setup
    BY DEF Next, vars
  <2>3. FixedRoles' <=> FixedRoles
    BY <2>2 DEF FixedRoles, Limit
  <2>4. ASSUME FixedRoles  PROVE Fits'
    BY <2>1, <2>4, NextFits, StutterFits
  <2> QED  BY <2>1, <2>3, <2>4
<1>3. Inv => (FixedRoles => ReplicaConverges)
  BY FitConverges
<1> HIDE DEF Inv
<1> QED  BY <1>1, <1>2, <1>3, PTL DEF Spec
=============================================================================
