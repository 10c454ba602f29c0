------------------------------ MODULE Cluster ------------------------------
(***************************************************************************)
(* The Redis Cluster bus (cluster.c): failure detection by gossip, slave   *)
(* election, configuration epochs, propagation of the slot table, manual   *)
(* failover, and nodes.conf across crashes.                                *)
(*                                                                         *)
(* The membership is fixed: the nodes already know each other (handshake,  *)
(* MEET and FORGET are not modelled) and their ids are naturals, ordered   *)
(* like the names the code compares with memcmp.  Wall-clock conditions    *)
(* are nondeterministic: a timer is an action that may fire as soon as     *)
(* the thing it waits for has started.                                     *)
(*                                                                         *)
(* A node's handlers are operators on its state record `s`: they return    *)
(* the record with the messages it queued (s.out) and its                  *)
(* todo_before_sleep flags (s.todo).  Queued messages reach the socket     *)
(* only when the event loop polls again, after clusterBeforeSleep ran, so  *)
(* a handler and the clusterBeforeSleep that follows it are one step.      *)
(***************************************************************************)
EXTENDS Naturals, Sequences, FiniteSets, FiniteSetsExt, SequencesExt

CONSTANTS
    None,     \* the NULL node, and "no limit"
    Setups,   \* the situations that are looked at
    Start     \* the nodes' state at the start, for the name of a situation

-----------------------------------------------------------------------------
\* The state of one node

\* What a node records of a peer, or of itself (clusterNode).  'pinged' is
\* ping_sent # 0, 'voted' is voted_time # 0.
Peer(nodes) ==
    [slave: BOOLEAN, slaveof: nodes \cup {None}, configEpoch: Nat,
     flag: {"ok", "pfail", "fail"}, reports: SUBSET nodes, pinged: BOOLEAN, voted: BOOLEAN]

\* failover_auth_time seen from now: a new attempt may be scheduled, its delay
\* is running, votes may be asked for and counted, the attempt is too old.
Phases == {"retry", "delay", "open", "expired"}

\* A node between two turns of its event loop: nothing is queued (out), asked for
\* before it sleeps (todo), or noted for the history (log).
NodeState(nodes, slots) ==
    [me: nodes, up: BOOLEAN, currentEpoch: Nat, lastVoteEpoch: Nat,
     known: [nodes -> Peer(nodes)], slots: [slots -> nodes \cup {None}],
     size: Nat, state: {"ok", "fail"}, booting: BOOLEAN, minority: BOOLEAN,
     auth: Phases, auth_sent: BOOLEAN, auth_epoch: Nat, auth_count: Nat,
     mf_end: BOOLEAN, mf_can_start: BOOLEAN, mf_slave: nodes \cup {None},
     mf_master_offset: Nat, mf_id: Nat, paused: BOOLEAN, offset: Nat,
     out: {<<>>}, todo: {{}}, log: {{}}]

-----------------------------------------------------------------------------
\* Situations

\* A situation: its name; the nodes and the hash slots; the pairs <<n, m>> such
\* that n's cron may ping m, n's link to m may break and be set up again, n may
\* wait for m's pong longer than the timeout; the nodes that may crash; the
\* CLUSTER FAILOVER commands <<n, option>> clients may send; how often each event
\* of Events happens at most (None: no limit); how many messages wait between two
\* nodes at most when a ping is sent; and whether votes may arrive after
\* auth_retry_time.
Events == {"ping", "reconnect", "timeout", "crash", "manual", "takeover", "write", "attempt"}
IsSetup(u) ==
    /\ u.nodes \subseteq Nat /\ None \notin u.nodes /\ IsFiniteSet(u.nodes)
    /\ u.slots \subseteq Nat /\ IsFiniteSet(u.slots)
    /\ u.pings \cup u.reconnects \cup u.timeouts
          \subseteq {pair \in u.nodes \X u.nodes : pair[1] # pair[2]}
    /\ u.crashers \subseteq u.nodes
    /\ u.failovers \subseteq u.nodes \X {"", "force", "takeover"}
    /\ u.max \in [Events -> Nat \cup {None}]
    /\ u.channel \in Nat /\ u.latevotes \in BOOLEAN

\* What the nodes of a situation are like at the start: no failover is under way,
\* a slave serves no slot, and a node flagged as failing is so by as many masters
\* as a majority of those that serve a slot each.
StartOK(s, n) ==
    /\ s.me = n /\ s.known[n].slaveof # n
    /\ \A m \in DOMAIN s.known : /\ s.known[m].slave <=> s.known[m].slaveof # None
                                /\ s.known[m].reports = {} /\ s.known[m].flag # "pfail"
    /\ s.known[n].slave => \A x \in DOMAIN s.slots : s.slots[x] # n
    /\ s.lastVoteEpoch <= s.currentEpoch
    /\ s.auth = "retry" /\ s.auth_count = 0

IsStart(u) ==
    /\ Start[u.name] \in [u.nodes -> NodeState(u.nodes, u.slots)]
    /\ \A n \in u.nodes : StartOK(Start[u.name][n], n)
    /\ \A m \in u.nodes :
         LET failing == {n \in u.nodes : Start[u.name][n].known[m].flag = "fail"}
         IN failing # {} => Cardinality({n \in failing : ~Start[u.name][n].known[n].slave})
                            >= Cardinality(u.slots) \div 2 + 1

ASSUME ClusterAssumption == \A u \in Setups : IsSetup(u) /\ IsStart(u)

VARIABLES
    setup,  \* the situation; never changes
    node,   \* the nodes' memory
    disk,   \* their nodes.conf files
    net,    \* the messages in flight, on the channels where there are any
    used,   \* how much of each bound is spent
    hist    \* history: votes granted, elections won, nodes once suspected

vars == <<setup, node, disk, net, used, hist>>

Nodes == setup.nodes
Slots == setup.slots
Limit == setup.max

-----------------------------------------------------------------------------
\* What a node knows

\* The macros of cluster.h on what s knows of m, and the counters kept there.
IsSlave(s, m) == s.known[m].slave
IsMaster(s, m) == ~s.known[m].slave
Failed(s, m) == s.known[m].flag = "fail"
TimedOut(s, m) == s.known[m].flag = "pfail"
SlotsOf(s, m) == {x \in Slots : s.slots[x] = m}
NumSlots(s, m) == Cardinality(SlotsOf(s, m))
MyMaster(s) == s.known[s.me].slaveof

\* clusterDoBeforeSleep
Todo(s, flags) == [s EXCEPT !.todo = @ \cup flags]

\* A field of a known node changes.
SetPeer(s, m, p) == [s EXCEPT !.known = [s.known EXCEPT ![m] = p]]

-----------------------------------------------------------------------------
\* Sending

\* The messages of a channel, of those that wait on some channels; more messages
\* on the channels of a set.
On(chans, c) == IF c \in DOMAIN chans THEN chans[c] ELSE <<>>
Queue(chans, cs, msgs) ==
    [c \in DOMAIN chans \cup cs |-> IF c \in cs THEN On(chans, c) \o msgs ELSE chans[c]]

\* clusterSendMessage: queue messages for each node of 'to', on the link s opened
\* to it ("own") or on the link a ping of it came from ("reply").
clusterSendMessage(s, to, kind, msgs) ==
    [s EXCEPT !.out = Queue(@, {<<s.me, m, kind>> : m \in to}, msgs)]

\* clusterBuildMessageHdr: a slave announces its master's slots and epoch.
clusterBuildMessageHdr(s, type, data) ==
    LET master == IF IsSlave(s, s.me) /\ MyMaster(s) # None
                  THEN MyMaster(s) ELSE s.me
    IN [type |-> type, sender |-> s.me, myslots |-> SlotsOf(s, master),
        slaveof |-> MyMaster(s), currentEpoch |-> s.currentEpoch,
        configEpoch |-> s.known[master].configEpoch, offset |-> s.offset,
        paused |-> IsMaster(s, s.me) /\ s.mf_end, data |-> data]

\* clusterSendPing: the gossip section carries the flags of the other nodes.
clusterSendPing(s, to, kind, type) ==
    clusterSendMessage(s, to, kind,
        <<clusterBuildMessageHdr(s, type, [m \in Nodes \ {s.me} |-> s.known[m].flag])>>)

Others(s) == Nodes \ {s.me}

\* clusterBroadcastPong to every node, or to the slaves of the same master.
clusterBroadcastPong(s, target) ==
    LET local == {m \in Others(s) : /\ IsSlave(s, m)
                                    /\ s.known[m].slaveof # None
                                    /\ s.known[m].slaveof \in {s.me, MyMaster(s)}}
    IN clusterSendPing(s, IF target = "all" THEN Others(s) ELSE local, "own", "pong")

\* clusterSendFail, about each of the nodes ms.
clusterSendFail(s, ms) ==
    LET each == SetToSeq(ms)
    IN clusterSendMessage(s, Others(s), "own",
          [i \in 1..Cardinality(ms) |-> clusterBuildMessageHdr(s, "fail", each[i])])

\* clusterSendUpdate: what s knows of node m, sent to node 'to'.
clusterSendUpdate(s, to, m) ==
    clusterSendMessage(s, {to}, "own",
        <<clusterBuildMessageHdr(s, "update",
            [about |-> m, epoch |-> s.known[m].configEpoch, slots |-> SlotsOf(s, m)])>>)

\* clusterRequestFailoverAuth
clusterRequestFailoverAuth(s) ==
    clusterSendMessage(s, Others(s), "own", <<clusterBuildMessageHdr(s, "auth_request", s.mf_end)>>)

\* The vote that answers it.
clusterSendFailoverAuth(s, m) ==
    clusterSendMessage(s, {m}, "own", <<clusterBuildMessageHdr(s, "auth_ack", None)>>)

-----------------------------------------------------------------------------
\* Cluster state, roles and slots

\* clusterUpdateState.  A master that restarted keeps its state, and its
\* cluster size, until CLUSTER_WRITABLE_DELAY is over ('booting'); a master
\* that was in a minority turns ok again only after the rejoin delay
\* ('minority': among_minority_time is recent).
clusterUpdateState(s) ==
    LET size == {m \in Nodes : IsMaster(s, m) /\ NumSlots(s, m) > 0}
        reachable == {m \in size : s.known[m].flag = "ok"}
        quorum == Cardinality(size) \div 2 + 1
        few == Cardinality(reachable) < quorum
        covered == \A x \in Slots : s.slots[x] # None /\ ~Failed(s, s.slots[x])
        wait == s.state = "fail" /\ IsMaster(s, s.me) /\ s.minority
    IN IF IsMaster(s, s.me) /\ s.state = "fail" /\ s.booting THEN s
       ELSE [s EXCEPT !.size = Cardinality(size), !.minority = @ \/ few,
                      !.state = IF ~covered \/ few \/ wait THEN "fail" ELSE "ok"]

\* resetManualFailover
resetManualFailover(s) ==
    [s EXCEPT !.paused = IF s.mf_end THEN FALSE ELSE @, !.mf_end = FALSE,
              !.mf_can_start = FALSE, !.mf_slave = None, !.mf_master_offset = 0]

\* clusterSetNodeAsMaster
clusterSetNodeAsMaster(s, m) ==
    IF IsMaster(s, m) THEN s
    ELSE Todo(SetPeer(s, m, [s.known[m] EXCEPT !.slave = FALSE, !.slaveof = None]),
              {"save", "state"})

\* clusterSetMaster, with its two assertions; replicationSetMaster is the
\* replication link, which Replicate below follows.
clusterSetMaster(s, m) ==
    LET me == [s.known[s.me] EXCEPT !.slave = TRUE, !.slaveof = m]
    IN [resetManualFailover(SetPeer(s, s.me, me)) EXCEPT
            !.log = IF m = s.me \/ NumSlots(s, s.me) # 0
                    THEN @ \cup {<<s.me, "assert", m>>} ELSE @]

\* clusterUpdateSlotsConfigWith: m claims 'slots' under 'epoch'.
clusterUpdateSlotsConfigWith(s, m, epoch, slots) ==
    LET curmaster == IF IsMaster(s, s.me) THEN s.me ELSE MyMaster(s)
        taken == {x \in slots : /\ s.slots[x] # m
                                /\ \/ s.slots[x] = None
                                   \/ s.known[s.slots[x]].configEpoch < epoch}
        bound == [s EXCEPT !.slots = [x \in Slots |-> IF x \in taken THEN m
                                                      ELSE s.slots[x]]]
        flagged == IF taken = {} THEN bound ELSE Todo(bound, {"save", "state"})
    IN IF m = s.me THEN s
       ELSE IF /\ \E x \in taken : s.slots[x] = curmaster
               /\ NumSlots(bound, curmaster) = 0
            THEN clusterSetMaster(flagged, m)
            ELSE flagged

\* clusterGetMaxEpoch
clusterGetMaxEpoch(s) ==
    Max({s.known[m].configEpoch : m \in Nodes} \cup {s.currentEpoch})

\* The node gives itself a new epoch without asking anyone.
NewConfigEpoch(s) ==
    LET me == [s.known[s.me] EXCEPT !.configEpoch = s.currentEpoch + 1]
    IN Todo([SetPeer(s, s.me, me) EXCEPT !.currentEpoch = @ + 1], {"save"})

\* clusterBumpConfigEpochWithoutConsensus
clusterBumpConfigEpochWithoutConsensus(s) ==
    LET mine == s.known[s.me].configEpoch
    IN IF mine = 0 \/ mine # clusterGetMaxEpoch(s) THEN NewConfigEpoch(s) ELSE s

\* clusterHandleConfigEpochCollision
clusterHandleConfigEpochCollision(s, m) ==
    IF /\ s.known[m].configEpoch = s.known[s.me].configEpoch
       /\ IsMaster(s, m) /\ IsMaster(s, s.me)
       /\ m > s.me
    THEN NewConfigEpoch(s) ELSE s

-----------------------------------------------------------------------------
\* Failover

\* Mutant: the new master serves the slots under the old master's epoch.
clusterFailoverReplaceYourMaster_OldEpoch(s) ==
    LET old == MyMaster(s)
        mine == [s EXCEPT !.slots = [x \in Slots |-> IF s.slots[x] = old THEN s.me
                                                     ELSE s.slots[x]]]
        me == [s.known[s.me] EXCEPT !.configEpoch = s.known[old].configEpoch]
    IN IF IsMaster(s, s.me) \/ old = None THEN s
       ELSE Todo(resetManualFailover(clusterBroadcastPong(clusterUpdateState(
              clusterSetNodeAsMaster(SetPeer(mine, s.me, me), s.me)), "all")), {"save"})

\* clusterFailoverReplaceYourMaster
clusterFailoverReplaceYourMaster(s) ==
    LET old == MyMaster(s)
        mine == [s EXCEPT !.slots = [x \in Slots |-> IF s.slots[x] = old THEN s.me
                                                     ELSE s.slots[x]]]
    IN IF IsMaster(s, s.me) \/ old = None THEN s
       ELSE Todo(resetManualFailover(clusterBroadcastPong(
                clusterUpdateState(clusterSetNodeAsMaster(mine, s.me)), "all")),
                {"save"})

\* clusterHandleSlaveFailover.  The data age check, which only makes the slave
\* wait, and the delay added for the slave's rank are part of the time that
\* may pass between two calls.
clusterHandleSlaveFailover(s) ==
    LET needed_quorum == s.size \div 2 + 1
        needed == /\ IsSlave(s, s.me) /\ MyMaster(s) # None
                  /\ Failed(s, MyMaster(s)) \/ (s.mf_end /\ s.mf_can_start)
                  /\ NumSlots(s, MyMaster(s)) # 0
        asked == [s EXCEPT !.currentEpoch = @ + 1,
                           !.auth_epoch = s.currentEpoch + 1]
        me == s.known[s.me]
        won == SetPeer(s, s.me,
                 [me EXCEPT !.configEpoch = Max({@, s.auth_epoch})])
    IN CASE needed /\ s.auth = "retry" ->
              clusterBroadcastPong(
                [s EXCEPT !.auth = IF s.mf_end THEN "open" ELSE "delay",
                          !.auth_count = 0, !.auth_sent = FALSE], "local")
         [] needed /\ s.auth = "open" /\ ~s.auth_sent ->
              Todo([clusterRequestFailoverAuth(asked) EXCEPT !.auth_sent = TRUE],
                   {"save", "state"})
         [] needed /\ s.auth = "open" /\ s.auth_sent /\ s.auth_count >= needed_quorum ->
              clusterFailoverReplaceYourMaster(
                [won EXCEPT !.log = @ \cup {<<s.me, "won", s.auth_epoch>>}])
         [] OTHER -> s

\* Mutant: the slave does not wait for the master's offset to be processed.
clusterHandleManualFailover_NoWait(s) ==
    IF s.mf_end /\ ~s.mf_can_start /\ s.mf_master_offset # 0
    THEN [s EXCEPT !.mf_can_start = TRUE] ELSE s

\* clusterHandleManualFailover
clusterHandleManualFailover(s) ==
    IF /\ s.mf_end /\ ~s.mf_can_start /\ s.mf_master_offset # 0
       /\ s.mf_master_offset = s.offset
    THEN [s EXCEPT !.mf_can_start = TRUE] ELSE s

\* Mutant: lastVoteEpoch and voted_time are not looked at.
clusterSendFailoverAuthIfNeeded_Again(s, m, p, aged) ==
    IF \/ IsSlave(s, s.me) \/ NumSlots(s, s.me) = 0
       \/ p.currentEpoch < s.currentEpoch \/ IsMaster(s, m)
       \/ s.known[m].slaveof = None
       \/ ~Failed(s, s.known[m].slaveof) /\ ~p.data
    THEN s
    ELSE [clusterSendFailoverAuth(s, m)
            EXCEPT !.lastVoteEpoch = s.currentEpoch,
                   !.log = @ \cup {<<s.me, "vote", s.currentEpoch, m>>}]

\* clusterSendFailoverAuthIfNeeded: vote for slave m, who sent request p.
\* 'aged' says whether 2 * node_timeout passed since the last vote about m's
\* master.
clusterSendFailoverAuthIfNeeded(s, m, p, aged) ==
    LET master == s.known[m].slaveof
        newer(x) == /\ s.slots[x] # None
                    /\ s.known[s.slots[x]].configEpoch > p.configEpoch
    IN IF \/ IsSlave(s, s.me) \/ NumSlots(s, s.me) = 0
          \/ p.currentEpoch < s.currentEpoch
          \/ s.lastVoteEpoch = s.currentEpoch
          \/ IsMaster(s, m) \/ master = None
          \/ ~Failed(s, master) /\ ~p.data
          \/ s.known[master].voted /\ ~aged
          \/ \E x \in p.myslots : newer(x)
       THEN s
       ELSE LET voted == [s.known[master] EXCEPT !.voted = TRUE]
            IN [SetPeer(clusterSendFailoverAuth(s, m), master, voted) EXCEPT
                    !.lastVoteEpoch = s.currentEpoch,
                    !.log = @ \cup {<<s.me, "vote", s.currentEpoch, m>>}]

-----------------------------------------------------------------------------
\* Failure detection

\* Mutant: half of the masters are enough.
markNodeAsFailingIfNeeded_Half(s, ms) ==
    LET failures(m) == Cardinality(s.known[m].reports) + (IF IsMaster(s, s.me) THEN 1 ELSE 0)
        failing == {m \in ms : TimedOut(s, m) /\ failures(m) >= s.size \div 2}
        failed == [s EXCEPT !.known = [m \in Nodes |->
                     IF m \in failing THEN [s.known[m] EXCEPT !.flag = "fail"] ELSE s.known[m]]]
    IN IF failing = {} THEN s ELSE Todo(clusterSendFail(failed, failing), {"state", "save"})

\* markNodeAsFailingIfNeeded, for the nodes of ms.
markNodeAsFailingIfNeeded(s, ms) ==
    LET failures(m) == Cardinality(s.known[m].reports) + (IF IsMaster(s, s.me) THEN 1 ELSE 0)
        failing == {m \in ms : TimedOut(s, m) /\ failures(m) >= s.size \div 2 + 1}
        failed == [s EXCEPT !.known = [m \in Nodes |->
                     IF m \in failing THEN [s.known[m] EXCEPT !.flag = "fail"] ELSE s.known[m]]]
        told == IF IsMaster(s, s.me) THEN clusterSendFail(failed, failing) ELSE failed
    IN IF failing = {} THEN s ELSE Todo(told, {"state", "save"})

\* clearNodeFailureIfNeeded; 'old' says that fail_time is old enough.
clearNodeFailureIfNeeded(s, m, old) ==
    IF IsSlave(s, m) \/ NumSlots(s, m) = 0 \/ old
    THEN Todo(SetPeer(s, m, [s.known[m] EXCEPT !.flag = "ok"]), {"state", "save"})
    ELSE s

\* clusterProcessGossipSection of a packet from a master: reports are added and
\* withdrawn.  No entry depends on another, so all are processed together.
GossipReports(s, p) ==
    [s EXCEPT !.known = [m \in Nodes |->
        IF m \in {s.me, p.sender} THEN s.known[m]
        ELSE [s.known[m] EXCEPT !.reports = IF p.data[m] = "ok" THEN @ \ {p.sender}
                                            ELSE @ \cup {p.sender}]]]

clusterProcessGossipSection(s, p) ==
    IF IsMaster(s, p.sender)
    THEN markNodeAsFailingIfNeeded(GossipReports(s, p),
            {m \in Nodes \ {s.me, p.sender} : p.data[m] # "ok"})
    ELSE s

-----------------------------------------------------------------------------
\* Receiving: clusterProcessPacket

\* Every packet: epochs of the sender, and the offset of a paused master.
ProcessHeader(s, p) ==
    LET sender == s.known[p.sender]
        newer == p.configEpoch > sender.configEpoch
        known == IF newer
                 THEN Todo(SetPeer(s, p.sender,
                            [sender EXCEPT !.configEpoch = p.configEpoch]), {"save"})
                 ELSE s
        offset == /\ s.mf_end /\ IsSlave(s, s.me) /\ MyMaster(s) = p.sender
                  /\ p.paused /\ s.mf_master_offset = 0
    IN [known EXCEPT !.currentEpoch = Max({@, p.currentEpoch}),
                     !.mf_master_offset = IF offset THEN p.offset ELSE @]

\* A pong on the link this node opened: the peer is reachable again.
ProcessPong(s, m, old) ==
    LET got == SetPeer(s, m, [s.known[m] EXCEPT !.pinged = FALSE])
    IN CASE TimedOut(s, m) ->
              Todo(SetPeer(got, m, [got.known[m] EXCEPT !.flag = "ok"]),
                   {"save", "state"})
         [] Failed(s, m) -> clearNodeFailureIfNeeded(got, m, old)
         [] OTHER -> got

\* The role the sender announces.
ProcessRole(s, p) ==
    LET m == p.sender
        demoted == [s EXCEPT !.slots = [x \in Slots |-> IF s.slots[x] = m THEN None
                                                        ELSE s.slots[x]]]
        was == IF IsMaster(s, m) THEN Todo(demoted, {"save", "state"}) ELSE s
        slave == [was.known[m] EXCEPT !.slave = TRUE, !.slaveof = p.slaveof]
    IN CASE p.slaveof = None -> clusterSetNodeAsMaster(s, m)
         [] p.slaveof # None -> IF s.known[m].slave /\ s.known[m].slaveof = p.slaveof THEN s
                                ELSE Todo(SetPeer(was, m, slave), {"save"})

\* Mutant: a sender with a stale claim is not told.
ProcessSlots_NoUpdate(s, p) ==
    LET m == p.sender
    IN IF IsMaster(s, m) /\ SlotsOf(s, m) # p.myslots
       THEN clusterUpdateSlotsConfigWith(s, m, p.configEpoch, p.myslots) ELSE s

\* The slots the sender claims: take its newer configuration, tell it about
\* ours when ours is newer for one of them (the code stops at the first).
ProcessSlots(s, p) ==
    LET m == p.sender
        master == IF IsMaster(s, m) THEN m ELSE s.known[m].slaveof
        dirty == master # None /\ SlotsOf(s, master) # p.myslots
        t == IF IsMaster(s, m) /\ dirty
             THEN clusterUpdateSlotsConfigWith(s, m, p.configEpoch, p.myslots)
             ELSE s
        stale == {x \in p.myslots : /\ t.slots[x] \notin {m, None}
                                    /\ t.known[t.slots[x]].configEpoch > p.configEpoch}
        first == CHOOSE x \in stale : \A y \in stale : x <= y
    IN IF dirty /\ stale # {} THEN clusterSendUpdate(t, m, t.slots[first]) ELSE t

\* PING and PONG.  A pong answers on the link the ping was sent on, so only
\* there link->node is set.
ProcessPing(s, p, kind, old) ==
    LET replied == IF p.type = "ping"
                   THEN clusterSendPing(s, {p.sender}, "reply", "pong") ELSE s
        heard == IF kind = "reply" THEN ProcessPong(replied, p.sender, old)
                 ELSE replied
        slots == ProcessSlots(ProcessRole(heard, p), p)
        collide == /\ IsMaster(slots, slots.me) /\ IsMaster(slots, p.sender)
                   /\ p.configEpoch = slots.known[slots.me].configEpoch
        solved == IF collide THEN clusterHandleConfigEpochCollision(slots, p.sender)
                  ELSE slots
    IN clusterProcessGossipSection(solved, p)

\* FAIL
ProcessFail(s, p) ==
    IF p.data = s.me \/ Failed(s, p.data) THEN s
    ELSE Todo(SetPeer(s, p.data, [s.known[p.data] EXCEPT !.flag = "fail"]),
              {"save", "state"})

\* FAILOVER_AUTH_ACK
ProcessAck(s, p) ==
    IF /\ IsMaster(s, p.sender) /\ NumSlots(s, p.sender) > 0
       /\ p.currentEpoch >= s.auth_epoch
    THEN Todo([s EXCEPT !.auth_count = @ + 1], {"failover"}) ELSE s

\* MFSTART
ProcessMfStart(s, p) ==
    IF s.known[p.sender].slaveof # s.me THEN s
    ELSE [resetManualFailover(s) EXCEPT !.mf_end = TRUE, !.mf_slave = p.sender,
                                        !.paused = TRUE, !.mf_id = p.data]

\* UPDATE
ProcessUpdate(s, p) ==
    LET n == p.data.about
        master == clusterSetNodeAsMaster(s, n)
        newer == SetPeer(master, n,
                   [master.known[n] EXCEPT !.configEpoch = p.data.epoch])
    IN IF s.known[n].configEpoch >= p.data.epoch THEN s
       ELSE clusterUpdateSlotsConfigWith(Todo(newer, {"save"}), n, p.data.epoch,
                                         p.data.slots)

\* clusterProcessPacket
clusterProcessPacket(s0, p, kind, old, aged) ==
    LET s == ProcessHeader(s0, p)
    IN CASE p.type \in {"ping", "pong"} -> ProcessPing(s, p, kind, old)
         [] p.type = "fail" -> ProcessFail(s, p)
         [] p.type = "auth_request" ->
              clusterSendFailoverAuthIfNeeded(s, p.sender, p, aged)
         [] p.type = "auth_ack" -> ProcessAck(s, p)
         [] p.type = "mfstart" -> ProcessMfStart(s, p)
         [] p.type = "update" -> ProcessUpdate(s, p)

-----------------------------------------------------------------------------
\* One turn of the event loop

\* clusterBeforeSleep, without the save, which Turn does.
clusterBeforeSleep(s) ==
    LET f == IF "failover" \in s.todo THEN clusterHandleSlaveFailover(s) ELSE s
    IN IF "state" \in f.todo THEN clusterUpdateState(f) ELSE f

\* What clusterSaveConfig writes: no reports and no vote times.
Saved(s) ==
    [currentEpoch |-> s.currentEpoch, lastVoteEpoch |-> s.lastVoteEpoch,
     slots |-> s.slots,
     known |-> [m \in Nodes |-> [s.known[m] EXCEPT !.reports = {}, !.voted = FALSE]]]

Channels == {c \in Nodes \X Nodes \X {"own", "reply"} : c[1] # c[2]}

\* What is left of the record a handler worked on.
Kept(s) == [s EXCEPT !.out = <<>>, !.todo = {}, !.log = {}]

\* A network without the channels of a set.
Without(chans, gone) == [c \in DOMAIN chans \ gone |-> chans[c]]

\* Put the messages s queued on the channels to the nodes that are up.
Deliver(chans, s) ==
    LET to == {c \in DOMAIN s.out : node[c[2]].up}
    IN [c \in DOMAIN chans \cup to |->
          IF c \in to THEN On(chans, c) \o s.out[c] ELSE chans[c]]

\* The handler left s on a network whose channels hold 'chans': run
\* clusterBeforeSleep, save if asked to, let the messages go to the nodes that
\* are up.
Turn(s0, chans) ==
    LET s == clusterBeforeSleep(s0)
        n == s.me
    IN /\ node' = [node EXCEPT ![n] = Kept(s)]
       /\ disk' = IF "save" \in s.todo THEN [disk EXCEPT ![n] = Saved(s)] ELSE disk
       /\ net' = Deliver(chans, s)
       /\ hist' = hist \cup s.log

\* An event of kind e may happen once more.
Spend(e) == /\ Limit[e] # None => used[e] < Limit[e]
            /\ used' = IF Limit[e] # None THEN [used EXCEPT ![e] = @ + 1] ELSE used

-----------------------------------------------------------------------------
\* Actions

\* clusterReadHandler: the next packet of a channel is processed.
Receive(c) ==
    /\ LET n == c[2]
           p == Head(net[c])
           s == node[n]
           pong == p.type = "pong" /\ c[3] = "reply" /\ Failed(s, p.sender)
           asks == p.type = "auth_request" /\ s.known[p.sender].slaveof # None
                   /\ s.known[s.known[p.sender].slaveof].voted
       IN \E old \in IF pong THEN BOOLEAN ELSE {FALSE},
             aged \in IF asks THEN BOOLEAN ELSE {FALSE} :
            Turn(clusterProcessPacket(s, p, c[3], old, aged),
                 IF Len(net[c]) = 1 THEN Without(net, {c})
                 ELSE [net EXCEPT ![c] = Tail(@)])
    /\ UNCHANGED used

\* The bound on the messages in flight between two nodes.
Crowded(n, m) == \/ Len(On(net, <<n, m, "own">>)) >= setup.channel
                 \/ Len(On(net, <<m, n, "own">>)) >= setup.channel

\* clusterCron pings a node it waits for no pong from, or the slave that asked
\* for a manual failover.
Ping(n, m) ==
    /\ node[n].up
    /\ \/ ~node[n].known[m].pinged
       \/ node[n].mf_end /\ IsMaster(node[n], n) /\ node[n].mf_slave = m
    /\ ~Crowded(n, m)
    /\ Spend("ping")
    /\ LET s == SetPeer(node[n], m, [node[n].known[m] EXCEPT !.pinged = TRUE])
       IN Turn(clusterSendPing(s, {m}, "own", "ping"), net)

\* n's link to m breaks and its cron sets it up again: what was in flight on
\* it is lost, and a ping is the first packet of the new link.
Reconnect(n, m) ==
    /\ node[n].up /\ Spend("reconnect")
    /\ LET s == SetPeer(node[n], m, [node[n].known[m] EXCEPT !.pinged = TRUE])
       IN Turn(clusterSendPing(s, {m}, "own", "ping"),
               Without(net, {<<n, m, "own">>, <<m, n, "reply">>}))

\* clusterCron: the pong is overdue.  The node timeout is assumed to be longer
\* than CLUSTER_WRITABLE_DELAY, as it is by default (15 against 2 seconds).
PingTimeout(n, m) ==
    /\ node[n].up /\ ~node[n].booting
    /\ node[n].known[m].pinged /\ node[n].known[m].flag = "ok"
    /\ Spend("timeout")
    /\ LET s == SetPeer(node[n], m, [node[n].known[m] EXCEPT !.flag = "pfail"])
       IN Turn(clusterUpdateState([s EXCEPT !.log = {<<n, "suspect", m>>}]), net)

\* clusterNodeCleanupFailureReports drops a report that is too old.
ReportExpires(n, m) ==
    /\ node[n].up
    /\ \E r \in node[n].known[m].reports :
         Turn(SetPeer(node[n], m, [node[n].known[m] EXCEPT !.reports = @ \ {r}]), net)
    /\ UNCHANGED used

\* clusterCron of a slave: manual and automatic failover.
SlaveCron(n) ==
    /\ node[n].up /\ IsSlave(node[n], n)
    /\ LET s == clusterHandleSlaveFailover(clusterHandleManualFailover(node[n]))
       IN /\ Kept(s) # node[n]
          /\ IF node[n].auth = "retry" /\ s.auth # "retry"
             THEN Spend("attempt") ELSE UNCHANGED used
          /\ Turn(IF s.state = "fail" THEN clusterUpdateState(s) ELSE s, net)

\* Requests of n, or votes for n, are still on their way.
VotesInFlight(n) ==
    \E c \in DOMAIN net : \E i \in DOMAIN net[c] :
       \/ c[1] = n /\ net[c][i].type = "auth_request"
       \/ c[2] = n /\ net[c][i].type = "auth_ack"

\* The time of the failover attempt passes.
AuthTime(n) ==
    /\ node[n].up /\ IsSlave(node[n], n) /\ node[n].auth # "retry"
    /\ node[n].auth = "expired" => setup.latevotes \/ ~VotesInFlight(n)
    /\ LET next == CASE node[n].auth = "delay" -> "open"
                     [] node[n].auth = "open" -> "expired"
                     [] node[n].auth = "expired" -> "retry"
       IN node' = [node EXCEPT ![n].auth = next]
    /\ UNCHANGED <<disk, net, used, hist>>

\* CLUSTER_WRITABLE_DELAY and the rejoin delay are over: clusterCron evaluates
\* the state again while it is fail.
StateDelayOver(n) ==
    /\ node[n].up /\ (node[n].booting \/ node[n].minority)
    /\ LET s == [node[n] EXCEPT !.booting = FALSE, !.minority = FALSE]
       IN Turn(IF s.state = "fail" THEN clusterUpdateState(s) ELSE s, net)
    /\ UNCHANGED used

\* CLUSTER FAILOVER [FORCE|TAKEOVER] on slave n.
ClusterFailover(n, option) ==
    /\ node[n].up /\ IsSlave(node[n], n) /\ MyMaster(node[n]) # None
    /\ option = "" => ~Failed(node[n], MyMaster(node[n]))
    /\ Spend(IF option = "takeover" THEN option ELSE "manual")
    /\ LET id == used'["manual"]
           s == [resetManualFailover(node[n]) EXCEPT !.mf_end = TRUE, !.mf_id = id]
       IN Turn(CASE option = "takeover" ->
                      clusterFailoverReplaceYourMaster(
                          clusterBumpConfigEpochWithoutConsensus(s))
                 [] option = "force" -> [s EXCEPT !.mf_can_start = TRUE]
                 [] option = "" ->
                      clusterSendMessage(s, {MyMaster(s)}, "own",
                          <<clusterBuildMessageHdr(s, "mfstart", id)>>),
               net)

\* manualFailoverCheckTimeout: each node finds out by itself, in its own cron,
\* that its deadline has passed.
ManualFailoverTimeout(n) ==
    /\ node[n].up /\ node[n].mf_end
    /\ Turn(resetManualFailover(node[n]), net)
    /\ UNCHANGED used

\* A client writes to a master that serves slots.
Write(n) ==
    /\ node[n].up /\ IsMaster(node[n], n) /\ NumSlots(node[n], n) > 0
    /\ node[n].state = "ok" /\ ~node[n].paused
    /\ Spend("write")
    /\ node' = [node EXCEPT ![n].offset = @ + 1]
    /\ UNCHANGED <<disk, net, hist>>

\* The replication stream of n's master reaches n; a slave that is ahead of
\* its new master is resynchronized.
Replicate(n) ==
    LET m == MyMaster(node[n])
    IN /\ node[n].up /\ m # None /\ node[m].up
       /\ node[n].offset # node[m].offset
       /\ node' = [node EXCEPT ![n].offset =
                     IF @ < node[m].offset THEN @ + 1 ELSE node[m].offset]
       /\ UNCHANGED <<disk, net, used, hist>>

\* The process dies: its links are gone with what was in flight on them.
Crash(n) ==
    /\ node[n].up /\ Spend("crash")
    /\ node' = [node EXCEPT ![n].up = FALSE]
    /\ net' = Without(net, {c \in Channels : n \in {c[1], c[2]}})
    /\ UNCHANGED <<disk, hist>>

\* clusterInit and clusterLoadConfig: memory starts afresh from nodes.conf.
Loaded(n, offset) ==
    LET d == disk[n]
        top == Max({d.known[m].configEpoch : m \in Nodes} \cup {d.currentEpoch})
    IN [me |-> n, up |-> TRUE, currentEpoch |-> top,
        lastVoteEpoch |-> d.lastVoteEpoch, known |-> d.known, slots |-> d.slots,
        size |-> 1, state |-> "fail", booting |-> TRUE, minority |-> FALSE,
        auth |-> "retry", auth_sent |-> FALSE, auth_epoch |-> 0, auth_count |-> 0,
        mf_end |-> FALSE, mf_can_start |-> FALSE, mf_slave |-> None,
        mf_master_offset |-> 0, mf_id |-> 0, paused |-> FALSE, offset |-> offset,
        out |-> <<>>, todo |-> {}, log |-> {}]

\* The node comes back; a slave evaluates the cluster state in its first cron.
Restart(n) ==
    /\ ~node[n].up
    /\ node' = [node EXCEPT ![n] = Kept(clusterUpdateState(Loaded(n, node[n].offset)))]
    /\ UNCHANGED <<disk, net, used, hist>>

-----------------------------------------------------------------------------
Init ==
    /\ setup \in Setups
    /\ node = Start[setup.name]
    /\ disk = [n \in Nodes |-> Saved(Start[setup.name][n])]
    /\ net = <<>>
    /\ used = [e \in Events |-> 0]
    /\ hist = {<<pair[1], "suspect", pair[2]>> : pair \in
                 {pair \in Nodes \X Nodes : /\ IsMaster(node[pair[1]], pair[1])
                                            /\ Failed(node[pair[1]], pair[2])}}

Next ==
    /\ \/ \E c \in DOMAIN net : Receive(c)
       \/ \E pair \in setup.pings : Ping(pair[1], pair[2])
       \/ \E pair \in setup.reconnects : Reconnect(pair[1], pair[2])
       \/ \E pair \in setup.timeouts : PingTimeout(pair[1], pair[2])
       \/ \E by \in setup.failovers : ClusterFailover(by[1], by[2])
       \/ \E n \in Nodes :
            \/ \E m \in Nodes : ReportExpires(n, m)
            \/ SlaveCron(n) \/ AuthTime(n) \/ StateDelayOver(n)
            \/ ManualFailoverTimeout(n)
            \/ Write(n) \/ Replicate(n)
       \/ \E n \in setup.crashers : Crash(n) \/ Restart(n)
    /\ UNCHANGED setup

Spec == Init /\ [][Next]_vars

-----------------------------------------------------------------------------
\* Properties

TypeOK ==
    /\ node \in [Nodes -> NodeState(Nodes, Slots)]
    /\ \A n, m \in Nodes : node[n].known[m].slave <=> node[n].known[m].slaveof # None
    /\ DOMAIN disk = Nodes /\ DOMAIN net \subseteq Channels

\* Every slot has its own master at the start.
Majority == Cardinality(Slots) \div 2 + 1

OneWinnerPerEpoch ==
    \A h1, h2 \in hist : h1[2] = "won" /\ h2[2] = "won" /\ h1[3] = h2[3]
                         => h1[1] = h2[1]

WonByMajority ==
    \A h \in hist : h[2] = "won" =>
       Cardinality({v \in Nodes : <<v, "vote", h[3], h[1]>> \in hist}) >= Majority

\* An epoch elects at most one slave, which a majority of the masters that serve
\* slots voted for in that epoch: "It is not possible that different slaves get
\* the same config epoch during a failover election, because the slaves need to
\* get voted by a majority" (clusterHandleConfigEpochCollision).
ElectionsSound == OneWinnerPerEpoch /\ WonByMajority

\* A node is flagged as failing only if a majority of the masters found it
\* unreachable: "We received enough failure reports from other
\* master nodes via gossip.  Enough means that the majority of the masters
\* signaled the node is down recently" (markNodeAsFailingIfNeeded).
FailNeedsMajority ==
    \A n, m \in Nodes : Failed(node[n], m) =>
       Cardinality({a \in Nodes : <<a, "suspect", m>> \in hist}) >= Majority

\* A manual failover that was not forced loses no write while its master waits
\* for it: a slave that takes over from a master that is not failing and still
\* holds its clients back has all of that master's data.  "The gaol of the manual
\* failover is to perform a fast failover without data loss due to the
\* asynchronous master-slave replication" (cluster.c).  A master whose own deadline
\* has passed serves its clients again, and what it then accepts can be lost: the
\* slave tests that its attempt is on (mf_end), not when it had to end.
ManualFailoverKeepsWrites ==
    [][\A n \in Nodes :
         LET master == MyMaster(node[n])
         IN (/\ IsSlave(node[n], n) /\ IsMaster(node'[n], n)
             /\ node[n].mf_can_start /\ node[n].mf_master_offset # 0
             /\ ~Failed(node[n], master) /\ node[master].paused)
            => node[n].offset = node[master].offset]_vars

\* No node started under epoch e or a later one.
NewEpoch(e) == \A n \in Nodes : Start[setup.name][n].known[n].configEpoch < e

ClaimsOrdered ==
    \A a, b \in Nodes : \A x \in Slots :
       (/\ a # b /\ node[a].up /\ node[b].up
        /\ IsMaster(node[a], a) /\ IsMaster(node[b], b)
        /\ node[a].slots[x] = a /\ node[b].slots[x] = b
        /\ node[a].known[a].configEpoch = node[b].known[b].configEpoch)
       => used["takeover"] > 0 /\ NewEpoch(node[a].known[a].configEpoch)

NoAssertion == \A h \in hist : h[2] # "assert"

\* The state has its types, a node being known as a slave just if its master is
\* known.  Two nodes that both believe to be the master of a slot do so under
\* different configuration epochs, so one of the two claims prevails, unless a
\* client told a slave to take over: it assigns itself an epoch "without to ask for
\* agreement", so "it is possible [...] that two nodes end with the same configuration
\* epoch" (clusterHandleConfigEpochCollision).  Even then that epoch is above all
\* those the nodes started with: a replaced master never ties with its successor.
\* And the assertions of clusterSetMaster hold: a node that turns into a slave has
\* no slot left and does not replicate itself.
ConfigSound == TypeOK /\ ClaimsOrdered /\ NoAssertion
=============================================================================
