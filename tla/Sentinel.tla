------------------------------ MODULE Sentinel ------------------------------
(***************************************************************************)
(* Redis Sentinel (sentinel.c): sentinels that watch one master and its    *)
(* slaves, agree that it is down, elect one of them for an epoch, promote  *)
(* a slave and tell each other the new configuration.                      *)
(*                                                                         *)
(* A sentinel's handlers are operators on its record `r`.  Every callback  *)
(* of the event loop is one action: the 100 ms timer, the reply to an      *)
(* INFO, a hello message, a SENTINEL IS-MASTER-DOWN-BY-ADDR request or its *)
(* reply, a command of the operator.  Elapsed time is a nondeterministic   *)
(* choice; the one relation between clocks that is kept is that an         *)
(* election times out (at most 10 s) before a sentinel that was asked to   *)
(* stand back for two failover timeouts may start its own.                 *)
(*                                                                         *)
(* The Redis instances are external: what is known of them is what         *)
(* SLAVEOF sets and INFO reports.                                          *)
(***************************************************************************)
EXTENDS Naturals, FiniteSets, FiniteSetsExt, TLC

CONSTANTS
    Sentinels,   \* the sentinels, by their run id
    Instances,   \* the Redis instances, by their address
    None,        \* NULL
    Quorum,      \* the quorum of SENTINEL MONITOR
    Setups       \* the situations that are looked at

\* A situation: the first master; whether it is down and all sentinels know at the
\* start; the slaves that are known and those no one may promote (slave_priority
\* 0); parallel_syncs; the links <<s, i>> that may be cut; the sentinels that may
\* start a failover (the others only answer), that look at slaves and that publish
\* hello messages, and those that may crash; whether hello messages always arrive
\* within the time that is waited for them; whether a failover may outlast
\* failover_timeout, or a slave's RECONF_SENT its own limit; how often each event
\* happens.
Events == {"epochs", "crash", "down", "back", "cut", "tilt", "forced", "reset", "lose", "stale"}
ASSUME SentinelAssumption ==
    /\ IsFiniteSet(Sentinels) /\ Quorum \in 1..Cardinality(Sentinels)
    /\ None \notin Sentinels \cup Instances
    /\ \A u \in Setups :
         /\ u.master \in Instances /\ u.slaves \subseteq Instances \ {u.master}
         /\ u.agreed \in BOOLEAN
         /\ u.never \subseteq Instances /\ u.parallel_syncs \in Nat \ {0}
         /\ u.cuts \subseteq Sentinels \X Instances
         /\ u.starters \cup u.pollers \cup u.speakers \cup u.crashers \subseteq Sentinels /\ {u.timeouts, u.timely} \subseteq BOOLEAN
         /\ u.max \in [Events -> Nat]

VARIABLES
    setup,    \* the situation; never changes
    sen,      \* the sentinels' memory
    disk,     \* their configuration files
    net,      \* IS-MASTER-DOWN-BY-ADDR requests in flight that ask for a vote
    hellos,   \* the last hello message of every sentinel, None before the first
    inst,     \* the master each instance replicates, None for a master
    up,       \* the instances that answer
    cut,      \* the links <<sentinel, instance>> that are cut
    used,     \* how much of each bound is spent
    hist      \* history: votes given, and leaders elected with their epochs

vars == <<setup, sen, disk, net, hellos, inst, up, cut, used, hist>>

-----------------------------------------------------------------------------
\* The state of one sentinel

\* SENTINEL_FAILOVER_STATE_*
NONE == 0
WAIT_START == 1
SELECT_SLAVE == 2
SEND_SLAVEOF_NOONE == 3
WAIT_PROMOTION == 4
RECONF_SLAVES == 5
UPDATE_CONFIG == 6

\* What is kept of a slave.  'role' is role_reported, "unknown" before the first
\* INFO; 'host' is slave_master_host; 'reconf' are the SRI_RECONF flags.
Slave == [sdown: BOOLEAN, role: {"unknown", "slave", "master"},
          host: Instances \cup {None}, reconf: SUBSET {"sent", "inprog", "done"}]

\* What is kept of another sentinel: SRI_MASTER_DOWN and its last vote.
Peer == [down: BOOLEAN, leader: Sentinels \cup {None}, leader_epoch: Nat]

\* The master's record and the sentinel's own state.  'delayed' is
\* failover_start_time less than two timeouts ago, 'behind' the elections that
\* were open then; SRI_FAILOVER_IN_PROGRESS is failover_state # NONE, SRI_PROMOTED
\* is being promoted_slave.
IsSentinelState(r) ==
    /\ r.current_epoch \in Nat /\ r.tilt \in BOOLEAN
    /\ r.addr \in Instances /\ r.config_epoch \in Nat
    /\ r.leader \in Sentinels \cup {None} /\ r.leader_epoch \in Nat
    /\ r.failover_epoch \in Nat /\ r.failover_state \in NONE..UPDATE_CONFIG
    /\ r.promoted_slave \in Instances \cup {None}
    /\ r.sdown \in BOOLEAN /\ r.odown \in BOOLEAN /\ r.force \in BOOLEAN
    /\ r.delayed \in BOOLEAN /\ r.role \in {"slave", "master"}
    /\ DOMAIN r.slaves \subseteq Instances \ {r.addr}
    /\ \A i \in DOMAIN r.slaves : r.slaves[i] \in Slave
    /\ DOMAIN r.peers \subseteq Sentinels
    /\ \A p \in DOMAIN r.peers : r.peers[p] \in Peer

\* createSentinelRedisInstance, for a slave and for another sentinel.
NewSlave == [sdown |-> FALSE, role |-> "unknown", host |-> None, reconf |-> {}]
NewPeer == [down |-> FALSE, leader |-> None, leader_epoch |-> 0]

\* f, and g where f has no value.
Over(f, g) == [x \in DOMAIN f \cup DOMAIN g |-> IF x \in DOMAIN f THEN f[x] ELSE g[x]]

InProgress(r) == r.failover_state # NONE

sentinelGetCurrentMasterAddress(r) ==
    IF r.promoted_slave # None /\ r.failover_state >= RECONF_SLAVES
    THEN r.promoted_slave ELSE r.addr

Saved_OldAddress(r) ==
    [current_epoch |-> r.current_epoch, addr |-> r.addr,
     config_epoch |-> r.config_epoch, leader_epoch |-> r.leader_epoch,
     slaves |-> DOMAIN r.slaves, peers |-> DOMAIN r.peers]

\* sentinelFlushConfig: what the configuration file keeps.  The vote itself is not
\* in it, only its epoch; a promoted slave changes place with its master.
Saved(r) ==
    LET addr == sentinelGetCurrentMasterAddress(r)
    IN [current_epoch |-> r.current_epoch, addr |-> addr,
        config_epoch |-> r.config_epoch, leader_epoch |-> r.leader_epoch,
        slaves |-> (DOMAIN r.slaves \cup {r.addr}) \ {addr},
        peers |-> DOMAIN r.peers]

Loaded_ForgetsVote(d) ==
    [current_epoch |-> Max({d.current_epoch, d.config_epoch}), tilt |-> FALSE,
     addr |-> d.addr, config_epoch |-> d.config_epoch, leader |-> None, leader_epoch |-> 0,
     failover_epoch |-> 0, failover_state |-> NONE, promoted_slave |-> None,
     sdown |-> FALSE, odown |-> FALSE, force |-> FALSE, role |-> "master",
     delayed |-> FALSE, behind |-> {},
     slaves |-> [i \in d.slaves |-> NewSlave],
     peers |-> [p \in d.peers |-> NewPeer]]

\* sentinelHandleConfiguration on the statements of that file.
Loaded(d) ==
    [current_epoch |-> Max({d.current_epoch, d.config_epoch}), tilt |-> FALSE,
     addr |-> d.addr, config_epoch |-> d.config_epoch,
     leader |-> None, leader_epoch |-> d.leader_epoch,
     failover_epoch |-> 0, failover_state |-> NONE, promoted_slave |-> None,
     sdown |-> FALSE, odown |-> FALSE, force |-> FALSE, role |-> "master",
     delayed |-> FALSE, behind |-> {},
     slaves |-> [i \in d.slaves |-> NewSlave],
     peers |-> [p \in d.peers |-> NewPeer]]

\* sentinelResetMaster; the votes' epochs survive it.
sentinelResetMaster(r, slaves, peers) ==
    [r EXCEPT !.slaves = slaves, !.peers = peers, !.sdown = FALSE, !.odown = FALSE,
              !.force = FALSE, !.leader = None, !.failover_state = NONE,
              !.delayed = FALSE, !.behind = {}, !.promoted_slave = None,
              !.role = "master"]

sentinelResetMasterAndChangeAddress_ForgetsOld(r, addr) ==
    [sentinelResetMaster(r, [i \in DOMAIN r.slaves \ {addr} |-> NewSlave], r.peers)
     EXCEPT !.addr = addr]

sentinelResetMasterAndChangeAddress(r, addr) ==
    [sentinelResetMaster(r, [i \in (DOMAIN r.slaves \cup {r.addr}) \ {addr} |-> NewSlave],
                         r.peers)
     EXCEPT !.addr = addr]

\* The elections that are open now.
Open == {<<t, sen[t].failover_epoch>> : t \in {t \in Sentinels : sen[t].failover_state = WAIT_START}}

-----------------------------------------------------------------------------
\* Votes

\* sentinelVoteLeader by s; 'voted' says that this call gave the vote.
sentinelVoteLeader(s, r, req_epoch, req_runid) ==
    LET epoch == Max({r.current_epoch, req_epoch})
        votes == r.leader_epoch < req_epoch /\ epoch <= req_epoch
        stand == votes /\ req_runid # s /\ s \in setup.starters
    IN [r    |-> [r EXCEPT !.current_epoch = epoch,
                           !.leader = IF votes THEN req_runid ELSE @,
                           !.leader_epoch = IF votes THEN epoch ELSE @,
                           !.delayed = @ \/ stand,
                           !.behind = IF stand THEN Open \ {<<s, r.failover_epoch>>} ELSE @],
        voted |-> votes, saved |-> votes \/ req_epoch > r.current_epoch]

\* The votes others have reported, of the current epoch.
VotesFor(r, t) ==
    Cardinality({p \in DOMAIN r.peers : /\ r.peers[p].leader = t
                                        /\ r.peers[p].leader_epoch = r.current_epoch})

Leading(r) ==
    {t \in Sentinels : /\ VotesFor(r, t) > 0
                       /\ \A q \in Sentinels : VotesFor(r, q) <= VotesFor(r, t)}

Voters(r) == Cardinality(DOMAIN r.peers) + 1

sentinelGetLeader_AnyVotes(s, r, most) ==
    LET v == sentinelVoteLeader(s, r, r.failover_epoch, most)
    IN [v |-> v, isleader |-> v.r.leader = s]

\* sentinelGetLeader by s: its own vote goes to `most`, the sentinel with most
\* votes so far (itself if there are none), unless it has voted already.
sentinelGetLeader(s, r, most) ==
    LET v == sentinelVoteLeader(s, r, r.failover_epoch, most)
        counts == v.r.leader # None /\ v.r.leader_epoch = r.failover_epoch
        total(t) == VotesFor(r, t) + IF counts /\ v.r.leader = t THEN 1 ELSE 0
        winner == IF counts /\ (Leading(r) = {} \/ total(v.r.leader) > VotesFor(r, most))
                  THEN v.r.leader ELSE most
    IN [v |-> v,
        isleader |-> /\ winner = s
                     /\ total(s) >= Voters(r) \div 2 + 1 /\ total(s) >= Quorum]

-----------------------------------------------------------------------------
\* The failover state machine.  A step returns the record, the instances to which
\* SLAVEOF goes, their new master, whether the file is written, and its history.

Step(r, to, master) == [r |-> r, to |-> to, master |-> master, saved |-> FALSE, log |-> {}]

Reach(s, i) == i \in up /\ <<s, i>> \notin cut

sentinelAbortFailover_KeepsPromoted(r) ==
    [r EXCEPT !.failover_state = NONE, !.force = FALSE]

sentinelAbortFailover(r) ==
    [r EXCEPT !.failover_state = NONE, !.force = FALSE, !.promoted_slave = None]

\* sentinelFailoverWaitStart.  `expired`: the election timeout is over.
sentinelFailoverWaitStart(s, r, expired, most) ==
    LET g == sentinelGetLeader(s, r, most)
        v == g.v.r
        log == IF g.v.voted THEN {<<"vote", s, v.leader_epoch, v.leader>>} ELSE {}
        lead == IF g.isleader THEN {<<"leader", s, r.failover_epoch, r.current_epoch>>} ELSE {}
    IN [r |-> IF g.isleader \/ r.force THEN [v EXCEPT !.failover_state = SELECT_SLAVE]
              ELSE IF expired THEN sentinelAbortFailover(v) ELSE v,
        to |-> {}, master |-> None, saved |-> g.v.saved, log |-> log \cup lead]

\* sentinelSelectSlave: any of the slaves that qualify, their replication offsets
\* being arbitrary.
SelectableSlaves(s, r) ==
    {i \in DOMAIN r.slaves : /\ ~r.slaves[i].sdown /\ Reach(s, i)
                             /\ i \notin setup.never /\ r.slaves[i].role # "unknown"}

sentinelFailoverSelectSlave(s, r, i) ==
    Step(IF SelectableSlaves(s, r) = {} THEN sentinelAbortFailover(r)
         ELSE [r EXCEPT !.promoted_slave = i, !.failover_state = SEND_SLAVEOF_NOONE], {}, None)

\* sentinelFailoverSendSlaveOfNoOne.  The link to an instance that does not answer
\* is disconnected, or not known to be so yet: then the command is lost.
sentinelFailoverSendSlaveOfNoOne(s, r, expired, disconnected) ==
    IF ~Reach(s, r.promoted_slave) /\ disconnected
    THEN Step(IF expired THEN sentinelAbortFailover(r) ELSE r, {}, None)
    ELSE Step([r EXCEPT !.failover_state = WAIT_PROMOTION], {r.promoted_slave}, None)

sentinelFailoverWaitPromotion(r, expired) ==
    Step(IF expired THEN sentinelAbortFailover(r) ELSE r, {}, None)

\* sentinelFailoverDetectEnd, with the best effort SLAVEOF when time is over.
sentinelFailoverDetectEnd(r, expired) ==
    LET left == {i \in DOMAIN r.slaves : /\ i # r.promoted_slave
                                         /\ "done" \notin r.slaves[i].reconf
                                         /\ ~r.slaves[i].sdown}
        rest == {i \in DOMAIN r.slaves : r.slaves[i].reconf \cap {"done", "sent"} = {}}
    IN IF r.slaves[r.promoted_slave].sdown THEN Step(r, {}, None)
       ELSE Step(IF expired \/ left = {} THEN [r EXCEPT !.failover_state = UPDATE_CONFIG] ELSE r,
                 IF expired THEN rest ELSE {}, r.promoted_slave)

\* sentinelFailoverReconfNextSlave.  The slaves it may ask: those not asked yet and
\* those asked longer ago than their limit, which count as done from then on.
Busy(r) == {i \in DOMAIN r.slaves : r.slaves[i].reconf \cap {"sent", "inprog"} # {}}

Askable(r) ==
    IF Cardinality(Busy(r)) >= setup.parallel_syncs THEN {}
    ELSE {i \in DOMAIN r.slaves \ {r.promoted_slave} :
            \/ r.slaves[i].reconf = {}
            \/ setup.timeouts /\ r.slaves[i].reconf = {"sent"}}

\* Some are skipped: the limit may not be over, the link may be disconnected.
NextSlaves(s, r) ==
    LET all  == Askable(r)
        skip == {i \in all : ~Reach(s, i) \/ r.slaves[i].reconf = {"sent"}}
        room == setup.parallel_syncs - Cardinality(Busy(r))
    IN UNION {kSubset(Min({room, Cardinality(all \ d)}), all \ d) : d \in SUBSET skip}

sentinelFailoverReconfNextSlave(r, expired, next) ==
    LET asked(i) == [r.slaves[i] EXCEPT !.reconf = {"sent"} \cup (IF @ = {} THEN {} ELSE {"done"})]
        end == sentinelFailoverDetectEnd(
                 [r EXCEPT !.slaves = Over([i \in next |-> asked(i)], r.slaves)], expired)
    IN Step(end.r, end.to \cup next, r.promoted_slave)

\* sentinelFailoverStateMachine
sentinelFailoverStateMachine(s, r, expired, disconnected, choice) ==
    CASE r.failover_state = WAIT_START         -> sentinelFailoverWaitStart(s, r, expired, choice)
      [] r.failover_state = SELECT_SLAVE       -> sentinelFailoverSelectSlave(s, r, choice)
      [] r.failover_state = SEND_SLAVEOF_NOONE -> sentinelFailoverSendSlaveOfNoOne(s, r, expired, disconnected)
      [] r.failover_state = WAIT_PROMOTION     -> sentinelFailoverWaitPromotion(r, expired)
      [] r.failover_state = RECONF_SLAVES      -> sentinelFailoverReconfNextSlave(r, expired, choice)
      [] OTHER                                 -> Step(r, {}, None)

\* The choices the state machine has: the first of the sentinels with most votes,
\* the best slave, the slaves to reconfigure.
FailoverChoices(s, r) ==
    CASE r.failover_state = WAIT_START    -> IF Leading(r) = {} THEN {s} ELSE Leading(r)
      [] r.failover_state = SELECT_SLAVE  ->
           IF SelectableSlaves(s, r) = {} THEN {None} ELSE SelectableSlaves(s, r)
      [] r.failover_state = RECONF_SLAVES -> NextSlaves(s, r)
      [] OTHER                            -> {None}

-----------------------------------------------------------------------------
\* The timer

\* sentinelCheckSubjectivelyDown: the flag follows what the link shows once enough
\* time has passed; a master that says it is a slave is down too.
Subjectively(s, i, old, says_slave) == {old, ~Reach(s, i) \/ says_slave}

\* The same for the slaves, as `down` says.
SlavesDown(r, down) ==
    [r EXCEPT !.slaves = [i \in DOMAIN r.slaves |-> [r.slaves[i] EXCEPT !.sdown = down[i]]]]

sentinelCheckObjectivelyDown(r) ==
    [r EXCEPT !.odown =
       r.sdown /\ 1 + Cardinality({p \in DOMAIN r.peers : r.peers[p].down}) >= Quorum]

\* sentinelStartFailover; the new epoch is not written to disk yet.
sentinelStartFailover(s, r) ==
    [r EXCEPT !.failover_state = WAIT_START, !.current_epoch = @ + 1,
              !.failover_epoch = r.current_epoch + 1,
              !.delayed = TRUE, !.behind = Open]

CanStart(s, r) ==
    /\ r.odown /\ ~InProgress(r) /\ ~r.delayed
    /\ s \in setup.starters /\ r.current_epoch < setup.max["epochs"]

\* sentinelAskMasterStateToOtherSentinels: a peer's answer that is too old is
\* forgotten; from a sentinel to another only one request for a vote is in flight.
Forget(r, old) ==
    [r EXCEPT !.peers = Over([p \in old |-> [r.peers[p] EXCEPT !.down = FALSE, !.leader = None]], r.peers)]

Asks(s, r) ==
    IF ~r.sdown \/ ~InProgress(r) THEN {}
    ELSE {[from |-> s, to |-> p, addr |-> r.addr, epoch |-> r.current_epoch] :
            p \in {p \in DOMAIN r.peers : \A m \in net : m.from # s \/ m.to # p}}

Spend(event) == /\ used[event] < setup.max[event]
                /\ used' = [used EXCEPT ![event] = @ + 1]

\* The instances `to` that can be reached obey SLAVEOF.
SlaveOf(s, to, master) ==
    inst' = Over([i \in {i \in to : Reach(s, i)} |-> master], inst)

\* sentinelHandleRedisInstance for the master, up to the failover state machine.
CheckMaster(s, r, sdown) ==
    LET r1 == sentinelCheckObjectivelyDown([r EXCEPT !.sdown = sdown, !.tilt = FALSE])
    IN  IF CanStart(s, r1) THEN sentinelStartFailover(s, r1) ELSE r1

\* The slaves after it, then the switch to the promoted one.
CheckSlaves(r, slaves) ==
    LET r1 == SlavesDown(r, slaves)
    IN  IF r1.failover_state = UPDATE_CONFIG
        THEN sentinelResetMasterAndChangeAddress(r1, r1.promoted_slave) ELSE r1

\* What the timer does with the step `st` of the state machine.
TimerEnds(s, old, slaves, st) ==
    LET asker == Forget(st.r, old)
        r == CheckSlaves(asker, slaves)
    IN /\ sen' = [sen EXCEPT ![s] = r]
       /\ disk' = [disk EXCEPT ![s] = IF st.saved \/ asker.failover_state = UPDATE_CONFIG
                                      THEN Saved(r) ELSE disk[s]]
       /\ net' = net \cup Asks(s, asker)
       /\ SlaveOf(s, st.to, st.master)
       /\ hist' = hist \cup st.log
       /\ used' = [used EXCEPT !["stale"] = @ + Cardinality(old)]
       /\ UNCHANGED <<hellos, up, cut>>

\* sentinelTimer.  In tilt mode nothing of it happens until the tilt period is over.
sentinelTimer(s) ==
    LET r == sen[s]
        stale == {p \in DOMAIN r.peers : /\ used["stale"] < setup.max["stale"]
                                         /\ (r.peers[p].down \/ r.peers[p].leader # None)}
    IN \E sdown \in Subjectively(s, r.addr, r.sdown, r.role = "slave"),
          slaves \in {f \in [DOMAIN r.slaves -> BOOLEAN] :
                        \A i \in DOMAIN f : f[i] \in Subjectively(s, i, r.slaves[i].sdown, FALSE)},
          old \in {{}} \cup {{p} : p \in stale},
          expired \in {FALSE, setup.timeouts}, disconnected \in BOOLEAN :
       \E r1 \in {CheckMaster(s, r, sdown)} :
         /\ disconnected => r1.failover_state = SEND_SLAVEOF_NOONE
         /\ expired => r1.failover_state \notin {NONE, SELECT_SLAVE}
         /\ \E choice \in FailoverChoices(s, r1) :
              \E st \in {sentinelFailoverStateMachine(s, r1, expired, disconnected, choice)} :
                TimerEnds(s, old, slaves, st)

\* Two failover timeouts have passed since failover_start_time.
DelayOver(s) ==
    /\ sen[s].delayed /\ sen[s].behind \cap Open = {}
    /\ sen' = [sen EXCEPT ![s] = [sen[s] EXCEPT !.delayed = FALSE, !.behind = {}]]
    /\ UNCHANGED <<disk, net, hellos, inst, up, cut, used, hist>>

\* sentinelCheckTiltCondition finds that too much time has passed.
Tilt(s) ==
    /\ ~sen[s].tilt /\ Spend("tilt")
    /\ sen' = [sen EXCEPT ![s] = [sen[s] EXCEPT !.tilt = TRUE]]
    /\ UNCHANGED <<disk, net, hellos, inst, up, cut, hist>>

-----------------------------------------------------------------------------
\* SENTINEL IS-MASTER-DOWN-BY-ADDR

\* sentinelReceiveIsMasterDownReply; without a vote the last one is kept.
sentinelReceiveIsMasterDownReply(r, p, down, leader, epoch) ==
    IF p \notin DOMAIN r.peers THEN r
    ELSE LET old == r.peers[p]
             new == [down |-> down,
                     leader |-> IF leader = None THEN old.leader ELSE leader,
                     leader_epoch |-> IF leader = None THEN old.leader_epoch ELSE epoch]
         IN  [r EXCEPT !.peers = [r.peers EXCEPT ![p] = new]]

\* What s says of the master at `addr`, and the vote m asks it for.
SaysDown(s, addr) == sen[s].addr = addr /\ sen[s].sdown /\ ~sen[s].tilt

\* A sentinel handles the request for a vote; its reply arrives or is lost with the
\* link.
IsMasterDownByAddr(m, lost) ==
    LET s == m.to
        known == sen[s].addr = m.addr
        v == sentinelVoteLeader(s, sen[s], m.epoch, m.from)
        after == IF known THEN v.r ELSE sen[s]
        asker == sentinelReceiveIsMasterDownReply(sen[m.from], s, SaysDown(s, m.addr),
                   IF known THEN after.leader ELSE None, after.leader_epoch)
    IN /\ sen' = [sen EXCEPT ![s] = after, ![m.from] = IF lost THEN @ ELSE asker]
       /\ disk' = [disk EXCEPT ![s] = IF known /\ v.saved THEN Saved(after) ELSE @]
       /\ hist' = hist \cup (IF known /\ v.voted THEN {<<"vote", s, m.epoch, m.from>>} ELSE {})
       /\ net' = net \ {m}
       /\ IF lost THEN Spend("lose") ELSE UNCHANGED used
       /\ UNCHANGED <<hellos, inst, up, cut>>

\* A request with "*" for the runid only asks whether the master is down.
AskIfDown(s, p) ==
    /\ s \in setup.starters /\ sen[s].sdown /\ ~InProgress(sen[s]) /\ p \in DOMAIN sen[s].peers
    /\ sen' = [sen EXCEPT ![s] =
                 sentinelReceiveIsMasterDownReply(@, p, SaysDown(p, @.addr), None, 0)]
    /\ UNCHANGED <<disk, net, hellos, inst, up, cut, used, hist>>

\* A link between two sentinels breaks with the request on it.
Lose(m) ==
    /\ Spend("lose") /\ net' = net \ {m}
    /\ UNCHANGED <<sen, disk, hellos, inst, up, cut, hist>>

-----------------------------------------------------------------------------
\* Hello messages.  Of two messages of a sentinel the later one replaces the other.

Hello(s) ==
    [epoch |-> sen[s].current_epoch, addr |-> sentinelGetCurrentMasterAddress(sen[s]),
     config_epoch |-> sen[s].config_epoch]

sentinelSendHello(s) ==
    /\ s \in setup.speakers /\ hellos[s] # Hello(s)
    /\ \E t \in Sentinels : \/ s \notin DOMAIN sen[t].peers /\ s # t
                            \/ Hello(s).epoch > sen[t].current_epoch
                            \/ Hello(s).config_epoch > sen[t].config_epoch
    /\ hellos' = [hellos EXCEPT ![s] = Hello(s)]
    /\ UNCHANGED <<sen, disk, net, inst, up, cut, used, hist>>

\* sentinelProcessHelloMessage.  A newer configuration epoch of the same address is
\* not written to disk.
sentinelProcessHelloMessage(s, from) ==
    LET r == sen[s]
        h == hellos[from]
        new == from \notin DOMAIN r.peers
        r1 == [r EXCEPT !.peers = IF new THEN Over([p \in {from} |-> NewPeer], r.peers) ELSE @,
                        !.current_epoch = Max({@, h.epoch})]
        newer == h.config_epoch > r.config_epoch
        r2 == IF newer THEN [r1 EXCEPT !.config_epoch = h.config_epoch] ELSE r1
        switch == newer /\ h.addr # r.addr
        r3 == IF switch THEN sentinelResetMasterAndChangeAddress(r2, h.addr) ELSE r2
    IN /\ from # s /\ h # None /\ r3 # r
       /\ sen' = [sen EXCEPT ![s] = r3]
       /\ disk' = [disk EXCEPT ![s] = IF switch THEN Saved(r3)
                                      ELSE IF new \/ h.epoch > r.current_epoch THEN Saved(r1) ELSE @]
       /\ UNCHANGED <<net, hellos, inst, up, cut, used, hist>>

-----------------------------------------------------------------------------
\* INFO

Role(i) == IF inst[i] = None THEN "master" ELSE "slave"

\* sentinelRefreshInstanceInfo for the master: its role, and slaves not known yet.
MasterInfo(s) ==
    LET r == sen[s]
        found == {i \in up : inst[i] = r.addr} \ (DOMAIN r.slaves \cup {r.addr})
        after == [r EXCEPT !.role = Role(r.addr), !.slaves = Over([i \in found |-> NewSlave], r.slaves)]
    IN /\ Reach(s, r.addr) /\ after # r
       /\ sen' = [sen EXCEPT ![s] = after]
       /\ disk' = [disk EXCEPT ![s] = IF found # {} THEN Saved(after) ELSE @]
       /\ UNCHANGED <<net, hellos, inst, up, cut, used, hist>>

sentinelMasterLooksSane(r) == r.role = "master" /\ ~r.sdown /\ ~r.odown

\* SRI_RECONF_SENT to _INPROG to _DONE, by what the slave reports.
Reconf(r, sl, linkup) ==
    LET f1 == IF "sent" \in sl.reconf /\ sl.host = r.promoted_slave
              THEN (sl.reconf \ {"sent"}) \cup {"inprog"} ELSE sl.reconf
    IN IF "inprog" \in f1 /\ linkup THEN (f1 \ {"inprog"}) \cup {"done"} ELSE f1

\* sentinelRefreshInstanceInfo for a slave.  `late`: the slave has reported this
\* role, and this master, for longer than the time that is waited for newer
\* configurations (4 publish periods, or failover_timeout).
SlaveInfo(s, i, late, linkup) ==
    LET r == sen[s]
        role == Role(i)
        old == r.slaves[i]
        sl == [old EXCEPT !.role = role, !.host = IF role = "slave" THEN inst[i] ELSE @]
        r1 == [r EXCEPT !.slaves = [r.slaves EXCEPT ![i] = sl]]
        promoted == role = "master" /\ i = r.promoted_slave /\ r.failover_state = WAIT_PROMOTION
        convert == /\ late /\ role = "master" /\ old.role = "master"
                   /\ i # r.promoted_slave /\ sentinelMasterLooksSane(r)
        fix == /\ late /\ role = "slave" /\ old.role = "slave"
               /\ old.host = sl.host /\ sl.host # r.addr /\ sentinelMasterLooksSane(r)
        r2 == IF promoted
              THEN [r1 EXCEPT !.config_epoch = r.failover_epoch, !.failover_state = RECONF_SLAVES]
              ELSE IF role = "slave"
              THEN [r EXCEPT !.slaves = [r.slaves EXCEPT ![i] = [sl EXCEPT !.reconf = Reconf(r, sl, linkup)]]]
              ELSE r1
    IN /\ s \in setup.pollers /\ i \in DOMAIN r.slaves /\ Reach(s, i)
       /\ linkup => role = "slave" /\ inst[i] \in up \ {i}
       /\ late /\ setup.timely => \A t \in Sentinels : Hello(t).config_epoch <= r.config_epoch
       /\ IF r.tilt THEN sen' = [sen EXCEPT ![s] = r1] /\ UNCHANGED <<disk, inst>>
          ELSE /\ sen' = [sen EXCEPT ![s] = r2]
               /\ disk' = [disk EXCEPT ![s] = IF promoted THEN Saved(r2) ELSE @]
               /\ SlaveOf(s, IF convert \/ fix THEN {i} ELSE {}, r.addr)
       /\ UNCHANGED <<net, hellos, up, cut, used, hist>>

-----------------------------------------------------------------------------
\* Commands of the operator, and what happens to the processes and links

\* SENTINEL FAILOVER: no agreement is asked for.
SentinelFailover(s) ==
    /\ ~InProgress(sen[s]) /\ SelectableSlaves(s, sen[s]) # {}
    /\ sen[s].current_epoch < setup.max["epochs"] /\ Spend("forced")
    /\ sen' = [sen EXCEPT ![s] = [sentinelStartFailover(s, sen[s]) EXCEPT !.force = TRUE]]
    /\ UNCHANGED <<disk, net, hellos, inst, up, cut, hist>>

\* SENTINEL RESET: slaves and sentinels are discovered again.
SentinelReset(s) ==
    /\ Spend("reset")
    /\ sen' = [sen EXCEPT ![s] = sentinelResetMaster(@, <<>>, <<>>)]
    /\ UNCHANGED <<disk, net, hellos, inst, up, cut, hist>>

\* A sentinel dies and starts again from its configuration file.
Restart(s) ==
    /\ s \in setup.crashers /\ Spend("crash")
    /\ sen' = [sen EXCEPT ![s] = Loaded(disk[s])]
    /\ net' = {m \in net : s \notin {m.from, m.to}}
    /\ UNCHANGED <<disk, hellos, inst, up, cut, hist>>

\* An instance dies; it comes back with the role CONFIG REWRITE saved.
Down(i) ==
    /\ i \in up /\ Spend("down") /\ up' = up \ {i}
    /\ UNCHANGED <<sen, disk, net, hellos, inst, cut, hist>>

Back(i) ==
    /\ i \notin up /\ Spend("back") /\ up' = up \cup {i}
    /\ UNCHANGED <<sen, disk, net, hellos, inst, cut, hist>>

Cut(s, i) ==
    /\ <<s, i>> \in setup.cuts \ cut /\ Spend("cut") /\ cut' = cut \cup {<<s, i>>}
    /\ UNCHANGED <<sen, disk, net, hellos, inst, up, hist>>

Heal(s, i) ==
    /\ <<s, i>> \in cut /\ cut' = cut \ {<<s, i>>}
    /\ UNCHANGED <<sen, disk, net, hellos, inst, up, used, hist>>

-----------------------------------------------------------------------------
\* At the start everyone knows the master, its slaves and the other sentinels, and
\* perhaps that the master is down.
Start(s) ==
    LET r == Loaded([current_epoch |-> 0, addr |-> setup.master, config_epoch |-> 0,
                     leader_epoch |-> 0, slaves |-> setup.slaves, peers |-> Sentinels \ {s}])
    IN [r EXCEPT !.slaves = [i \in setup.slaves |->
                               [NewSlave EXCEPT !.role = "slave", !.host = setup.master]],
                 !.sdown = setup.agreed, !.odown = setup.agreed,
                 !.peers = [p \in DOMAIN @ |-> [NewPeer EXCEPT !.down = setup.agreed]]]

Init ==
    /\ setup \in Setups
    /\ sen = [s \in Sentinels |-> Start(s)]
    /\ disk = [s \in Sentinels |-> Saved(Start(s))]
    /\ net = {} /\ cut = {} /\ hist = {}
    /\ hellos = [s \in Sentinels |-> None]
    /\ inst = [i \in Instances |-> IF i \in setup.slaves THEN setup.master ELSE None]
    /\ up = IF setup.agreed THEN setup.slaves ELSE setup.slaves \cup {setup.master}
    /\ used = [e \in Events |-> 0]

Next ==
    /\ \/ \E s \in Sentinels :
            \/ sentinelTimer(s) \/ DelayOver(s) \/ Tilt(s)
            \/ sentinelSendHello(s) \/ \E t \in Sentinels : sentinelProcessHelloMessage(s, t)
            \/ \E p \in Sentinels : AskIfDown(s, p)
            \/ MasterInfo(s) \/ \E i \in Instances, late \in BOOLEAN, linkup \in BOOLEAN : SlaveInfo(s, i, late, linkup)
            \/ SentinelFailover(s) \/ SentinelReset(s) \/ Restart(s)
            \/ \E i \in Instances : Cut(s, i) \/ Heal(s, i)
       \/ \E m \in net : Lose(m) \/ \E lost \in BOOLEAN : IsMasterDownByAddr(m, lost)
       \/ \E i \in setup.slaves \cup {setup.master} : Down(i) \/ Back(i)
    /\ UNCHANGED setup

Spec == Init /\ [][Next]_vars

\* The timer and the answers of peers and instances come again and again, and a
\* link that stays up or down long enough is noticed.
Prompt(s) ==
    /\ sen'[s].addr = sen[s].addr => sen'[s].sdown = (~Reach(s, sen[s].addr) \/ sen[s].role = "slave")
    /\ \A i \in DOMAIN sen'[s].slaves :
         sen'[s].addr = sen[s].addr => sen'[s].slaves[i].sdown = ~Reach(s, i)

Fairness ==
    /\ \A s \in Sentinels :
         /\ WF_vars(sentinelTimer(s) /\ Prompt(s) /\ UNCHANGED setup)
         /\ WF_vars(MasterInfo(s) /\ UNCHANGED setup)
         /\ WF_vars(sentinelSendHello(s) /\ UNCHANGED setup)
         /\ \A t \in Sentinels :
              /\ WF_vars(sentinelProcessHelloMessage(s, t) /\ UNCHANGED setup)
              /\ WF_vars(AskIfDown(s, t) /\ UNCHANGED setup)
         /\ \A i \in Instances, linkup \in BOOLEAN :
              WF_vars(SlaveInfo(s, i, TRUE, linkup) /\ UNCHANGED setup)
    /\ WF_vars((\E m \in net : IsMasterDownByAddr(m, FALSE)) /\ UNCHANGED setup)

LiveSpec == Spec /\ Fairness

-----------------------------------------------------------------------------
\* Properties

\* Every pointer the failover follows is there, and no epoch is ahead of the
\* current one: a slave is being reconfigured only while promoted_slave is set
\* (sentinelRefreshInstanceInfo dereferences it), a state after SELECT_SLAVE has a
\* promoted slave in the table, and UPDATE_CONFIG does not outlast the timer.
FailoverShape ==
    \A s \in Sentinels :
        LET r == sen[s]
        IN /\ IsSentinelState(r)
           /\ r.failover_state >= SEND_SLAVEOF_NOONE <=> r.promoted_slave # None
           /\ r.promoted_slave # None => r.promoted_slave \in DOMAIN r.slaves
           /\ Busy(r) # {} => r.failover_state = RECONF_SLAVES
           /\ r.failover_state # UPDATE_CONFIG
           /\ {r.config_epoch, r.leader_epoch, r.failover_epoch} \subseteq 0..r.current_epoch

\* A sentinel votes once in an epoch, also when it restarts in between
\* (sentinelVoteLeader writes leader_epoch to disk before it answers).
VotesOnce ==
    \A v, w \in hist :
        /\ v[1] = "vote" /\ w[1] = "vote" /\ v[2] = w[2] /\ v[3] = w[3]
        => v[4] = w[4]

\* Two sentinels are never elected for the same failover epoch.
OneLeaderPerEpoch ==
    \A v, w \in hist :
        /\ v[1] = "leader" /\ w[1] = "leader" /\ v[3] = w[3]
        => v[2] = w[2]

\* A configuration epoch stands for one master address, in what the sentinels say
\* and have said: or else they would never agree again (a hello only replaces an
\* older epoch).
Claims == {Hello(s) : s \in Sentinels} \cup ({hellos[s] : s \in Sentinels} \ {None})
OneAddressPerEpoch ==
    \A c, d \in Claims : c.config_epoch = d.config_epoch => c.addr = d.addr

\* Once nothing fails any more, the sentinels agree on one address, it is a master
\* that answers, and every other instance that answers replicates it.
Settled ==
    \E a \in up : /\ inst[a] = None
                  /\ \A i \in up : i # a => inst[i] = a
                  /\ \A s \in Sentinels : sen[s].addr = a
FailoverCompletes == <>[]Settled

=============================================================================
