--------------------------- MODULE SentinelProofs ---------------------------
(***************************************************************************)
(* For any number of sentinels, slaves and epochs: every pointer and epoch *)
(* the failover state machine follows is sound (FailoverShape), and a      *)
(* sentinel votes once in an epoch, whatever it loses when it restarts     *)
(* (VotesOnce).  Two sentinels are not elected for one epoch, as long as   *)
(* nobody resets them (OneLeaderPerEpoch).                                 *)
(***************************************************************************)
EXTENDS Sentinel, FiniteSetTheorems, TLAPS

\* Functions from a part of S to T: the tables of slaves and of other sentinels.
Partial(S, T) == UNION {[D -> T] : D \in SUBSET S}

Tables     == Partial(Instances, Slave)
PeerTables == Partial(Sentinels, Peer)

\* The sets the parts of the state are taken from.
Records ==
    [current_epoch : Nat, tilt : BOOLEAN, addr : Instances, config_epoch : Nat,
     leader : Sentinels \cup {None}, leader_epoch : Nat, failover_epoch : Nat,
     failover_state : NONE..UPDATE_CONFIG, promoted_slave : Instances \cup {None},
     sdown : BOOLEAN, odown : BOOLEAN, force : BOOLEAN, role : {"slave", "master"},
     delayed : BOOLEAN, behind : SUBSET (Sentinels \X Nat), slaves : Tables, peers : PeerTables]

\* What a sentinel saves.
Files ==
    [current_epoch : Nat, addr : Instances, config_epoch : Nat, leader_epoch : Nat,
     slaves : SUBSET Instances, peers : SUBSET Sentinels]

\* What a sentinel publishes.
Hellos == [epoch : Nat, addr : Instances, config_epoch : Nat]

\* No epoch is ahead of the current one.
EpochsOK(r) ==
    r.config_epoch <= r.current_epoch /\ r.leader_epoch <= r.current_epoch /\ r.failover_epoch <= r.current_epoch

\* The tables do not hold the master, nor the sentinel itself; the promoted slave is in them
\* exactly as long as the failover needs it.
PointersOK(s, r) ==
    /\ r.addr \notin DOMAIN r.slaves /\ s \notin DOMAIN r.peers
    /\ r.failover_state >= SEND_SLAVEOF_NOONE <=> r.promoted_slave # None
    /\ r.promoted_slave # None => r.promoted_slave \in DOMAIN r.slaves

\* Slaves are reconfigured in no earlier state.
BusyOK(r) ==
    r.failover_state < RECONF_SLAVES =>
        \A i \in DOMAIN r.slaves : r.slaves[i].reconf \cap {"sent", "inprog"} = {}

\* A sound record of the master.
Good(s, r) == r \in Records /\ EpochsOK(r) /\ PointersOK(s, r) /\ BusyOK(r)

\* The file holds the epoch of the last vote.
FileOK(s, f, r) ==
    /\ f \in Files /\ f.addr \notin f.slaves /\ s \notin f.peers
    /\ f.leader_epoch <= f.current_epoch
    /\ f.leader_epoch = r.leader_epoch

\* Requests for a vote.
Requests == {m \in [from : Sentinels, to : Sentinels, addr : Instances, epoch : Nat] : m.from # m.to}

\* Votes in the history.
IsVote(v) == v[1] = "vote"

\* A sentinel remembers the epoch of its last vote.
VotesKnown ==
    \A v \in hist : IsVote(v) => v[2] \in Sentinels /\ v[3] \in Nat /\ v[3] <= sen[v[2]].leader_epoch

\* Every record is sound, and no failover rests in UPDATE_CONFIG.
SentinelsOK ==
    /\ sen = [s \in Sentinels |-> sen[s]]
    /\ \A s \in Sentinels : Good(s, sen[s]) /\ sen[s].failover_state # UPDATE_CONFIG

\* Every file is sound.
FilesOK ==
    /\ disk = [s \in Sentinels |-> disk[s]]
    /\ \A s \in Sentinels : FileOK(s, disk[s], sen[s])

\* No hello announces an epoch the sender has not reached.
HellosOK ==
    /\ hellos = [s \in Sentinels |-> hellos[s]]
    /\ \A s \in Sentinels : hellos[s] # None => hellos[s] \in Hellos /\ hellos[s].config_epoch <= hellos[s].epoch

\* The types of what is outside of the sentinels.
WorldOK == setup \in Setups /\ net \subseteq Requests /\ inst \in [Instances -> Instances \cup {None}] /\ up \subseteq Instances

\* The inductive invariant.
IInv == WorldOK /\ SentinelsOK /\ FilesOK /\ HellosOK /\ VotesKnown /\ VotesOnce

-----------------------------------------------------------------------------
\* Tables

\* A table is a function on some of the instances.
LEMMA TableIs == \A f \in Tables : f = [i \in DOMAIN f |-> f[i]] /\ DOMAIN f \subseteq Instances /\ \A i \in DOMAIN f : f[i] \in Slave
BY DEF Tables, Partial

\* A new table.
LEMMA TableMake == ASSUME NEW D \in SUBSET Instances, NEW f \in [D -> Slave]  PROVE  f \in Tables /\ DOMAIN f = D
BY DEF Tables, Partial

\* One entry of a table changed.
LEMMA TableSet ==
    ASSUME NEW f \in Tables, NEW i \in DOMAIN f, NEW x \in Slave
    PROVE  /\ [f EXCEPT ![i] = x] \in Tables /\ DOMAIN [f EXCEPT ![i] = x] = DOMAIN f
           /\ \A j \in DOMAIN f : [f EXCEPT ![i] = x][j] = IF j = i THEN x ELSE f[j]
<1>1. f \in [DOMAIN f -> Slave] /\ DOMAIN f \subseteq Instances  BY TableIs
<1>2. [f EXCEPT ![i] = x] \in [DOMAIN f -> Slave]  BY <1>1
<1> QED  BY <1>1, <1>2, TableMake

\* Two tables joined.
LEMMA TableJoin ==
    ASSUME NEW D \in SUBSET Instances, NEW f \in [D -> Slave], NEW g \in Tables
    PROVE  Over(f, g) \in Tables /\ DOMAIN Over(f, g) = D \cup DOMAIN g
<1>1. g \in [DOMAIN g -> Slave] /\ DOMAIN g \subseteq Instances  BY TableIs
<1>2. Over(f, g) = [j \in D \cup DOMAIN g |-> IF j \in D THEN f[j] ELSE g[j]]
  BY DEF Over
<1>3. Over(f, g) \in [D \cup DOMAIN g -> Slave]  BY <1>1, <1>2
<1> QED  BY <1>1, <1>2, <1>3, TableMake

\* The same for the tables of other sentinels.
LEMMA PeersIs == \A f \in PeerTables : f = [i \in DOMAIN f |-> f[i]] /\ DOMAIN f \subseteq Sentinels /\ \A i \in DOMAIN f : f[i] \in Peer
BY DEF PeerTables, Partial

\* A new table of sentinels.
LEMMA PeersMake == ASSUME NEW D \in SUBSET Sentinels, NEW f \in [D -> Peer]  PROVE  f \in PeerTables /\ DOMAIN f = D
BY DEF PeerTables, Partial

\* Two tables of sentinels joined.
LEMMA PeersJoin ==
    ASSUME NEW D \in SUBSET Sentinels, NEW f \in [D -> Peer], NEW g \in PeerTables
    PROVE  Over(f, g) \in PeerTables /\ DOMAIN Over(f, g) = D \cup DOMAIN g
<1>1. g \in [DOMAIN g -> Peer] /\ DOMAIN g \subseteq Sentinels  BY PeersIs
<1>2. Over(f, g) = [j \in D \cup DOMAIN g |-> IF j \in D THEN f[j] ELSE g[j]]
  BY DEF Over
<1>3. Over(f, g) \in [D \cup DOMAIN g -> Peer]  BY <1>1, <1>2
<1> QED  BY <1>1, <1>2, <1>3, PeersMake

\* New entries have their types.
LEMMA NewRecords == NewSlave \in Slave /\ NewPeer \in Peer
BY DEF NewSlave, NewPeer, Slave, Peer

\* The larger of two epochs.
LEMMA MaxOfTwo == ASSUME NEW a \in Nat, NEW b \in Nat
    PROVE  Max({a, b}) \in {a, b} /\ Max({a, b}) >= a /\ Max({a, b}) >= b
<1>1. \E x \in {a, b} : \A y \in {a, b} : x >= y  OBVIOUS
<1> QED  BY <1>1 DEF Max

-----------------------------------------------------------------------------
\* The operators on a sentinel's record

\* The open elections are those of sentinels, in epochs.
LEMMA OpenType == ASSUME SentinelsOK  PROVE  Open \subseteq Sentinels \X Nat
BY DEF SentinelsOK, Good, Records, Open

\* What one call of sentinelVoteLeader does.
VoteDone(r, v, epoch, runid) ==
    /\ v.voted \in BOOLEAN /\ v.saved \in BOOLEAN
    /\ v.r.failover_state = r.failover_state /\ v.r.force = r.force /\ v.r.failover_epoch = r.failover_epoch
    /\ IF v.voted THEN v.r.leader_epoch = epoch /\ r.leader_epoch < epoch /\ v.r.leader = runid /\ v.saved
                  ELSE v.r.leader_epoch = r.leader_epoch

\* sentinelVoteLeader() keeps a record sound, and votes only in a new epoch.
LEMMA VoteOK ==
    ASSUME SentinelsOK, NEW s \in Sentinels, NEW r, Good(s, r), NEW epoch \in Nat, NEW runid \in Sentinels
    PROVE  LET v == sentinelVoteLeader(s, r, epoch, runid)
           IN  Good(s, v.r) /\ VoteDone(r, v, epoch, runid)
<1> DEFINE e == Max({r.current_epoch, epoch})
           votes == r.leader_epoch < epoch /\ e <= epoch
           stand == votes /\ runid # s /\ s \in setup.starters
           l == IF votes THEN runid ELSE r.leader
           le == IF votes THEN e ELSE r.leader_epoch
           dl == r.delayed \/ stand
           bh == IF stand THEN Open \ {<<s, r.failover_epoch>>} ELSE r.behind
           q == [r EXCEPT !.current_epoch = e, !.leader = l, !.leader_epoch = le, !.delayed = dl, !.behind = bh]
<1>1. r \in Records  BY DEF Good
<1>2. e \in Nat /\ e >= r.current_epoch /\ e >= epoch  BY <1>1, MaxOfTwo DEF Records
<1>3. l \in Sentinels \cup {None} /\ le \in Nat /\ dl \in BOOLEAN /\ votes \in BOOLEAN  BY <1>1, <1>2 DEF Records
<1>4. bh \in SUBSET (Sentinels \X Nat)  BY <1>1, OpenType DEF Records
<1>5. le <= e /\ (votes => le = epoch /\ r.leader_epoch < epoch) /\ (~votes => le = r.leader_epoch)
  BY <1>1, <1>2 DEF Records, Good, EpochsOK
<1>6. sentinelVoteLeader(s, r, epoch, runid) = [r |-> q, voted |-> votes, saved |-> votes \/ epoch > r.current_epoch]
  BY DEF sentinelVoteLeader
<1> HIDE DEF e, votes, stand, l, le, dl, bh
<1>7. q \in Records  BY <1>1, <1>2, <1>3, <1>4 DEF Records
<1>8. EpochsOK(q)  BY <1>1, <1>2, <1>5 DEF Records, Good, EpochsOK
<1>9. PointersOK(s, q) /\ BusyOK(q)  BY <1>1 DEF Records, Good, PointersOK, BusyOK
<1>10. q.failover_state = r.failover_state /\ q.force = r.force /\ q.failover_epoch = r.failover_epoch /\ q.leader_epoch = le /\ q.leader = l
  BY <1>1 DEF Records
<1>11. votes => l = runid  BY DEF l
<1> HIDE DEF q
<1> QED  BY <1>3, <1>5, <1>6, <1>7, <1>8, <1>9, <1>10, <1>11 DEF Good, VoteDone

\* sentinelAbortFailover is not called once slaves are reconfigured.
LEMMA AbortOK ==
    ASSUME NEW s \in Sentinels, NEW r, Good(s, r), r.failover_state < RECONF_SLAVES
    PROVE  LET q == sentinelAbortFailover(r) IN Good(s, q) /\ q.leader_epoch = r.leader_epoch /\ q.failover_state = NONE
                                                /\ q.leader = r.leader
<1> DEFINE q == [r EXCEPT !.failover_state = NONE, !.force = FALSE, !.promoted_slave = None]
<1>1. r \in Records /\ NONE \in NONE..UPDATE_CONFIG  BY DEF Good, NONE, UPDATE_CONFIG
<1>2. q \in Records  BY <1>1 DEF Records
<1>3. EpochsOK(q) /\ q.leader_epoch = r.leader_epoch /\ q.failover_state = NONE /\ q.leader = r.leader
  BY <1>1 DEF Records, Good, EpochsOK
<1>4. PointersOK(s, q)  BY <1>1 DEF Records, Good, PointersOK, NONE, SEND_SLAVEOF_NOONE
<1>5. BusyOK(q)  BY <1>1 DEF Records, Good, BusyOK, NONE, RECONF_SLAVES
<1> QED  BY <1>2, <1>3, <1>4, <1>5 DEF Good, sentinelAbortFailover

\* sentinelResetMaster() keeps the epoch of the last vote and ends a failover.
LEMMA ResetOK ==
    ASSUME NEW s \in Sentinels, NEW r, Good(s, r), NEW addr \in Instances,
           NEW D \in SUBSET Instances, addr \notin D, NEW peers \in PeerTables, s \notin DOMAIN peers
    PROVE  LET q == [sentinelResetMaster(r, [i \in D |-> NewSlave], peers) EXCEPT !.addr = addr]
           IN Good(s, q) /\ q.leader_epoch = r.leader_epoch /\ q.failover_state = NONE
<1> DEFINE t == [i \in D |-> NewSlave]
           q1 == [r EXCEPT !.slaves = t, !.peers = peers, !.sdown = FALSE, !.odown = FALSE,
              !.force = FALSE, !.leader = None, !.failover_state = NONE,
              !.delayed = FALSE, !.behind = {}, !.promoted_slave = None,
              !.role = "master"]
           q == [q1 EXCEPT !.addr = addr]
<1>1. r \in Records /\ NONE \in NONE..UPDATE_CONFIG /\ "master" \in {"slave", "master"}
  BY DEF Good, NONE, UPDATE_CONFIG
<1>2. t \in [D -> Slave] /\ \A i \in D : t[i].reconf = {}  BY NewRecords DEF NewSlave
<1>3. t \in Tables /\ DOMAIN t = D  BY <1>2, TableMake
<1> HIDE DEF t
<1>4. q1 \in Records  BY <1>1, <1>3 DEF Records
<1>5. q1.slaves = t /\ q1.peers = peers /\ q1.failover_state = NONE /\ q1.promoted_slave = None
      /\ q1.leader_epoch = r.leader_epoch /\ q1.current_epoch = r.current_epoch
      /\ q1.config_epoch = r.config_epoch /\ q1.failover_epoch = r.failover_epoch
  BY <1>1 DEF Records
<1>6. sentinelResetMaster(r, [i \in D |-> NewSlave], peers) = q1  BY DEF sentinelResetMaster, t
<1> HIDE DEF q1
<1>7. q \in Records  BY <1>4 DEF Records
<1>8. q.slaves = t /\ q.peers = peers /\ q.failover_state = NONE /\ q.promoted_slave = None /\ q.addr = addr
      /\ q.leader_epoch = r.leader_epoch /\ q.current_epoch = r.current_epoch
      /\ q.config_epoch = r.config_epoch /\ q.failover_epoch = r.failover_epoch
  BY <1>4, <1>5 DEF Records
<1> HIDE DEF q
<1>9. EpochsOK(q)  BY <1>8 DEF EpochsOK, Good
<1>10. PointersOK(s, q)  BY <1>3, <1>8 DEF PointersOK, NONE, SEND_SLAVEOF_NOONE
<1>11. BusyOK(q)  BY <1>2, <1>3, <1>8 DEF BusyOK
<1>12. [sentinelResetMaster(r, [i \in D |-> NewSlave], peers) EXCEPT !.addr = addr] = q  BY <1>6 DEF q
<1> QED  BY <1>7, <1>8, <1>9, <1>10, <1>11, <1>12 DEF Good

\* sentinelResetMasterAndChangeAddress() does the same.
LEMMA ChangeAddressOK ==
    ASSUME NEW s \in Sentinels, NEW r, Good(s, r), NEW addr \in Instances
    PROVE  LET q == sentinelResetMasterAndChangeAddress(r, addr)
           IN Good(s, q) /\ q.leader_epoch = r.leader_epoch /\ q.failover_state = NONE
<1> DEFINE D == (DOMAIN r.slaves \cup {r.addr}) \ {addr}
<1>1. r \in Records /\ s \notin DOMAIN r.peers  BY DEF Good, PointersOK
<1>2. r.slaves \in Tables /\ r.peers \in PeerTables /\ r.addr \in Instances  BY <1>1 DEF Records
<1>3. D \in SUBSET Instances /\ addr \notin D  BY <1>2, TableIs
<1>4. sentinelResetMasterAndChangeAddress(r, addr)
        = [sentinelResetMaster(r, [i \in D |-> NewSlave], r.peers) EXCEPT !.addr = addr]
  BY DEF sentinelResetMasterAndChangeAddress
<1> HIDE DEF D
<1> QED  BY <1>1, <1>2, <1>3, <1>4, ResetOK

\* What is saved of a sound record.
LEMMA SavedOK ==
    ASSUME NEW s \in Sentinels, NEW r, Good(s, r)
    PROVE  FileOK(s, Saved(r), r)
<1> DEFINE addr == sentinelGetCurrentMasterAddress(r)
<1>1. r \in Records  BY DEF Good
<1>2. addr \in Instances  BY <1>1 DEF Records, sentinelGetCurrentMasterAddress
<1>3. DOMAIN r.slaves \subseteq Instances /\ DOMAIN r.peers \subseteq Sentinels /\ r.addr \in Instances
  BY <1>1, TableIs, PeersIs DEF Records
<1>4. Saved(r) = [current_epoch |-> r.current_epoch, addr |-> addr,
        config_epoch |-> r.config_epoch, leader_epoch |-> r.leader_epoch,
        slaves |-> (DOMAIN r.slaves \cup {r.addr}) \ {addr},
        peers |-> DOMAIN r.peers]
  BY DEF Saved
<1> HIDE DEF addr
<1> QED  BY <1>1, <1>2, <1>3, <1>4 DEF FileOK, Files, Records, Good, EpochsOK, PointersOK

\* What is loaded from a sound file.
LEMMA LoadedOK ==
    ASSUME NEW s \in Sentinels, NEW f, NEW r, FileOK(s, f, r)
    PROVE  LET q == Loaded(f)
           IN Good(s, q) /\ q.leader_epoch = r.leader_epoch /\ q.failover_state = NONE
<1> DEFINE e == Max({f.current_epoch, f.config_epoch})
           t == [i \in f.slaves |-> NewSlave]
           p == [i \in f.peers |-> NewPeer]
           q == [current_epoch |-> e, tilt |-> FALSE,
     addr |-> f.addr, config_epoch |-> f.config_epoch,
     leader |-> None, leader_epoch |-> f.leader_epoch,
     failover_epoch |-> 0, failover_state |-> NONE, promoted_slave |-> None,
     sdown |-> FALSE, odown |-> FALSE, force |-> FALSE, role |-> "master",
     delayed |-> FALSE, behind |-> {},
     slaves |-> t, peers |-> p]
<1>1. f \in Files /\ NONE \in NONE..UPDATE_CONFIG  BY DEF FileOK, NONE, UPDATE_CONFIG
<1>2. e \in Nat /\ e >= f.current_epoch /\ e >= f.config_epoch  BY <1>1, MaxOfTwo DEF Files
<1>3. f.slaves \in SUBSET Instances /\ f.peers \in SUBSET Sentinels  BY <1>1 DEF Files
<1>4. t \in [f.slaves -> Slave] /\ p \in [f.peers -> Peer] /\ \A i \in f.slaves : t[i].reconf = {}
  BY NewRecords DEF NewSlave
<1>5. t \in Tables /\ DOMAIN t = f.slaves  BY <1>3, <1>4, TableMake
<1>6. p \in PeerTables /\ DOMAIN p = f.peers  BY <1>3, <1>4, PeersMake
<1>7. Loaded(f) = q  BY DEF Loaded
<1> HIDE DEF e, t, p
<1>8. q \in Records  BY <1>1, <1>2, <1>5, <1>6 DEF Records, Files
<1>9. EpochsOK(q)  BY <1>1, <1>2 DEF EpochsOK, FileOK, Files
<1>10. PointersOK(s, q)  BY <1>5, <1>6 DEF FileOK, PointersOK, NONE, SEND_SLAVEOF_NOONE
<1>11. BusyOK(q)  BY <1>4, <1>5 DEF BusyOK
<1>12. q.leader_epoch = r.leader_epoch /\ q.failover_state = NONE  BY DEF FileOK
<1> QED  BY <1>7, <1>8, <1>9, <1>10, <1>11, <1>12 DEF Good

-----------------------------------------------------------------------------
\* The failover state machine

\* What is logged is the vote of a later epoch than any before, and it is on disk.
Logged(s, r, st) ==
    /\ r.leader_epoch <= st.r.leader_epoch
    /\ st.r.leader_epoch # r.leader_epoch => st.saved
    /\ \A v \in st.log : IsVote(v) => /\ v[2] = s /\ v[3] = st.r.leader_epoch /\ v[4] = st.r.leader
                                      /\ r.leader_epoch < st.r.leader_epoch

\* What a step of the failover state machine returns.
StepOK(s, r, st) ==
    /\ Good(s, st.r) /\ st.to \subseteq Instances /\ st.master \in Instances \cup {None}
    /\ Logged(s, r, st)

\* A step that logs nothing.
LEMMA QuietStep ==
    ASSUME NEW s, NEW r \in Records, NEW q, Good(s, q), q.leader_epoch = r.leader_epoch,
           NEW to \in SUBSET Instances, NEW master \in Instances \cup {None}
    PROVE  StepOK(s, r, Step(q, to, master))
<1>1. q.leader_epoch \in Nat  BY DEF Good, Records
<1> QED  BY <1>1 DEF Step, StepOK, Logged

\* The failover step WaitStart keeps a record sound.
LEMMA WaitStartOK ==
    ASSUME SentinelsOK, NEW s \in Sentinels, NEW r, Good(s, r), r.failover_state = WAIT_START,
           NEW expired \in BOOLEAN, NEW most \in Sentinels
    PROVE  StepOK(s, r, sentinelFailoverWaitStart(s, r, expired, most))
<1> DEFINE v == sentinelVoteLeader(s, r, r.failover_epoch, most)
           lead == sentinelGetLeader(s, r, most).isleader
           log == (IF v.voted THEN {<<"vote", s, v.r.leader_epoch, v.r.leader>>} ELSE {})
                     \cup (IF lead THEN {<<"leader", s, r.failover_epoch, r.current_epoch>>} ELSE {})
           q == IF lead \/ r.force THEN [v.r EXCEPT !.failover_state = SELECT_SLAVE]
                ELSE IF expired THEN sentinelAbortFailover(v.r) ELSE v.r
<1>1. r \in Records  BY DEF Good
<1>2. r.failover_epoch \in Nat  BY <1>1 DEF Records
<1>3. Good(s, v.r) /\ VoteDone(r, v, r.failover_epoch, most)  BY <1>2, VoteOK
<1>4. v.r.failover_state = WAIT_START  BY <1>3 DEF VoteDone
<1>5. sentinelGetLeader(s, r, most).v = v  BY DEF sentinelGetLeader
<1>6. sentinelFailoverWaitStart(s, r, expired, most)
        = [r |-> q, to |-> {}, master |-> None, saved |-> v.saved, log |-> log]
  BY <1>5 DEF sentinelFailoverWaitStart
<1> HIDE DEF v, lead
<1>7. Good(s, q) /\ q.leader_epoch = v.r.leader_epoch /\ q.leader = v.r.leader
  <2> DEFINE q1 == [v.r EXCEPT !.failover_state = SELECT_SLAVE]
  <2>1. v.r \in Records /\ SELECT_SLAVE \in NONE..UPDATE_CONFIG  BY <1>3 DEF Good, SELECT_SLAVE, NONE, UPDATE_CONFIG
  <2>2. q1 \in Records  BY <2>1 DEF Records
  <2>3. EpochsOK(q1)  BY <1>3, <2>1 DEF Good, Records, EpochsOK
  <2>4. PointersOK(s, q1)  BY <1>3, <1>4, <2>1 DEF Good, Records, PointersOK, WAIT_START, SELECT_SLAVE, SEND_SLAVEOF_NOONE
  <2>5. BusyOK(q1)  BY <1>3, <1>4, <2>1 DEF Good, Records, BusyOK, WAIT_START, RECONF_SLAVES
  <2>6. q1.leader_epoch = v.r.leader_epoch /\ q1.leader = v.r.leader  BY <2>1 DEF Records
  <2>7. CASE lead \/ r.force  BY <2>2, <2>3, <2>4, <2>5, <2>6, <2>7 DEF Good
  <2>8. v.r.failover_state < RECONF_SLAVES  BY <1>4 DEF WAIT_START, RECONF_SLAVES
  <2>9. CASE ~(lead \/ r.force) /\ expired  BY <1>3, <2>8, <2>9, AbortOK
  <2>10. CASE ~(lead \/ r.force) /\ ~expired  BY <1>3, <2>10
  <2> QED  BY <2>7, <2>9, <2>10
<1> HIDE DEF q
<1>8. \A x \in log : IsVote(x) => v.voted /\ x = <<"vote", s, v.r.leader_epoch, v.r.leader>>
  BY DEF IsVote
<1>9. v.r.leader_epoch \in Nat /\ r.leader_epoch \in Nat  BY <1>1, <1>3 DEF Good, Records
<1> DEFINE st == [r |-> q, to |-> {}, master |-> None, saved |-> v.saved, log |-> log]
<1>10. Logged(s, r, st)
  <2>1. r.leader_epoch <= v.r.leader_epoch /\ (v.r.leader_epoch # r.leader_epoch => v.saved) /\ (v.voted => r.leader_epoch < v.r.leader_epoch)
    BY <1>2, <1>3, <1>9 DEF VoteDone
  <2> HIDE DEF log
  <2> QED  BY <1>7, <1>8, <2>1 DEF Logged
<1> QED  BY <1>6, <1>7, <1>10 DEF StepOK

\* The failover step SelectSlave keeps a record sound.
LEMMA SelectSlaveOK ==
    ASSUME NEW s \in Sentinels, NEW r, Good(s, r), r.failover_state = SELECT_SLAVE,
           NEW i, SelectableSlaves(s, r) # {} => i \in SelectableSlaves(s, r)
    PROVE  StepOK(s, r, sentinelFailoverSelectSlave(s, r, i))
<1> DEFINE q1 == [r EXCEPT !.promoted_slave = i, !.failover_state = SEND_SLAVEOF_NOONE]
           q == IF SelectableSlaves(s, r) = {} THEN sentinelAbortFailover(r) ELSE q1
<1>1. r \in Records /\ SEND_SLAVEOF_NOONE \in NONE..UPDATE_CONFIG  BY DEF Good, SEND_SLAVEOF_NOONE, NONE, UPDATE_CONFIG
<1>2. ASSUME SelectableSlaves(s, r) # {}  PROVE Good(s, q1) /\ q1.leader_epoch = r.leader_epoch
  <2>1. i \in DOMAIN r.slaves /\ DOMAIN r.slaves \subseteq Instances  BY <1>1, <1>2, TableIs DEF SelectableSlaves, Records
  <2>2. q1 \in Records  BY <1>1, <2>1 DEF Records
  <2>3. EpochsOK(q1) /\ q1.leader_epoch = r.leader_epoch  BY <1>1 DEF Good, Records, EpochsOK
  <2>4. i # None  BY <2>1, SentinelAssumption
  <2>5. PointersOK(s, q1)  BY <1>1, <2>1, <2>4 DEF Good, Records, PointersOK, SEND_SLAVEOF_NOONE
  <2>6. BusyOK(q1)  BY <1>1 DEF Good, Records, BusyOK, SELECT_SLAVE, RECONF_SLAVES
  <2> QED  BY <2>2, <2>3, <2>5, <2>6 DEF Good
<1>3. r.failover_state < RECONF_SLAVES  BY DEF SELECT_SLAVE, RECONF_SLAVES
<1>4. Good(s, q) /\ q.leader_epoch = r.leader_epoch  BY <1>2, <1>3, AbortOK
<1>5. sentinelFailoverSelectSlave(s, r, i) = Step(q, {}, None)
  BY DEF sentinelFailoverSelectSlave
<1> HIDE DEF q
<1> QED  BY <1>1, <1>4, <1>5, QuietStep

\* The failover step SendSlaveOfNoOne keeps a record sound.
LEMMA SendSlaveOfNoOneOK ==
    ASSUME NEW s \in Sentinels, NEW r, Good(s, r), r.failover_state = SEND_SLAVEOF_NOONE,
           NEW expired \in BOOLEAN, NEW disconnected \in BOOLEAN
    PROVE  StepOK(s, r, sentinelFailoverSendSlaveOfNoOne(s, r, expired, disconnected))
<1> DEFINE q1 == [r EXCEPT !.failover_state = WAIT_PROMOTION]
           q2 == IF expired THEN sentinelAbortFailover(r) ELSE r
<1>1. r \in Records /\ WAIT_PROMOTION \in NONE..UPDATE_CONFIG  BY DEF Good, WAIT_PROMOTION, NONE, UPDATE_CONFIG
<1>2. Good(s, q1) /\ q1.leader_epoch = r.leader_epoch
  <2>1. q1 \in Records  BY <1>1 DEF Records
  <2>2. EpochsOK(q1) /\ q1.leader_epoch = r.leader_epoch  BY <1>1 DEF Good, Records, EpochsOK
  <2>3. PointersOK(s, q1)  BY <1>1 DEF Good, Records, PointersOK, SEND_SLAVEOF_NOONE, WAIT_PROMOTION
  <2>4. BusyOK(q1)  BY <1>1 DEF Good, Records, BusyOK, SEND_SLAVEOF_NOONE, RECONF_SLAVES
  <2> QED  BY <2>1, <2>2, <2>3, <2>4 DEF Good
<1>3. r.failover_state < RECONF_SLAVES  BY DEF SEND_SLAVEOF_NOONE, RECONF_SLAVES
<1>4. Good(s, q2) /\ q2.leader_epoch = r.leader_epoch  BY <1>3, AbortOK
<1>5. {r.promoted_slave} \in SUBSET Instances
  <2>1. r.promoted_slave # None  BY DEF Good, PointersOK, SEND_SLAVEOF_NOONE
  <2> QED  BY <1>1, <2>1 DEF Records
<1>6. \/ sentinelFailoverSendSlaveOfNoOne(s, r, expired, disconnected) = Step(q1, {r.promoted_slave}, None)
      \/ sentinelFailoverSendSlaveOfNoOne(s, r, expired, disconnected) = Step(q2, {}, None)
  BY DEF sentinelFailoverSendSlaveOfNoOne
<1> HIDE DEF q1, q2
<1> QED  BY <1>1, <1>2, <1>4, <1>5, <1>6, QuietStep

\* The failover step WaitPromotion keeps a record sound.
LEMMA WaitPromotionOK ==
    ASSUME NEW s \in Sentinels, NEW r, Good(s, r), r.failover_state = WAIT_PROMOTION, NEW expired \in BOOLEAN
    PROVE  StepOK(s, r, sentinelFailoverWaitPromotion(r, expired))
<1> DEFINE q == IF expired THEN sentinelAbortFailover(r) ELSE r
<1>1. r \in Records  BY DEF Good
<1>2. r.failover_state < RECONF_SLAVES  BY DEF WAIT_PROMOTION, RECONF_SLAVES
<1>3. Good(s, q) /\ q.leader_epoch = r.leader_epoch  BY <1>2, AbortOK
<1>4. sentinelFailoverWaitPromotion(r, expired) = Step(q, {}, None)
  BY DEF sentinelFailoverWaitPromotion
<1> HIDE DEF q
<1> QED  BY <1>1, <1>3, <1>4, QuietStep

\* A table in which no slave appears or disappears, while slaves are reconfigured.
LEMMA SlavesChanged ==
    ASSUME NEW s \in Sentinels, NEW r, Good(s, r), r.failover_state >= RECONF_SLAVES,
           NEW t \in Tables, DOMAIN t = DOMAIN r.slaves
    PROVE  LET q == [r EXCEPT !.slaves = t]
           IN Good(s, q) /\ q.leader_epoch = r.leader_epoch /\ q.failover_state = r.failover_state
              /\ q.promoted_slave = r.promoted_slave /\ q.slaves = t
<1> DEFINE q == [r EXCEPT !.slaves = t]
<1>1. r \in Records  BY DEF Good
<1>2. q \in Records  BY <1>1 DEF Records
<1>3. EpochsOK(q)  BY <1>1 DEF Good, Records, EpochsOK
<1>4. PointersOK(s, q)  BY <1>1 DEF Good, Records, PointersOK
<1>5. q.leader_epoch = r.leader_epoch /\ q.failover_state = r.failover_state
      /\ q.promoted_slave = r.promoted_slave /\ q.slaves = t
  BY <1>1 DEF Records
<1>6. ~(q.failover_state < RECONF_SLAVES)  BY <1>1, <1>5 DEF Records, NONE, UPDATE_CONFIG, RECONF_SLAVES
<1>7. BusyOK(q)  BY <1>6 DEF BusyOK
<1> QED  BY <1>2, <1>3, <1>4, <1>5, <1>7 DEF Good

\* The failover step DetectEnd keeps a record sound.
LEMMA DetectEndOK ==
    ASSUME NEW s \in Sentinels, NEW r, Good(s, r), r.failover_state = RECONF_SLAVES, NEW expired \in BOOLEAN
    PROVE  LET end == sentinelFailoverDetectEnd(r, expired)
           IN Good(s, end.r) /\ end.r.leader_epoch = r.leader_epoch /\ end.to \in SUBSET Instances
<1> DEFINE q1 == [r EXCEPT !.failover_state = UPDATE_CONFIG]
           end == sentinelFailoverDetectEnd(r, expired)
<1>1. r \in Records /\ UPDATE_CONFIG \in NONE..UPDATE_CONFIG  BY DEF Good, NONE, UPDATE_CONFIG
<1>2. Good(s, q1) /\ q1.leader_epoch = r.leader_epoch
  <2>1. q1 \in Records  BY <1>1 DEF Records
  <2>2. EpochsOK(q1) /\ q1.leader_epoch = r.leader_epoch  BY <1>1 DEF Good, Records, EpochsOK
  <2>3. PointersOK(s, q1)  BY <1>1 DEF Good, Records, PointersOK, SEND_SLAVEOF_NOONE, RECONF_SLAVES, UPDATE_CONFIG
  <2>4. BusyOK(q1)  BY <1>1 DEF Records, BusyOK, UPDATE_CONFIG, RECONF_SLAVES
  <2> QED  BY <2>1, <2>2, <2>3, <2>4 DEF Good
<1>3. DOMAIN r.slaves \subseteq Instances  BY <1>1, TableIs DEF Records
<1>4. end.r \in {r, q1} /\ end.to \subseteq DOMAIN r.slaves
  <2> DEFINE left == {i \in DOMAIN r.slaves : /\ i # r.promoted_slave
                                              /\ "done" \notin r.slaves[i].reconf
                                              /\ ~r.slaves[i].sdown}
             rest == {i \in DOMAIN r.slaves : r.slaves[i].reconf \cap {"done", "sent"} = {}}
             more == IF expired THEN rest ELSE {}
             q == IF expired \/ left = {} THEN q1 ELSE r
  <2>1. end = IF r.slaves[r.promoted_slave].sdown THEN Step(r, {}, None) ELSE Step(q, more, r.promoted_slave)
    BY DEF sentinelFailoverDetectEnd
  <2>2. more \subseteq DOMAIN r.slaves /\ q \in {r, q1}  OBVIOUS
  <2> HIDE DEF q1, q, more, end
  <2> QED  BY <2>1, <2>2 DEF Step
<1> HIDE DEF q1, end
<1>5. Good(s, end.r) /\ end.r.leader_epoch = r.leader_epoch  BY <1>2, <1>4
<1> QED  BY <1>3, <1>4, <1>5 DEF end

\* The failover step ReconfNextSlave keeps a record sound.
LEMMA ReconfNextSlaveOK ==
    ASSUME NEW s \in Sentinels, NEW r, Good(s, r), r.failover_state = RECONF_SLAVES,
           NEW expired \in BOOLEAN, NEW next \in NextSlaves(s, r)
    PROVE  StepOK(s, r, sentinelFailoverReconfNextSlave(r, expired, next))
<1> DEFINE f == [i \in next |-> [r.slaves[i] EXCEPT !.reconf = {"sent"} \cup (IF @ = {} THEN {} ELSE {"done"})]]
           t == Over(f, r.slaves)
           q == [r EXCEPT !.slaves = t]
           end == sentinelFailoverDetectEnd(q, expired)
<1>1. r \in Records /\ r.slaves \in Tables  BY DEF Good, Records
<1>2. next \subseteq DOMAIN r.slaves  BY DEF NextSlaves, Askable, kSubset
<1>3. next \in SUBSET Instances  BY <1>1, <1>2, TableIs
<1>4. f \in [next -> Slave]
  <2>1. \A i \in next : r.slaves[i] \in Slave  BY <1>1, <1>2, TableIs
  <2>2. ASSUME NEW i \in next  PROVE [r.slaves[i] EXCEPT !.reconf = {"sent"} \cup (IF @ = {} THEN {} ELSE {"done"})] \in Slave
    BY <2>1 DEF Slave
  <2> QED  BY <2>2
<1> HIDE DEF f
<1>5. t \in Tables /\ DOMAIN t = DOMAIN r.slaves
  <2>1. Over(f, r.slaves) \in Tables /\ DOMAIN Over(f, r.slaves) = next \cup DOMAIN r.slaves
    BY <1>1, <1>3, <1>4, TableJoin
  <2> QED  BY <1>2, <2>1
<1>6. r.failover_state >= RECONF_SLAVES  BY DEF RECONF_SLAVES
<1> HIDE DEF t
<1>7. Good(s, q) /\ q.leader_epoch = r.leader_epoch /\ q.failover_state = RECONF_SLAVES
  BY <1>5, <1>6, SlavesChanged
<1>8. sentinelFailoverReconfNextSlave(r, expired, next) = Step(end.r, end.to \cup next, r.promoted_slave)
  BY DEF sentinelFailoverReconfNextSlave, t, f
<1> HIDE DEF q
<1>9. Good(s, end.r) /\ end.r.leader_epoch = r.leader_epoch /\ end.to \in SUBSET Instances  BY <1>7, DetectEndOK
<1>10. r.promoted_slave \in Instances \cup {None} /\ end.to \cup next \in SUBSET Instances  BY <1>1, <1>3, <1>9 DEF Records
<1> HIDE DEF end
<1> QED  BY <1>1, <1>8, <1>9, <1>10, QuietStep

\* sentinelFailoverStateMachine() keeps a record sound.
LEMMA StateMachineOK ==
    ASSUME SentinelsOK, NEW s \in Sentinels, NEW r, Good(s, r), r.failover_state # UPDATE_CONFIG,
           NEW expired \in BOOLEAN, NEW disconnected \in BOOLEAN, 
           NEW choice \in FailoverChoices(s, r)
    PROVE  StepOK(s, r, sentinelFailoverStateMachine(s, r, expired, disconnected, choice))
<1> DEFINE st == sentinelFailoverStateMachine(s, r, expired, disconnected, choice)
<1> USE DEF NONE, WAIT_START, SELECT_SLAVE, SEND_SLAVEOF_NOONE, WAIT_PROMOTION, RECONF_SLAVES, UPDATE_CONFIG
<1>0. r \in Records /\ r.failover_state \in 0..6  BY DEF Good, Records
<1>1. CASE r.failover_state = 1
  <2>1. choice \in Sentinels  BY <1>1 DEF FailoverChoices, Leading
  <2>2. st = sentinelFailoverWaitStart(s, r, expired, choice)  BY <1>1 DEF sentinelFailoverStateMachine
  <2> QED  BY <1>1, <2>1, <2>2, WaitStartOK
<1>2. CASE r.failover_state = 2
  <2>1. SelectableSlaves(s, r) # {} => choice \in SelectableSlaves(s, r)  BY <1>2 DEF FailoverChoices
  <2>2. st = sentinelFailoverSelectSlave(s, r, choice)  BY <1>2 DEF sentinelFailoverStateMachine
  <2> QED  BY <1>2, <2>1, <2>2, SelectSlaveOK
<1>3. CASE r.failover_state = 3
  <2>1. st = sentinelFailoverSendSlaveOfNoOne(s, r, expired, disconnected)  BY <1>3 DEF sentinelFailoverStateMachine
  <2> QED  BY <1>3, <2>1, SendSlaveOfNoOneOK
<1>4. CASE r.failover_state = 4
  <2>1. st = sentinelFailoverWaitPromotion(r, expired)  BY <1>4 DEF sentinelFailoverStateMachine
  <2> QED  BY <1>4, <2>1, WaitPromotionOK
<1>5. CASE r.failover_state = 5
  <2>1. choice \in NextSlaves(s, r)  BY <1>5 DEF FailoverChoices
  <2>2. st = sentinelFailoverReconfNextSlave(r, expired, choice)  BY <1>5 DEF sentinelFailoverStateMachine
  <2> QED  BY <1>5, <2>1, <2>2, ReconfNextSlaveOK
<1>6. CASE r.failover_state = 0
  <2>1. st = Step(r, {}, None)  BY <1>6 DEF sentinelFailoverStateMachine
  <2> QED  BY <1>0, <2>1, QuietStep
<1> QED  BY <1>0, <1>1, <1>2, <1>3, <1>4, <1>5, <1>6

-----------------------------------------------------------------------------
\* The rest of the timer

\* sentinelStartFailover() keeps a record sound.
LEMMA StartOK ==
    ASSUME SentinelsOK, NEW s \in Sentinels, NEW r, Good(s, r), r.failover_state = NONE
    PROVE  LET q == sentinelStartFailover(s, r) IN Good(s, q) /\ q.leader_epoch = r.leader_epoch /\ q.failover_state = WAIT_START
<1> DEFINE e == r.current_epoch + 1
           q == [r EXCEPT !.failover_state = WAIT_START, !.current_epoch = e, !.failover_epoch = e,
                          !.delayed = TRUE, !.behind = Open]
<1>1. r \in Records /\ WAIT_START \in NONE..UPDATE_CONFIG  BY DEF Good, WAIT_START, NONE, UPDATE_CONFIG
<1>2. e \in Nat /\ e > r.current_epoch  BY <1>1 DEF Records
<1>3. Open \in SUBSET (Sentinels \X Nat)  BY OpenType
<1>4. sentinelStartFailover(s, r) = q  BY DEF sentinelStartFailover
<1> HIDE DEF e
<1>5. q \in Records  BY <1>1, <1>2, <1>3 DEF Records
<1>6. EpochsOK(q) /\ q.leader_epoch = r.leader_epoch /\ q.failover_state = WAIT_START
  BY <1>1, <1>2 DEF Good, Records, EpochsOK
<1>7. PointersOK(s, q)  BY <1>1 DEF Good, Records, PointersOK, NONE, WAIT_START, SEND_SLAVEOF_NOONE
<1>8. BusyOK(q)  BY <1>1 DEF Good, Records, BusyOK, NONE, RECONF_SLAVES
<1> QED  BY <1>4, <1>5, <1>6, <1>7, <1>8 DEF Good

\* The flags of a master do not matter to the rest.
LEMMA FlagsOK ==
    ASSUME NEW s \in Sentinels, NEW r, Good(s, r), NEW sdown \in BOOLEAN, NEW tilt \in BOOLEAN
    PROVE  LET q == sentinelCheckObjectivelyDown([r EXCEPT !.sdown = sdown, !.tilt = tilt])
           IN Good(s, q) /\ q.leader_epoch = r.leader_epoch /\ q.failover_state = r.failover_state
<1> DEFINE q0 == [r EXCEPT !.sdown = sdown, !.tilt = tilt]
           o == q0.sdown /\ 1 + Cardinality({p \in DOMAIN q0.peers : q0.peers[p].down}) >= Quorum
           q == [q0 EXCEPT !.odown = o]
<1>1. r \in Records  BY DEF Good
<1>2. o \in BOOLEAN  OBVIOUS
<1>3. sentinelCheckObjectivelyDown(q0) = q  BY DEF sentinelCheckObjectivelyDown
<1> HIDE DEF o
<1>4. q = [r EXCEPT !.sdown = sdown, !.tilt = tilt, !.odown = o]  BY <1>1 DEF Records
<1> HIDE DEF q
<1>5. q \in Records  BY <1>1, <1>2, <1>4, ZenonT(60) DEF Records
<1>6. EpochsOK(q) /\ q.leader_epoch = r.leader_epoch /\ q.failover_state = r.failover_state
  BY <1>1, <1>4 DEF Good, Records, EpochsOK
<1>7. PointersOK(s, q) /\ BusyOK(q)  BY <1>1, <1>4 DEF Good, Records, PointersOK, BusyOK
<1> QED  BY <1>3, <1>5, <1>6, <1>7 DEF Good

\* Neither does the table of other sentinels.
LEMMA PeersChanged ==
    ASSUME NEW s \in Sentinels, NEW r, Good(s, r), NEW t \in PeerTables, s \notin DOMAIN t
    PROVE  LET q == [r EXCEPT !.peers = t]
           IN Good(s, q) /\ q.leader_epoch = r.leader_epoch /\ q.failover_state = r.failover_state
              /\ q.current_epoch = r.current_epoch /\ q.config_epoch = r.config_epoch /\ q.addr = r.addr
<1> DEFINE q == [r EXCEPT !.peers = t]
<1>1. r \in Records  BY DEF Good
<1>2. q \in Records  BY <1>1 DEF Records
<1>3. EpochsOK(q) /\ q.leader_epoch = r.leader_epoch /\ q.failover_state = r.failover_state
      /\ q.current_epoch = r.current_epoch /\ q.config_epoch = r.config_epoch /\ q.addr = r.addr
  BY <1>1 DEF Good, Records, EpochsOK
<1>4. PointersOK(s, q) /\ BusyOK(q)  BY <1>1 DEF Good, Records, PointersOK, BusyOK
<1> QED  BY <1>2, <1>3, <1>4 DEF Good

\* Old replies forgotten.
LEMMA ForgetOK ==
    ASSUME NEW s \in Sentinels, NEW r, Good(s, r), NEW old \in SUBSET DOMAIN r.peers
    PROVE  LET q == Forget(r, old)
           IN Good(s, q) /\ q.leader_epoch = r.leader_epoch /\ q.failover_state = r.failover_state
<1> DEFINE f == [p \in old |-> [r.peers[p] EXCEPT !.down = FALSE, !.leader = None]]
           t == Over(f, r.peers)
<1>1. r.peers \in PeerTables /\ s \notin DOMAIN r.peers  BY DEF Good, Records, PointersOK
<1>2. old \in SUBSET Sentinels /\ \A p \in old : r.peers[p] \in Peer  BY <1>1, PeersIs
<1>3. f \in [old -> Peer]
  <2>1. ASSUME NEW p \in old  PROVE [r.peers[p] EXCEPT !.down = FALSE, !.leader = None] \in Peer
    BY <1>2 DEF Peer
  <2> QED  BY <2>1
<1>4. Forget(r, old) = [r EXCEPT !.peers = t]  BY DEF Forget
<1> HIDE DEF f
<1>5. t \in PeerTables /\ s \notin DOMAIN t  BY <1>1, <1>2, <1>3, PeersJoin, SMTT(60)
<1> HIDE DEF t
<1> QED  BY <1>4, <1>5, PeersChanged

\* Slaves that are down marked.
LEMMA SlavesDownOK ==
    ASSUME NEW s \in Sentinels, NEW r, Good(s, r), NEW down \in [DOMAIN r.slaves -> BOOLEAN]
    PROVE  LET q == SlavesDown(r, down)
           IN Good(s, q) /\ q.leader_epoch = r.leader_epoch /\ q.failover_state = r.failover_state /\ q.promoted_slave = r.promoted_slave
<1> DEFINE t == [i \in DOMAIN r.slaves |-> [r.slaves[i] EXCEPT !.sdown = down[i]]]
           q == [r EXCEPT !.slaves = t]
<1>1. r \in Records /\ r.slaves \in Tables  BY DEF Good, Records
<1>2. DOMAIN r.slaves \in SUBSET Instances /\ \A i \in DOMAIN r.slaves : r.slaves[i] \in Slave  BY <1>1, TableIs
<1>3. t \in [DOMAIN r.slaves -> Slave] /\ \A i \in DOMAIN r.slaves : t[i].reconf = r.slaves[i].reconf
  <2>1. ASSUME NEW i \in DOMAIN r.slaves
        PROVE /\ [r.slaves[i] EXCEPT !.sdown = down[i]] \in Slave
              /\ [r.slaves[i] EXCEPT !.sdown = down[i]].reconf = r.slaves[i].reconf
    <3>1. down[i] \in BOOLEAN /\ r.slaves[i] \in Slave  BY <1>2
    <3> QED  BY <3>1 DEF Slave
  <2> QED  BY <2>1
<1>4. SlavesDown(r, down) = q  BY DEF SlavesDown
<1> HIDE DEF t
<1>5. t \in Tables /\ DOMAIN t = DOMAIN r.slaves  BY <1>2, <1>3, TableMake
<1>6. q \in Records  BY <1>1, <1>5 DEF Records
<1>7. EpochsOK(q) /\ q.leader_epoch = r.leader_epoch /\ q.failover_state = r.failover_state /\ q.promoted_slave = r.promoted_slave
  BY <1>1 DEF Good, Records, EpochsOK
<1>8. PointersOK(s, q)  BY <1>1, <1>5 DEF Good, Records, PointersOK
<1>9. BusyOK(q)  BY <1>1, <1>3, <1>5 DEF Good, Records, BusyOK
<1> QED  BY <1>4, <1>6, <1>7, <1>8, <1>9 DEF Good

-----------------------------------------------------------------------------
\* What a step has to leave behind: sound records, files that know of the votes, and only
\* votes of epochs in which the sentinel had not voted.

\* Everything the invariant says of the sentinels.
SensOK == SentinelsOK /\ FilesOK /\ VotesKnown /\ VotesOnce

\* A record and a file that may follow another record.
Follows(t, old, new, file) ==
    /\ Good(t, new) /\ new.failover_state # UPDATE_CONFIG /\ FileOK(t, file, new)
    /\ old.leader_epoch <= new.leader_epoch

\* The votes in log are for l, in an epoch in which s had not voted.
NewVotes(s, old, new, l, log) ==
    \A v \in log : IsVote(v) => /\ v[2] = s /\ v[3] = new.leader_epoch /\ v[4] = l
                                /\ old.leader_epoch < new.leader_epoch

\* Such records and such votes keep what the invariant says of sentinels.
LEMMA NewState ==
    ASSUME IInv, NEW s \in Sentinels, NEW l, NEW log,
           sen' = [t \in Sentinels |-> sen'[t]], disk' = [t \in Sentinels |-> disk'[t]],
           \A t \in Sentinels : Follows(t, sen[t], sen'[t], disk'[t]), NewVotes(s, sen[s], sen'[s], l, log),
           hist' = hist \cup log
    PROVE  SensOK'
<1>1. SentinelsOK'  BY DEF SentinelsOK, Follows
<1>2. FilesOK'  BY DEF FilesOK, Follows
<1>3. \A t \in Sentinels : sen[t].leader_epoch \in Nat /\ sen'[t].leader_epoch \in Nat
  BY DEF IInv, SentinelsOK, Follows, Good, Records
<1>4. \A v \in hist : IsVote(v) => v[2] \in Sentinels /\ v[3] \in Nat /\ v[3] <= sen[v[2]].leader_epoch
  BY DEF IInv, VotesKnown
<1>5. VotesKnown'
  <2>1. SUFFICES ASSUME NEW v \in hist', IsVote(v)
                 PROVE  v[2] \in Sentinels /\ v[3] \in Nat /\ v[3] <= sen'[v[2]].leader_epoch
    BY DEF VotesKnown, IsVote
  <2>2. CASE v \in hist  BY <1>3, <1>4, <2>1, <2>2 DEF Follows
  <2>3. CASE v \in log  BY <1>3, <2>1, <2>3 DEF NewVotes
  <2> QED  BY <2>1, <2>2, <2>3
<1>6. VotesOnce'
  <2>1. SUFFICES ASSUME NEW v \in hist', NEW w \in hist', IsVote(v), IsVote(w), v[2] = w[2], v[3] = w[3]
                 PROVE  v[4] = w[4]
    BY DEF VotesOnce, IsVote
  <2>2. CASE v \in hist /\ w \in hist  BY <2>1, <2>2 DEF IInv, VotesOnce, IsVote
  <2>3. CASE v \in log /\ w \in log  BY <2>1, <2>3 DEF NewVotes
  <2>4. CASE v \in hist /\ w \in log  BY <1>3, <1>4, <2>1, <2>4 DEF NewVotes
  <2>5. CASE v \in log /\ w \in hist  BY <1>3, <1>4, <2>1, <2>5 DEF NewVotes
  <2> QED  BY <2>1, <2>2, <2>3, <2>4, <2>5
<1> QED  BY <1>1, <1>2, <1>5, <1>6 DEF SensOK

\* One sentinel changes, and perhaps votes.
LEMMA OneVotes ==
    ASSUME IInv, NEW s \in Sentinels, NEW q, NEW f, NEW l, NEW log,
           Follows(s, sen[s], q, f), NewVotes(s, sen[s], q, l, log),
           sen' = [sen EXCEPT ![s] = q], disk' = [disk EXCEPT ![s] = f], hist' = hist \cup log
    PROVE  SensOK'
<1>1. sen = [t \in Sentinels |-> sen[t]] /\ disk = [t \in Sentinels |-> disk[t]]  BY DEF IInv, SentinelsOK, FilesOK
<1>2. sen' = [t \in Sentinels |-> sen'[t]] /\ disk' = [t \in Sentinels |-> disk'[t]]  BY <1>1
<1>3. \A t \in Sentinels : sen'[t] = IF t = s THEN q ELSE sen[t]  BY <1>1
<1>4. \A t \in Sentinels : disk'[t] = IF t = s THEN f ELSE disk[t]  BY <1>1
<1>5. ASSUME NEW t \in Sentinels
      PROVE  Follows(t, sen[t], sen'[t], disk'[t])
  <2>1. CASE t = s  BY <1>3, <1>4, <2>1
  <2>2. CASE t # s
    <3>1. Good(t, sen[t]) /\ sen[t].failover_state # UPDATE_CONFIG /\ FileOK(t, disk[t], sen[t])
      BY DEF IInv, SentinelsOK, FilesOK
    <3>2. sen[t].leader_epoch \in Nat  BY <3>1 DEF Good, Records
    <3> QED  BY <1>3, <1>4, <2>2, <3>1, <3>2 DEF Follows
  <2> QED  BY <2>1, <2>2
<1>6. sen'[s] = q  BY <1>3
<1> QED  BY <1>2, <1>5, <1>6, NewState

\* One sentinel changes and does not vote.
LEMMA OneChanges ==
    ASSUME IInv, NEW s \in Sentinels, NEW q, NEW f,
           Good(s, q), q.failover_state # UPDATE_CONFIG, FileOK(s, f, q), sen[s].leader_epoch = q.leader_epoch,
           sen' = [sen EXCEPT ![s] = q], disk' = [disk EXCEPT ![s] = f], hist' = hist
    PROVE  SensOK'
<1>1. q.leader_epoch \in Nat  BY DEF Good, Records
<1>2. hist' = hist \cup {}  OBVIOUS
<1>3. NewVotes(s, sen[s], q, None, {})  BY DEF NewVotes
<1>4. Follows(s, sen[s], q, f)  BY <1>1 DEF Follows
<1> QED  BY <1>2, <1>3, <1>4, OneVotes

\* The same without touching the file.
LEMMA OneChangesMemory ==
    ASSUME IInv, NEW s \in Sentinels, NEW q,
           Good(s, q), q.failover_state # UPDATE_CONFIG, sen[s].leader_epoch = q.leader_epoch,
           sen' = [sen EXCEPT ![s] = q], disk' = disk, hist' = hist
    PROVE  SensOK'
<1>1. disk = [t \in Sentinels |-> disk[t]] /\ FileOK(s, disk[s], sen[s])  BY DEF IInv, FilesOK
<1>2. disk' = [disk EXCEPT ![s] = disk[s]]  BY <1>1
<1>3. FileOK(s, disk[s], q)  BY <1>1 DEF FileOK
<1> QED  BY <1>2, <1>3, OneChanges

\* So does a step that changes none of them.
LEMMA NoneChanges ==
    ASSUME IInv, sen' = sen, disk' = disk, hist' = hist  PROVE SensOK'
BY DEF IInv, SensOK, SentinelsOK, FilesOK, VotesKnown, VotesOnce

\* The parts of the invariant.
LEMMA WholeOK == ASSUME WorldOK', HellosOK', SensOK'  PROVE IInv'
BY DEF IInv, SensOK

\* What the invariant says of one sentinel.
LEMMA StateOf == ASSUME IInv, NEW s \in Sentinels
    PROVE  /\ Good(s, sen[s]) /\ sen[s] \in Records /\ sen[s].failover_state # UPDATE_CONFIG
           /\ FileOK(s, disk[s], sen[s])
BY DEF IInv, SentinelsOK, FilesOK, Good

\* SLAVEOF sent to instances.
LEMMA SlaveOfOK ==
    ASSUME IInv, NEW s, NEW to \in SUBSET Instances, NEW master \in Instances \cup {None}, SlaveOf(s, to, master)
    PROVE  inst' \in [Instances -> Instances \cup {None}]
BY DEF IInv, WorldOK, SlaveOf, Over

-----------------------------------------------------------------------------
\* The actions

\* The timer's tables of slaves and sentinels have the same entries all along.
SameTables(r, q) == DOMAIN q.peers = DOMAIN r.peers /\ DOMAIN q.slaves = DOMAIN r.slaves

\* The checks of the master by sentinelHandleRedisInstance().
LEMMA CheckMasterOK ==
    ASSUME SentinelsOK, NEW s \in Sentinels, NEW r, Good(s, r), r.failover_state # UPDATE_CONFIG, NEW sdown \in BOOLEAN
    PROVE  LET q == CheckMaster(s, r, sdown)
           IN  Good(s, q) /\ q.leader_epoch = r.leader_epoch /\ q.failover_state # UPDATE_CONFIG /\ SameTables(r, q)
<1> DEFINE r1 == sentinelCheckObjectivelyDown([r EXCEPT !.sdown = sdown, !.tilt = FALSE])
<1>1. Good(s, r1) /\ r1.leader_epoch = r.leader_epoch /\ r1.failover_state = r.failover_state  BY FlagsOK
<1>2. r \in Records  BY DEF Good
<1>3. SameTables(r, r1)  BY <1>2 DEF Records, sentinelCheckObjectivelyDown, SameTables
<1>4. CheckMaster(s, r, sdown) = IF CanStart(s, r1) THEN sentinelStartFailover(s, r1) ELSE r1  BY DEF CheckMaster
<1> HIDE DEF r1
<1>5. CASE ~CanStart(s, r1)  BY <1>1, <1>3, <1>4, <1>5
<1>6. CASE CanStart(s, r1)
  <2>1. r1.failover_state = NONE /\ r1 \in Records  BY <1>1, <1>6 DEF CanStart, InProgress, Good
  <2> DEFINE q == sentinelStartFailover(s, r1)
  <2>2. Good(s, q) /\ q.leader_epoch = r1.leader_epoch /\ q.failover_state = WAIT_START  BY <1>1, <2>1, StartOK
  <2>3. SameTables(r1, q)  BY <2>1 DEF Records, sentinelStartFailover, SameTables
  <2>4. WAIT_START # UPDATE_CONFIG  BY DEF WAIT_START, UPDATE_CONFIG
  <2> HIDE DEF q
  <2>5. CheckMaster(s, r, sdown) = q  BY <1>4, <1>6 DEF q
  <2> QED  BY <1>1, <1>3, <2>2, <2>3, <2>4, <2>5 DEF SameTables
<1> QED  BY <1>5, <1>6

\* sentinelAbortFailover() adds and removes no instance.
LEMMA SameTablesAbort == ASSUME NEW r \in Records  PROVE SameTables(r, sentinelAbortFailover(r))
BY DEF Records, SameTables, sentinelAbortFailover

\* Neither does a vote.
LEMMA SameTablesVote ==
    ASSUME NEW s, NEW r \in Records, NEW epoch, NEW runid  PROVE SameTables(r, sentinelVoteLeader(s, r, epoch, runid).r)
BY DEF Records, SameTables, sentinelVoteLeader

\* Neither does the failover state machine.
LEMMA StateMachineTables ==
    ASSUME SentinelsOK, NEW s \in Sentinels, NEW r, Good(s, r),
           NEW expired \in BOOLEAN, NEW disconnected \in BOOLEAN, 
           NEW choice \in FailoverChoices(s, r)
    PROVE  SameTables(r, sentinelFailoverStateMachine(s, r, expired, disconnected, choice).r)
<1> DEFINE st == sentinelFailoverStateMachine(s, r, expired, disconnected, choice)
<1> SUFFICES SameTables(r, st.r)  OBVIOUS
<1> USE DEF NONE, WAIT_START, SELECT_SLAVE, SEND_SLAVEOF_NOONE, WAIT_PROMOTION, RECONF_SLAVES, UPDATE_CONFIG
<1>0. r \in Records /\ r.failover_state \in 0..6  BY DEF Good, Records
<1>1. CASE r.failover_state = 1
  <2> DEFINE v == sentinelVoteLeader(s, r, r.failover_epoch, choice).r
             q == [v EXCEPT !.failover_state = SELECT_SLAVE]
  <2>1. choice \in Sentinels  BY <1>1 DEF FailoverChoices, Leading
  <2>2. st = sentinelFailoverWaitStart(s, r, expired, choice)  BY <1>1 DEF sentinelFailoverStateMachine
  <2>3. sentinelGetLeader(s, r, choice).v.r = v  BY DEF sentinelGetLeader
  <2>4. st.r \in {v, q, sentinelAbortFailover(v)}  BY <2>2, <2>3 DEF sentinelFailoverWaitStart
  <2>5. r.failover_epoch \in Nat  BY <1>0 DEF Records
  <2>6. v \in Records  BY <2>1, <2>5, VoteOK DEF Good
  <2>7. SameTables(r, v)  BY <1>0, SameTablesVote
  <2> HIDE DEF v
  <2>8. SameTables(v, q)  BY <2>6 DEF Records, SameTables
  <2>9. SameTables(v, sentinelAbortFailover(v))  BY <2>6, SameTablesAbort
  <2> HIDE DEF q, st
  <2> QED  BY <2>4, <2>7, <2>8, <2>9 DEF SameTables
<1>2. CASE r.failover_state = 2
  <2> DEFINE q == [r EXCEPT !.promoted_slave = choice, !.failover_state = SEND_SLAVEOF_NOONE]
  <2>1. st = sentinelFailoverSelectSlave(s, r, choice)  BY <1>2 DEF sentinelFailoverStateMachine
  <2>2. st.r \in {q, sentinelAbortFailover(r)}  BY <2>1 DEF sentinelFailoverSelectSlave, Step
  <2>3. SameTables(r, q)  BY <1>0 DEF Records, SameTables
  <2> HIDE DEF q, st
  <2> QED  BY <1>0, <2>2, <2>3, SameTablesAbort
<1>3. CASE r.failover_state = 3
  <2> DEFINE q == [r EXCEPT !.failover_state = WAIT_PROMOTION]
  <2>1. st = sentinelFailoverSendSlaveOfNoOne(s, r, expired, disconnected)  BY <1>3 DEF sentinelFailoverStateMachine
  <2>2. st.r \in {r, q, sentinelAbortFailover(r)}  BY <2>1 DEF sentinelFailoverSendSlaveOfNoOne, Step
  <2>3. SameTables(r, q) /\ SameTables(r, r)  BY <1>0 DEF Records, SameTables
  <2> HIDE DEF q, st
  <2> QED  BY <1>0, <2>2, <2>3, SameTablesAbort
<1>4. CASE r.failover_state = 4
  <2>1. st = sentinelFailoverWaitPromotion(r, expired)  BY <1>4 DEF sentinelFailoverStateMachine
  <2>2. st.r \in {r, sentinelAbortFailover(r)}  BY <2>1 DEF sentinelFailoverWaitPromotion, Step
  <2>3. SameTables(r, r)  BY DEF SameTables
  <2> HIDE DEF st
  <2> QED  BY <1>0, <2>2, <2>3, SameTablesAbort
<1>5. CASE r.failover_state = 5
  <2> DEFINE f == [i \in choice |-> [r.slaves[i] EXCEPT !.reconf = {"sent"} \cup (IF @ = {} THEN {} ELSE {"done"})]]
             t == Over(f, r.slaves)
             q == [r EXCEPT !.slaves = t]
             q1 == [q EXCEPT !.failover_state = UPDATE_CONFIG]
             end == sentinelFailoverDetectEnd(q, expired)
  <2>1. choice \in NextSlaves(s, r)  BY <1>5 DEF FailoverChoices
  <2>2. choice \subseteq DOMAIN r.slaves  BY <2>1 DEF NextSlaves, Askable, kSubset
  <2>3. DOMAIN f = choice  OBVIOUS
  <2>4. st = sentinelFailoverReconfNextSlave(r, expired, choice)  BY <1>5 DEF sentinelFailoverStateMachine
  <2>5. st = Step(end.r, end.to \cup choice, r.promoted_slave)  BY <2>4 DEF sentinelFailoverReconfNextSlave
  <2>6. st.r = end.r  BY <2>5 DEF Step
  <2> HIDE DEF f
  <2>7. DOMAIN t = DOMAIN r.slaves  BY <2>2, <2>3 DEF Over
  <2> HIDE DEF t
  <2>8. q.slaves = t /\ q.peers = r.peers  BY <1>0 DEF Records
  <2>9. q1.slaves = t /\ q1.peers = r.peers  BY <1>0 DEF Records
  <2> HIDE DEF q
  <2>10. end.r \in {q, q1}
    <3> DEFINE left == {i \in DOMAIN q.slaves : /\ i # q.promoted_slave
                                                /\ "done" \notin q.slaves[i].reconf
                                                /\ ~q.slaves[i].sdown}
               rest == {i \in DOMAIN q.slaves : q.slaves[i].reconf \cap {"done", "sent"} = {}}
               more == IF expired THEN rest ELSE {}
               q2 == IF expired \/ left = {} THEN q1 ELSE q
    <3>1. end = IF q.slaves[q.promoted_slave].sdown THEN Step(q, {}, None) ELSE Step(q2, more, q.promoted_slave)
      BY DEF sentinelFailoverDetectEnd
    <3>2. q2 \in {q, q1}  OBVIOUS
    <3> HIDE DEF q1, q2, more, end
    <3> QED  BY <3>1, <3>2 DEF Step
  <2> HIDE DEF q1, end, st
  <2> QED  BY <2>6, <2>7, <2>8, <2>9, <2>10 DEF SameTables
<1>6. CASE r.failover_state \in {0, 6}
  <2>1. st = Step(r, {}, None)  BY <1>6 DEF sentinelFailoverStateMachine
  <2> QED  BY <2>1 DEF Step, SameTables
<1> QED  BY <1>0, <1>1, <1>2, <1>3, <1>4, <1>5, <1>6

\* The checks of the slaves.
LEMMA CheckSlavesOK ==
    ASSUME NEW s \in Sentinels, NEW r, Good(s, r), NEW slaves \in [DOMAIN r.slaves -> BOOLEAN]
    PROVE  LET q == CheckSlaves(r, slaves)
           IN  Good(s, q) /\ q.leader_epoch = r.leader_epoch /\ q.failover_state # UPDATE_CONFIG
<1> DEFINE r1 == SlavesDown(r, slaves)
<1>1. Good(s, r1) /\ r1.leader_epoch = r.leader_epoch  BY SlavesDownOK
<1>2. CheckSlaves(r, slaves) = IF r1.failover_state = UPDATE_CONFIG THEN sentinelResetMasterAndChangeAddress(r1, r1.promoted_slave) ELSE r1
  BY DEF CheckSlaves
<1> HIDE DEF r1
<1>3. CASE r1.failover_state = UPDATE_CONFIG
  <2>1. r1.promoted_slave # None  BY <1>1, <1>3 DEF Good, PointersOK, UPDATE_CONFIG, SEND_SLAVEOF_NOONE
  <2>2. r1.promoted_slave \in Instances  BY <1>1, <2>1 DEF Good, Records
  <2>3. NONE # UPDATE_CONFIG  BY DEF NONE, UPDATE_CONFIG
  <2> QED  BY <1>1, <1>2, <1>3, <2>2, <2>3, ChangeAddressOK
<1>4. CASE r1.failover_state # UPDATE_CONFIG  BY <1>1, <1>2, <1>4
<1> QED  BY <1>3, <1>4

\* The requests of a sentinel.
LEMMA AsksOK == ASSUME IInv, NEW s \in Sentinels, NEW r, Good(s, r)  PROVE  Asks(s, r) \subseteq Requests
<1>1. r \in Records /\ s \notin DOMAIN r.peers  BY DEF Good, PointersOK
<1>2. DOMAIN r.peers \subseteq Sentinels /\ r.addr \in Instances /\ r.current_epoch \in Nat  BY <1>1, PeersIs DEF Records
<1> QED  BY <1>1, <1>2 DEF Asks, Requests

\* The last part of the timer keeps the invariant.
LEMMA TimerEndsOK ==
    ASSUME IInv, NEW s \in Sentinels, NEW st, StepOK(s, sen[s], st),
           NEW old \in SUBSET DOMAIN st.r.peers, NEW slaves \in [DOMAIN st.r.slaves -> BOOLEAN],
           TimerEnds(s, old, slaves, st), UNCHANGED setup
    PROVE  IInv'
<1> DEFINE asker == Forget(st.r, old)
           q == CheckSlaves(asker, slaves)
           f == IF st.saved \/ asker.failover_state = UPDATE_CONFIG THEN Saved(q) ELSE disk[s]
<1>1. Good(s, st.r) /\ st.to \in SUBSET Instances /\ st.master \in Instances \cup {None} /\ Logged(s, sen[s], st)
  BY DEF StepOK
<1>2. Good(s, asker) /\ asker.leader_epoch = st.r.leader_epoch  BY <1>1, ForgetOK
<1>3. st.r \in Records  BY <1>1 DEF Good
<1>4. asker.slaves = st.r.slaves  BY <1>3 DEF Records, Forget
<1>5. /\ sen' = [sen EXCEPT ![s] = q] /\ disk' = [disk EXCEPT ![s] = f] /\ net' = net \cup Asks(s, asker)
      /\ SlaveOf(s, st.to, st.master) /\ hist' = hist \cup st.log /\ UNCHANGED <<hellos, up, cut>>
  BY DEF TimerEnds
<1> HIDE DEF asker
<1>6. Good(s, q) /\ q.leader_epoch = st.r.leader_epoch /\ q.failover_state # UPDATE_CONFIG  BY <1>2, <1>4, CheckSlavesOK
<1> HIDE DEF q
<1>7. FileOK(s, f, q)
  <2>1. CASE st.saved \/ asker.failover_state = UPDATE_CONFIG  BY <1>6, <2>1, SavedOK
  <2>2. CASE ~(st.saved \/ asker.failover_state = UPDATE_CONFIG)
    <3>1. q.leader_epoch = sen[s].leader_epoch  BY <1>1, <1>6, <2>2 DEF Logged
    <3>2. FileOK(s, disk[s], sen[s])  BY StateOf
    <3> QED  BY <2>2, <3>1, <3>2 DEF FileOK
  <2> QED  BY <2>1, <2>2
<1> HIDE DEF f
<1>8. Follows(s, sen[s], q, f)  BY <1>1, <1>6, <1>7 DEF Logged, Follows
<1>9. NewVotes(s, sen[s], q, st.r.leader, st.log)  BY <1>1, <1>6 DEF Logged, NewVotes
<1>10. SensOK'  BY <1>5, <1>8, <1>9, OneVotes
<1>11. inst' \in [Instances -> Instances \cup {None}]  BY <1>1, <1>5, SlaveOfOK
<1>12. net' \subseteq Requests  BY <1>2, <1>5, AsksOK DEF IInv, WorldOK
<1>13. WorldOK'  BY <1>5, <1>11, <1>12 DEF IInv, WorldOK
<1>14. HellosOK'  BY <1>5 DEF IInv, HellosOK
<1> QED  BY <1>10, <1>13, <1>14, WholeOK

\* Timer keeps the invariant.
LEMMA TimerOK == ASSUME IInv, NEW s \in Sentinels, sentinelTimer(s), UNCHANGED setup  PROVE IInv'
<1> DEFINE r == sen[s]
           stale == {p \in DOMAIN r.peers : /\ used["stale"] < setup.max["stale"]
                                            /\ (r.peers[p].down \/ r.peers[p].leader # None)}
<1>1. PICK sdown \in Subjectively(s, r.addr, r.sdown, r.role = "slave"),
          slaves \in {f \in [DOMAIN r.slaves -> BOOLEAN] :
                        \A i \in DOMAIN f : f[i] \in Subjectively(s, i, r.slaves[i].sdown, FALSE)},
          old \in {{}} \cup {{p} : p \in stale},
          expired \in {FALSE, setup.timeouts}, disconnected \in BOOLEAN :
            \E r1 \in {CheckMaster(s, r, sdown)} :
              /\ disconnected => r1.failover_state = SEND_SLAVEOF_NOONE
              /\ expired => r1.failover_state \notin {NONE, SELECT_SLAVE}
              /\ \E choice \in FailoverChoices(s, r1) :
                   \E st \in {sentinelFailoverStateMachine(s, r1, expired, disconnected, choice)} :
                     TimerEnds(s, old, slaves, st)
  BY Zenon DEF sentinelTimer
<1>a. slaves \in [DOMAIN r.slaves -> BOOLEAN] /\ old \in SUBSET DOMAIN r.peers  OBVIOUS
<1> DEFINE r1 == CheckMaster(s, r, sdown)
<1>2. PICK choice \in FailoverChoices(s, r1) :
            TimerEnds(s, old, slaves, sentinelFailoverStateMachine(s, r1, expired, disconnected, choice))
  BY <1>1
<1> DEFINE st == sentinelFailoverStateMachine(s, r1, expired, disconnected, choice)
<1>3. Good(s, r) /\ r \in Records /\ r.failover_state # UPDATE_CONFIG /\ SentinelsOK  BY StateOf DEF IInv
<1>4. expired \in BOOLEAN /\ sdown \in BOOLEAN
  BY <1>3, SentinelAssumption DEF IInv, WorldOK, Records, Subjectively
<1>5. Good(s, r1) /\ r1.leader_epoch = r.leader_epoch /\ r1.failover_state # UPDATE_CONFIG /\ SameTables(r, r1)
  BY <1>3, <1>4, CheckMasterOK
<1> HIDE DEF r1
<1>6. StepOK(s, r1, st)  BY <1>3, <1>4, <1>5, StateMachineOK
<1>7. SameTables(r1, st.r)  BY <1>3, <1>4, <1>5, StateMachineTables
<1>8. TimerEnds(s, old, slaves, st)  BY <1>2
<1> HIDE DEF st
<1>9. StepOK(s, r, st)  BY <1>5, <1>6 DEF StepOK, Logged
<1>10. old \in SUBSET DOMAIN st.r.peers /\ slaves \in [DOMAIN st.r.slaves -> BOOLEAN]  BY <1>a, <1>5, <1>7 DEF SameTables
<1> QED  BY <1>8, <1>9, <1>10, TimerEndsOK

\* DelayOver keeps the invariant.
LEMMA DelayOverOK == ASSUME IInv, NEW s \in Sentinels, DelayOver(s), UNCHANGED setup  PROVE IInv'
<1> DEFINE r == sen[s]
           q == [r EXCEPT !.delayed = FALSE, !.behind = {}]
<1>1. Good(s, r) /\ r \in Records /\ r.failover_state # UPDATE_CONFIG  BY StateOf
<1>2. q \in Records  BY <1>1 DEF Records
<1>3. EpochsOK(q) /\ PointersOK(s, q) /\ BusyOK(q)  BY <1>1 DEF Good, Records, EpochsOK, PointersOK, BusyOK
<1>4. Good(s, q) /\ q.failover_state # UPDATE_CONFIG /\ q.leader_epoch = r.leader_epoch
  BY <1>1, <1>2, <1>3 DEF Good, Records
<1>5. sen' = [sen EXCEPT ![s] = q] /\ UNCHANGED <<disk, net, hellos, inst, up, hist>>  BY DEF DelayOver
<1> HIDE DEF q
<1>6. SensOK'  BY <1>4, <1>5, OneChangesMemory
<1>7. WorldOK' /\ HellosOK'  BY <1>5 DEF IInv, WorldOK, HellosOK
<1> QED  BY <1>6, <1>7, WholeOK

\* Tilt keeps the invariant.
LEMMA TiltOK == ASSUME IInv, NEW s \in Sentinels, Tilt(s), UNCHANGED setup  PROVE IInv'
<1> DEFINE r == sen[s]
           q == [r EXCEPT !.tilt = TRUE]
<1>1. Good(s, r) /\ r \in Records /\ r.failover_state # UPDATE_CONFIG  BY StateOf
<1>2. q \in Records  BY <1>1 DEF Records
<1>3. EpochsOK(q) /\ PointersOK(s, q) /\ BusyOK(q)  BY <1>1 DEF Good, Records, EpochsOK, PointersOK, BusyOK
<1>4. Good(s, q) /\ q.failover_state # UPDATE_CONFIG /\ q.leader_epoch = r.leader_epoch
  BY <1>1, <1>2, <1>3 DEF Good, Records
<1>5. sen' = [sen EXCEPT ![s] = q] /\ UNCHANGED <<disk, net, hellos, inst, up, hist>>  BY DEF Tilt
<1> HIDE DEF q
<1>6. SensOK'  BY <1>4, <1>5, OneChangesMemory
<1>7. WorldOK' /\ HellosOK'  BY <1>5 DEF IInv, WorldOK, HellosOK
<1> QED  BY <1>6, <1>7, WholeOK

\* A reply keeps a record sound.
LEMMA ReplyOK ==
    ASSUME NEW s \in Sentinels, NEW r, Good(s, r), NEW p, NEW down \in BOOLEAN,
           NEW leader \in Sentinels \cup {None}, NEW epoch \in Nat
    PROVE  LET q == sentinelReceiveIsMasterDownReply(r, p, down, leader, epoch)
           IN  Good(s, q) /\ q.leader_epoch = r.leader_epoch /\ q.failover_state = r.failover_state
<1>1. CASE p \notin DOMAIN r.peers  BY <1>1 DEF sentinelReceiveIsMasterDownReply
<1>2. CASE p \in DOMAIN r.peers
  <2> DEFINE old == r.peers[p]
             l == IF leader = None THEN old.leader ELSE leader
             e == IF leader = None THEN old.leader_epoch ELSE epoch
             new == [down |-> down, leader |-> l, leader_epoch |-> e]
             t == [r.peers EXCEPT ![p] = new]
  <2>1. r.peers \in PeerTables /\ s \notin DOMAIN r.peers  BY DEF Good, Records, PointersOK
  <2>2. r.peers \in [DOMAIN r.peers -> Peer] /\ DOMAIN r.peers \in SUBSET Sentinels  BY <2>1, PeersIs
  <2>3. old \in Peer  BY <1>2, <2>2
  <2>4. l \in Sentinels \cup {None} /\ e \in Nat  BY <2>3 DEF Peer
  <2>5. sentinelReceiveIsMasterDownReply(r, p, down, leader, epoch) = [r EXCEPT !.peers = t]
    BY <1>2 DEF sentinelReceiveIsMasterDownReply
  <2> HIDE DEF l, e
  <2>6. new \in Peer  BY <2>4 DEF Peer
  <2> HIDE DEF new
  <2>7. t \in [DOMAIN r.peers -> Peer]  BY <2>2, <2>6
  <2>8. t \in PeerTables /\ DOMAIN t = DOMAIN r.peers  BY <2>2, <2>7, PeersMake
  <2> HIDE DEF t
  <2> QED  BY <2>1, <2>5, <2>8, PeersChanged
<1> QED  BY <1>1, <1>2

\* IsMasterDown keeps the invariant.
LEMMA IsMasterDownOK ==
    ASSUME IInv, NEW m \in net, NEW lost \in BOOLEAN, IsMasterDownByAddr(m, lost), UNCHANGED setup  PROVE IInv'
<1> DEFINE s == m.to
           known == sen[s].addr = m.addr
           v == sentinelVoteLeader(s, sen[s], m.epoch, m.from)
           after == IF known THEN v.r ELSE sen[s]
           says == IF known THEN after.leader ELSE None
           asker == sentinelReceiveIsMasterDownReply(sen[m.from], s, SaysDown(s, m.addr), says, after.leader_epoch)
           from == IF lost THEN sen[m.from] ELSE asker
           f == IF known /\ v.saved THEN Saved(after) ELSE disk[s]
           log == IF known /\ v.voted THEN {<<"vote", s, m.epoch, m.from>>} ELSE {}
<1>1. m \in Requests  BY DEF IInv, WorldOK
<1>2. s \in Sentinels /\ m.from \in Sentinels /\ m.epoch \in Nat /\ m.from # s  BY <1>1 DEF Requests
<1>3. Good(s, sen[s]) /\ sen[s] \in Records /\ sen[s].failover_state # UPDATE_CONFIG /\ FileOK(s, disk[s], sen[s])
  BY <1>2, StateOf
<1>4. Good(m.from, sen[m.from]) /\ sen[m.from] \in Records /\ sen[m.from].failover_state # UPDATE_CONFIG
      /\ FileOK(m.from, disk[m.from], sen[m.from])
  BY <1>2, StateOf
<1>5. SentinelsOK /\ sen = [t \in Sentinels |-> sen[t]] /\ disk = [t \in Sentinels |-> disk[t]]
  BY DEF IInv, SentinelsOK, FilesOK
<1>6. Good(s, v.r) /\ VoteDone(sen[s], v, m.epoch, m.from)  BY <1>2, <1>3, <1>5, VoteOK
<1>7. /\ sen' = [sen EXCEPT ![s] = after, ![m.from] = from] /\ disk' = [disk EXCEPT ![s] = f] /\ hist' = hist \cup log
      /\ net' = net \ {m} /\ UNCHANGED <<hellos, inst, up>>
  <2>1. sen' = [sen EXCEPT ![s] = after, ![m.from] = IF lost THEN @ ELSE asker]  BY DEF IsMasterDownByAddr
  <2>2. sen' = [sen EXCEPT ![s] = after, ![m.from] = from]
    <3> HIDE DEF after, asker, s
    <3> QED  BY <1>2, <1>5, <2>1
  <2> QED  BY <2>2 DEF IsMasterDownByAddr
<1> HIDE DEF v, s
<1>8. Good(s, after) /\ after.failover_state # UPDATE_CONFIG /\ sen[s].leader_epoch <= after.leader_epoch
      /\ after.leader \in Sentinels \cup {None} /\ after.leader_epoch \in Nat
      /\ (known /\ v.voted => after.leader_epoch = m.epoch /\ sen[s].leader_epoch < after.leader_epoch)
      /\ (~(known /\ v.saved) => after.leader_epoch = sen[s].leader_epoch)
  <2>1. CASE known
    <3>1. after = v.r /\ v.r \in Records  BY <1>6, <2>1 DEF Good
    <3> QED  BY <1>2, <1>3, <1>6, <3>1 DEF VoteDone, Records
  <2>2. CASE ~known  BY <1>3, <2>2 DEF Records
  <2> QED  BY <2>1, <2>2
<1>9. FileOK(s, f, after)
  <2>1. CASE known /\ v.saved  BY <1>2, <1>8, <2>1, SavedOK
  <2>2. CASE ~(known /\ v.saved)  BY <1>3, <1>8, <2>2 DEF FileOK
  <2> QED  BY <2>1, <2>2
<1>10. says \in Sentinels \cup {None} /\ SaysDown(s, m.addr) \in BOOLEAN  BY <1>8 DEF SaysDown
<1> HIDE DEF after, f
<1>11. Good(m.from, asker) /\ asker.leader_epoch = sen[m.from].leader_epoch /\ asker.failover_state = sen[m.from].failover_state
  BY <1>2, <1>4, <1>8, <1>10, ReplyOK
<1> HIDE DEF asker
<1>12. Good(m.from, from) /\ from.leader_epoch = sen[m.from].leader_epoch /\ from.failover_state # UPDATE_CONFIG
  BY <1>4, <1>11
<1> HIDE DEF from
<1>13. \A t \in Sentinels : sen'[t] = IF t = m.from THEN from ELSE IF t = s THEN after ELSE sen[t]
  BY <1>2, <1>5, <1>7
<1>14. \A t \in Sentinels : disk'[t] = IF t = s THEN f ELSE disk[t]  BY <1>2, <1>5, <1>7
<1>15. sen' = [t \in Sentinels |-> sen'[t]] /\ disk' = [t \in Sentinels |-> disk'[t]]  BY <1>2, <1>5, <1>7
<1>16. ASSUME NEW t \in Sentinels  PROVE Follows(t, sen[t], sen'[t], disk'[t])
  <2>1. CASE t = m.from
    <3>1. sen'[t] = from /\ disk'[t] = disk[t]  BY <1>2, <1>13, <1>14, <2>1
    <3>2. FileOK(t, disk[t], from)  BY <1>4, <1>12, <2>1 DEF FileOK
    <3>3. sen[t].leader_epoch <= from.leader_epoch  BY <1>4, <1>12, <2>1 DEF Records
    <3> QED  BY <1>12, <2>1, <3>1, <3>2, <3>3 DEF Follows
  <2>2. CASE t = s
    <3>1. sen'[t] = after /\ disk'[t] = f  BY <1>2, <1>13, <1>14, <2>2
    <3> QED  BY <1>8, <1>9, <2>2, <3>1 DEF Follows
  <2>3. CASE t # m.from /\ t # s
    <3>1. sen'[t] = sen[t] /\ disk'[t] = disk[t]  BY <1>13, <1>14, <2>3
    <3>2. Good(t, sen[t]) /\ sen[t].failover_state # UPDATE_CONFIG /\ FileOK(t, disk[t], sen[t]) /\ sen[t] \in Records
      BY StateOf
    <3>3. sen[t].leader_epoch <= sen[t].leader_epoch  BY <3>2 DEF Records
    <3> QED  BY <3>1, <3>2, <3>3 DEF Follows
  <2> QED  BY <2>1, <2>2, <2>3
<1>17. sen'[s] = after  BY <1>2, <1>13
<1>18. NewVotes(s, sen[s], sen'[s], m.from, log)  BY <1>8, <1>17 DEF NewVotes
<1> HIDE DEF log
<1>19. SensOK'  BY <1>2, <1>7, <1>15, <1>16, <1>18, NewState
<1>20. WorldOK' /\ HellosOK'  BY <1>7 DEF IInv, WorldOK, HellosOK
<1> QED  BY <1>19, <1>20, WholeOK

\* AskIfDown keeps the invariant.
LEMMA AskIfDownOK == ASSUME IInv, NEW s \in Sentinels, NEW p \in Sentinels, AskIfDown(s, p), UNCHANGED setup  PROVE IInv'
<1> DEFINE r == sen[s]
           q == sentinelReceiveIsMasterDownReply(r, p, SaysDown(p, r.addr), None, 0)
<1>1. Good(s, r) /\ r.failover_state # UPDATE_CONFIG  BY StateOf
<1>2. SaysDown(p, r.addr) \in BOOLEAN  BY DEF SaysDown
<1>3. Good(s, q) /\ q.leader_epoch = r.leader_epoch /\ q.failover_state = r.failover_state  BY <1>1, <1>2, ReplyOK
<1>4. sen' = [sen EXCEPT ![s] = q] /\ UNCHANGED <<disk, net, hellos, inst, up, hist>>  BY DEF AskIfDown
<1> HIDE DEF q
<1>5. SensOK'  BY <1>1, <1>3, <1>4, OneChangesMemory
<1>6. WorldOK' /\ HellosOK'  BY <1>4 DEF IInv, WorldOK, HellosOK
<1> QED  BY <1>5, <1>6, WholeOK

\* Lose keeps the invariant.
LEMMA LoseOK == ASSUME IInv, NEW m \in net, Lose(m), UNCHANGED setup  PROVE IInv'
<1>1. SensOK'  BY NoneChanges DEF Lose
<1>2. WorldOK' /\ HellosOK'  BY DEF Lose, IInv, WorldOK, HellosOK
<1> QED  BY <1>1, <1>2, WholeOK

\* The hello of a sound record.
LEMMA HelloIs == ASSUME IInv, NEW s \in Sentinels  PROVE Hello(s) \in Hellos /\ Hello(s).config_epoch <= Hello(s).epoch
<1>1. Good(s, sen[s]) /\ sen[s] \in Records  BY StateOf
<1>2. sentinelGetCurrentMasterAddress(sen[s]) \in Instances  BY <1>1 DEF Records, sentinelGetCurrentMasterAddress
<1> QED  BY <1>1, <1>2 DEF Hello, Hellos, Good, Records, EpochsOK

\* SendHello keeps the invariant.
LEMMA SendHelloOK == ASSUME IInv, NEW s \in Sentinels, sentinelSendHello(s), UNCHANGED setup  PROVE IInv'
<1>1. SensOK'  BY NoneChanges DEF sentinelSendHello
<1>2. WorldOK'  BY DEF sentinelSendHello, IInv, WorldOK
<1>3. hellos = [t \in Sentinels |-> hellos[t]] /\ hellos' = [hellos EXCEPT ![s] = Hello(s)]
  BY DEF sentinelSendHello, IInv, HellosOK
<1>4. \A t \in Sentinels : hellos'[t] = IF t = s THEN Hello(s) ELSE hellos[t]  BY <1>3
<1>5. HellosOK'  BY <1>3, <1>4, HelloIs DEF IInv, HellosOK
<1> QED  BY <1>1, <1>2, <1>5, WholeOK

\* ProcessHello keeps the invariant.
LEMMA ProcessHelloOK ==
    ASSUME IInv, NEW s \in Sentinels, NEW from \in Sentinels, sentinelProcessHelloMessage(s, from), UNCHANGED setup
    PROVE  IInv'
<1> DEFINE r == sen[s]
           h == hellos[from]
           new == from \notin DOMAIN r.peers
           f == [p \in {from} |-> NewPeer]
           ps == IF new THEN Over(f, r.peers) ELSE r.peers
           e == Max({r.current_epoch, h.epoch})
           r1 == [r EXCEPT !.peers = ps, !.current_epoch = e]
           newer == h.config_epoch > r.config_epoch
           r2 == IF newer THEN [r1 EXCEPT !.config_epoch = h.config_epoch] ELSE r1
           switch == newer /\ h.addr # r.addr
           r3 == IF switch THEN sentinelResetMasterAndChangeAddress(r2, h.addr) ELSE r2
           file == IF switch THEN Saved(r3) ELSE IF new \/ h.epoch > r.current_epoch THEN Saved(r1) ELSE disk[s]
<1>1. /\ sen' = [sen EXCEPT ![s] = r3] /\ disk' = [disk EXCEPT ![s] = file]
      /\ UNCHANGED <<net, hellos, inst, up, hist>> /\ from # s /\ h # None
  BY DEF sentinelProcessHelloMessage
<1>2. Good(s, r) /\ r \in Records /\ r.failover_state # UPDATE_CONFIG /\ FileOK(s, disk[s], r)  BY StateOf
<1>3. h \in Hellos /\ h.config_epoch <= h.epoch  BY <1>1 DEF IInv, HellosOK
<1>4. h.addr \in Instances /\ h.epoch \in Nat /\ h.config_epoch \in Nat  BY <1>3 DEF Hellos
<1>5. ps \in PeerTables /\ s \notin DOMAIN ps
  <2>1. r.peers \in PeerTables /\ s \notin DOMAIN r.peers  BY <1>2 DEF Good, Records, PointersOK
  <2>2. f \in [{from} -> Peer] /\ {from} \in SUBSET Sentinels  BY NewRecords
  <2> HIDE DEF f
  <2>3. Over(f, r.peers) \in PeerTables /\ DOMAIN Over(f, r.peers) = {from} \cup DOMAIN r.peers
    BY <2>1, <2>2, PeersJoin
  <2> QED  BY <1>1, <2>1, <2>3
<1>6. e \in Nat /\ e >= r.current_epoch /\ e >= h.epoch  BY <1>2, <1>4, MaxOfTwo DEF Records
<1> HIDE DEF f, ps, e, new
<1>7. r1 \in Records  BY <1>2, <1>5, <1>6 DEF Records
<1>8. EpochsOK(r1)  BY <1>2, <1>6 DEF Good, Records, EpochsOK
<1>9. PointersOK(s, r1) /\ BusyOK(r1)  BY <1>2, <1>5 DEF Good, Records, PointersOK, BusyOK
<1>10. r1.leader_epoch = r.leader_epoch /\ r1.failover_state = r.failover_state /\ r1.current_epoch = e  BY <1>2 DEF Records
<1>11. Good(s, r1)  BY <1>7, <1>8, <1>9 DEF Good
<1> HIDE DEF r1
<1>12. Good(s, r2) /\ r2.leader_epoch = r.leader_epoch /\ r2.failover_state = r.failover_state
  <2> DEFINE q == [r1 EXCEPT !.config_epoch = h.config_epoch]
  <2>1. q \in Records  BY <1>4, <1>7 DEF Records
  <2>2. EpochsOK(q)  BY <1>3, <1>4, <1>6, <1>7, <1>8, <1>10 DEF Records, EpochsOK
  <2>3. PointersOK(s, q) /\ BusyOK(q)  BY <1>7, <1>9 DEF Records, PointersOK, BusyOK
  <2>4. q.leader_epoch = r.leader_epoch /\ q.failover_state = r.failover_state  BY <1>7, <1>10 DEF Records
  <2>5. Good(s, q)  BY <2>1, <2>2, <2>3 DEF Good
  <2> HIDE DEF q
  <2>6. r2 = q \/ r2 = r1  BY DEF q
  <2> QED  BY <1>10, <1>11, <2>4, <2>5, <2>6
<1> HIDE DEF r2
<1>13. Good(s, r3) /\ r3.leader_epoch = r.leader_epoch /\ r3.failover_state # UPDATE_CONFIG
  <2>1. NONE # UPDATE_CONFIG  BY DEF NONE, UPDATE_CONFIG
  <2> QED  BY <1>2, <1>4, <1>12, <2>1, ChangeAddressOK
<1> HIDE DEF r3, switch
<1>14. FileOK(s, file, r3)
  <2>1. FileOK(s, Saved(r3), r3)  BY <1>13, SavedOK
  <2>2. FileOK(s, Saved(r1), r3)  BY <1>10, <1>11, <1>13, SavedOK DEF FileOK
  <2>3. FileOK(s, disk[s], r3)  BY <1>2, <1>13 DEF FileOK
  <2> QED  BY <2>1, <2>2, <2>3
<1> HIDE DEF file
<1>15. SensOK'  BY <1>1, <1>13, <1>14, OneChanges
<1>16. WorldOK' /\ HellosOK'  BY <1>1 DEF IInv, WorldOK, HellosOK
<1> QED  BY <1>15, <1>16, WholeOK

\* MasterInfo keeps the invariant.
LEMMA MasterInfoOK == ASSUME IInv, NEW s \in Sentinels, MasterInfo(s), UNCHANGED setup  PROVE IInv'
<1> DEFINE r == sen[s]
           found == {i \in up : inst[i] = r.addr} \ (DOMAIN r.slaves \cup {r.addr})
           f == [i \in found |-> NewSlave]
           t == Over(f, r.slaves)
           role == Role(r.addr)
           q == [r EXCEPT !.role = role, !.slaves = t]
           file == IF found # {} THEN Saved(q) ELSE disk[s]
<1>1. /\ sen' = [sen EXCEPT ![s] = q] /\ disk' = [disk EXCEPT ![s] = file] /\ UNCHANGED <<net, hellos, inst, up, hist>>
  BY DEF MasterInfo
<1>2. Good(s, r) /\ r \in Records /\ r.failover_state # UPDATE_CONFIG /\ FileOK(s, disk[s], r)  BY StateOf
<1>3. r.slaves \in Tables /\ found \in SUBSET Instances  BY <1>2 DEF Records, IInv, WorldOK
<1>4. role \in {"slave", "master"}  BY DEF Role
<1>5. f \in [found -> Slave] /\ \A i \in found : f[i].reconf = {}  BY NewRecords DEF NewSlave
<1>6. t \in Tables /\ DOMAIN t = found \cup DOMAIN r.slaves
  <2> HIDE DEF f, found
  <2> QED  BY <1>3, <1>5, TableJoin
<1>7. \A i \in DOMAIN r.slaves : t[i] = r.slaves[i]  BY DEF Over
<1>8. \A i \in found : t[i].reconf = {}  BY <1>5 DEF Over
<1>9. r.addr \notin found /\ r.addr \notin DOMAIN r.slaves  BY <1>2 DEF Good, PointersOK
<1> HIDE DEF t, role, f, found
<1>10. q \in Records  BY <1>2, <1>4, <1>6 DEF Records
<1>11. q.slaves = t /\ q.addr = r.addr /\ q.peers = r.peers /\ q.failover_state = r.failover_state /\ q.leader_epoch = r.leader_epoch
      /\ q.promoted_slave = r.promoted_slave
  BY <1>2 DEF Records
<1>12. EpochsOK(q)  BY <1>2 DEF Good, Records, EpochsOK
<1> HIDE DEF q
<1>13. PointersOK(s, q)  BY <1>2, <1>6, <1>9, <1>11 DEF Good, PointersOK
<1>14. BusyOK(q)  BY <1>2, <1>6, <1>7, <1>8, <1>11 DEF Good, BusyOK
<1>15. Good(s, q)  BY <1>10, <1>12, <1>13, <1>14 DEF Good
<1>16. FileOK(s, file, q)
  <2>1. FileOK(s, Saved(q), q)  BY <1>15, SavedOK
  <2>2. FileOK(s, disk[s], q)  BY <1>2, <1>11 DEF FileOK
  <2> QED  BY <2>1, <2>2
<1> HIDE DEF file
<1>17. SensOK'  BY <1>1, <1>2, <1>11, <1>15, <1>16, OneChanges
<1>18. WorldOK' /\ HellosOK'  BY <1>1 DEF IInv, WorldOK, HellosOK
<1> QED  BY <1>17, <1>18, WholeOK

\* SlaveInfo keeps the invariant.
LEMMA SlaveInfoOK ==
    ASSUME IInv, NEW s \in Sentinels, NEW i \in Instances, NEW late \in BOOLEAN, NEW linkup \in BOOLEAN,
           SlaveInfo(s, i, late, linkup), UNCHANGED setup
    PROVE  IInv'
<1> DEFINE r == sen[s]
           role == Role(i)
           old == r.slaves[i]
           host == IF role = "slave" THEN inst[i] ELSE old.host
           sl == [old EXCEPT !.role = role, !.host = host]
           r1 == [r EXCEPT !.slaves = [r.slaves EXCEPT ![i] = sl]]
           promoted == role = "master" /\ i = r.promoted_slave /\ r.failover_state = WAIT_PROMOTION
           convert == /\ late /\ role = "master" /\ old.role = "master"
                      /\ i # r.promoted_slave /\ sentinelMasterLooksSane(r)
           fix == /\ late /\ role = "slave" /\ old.role = "slave"
                  /\ old.host = sl.host /\ sl.host # r.addr /\ sentinelMasterLooksSane(r)
           asked == [sl EXCEPT !.reconf = Reconf(r, sl, linkup)]
           won == [r1 EXCEPT !.config_epoch = r.failover_epoch, !.failover_state = RECONF_SLAVES]
           r2 == IF promoted THEN won
                 ELSE IF role = "slave" THEN [r EXCEPT !.slaves = [r.slaves EXCEPT ![i] = asked]]
                 ELSE r1
           to == IF convert \/ fix THEN {i} ELSE {}
<1>1. /\ i \in DOMAIN r.slaves
      /\ IF r.tilt THEN sen' = [sen EXCEPT ![s] = r1] /\ UNCHANGED <<disk, inst>>
         ELSE /\ sen' = [sen EXCEPT ![s] = r2]
              /\ disk' = [disk EXCEPT ![s] = IF promoted THEN Saved(r2) ELSE @]
              /\ SlaveOf(s, to, r.addr)
      /\ UNCHANGED <<net, hellos, up, hist>>
  BY DEF SlaveInfo
<1>2. Good(s, r) /\ r \in Records /\ r.failover_state # UPDATE_CONFIG /\ FileOK(s, disk[s], r)  BY StateOf
<1>3. r.slaves \in Tables /\ r.addr \in Instances /\ r.failover_epoch \in Nat /\ r.failover_state \in 0..6
  BY <1>2 DEF Records, NONE, UPDATE_CONFIG
<1>4. old \in Slave  BY <1>1, <1>3, TableIs
<1>5. role \in {"slave", "master"} /\ host \in Instances \cup {None}  BY <1>4 DEF Role, Slave, IInv, WorldOK
<1> HIDE DEF role, host, old
<1>6. sl \in Slave /\ sl.reconf = old.reconf  BY <1>4, <1>5 DEF Slave
<1> HIDE DEF sl
<1>7. asked \in Slave /\ asked.reconf = Reconf(r, sl, linkup)
  <2>1. Reconf(r, sl, linkup) \in SUBSET {"sent", "inprog", "done"}  BY <1>6 DEF Reconf, Slave
  <2> QED  BY <1>6, <2>1 DEF Slave
<1>8. r.failover_state < RECONF_SLAVES => old.reconf \cap {"sent", "inprog"} = {}  BY <1>1, <1>2 DEF Good, BusyOK, old
<1>9. r.failover_state < RECONF_SLAVES => asked.reconf \cap {"sent", "inprog"} = {}  BY <1>6, <1>7, <1>8 DEF Reconf
<1> HIDE DEF asked
<1>10. ASSUME NEW x \in Slave, r.failover_state < RECONF_SLAVES => x.reconf \cap {"sent", "inprog"} = {}
       PROVE  LET q == [r EXCEPT !.slaves = [r.slaves EXCEPT ![i] = x]]
              IN  Good(s, q) /\ q.leader_epoch = r.leader_epoch /\ q.failover_state = r.failover_state
                  /\ q.failover_epoch = r.failover_epoch /\ q.promoted_slave = r.promoted_slave
  <2> DEFINE t == [r.slaves EXCEPT ![i] = x]
             q == [r EXCEPT !.slaves = t]
  <2>1. t \in Tables /\ DOMAIN t = DOMAIN r.slaves /\ \A j \in DOMAIN r.slaves : t[j] = IF j = i THEN x ELSE r.slaves[j]
    BY <1>1, <1>3, TableSet
  <2> HIDE DEF t
  <2>2. q \in Records  BY <1>2, <2>1 DEF Records
  <2>3. q.slaves = t /\ q.leader_epoch = r.leader_epoch /\ q.failover_state = r.failover_state
        /\ q.failover_epoch = r.failover_epoch /\ q.promoted_slave = r.promoted_slave
    BY <1>2 DEF Records
  <2>4. EpochsOK(q)  BY <1>2 DEF Good, Records, EpochsOK
  <2>5. PointersOK(s, q)  BY <1>2, <2>1 DEF Good, Records, PointersOK
  <2> HIDE DEF q
  <2>6. BusyOK(q)  BY <1>2, <1>10, <2>1, <2>3 DEF Good, BusyOK
  <2> QED  BY <2>2, <2>3, <2>4, <2>5, <2>6 DEF Good, q, t
<1>11. Good(s, r1) /\ r1.leader_epoch = r.leader_epoch /\ r1.failover_state = r.failover_state
       /\ r1.failover_epoch = r.failover_epoch /\ r1.promoted_slave = r.promoted_slave
  BY <1>6, <1>8, <1>10
<1>12. Good(s, [r EXCEPT !.slaves = [r.slaves EXCEPT ![i] = asked]])
       /\ [r EXCEPT !.slaves = [r.slaves EXCEPT ![i] = asked]].leader_epoch = r.leader_epoch
       /\ [r EXCEPT !.slaves = [r.slaves EXCEPT ![i] = asked]].failover_state = r.failover_state
  BY <1>7, <1>9, <1>10
<1> HIDE DEF r1
<1>13. ASSUME promoted  PROVE Good(s, won) /\ won.leader_epoch = r.leader_epoch /\ won.failover_state # UPDATE_CONFIG
  <2>1. r1 \in Records /\ r1.failover_state = WAIT_PROMOTION  BY <1>11, <1>13 DEF Good
  <2>2. RECONF_SLAVES \in NONE..UPDATE_CONFIG  BY DEF NONE, RECONF_SLAVES, UPDATE_CONFIG
  <2>3. won \in Records  BY <1>3, <2>1, <2>2 DEF Records
  <2>4. won.leader_epoch = r1.leader_epoch /\ won.failover_state = RECONF_SLAVES  BY <2>1 DEF Records
  <2>5. EpochsOK(won)  BY <1>11, <2>1 DEF Good, Records, EpochsOK
  <2>6. PointersOK(s, won)  BY <1>11, <2>1 DEF Good, Records, PointersOK, WAIT_PROMOTION, RECONF_SLAVES, SEND_SLAVEOF_NOONE
  <2>7. BusyOK(won)  BY <2>4 DEF BusyOK, RECONF_SLAVES
  <2>8. RECONF_SLAVES # UPDATE_CONFIG  BY DEF RECONF_SLAVES, UPDATE_CONFIG
  <2> QED  BY <1>11, <2>3, <2>4, <2>5, <2>6, <2>7, <2>8 DEF Good
<1> HIDE DEF won
<1>14. Good(s, r2) /\ r2.leader_epoch = r.leader_epoch /\ r2.failover_state # UPDATE_CONFIG  BY <1>2, <1>11, <1>12, <1>13
<1> HIDE DEF r2
<1>15. CASE r.tilt
  <2>1. sen' = [sen EXCEPT ![s] = r1] /\ UNCHANGED <<disk, inst>>  BY <1>1, <1>15
  <2>2. SensOK'  BY <1>1, <1>2, <1>11, <2>1, OneChangesMemory
  <2>3. WorldOK' /\ HellosOK'  BY <1>1, <2>1 DEF IInv, WorldOK, HellosOK
  <2> QED  BY <2>2, <2>3, WholeOK
<1>16. CASE ~r.tilt
  <2> DEFINE file == IF promoted THEN Saved(r2) ELSE disk[s]
  <2>1. sen' = [sen EXCEPT ![s] = r2] /\ disk' = [disk EXCEPT ![s] = file] /\ SlaveOf(s, to, r.addr)  BY <1>1, <1>16
  <2>2. FileOK(s, Saved(r2), r2)  BY <1>14, SavedOK
  <2>3. FileOK(s, disk[s], r2)  BY <1>2, <1>14 DEF FileOK
  <2>4. FileOK(s, file, r2)  BY <2>2, <2>3
  <2> HIDE DEF file
  <2>5. SensOK'  BY <1>1, <1>14, <2>1, <2>4, OneChanges
  <2>6. to \in SUBSET Instances /\ r.addr \in Instances \cup {None}  BY <1>3
  <2> HIDE DEF to
  <2>7. inst' \in [Instances -> Instances \cup {None}]  BY <2>1, <2>6, SlaveOfOK
  <2>8. WorldOK' /\ HellosOK'  BY <1>1, <2>7 DEF IInv, WorldOK, HellosOK
  <2> QED  BY <2>5, <2>8, WholeOK
<1> QED  BY <1>15, <1>16

\* SentinelFailover keeps the invariant.
LEMMA SentinelFailoverOK == ASSUME IInv, NEW s \in Sentinels, SentinelFailover(s), UNCHANGED setup  PROVE IInv'
<1> DEFINE r == sen[s]
           r1 == sentinelStartFailover(s, r)
           q == [r1 EXCEPT !.force = TRUE]
<1>1. sen' = [sen EXCEPT ![s] = q] /\ UNCHANGED <<disk, net, hellos, inst, up, hist>> /\ r.failover_state = NONE
  BY DEF SentinelFailover, InProgress
<1>2. Good(s, r) /\ SentinelsOK  BY StateOf DEF IInv
<1>3. Good(s, r1) /\ r1.leader_epoch = r.leader_epoch /\ r1.failover_state = WAIT_START  BY <1>1, <1>2, StartOK
<1> HIDE DEF r1
<1>4. r1 \in Records  BY <1>3 DEF Good
<1>5. q \in Records  BY <1>4 DEF Records
<1>6. EpochsOK(q) /\ PointersOK(s, q) /\ BusyOK(q)  BY <1>3, <1>4 DEF Good, Records, EpochsOK, PointersOK, BusyOK
<1>7. q.leader_epoch = r1.leader_epoch /\ q.failover_state = WAIT_START  BY <1>3, <1>4 DEF Records
<1>8. WAIT_START # UPDATE_CONFIG  BY DEF WAIT_START, UPDATE_CONFIG
<1>9. Good(s, q)  BY <1>5, <1>6 DEF Good
<1> HIDE DEF q
<1>10. SensOK'  BY <1>1, <1>3, <1>7, <1>8, <1>9, OneChangesMemory
<1>11. WorldOK' /\ HellosOK'  BY <1>1 DEF IInv, WorldOK, HellosOK
<1> QED  BY <1>10, <1>11, WholeOK

\* SentinelReset keeps the invariant.
LEMMA SentinelResetOK == ASSUME IInv, NEW s \in Sentinels, SentinelReset(s), UNCHANGED setup  PROVE IInv'
<1> DEFINE r == sen[s]
           q == sentinelResetMaster(r, <<>>, <<>>)
<1>1. sen' = [sen EXCEPT ![s] = q] /\ UNCHANGED <<disk, net, hellos, inst, up, hist>>  BY DEF SentinelReset
<1>2. Good(s, r) /\ r \in Records  BY StateOf
<1>3. NONE \in NONE..UPDATE_CONFIG /\ "master" \in {"slave", "master"} /\ NONE # UPDATE_CONFIG  BY DEF NONE, UPDATE_CONFIG
<1>4. <<>> \in [{} -> Slave] /\ <<>> \in [{} -> Peer]  OBVIOUS
<1>5. <<>> \in Tables /\ <<>> \in PeerTables /\ DOMAIN <<>> = {}  BY <1>4, TableMake, PeersMake
<1>6. q \in Records  BY <1>2, <1>3, <1>5 DEF Records, sentinelResetMaster
<1>7. EpochsOK(q) /\ q.leader_epoch = r.leader_epoch /\ q.failover_state = NONE /\ q.promoted_slave = None
      /\ q.slaves = <<>> /\ q.peers = <<>>
  BY <1>2 DEF Good, Records, EpochsOK, sentinelResetMaster
<1> HIDE DEF q
<1>8. PointersOK(s, q) /\ BusyOK(q)  BY <1>5, <1>7 DEF PointersOK, BusyOK, NONE, SEND_SLAVEOF_NOONE
<1>9. Good(s, q)  BY <1>6, <1>7, <1>8 DEF Good
<1>10. SensOK'  BY <1>1, <1>3, <1>7, <1>9, OneChangesMemory
<1>11. WorldOK' /\ HellosOK'  BY <1>1 DEF IInv, WorldOK, HellosOK
<1> QED  BY <1>10, <1>11, WholeOK

\* Restart keeps the invariant.
LEMMA RestartOK == ASSUME IInv, NEW s \in Sentinels, Restart(s), UNCHANGED setup  PROVE IInv'
<1> DEFINE q == Loaded(disk[s])
<1>1. sen' = [sen EXCEPT ![s] = q] /\ net' \subseteq net /\ UNCHANGED <<disk, hellos, inst, up, hist>>  BY DEF Restart
<1>2. FileOK(s, disk[s], sen[s])  BY StateOf
<1>3. Good(s, q) /\ q.leader_epoch = sen[s].leader_epoch /\ q.failover_state = NONE  BY <1>2, LoadedOK
<1>4. NONE # UPDATE_CONFIG  BY DEF NONE, UPDATE_CONFIG
<1> HIDE DEF q
<1>5. SensOK'  BY <1>1, <1>3, <1>4, OneChangesMemory
<1>6. WorldOK' /\ HellosOK'  BY <1>1 DEF IInv, WorldOK, HellosOK
<1> QED  BY <1>5, <1>6, WholeOK

\* What happens to instances and links.
LEMMA OutsideOK ==
    ASSUME IInv, up' \subseteq Instances, UNCHANGED <<setup, sen, disk, net, hellos, inst, hist>>
    PROVE  IInv'
<1>1. SensOK'  BY NoneChanges
<1>2. WorldOK' /\ HellosOK'  BY DEF IInv, WorldOK, HellosOK
<1> QED  BY <1>1, <1>2, WholeOK

\* Next keeps the invariant.
LEMMA NextOK == ASSUME IInv, Next  PROVE IInv'
<1>0. UNCHANGED setup  BY DEF Next
<1>1. ASSUME NEW s \in Sentinels, sentinelTimer(s)  PROVE IInv'  BY <1>0, <1>1, TimerOK
<1>2. ASSUME NEW s \in Sentinels, DelayOver(s)  PROVE IInv'  BY <1>0, <1>2, DelayOverOK
<1>3. ASSUME NEW s \in Sentinels, Tilt(s)  PROVE IInv'  BY <1>0, <1>3, TiltOK
<1>4. ASSUME NEW s \in Sentinels, sentinelSendHello(s)  PROVE IInv'  BY <1>0, <1>4, SendHelloOK
<1>5. ASSUME NEW s \in Sentinels, NEW t \in Sentinels, sentinelProcessHelloMessage(s, t)  PROVE IInv'
  BY <1>0, <1>5, ProcessHelloOK
<1>6. ASSUME NEW s \in Sentinels, NEW p \in Sentinels, AskIfDown(s, p)  PROVE IInv'  BY <1>0, <1>6, AskIfDownOK
<1>7. ASSUME NEW s \in Sentinels, MasterInfo(s)  PROVE IInv'  BY <1>0, <1>7, MasterInfoOK
<1>8. ASSUME NEW s \in Sentinels, NEW i \in Instances, NEW late \in BOOLEAN, NEW linkup \in BOOLEAN, SlaveInfo(s, i, late, linkup)
      PROVE IInv'
  BY <1>0, <1>8, SlaveInfoOK
<1>9. ASSUME NEW s \in Sentinels, SentinelFailover(s)  PROVE IInv'  BY <1>0, <1>9, SentinelFailoverOK
<1>10. ASSUME NEW s \in Sentinels, SentinelReset(s)  PROVE IInv'  BY <1>0, <1>10, SentinelResetOK
<1>11. ASSUME NEW s \in Sentinels, Restart(s)  PROVE IInv'  BY <1>0, <1>11, RestartOK
<1>12. ASSUME NEW s \in Sentinels, NEW i \in Instances, Cut(s, i) \/ Heal(s, i)  PROVE IInv'
  BY <1>0, <1>12, OutsideOK DEF Cut, Heal, IInv, WorldOK
<1>13. ASSUME NEW m \in net, Lose(m)  PROVE IInv'  BY <1>0, <1>13, LoseOK
<1>14. ASSUME NEW m \in net, NEW lost \in BOOLEAN, IsMasterDownByAddr(m, lost)  PROVE IInv'  BY <1>0, <1>14, IsMasterDownOK
<1>15. ASSUME NEW i \in setup.slaves \cup {setup.master}, Down(i) \/ Back(i)  PROVE IInv'
  <2>1. i \in Instances /\ up \subseteq Instances  BY SentinelAssumption DEF IInv, WorldOK
  <2>2. up' \subseteq Instances  BY <1>15, <2>1 DEF Down, Back
  <2> QED  BY <1>0, <1>15, <2>2, OutsideOK DEF Down, Back
<1> QED  BY <1>1, <1>2, <1>3, <1>4, <1>5, <1>6, <1>7, <1>8, <1>9, <1>10, <1>11, <1>12, <1>13, <1>14, <1>15 DEF Next

\* The record of a sentinel that has just started.
LEMMA StartGood ==
    ASSUME setup \in Setups, NEW s \in Sentinels
    PROVE  Good(s, Start(s)) /\ Start(s).failover_state # UPDATE_CONFIG
<1> DEFINE d == [current_epoch |-> 0, addr |-> setup.master, config_epoch |-> 0,
                 leader_epoch |-> 0, slaves |-> setup.slaves, peers |-> Sentinels \ {s}]
           r == Loaded(d)
           t == [i \in setup.slaves |-> [NewSlave EXCEPT !.role = "slave", !.host = setup.master]]
           p == [x \in DOMAIN r.peers |-> [NewPeer EXCEPT !.down = setup.agreed]]
           q == [r EXCEPT !.slaves = t, !.sdown = setup.agreed, !.odown = setup.agreed, !.peers = p]
<1>1. setup.master \in Instances /\ setup.slaves \in SUBSET Instances /\ setup.master \notin setup.slaves
      /\ setup.agreed \in BOOLEAN
  BY SentinelAssumption
<1>2. FileOK(s, d, d)  BY <1>1 DEF FileOK, Files
<1>3. Good(s, r) /\ r.failover_state = NONE  BY <1>2, LoadedOK
<1>4. r.peers = [x \in Sentinels \ {s} |-> NewPeer] /\ r.promoted_slave = None /\ r.addr = setup.master  BY DEF Loaded
<1>5. Start(s) = q  BY DEF Start
<1> HIDE DEF r, d
<1>6. r \in Records  BY <1>3 DEF Good
<1>7. t \in [setup.slaves -> Slave] /\ \A i \in setup.slaves : t[i].reconf = {}
  <2>1. [NewSlave EXCEPT !.role = "slave", !.host = setup.master] \in Slave
        /\ [NewSlave EXCEPT !.role = "slave", !.host = setup.master].reconf = {}
    BY <1>1 DEF NewSlave, Slave
  <2> QED  BY <2>1
<1>8. t \in Tables /\ DOMAIN t = setup.slaves
  <2> HIDE DEF t
  <2> QED  BY <1>1, <1>7, TableMake
<1>9. p \in PeerTables /\ s \notin DOMAIN p
  <2>1. DOMAIN r.peers = Sentinels \ {s}  BY <1>4
  <2>2. [NewPeer EXCEPT !.down = setup.agreed] \in Peer  BY <1>1 DEF NewPeer, Peer
  <2>3. p \in [Sentinels \ {s} -> Peer] /\ Sentinels \ {s} \in SUBSET Sentinels  BY <2>1, <2>2
  <2> HIDE DEF p
  <2> QED  BY <2>3, PeersMake
<1> HIDE DEF t, p
<1>10. q \in Records  BY <1>1, <1>6, <1>8, <1>9 DEF Records
<1>11. q.slaves = t /\ q.peers = p /\ q.failover_state = NONE /\ q.promoted_slave = None /\ q.addr = setup.master /\ EpochsOK(q)
  BY <1>3, <1>4, <1>6 DEF Good, Records, EpochsOK
<1> HIDE DEF q
<1>12. PointersOK(s, q)  BY <1>1, <1>8, <1>9, <1>11 DEF PointersOK, NONE, SEND_SLAVEOF_NOONE
<1>13. BusyOK(q)  BY <1>7, <1>8, <1>11 DEF BusyOK
<1> QED  BY <1>5, <1>10, <1>11, <1>12, <1>13 DEF Good, NONE, UPDATE_CONFIG

\* The initial states.
LEMMA InitOK == Init => IInv
<1> SUFFICES ASSUME Init  PROVE IInv  OBVIOUS
<1>1. setup \in Setups  BY DEF Init
<1>2. setup.master \in Instances /\ setup.slaves \subseteq Instances  BY <1>1, SentinelAssumption
<1>3. \A s \in Sentinels : Good(s, Start(s)) /\ Start(s).failover_state # UPDATE_CONFIG  BY <1>1, StartGood
<1>4. \A s \in Sentinels : FileOK(s, Saved(Start(s)), Start(s))  BY <1>3, SavedOK
<1>5. sen = [s \in Sentinels |-> Start(s)] /\ disk = [s \in Sentinels |-> Saved(Start(s))]  BY DEF Init
<1>6. SentinelsOK  BY <1>3, <1>5 DEF SentinelsOK
<1>7. FilesOK  BY <1>4, <1>5 DEF FilesOK
<1>8. HellosOK  BY DEF Init, HellosOK
<1>9. WorldOK  BY <1>1, <1>2 DEF Init, WorldOK
<1>10. VotesKnown /\ VotesOnce  BY DEF Init, VotesKnown, VotesOnce
<1> QED  BY <1>6, <1>7, <1>8, <1>9, <1>10 DEF IInv

\* The inductive invariant holds always.
LEMMA Invariant == Spec => []IInv
<1>1. IInv /\ [Next]_vars => IInv'
  <2> SUFFICES ASSUME IInv, [Next]_vars  PROVE IInv'  OBVIOUS
  <2>1. CASE Next  BY <2>1, NextOK
  <2>2. CASE UNCHANGED vars  BY <2>2, OutsideOK DEF vars, IInv, WorldOK
  <2> QED  BY <2>1, <2>2
<1> QED  BY <1>1, InitOK, PTL DEF Spec

\* What FailoverShape says of the state machine of every sentinel follows from the
\* inductive invariant: sentinelFailoverStateMachine(), sentinelRefreshInstanceInfo() and
\* sentinelResetMasterAndChangeAddress() never meet a promoted slave that is missing, and no
\* epoch is ahead of the current one, for any number of sentinels, slaves and failovers.
THEOREM ShapeHolds == Spec => []FailoverShape
<1>1. IInv => FailoverShape
  <2> SUFFICES ASSUME IInv, NEW s \in Sentinels
               PROVE  LET r == sen[s]
                      IN /\ IsSentinelState(r)
                         /\ r.failover_state >= SEND_SLAVEOF_NOONE <=> r.promoted_slave # None
                         /\ r.promoted_slave # None => r.promoted_slave \in DOMAIN r.slaves
                         /\ Busy(r) # {} => r.failover_state = RECONF_SLAVES
                         /\ r.failover_state # UPDATE_CONFIG
                         /\ {r.config_epoch, r.leader_epoch, r.failover_epoch} \subseteq 0..r.current_epoch
    BY DEF FailoverShape
  <2> DEFINE r == sen[s]
  <2>1. Good(s, r) /\ r \in Records /\ r.failover_state # UPDATE_CONFIG  BY StateOf
  <2>2. r.slaves \in Tables /\ r.peers \in PeerTables /\ r.addr \notin DOMAIN r.slaves  BY <2>1 DEF Good, Records, PointersOK
  <2>3. /\ DOMAIN r.slaves \subseteq Instances /\ \A i \in DOMAIN r.slaves : r.slaves[i] \in Slave
        /\ DOMAIN r.peers \subseteq Sentinels /\ \A p \in DOMAIN r.peers : r.peers[p] \in Peer
    BY <2>2, TableIs, PeersIs
  <2>4. IsSentinelState(r)  BY <2>1, <2>2, <2>3 DEF IsSentinelState, Records
  <2>5. r.failover_state \in 0..6  BY <2>1 DEF Records, NONE, UPDATE_CONFIG
  <2>6. Busy(r) # {} => r.failover_state = RECONF_SLAVES
    BY <2>1, <2>5 DEF Good, BusyOK, Busy, RECONF_SLAVES, UPDATE_CONFIG
  <2>7. {r.config_epoch, r.leader_epoch, r.failover_epoch} \subseteq 0..r.current_epoch  BY <2>1 DEF Good, Records, EpochsOK
  <2> QED  BY <2>1, <2>4, <2>6, <2>7 DEF Good, PointersOK
<1> QED  BY <1>1, Invariant, PTL

\* A sentinel gives its vote to one sentinel in an epoch: sentinelVoteLeader() compares and
\* raises leader_epoch before it answers, and every file that is written, or was written
\* before a restart, holds the leader_epoch of the last vote.
THEOREM OneVoteEach == Spec => []VotesOnce
<1>1. IInv => VotesOnce  BY DEF IInv
<1> QED  BY <1>1, Invariant, PTL

-----------------------------------------------------------------------------
\* One leader in an epoch

\* What is known of a vote of p, in its own record or in another sentinel's, was given.
Told(h, p, x) == x.leader # None => <<"vote", p, x.leader_epoch, x.leader>> \in h

\* Everything a sentinel knows of votes is true.
Honest(h, s, r) == Told(h, s, r) /\ \A p \in DOMAIN r.peers : Told(h, p, r.peers[p])

\* It knows all the others.
Complete(s, peers) == peers = Sentinels \ {s}

\* A majority of all sentinels voted for the leader v, in its epoch.
Majority(h, v) ==
    \E V \in SUBSET Sentinels : /\ Cardinality(V) + Cardinality(V) > Cardinality(Sentinels)
                                /\ \A p \in V : <<"vote", p, v[3], v[2]>> \in h

\* A leader whose votes were counted in the epoch of its failover has this majority.
Chosen(h, v) == v[1] = "leader" /\ v[3] = v[4] => Majority(h, v)

\* Nobody has called SENTINEL RESET.
NoReset == used["reset"] = 0

\* The inductive invariant for elections.
VInv ==
    /\ DOMAIN used = Events /\ used["reset"] \in Nat
    /\ \A s \in Sentinels : Honest(hist, s, sen[s])
    /\ NoReset => \A s \in Sentinels : Complete(s, DOMAIN sen[s].peers) /\ Complete(s, disk[s].peers)
    /\ NoReset => \A v \in hist : Chosen(hist, v)

\* No reset happens in this step.
Steady == DOMAIN used' = DOMAIN used /\ used'["reset"] = used["reset"]

\* Nothing is known of votes in q that was not in r.
Near(r, q) ==
    /\ DOMAIN q.peers = DOMAIN r.peers
    /\ q.leader = None \/ (q.leader = r.leader /\ q.leader_epoch = r.leader_epoch)
    /\ \A p \in DOMAIN r.peers : \/ q.peers[p].leader = None
                                 \/ /\ q.peers[p].leader = r.peers[p].leader
                                    /\ q.peers[p].leader_epoch = r.peers[p].leader_epoch

\* Nothing is known anew.
Same(r, q) == q.peers = r.peers /\ q.leader = r.leader /\ q.leader_epoch = r.leader_epoch

\* Then it is near.
LEMMA SameNear == ASSUME NEW r, NEW q, Same(r, q)  PROVE Near(r, q)
BY DEF Same, Near

\* One after the other.
LEMMA NearTrans == ASSUME NEW r, NEW q, NEW x, Near(r, q), Near(q, x)  PROVE Near(r, x)
BY DEF Near

\* Knowledge stays true as the history grows.
LEMMA HonestMore == ASSUME NEW h, NEW k, h \subseteq k, NEW s, NEW r, Honest(h, s, r)  PROVE Honest(k, s, r)
BY DEF Honest, Told

\* Knowing less is true too.
LEMMA HonestNear == ASSUME NEW h, NEW s, NEW r, NEW q, Honest(h, s, r), Near(r, q)  PROVE Honest(h, s, q)
BY DEF Honest, Told, Near

\* Majorities stay.
LEMMA ChosenMore == ASSUME NEW h, NEW k, h \subseteq k, NEW v, Chosen(h, v)  PROVE Chosen(k, v)
BY DEF Chosen, Majority

\* What the files and tables of a step have to be.
KeepsPeers(t) ==
    /\ DOMAIN sen'[t].peers = DOMAIN sen[t].peers \/ Complete(t, DOMAIN sen'[t].peers)
    /\ \/ disk'[t].peers = disk[t].peers
       \/ disk'[t].peers = DOMAIN sen'[t].peers

\* A step with which the knowledge stays true.
LEMMA VotesStep ==
    ASSUME VInv, Steady, hist \subseteq hist',
           \A t \in Sentinels : Honest(hist', t, sen'[t]),
           NoReset => \A t \in Sentinels : KeepsPeers(t),
           NoReset => \A v \in hist' \ hist : Chosen(hist', v)
    PROVE  VInv'
<1>1. DOMAIN used' = Events /\ used'["reset"] \in Nat /\ (NoReset' <=> NoReset)  BY DEF VInv, Steady, NoReset
<1>2. ASSUME NoReset, NEW s \in Sentinels
      PROVE  Complete(s, DOMAIN sen'[s].peers) /\ Complete(s, disk'[s].peers)
  <2>1. Complete(s, DOMAIN sen[s].peers) /\ Complete(s, disk[s].peers) /\ KeepsPeers(s)  BY <1>2 DEF VInv
  <2> QED  BY <2>1 DEF KeepsPeers
<1>3. ASSUME NoReset, NEW v \in hist'  PROVE Chosen(hist', v)
  <2>1. CASE v \in hist
    <3>1. Chosen(hist, v)  BY <1>3, <2>1 DEF VInv
    <3> QED  BY <3>1, ChosenMore
  <2>2. CASE v \notin hist  BY <1>3, <2>2
  <2> QED  BY <2>1, <2>2
<1> QED  BY <1>1, <1>2, <1>3 DEF VInv

\* One sentinel changes and learns nothing of votes.
LEMMA OneNear ==
    ASSUME IInv, VInv, Steady, NEW s \in Sentinels, NEW q, NEW f, Near(sen[s], q),
           f = disk[s] \/ f.peers = DOMAIN q.peers,
           sen' = [sen EXCEPT ![s] = q], disk' = [disk EXCEPT ![s] = f], hist' = hist
    PROVE  VInv'
<1>1. sen = [t \in Sentinels |-> sen[t]] /\ disk = [t \in Sentinels |-> disk[t]]  BY DEF IInv, SentinelsOK, FilesOK
<1>2. \A t \in Sentinels : sen'[t] = IF t = s THEN q ELSE sen[t]  BY <1>1
<1>3. \A t \in Sentinels : disk'[t] = IF t = s THEN f ELSE disk[t]  BY <1>1
<1>4. ASSUME NEW t \in Sentinels  PROVE Honest(hist', t, sen'[t]) /\ KeepsPeers(t)
  <2>1. Honest(hist, t, sen[t])  BY DEF VInv
  <2>2. CASE t = s
    <3>1. sen'[t] = q /\ disk'[t] = f  BY <1>2, <1>3, <2>2
    <3>2. Honest(hist, t, q)  BY <2>1, <2>2, HonestNear
    <3> QED  BY <2>2, <3>1, <3>2 DEF KeepsPeers, Near
  <2>3. CASE t # s
    <3>1. sen'[t] = sen[t] /\ disk'[t] = disk[t]  BY <1>2, <1>3, <2>3
    <3> QED  BY <2>1, <3>1 DEF KeepsPeers
  <2> QED  BY <2>2, <2>3
<1> QED  BY <1>4, VotesStep

\* The same without touching the file.
LEMMA OneNearMemory ==
    ASSUME IInv, VInv, Steady, NEW s \in Sentinels, NEW q, Near(sen[s], q),
           sen' = [sen EXCEPT ![s] = q], disk' = disk, hist' = hist
    PROVE  VInv'
<1>1. disk = [t \in Sentinels |-> disk[t]]  BY DEF IInv, FilesOK
<1>2. disk' = [disk EXCEPT ![s] = disk[s]]  BY <1>1
<1> QED  BY <1>2, OneNear

\* So does a step that changes none of them.
LEMMA NoneVotes == ASSUME VInv, Steady, sen' = sen, disk' = disk, hist' = hist  PROVE VInv'
<1>1. \A t \in Sentinels : Honest(hist', t, sen'[t]) /\ KeepsPeers(t)  BY DEF VInv, KeepsPeers
<1> QED  BY <1>1, VotesStep

\* What spends another bound.
LEMMA SpendSteady == ASSUME VInv, NEW e \in Events, e # "reset", Spend(e)  PROVE Steady
BY DEF VInv, Spend, Steady

\* The bounds untouched.
LEMMA UsedSteady == ASSUME UNCHANGED used  PROVE Steady
BY DEF Steady

\* What a file holds of the other sentinels.
LEMMA SavedPeers == ASSUME NEW r  PROVE Saved(r).peers = DOMAIN r.peers
BY DEF Saved

\* sentinelResetMasterAndChangeAddress() keeps what is known of the others, not the own vote.
LEMMA ChangeAddressNear ==
    ASSUME NEW r \in Records, NEW addr  PROVE Near(r, sentinelResetMasterAndChangeAddress(r, addr))
<1> DEFINE D == (DOMAIN r.slaves \cup {r.addr}) \ {addr}
           t == [i \in D |-> NewSlave]
           q1 == [r EXCEPT !.slaves = t, !.peers = r.peers, !.sdown = FALSE, !.odown = FALSE,
              !.force = FALSE, !.leader = None, !.failover_state = NONE,
              !.delayed = FALSE, !.behind = {}, !.promoted_slave = None,
              !.role = "master"]
           q == [q1 EXCEPT !.addr = addr]
<1>1. sentinelResetMasterAndChangeAddress(r, addr) = q  BY DEF sentinelResetMasterAndChangeAddress, sentinelResetMaster
<1> HIDE DEF t
<1>2. DOMAIN q1 = DOMAIN r /\ q1.peers = r.peers /\ q1.leader = None  BY DEF Records
<1> HIDE DEF q1
<1>3. q.peers = r.peers /\ q.leader = None  BY <1>2
<1> HIDE DEF q
<1> QED  BY <1>1, <1>3 DEF Near

\* Old replies forgotten.
LEMMA ForgetNear ==
    ASSUME NEW r \in Records, NEW old \in SUBSET DOMAIN r.peers  PROVE Near(r, Forget(r, old))
<1> DEFINE f == [p \in old |-> [r.peers[p] EXCEPT !.down = FALSE, !.leader = None]]
           q == Forget(r, old)
<1> SUFFICES Near(r, q)  OBVIOUS
<1>1. q.peers = Over(f, r.peers) /\ q.leader = r.leader /\ q.leader_epoch = r.leader_epoch  BY DEF Records, Forget
<1>2. \A p \in DOMAIN r.peers : r.peers[p] \in Peer  BY PeersIs DEF Records
<1>3. \A p \in old : f[p].leader = None
  <2>1. ASSUME NEW p \in old  PROVE [r.peers[p] EXCEPT !.down = FALSE, !.leader = None].leader = None
    BY <1>2 DEF Peer
  <2> QED  BY <2>1
<1>4. DOMAIN f = old  OBVIOUS
<1> HIDE DEF f
<1>5. DOMAIN Over(f, r.peers) = DOMAIN r.peers  BY <1>4 DEF Over
<1>6. \A p \in DOMAIN r.peers : Over(f, r.peers)[p] = IF p \in old THEN f[p] ELSE r.peers[p]  BY <1>4 DEF Over
<1> HIDE DEF q
<1> QED  BY <1>1, <1>3, <1>5, <1>6 DEF Near

\* The checks of the slaves say nothing of votes.
LEMMA CheckSlavesNear ==
    ASSUME NEW s \in Sentinels, NEW r, Good(s, r), NEW slaves \in [DOMAIN r.slaves -> BOOLEAN]
    PROVE  Near(r, CheckSlaves(r, slaves))
<1> DEFINE r1 == SlavesDown(r, slaves)
<1>1. Good(s, r1)  BY SlavesDownOK
<1>2. r1 \in Records /\ r \in Records  BY <1>1 DEF Good
<1>3. Same(r, r1)  BY <1>2 DEF Records, SlavesDown, Same
<1>4. CheckSlaves(r, slaves) = IF r1.failover_state = UPDATE_CONFIG THEN sentinelResetMasterAndChangeAddress(r1, r1.promoted_slave) ELSE r1
  BY DEF CheckSlaves
<1> HIDE DEF r1
<1>5. Near(r, r1) /\ Near(r1, sentinelResetMasterAndChangeAddress(r1, r1.promoted_slave))
  BY <1>2, <1>3, SameNear, ChangeAddressNear
<1> QED  BY <1>4, <1>5, NearTrans

\* Neither do those of the master.
LEMMA CheckMasterSame ==
    ASSUME NEW s, NEW r \in Records, NEW sdown  PROVE Same(r, CheckMaster(s, r, sdown))
<1> DEFINE r0 == [r EXCEPT !.sdown = sdown, !.tilt = FALSE]
           o == r0.sdown /\ 1 + Cardinality({p \in DOMAIN r0.peers : r0.peers[p].down}) >= Quorum
           r1 == [r0 EXCEPT !.odown = o]
           e == r1.current_epoch + 1
           r2 == [r1 EXCEPT !.failover_state = WAIT_START, !.current_epoch = e, !.failover_epoch = e,
                            !.delayed = TRUE, !.behind = Open]
<1>1. CheckMaster(s, r, sdown) = IF CanStart(s, r1) THEN r2 ELSE r1
  BY DEF CheckMaster, sentinelCheckObjectivelyDown, sentinelStartFailover
<1> HIDE DEF o, e
<1>2. Same(r, r1) /\ Same(r, r2)  BY DEF Records, Same
<1> HIDE DEF r1, r2
<1> QED  BY <1>1, <1>2

\* After sentinelVoteLeader() a sentinel knows of the vote it gave, once that is in the history.
LEMMA VoteHonest ==
    ASSUME NEW h, NEW s, NEW r \in Records, NEW epoch \in Nat, NEW runid, Honest(h, s, r),
           sentinelVoteLeader(s, r, epoch, runid).voted => <<"vote", s, epoch, runid>> \in h
    PROVE  LET v == sentinelVoteLeader(s, r, epoch, runid)
           IN  Honest(h, s, v.r) /\ v.r.peers = r.peers
<1> DEFINE e == Max({r.current_epoch, epoch})
           votes == r.leader_epoch < epoch /\ e <= epoch
           stand == votes /\ runid # s /\ s \in setup.starters
           l == IF votes THEN runid ELSE r.leader
           le == IF votes THEN e ELSE r.leader_epoch
           dl == r.delayed \/ stand
           bh == IF stand THEN Open \ {<<s, r.failover_epoch>>} ELSE r.behind
           q == [r EXCEPT !.current_epoch = e, !.leader = l, !.leader_epoch = le, !.delayed = dl, !.behind = bh]
<1>1. e \in Nat /\ e >= epoch  BY MaxOfTwo DEF Records
<1>2. votes => l = runid /\ le = epoch  BY <1>1
<1>3. ~votes => l = r.leader /\ le = r.leader_epoch  OBVIOUS
<1>4. sentinelVoteLeader(s, r, epoch, runid) = [r |-> q, voted |-> votes, saved |-> votes \/ epoch > r.current_epoch]
  BY DEF sentinelVoteLeader
<1> HIDE DEF e, votes, stand, l, le, dl, bh
<1>5. q.leader = l /\ q.leader_epoch = le /\ q.peers = r.peers  BY DEF Records
<1> HIDE DEF q
<1>6. votes => <<"vote", s, epoch, runid>> \in h  BY <1>4
<1>7. Told(h, s, q)
  <2>1. CASE votes  BY <1>2, <1>5, <1>6, <2>1 DEF Told
  <2>2. CASE ~votes  BY <1>3, <1>5, <2>2 DEF Honest, Told
  <2> QED  BY <2>1, <2>2
<1>8. Honest(h, s, q)  BY <1>5, <1>7 DEF Honest
<1> QED  BY <1>4, <1>5, <1>8

\* Whoever counts enough votes of its own epoch, and knows all sentinels, has a majority of them.
LEMMA ElectedByMajority ==
    ASSUME NEW h, NEW s \in Sentinels, NEW r, Good(s, r), NEW most \in Sentinels,
           Complete(s, DOMAIN r.peers), Honest(h, s, r),
           Honest(h, s, sentinelVoteLeader(s, r, r.failover_epoch, most).r),
           sentinelGetLeader(s, r, most).isleader, r.failover_epoch = r.current_epoch
    PROVE  \E V \in SUBSET Sentinels : /\ Cardinality(V) + Cardinality(V) > Cardinality(Sentinels)
                                       /\ \A p \in V : <<"vote", p, r.failover_epoch, s>> \in h
<1> DEFINE v == sentinelVoteLeader(s, r, r.failover_epoch, most)
           W == {p \in DOMAIN r.peers : r.peers[p].leader = s /\ r.peers[p].leader_epoch = r.current_epoch}
           own == v.r.leader = s /\ v.r.leader_epoch = r.failover_epoch
           V == IF own THEN W \cup {s} ELSE W
           n == Cardinality(Sentinels)
<1>1. s # None /\ IsFiniteSet(Sentinels) /\ r \in Records /\ s \notin DOMAIN r.peers
  BY SentinelAssumption DEF Good, PointersOK
<1>2. DOMAIN r.peers = Sentinels \ {s}  BY DEF Complete
<1>3. n \in Nat /\ Voters(r) = n
  <2>1. n \in Nat /\ Cardinality(Sentinels \ {s}) = n - 1  BY <1>1, FS_CardinalityType, FS_RemoveElement
  <2> QED  BY <1>2, <2>1 DEF Voters
<1>4. W \in SUBSET Sentinels /\ s \notin W  BY <1>2
<1>5. VotesFor(r, s) = Cardinality(W)  BY DEF VotesFor
<1>6. Cardinality(W) + (IF own THEN 1 ELSE 0) >= Voters(r) \div 2 + 1
  <2> DEFINE counts == v.r.leader # None /\ v.r.leader_epoch = r.failover_epoch
             total(t) == VotesFor(r, t) + IF counts /\ v.r.leader = t THEN 1 ELSE 0
  <2>1. total(s) >= Voters(r) \div 2 + 1  BY DEF sentinelGetLeader
  <2>2. (counts /\ v.r.leader = s) <=> own  BY <1>1
  <2>3. total(s) = VotesFor(r, s) + IF own THEN 1 ELSE 0
    <3> HIDE DEF v
    <3> QED  BY <2>2
  <2> HIDE DEF total, own, W
  <2> QED  BY <1>5, <2>1, <2>3
<1>7. \A p \in W : <<"vote", p, r.failover_epoch, s>> \in h  BY <1>1 DEF Honest, Told
<1>8. own => <<"vote", s, r.failover_epoch, s>> \in h  BY <1>1 DEF Honest, Told
<1> HIDE DEF W, own, v
<1>9. V \in SUBSET Sentinels /\ \A p \in V : <<"vote", p, r.failover_epoch, s>> \in h  BY <1>4, <1>7, <1>8
<1>10. IsFiniteSet(W) /\ Cardinality(W) \in Nat  BY <1>1, <1>4, FS_Subset, FS_CardinalityType
<1>11. Cardinality(V) = Cardinality(W) + (IF own THEN 1 ELSE 0)
  <2>1. Cardinality(W \cup {s}) = Cardinality(W) + 1  BY <1>4, <1>10, FS_AddElement
  <2>2. CASE own  BY <2>1, <2>2
  <2>3. CASE ~own  BY <1>10, <2>3
  <2> QED  BY <2>2, <2>3
<1> HIDE DEF V, n
<1>12. Cardinality(V) >= n \div 2 + 1 /\ Cardinality(V) \in Nat  BY <1>3, <1>6, <1>10, <1>11
<1>13. Cardinality(V) + Cardinality(V) > n  BY <1>3, <1>12
<1> QED  BY <1>9, <1>13 DEF n

\* What a step of the failover state machine adds to the history of votes.
VotesLogged(s, r, st) ==
    /\ DOMAIN st.r.peers = DOMAIN r.peers
    /\ Honest(hist \cup st.log, s, st.r)
    /\ Complete(s, DOMAIN r.peers) => \A v \in st.log : Chosen(hist \cup st.log, v)

\* The election.
LEMMA WaitStartVotes ==
    ASSUME SentinelsOK, NEW s \in Sentinels, NEW r, Good(s, r), NEW expired \in BOOLEAN, NEW most \in Sentinels,
           Honest(hist, s, r)
    PROVE  VotesLogged(s, r, sentinelFailoverWaitStart(s, r, expired, most))
<1> DEFINE v == sentinelVoteLeader(s, r, r.failover_epoch, most)
           lead == sentinelGetLeader(s, r, most).isleader
           won == <<"leader", s, r.failover_epoch, r.current_epoch>>
           log == (IF v.voted THEN {<<"vote", s, v.r.leader_epoch, v.r.leader>>} ELSE {})
                     \cup (IF lead THEN {won} ELSE {})
           q1 == [v.r EXCEPT !.failover_state = SELECT_SLAVE]
           q2 == sentinelAbortFailover(v.r)
           q == IF lead \/ r.force THEN q1 ELSE IF expired THEN q2 ELSE v.r
           h == hist \cup log
<1>1. r \in Records /\ r.failover_epoch \in Nat  BY DEF Good, Records
<1>2. Good(s, v.r) /\ VoteDone(r, v, r.failover_epoch, most)  BY <1>1, VoteOK
<1>3. sentinelFailoverWaitStart(s, r, expired, most)
        = [r |-> q, to |-> {}, master |-> None, saved |-> v.saved, log |-> log]
  <2>1. sentinelGetLeader(s, r, most).v = v  BY DEF sentinelGetLeader
  <2> QED  BY <2>1 DEF sentinelFailoverWaitStart
<1>4. v.voted => <<"vote", s, r.failover_epoch, most>> \in h
  <2>1. v.voted => v.r.leader_epoch = r.failover_epoch /\ v.r.leader = most  BY <1>2 DEF VoteDone
  <2> HIDE DEF v, lead, won
  <2> QED  BY <2>1
<1> HIDE DEF log
<1>5. Honest(h, s, r)
  <2>1. hist \subseteq h  OBVIOUS
  <2> HIDE DEF h
  <2> QED  BY <2>1, HonestMore
<1> HIDE DEF h
<1>6. Honest(h, s, v.r) /\ v.r.peers = r.peers  BY <1>1, <1>4, <1>5, VoteHonest
<1>7. v.r \in Records  BY <1>2 DEF Good
<1>8. lead /\ Complete(s, DOMAIN r.peers) => Chosen(h, won)
  <2>1. SUFFICES ASSUME lead, Complete(s, DOMAIN r.peers), r.failover_epoch = r.current_epoch  PROVE Majority(h, won)
    BY DEF Chosen, won
  <2>2. \E V \in SUBSET Sentinels : /\ Cardinality(V) + Cardinality(V) > Cardinality(Sentinels)
                                    /\ \A p \in V : <<"vote", p, r.failover_epoch, s>> \in h
    BY <1>5, <1>6, <2>1, ElectedByMajority
  <2>3. won[2] = s /\ won[3] = r.failover_epoch  BY DEF won
  <2> HIDE DEF won
  <2> QED  BY <2>2, <2>3 DEF Majority
<1>9. \A x \in log : x = won \/ x[1] = "vote"  BY DEF log
<1>10. lead \/ won \notin log
  BY DEF log, won
<1> HIDE DEF v, lead, won
<1>11. Same(v.r, q1) /\ Same(v.r, q2) /\ Same(v.r, v.r)  BY <1>7 DEF Records, Same, sentinelAbortFailover
<1>12. Same(v.r, q)  BY <1>11
<1> HIDE DEF q
<1>13. Honest(h, s, q) /\ DOMAIN q.peers = DOMAIN r.peers
  BY <1>6, <1>12, SameNear, HonestNear DEF Same
<1>14. Complete(s, DOMAIN r.peers) => \A x \in log : Chosen(h, x)
  <2>1. \A x : x[1] = "vote" => Chosen(h, x)  BY DEF Chosen
  <2> QED  BY <1>8, <1>9, <1>10, <2>1
<1> QED  BY <1>3, <1>13, <1>14 DEF VotesLogged, h

\* The other steps of the state machine log nothing and leave the votes alone.
LEMMA QuietVotes ==
    ASSUME NEW s, NEW r, Honest(hist, s, r), NEW st, Same(r, st.r), st.log = {}
    PROVE  VotesLogged(s, r, st)
<1>1. Honest(hist, s, st.r)  BY SameNear, HonestNear
<1>2. hist \cup st.log = hist  OBVIOUS
<1> QED  BY <1>1, <1>2 DEF VotesLogged, Same

\* Every step of the state machine.
LEMMA StateMachineVotes ==
    ASSUME SentinelsOK, NEW s \in Sentinels, NEW r, Good(s, r), Honest(hist, s, r),
           NEW expired \in BOOLEAN, NEW disconnected \in BOOLEAN, 
           NEW choice \in FailoverChoices(s, r)
    PROVE  VotesLogged(s, r, sentinelFailoverStateMachine(s, r, expired, disconnected, choice))
<1> DEFINE st == sentinelFailoverStateMachine(s, r, expired, disconnected, choice)
<1> SUFFICES VotesLogged(s, r, st)  OBVIOUS
<1> USE DEF NONE, WAIT_START, SELECT_SLAVE, SEND_SLAVEOF_NOONE, WAIT_PROMOTION, RECONF_SLAVES, UPDATE_CONFIG
<1>0. r \in Records /\ r.failover_state \in 0..6  BY DEF Good, Records
<1>a. Same(r, sentinelAbortFailover(r)) /\ Same(r, r)  BY <1>0 DEF Records, Same, sentinelAbortFailover
<1>1. CASE r.failover_state = 1
  <2>1. choice \in Sentinels  BY <1>1 DEF FailoverChoices, Leading
  <2>2. st = sentinelFailoverWaitStart(s, r, expired, choice)  BY <1>1 DEF sentinelFailoverStateMachine
  <2> QED  BY <2>1, <2>2, WaitStartVotes
<1>2. CASE r.failover_state = 2
  <2> DEFINE q == [r EXCEPT !.promoted_slave = choice, !.failover_state = SEND_SLAVEOF_NOONE]
  <2>1. st = sentinelFailoverSelectSlave(s, r, choice)  BY <1>2 DEF sentinelFailoverStateMachine
  <2>2. st.r \in {q, sentinelAbortFailover(r)} /\ st.log = {}  BY <2>1 DEF sentinelFailoverSelectSlave, Step
  <2>3. Same(r, q)  BY <1>0 DEF Records, Same
  <2> HIDE DEF q, st
  <2> QED  BY <1>a, <2>2, <2>3, QuietVotes
<1>3. CASE r.failover_state = 3
  <2> DEFINE q == [r EXCEPT !.failover_state = WAIT_PROMOTION]
  <2>1. st = sentinelFailoverSendSlaveOfNoOne(s, r, expired, disconnected)  BY <1>3 DEF sentinelFailoverStateMachine
  <2>2. st.r \in {r, q, sentinelAbortFailover(r)} /\ st.log = {}  BY <2>1 DEF sentinelFailoverSendSlaveOfNoOne, Step
  <2>3. Same(r, q)  BY <1>0 DEF Records, Same
  <2> HIDE DEF q, st
  <2> QED  BY <1>a, <2>2, <2>3, QuietVotes
<1>4. CASE r.failover_state = 4
  <2>1. st = sentinelFailoverWaitPromotion(r, expired)  BY <1>4 DEF sentinelFailoverStateMachine
  <2>2. st.r \in {r, sentinelAbortFailover(r)} /\ st.log = {}  BY <2>1 DEF sentinelFailoverWaitPromotion, Step
  <2> HIDE DEF st
  <2> QED  BY <1>a, <2>2, QuietVotes
<1>5. CASE r.failover_state = 5
  <2> DEFINE t == Over([i \in choice |-> [r.slaves[i] EXCEPT !.reconf = {"sent"} \cup (IF @ = {} THEN {} ELSE {"done"})]], r.slaves)
             q == [r EXCEPT !.slaves = t]
             q1 == [q EXCEPT !.failover_state = UPDATE_CONFIG]
             end == sentinelFailoverDetectEnd(q, expired)
  <2>1. st = sentinelFailoverReconfNextSlave(r, expired, choice)  BY <1>5 DEF sentinelFailoverStateMachine
  <2>2. st = Step(end.r, end.to \cup choice, r.promoted_slave)  BY <2>1 DEF sentinelFailoverReconfNextSlave
  <2>3. st.r = end.r /\ st.log = {}  BY <2>2 DEF Step
  <2> HIDE DEF t
  <2>4. Same(r, q) /\ Same(r, q1)  BY <1>0 DEF Records, Same
  <2> HIDE DEF q
  <2>5. end.r \in {q, q1}
    <3> DEFINE left == {i \in DOMAIN q.slaves : /\ i # q.promoted_slave
                                                /\ "done" \notin q.slaves[i].reconf
                                                /\ ~q.slaves[i].sdown}
               rest == {i \in DOMAIN q.slaves : q.slaves[i].reconf \cap {"done", "sent"} = {}}
               more == IF expired THEN rest ELSE {}
               q2 == IF expired \/ left = {} THEN q1 ELSE q
    <3>1. end = IF q.slaves[q.promoted_slave].sdown THEN Step(q, {}, None) ELSE Step(q2, more, q.promoted_slave)
      BY DEF sentinelFailoverDetectEnd
    <3>2. q2 \in {q, q1}  OBVIOUS
    <3> HIDE DEF q1, q2, more, end
    <3> QED  BY <3>1, <3>2 DEF Step
  <2> HIDE DEF q1, end, st
  <2> QED  BY <2>3, <2>4, <2>5, QuietVotes
<1>6. CASE r.failover_state \in {0, 6}
  <2>1. st = Step(r, {}, None)  BY <1>6 DEF sentinelFailoverStateMachine
  <2>2. st.r = r /\ st.log = {}  BY <2>1 DEF Step
  <2> HIDE DEF st
  <2> QED  BY <1>a, <2>2, QuietVotes
<1> QED  BY <1>0, <1>1, <1>2, <1>3, <1>4, <1>5, <1>6

\* The last part of the timer.
LEMMA TimerEndsVotes ==
    ASSUME IInv, VInv, NEW s \in Sentinels, NEW st, Good(s, st.r), VotesLogged(s, sen[s], st),
           NEW old \in SUBSET DOMAIN st.r.peers, NEW slaves \in [DOMAIN st.r.slaves -> BOOLEAN],
           TimerEnds(s, old, slaves, st)
    PROVE  VInv'
<1> DEFINE asker == Forget(st.r, old)
           q == CheckSlaves(asker, slaves)
           f == IF st.saved \/ asker.failover_state = UPDATE_CONFIG THEN Saved(q) ELSE disk[s]
<1>1. Good(s, asker) /\ st.r \in Records  BY ForgetOK DEF Good
<1>2. asker.slaves = st.r.slaves  BY <1>1 DEF Records, Forget
<1>3. /\ sen' = [sen EXCEPT ![s] = q] /\ disk' = [disk EXCEPT ![s] = f] /\ hist' = hist \cup st.log
      /\ used' = [used EXCEPT !["stale"] = @ + Cardinality(old)]
  BY DEF TimerEnds
<1>4. Near(st.r, asker)  BY <1>1, ForgetNear
<1> HIDE DEF asker
<1>5. Near(asker, q)  BY <1>1, <1>2, CheckSlavesNear
<1>6. f = disk[s] \/ f.peers = DOMAIN q.peers  BY SavedPeers
<1> HIDE DEF q, f
<1>7. Near(st.r, q)  BY <1>4, <1>5, NearTrans
<1>8. Honest(hist', s, q) /\ DOMAIN q.peers = DOMAIN sen[s].peers
  <2>1. Honest(hist', s, st.r) /\ DOMAIN st.r.peers = DOMAIN sen[s].peers  BY <1>3 DEF VotesLogged
  <2> QED  BY <1>7, <2>1, HonestNear DEF Near
<1>9. sen = [t \in Sentinels |-> sen[t]] /\ disk = [t \in Sentinels |-> disk[t]]  BY DEF IInv, SentinelsOK, FilesOK
<1>10. \A t \in Sentinels : sen'[t] = IF t = s THEN q ELSE sen[t]  BY <1>3, <1>9
<1>11. \A t \in Sentinels : disk'[t] = IF t = s THEN f ELSE disk[t]  BY <1>3, <1>9
<1>12. hist \subseteq hist'  BY <1>3
<1>13. ASSUME NEW t \in Sentinels  PROVE Honest(hist', t, sen'[t]) /\ KeepsPeers(t)
  <2>1. CASE t = s
    <3>1. sen'[t] = q /\ disk'[t] = f  BY <1>10, <1>11, <2>1
    <3> QED  BY <1>6, <1>8, <2>1, <3>1 DEF KeepsPeers
  <2>2. CASE t # s
    <3>1. sen'[t] = sen[t] /\ disk'[t] = disk[t]  BY <1>10, <1>11, <2>2
    <3>2. Honest(hist, t, sen[t])  BY DEF VInv
    <3>3. Honest(hist', t, sen[t])  BY <1>12, <3>2, HonestMore
    <3> QED  BY <3>1, <3>3 DEF KeepsPeers
  <2> QED  BY <2>1, <2>2
<1>14. Steady  BY <1>3 DEF VInv, Steady
<1>15. ASSUME NoReset, NEW v \in hist' \ hist  PROVE Chosen(hist', v)
  <2>1. Complete(s, DOMAIN sen[s].peers)  BY <1>15 DEF VInv
  <2>2. v \in st.log  BY <1>3
  <2> QED  BY <1>3, <2>1, <2>2 DEF VotesLogged
<1> QED  BY <1>12, <1>13, <1>14, <1>15, VotesStep

\* The timer.
LEMMA TimerVotes == ASSUME IInv, VInv, NEW s \in Sentinels, sentinelTimer(s)  PROVE VInv'
<1> DEFINE r == sen[s]
           stale == {p \in DOMAIN r.peers : /\ used["stale"] < setup.max["stale"]
                                            /\ (r.peers[p].down \/ r.peers[p].leader # None)}
<1>1. PICK sdown \in Subjectively(s, r.addr, r.sdown, r.role = "slave"),
          slaves \in {f \in [DOMAIN r.slaves -> BOOLEAN] :
                        \A i \in DOMAIN f : f[i] \in Subjectively(s, i, r.slaves[i].sdown, FALSE)},
          old \in {{}} \cup {{p} : p \in stale},
          expired \in {FALSE, setup.timeouts}, disconnected \in BOOLEAN :
            \E r1 \in {CheckMaster(s, r, sdown)} :
              /\ disconnected => r1.failover_state = SEND_SLAVEOF_NOONE
              /\ expired => r1.failover_state \notin {NONE, SELECT_SLAVE}
              /\ \E choice \in FailoverChoices(s, r1) :
                   \E st \in {sentinelFailoverStateMachine(s, r1, expired, disconnected, choice)} :
                     TimerEnds(s, old, slaves, st)
  BY Zenon DEF sentinelTimer
<1>a. slaves \in [DOMAIN r.slaves -> BOOLEAN] /\ old \in SUBSET DOMAIN r.peers  OBVIOUS
<1> DEFINE r1 == CheckMaster(s, r, sdown)
<1>2. PICK choice \in FailoverChoices(s, r1) :
            TimerEnds(s, old, slaves, sentinelFailoverStateMachine(s, r1, expired, disconnected, choice))
  BY <1>1
<1> DEFINE st == sentinelFailoverStateMachine(s, r1, expired, disconnected, choice)
<1>3. Good(s, r) /\ r \in Records /\ r.failover_state # UPDATE_CONFIG /\ SentinelsOK  BY StateOf DEF IInv
<1>4. expired \in BOOLEAN /\ sdown \in BOOLEAN
  BY <1>3, SentinelAssumption DEF IInv, WorldOK, Records, Subjectively
<1>5. Good(s, r1) /\ r1.failover_state # UPDATE_CONFIG /\ SameTables(r, r1)  BY <1>3, <1>4, CheckMasterOK
<1>6. Same(r, r1)  BY <1>3, CheckMasterSame
<1>7. Honest(hist, s, r)  BY DEF VInv
<1> HIDE DEF r1
<1>8. Honest(hist, s, r1)  BY <1>6, <1>7, SameNear, HonestNear
<1>9. VotesLogged(s, r1, st)  BY <1>3, <1>4, <1>5, <1>8, StateMachineVotes
<1>10. Good(s, st.r)  BY <1>3, <1>4, <1>5, StateMachineOK DEF StepOK
<1>11. SameTables(r1, st.r)  BY <1>3, <1>4, <1>5, StateMachineTables
<1>12. TimerEnds(s, old, slaves, st)  BY <1>2
<1> HIDE DEF st
<1>13. VotesLogged(s, r, st)  BY <1>6, <1>9 DEF VotesLogged, Same
<1>14. old \in SUBSET DOMAIN st.r.peers /\ slaves \in [DOMAIN st.r.slaves -> BOOLEAN]  BY <1>a, <1>5, <1>11 DEF SameTables
<1> QED  BY <1>10, <1>12, <1>13, <1>14, TimerEndsVotes

\* A reply that carries a vote which was given.
LEMMA ReplyHonest ==
    ASSUME NEW h, NEW s, NEW r \in Records, Honest(h, s, r), NEW p, NEW down, NEW leader, NEW epoch,
           leader # None => <<"vote", p, epoch, leader>> \in h
    PROVE  LET q == sentinelReceiveIsMasterDownReply(r, p, down, leader, epoch)
           IN  Honest(h, s, q) /\ DOMAIN q.peers = DOMAIN r.peers
<1>1. CASE p \notin DOMAIN r.peers  BY <1>1 DEF sentinelReceiveIsMasterDownReply
<1>2. CASE p \in DOMAIN r.peers
  <2> DEFINE old == r.peers[p]
             l == IF leader = None THEN old.leader ELSE leader
             e == IF leader = None THEN old.leader_epoch ELSE epoch
             new == [down |-> down, leader |-> l, leader_epoch |-> e]
             t == [r.peers EXCEPT ![p] = new]
             q == [r EXCEPT !.peers = t]
  <2>1. r.peers = [x \in DOMAIN r.peers |-> r.peers[x]]  BY PeersIs DEF Records
  <2>2. sentinelReceiveIsMasterDownReply(r, p, down, leader, epoch) = q
    BY <1>2 DEF sentinelReceiveIsMasterDownReply
  <2>3. Told(h, p, new)
    <3>1. Told(h, p, old)  BY <1>2 DEF Honest
    <3>2. CASE leader = None  BY <3>1, <3>2 DEF Told
    <3>3. CASE leader # None  BY <3>3 DEF Told
    <3> QED  BY <3>2, <3>3
  <2> HIDE DEF new
  <2>4. DOMAIN t = DOMAIN r.peers /\ \A x \in DOMAIN r.peers : t[x] = IF x = p THEN new ELSE r.peers[x]
    BY <2>1
  <2> HIDE DEF t
  <2>5. q.peers = t /\ q.leader = r.leader /\ q.leader_epoch = r.leader_epoch  BY DEF Records
  <2> HIDE DEF q
  <2>6. \A x \in DOMAIN t : Told(h, x, t[x])  BY <2>3, <2>4 DEF Honest
  <2>7. Told(h, s, q)  BY <2>5 DEF Honest, Told
  <2>8. Honest(h, s, q) /\ DOMAIN q.peers = DOMAIN r.peers  BY <2>4, <2>5, <2>6, <2>7 DEF Honest
  <2> QED  BY <2>2, <2>8
<1> QED  BY <1>1, <1>2

\* A request for a vote and its reply.
LEMMA IsMasterDownVotes ==
    ASSUME IInv, VInv, NEW m \in net, NEW lost \in BOOLEAN, IsMasterDownByAddr(m, lost)  PROVE VInv'
<1> DEFINE s == m.to
           known == sen[s].addr = m.addr
           v == sentinelVoteLeader(s, sen[s], m.epoch, m.from)
           after == IF known THEN v.r ELSE sen[s]
           says == IF known THEN after.leader ELSE None
           asker == sentinelReceiveIsMasterDownReply(sen[m.from], s, SaysDown(s, m.addr), says, after.leader_epoch)
           from == IF lost THEN sen[m.from] ELSE asker
           f == IF known /\ v.saved THEN Saved(after) ELSE disk[s]
           log == IF known /\ v.voted THEN {<<"vote", s, m.epoch, m.from>>} ELSE {}
<1>1. m \in Requests  BY DEF IInv, WorldOK
<1>2. s \in Sentinels /\ m.from \in Sentinels /\ m.epoch \in Nat /\ m.from # s  BY <1>1 DEF Requests
<1>3. sen[s] \in Records /\ sen[m.from] \in Records  BY <1>2, StateOf
<1>4. sen = [t \in Sentinels |-> sen[t]] /\ disk = [t \in Sentinels |-> disk[t]]
  BY DEF IInv, SentinelsOK, FilesOK
<1>5. /\ sen' = [sen EXCEPT ![s] = after, ![m.from] = from] /\ disk' = [disk EXCEPT ![s] = f] /\ hist' = hist \cup log
  <2>1. sen' = [sen EXCEPT ![s] = after, ![m.from] = IF lost THEN @ ELSE asker]  BY DEF IsMasterDownByAddr
  <2>2. sen' = [sen EXCEPT ![s] = after, ![m.from] = from]
    <3> HIDE DEF after, asker, s
    <3> QED  BY <1>2, <1>4, <2>1
  <2> QED  BY <2>2 DEF IsMasterDownByAddr
<1>6. Steady
  <2>1. IF lost THEN Spend("lose") ELSE UNCHANGED used  BY DEF IsMasterDownByAddr
  <2>2. "lose" \in Events  BY DEF Events
  <2> QED  BY <2>1, <2>2, SpendSteady, UsedSteady
<1>7. hist \subseteq hist' /\ (known /\ v.voted => <<"vote", s, m.epoch, m.from>> \in hist')
  <2> HIDE DEF v, known
  <2> QED  BY <1>5
<1>8. Honest(hist', s, sen[s]) /\ Honest(hist', m.from, sen[m.from])
  <2>1. Honest(hist, s, sen[s]) /\ Honest(hist, m.from, sen[m.from])  BY <1>2 DEF VInv
  <2> QED  BY <1>7, <2>1, HonestMore
<1>9. Honest(hist', s, after) /\ DOMAIN after.peers = DOMAIN sen[s].peers
  <2>1. CASE known
    <3>1. Honest(hist', s, v.r) /\ v.r.peers = sen[s].peers  BY <1>2, <1>3, <1>7, <1>8, <2>1, VoteHonest
    <3>2. after = v.r  BY <2>1
    <3> HIDE DEF after, v
    <3> QED  BY <3>1, <3>2
  <2>2. CASE ~known  BY <1>8, <2>2
  <2> QED  BY <2>1, <2>2
<1>10. f = disk[s] \/ f.peers = DOMAIN after.peers  BY SavedPeers
<1> HIDE DEF after, v, f
<1>11. says # None => <<"vote", s, after.leader_epoch, says>> \in hist'  BY <1>9 DEF Honest, Told
<1>12. Honest(hist', m.from, asker) /\ DOMAIN asker.peers = DOMAIN sen[m.from].peers
  <2> HIDE DEF says, s
  <2> QED  BY <1>3, <1>8, <1>11, ReplyHonest
<1> HIDE DEF asker
<1>13. Honest(hist', m.from, from) /\ DOMAIN from.peers = DOMAIN sen[m.from].peers  BY <1>8, <1>12
<1> HIDE DEF from, s
<1>14. \A t \in Sentinels : sen'[t] = IF t = m.from THEN from ELSE IF t = s THEN after ELSE sen[t]
  BY <1>2, <1>4, <1>5
<1>15. \A t \in Sentinels : disk'[t] = IF t = s THEN f ELSE disk[t]  BY <1>2, <1>4, <1>5
<1>16. ASSUME NEW t \in Sentinels  PROVE Honest(hist', t, sen'[t]) /\ KeepsPeers(t)
  <2>1. CASE t = m.from
    <3>1. sen'[t] = from /\ disk'[t] = disk[t]  BY <1>2, <1>14, <1>15, <2>1
    <3> QED  BY <1>13, <2>1, <3>1 DEF KeepsPeers
  <2>2. CASE t = s
    <3>1. sen'[t] = after /\ disk'[t] = f  BY <1>2, <1>14, <1>15, <2>2
    <3> QED  BY <1>9, <1>10, <2>2, <3>1 DEF KeepsPeers
  <2>3. CASE t # m.from /\ t # s
    <3>1. sen'[t] = sen[t] /\ disk'[t] = disk[t]  BY <1>14, <1>15, <2>3
    <3>2. Honest(hist, t, sen[t])  BY DEF VInv
    <3>3. Honest(hist', t, sen[t])  BY <1>7, <3>2, HonestMore
    <3> QED  BY <3>1, <3>3 DEF KeepsPeers
  <2> QED  BY <2>1, <2>2, <2>3
<1>17. \A x \in hist' \ hist : Chosen(hist', x)
  <2>1. \A x \in hist' \ hist : x[1] = "vote"  BY <1>5 DEF log
  <2> QED  BY <2>1 DEF Chosen
<1> QED  BY <1>6, <1>7, <1>16, <1>17, VotesStep

\* A question whether the master is down.
LEMMA AskIfDownVotes == ASSUME IInv, VInv, NEW s \in Sentinels, NEW p \in Sentinels, AskIfDown(s, p)  PROVE VInv'
<1> DEFINE r == sen[s]
           d == SaysDown(p, r.addr)
           q == sentinelReceiveIsMasterDownReply(r, p, d, None, 0)
<1>1. sen' = [sen EXCEPT ![s] = q] /\ disk' = disk /\ hist' = hist /\ UNCHANGED used  BY DEF AskIfDown
<1>2. r \in Records /\ Honest(hist, s, r)  BY StateOf DEF VInv
<1>3. Honest(hist, s, q) /\ DOMAIN q.peers = DOMAIN r.peers
  <2> DEFINE l == None
             e == 0
             x == sentinelReceiveIsMasterDownReply(r, p, d, l, e)
  <2>1. l # None => <<"vote", p, e, l>> \in hist  OBVIOUS
  <2> SUFFICES Honest(hist, s, x) /\ DOMAIN x.peers = DOMAIN r.peers  OBVIOUS
  <2> HIDE DEF d, r, l, e
  <2> QED  BY <1>2, <2>1, ReplyHonest
<1> HIDE DEF q
<1>4. sen = [t \in Sentinels |-> sen[t]]  BY DEF IInv, SentinelsOK
<1>5. \A t \in Sentinels : sen'[t] = IF t = s THEN q ELSE sen[t]  BY <1>1, <1>4
<1>6. \A t \in Sentinels : Honest(hist', t, sen'[t]) /\ KeepsPeers(t)  BY <1>1, <1>3, <1>5 DEF VInv, KeepsPeers
<1>7. Steady  BY <1>1, UsedSteady
<1> QED  BY <1>1, <1>6, <1>7, VotesStep

\* A hello, which may bring a sentinel that was not known.
LEMMA ProcessHelloVotes ==
    ASSUME IInv, VInv, NEW s \in Sentinels, NEW from \in Sentinels, sentinelProcessHelloMessage(s, from), IInv'
    PROVE  VInv'
<1> DEFINE r == sen[s]
           h == hellos[from]
           new == from \notin DOMAIN r.peers
           f == [p \in {from} |-> NewPeer]
           ps == IF new THEN Over(f, r.peers) ELSE r.peers
           e == Max({r.current_epoch, h.epoch})
           r1 == [r EXCEPT !.peers = ps, !.current_epoch = e]
           newer == h.config_epoch > r.config_epoch
           r2 == IF newer THEN [r1 EXCEPT !.config_epoch = h.config_epoch] ELSE r1
           switch == newer /\ h.addr # r.addr
           r3 == IF switch THEN sentinelResetMasterAndChangeAddress(r2, h.addr) ELSE r2
           file == IF switch THEN Saved(r3) ELSE IF new \/ h.epoch > r.current_epoch THEN Saved(r1) ELSE disk[s]
<1>1. /\ sen' = [sen EXCEPT ![s] = r3] /\ disk' = [disk EXCEPT ![s] = file]
      /\ UNCHANGED <<used, hist>> /\ from # s /\ h # None
  BY DEF sentinelProcessHelloMessage
<1>2. r \in Records /\ Honest(hist, s, r)  BY StateOf DEF VInv
<1>3. h.addr \in Instances /\ h.epoch \in Nat /\ h.config_epoch \in Nat  BY <1>1 DEF IInv, HellosOK, Hellos
<1>4. e \in Nat
  <2>1. r.current_epoch \in Nat  BY <1>2 DEF Records
  <2> HIDE DEF h, r
  <2> QED  BY <1>3, <2>1, MaxOfTwo
<1>5. ps \in PeerTables
  <2>1. r.peers \in PeerTables  BY <1>2 DEF Records
  <2>2. f \in [{from} -> Peer] /\ {from} \in SUBSET Sentinels  BY NewRecords
  <2> HIDE DEF f
  <2> QED  BY <2>1, <2>2, PeersJoin
<1>6. DOMAIN ps = DOMAIN r.peers \/ DOMAIN ps = DOMAIN r.peers \cup {from}  BY DEF Over
<1>7. \A p \in DOMAIN ps : Told(hist, p, ps[p])
  <2>1. \A p \in DOMAIN ps : ps[p] = NewPeer \/ (p \in DOMAIN r.peers /\ ps[p] = r.peers[p])  BY DEF Over
  <2>2. \A p : Told(hist, p, NewPeer)  BY DEF Told, NewPeer
  <2> HIDE DEF ps
  <2> QED  BY <1>2, <2>1, <2>2 DEF Honest
<1> HIDE DEF ps, e, f, new
<1>8. r1 \in Records /\ r1.peers = ps /\ r1.leader = r.leader /\ r1.leader_epoch = r.leader_epoch
  BY <1>2, <1>4, <1>5 DEF Records
<1> HIDE DEF r1
<1>9. Honest(hist, s, r1)  BY <1>2, <1>7, <1>8 DEF Honest, Told
<1>10. r2 \in Records /\ Same(r1, r2)
  <2> DEFINE q == [r1 EXCEPT !.config_epoch = h.config_epoch]
  <2>1. q \in Records /\ Same(r1, q)  BY <1>3, <1>8 DEF Records, Same
  <2>2. Same(r1, r1)  BY DEF Same
  <2> HIDE DEF q
  <2>3. r2 = q \/ r2 = r1  BY DEF q
  <2> QED  BY <1>8, <2>1, <2>2, <2>3
<1> HIDE DEF r2
<1>11. Near(r1, r3)
  <2>1. Near(r1, r2) /\ Near(r2, sentinelResetMasterAndChangeAddress(r2, h.addr))  BY <1>10, SameNear, ChangeAddressNear
  <2> QED  BY <2>1, NearTrans
<1> HIDE DEF r3, switch
<1>12. Honest(hist, s, r3) /\ DOMAIN r3.peers = DOMAIN ps  BY <1>8, <1>9, <1>11, HonestNear DEF Near
<1>13. file = disk[s] \/ file.peers = DOMAIN r3.peers  BY <1>8, <1>12, SavedPeers
<1> HIDE DEF file
<1>14. sen = [t \in Sentinels |-> sen[t]] /\ disk = [t \in Sentinels |-> disk[t]]  BY DEF IInv, SentinelsOK, FilesOK
<1>15. \A t \in Sentinels : sen'[t] = IF t = s THEN r3 ELSE sen[t]  BY <1>1, <1>14
<1>16. \A t \in Sentinels : disk'[t] = IF t = s THEN file ELSE disk[t]  BY <1>1, <1>14
<1>17. ASSUME NEW t \in Sentinels  PROVE Honest(hist', t, sen'[t])
  <2>1. Honest(hist, t, sen[t])  BY DEF VInv
  <2>2. CASE t = s  BY <1>1, <1>12, <1>15, <2>2
  <2>3. CASE t # s  BY <1>1, <1>15, <2>1, <2>3
  <2> QED  BY <2>2, <2>3
<1>18. ASSUME NoReset, NEW t \in Sentinels  PROVE KeepsPeers(t)
  <2>1. CASE t = s
    <3>1. sen'[t] = r3 /\ disk'[t] = file  BY <1>15, <1>16, <2>1
    <3>2. DOMAIN r.peers = Sentinels \ {s}  BY <1>18 DEF VInv, Complete
    <3>3. DOMAIN r3.peers = DOMAIN r.peers  BY <1>1, <1>6, <1>12, <3>2
    <3> QED  BY <1>13, <2>1, <3>1, <3>3 DEF KeepsPeers
  <2>2. CASE t # s
    <3>1. sen'[t] = sen[t] /\ disk'[t] = disk[t]  BY <1>15, <1>16, <2>2
    <3> QED  BY <3>1 DEF KeepsPeers
  <2> QED  BY <2>1, <2>2
<1>19. Steady /\ hist' = hist  BY <1>1, UsedSteady
<1> QED  BY <1>17, <1>18, <1>19, VotesStep

\* INFO of the master.
LEMMA MasterInfoVotes == ASSUME IInv, VInv, NEW s \in Sentinels, MasterInfo(s)  PROVE VInv'
<1> DEFINE r == sen[s]
           found == {i \in up : inst[i] = r.addr} \ (DOMAIN r.slaves \cup {r.addr})
           t == Over([i \in found |-> NewSlave], r.slaves)
           role == Role(r.addr)
           q == [r EXCEPT !.role = role, !.slaves = t]
           file == IF found # {} THEN Saved(q) ELSE disk[s]
<1>1. sen' = [sen EXCEPT ![s] = q] /\ disk' = [disk EXCEPT ![s] = file] /\ UNCHANGED <<used, hist>>
  BY DEF MasterInfo
<1>2. r \in Records  BY StateOf
<1> HIDE DEF t, role
<1>3. Same(r, q)  BY <1>2 DEF Records, Same
<1>4. file = disk[s] \/ file.peers = DOMAIN q.peers  BY SavedPeers
<1> HIDE DEF q, file
<1>5. Near(r, q) /\ Steady  BY <1>1, <1>3, SameNear, UsedSteady
<1> QED  BY <1>1, <1>4, <1>5, OneNear

\* INFO of a slave.
LEMMA SlaveInfoVotes ==
    ASSUME IInv, VInv, NEW s \in Sentinels, NEW i \in Instances, NEW late \in BOOLEAN, NEW linkup \in BOOLEAN,
           SlaveInfo(s, i, late, linkup)
    PROVE  VInv'
<1> DEFINE r == sen[s]
           role == Role(i)
           old == r.slaves[i]
           host == IF role = "slave" THEN inst[i] ELSE old.host
           sl == [old EXCEPT !.role = role, !.host = host]
           t1 == [r.slaves EXCEPT ![i] = sl]
           r1 == [r EXCEPT !.slaves = t1]
           promoted == role = "master" /\ i = r.promoted_slave /\ r.failover_state = WAIT_PROMOTION
           t2 == [r.slaves EXCEPT ![i] = [sl EXCEPT !.reconf = Reconf(r, sl, linkup)]]
           asked == [r EXCEPT !.slaves = t2]
           won == [r1 EXCEPT !.config_epoch = r.failover_epoch, !.failover_state = RECONF_SLAVES]
           r2 == IF promoted THEN won ELSE IF role = "slave" THEN asked ELSE r1
           file == IF promoted THEN Saved(r2) ELSE disk[s]
<1>1. /\ IF r.tilt THEN sen' = [sen EXCEPT ![s] = r1] /\ UNCHANGED disk
         ELSE sen' = [sen EXCEPT ![s] = r2] /\ disk' = [disk EXCEPT ![s] = file]
      /\ UNCHANGED <<used, hist>>
  BY DEF SlaveInfo
<1>2. r \in Records  BY StateOf
<1> HIDE DEF t1, t2
<1>3. Same(r, r1) /\ Same(r, asked) /\ Same(r, won)  BY <1>2 DEF Records, Same
<1> HIDE DEF r1, asked, won, promoted, role
<1>4. Same(r, r2)  BY <1>3
<1>5. file = disk[s] \/ file.peers = DOMAIN r2.peers  BY SavedPeers
<1> HIDE DEF r2, file
<1>6. Near(r, r1) /\ Near(r, r2) /\ Steady  BY <1>1, <1>3, <1>4, SameNear, UsedSteady
<1>7. CASE r.tilt
  <2>1. sen' = [sen EXCEPT ![s] = r1] /\ disk' = disk /\ hist' = hist  BY <1>1, <1>7
  <2> QED  BY <1>6, <2>1, OneNearMemory
<1>8. CASE ~r.tilt
  <2>1. sen' = [sen EXCEPT ![s] = r2] /\ disk' = [disk EXCEPT ![s] = file] /\ hist' = hist  BY <1>1, <1>8
  <2> QED  BY <1>5, <1>6, <2>1, OneNear
<1> QED  BY <1>7, <1>8

\* The end of a delay and the tilt mode.
LEMMA FlagVotes == ASSUME IInv, VInv, NEW s \in Sentinels, DelayOver(s) \/ Tilt(s)  PROVE VInv'
<1> DEFINE r == sen[s]
           q1 == [r EXCEPT !.delayed = FALSE, !.behind = {}]
           q2 == [r EXCEPT !.tilt = TRUE]
<1>1. r \in Records  BY StateOf
<1>2. Same(r, q1) /\ Same(r, q2)  BY <1>1 DEF Records, Same
<1>3. \/ sen' = [sen EXCEPT ![s] = q1] /\ disk' = disk /\ hist' = hist /\ UNCHANGED used
      \/ sen' = [sen EXCEPT ![s] = q2] /\ disk' = disk /\ hist' = hist /\ Spend("tilt")
  BY DEF DelayOver, Tilt
<1> HIDE DEF q1, q2
<1>4. "tilt" \in Events /\ "tilt" # "reset"  BY DEF Events
<1>5. Steady  BY <1>3, <1>4, SpendSteady, UsedSteady
<1>6. Near(r, q1) /\ Near(r, q2)  BY <1>2, SameNear
<1> QED  BY <1>3, <1>5, <1>6, OneNearMemory

\* SENTINEL FAILOVER.
LEMMA SentinelFailoverVotes == ASSUME IInv, VInv, NEW s \in Sentinels, SentinelFailover(s)  PROVE VInv'
<1> DEFINE r == sen[s]
           e == r.current_epoch + 1
           r1 == [r EXCEPT !.failover_state = WAIT_START, !.current_epoch = e, !.failover_epoch = e,
                           !.delayed = TRUE, !.behind = Open]
           q == [r1 EXCEPT !.force = TRUE]
<1>1. sen' = [sen EXCEPT ![s] = [sentinelStartFailover(s, r) EXCEPT !.force = TRUE]] /\ disk' = disk /\ hist' = hist
      /\ Spend("forced")
  BY DEF SentinelFailover
<1>2. sentinelStartFailover(s, r) = r1  BY DEF sentinelStartFailover
<1>3. r \in Records  BY StateOf
<1> HIDE DEF e
<1>4. Same(r, q)  BY <1>3 DEF Records, Same
<1>5. sen' = [sen EXCEPT ![s] = q]  BY <1>1, <1>2
<1> HIDE DEF q
<1>6. "forced" \in Events /\ "forced" # "reset"  BY DEF Events
<1>7. Steady /\ Near(r, q)  BY <1>1, <1>4, <1>6, SpendSteady, SameNear
<1> QED  BY <1>1, <1>5, <1>7, OneNearMemory

\* SENTINEL RESET forgets the others: from then on nothing is said of majorities.
LEMMA SentinelResetVotes == ASSUME IInv, VInv, NEW s \in Sentinels, SentinelReset(s)  PROVE VInv'
<1> DEFINE q == sentinelResetMaster(sen[s], <<>>, <<>>)
<1>1. sen' = [sen EXCEPT ![s] = q] /\ hist' = hist /\ Spend("reset")  BY DEF SentinelReset
<1>2. sen[s] \in Records  BY StateOf
<1>3. q.peers = <<>> /\ q.leader = None  BY <1>2 DEF Records, sentinelResetMaster
<1> HIDE DEF q
<1>4. Honest(hist, s, q)  BY <1>3 DEF Honest, Told
<1>5. sen = [t \in Sentinels |-> sen[t]]  BY DEF IInv, SentinelsOK
<1>6. \A t \in Sentinels : sen'[t] = IF t = s THEN q ELSE sen[t]  BY <1>1, <1>5
<1>7. \A t \in Sentinels : Honest(hist', t, sen'[t])  BY <1>1, <1>4, <1>6 DEF VInv
<1>8. DOMAIN used' = Events /\ used'["reset"] \in Nat /\ ~NoReset'
  <2>1. "reset" \in Events  BY DEF Events
  <2>2. used' = [used EXCEPT !["reset"] = @ + 1]  BY <1>1 DEF Spend
  <2>3. DOMAIN used' = Events /\ used'["reset"] = used["reset"] + 1  BY <2>1, <2>2 DEF VInv
  <2> QED  BY <2>3 DEF VInv, NoReset
<1> QED  BY <1>7, <1>8 DEF VInv

\* A sentinel that restarts knows of no votes, and of the others what its file says.
LEMMA RestartVotes == ASSUME IInv, VInv, NEW s \in Sentinels, Restart(s)  PROVE VInv'
<1> DEFINE q == Loaded(disk[s])
<1>1. sen' = [sen EXCEPT ![s] = q] /\ disk' = disk /\ hist' = hist /\ Spend("crash")  BY DEF Restart
<1>2. q.peers = [p \in disk[s].peers |-> NewPeer] /\ q.leader = None  BY DEF Loaded
<1> HIDE DEF q
<1>3. Honest(hist, s, q) /\ DOMAIN q.peers = disk[s].peers  BY <1>2 DEF Honest, Told, NewPeer
<1>4. sen = [t \in Sentinels |-> sen[t]]  BY DEF IInv, SentinelsOK
<1>5. \A t \in Sentinels : sen'[t] = IF t = s THEN q ELSE sen[t]  BY <1>1, <1>4
<1>6. \A t \in Sentinels : Honest(hist', t, sen'[t])  BY <1>1, <1>3, <1>5 DEF VInv
<1>7. ASSUME NoReset, NEW t \in Sentinels  PROVE KeepsPeers(t)
  <2>1. Complete(t, disk[t].peers)  BY <1>7 DEF VInv
  <2> QED  BY <1>1, <1>3, <1>5, <2>1 DEF KeepsPeers
<1>8. "crash" \in Events /\ "crash" # "reset"  BY DEF Events
<1>9. Steady  BY <1>1, <1>8, SpendSteady
<1> QED  BY <1>1, <1>6, <1>7, <1>9, VotesStep

\* Steps outside of the sentinels.
LEMMA OutsideVotes ==
    ASSUME VInv, UNCHANGED <<sen, disk, hist>>,
           UNCHANGED used \/ \E e \in Events \ {"reset"} : Spend(e)
    PROVE  VInv'
BY NoneVotes, SpendSteady, UsedSteady

\* Next keeps what is known of votes true.
LEMMA NextVotes == ASSUME IInv, IInv', VInv, Next  PROVE VInv'
<1>0. {"lose", "down", "back", "cut"} \subseteq Events \ {"reset"}  BY DEF Events
<1>1. ASSUME NEW s \in Sentinels, sentinelTimer(s)  PROVE VInv'  BY <1>1, TimerVotes
<1>2. ASSUME NEW s \in Sentinels, DelayOver(s) \/ Tilt(s)  PROVE VInv'  BY <1>2, FlagVotes
<1>3. ASSUME NEW s \in Sentinels, sentinelSendHello(s)  PROVE VInv'  BY <1>3, OutsideVotes DEF sentinelSendHello
<1>4. ASSUME NEW s \in Sentinels, NEW t \in Sentinels, sentinelProcessHelloMessage(s, t)  PROVE VInv'
  BY <1>4, ProcessHelloVotes
<1>5. ASSUME NEW s \in Sentinels, NEW p \in Sentinels, AskIfDown(s, p)  PROVE VInv'  BY <1>5, AskIfDownVotes
<1>6. ASSUME NEW s \in Sentinels, MasterInfo(s)  PROVE VInv'  BY <1>6, MasterInfoVotes
<1>7. ASSUME NEW s \in Sentinels, NEW i \in Instances, NEW late \in BOOLEAN, NEW linkup \in BOOLEAN, SlaveInfo(s, i, late, linkup)
      PROVE VInv'
  BY <1>7, SlaveInfoVotes
<1>8. ASSUME NEW s \in Sentinels, SentinelFailover(s)  PROVE VInv'  BY <1>8, SentinelFailoverVotes
<1>9. ASSUME NEW s \in Sentinels, SentinelReset(s)  PROVE VInv'  BY <1>9, SentinelResetVotes
<1>10. ASSUME NEW s \in Sentinels, Restart(s)  PROVE VInv'  BY <1>10, RestartVotes
<1>11. ASSUME NEW s \in Sentinels, NEW i \in Instances, Cut(s, i) \/ Heal(s, i)  PROVE VInv'
  BY <1>0, <1>11, OutsideVotes DEF Cut, Heal
<1>12. ASSUME NEW m \in net, Lose(m)  PROVE VInv'  BY <1>0, <1>12, OutsideVotes DEF Lose
<1>13. ASSUME NEW m \in net, NEW lost \in BOOLEAN, IsMasterDownByAddr(m, lost)  PROVE VInv'  BY <1>13, IsMasterDownVotes
<1>14. ASSUME NEW i \in setup.slaves \cup {setup.master}, Down(i) \/ Back(i)  PROVE VInv'
  BY <1>0, <1>14, OutsideVotes DEF Down, Back
<1> QED  BY <1>1, <1>2, <1>3, <1>4, <1>5, <1>6, <1>7, <1>8, <1>9, <1>10, <1>11, <1>12, <1>13, <1>14 DEF Next

\* At the start nobody has voted and everyone knows everyone.
LEMMA InitVotes == Init => VInv
<1> SUFFICES ASSUME Init  PROVE VInv  OBVIOUS
<1>1. sen = [s \in Sentinels |-> Start(s)] /\ disk = [s \in Sentinels |-> Saved(Start(s))] /\ hist = {}
      /\ used = [e \in Events |-> 0] /\ setup \in Setups
  BY DEF Init
<1>2. ASSUME NEW s \in Sentinels  PROVE Honest({}, s, Start(s)) /\ DOMAIN Start(s).peers = Sentinels \ {s}
  <2> DEFINE r == Loaded([current_epoch |-> 0, addr |-> setup.master, config_epoch |-> 0,
                          leader_epoch |-> 0, slaves |-> setup.slaves, peers |-> Sentinels \ {s}])
             t == [i \in setup.slaves |-> [NewSlave EXCEPT !.role = "slave", !.host = setup.master]]
             p == [x \in DOMAIN r.peers |-> [NewPeer EXCEPT !.down = setup.agreed]]
             q == [r EXCEPT !.slaves = t, !.sdown = setup.agreed, !.odown = setup.agreed, !.peers = p]
  <2>1. Start(s) = q  BY DEF Start
  <2>2. DOMAIN r.peers = Sentinels \ {s} /\ r.leader = None /\ "peers" \in DOMAIN r /\ "leader" \in DOMAIN r  BY DEF Loaded
  <2>3. [NewPeer EXCEPT !.down = setup.agreed].leader = None  BY DEF NewPeer
  <2>4. DOMAIN p = Sentinels \ {s} /\ \A x \in DOMAIN p : p[x].leader = None  BY <2>2, <2>3
  <2> HIDE DEF t, p, r
  <2>5. q.peers = p /\ q.leader = None  BY <2>2
  <2> HIDE DEF q
  <2> QED  BY <2>1, <2>4, <2>5 DEF Honest, Told
<1>3. "reset" \in Events  BY DEF Events
<1>4. DOMAIN used = Events /\ used["reset"] \in Nat  BY <1>1, <1>3
<1>5. ASSUME NEW s \in Sentinels  PROVE Complete(s, DOMAIN sen[s].peers) /\ Complete(s, disk[s].peers) /\ Honest(hist, s, sen[s])
  <2>1. sen[s] = Start(s) /\ disk[s] = Saved(Start(s))  BY <1>1
  <2> QED  BY <1>1, <1>2, <2>1, SavedPeers DEF Complete
<1> QED  BY <1>1, <1>4, <1>5 DEF VInv

\* Every leader was elected by votes of the epoch of its own failover.  An epoch that others
\* raise in the meantime makes it count votes of that one (sentinel.c:3683).
OwnEpochs == \A v \in hist : v[1] = "leader" => v[3] = v[4]

\* Two majorities of the same epoch have a sentinel in common, and it has voted once.
LEMMA MajoritiesMeet == ASSUME IInv, VInv, NoReset, OwnEpochs  PROVE OneLeaderPerEpoch
<1> SUFFICES ASSUME NEW v \in hist, NEW w \in hist, v[1] = "leader", w[1] = "leader", v[3] = w[3]  PROVE v[2] = w[2]
  BY DEF OneLeaderPerEpoch
<1>1. Majority(hist, v) /\ Majority(hist, w)  BY DEF VInv, OwnEpochs, Chosen
<1>2. PICK V \in SUBSET Sentinels : /\ Cardinality(V) + Cardinality(V) > Cardinality(Sentinels)
                                    /\ \A p \in V : <<"vote", p, v[3], v[2]>> \in hist
  BY <1>1 DEF Majority
<1>3. PICK W \in SUBSET Sentinels : /\ Cardinality(W) + Cardinality(W) > Cardinality(Sentinels)
                                    /\ \A p \in W : <<"vote", p, w[3], w[2]>> \in hist
  BY <1>1 DEF Majority
<1>4. IsFiniteSet(Sentinels)  BY SentinelAssumption
<1>5. Cardinality(V) \in Nat /\ Cardinality(W) \in Nat /\ Cardinality(Sentinels) \in Nat
  BY <1>4, FS_Subset, FS_CardinalityType
<1>6. Cardinality(V) + Cardinality(W) > Cardinality(Sentinels)  BY <1>2, <1>3, <1>5
<1>7. V \cap W # {}  BY <1>4, <1>6, FS_MajoritiesIntersect
<1>8. PICK p \in V : p \in W  BY <1>7
<1>9. <<"vote", p, v[3], v[2]>> \in hist /\ <<"vote", p, v[3], w[2]>> \in hist  BY <1>2, <1>3, <1>8
<1> QED  BY <1>9 DEF IInv, VotesOnce

\* At most one sentinel is elected for an epoch, whatever requests and replies are lost or late
\* and whoever restarts: sentinelGetLeader() wants a majority of the sentinels it knows, votes
\* that are counted were given, and VotesOnce.  SENTINEL RESET makes a sentinel know fewer, and
\* without OwnEpochs votes of another epoch are counted: then two are possible.
THEOREM OneLeader == Spec => [](NoReset /\ OwnEpochs => OneLeaderPerEpoch)
<1>1. IInv /\ VInv /\ [Next]_vars /\ IInv' => VInv'
  <2> SUFFICES ASSUME IInv, VInv, [Next]_vars, IInv'  PROVE VInv'  OBVIOUS
  <2>1. CASE Next  BY <2>1, NextVotes
  <2>2. CASE UNCHANGED vars  BY <2>2, OutsideVotes DEF vars
  <2> QED  BY <2>1, <2>2
<1>2. IInv /\ VInv => (NoReset /\ OwnEpochs => OneLeaderPerEpoch)  BY MajoritiesMeet
<1> QED  BY <1>1, <1>2, InitVotes, Invariant, PTL DEF Spec
=============================================================================
