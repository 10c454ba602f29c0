--------------------------- MODULE ClusterProofs ---------------------------
(***************************************************************************)
(* The cluster bus, for any number of nodes and slots, with crashes and    *)
(* restarts, lost links, stale gossip and forced failovers:                *)
(*                                                                         *)
(*  - AssertionsHold: types, and the assertions of clusterSetMaster().     *)
(*  - FailuresCorrect: a flag FAIL rests on a majority that found the node *)
(*    unreachable.                                                         *)
(*  - ElectionsCorrect: who wins an election has a majority of the votes   *)
(*    of its epoch, and nobody else wins in that epoch.                    *)
(*                                                                         *)
(* The argument goes in two stages.  First every handler of cluster.c is   *)
(* described by what it leaves alone: Step (no part in an election, flags  *)
(* stay founded), Move (the same when the packet read is founded) or one   *)
(* of the few steps of an election (Asks, Wins, VotesFor, Counts).  NextIs *)
(* collects these: a step of the system is an event of a running node      *)
(* (Does), the passing of time (Ticks), a crash (Dies) or a restart        *)
(* (Returns).  Then the three invariants are proved over these four kinds  *)
(* of step only: TInv (types and sanity), FInv (flags kept, saved or in    *)
(* flight are founded) and EInv (votes noted, in flight and counted agree).*)
(***************************************************************************)
EXTENDS Cluster, FiniteSetTheorems, SequenceTheorems, WellFoundedInduction, TLAPS

-----------------------------------------------------------------------------
\* Types: N are the nodes, S the slots.

\* What a node thinks of another one.
Flags == {"ok", "pfail", "fail"}
\* What is left for clusterBeforeSleep.
Todos == {"save", "state", "failover"}

\* The channels that exist, and those that node n sends on.
Chans(N) == {c \in N \X N \X {"own", "reply"} : c[1] # c[2]}
\* The channels that node n sends on.
From(N, n) == {c \in Chans(N) : c[1] = n}

\* The packets that node n sends.
Packet(N, S, n, types, D) ==
    [type: types, sender: {n}, myslots: SUBSET S, slaveof: N \cup {None},
     currentEpoch: Nat, configEpoch: Nat, offset: Nat, paused: BOOLEAN, data: D]
\* What an UPDATE says: node about serves slots since epoch.
Claims(N, S) == [about: N, epoch: Nat, slots: SUBSET S]
\* The packets that node n sends, of all types.
Packets(N, S, n) ==
    Packet(N, S, n, {"ping", "pong"}, [N \ {n} -> Flags])
    \cup Packet(N, S, n, {"fail"}, N) \cup Packet(N, S, n, {"update"}, Claims(N, S))
    \cup Packet(N, S, n, {"auth_request"}, BOOLEAN) \cup Packet(N, S, n, {"auth_ack"}, {None})
    \cup Packet(N, S, n, {"mfstart"}, Nat)

\* Messages on some of the channels C.
Queues(C, P) == UNION {[D -> Seq(P) \ {<<>>}] : D \in SUBSET C}

\* What is noted for the history.
Notes(N) == (N \X {"vote"} \X Nat \X N) \cup (N \X {"won"} \X Nat) \cup (N \X {"suspect", "assert"} \X N)

\* The record that a handler of node n works on.
Working(N, S, n) ==
    [me: {n}, up: BOOLEAN, currentEpoch: Nat, lastVoteEpoch: Nat,
     known: [N -> Peer(N)], slots: [S -> N \cup {None}],
     size: Nat, state: {"ok", "fail"}, booting: BOOLEAN, minority: BOOLEAN,
     auth: Phases, auth_sent: BOOLEAN, auth_epoch: Nat, auth_count: Nat,
     mf_end: BOOLEAN, mf_can_start: BOOLEAN, mf_slave: N \cup {None},
     mf_master_offset: Nat, mf_id: Nat, paused: BOOLEAN, offset: Nat,
     out: Queues(From(N, n), Packets(N, S, n)), todo: SUBSET Todos, log: SUBSET Notes(N)]

\* What a node believes is consistent: a slave has a master, which is another node, and
\* serves no slot.
Roles(N, known) == \A m \in N : known[m].slave <=> known[m].slaveof # None
\* Node n believes so of every node, and serves no slot when it is a slave.
Sane(N, S, s, n) ==
    /\ Roles(N, s.known) /\ s.known[n].slaveof # n
    /\ s.known[n].slave => \A x \in S : s.slots[x] # n

-----------------------------------------------------------------------------
\* What the flags of nodes rest on.

\* The nodes that once found m unreachable.
Suspecters(N, h, m) == {a \in N : <<a, "suspect", m>> \in h}
\* A majority of the masters with slots can have found m unreachable.
Down(N, S, h, m) == Cardinality(Suspecters(N, h, m)) >= Cardinality(S) \div 2 + 1

\* Node n has reason to flag m.
Founded(N, S, h, n, m, flag) ==
    /\ flag = "pfail" => <<n, "suspect", m>> \in h
    /\ flag = "fail" => Down(N, S, h, m)

\* So has it for every node, and the failure reports it holds about a node come from others
\* that found it unreachable, until so many have that the node is down.
FlagsOK(N, S, h, known, n) ==
    \A m \in N :
       /\ Founded(N, S, h, n, m, known[m].flag)
       /\ n \notin known[m].reports
       /\ Down(N, S, h, m) \/ known[m].reports \subseteq Suspecters(N, h, m)

\* What packet p says of failing nodes has a reason.
Told(N, S, h, p) ==
    /\ p.type \in {"ping", "pong"} => \A m \in N \ {p.sender} : Founded(N, S, h, p.sender, m, p.data[m])
    /\ p.type = "fail" => Down(N, S, h, p.data)

\* Every message on the channels is so.
AllTold(N, S, h, q) == \A c \in DOMAIN q : \A i \in DOMAIN q[c] : Told(N, S, h, q[c][i])

-----------------------------------------------------------------------------
\* What the handlers do.

\* The packets of an election.
VoteTypes == {"auth_request", "auth_ack"}

\* No message on the channels is about votes.
Plain(q) == \A c \in DOMAIN q : \A i \in DOMAIN q[c] : q[c][i].type \notin VoteTypes

\* s is what a handler of node n may work on.
OK(s, n) ==
    /\ setup \in Setups /\ n \in Nodes
    /\ s \in Working(Nodes, Slots, n) /\ Sane(Nodes, Slots, s, n)

\* The flags node n keeps, and those it is about to send, are founded.
Reasoned(h, s, n) == FlagsOK(Nodes, Slots, h, s.known, n) /\ AllTold(Nodes, Slots, h, s.out)

\* A handler leaves elections alone: from s to t.
Calm(s, t) ==
    /\ t.up = s.up /\ t.auth = s.auth /\ t.auth_sent = s.auth_sent
    /\ t.auth_epoch = s.auth_epoch /\ t.auth_count = s.auth_count
    /\ t.lastVoteEpoch = s.lastVoteEpoch /\ t.currentEpoch >= s.currentEpoch
    /\ t.log = s.log /\ (Plain(s.out) => Plain(t.out))
    /\ "failover" \in t.todo => "failover" \in s.todo

\* A handler that takes no part in an election, and keeps the flags founded.
Step(h, s, t, n) == OK(t, n) /\ Calm(s, t) /\ (Reasoned(h, s, n) => Reasoned(h, t, n))

\* Handlers in a row.
LEMMA StepTrans ==
    ASSUME NEW h, NEW s, NEW t, NEW r, NEW n, OK(s, n), Step(h, s, t, n), Step(h, t, r, n)
    PROVE  Step(h, s, r, n)
<1>1. s.currentEpoch \in Nat /\ t.currentEpoch \in Nat /\ r.currentEpoch \in Nat
  BY DEF Step, OK, Working
<1> QED  BY <1>1 DEF Step, Calm

\* Nothing happens.
LEMMA StepRefl == ASSUME NEW h, NEW s, NEW n, OK(s, n)  PROVE  Step(h, s, s, n)
<1>1. s.currentEpoch \in Nat
  BY DEF OK, Working
<1> QED  BY <1>1 DEF Step, Calm

\* Facts about a situation.
LEMMA Setting ==
    ASSUME setup \in Setups
    PROVE  /\ Nodes \subseteq Nat /\ None \notin Nodes /\ IsFiniteSet(Nodes)
           /\ Slots \subseteq Nat /\ IsFiniteSet(Slots)
BY ClusterAssumption DEF IsSetup, Nodes, Slots

\* A change of fields that the properties do not look at.
LEMMA StepFields ==
    ASSUME NEW h, NEW s, NEW t, NEW n, OK(s, n), t \in Working(Nodes, Slots, n),
           t.up = s.up, t.auth = s.auth, t.auth_sent = s.auth_sent, t.auth_epoch = s.auth_epoch,
           t.auth_count = s.auth_count, t.lastVoteEpoch = s.lastVoteEpoch,
           t.currentEpoch >= s.currentEpoch, t.log = s.log, t.out = s.out,
           t.known = s.known, t.slots = s.slots, "failover" \in t.todo => "failover" \in s.todo
    PROVE  Step(h, s, t, n)
BY DEF Step, Calm, OK, Sane, Reasoned

\* clusterDoBeforeSleep().
LEMMA TodoStep ==
    ASSUME NEW h, NEW s, NEW n, OK(s, n), NEW f \in SUBSET {"save", "state"}
    PROVE  /\ Step(h, s, Todo(s, f), n) /\ Todo(s, f).size = s.size
           /\ Todo(s, f).known = s.known /\ Todo(s, f).slots = s.slots /\ Todo(s, f).out = s.out
<1> DEFINE t == Todo(s, f)
<1>1. t = [s EXCEPT !.todo = s.todo \cup f]
  BY DEF Todo
<1>2. s \in Working(Nodes, Slots, n) /\ s.todo \cup f \in SUBSET Todos
  BY DEF OK, Working, Todos
<1>3. t \in Working(Nodes, Slots, n)
  BY <1>1, <1>2 DEF Working
<1>4. /\ t.up = s.up /\ t.auth = s.auth /\ t.auth_sent = s.auth_sent /\ t.auth_epoch = s.auth_epoch
      /\ t.auth_count = s.auth_count /\ t.lastVoteEpoch = s.lastVoteEpoch /\ t.currentEpoch = s.currentEpoch
      /\ t.log = s.log /\ t.out = s.out /\ t.known = s.known /\ t.slots = s.slots /\ t.size = s.size /\ t.todo = s.todo \cup f
  BY <1>1, <1>2 DEF Working
<1>5. s.currentEpoch \in Nat
  BY <1>2 DEF Working
<1> HIDE DEF t
<1>6. t.currentEpoch >= s.currentEpoch /\ ("failover" \in t.todo => "failover" \in s.todo)
  BY <1>4, <1>5
<1> QED  BY <1>3, <1>4, <1>6, StepFields DEF t

\* What a node keeps when only its table of nodes changes.
SameBut(s, t) ==
    /\ t.me = s.me /\ t.up = s.up /\ t.auth = s.auth /\ t.auth_sent = s.auth_sent
    /\ t.auth_epoch = s.auth_epoch /\ t.auth_count = s.auth_count
    /\ t.lastVoteEpoch = s.lastVoteEpoch /\ t.currentEpoch = s.currentEpoch
    /\ t.log = s.log /\ t.size = s.size /\ t.state = s.state /\ t.booting = s.booting
    /\ t.mf_end = s.mf_end /\ t.mf_can_start = s.mf_can_start /\ t.offset = s.offset
    /\ t.mf_master_offset = s.mf_master_offset /\ t.mf_slave = s.mf_slave /\ t.mf_id = s.mf_id
    /\ t.todo = s.todo

\* Elections are left alone when these fields stay.
LEMMA CalmSame ==
    ASSUME NEW s, NEW t, SameBut(s, t), s.currentEpoch \in Nat, Plain(s.out) => Plain(t.out)
    PROVE  Calm(s, t)
BY DEF SameBut, Calm

\* The table of nodes is replaced.
LEMMA KnownIs ==
    ASSUME NEW s, NEW n, s \in Working(Nodes, Slots, n), NEW k \in [Nodes -> Peer(Nodes)]
    PROVE  LET t == [s EXCEPT !.known = k]
           IN  /\ t \in Working(Nodes, Slots, n) /\ SameBut(s, t)
               /\ t.known = k /\ t.slots = s.slots /\ t.out = s.out /\ t.todo = s.todo
BY DEF Working, SameBut

\* An entry of it is.
LEMMA PeerIs ==
    ASSUME NEW s, NEW n, s \in Working(Nodes, Slots, n), NEW m \in Nodes, NEW p \in Peer(Nodes)
    PROVE  LET t == SetPeer(s, m, p)
           IN  /\ t \in Working(Nodes, Slots, n) /\ SameBut(s, t)
               /\ t.known \in [Nodes -> Peer(Nodes)] /\ t.known[m] = p
               /\ \A x \in Nodes : x # m => t.known[x] = s.known[x]
               /\ t.slots = s.slots /\ t.out = s.out /\ t.todo = s.todo
<1> DEFINE k == [s.known EXCEPT ![m] = p]
<1>1. s.known \in [Nodes -> Peer(Nodes)]
  BY DEF Working
<1>2. k \in [Nodes -> Peer(Nodes)] /\ k[m] = p /\ \A x \in Nodes : x # m => k[x] = s.known[x]
  BY <1>1
<1>3. SetPeer(s, m, p) = [s EXCEPT !.known = k]
  BY DEF SetPeer
<1> HIDE DEF k
<1> QED  BY <1>2, <1>3, KnownIs

\* The tables of nodes and slots change without a new suspicion.
LEMMA TableStep ==
    ASSUME NEW h, NEW s, NEW t, NEW n, OK(s, n), t \in Working(Nodes, Slots, n), SameBut(s, t),
           t.out = s.out, Sane(Nodes, Slots, t, n),
           \A x \in Nodes : /\ t.known[x].flag \in {s.known[x].flag, "ok"}
                            /\ t.known[x].reports \subseteq s.known[x].reports
    PROVE  Step(h, s, t, n)
<1>1. s.currentEpoch \in Nat
  BY DEF OK, Working
<1>2. OK(t, n)
  BY DEF OK
<1>3. Calm(s, t)
  BY <1>1, CalmSame
<1>4. ASSUME Reasoned(h, s, n)  PROVE Reasoned(h, t, n)
  <2> SUFFICES ASSUME NEW x \in Nodes
               PROVE  /\ Founded(Nodes, Slots, h, n, x, t.known[x].flag)
                      /\ n \notin t.known[x].reports
                      /\ Down(Nodes, Slots, h, x) \/ t.known[x].reports \subseteq Suspecters(Nodes, h, x)
    BY <1>4 DEF Reasoned, FlagsOK
  <2>1. /\ Founded(Nodes, Slots, h, n, x, s.known[x].flag)
        /\ n \notin s.known[x].reports
        /\ Down(Nodes, Slots, h, x) \/ s.known[x].reports \subseteq Suspecters(Nodes, h, x)
    BY <1>4 DEF Reasoned, FlagsOK
  <2> QED  BY <2>1 DEF Founded
<1> QED  BY <1>2, <1>3, <1>4 DEF Step

\* The table of nodes does, without making this node a slave.
LEMMA KnownStep ==
    ASSUME NEW h, NEW s, NEW t, NEW n, OK(s, n), t \in Working(Nodes, Slots, n), SameBut(s, t),
           t.slots = s.slots, t.out = s.out, Roles(Nodes, t.known),
           t.known[n].slaveof # n, t.known[n].slave => s.known[n].slave,
           \A x \in Nodes : /\ t.known[x].flag \in {s.known[x].flag, "ok"}
                            /\ t.known[x].reports \subseteq s.known[x].reports
    PROVE  Step(h, s, t, n)
<1>1. Sane(Nodes, Slots, t, n)
  BY DEF OK, Sane
<1> QED  BY <1>1, TableStep

\* One entry does.
LEMMA PeerStep ==
    ASSUME NEW h, NEW s, NEW n, OK(s, n), NEW m \in Nodes, NEW p \in Peer(Nodes),
           p.slave <=> p.slaveof # None,
           m = n => p.slaveof # n /\ (p.slave => s.known[n].slave),
           p.flag \in {s.known[m].flag, "ok"}, p.reports \subseteq s.known[m].reports
    PROVE  Step(h, s, SetPeer(s, m, p), n) /\ SetPeer(s, m, p).size = s.size
<1> DEFINE t == SetPeer(s, m, p)
<1>1. s \in Working(Nodes, Slots, n) /\ Roles(Nodes, s.known) /\ s.known[n].slaveof # n /\ n \in Nodes
  BY DEF OK, Sane
<1>2. /\ t \in Working(Nodes, Slots, n) /\ SameBut(s, t)
      /\ t.known \in [Nodes -> Peer(Nodes)] /\ t.known[m] = p
      /\ \A x \in Nodes : x # m => t.known[x] = s.known[x]
      /\ t.slots = s.slots /\ t.out = s.out
  BY <1>1, PeerIs
<1> HIDE DEF t
<1>3. Roles(Nodes, t.known) /\ t.known[n].slaveof # n /\ (t.known[n].slave => s.known[n].slave)
  BY <1>1, <1>2 DEF Roles
<1>4. \A x \in Nodes : /\ t.known[x].flag \in {s.known[x].flag, "ok"}
                       /\ t.known[x].reports \subseteq s.known[x].reports
  BY <1>2
<1>5. t.size = s.size
  BY <1>2 DEF SameBut
<1> QED  BY <1>2, <1>3, <1>4, <1>5, KnownStep DEF t

\* Entry p for node m is no new suspicion, and does not make this node a slave.
Tame(s, n, m, p) ==
    /\ m \in Nodes /\ p \in Peer(Nodes) /\ (p.slave <=> p.slaveof # None)
    /\ m = n => p.slaveof # n /\ (p.slave => s.known[n].slave)
    /\ p.flag \in {s.known[m].flag, "ok"} /\ p.reports \subseteq s.known[m].reports

\* Such an entry is set.
LEMMA TameStep ==
    ASSUME NEW h, NEW s, NEW n, OK(s, n), NEW m, NEW p, Tame(s, n, m, p), NEW t, t = SetPeer(s, m, p)
    PROVE  Step(h, s, t, n)
<1>1. /\ m \in Nodes /\ p \in Peer(Nodes) /\ (p.slave <=> p.slaveof # None)
      /\ (m = n => p.slaveof # n /\ (p.slave => s.known[n].slave))
      /\ p.flag \in {s.known[m].flag, "ok"} /\ p.reports \subseteq s.known[m].reports
  BY DEF Tame
<1> QED  BY <1>1, PeerStep

\* What it changes.
LEMMA TameIs ==
    ASSUME NEW s, NEW n, OK(s, n), NEW m, NEW p, Tame(s, n, m, p), NEW t, t = SetPeer(s, m, p)
    PROVE  /\ SameBut(s, t) /\ t.slots = s.slots /\ t.out = s.out /\ t.known[m] = p
           /\ \A x \in Nodes : x # m => t.known[x] = s.known[x]
<1>1. s \in Working(Nodes, Slots, n) /\ m \in Nodes /\ p \in Peer(Nodes)
  BY DEF OK, Tame
<1> QED  BY <1>1, PeerIs

\* Fields of entries.
LEMMA PeerFields ==
    ASSUME NEW p \in Peer(Nodes)
    PROVE  /\ p.slave \in BOOLEAN /\ p.slaveof \in Nodes \cup {None} /\ p.configEpoch \in Nat
           /\ p.flag \in Flags /\ p.reports \subseteq Nodes
BY DEF Peer, Flags

\* Entries of the tables.
LEMMA OKFields ==
    ASSUME NEW s, NEW n, OK(s, n)
    PROVE  /\ n \in Nodes /\ s.me = n /\ s.known \in [Nodes -> Peer(Nodes)] /\ s.slots \in [Slots -> Nodes \cup {None}]
           /\ \A m \in Nodes : /\ s.known[m] \in Peer(Nodes) /\ s.known[m].slave \in BOOLEAN
                               /\ s.known[m].slaveof \in Nodes \cup {None} /\ s.known[m].configEpoch \in Nat
                               /\ s.known[m].slave <=> s.known[m].slaveof # None
                               /\ s.known[m].flag \in Flags /\ s.known[m].reports \subseteq Nodes
           /\ s.currentEpoch \in Nat /\ s.lastVoteEpoch \in Nat /\ s.offset \in Nat /\ s.size \in Nat
           /\ s.auth_epoch \in Nat /\ s.auth_count \in Nat /\ s.auth_sent \in BOOLEAN /\ s.auth \in Phases
           /\ s.mf_end \in BOOLEAN /\ s.mf_master_offset \in Nat /\ s.mf_id \in Nat
           /\ s.out \in Queues(From(Nodes, n), Packets(Nodes, Slots, n)) /\ s.todo \in SUBSET Todos
           /\ s.log \in SUBSET Notes(Nodes) /\ s.state \in {"ok", "fail"} /\ s.up \in BOOLEAN
           /\ s.booting \in BOOLEAN /\ s.minority \in BOOLEAN /\ s.paused \in BOOLEAN
           /\ s.mf_can_start \in BOOLEAN /\ s.mf_slave \in Nodes \cup {None}
           /\ s.known[n].slaveof # n /\ (s.known[n].slave => \A x \in Slots : s.slots[x] # n)
<1>1. s \in Working(Nodes, Slots, n) /\ n \in Nodes /\ Sane(Nodes, Slots, s, n)
  BY DEF OK
<1>2. s.known \in [Nodes -> Peer(Nodes)] /\ \A m \in Nodes : s.known[m] \in Peer(Nodes)
  BY <1>1 DEF Working
<1>3. \A m \in Nodes : s.known[m].slave <=> s.known[m].slaveof # None
  BY <1>1 DEF Sane, Roles
<1> QED  BY <1>1, <1>2, <1>3, PeerFields DEF Working, Sane

-----------------------------------------------------------------------------
\* Sending

\* The messages of a channel.
LEMMA QueuesIs ==
    ASSUME NEW C, NEW P, NEW q \in Queues(C, P)
    PROVE  DOMAIN q \subseteq C /\ \A c \in DOMAIN q : q[c] \in Seq(P) /\ q[c] # <<>>
<1> PICK D \in SUBSET C : q \in [D -> Seq(P) \ {<<>>}]
  BY DEF Queues
<1> QED  OBVIOUS

\* Functions of that kind.
LEMMA QueuesMake ==
    ASSUME NEW C, NEW P, NEW D \in SUBSET C, NEW q \in [D -> Seq(P) \ {<<>>}]
    PROVE  q \in Queues(C, P)
BY DEF Queues

\* Two sequences of messages in a row.
LEMMA Concat ==
    ASSUME NEW P, NEW a \in Seq(P), NEW b \in Seq(P)
    PROVE  /\ a \o b \in Seq(P) /\ (b # <<>> => a \o b # <<>>) /\ DOMAIN (a \o b) = 1..(Len(a) + Len(b))
           /\ DOMAIN a = 1..Len(a) /\ DOMAIN b = 1..Len(b) /\ Len(a) \in Nat /\ Len(b) \in Nat
           /\ \A i \in DOMAIN (a \o b) :
                \/ i \in DOMAIN a /\ (a \o b)[i] = a[i]
                \/ i > Len(a) /\ i - Len(a) \in DOMAIN b /\ (a \o b)[i] = b[i - Len(a)]
<1>1. a \o b \in Seq(P) /\ Len(a \o b) = Len(a) + Len(b)
  BY ConcatProperties
<1>2. \A i \in 1..(Len(a) + Len(b)) : (a \o b)[i] = IF i <= Len(a) THEN a[i] ELSE b[i - Len(a)]
  BY ConcatProperties
<1>3. DOMAIN a = 1..Len(a) /\ DOMAIN b = 1..Len(b) /\ Len(a) \in Nat /\ Len(b) \in Nat /\ DOMAIN (a \o b) = 1..Len(a \o b)
  BY <1>1
<1>4. b # <<>> => Len(b) > 0
  BY <1>3, EmptySeq
<1>5. b # <<>> => a \o b # <<>>
  BY <1>1, <1>3, <1>4
<1> QED  BY <1>1, <1>2, <1>3, <1>5

\* The channels Q have the messages of q, and messages msgs on the channels cs.
Adds(Q, q, cs, msgs) ==
    \A c \in DOMAIN Q : \A i \in DOMAIN Q[c] :
       \/ c \in DOMAIN q /\ i \in DOMAIN q[c] /\ Q[c][i] = q[c][i]
       \/ c \in cs /\ \E j \in DOMAIN msgs : Q[c][i] = msgs[j]

\* Messages are added at the end of channels.
LEMMA QueueIs ==
    ASSUME NEW C, NEW P, NEW q \in Queues(C, P), NEW cs \in SUBSET C, NEW msgs \in Seq(P), msgs # <<>>
    PROVE  /\ Queue(q, cs, msgs) \in Queues(C, P) /\ DOMAIN Queue(q, cs, msgs) = DOMAIN q \cup cs
           /\ Adds(Queue(q, cs, msgs), q, cs, msgs)
<1> DEFINE Q == Queue(q, cs, msgs)
           D == DOMAIN q \cup cs
           w(c) == IF c \in cs THEN On(q, c) \o msgs ELSE q[c]
<1>1. DOMAIN q \subseteq C /\ \A c \in DOMAIN q : q[c] \in Seq(P) /\ q[c] # <<>>
  BY QueuesIs
<1>2. \A c : On(q, c) \in Seq(P)
  BY <1>1 DEF On
<1>3. \A c \in D : w(c) \in Seq(P) \ {<<>>}
  BY <1>1, <1>2, Concat
<1>4. Q = [c \in D |-> w(c)]
  BY DEF Queue
<1>5. Q \in [D -> Seq(P) \ {<<>>}] /\ D \in SUBSET C
  BY <1>1, <1>3, <1>4
<1>6. Q \in Queues(C, P) /\ DOMAIN Q = D
  BY <1>5, QueuesMake
<1>7. ASSUME NEW c \in D, NEW i \in DOMAIN Q[c]
      PROVE  \/ c \in DOMAIN q /\ i \in DOMAIN q[c] /\ Q[c][i] = q[c][i]
             \/ c \in cs /\ \E j \in DOMAIN msgs : Q[c][i] = msgs[j]
  <2>1. Q[c] = w(c)
    BY <1>4
  <2>2. CASE c \notin cs
    BY <2>1, <2>2
  <2>3. CASE c \in cs
    <3>1. Q[c] = On(q, c) \o msgs
      BY <2>1, <2>3
    <3>2. \/ i \in DOMAIN On(q, c) /\ Q[c][i] = On(q, c)[i]
          \/ \E j \in DOMAIN msgs : Q[c][i] = msgs[j]
      BY <3>1, <1>2, Concat
    <3>3. i \in DOMAIN On(q, c) => c \in DOMAIN q /\ On(q, c) = q[c]
      BY DEF On
    <3> QED  BY <2>3, <3>2, <3>3
  <2> QED  BY <2>2, <2>3
<1> HIDE DEF Q
<1>8. Adds(Q, q, cs, msgs)
  BY <1>6, <1>7 DEF Adds
<1> QED  BY <1>6, <1>8 DEF Q

\* The queue of a handler's record is replaced.
LEMMA OutIs ==
    ASSUME NEW s, NEW n, s \in Working(Nodes, Slots, n),
           NEW q \in Queues(From(Nodes, n), Packets(Nodes, Slots, n)), NEW t, t = [s EXCEPT !.out = q]
    PROVE  /\ t \in Working(Nodes, Slots, n) /\ SameBut(s, t)
           /\ t.known = s.known /\ t.slots = s.slots /\ t.out = q /\ t.todo = s.todo
BY DEF Working, SameBut

\* The channels from n to some nodes.
Ways(n, to, kind) == {<<n, m, kind>> : m \in to}

\* Messages that n may send to some nodes.
Sendable(n, to, kind, msgs) ==
    /\ to \subseteq Nodes \ {n} /\ kind \in {"own", "reply"}
    /\ msgs \in Seq(Packets(Nodes, Slots, n)) /\ msgs # <<>>

\* clusterSendMessage().
LEMMA SendIs ==
    ASSUME NEW s, NEW n, OK(s, n), NEW to, NEW kind, NEW msgs, Sendable(n, to, kind, msgs), NEW t, t = clusterSendMessage(s, to, kind, msgs)
    PROVE  /\ OK(t, n) /\ SameBut(s, t) /\ t.known = s.known /\ t.slots = s.slots /\ t.todo = s.todo
           /\ t.out = Queue(s.out, Ways(n, to, kind), msgs) /\ Ways(n, to, kind) \subseteq From(Nodes, n)
           /\ Adds(t.out, s.out, Ways(n, to, kind), msgs)
<1> DEFINE cs == Ways(n, to, kind)
           q == Queue(s.out, cs, msgs)
<1>1. n \in Nodes /\ s.me = n /\ s.out \in Queues(From(Nodes, n), Packets(Nodes, Slots, n))
  BY OKFields
<1>2. cs \in SUBSET From(Nodes, n)
  BY <1>1 DEF From, Chans, Ways, Sendable
<1>3. t = [s EXCEPT !.out = q]
  BY <1>1 DEF clusterSendMessage, Ways
<1> HIDE DEF cs
<1>4. q \in Queues(From(Nodes, n), Packets(Nodes, Slots, n)) /\ Adds(q, s.out, cs, msgs)
  BY <1>1, <1>2, QueueIs DEF Sendable
<1>5. s \in Working(Nodes, Slots, n) /\ Sane(Nodes, Slots, s, n) /\ setup \in Setups
  BY DEF OK
<1> HIDE DEF q
<1>6. /\ t \in Working(Nodes, Slots, n) /\ SameBut(s, t)
      /\ t.known = s.known /\ t.slots = s.slots /\ t.out = q /\ t.todo = s.todo
  BY <1>3, <1>4, <1>5, OutIs
<1>7. OK(t, n)
  BY <1>1, <1>5, <1>6 DEF OK, Sane
<1> QED  BY <1>2, <1>4, <1>6, <1>7 DEF q, cs

\* Messages that are not about votes, and have a reason.
LEMMA SendStep ==
    ASSUME NEW h, NEW s, NEW n, OK(s, n), NEW to, NEW kind, NEW msgs, Sendable(n, to, kind, msgs),
           \A j \in DOMAIN msgs : msgs[j].type \notin VoteTypes,
           Reasoned(h, s, n) => \A j \in DOMAIN msgs : Told(Nodes, Slots, h, msgs[j]),
           NEW t, t = clusterSendMessage(s, to, kind, msgs)
    PROVE  Step(h, s, t, n) /\ t.size = s.size /\ t.known = s.known /\ t.slots = s.slots
<1> DEFINE cs == Ways(n, to, kind)
<1>1. /\ OK(t, n) /\ SameBut(s, t) /\ t.known = s.known /\ t.slots = s.slots
      /\ Adds(t.out, s.out, cs, msgs)
  BY SendIs
<1> HIDE DEF cs
<1>2. Plain(s.out) => Plain(t.out)
  BY <1>1 DEF Plain, Adds
<1>3. Calm(s, t)
  BY <1>1, <1>2, CalmSame, OKFields
<1>4. Reasoned(h, s, n) => Reasoned(h, t, n)
  BY <1>1 DEF Reasoned, AllTold, Adds
<1> QED  BY <1>1, <1>3, <1>4 DEF Step, SameBut

\* clusterBuildMessageHdr().
LEMMA HeaderIs ==
    ASSUME NEW s, NEW n, OK(s, n), NEW type, NEW D, NEW data \in D,
           NEW p, p = clusterBuildMessageHdr(s, type, data)
    PROVE  /\ p \in Packet(Nodes, Slots, n, {type}, D)
           /\ p.type = type /\ p.sender = n /\ p.data = data /\ p.currentEpoch = s.currentEpoch
<1> DEFINE master == IF IsSlave(s, s.me) /\ MyMaster(s) # None THEN MyMaster(s) ELSE s.me
           e == s.known[master].configEpoch
           b == IsMaster(s, s.me) /\ s.mf_end
<1>1. /\ s.me = n /\ n \in Nodes /\ s.known[n].slaveof \in Nodes \cup {None} /\ s.known[n].slave \in BOOLEAN
      /\ s.currentEpoch \in Nat /\ s.offset \in Nat /\ s.mf_end \in BOOLEAN
      /\ \A m \in Nodes : s.known[m].configEpoch \in Nat
  BY OKFields
<1>2. master \in Nodes /\ MyMaster(s) \in Nodes \cup {None}
  BY <1>1 DEF MyMaster, IsSlave
<1>3. e \in Nat /\ b \in BOOLEAN /\ SlotsOf(s, master) \in SUBSET Slots
  BY <1>1, <1>2 DEF SlotsOf, IsMaster
<1>4. p =
        [type |-> type, sender |-> n, myslots |-> SlotsOf(s, master), slaveof |-> MyMaster(s),
         currentEpoch |-> s.currentEpoch, configEpoch |-> e, offset |-> s.offset, paused |-> b, data |-> data]
  BY <1>1 DEF clusterBuildMessageHdr
<1> HIDE DEF master, e, b
<1> QED  BY <1>1, <1>2, <1>3, <1>4 DEF Packet

\* One message.
LEMMA Single == ASSUME NEW P, NEW p \in P  PROVE <<p>> \in Seq(P) /\ <<p>> # <<>> /\ DOMAIN <<p>> = {1} /\ <<p>>[1] = p
OBVIOUS

\* Packets of each type.
LEMMA PacketTypes ==
    ASSUME NEW N, NEW S, NEW n
    PROVE  /\ \A type \in {"ping", "pong"} : Packet(N, S, n, {type}, [N \ {n} -> Flags]) \subseteq Packets(N, S, n)
           /\ Packet(N, S, n, {"fail"}, N) \subseteq Packets(N, S, n)
           /\ Packet(N, S, n, {"update"}, Claims(N, S)) \subseteq Packets(N, S, n)
           /\ Packet(N, S, n, {"auth_request"}, BOOLEAN) \subseteq Packets(N, S, n)
           /\ Packet(N, S, n, {"auth_ack"}, {None}) \subseteq Packets(N, S, n)
           /\ Packet(N, S, n, {"mfstart"}, Nat) \subseteq Packets(N, S, n)
<1>1. \A type \in {"ping", "pong"} : Packet(N, S, n, {type}, [N \ {n} -> Flags])
                                      \subseteq Packet(N, S, n, {"ping", "pong"}, [N \ {n} -> Flags])
  BY DEF Packet
<1> QED  BY <1>1 DEF Packets

\* One message that is not about votes, and has a reason.
LEMMA SendOne ==
    ASSUME NEW h, NEW s, NEW n, OK(s, n), NEW to, NEW kind, to \subseteq Nodes \ {n}, kind \in {"own", "reply"},
           NEW p \in Packets(Nodes, Slots, n), p.type \notin VoteTypes,
           Reasoned(h, s, n) => Told(Nodes, Slots, h, p),
           NEW t, t = clusterSendMessage(s, to, kind, <<p>>)
    PROVE  Step(h, s, t, n) /\ t.size = s.size /\ t.known = s.known /\ t.slots = s.slots
<1> DEFINE msgs == <<p>>
<1>1. Sendable(n, to, kind, msgs) /\ \A j \in DOMAIN msgs : msgs[j] = p
  BY Single DEF Sendable
<1>2. t = clusterSendMessage(s, to, kind, msgs)
  OBVIOUS
<1> HIDE DEF msgs
<1>3. \A j \in DOMAIN msgs : msgs[j].type \notin VoteTypes
  BY <1>1
<1>4. Reasoned(h, s, n) => \A j \in DOMAIN msgs : Told(Nodes, Slots, h, msgs[j])
  BY <1>1
<1> QED  BY <1>1, <1>2, <1>3, <1>4, SendStep

\* A packet that node n may send to the nodes in to, without founding any flag anew.
Letter(h, s, n, to, kind, p) ==
    /\ to \subseteq Nodes \ {n} /\ kind \in {"own", "reply"}
    /\ p \in Packets(Nodes, Slots, n) /\ p.type \notin VoteTypes
    /\ Reasoned(h, s, n) => Told(Nodes, Slots, h, p)

\* The same.
LEMMA SendLetter ==
    ASSUME NEW h, NEW s, NEW n, OK(s, n), NEW to, NEW kind, NEW p, Letter(h, s, n, to, kind, p),
           NEW t, t = clusterSendMessage(s, to, kind, <<p>>)
    PROVE  Step(h, s, t, n) /\ t.size = s.size /\ t.known = s.known /\ t.slots = s.slots
BY SendOne DEF Letter

\* clusterSendPing().
LEMMA PingStep ==
    ASSUME NEW h, NEW s, NEW n, OK(s, n), NEW to, NEW kind, to \subseteq Nodes \ {n}, kind \in {"own", "reply"},
           NEW type \in {"ping", "pong"}, NEW t, t = clusterSendPing(s, to, kind, type)
    PROVE  Step(h, s, t, n) /\ t.size = s.size /\ t.known = s.known /\ t.slots = s.slots
<1> DEFINE g == [m \in Nodes \ {n} |-> s.known[m].flag]
           p == clusterBuildMessageHdr(s, type, g)
<1>1. s.me = n /\ \A m \in Nodes : s.known[m].flag \in Flags
  BY OKFields
<1>2. g \in [Nodes \ {n} -> Flags] /\ \A m \in Nodes \ {n} : g[m] = s.known[m].flag
  BY <1>1
<1>4. t = clusterSendMessage(s, to, kind, <<p>>)
  BY <1>1 DEF clusterSendPing
<1> HIDE DEF g
<1> DEFINE D == [Nodes \ {n} -> Flags]
<1>8. g \in D
  BY <1>2
<1> HIDE DEF D, p
<1>9. p = clusterBuildMessageHdr(s, type, g)
  BY DEF p
<1>3. p \in Packet(Nodes, Slots, n, {type}, D) /\ p.type = type /\ p.sender = n /\ p.data = g
  BY <1>8, <1>9, HeaderIs
<1>5. ASSUME Reasoned(h, s, n)  PROVE Told(Nodes, Slots, h, p)
  <2>1. \A m \in Nodes : Founded(Nodes, Slots, h, n, m, s.known[m].flag)
    BY <1>5 DEF Reasoned, FlagsOK
  <2> QED  BY <2>1, <1>2, <1>3 DEF Told
<1>6. p \in Packets(Nodes, Slots, n)
  BY <1>3, PacketTypes DEF D
<1>7. p.type \notin VoteTypes
  BY <1>3 DEF VoteTypes
<1> QED  BY <1>4, <1>5, <1>6, <1>7, SendOne

\* Others() and clusterBroadcastPong().
LEMMA BroadcastStep ==
    ASSUME NEW h, NEW s, NEW n, OK(s, n), NEW target, NEW t, t = clusterBroadcastPong(s, target)
    PROVE  Step(h, s, t, n) /\ t.size = s.size /\ t.known = s.known /\ t.slots = s.slots
<1> DEFINE local == {m \in Others(s) : /\ IsSlave(s, m)
                                       /\ s.known[m].slaveof # None
                                       /\ s.known[m].slaveof \in {s.me, MyMaster(s)}}
           to == IF target = "all" THEN Others(s) ELSE local
<1>1. to \subseteq Nodes \ {n}
  BY OKFields DEF Others
<1>2. t = clusterSendPing(s, to, "own", "pong")
  BY DEF clusterBroadcastPong
<1> HIDE DEF to
<1> QED  BY <1>1, <1>2, PingStep

\* A finite set as a sequence.
LEMMA SetToSeqIs == ASSUME NEW T, IsFiniteSet(T)  PROVE  Cardinality(T) \in Nat /\ SetToSeq(T) \in [1..Cardinality(T) -> T]
<1>1. Cardinality(T) \in Nat /\ ExistsBijection(1..Cardinality(T), T)
  BY FS_CardinalityType
<1>2. PICK f : f \in Bijection(1..Cardinality(T), T)
  BY <1>1 DEF ExistsBijection
<1>3. f \in [1..Cardinality(T) -> T] /\ IsInjective(f)
  BY <1>2 DEF Bijection, Injection, IsInjective
<1> QED  BY <1>1, <1>3 DEF SetToSeq

\* clusterSendFail().
LEMMA SendFailStep ==
    ASSUME NEW h, NEW s, NEW n, OK(s, n), NEW ms, ms \subseteq Nodes, ms # {},
           Reasoned(h, s, n) => \A m \in ms : Down(Nodes, Slots, h, m),
           NEW t, t = clusterSendFail(s, ms)
    PROVE  Step(h, s, t, n) /\ t.size = s.size /\ t.known = s.known /\ t.slots = s.slots
<1> DEFINE each == SetToSeq(ms)
           k == Cardinality(ms)
           p(i) == clusterBuildMessageHdr(s, "fail", each[i])
           msgs == [i \in 1..k |-> p(i)]
           to == Nodes \ {n}
<1>1. IsFiniteSet(ms)
  BY Setting, FS_Subset DEF OK
<1>2. k \in Nat /\ each \in [1..k -> ms] /\ k # 0
  BY <1>1, SetToSeqIs, FS_EmptySet
<1>3. t = clusterSendMessage(s, to, "own", msgs)
  BY OKFields DEF clusterSendFail, Others
<1> HIDE DEF k, each
<1>4. ASSUME NEW i \in 1..k
      PROVE  p(i) \in Packets(Nodes, Slots, n) /\ p(i).type = "fail" /\ p(i).data = each[i] /\ each[i] \in ms
  <2> DEFINE x == each[i]
             q == clusterBuildMessageHdr(s, "fail", x)
             type == "fail"
  <2>1. x \in ms /\ x \in Nodes
    BY <1>2
  <2>2. q = clusterBuildMessageHdr(s, type, x)
    OBVIOUS
  <2> HIDE DEF x, q, type
  <2>3. q \in Packet(Nodes, Slots, n, {type}, Nodes) /\ q.type = type /\ q.data = x
    BY <2>1, <2>2, HeaderIs
  <2>4. q \in Packets(Nodes, Slots, n)
    BY <2>3, PacketTypes DEF type
  <2> QED  BY <2>1, <2>3, <2>4 DEF x, q, type
<1> HIDE DEF p
<1>5. msgs \in Seq(Packets(Nodes, Slots, n)) /\ DOMAIN msgs = 1..k /\ \A i \in 1..k : msgs[i] = p(i)
  BY <1>2, <1>4
<1>6. msgs # <<>>
  BY <1>2, <1>5
<1> HIDE DEF msgs
<1>7. Sendable(n, to, "own", msgs)
  BY <1>5, <1>6 DEF Sendable
<1>8. \A j \in DOMAIN msgs : msgs[j].type \notin VoteTypes
  BY <1>4, <1>5 DEF VoteTypes
<1>9. Reasoned(h, s, n) => \A j \in DOMAIN msgs : Told(Nodes, Slots, h, msgs[j])
  BY <1>4, <1>5 DEF Told
<1> HIDE DEF to
<1> QED  BY <1>3, <1>7, <1>8, <1>9, SendStep

\* The same.
Failing(h, s, n, ms) ==
    ms \subseteq Nodes /\ ms # {} /\ (Reasoned(h, s, n) => \A m \in ms : Down(Nodes, Slots, h, m))
\* clusterSendFail sends flags that are founded when those of the nodes in ms are.
LEMMA SendFailing ==
    ASSUME NEW h, NEW s, NEW n, OK(s, n), NEW ms, Failing(h, s, n, ms), NEW t, t = clusterSendFail(s, ms)
    PROVE  Step(h, s, t, n) /\ t.size = s.size
BY SendFailStep DEF Failing

\* clusterSendUpdate().
LEMMA SendUpdateStep ==
    ASSUME NEW h, NEW s, NEW n, OK(s, n), NEW to \in Nodes \ {n}, NEW m \in Nodes,
           NEW t, t = clusterSendUpdate(s, to, m)
    PROVE  Step(h, s, t, n) /\ t.size = s.size /\ t.known = s.known /\ t.slots = s.slots
<1> DEFINE d == [about |-> m, epoch |-> s.known[m].configEpoch, slots |-> SlotsOf(s, m)]
           p == clusterBuildMessageHdr(s, "update", d)
           type == "update"
           D == Claims(Nodes, Slots)
           ts == {to}
           kind == "own"
<1>1. d \in D
  BY OKFields DEF Claims, SlotsOf
<1>2. t = clusterSendMessage(s, ts, kind, <<p>>) /\ p = clusterBuildMessageHdr(s, type, d)
  BY DEF clusterSendUpdate
<1>3. ts \subseteq Nodes \ {n} /\ kind \in {"own", "reply"}
  OBVIOUS
<1> HIDE DEF d, p, type, D, ts, kind
<1>4. p \in Packet(Nodes, Slots, n, {type}, D) /\ p.type = type
  BY <1>1, <1>2, HeaderIs
<1>5. p \in Packets(Nodes, Slots, n) /\ p.type = "update"
  BY <1>4, PacketTypes DEF D, type
<1>6. p.type \notin VoteTypes /\ Told(Nodes, Slots, h, p)
  BY <1>5 DEF VoteTypes, Told
<1>7. Reasoned(h, s, n) => Told(Nodes, Slots, h, p)
  BY <1>6
<1>8. t = clusterSendMessage(s, ts, kind, <<p>>)
  BY <1>2
<1>9. Letter(h, s, n, ts, kind, p)
  BY <1>3, <1>5, <1>6, <1>7 DEF Letter
<1> QED  BY <1>8, <1>9, SendLetter

-----------------------------------------------------------------------------
\* Numbers

\* A set with 0 that has the successor of each of its members holds 0..b.
LEMMA Climb ==
    ASSUME NEW T, 0 \in T, NEW b \in Nat, \A i \in 0..(b - 1) : i \in T => i + 1 \in T
    PROVE  \A i \in 0..b : i \in T
<1> DEFINE U == {i \in 0..b : i \notin T}
           R == OpToRel(<, Nat)
<1> SUFFICES ASSUME U # {} PROVE FALSE
  OBVIOUS
<1>1. \A i, j \in Nat : <<i, j>> \in R <=> i < j
  BY DEF OpToRel
<1>2. IsWellFoundedOn(R, Nat)
  BY NatLessThanWellFounded
<1> HIDE DEF R
<1>7. U \subseteq Nat
  OBVIOUS
<1>3. PICK i \in U : \A j \in U : ~(<<j, i>> \in R)
  BY <1>2, <1>7, WFMin
<1>4. i \in 0..b /\ i \notin T /\ i # 0 /\ i - 1 \in 0..(b - 1) /\ i - 1 + 1 = i
  BY <1>3
<1>5. <<i - 1, i>> \in R
  BY <1>1, <1>4
<1>6. i - 1 \in T
  BY <1>3, <1>4, <1>5
<1> QED  BY <1>4, <1>6

\* The larger of two numbers.
LEMMA Max2 == ASSUME NEW a \in Nat, NEW b \in Nat  PROVE  Max({a, b}) \in {a, b} /\ Max({a, b}) >= a /\ Max({a, b}) >= b
<1>1. \E x \in {a, b} : \A y \in {a, b} : x >= y
  OBVIOUS
<1> QED  BY <1>1 DEF Max

\* A finite set of numbers has a largest member.
LEMMA MaxIs ==
    ASSUME NEW T, T \subseteq Nat, IsFiniteSet(T), T # {}
    PROVE  Max(T) \in T /\ \A y \in T : Max(T) >= y
<1> DEFINE k == Cardinality(T)
<1>1. k \in Nat /\ ExistsBijection(1..k, T)
  BY FS_CardinalityType
<1>2. PICK f : f \in Bijection(1..k, T)
  BY <1>1 DEF ExistsBijection
<1>3. f \in [1..k -> T] /\ \A y \in T : \E i \in 1..k : f[i] = y
  BY <1>2 DEF Bijection, Injection, Surjection
<1>4. k # 0
  BY FS_EmptySet
<1> HIDE DEF k
<1> DEFINE Top(j, x) == x \in T /\ \A i \in 1..j : i \in 1..k => x >= f[i]
           G == {j \in Nat : \E x : Top(j, x)}
<1>5. 0 \in G
  <2>1. PICK x : x \in T
    OBVIOUS
  <2>2. Top(0, x)
    BY <2>1
  <2> QED  BY <2>2
<1>6. ASSUME NEW j \in 0..(k - 1), j \in G  PROVE j + 1 \in G
  <2>1. PICK x : Top(j, x)
    BY <1>6
  <2>7. j + 1 \in 1..k /\ x \in T
    BY <1>1, <2>1
  <2>2. j + 1 \in 1..k /\ f[j + 1] \in T /\ x \in T /\ f[j + 1] \in Nat /\ x \in Nat
    BY <1>3, <2>7
  <2>3. \A i \in 1..(j + 1) : i \in 1..j \/ i = j + 1
    OBVIOUS
  <2>4. \A i \in 1..k : f[i] \in Nat
    BY <1>3
  <2>5. CASE x >= f[j + 1]
    <3>1. Top(j + 1, x)
      BY <2>1, <2>2, <2>3, <2>5
    <3> QED  BY <3>1
  <2>6. CASE ~(x >= f[j + 1])
    <3>1. Top(j + 1, f[j + 1])
      BY <2>1, <2>2, <2>3, <2>4, <2>6
    <3> QED  BY <3>1
  <2> QED  BY <2>5, <2>6
<1> HIDE DEF G
<1>10. \A j \in 0..(k - 1) : j \in G => j + 1 \in G
  BY <1>6
<1>11. k \in Nat /\ k \in 0..k
  BY <1>1
<1>12. \A j \in 0..k : j \in G
  BY <1>5, <1>10, <1>11, Climb
<1>7. k \in G
  BY <1>11, <1>12
<1>8. PICK x : Top(k, x)
  BY <1>7 DEF G
<1>9. x \in T /\ \A y \in T : x >= y
  BY <1>3, <1>8
<1> QED  BY <1>9 DEF Max

-----------------------------------------------------------------------------
\* Cluster state, roles and slots

\* Fields that neither elections nor flags depend on.
StateArgs(size, minority, state) == size \in Nat /\ minority \in BOOLEAN /\ state \in {"ok", "fail"}
\* What clusterUpdateState may change.
WithState(s, size, minority, state) == [s EXCEPT !.size = size, !.minority = minority, !.state = state]
\* It changes nothing else.
LEMMA StateIs ==
    ASSUME NEW s, NEW n, OK(s, n), NEW size, NEW minority, NEW state, StateArgs(size, minority, state),
           NEW t, t = WithState(s, size, minority, state)
    PROVE  /\ t \in Working(Nodes, Slots, n) /\ t.size = size
           /\ t.me = s.me /\ t.up = s.up /\ t.auth = s.auth /\ t.auth_sent = s.auth_sent
           /\ t.auth_epoch = s.auth_epoch /\ t.auth_count = s.auth_count
           /\ t.lastVoteEpoch = s.lastVoteEpoch /\ t.currentEpoch = s.currentEpoch /\ t.log = s.log
           /\ t.out = s.out /\ t.known = s.known /\ t.slots = s.slots /\ t.todo = s.todo
<1>1. s \in Working(Nodes, Slots, n)
  BY DEF OK
<1> QED  BY <1>1 DEF Working, StateArgs, WithState

\* clusterUpdateState().
LEMMA UpdateStateStep ==
    ASSUME NEW h, NEW s, NEW n, OK(s, n), NEW t, t = clusterUpdateState(s)
    PROVE  Step(h, s, t, n) /\ t.known = s.known /\ t.slots = s.slots /\ t.out = s.out /\ t.todo = s.todo
<1> DEFINE size == {m \in Nodes : IsMaster(s, m) /\ NumSlots(s, m) > 0}
           reachable == {m \in size : s.known[m].flag = "ok"}
           few == Cardinality(reachable) < Cardinality(size) \div 2 + 1
           covered == \A x \in Slots : s.slots[x] # None /\ ~Failed(s, s.slots[x])
           k == Cardinality(size)
           minority == s.minority \/ few
           wait == s.state = "fail" /\ IsMaster(s, s.me) /\ s.minority
           state == IF ~covered \/ few \/ wait THEN "fail" ELSE "ok"
           r == [s EXCEPT !.size = k, !.minority = minority, !.state = state]
<1>1. k \in Nat /\ minority \in BOOLEAN
  <2>1. IsFiniteSet(size)
    BY Setting, FS_Subset DEF OK
  <2> QED  BY <2>1, FS_CardinalityType, OKFields
<1>2. state \in {"ok", "fail"}
  BY OKFields
<1>3. t = s \/ t = r
  BY DEF clusterUpdateState
<1> HIDE DEF r, k, minority, state
<1>4. CASE t = s
  BY <1>4, StepRefl
<1>5. CASE t = r
  <2>1. t = WithState(s, k, minority, state)
    BY <1>5 DEF r, WithState
  <2>4. StateArgs(k, minority, state)
    BY <1>1, <1>2 DEF StateArgs
  <2>2. /\ t \in Working(Nodes, Slots, n) /\ t.size = k
        /\ t.me = s.me /\ t.up = s.up /\ t.auth = s.auth /\ t.auth_sent = s.auth_sent
        /\ t.auth_epoch = s.auth_epoch /\ t.auth_count = s.auth_count
        /\ t.lastVoteEpoch = s.lastVoteEpoch /\ t.currentEpoch = s.currentEpoch /\ t.log = s.log
        /\ t.out = s.out /\ t.known = s.known /\ t.slots = s.slots /\ t.todo = s.todo
    BY <2>1, <2>4, StateIs
  <2>3. t.currentEpoch >= s.currentEpoch
    BY <2>2, OKFields
  <2> QED  BY <2>2, <2>3, StepFields
<1> QED  BY <1>3, <1>4, <1>5

\* The fields of a manual failover.
ManualArgs(paused, end, can, slave, offset, id) ==
    /\ paused \in BOOLEAN /\ end \in BOOLEAN /\ can \in BOOLEAN
    /\ slave \in Nodes \cup {None} /\ offset \in Nat /\ id \in Nat
\* What the handlers of a manual failover change.
WithManual(s, paused, end, can, slave, offset, id) ==
    [[[s EXCEPT !.paused = paused, !.mf_end = end, !.mf_can_start = can] EXCEPT
       !.mf_slave = slave] EXCEPT !.mf_master_offset = offset, !.mf_id = id]

\* They do not matter here.
LEMMA ManualStep ==
    ASSUME NEW h, NEW s, NEW n, OK(s, n), NEW paused, NEW end, NEW can, NEW slave, NEW offset, NEW id,
           ManualArgs(paused, end, can, slave, offset, id),
           NEW t, t = WithManual(s, paused, end, can, slave, offset, id)
    PROVE  Step(h, s, t, n) /\ t.size = s.size /\ t.known = s.known /\ t.slots = s.slots /\ t.out = s.out /\ t.todo = s.todo
<1>3. s \in Working(Nodes, Slots, n)
  BY DEF OK
<1> DEFINE r == [s EXCEPT !.paused = paused, !.mf_end = end, !.mf_can_start = can]
<1>7. paused \in BOOLEAN /\ end \in BOOLEAN /\ can \in BOOLEAN
  BY DEF ManualArgs
<1>8. slave \in Nodes \cup {None} /\ offset \in Nat /\ id \in Nat
  BY DEF ManualArgs
<1>9. r \in Working(Nodes, Slots, n)
  BY <1>3, <1>7 DEF Working
<1>4. /\ r.size = s.size
      /\ r.up = s.up /\ r.auth = s.auth /\ r.auth_sent = s.auth_sent
      /\ r.auth_epoch = s.auth_epoch /\ r.auth_count = s.auth_count
      /\ r.lastVoteEpoch = s.lastVoteEpoch /\ r.currentEpoch = s.currentEpoch /\ r.log = s.log
      /\ r.out = s.out /\ r.known = s.known /\ r.slots = s.slots /\ r.todo = s.todo
  BY <1>3 DEF Working
<1> DEFINE q == [r EXCEPT !.mf_slave = slave]
<1>5. t = [q EXCEPT !.mf_master_offset = offset, !.mf_id = id]
  BY DEF WithManual
<1> HIDE DEF r
<1>11. q \in Working(Nodes, Slots, n)
  BY <1>8, <1>9 DEF Working
<1>12. /\ q.size = r.size
      /\ q.up = r.up /\ q.auth = r.auth /\ q.auth_sent = r.auth_sent
      /\ q.auth_epoch = r.auth_epoch /\ q.auth_count = r.auth_count
      /\ q.lastVoteEpoch = r.lastVoteEpoch /\ q.currentEpoch = r.currentEpoch /\ q.log = r.log
      /\ q.out = r.out /\ q.known = r.known /\ q.slots = r.slots /\ q.todo = r.todo
  BY <1>9 DEF Working
<1> HIDE DEF q
<1>13. [q EXCEPT !.mf_master_offset = offset, !.mf_id = id] \in Working(Nodes, Slots, n)
  BY <1>8, <1>11 DEF Working
<1>10. t \in Working(Nodes, Slots, n)
  BY <1>5, <1>13
<1>6. /\ t.size = q.size
      /\ t.up = q.up /\ t.auth = q.auth /\ t.auth_sent = q.auth_sent
      /\ t.auth_epoch = q.auth_epoch /\ t.auth_count = q.auth_count
      /\ t.lastVoteEpoch = q.lastVoteEpoch /\ t.currentEpoch = q.currentEpoch /\ t.log = q.log
      /\ t.out = q.out /\ t.known = q.known /\ t.slots = q.slots /\ t.todo = q.todo
  BY <1>5, <1>11 DEF Working
<1>2. t.currentEpoch >= s.currentEpoch
  BY <1>4, <1>6, <1>12, OKFields
<1> QED  BY <1>4, <1>6, <1>10, <1>12, <1>2, StepFields

\* resetManualFailover().
LEMMA ResetStep ==
    ASSUME NEW h, NEW s, NEW n, OK(s, n), NEW t, t = resetManualFailover(s)
    PROVE  Step(h, s, t, n) /\ t.size = s.size /\ t.known = s.known /\ t.slots = s.slots /\ t.out = s.out /\ t.todo = s.todo
<1> DEFINE paused == IF s.mf_end THEN FALSE ELSE s.paused
<1>1. ManualArgs(paused, FALSE, FALSE, None, 0, s.mf_id)
  BY OKFields DEF ManualArgs
<1>2. t = WithManual(s, paused, FALSE, FALSE, None, 0, s.mf_id)
  <2>1. s \in Working(Nodes, Slots, n)
    BY DEF OK
  <2> QED  BY <2>1 DEF Working, resetManualFailover, WithManual
<1> DEFINE a == FALSE
           b == None
           c == 0
           d == s.mf_id
<1>3. ManualArgs(paused, a, a, b, c, d) /\ t = WithManual(s, paused, a, a, b, c, d)
  BY <1>1, <1>2
<1> HIDE DEF paused, a, b, c, d
<1> QED  BY <1>3, ManualStep

\* A node without slots.
LEMMA NoSlots ==
    ASSUME setup \in Setups, NEW s, NEW m
    PROVE  NumSlots(s, m) \in Nat /\ (NumSlots(s, m) = 0 <=> \A x \in Slots : s.slots[x] # m)
<1>1. IsFiniteSet(SlotsOf(s, m))
  BY Setting, FS_Subset DEF SlotsOf
<1>2. NumSlots(s, m) \in Nat /\ (NumSlots(s, m) = 0 <=> SlotsOf(s, m) = {})
  BY <1>1, FS_CardinalityType, FS_EmptySet DEF NumSlots
<1> QED  BY <1>2 DEF SlotsOf

\* clusterSetNodeAsMaster().
LEMMA SetNodeAsMasterStep ==
    ASSUME NEW h, NEW s, NEW n, OK(s, n), NEW m \in Nodes, NEW t, t = clusterSetNodeAsMaster(s, m)
    PROVE  /\ Step(h, s, t, n) /\ t.size = s.size /\ t.slots = s.slots /\ IsMaster(t, m)
           /\ t.known[m].configEpoch = s.known[m].configEpoch
<1>1. CASE IsMaster(s, m)
  BY <1>1, StepRefl DEF clusterSetNodeAsMaster
<1>2. CASE ~IsMaster(s, m)
  <2> DEFINE p == [s.known[m] EXCEPT !.slave = FALSE, !.slaveof = None]
             r == SetPeer(s, m, p)
             f == {"save", "state"}
  <2>1. t = Todo(r, f)
    BY <1>2 DEF clusterSetNodeAsMaster
  <2>2. s.known[m] \in Peer(Nodes) /\ None \notin Nodes /\ n \in Nodes
    BY OKFields, Setting DEF OK
  <2>3. p \in Peer(Nodes) /\ p.slave = FALSE /\ p.slaveof = None /\ p.flag = s.known[m].flag /\ p.reports = s.known[m].reports
    BY <2>2 DEF Peer
  <2>9. p.configEpoch = s.known[m].configEpoch
    BY <2>2 DEF Peer
  <2>7. /\ r.known[m] = p /\ r.slots = s.slots
    <3>1. s \in Working(Nodes, Slots, n)
      BY DEF OK
    <3> HIDE DEF p
    <3> QED  BY <2>3, <3>1, PeerIs
  <2> HIDE DEF p
  <2>4. Step(h, s, r, n) /\ r.size = s.size
    BY <2>2, <2>3, PeerStep
  <2>8. f \in SUBSET {"save", "state"} /\ OK(r, n)
    BY <2>4 DEF Step
  <2> HIDE DEF r, f
  <2>5. Step(h, r, t, n) /\ t.size = r.size /\ t.known = r.known /\ t.slots = r.slots
    BY <2>1, <2>8, TodoStep
  <2>6. Step(h, s, t, n)
    BY <2>4, <2>5, StepTrans
  <2> QED  BY <2>3, <2>4, <2>5, <2>6, <2>7, <2>9 DEF IsMaster
<1> QED  BY <1>1, <1>2

\* clusterSetMaster() of a node that serves no slot: its assertions hold.
LEMMA SetMasterStep ==
    ASSUME NEW h, NEW s, NEW n, OK(s, n), NEW m \in Nodes, m # n, \A x \in Slots : s.slots[x] # n,
           NEW t, t = clusterSetMaster(s, m)
    PROVE  Step(h, s, t, n) /\ t.size = s.size
<1> DEFINE p == [s.known[n] EXCEPT !.slave = TRUE, !.slaveof = m]
           r == SetPeer(s, n, p)
           q == resetManualFailover(r)
<1>1. s.known[n] \in Peer(Nodes) /\ None \notin Nodes /\ n \in Nodes /\ s.me = n
  BY OKFields, Setting DEF OK
<1>2. p \in Peer(Nodes) /\ p.slave = TRUE /\ p.slaveof = m /\ p.flag = s.known[n].flag /\ p.reports = s.known[n].reports
  BY <1>1 DEF Peer
<1>3. NumSlots(s, n) = 0
  BY NoSlots DEF OK
<1>4. t = [q EXCEPT !.log = q.log]
  <2> DEFINE p2 == [s.known[s.me] EXCEPT !.slave = TRUE, !.slaveof = m]
             q2 == resetManualFailover(SetPeer(s, s.me, p2))
  <2>1. t = [q2 EXCEPT !.log = IF m = s.me \/ NumSlots(s, s.me) # 0
                               THEN q2.log \cup {<<s.me, "assert", m>>} ELSE q2.log]
    BY DEF clusterSetMaster
  <2>2. q2 = q
    BY <1>1
  <2> HIDE DEF q2, q
  <2>3. ~(m = s.me \/ NumSlots(s, s.me) # 0)
    BY <1>1, <1>3
  <2> QED  BY <2>1, <2>2, <2>3
<1> HIDE DEF p
<1>5. s \in Working(Nodes, Slots, n) /\ Sane(Nodes, Slots, s, n)
  BY DEF OK
<1>13. s \in Working(Nodes, Slots, n) /\ n \in Nodes /\ p \in Peer(Nodes)
  BY <1>1, <1>2, <1>5
<1>6. /\ r \in Working(Nodes, Slots, n) /\ SameBut(s, r)
      /\ r.known \in [Nodes -> Peer(Nodes)] /\ r.known[n] = p
      /\ \A x \in Nodes : x # n => r.known[x] = s.known[x]
      /\ r.slots = s.slots /\ r.out = s.out
  BY <1>13, PeerIs
<1> HIDE DEF r
<1>7. Sane(Nodes, Slots, r, n)
  BY <1>1, <1>2, <1>5, <1>6 DEF Sane, Roles
<1>8. \A x \in Nodes : /\ r.known[x].flag \in {s.known[x].flag, "ok"}
                       /\ r.known[x].reports \subseteq s.known[x].reports
  BY <1>2, <1>6
<1>9. Step(h, s, r, n)
  BY <1>6, <1>7, <1>8, TableStep
<1>10. OK(r, n) /\ r.size = s.size
  BY <1>6, <1>9 DEF Step, SameBut
<1>11. Step(h, r, q, n) /\ q.size = r.size
  BY <1>10, ResetStep
<1> HIDE DEF q
<1>12. t = q
  BY <1>4, <1>11 DEF Step, OK, Working
<1> QED  BY <1>9, <1>10, <1>11, <1>12, StepTrans

\* The table of slots is replaced.
LEMMA SlotsStep ==
    ASSUME NEW h, NEW s, NEW n, OK(s, n), NEW f \in [Slots -> Nodes \cup {None}],
           \A x \in Slots : f[x] = n => s.slots[x] = n,
           NEW t, t = [s EXCEPT !.slots = f]
    PROVE  Step(h, s, t, n) /\ t.size = s.size /\ t.slots = f /\ t.known = s.known
<1>1. s \in Working(Nodes, Slots, n) /\ Sane(Nodes, Slots, s, n)
  BY DEF OK
<1>2. /\ t \in Working(Nodes, Slots, n) /\ SameBut(s, t)
      /\ t.known = s.known /\ t.slots = f /\ t.out = s.out
  BY <1>1 DEF Working, SameBut
<1>3. Sane(Nodes, Slots, t, n)
  BY <1>1, <1>2 DEF Sane
<1>4. \A x \in Nodes : /\ t.known[x].flag \in {s.known[x].flag, "ok"}
                       /\ t.known[x].reports \subseteq s.known[x].reports
  BY <1>2
<1>5. Step(h, s, t, n)
  BY <1>2, <1>3, <1>4, TableStep
<1> QED  BY <1>2, <1>5 DEF SameBut

\* clusterUpdateSlotsConfigWith().
LEMMA UpdateSlotsStep ==
    ASSUME NEW h, NEW s, NEW n, OK(s, n), NEW m \in Nodes, NEW epoch, NEW slots,
           NEW t, t = clusterUpdateSlotsConfigWith(s, m, epoch, slots)
    PROVE  Step(h, s, t, n) /\ t.size = s.size
<1> DEFINE curmaster == IF IsMaster(s, s.me) THEN s.me ELSE MyMaster(s)
           taken == {x \in slots : /\ s.slots[x] # m
                                   /\ \/ s.slots[x] = None
                                      \/ s.known[s.slots[x]].configEpoch < epoch}
           f == [x \in Slots |-> IF x \in taken THEN m ELSE s.slots[x]]
           bound == [s EXCEPT !.slots = f]
           flags == {"save", "state"}
           flagged == IF taken = {} THEN bound ELSE Todo(bound, flags)
           lost == (\E x \in taken : s.slots[x] = curmaster) /\ NumSlots(bound, curmaster) = 0
<1>1. n \in Nodes /\ s.me = n /\ s.slots \in [Slots -> Nodes \cup {None}] /\ setup \in Setups
      /\ (s.known[n].slave => \A x \in Slots : s.slots[x] # n)
  BY OKFields DEF OK
<1>2. CASE m = n
  <2>1. t = s
    BY <1>1, <1>2 DEF clusterUpdateSlotsConfigWith
  <2> QED  BY <2>1, StepRefl
<1>3. CASE m # n
  <2>1. t = IF lost THEN clusterSetMaster(flagged, m) ELSE flagged
    BY <1>1, <1>3 DEF clusterUpdateSlotsConfigWith
  <2> HIDE DEF taken
  <2>2. f \in [Slots -> Nodes \cup {None}] /\ \A x \in Slots : f[x] = n => s.slots[x] = n
    BY <1>1, <1>3
  <2>3. \A x \in Slots : f[x] = n => x \notin taken
    BY <1>3
  <2> HIDE DEF f
  <2>4. Step(h, s, bound, n) /\ bound.size = s.size /\ bound.slots = f /\ bound.known = s.known
    BY <2>2, SlotsStep
  <2> HIDE DEF bound
  <2>5. OK(bound, n) /\ flags \in SUBSET {"save", "state"}
    BY <2>4 DEF Step
  <2> HIDE DEF flags
  <2>6. Step(h, bound, flagged, n) /\ flagged.size = bound.size /\ flagged.slots = bound.slots
    BY <2>5, TodoStep, StepRefl
  <2> HIDE DEF flagged
  <2>7. Step(h, s, flagged, n) /\ OK(flagged, n)
    BY <2>4, <2>6, StepTrans DEF Step
  <2>8. CASE ~lost
    BY <2>1, <2>4, <2>6, <2>7, <2>8
  <2>9. CASE lost
    <3>1. \A x \in Slots : flagged.slots[x] # n
      <4>1. CASE IsMaster(s, n)
        <5>1. curmaster = n
          BY <1>1, <4>1
        <5>2. NumSlots(bound, n) = 0
          BY <2>9, <5>1
        <5> QED  BY <1>1, <2>6, <5>2, NoSlots
      <4>2. CASE ~IsMaster(s, n)
        BY <1>1, <2>2, <2>4, <2>6, <4>2 DEF IsMaster
      <4> QED  BY <4>1, <4>2
    <3>2. Step(h, flagged, t, n) /\ t.size = flagged.size
      BY <1>3, <2>1, <2>7, <2>9, <3>1, SetMasterStep
    <3> QED  BY <2>4, <2>6, <2>7, <3>2, StepTrans
  <2> QED  BY <2>8, <2>9
<1> QED  BY <1>2, <1>3

\* The current epoch grows.
LEMMA EpochStep ==
    ASSUME NEW h, NEW s, NEW n, OK(s, n), NEW e \in Nat, e >= s.currentEpoch, NEW t, t = [s EXCEPT !.currentEpoch = e]
    PROVE  Step(h, s, t, n) /\ t.size = s.size /\ t.known = s.known /\ t.slots = s.slots
<1>1. s \in Working(Nodes, Slots, n)
  BY DEF OK
<1>2. [s EXCEPT !.currentEpoch = e] \in Working(Nodes, Slots, n)
  BY <1>1 DEF Working
<1>3. /\ t.up = s.up /\ t.auth = s.auth /\ t.auth_sent = s.auth_sent
      /\ t.auth_epoch = s.auth_epoch /\ t.auth_count = s.auth_count
      /\ t.lastVoteEpoch = s.lastVoteEpoch /\ t.currentEpoch = e /\ t.log = s.log /\ t.size = s.size
      /\ t.out = s.out /\ t.known = s.known /\ t.slots = s.slots /\ t.todo = s.todo
  BY <1>1 DEF Working
<1> QED  BY <1>2, <1>3, StepFields

\* An entry of the table of nodes gets a new epoch.
WithEpoch(p, e) == [p EXCEPT !.configEpoch = e]
\* A new epoch for a peer disturbs no flag and no role.
LEMMA PeerEpochTame ==
    ASSUME NEW s, NEW n, OK(s, n), NEW m \in Nodes, NEW e \in Nat, NEW p, p = WithEpoch(s.known[m], e)
    PROVE  Tame(s, n, m, p) /\ p.slave = s.known[m].slave /\ p.slaveof = s.known[m].slaveof
<1>1. /\ s.known[m] \in Peer(Nodes) /\ (s.known[m].slave <=> s.known[m].slaveof # None)
      /\ s.known[n].slaveof # n
  BY OKFields
<1>2. [s.known[m] EXCEPT !.configEpoch = e] \in Peer(Nodes)
  BY <1>1 DEF Peer
<1>3. /\ p.slave = s.known[m].slave /\ p.slaveof = s.known[m].slaveof
      /\ p.flag = s.known[m].flag /\ p.reports = s.known[m].reports
  BY <1>1 DEF Peer, WithEpoch
<1>4. p \in Peer(Nodes) /\ p.flag \in {s.known[m].flag, "ok"} /\ p.reports \subseteq s.known[m].reports
  BY <1>2, <1>3 DEF WithEpoch
<1>5. (p.slave <=> p.slaveof # None) /\ (m = n => p.slaveof # n /\ (p.slave => s.known[n].slave))
  BY <1>1, <1>3
<1> QED  BY <1>3, <1>4, <1>5 DEF Tame

\* NewConfigEpoch.
LEMMA NewConfigEpochStep ==
    ASSUME NEW h, NEW s, NEW n, OK(s, n), NEW t, t = NewConfigEpoch(s)
    PROVE  Step(h, s, t, n) /\ t.size = s.size
<1> DEFINE e == s.currentEpoch + 1
           p == [s.known[n] EXCEPT !.configEpoch = e]
           r == SetPeer(s, n, p)
           q == [r EXCEPT !.currentEpoch = r.currentEpoch + 1]
           f == {"save"}
<1>1. s.me = n /\ n \in Nodes /\ s.currentEpoch \in Nat /\ e \in Nat
  BY OKFields
<1>2. t = Todo(q, f)
  <2> DEFINE p2 == [s.known[s.me] EXCEPT !.configEpoch = s.currentEpoch + 1]
             r2 == SetPeer(s, s.me, p2)
  <2>1. t = Todo([r2 EXCEPT !.currentEpoch = r2.currentEpoch + 1], {"save"})
    BY DEF NewConfigEpoch
  <2>2. r2 = r
    BY <1>1
  <2> HIDE DEF r2, r
  <2> QED  BY <2>1, <2>2
<1> HIDE DEF e
<1>9. p = WithEpoch(s.known[n], e)
  BY DEF WithEpoch
<1>10. r = SetPeer(s, n, p)
  OBVIOUS
<1>11. n \in Nodes /\ e \in Nat
  BY <1>1
<1> HIDE DEF p, r
<1>12. Tame(s, n, n, p)
  BY <1>9, <1>11, PeerEpochTame
<1>13. Step(h, s, r, n)
  BY <1>10, <1>12, TameStep
<1>14. SameBut(s, r)
  BY <1>10, <1>12, TameIs
<1>3. Step(h, s, r, n) /\ r.size = s.size /\ r.currentEpoch = s.currentEpoch
  BY <1>13, <1>14 DEF SameBut
<1>4. OK(r, n) /\ r.currentEpoch + 1 \in Nat /\ r.currentEpoch + 1 >= r.currentEpoch
  BY <1>1, <1>3 DEF Step
<1>5. Step(h, r, q, n) /\ q.size = r.size
  BY <1>4, EpochStep
<1> HIDE DEF q
<1>6. OK(q, n) /\ f \in SUBSET {"save", "state"}
  BY <1>5 DEF Step
<1> HIDE DEF f
<1>7. Step(h, q, t, n) /\ t.size = q.size
  BY <1>2, <1>6, TodoStep
<1>8. Step(h, s, q, n)
  BY <1>3, <1>5, StepTrans
<1> QED  BY <1>3, <1>5, <1>7, <1>8, StepTrans

\* clusterBumpConfigEpochWithoutConsensus() and clusterHandleConfigEpochCollision().
LEMMA BumpStep ==
    ASSUME NEW h, NEW s, NEW n, OK(s, n), NEW t, t = clusterBumpConfigEpochWithoutConsensus(s)
    PROVE  Step(h, s, t, n) /\ t.size = s.size
<1>1. t = s \/ t = NewConfigEpoch(s)
  BY DEF clusterBumpConfigEpochWithoutConsensus
<1> QED  BY <1>1, NewConfigEpochStep, StepRefl

\* Leaving a collision of epochs takes no part in an election.
LEMMA CollisionStep ==
    ASSUME NEW h, NEW s, NEW n, OK(s, n), NEW m, NEW t, t = clusterHandleConfigEpochCollision(s, m)
    PROVE  Step(h, s, t, n) /\ t.size = s.size
<1>1. t = s \/ t = NewConfigEpoch(s)
  BY DEF clusterHandleConfigEpochCollision
<1> QED  BY <1>1, NewConfigEpochStep, StepRefl

-----------------------------------------------------------------------------
\* Failover

\* clusterFailoverReplaceYourMaster().
LEMMA ReplaceStep ==
    ASSUME NEW h, NEW s, NEW n, OK(s, n), NEW t, t = clusterFailoverReplaceYourMaster(s)
    PROVE  Step(h, s, t, n)
<1> DEFINE old == MyMaster(s)
           f == [x \in Slots |-> IF s.slots[x] = old THEN s.me ELSE s.slots[x]]
           mine == [s EXCEPT !.slots = f]
           p == [mine.known[n] EXCEPT !.slave = FALSE, !.slaveof = None]
           r == SetPeer(mine, n, p)
           flags == {"save", "state"}
           a == Todo(r, flags)
           b == clusterUpdateState(a)
           c == clusterBroadcastPong(b, "all")
           d == resetManualFailover(c)
           save == {"save"}
<1>1. /\ s.me = n /\ n \in Nodes /\ s.slots \in [Slots -> Nodes \cup {None}] /\ s.known[n] \in Peer(Nodes)
      /\ s.known[n].slave \in BOOLEAN /\ None \notin Nodes
      /\ s \in Working(Nodes, Slots, n) /\ Sane(Nodes, Slots, s, n)
  BY OKFields, Setting DEF OK
<1>2. CASE IsMaster(s, n) \/ old = None
  <2>1. t = s
    BY <1>1, <1>2 DEF clusterFailoverReplaceYourMaster
  <2> QED  BY <2>1, StepRefl
<1>3. CASE ~(IsMaster(s, n) \/ old = None)
  <2>1. f \in [Slots -> Nodes \cup {None}]
    BY <1>1
  <2> HIDE DEF f
  <2>2. /\ mine \in Working(Nodes, Slots, n) /\ SameBut(s, mine)
        /\ mine.known = s.known /\ mine.out = s.out
    BY <1>1, <2>1 DEF Working, SameBut
  <2>3. clusterSetNodeAsMaster(mine, n) = a
    BY <1>3, <2>2 DEF clusterSetNodeAsMaster, IsMaster
  <2>4. t = Todo(d, save)
    <3>1. t = Todo(resetManualFailover(clusterBroadcastPong(clusterUpdateState(
                 clusterSetNodeAsMaster(mine, s.me)), "all")), save)
      BY <1>1, <1>3 DEF clusterFailoverReplaceYourMaster, f
    <3> QED  BY <1>1, <2>3, <3>1
  <2> HIDE DEF mine
  <2>5. p \in Peer(Nodes) /\ p.slave = FALSE /\ p.slaveof = None /\ p.flag = s.known[n].flag /\ p.reports = s.known[n].reports
    BY <1>1, <2>2 DEF Peer
  <2> HIDE DEF p
  <2>6. mine \in Working(Nodes, Slots, n) /\ n \in Nodes /\ p \in Peer(Nodes)
    BY <1>1, <2>2, <2>5
  <2>7. /\ r \in Working(Nodes, Slots, n) /\ SameBut(mine, r)
        /\ r.known \in [Nodes -> Peer(Nodes)] /\ r.known[n] = p
        /\ \A x \in Nodes : x # n => r.known[x] = mine.known[x]
        /\ r.out = mine.out
    BY <2>6, PeerIs
  <2> HIDE DEF r
  <2>8. SameBut(s, r) /\ r.out = s.out
    BY <2>2, <2>7 DEF SameBut
  <2>9. Sane(Nodes, Slots, r, n)
    BY <1>1, <2>2, <2>5, <2>7 DEF Sane, Roles
  <2>10. \A x \in Nodes : /\ r.known[x].flag \in {s.known[x].flag, "ok"}
                          /\ r.known[x].reports \subseteq s.known[x].reports
    BY <2>2, <2>5, <2>7
  <2>11. Step(h, s, r, n)
    BY <2>7, <2>8, <2>9, <2>10, TableStep
  <2>12. OK(r, n) /\ flags \in SUBSET {"save", "state"}
    BY <2>11 DEF Step
  <2> HIDE DEF flags
  <2>13. Step(h, r, a, n) /\ OK(a, n)
    BY <2>12, TodoStep DEF Step
  <2> HIDE DEF a
  <2>14. Step(h, a, b, n) /\ OK(b, n)
    BY <2>13, UpdateStateStep DEF Step
  <2> HIDE DEF b
  <2>15. Step(h, b, c, n) /\ OK(c, n)
    BY <2>14, BroadcastStep DEF Step
  <2> HIDE DEF c
  <2>16. Step(h, c, d, n) /\ OK(d, n)
    BY <2>15, ResetStep DEF Step
  <2>17. save \in SUBSET {"save", "state"}
    OBVIOUS
  <2> HIDE DEF d, save
  <2>18. Step(h, d, t, n)
    BY <2>4, <2>16, <2>17, TodoStep
  <2>19. Step(h, s, a, n)
    BY <2>11, <2>13, StepTrans
  <2>20. Step(h, s, b, n)
    BY <2>14, <2>19, StepTrans
  <2>21. Step(h, s, c, n)
    BY <2>15, <2>20, StepTrans
  <2>22. Step(h, s, d, n)
    BY <2>16, <2>21, StepTrans
  <2> QED  BY <2>18, <2>22, StepTrans
<1> QED  BY <1>2, <1>3

\* What elections may see of a handler other than what it notes.
Still(s, t) ==
    /\ t.up = s.up /\ t.auth = s.auth /\ t.auth_sent = s.auth_sent
    /\ t.auth_epoch = s.auth_epoch /\ t.auth_count = s.auth_count
    /\ t.lastVoteEpoch = s.lastVoteEpoch /\ t.currentEpoch >= s.currentEpoch
    /\ Plain(s.out) => Plain(t.out)
    /\ "failover" \in t.todo => "failover" \in s.todo

\* Handlers that take part in an election: from s to t.
Sound(h, s, t, n) == OK(t, n) /\ t.up = s.up /\ (Reasoned(h, s, n) => Reasoned(h, t, n))

\* A new attempt is scheduled.
Retries(s, t) ==
    /\ t.auth \in {"open", "delay"} /\ t.auth_count = 0 /\ t.auth_sent = FALSE
    /\ t.auth_epoch = s.auth_epoch /\ t.lastVoteEpoch = s.lastVoteEpoch /\ t.currentEpoch = s.currentEpoch
    /\ t.log = s.log /\ (Plain(s.out) => Plain(t.out)) /\ t.todo = s.todo

\* The slave asks for votes.
Request(s, t, n, p) ==
    /\ p.type = "auth_request" /\ p.currentEpoch = t.auth_epoch
    /\ Adds(t.out, s.out, Ways(n, Nodes \ {n}, "own"), <<p>>)
\* Node n asks every other node for its vote, in a new epoch.
Asks(s, t, n) ==
    /\ t.auth = s.auth /\ t.auth_count = s.auth_count /\ t.auth_sent = TRUE
    /\ t.lastVoteEpoch = s.lastVoteEpoch /\ t.auth_epoch = s.currentEpoch + 1 /\ t.currentEpoch = s.currentEpoch + 1
    /\ t.log = s.log /\ ("failover" \in t.todo => "failover" \in s.todo) /\ \E p : Request(s, t, n, p)

\* It wins.
Wins(s, t, n) == Still(s, t) /\ t.log = s.log \cup {<<n, "won", s.auth_epoch>>}

\* Fields that the flags do not depend on.
LEMMA SoundFields ==
    ASSUME NEW h, NEW s, NEW t, NEW n, OK(s, n), t \in Working(Nodes, Slots, n), t.up = s.up,
           t.known = s.known, t.slots = s.slots, t.out = s.out
    PROVE  Sound(h, s, t, n)
BY DEF Sound, OK, Sane, Reasoned

\* In a row.
LEMMA SoundTrans ==
    ASSUME NEW h, NEW s, NEW t, NEW r, NEW n, Sound(h, s, t, n), Sound(h, t, r, n)  PROVE Sound(h, s, r, n)
BY DEF Sound

\* Those that leave elections alone.
LEMMA StepSound == ASSUME NEW h, NEW s, NEW t, NEW n, Step(h, s, t, n)  PROVE Sound(h, s, t, n)
BY DEF Step, Sound, Calm

\* clusterHandleSlaveFailover(): a new attempt.
WithAuth(s, a) == [s EXCEPT !.auth = a, !.auth_count = 0, !.auth_sent = FALSE]
\* A slave that schedules its election, or puts it off, tells the other slaves.
LEMMA RetryIs ==
    ASSUME NEW h, NEW s, NEW n, OK(s, n), NEW a, a \in {"open", "delay"},
           NEW t, t = clusterBroadcastPong(WithAuth(s, a), "local")
    PROVE  Sound(h, s, t, n) /\ Retries(s, t)
<1> DEFINE r == WithAuth(s, a)
<1>1. s \in Working(Nodes, Slots, n)
  BY DEF OK
<1>2. r \in Working(Nodes, Slots, n)
  BY <1>1 DEF Working, WithAuth, Phases
<1>3. /\ r.auth = a /\ r.auth_count = 0 /\ r.auth_sent = FALSE
      /\ r.up = s.up /\ r.auth_epoch = s.auth_epoch /\ r.lastVoteEpoch = s.lastVoteEpoch
      /\ r.currentEpoch = s.currentEpoch /\ r.log = s.log
      /\ r.out = s.out /\ r.known = s.known /\ r.slots = s.slots /\ r.todo = s.todo
  BY <1>1 DEF Working, WithAuth
<1>4. t = clusterBroadcastPong(r, "local")
  OBVIOUS
<1> HIDE DEF r
<1>5. Sound(h, s, r, n)
  BY <1>2, <1>3, SoundFields
<1>6. OK(r, n)
  BY <1>5 DEF Sound
<1>7. Step(h, r, t, n)
  BY <1>4, <1>6, BroadcastStep
<1>8. Sound(h, s, t, n)
  BY <1>5, <1>7, StepSound, SoundTrans
<1>9. SameBut(r, t)
  <2> DEFINE to == {m \in Others(r) : /\ IsSlave(r, m)
                                      /\ r.known[m].slaveof # None
                                      /\ r.known[m].slaveof \in {r.me, MyMaster(r)}}
             msgs == <<clusterBuildMessageHdr(r, "pong", [m \in Nodes \ {r.me} |-> r.known[m].flag])>>
  <2>1. t = clusterSendMessage(r, to, "own", msgs)
    BY <1>4 DEF clusterBroadcastPong, clusterSendPing
  <2> HIDE DEF to, msgs
  <2>2. t = [r EXCEPT !.out = Queue(r.out, {<<r.me, m, "own">> : m \in to}, msgs)]
    BY <2>1 DEF clusterSendMessage
  <2>3. r \in Working(Nodes, Slots, n)
    BY <1>2
  <2> QED  BY <2>2, <2>3 DEF SameBut, Working
<1>10. Plain(r.out) => Plain(t.out)
  BY <1>7 DEF Step, Calm
<1>11. Retries(s, t)
  BY <1>3, <1>9, <1>10 DEF Retries, SameBut
<1> QED  BY <1>8, <1>11

\* Votes are asked for.
WithAsk(s) == [s EXCEPT !.currentEpoch = @ + 1, !.auth_epoch = s.currentEpoch + 1]
\* The requests are sent.
WithSent(s) == [s EXCEPT !.auth_sent = TRUE]
\* A slave that asks for votes does nothing else.
LEMMA AskIs ==
    ASSUME NEW h, NEW s, NEW n, OK(s, n),
           NEW t, t = Todo(WithSent(clusterRequestFailoverAuth(WithAsk(s))), {"save", "state"})
    PROVE  Sound(h, s, t, n) /\ Asks(s, t, n)
<1> DEFINE a == WithAsk(s)
           type == "auth_request"
           data == a.mf_end
           p == clusterBuildMessageHdr(a, type, data)
           to == Nodes \ {n}
           kind == "own"
           msgs == <<p>>
           b == clusterSendMessage(a, to, kind, msgs)
           c == WithSent(b)
           f == {"save", "state"}
<1>1. s \in Working(Nodes, Slots, n) /\ s.currentEpoch \in Nat
  BY OKFields DEF OK
<1>2. a \in Working(Nodes, Slots, n)
  <2> DEFINE e == s.currentEpoch + 1
  <2>1. e \in Nat /\ a = [s EXCEPT !.currentEpoch = e, !.auth_epoch = e]
    BY <1>1 DEF WithAsk
  <2> HIDE DEF e
  <2>2. [s EXCEPT !.currentEpoch = e, !.auth_epoch = e] \in Working(Nodes, Slots, n)
    BY <1>1, <2>1 DEF Working
  <2> QED  BY <2>1, <2>2
<1>3. /\ a.auth = s.auth /\ a.auth_count = s.auth_count /\ a.up = s.up /\ a.lastVoteEpoch = s.lastVoteEpoch
      /\ a.auth_epoch = s.currentEpoch + 1 /\ a.currentEpoch = s.currentEpoch + 1 /\ a.log = s.log
      /\ a.out = s.out /\ a.known = s.known /\ a.slots = s.slots /\ a.todo = s.todo
  BY <1>1 DEF Working, WithAsk
<1>4. t = Todo(WithSent(clusterRequestFailoverAuth(a)), f)
  OBVIOUS
<1> HIDE DEF a
<1>5. Sound(h, s, a, n)
  BY <1>1, <1>2, <1>3, SoundFields
<1>6. OK(a, n) /\ a.me = n /\ data \in BOOLEAN
  BY <1>5, OKFields DEF Sound
<1>7. t = Todo(c, f)
  <2>1. clusterRequestFailoverAuth(a) = b
    BY <1>6 DEF clusterRequestFailoverAuth, Others
  <2> QED  BY <1>4, <2>1
<1>8. p = clusterBuildMessageHdr(a, type, data) /\ b = clusterSendMessage(a, to, kind, msgs)
  OBVIOUS
<1> HIDE DEF data, p
<1>9. p \in Packet(Nodes, Slots, n, {type}, BOOLEAN) /\ p.type = type /\ p.currentEpoch = a.currentEpoch
  BY <1>6, <1>8, HeaderIs
<1>10. p \in Packets(Nodes, Slots, n)
  BY <1>9, PacketTypes
<1>11. Sendable(n, to, kind, msgs)
  BY <1>10, Single DEF Sendable
<1>12. \A j \in DOMAIN msgs : msgs[j] = p
  OBVIOUS
<1>13. p.type = "auth_request"
  BY <1>9
<1> HIDE DEF msgs, b, to, kind, type
<1>14. /\ OK(b, n) /\ SameBut(a, b) /\ b.known = a.known /\ b.slots = a.slots
       /\ Adds(b.out, a.out, Ways(n, to, kind), msgs)
  BY <1>6, <1>8, <1>11, SendIs
<1>15. Sound(h, a, b, n)
  <2>1. ASSUME Reasoned(h, a, n)  PROVE Reasoned(h, b, n)
    <3>1. Told(Nodes, Slots, h, p)
      BY <1>13 DEF Told
    <3> QED  BY <1>12, <1>14, <2>1, <3>1 DEF Reasoned, AllTold, Adds
  <2> QED  BY <1>14, <2>1 DEF Sound, SameBut
<1>16. b \in Working(Nodes, Slots, n)
  BY <1>14 DEF OK
<1>17. c \in Working(Nodes, Slots, n)
  BY <1>16 DEF Working, WithSent
<1>18. /\ c.auth = b.auth /\ c.auth_count = b.auth_count /\ c.up = b.up /\ c.lastVoteEpoch = b.lastVoteEpoch
       /\ c.auth_epoch = b.auth_epoch /\ c.currentEpoch = b.currentEpoch /\ c.log = b.log /\ c.auth_sent = TRUE
       /\ c.out = b.out /\ c.known = b.known /\ c.slots = b.slots /\ c.todo = b.todo
  BY <1>16 DEF Working, WithSent
<1> HIDE DEF c
<1>19. Sound(h, b, c, n)
  BY <1>14, <1>17, <1>18, SoundFields
<1>20. OK(c, n) /\ f \in SUBSET {"save", "state"}
  BY <1>19 DEF Sound
<1> HIDE DEF f
<1>21. Step(h, c, t, n)
  BY <1>7, <1>20, TodoStep
<1>22. Sound(h, s, t, n)
  BY <1>5, <1>15, <1>19, <1>21, StepSound, SoundTrans
<1>23. t.out = c.out /\ t.currentEpoch = c.currentEpoch
  <2>1. c \in Working(Nodes, Slots, n)
    BY <1>17
  <2> QED  BY <1>7, <2>1 DEF Todo, Working
<1>24. Request(s, t, n, p)
  <2>1. t.auth_epoch = a.auth_epoch
    BY <1>14, <1>18, <1>21 DEF SameBut, Step, Calm
  <2>2. Adds(t.out, s.out, Ways(n, Nodes \ {n}, "own"), <<p>>)
    BY <1>3, <1>14, <1>18, <1>23 DEF to, kind, msgs
  <2> QED  BY <1>3, <1>9, <1>13, <2>1, <2>2 DEF Request
<1>25. Asks(s, t, n)
  BY <1>3, <1>14, <1>18, <1>21, <1>23, <1>24 DEF Asks, SameBut, Step, Calm
<1> QED  BY <1>22, <1>25

\* The election is won.
WithLog(s, note) == [s EXCEPT !.log = @ \cup {note}]
\* Noting something for the history changes nothing else.
LEMMA LogIs ==
    ASSUME NEW h, NEW s, NEW n, OK(s, n), NEW note \in Notes(Nodes), NEW t, t = WithLog(s, note)
    PROVE  Sound(h, s, t, n) /\ Still(s, t) /\ t.log = s.log \cup {note}
<1>1. s \in Working(Nodes, Slots, n) /\ s.currentEpoch \in Nat /\ s.log \cup {note} \in SUBSET Notes(Nodes)
  BY OKFields DEF OK
<1>2. [s EXCEPT !.log = s.log \cup {note}] \in Working(Nodes, Slots, n)
  BY <1>1 DEF Working
<1>3. t \in Working(Nodes, Slots, n)
  BY <1>2 DEF WithLog
<1>4. /\ t.auth = s.auth /\ t.auth_count = s.auth_count /\ t.auth_sent = s.auth_sent /\ t.up = s.up
      /\ t.lastVoteEpoch = s.lastVoteEpoch /\ t.auth_epoch = s.auth_epoch /\ t.currentEpoch = s.currentEpoch
      /\ t.out = s.out /\ t.known = s.known /\ t.slots = s.slots /\ t.log = s.log \cup {note} /\ t.todo = s.todo
  BY <1>1 DEF Working, WithLog
<1>5. Sound(h, s, t, n)
  BY <1>3, <1>4, SoundFields
<1> QED  BY <1>1, <1>4, <1>5 DEF Still

\* The epoch that the winner takes.
WithWon(s, n) == SetPeer(s, n, WithEpoch(s.known[n], Max({s.known[n].configEpoch, s.auth_epoch})))
\* A slave that counts enough votes wins, in the epoch it asked in.
LEMMA WinIs ==
    ASSUME NEW h, NEW s, NEW n, OK(s, n),
           NEW t, t = clusterFailoverReplaceYourMaster(WithLog(WithWon(s, n), <<n, "won", s.auth_epoch>>))
    PROVE  Sound(h, s, t, n) /\ Wins(s, t, n)
<1> DEFINE e == Max({s.known[n].configEpoch, s.auth_epoch})
           p == WithEpoch(s.known[n], e)
           r == SetPeer(s, n, p)
           note == <<n, "won", s.auth_epoch>>
           w == WithLog(r, note)
<1>1. n \in Nodes /\ s.known[n].configEpoch \in Nat /\ s.auth_epoch \in Nat
  BY OKFields
<1>2. n \in Nodes /\ e \in Nat /\ note \in Notes(Nodes)
  BY <1>1, Max2 DEF Notes
<1>3. t = clusterFailoverReplaceYourMaster(w) /\ p = WithEpoch(s.known[n], e) /\ r = SetPeer(s, n, p) /\ w = WithLog(r, note)
  BY DEF WithWon
<1> HIDE DEF e, p, r, note, w
<1>4. Tame(s, n, n, p)
  BY <1>2, <1>3, PeerEpochTame
<1>5. Step(h, s, r, n)
  BY <1>3, <1>4, TameStep
<1>6. OK(r, n)
  BY <1>5 DEF Step
<1>7. Sound(h, r, w, n) /\ Still(r, w) /\ w.log = r.log \cup {note}
  BY <1>2, <1>3, <1>6, LogIs
<1>8. OK(w, n)
  BY <1>7 DEF Sound
<1>9. Step(h, w, t, n)
  BY <1>3, <1>8, ReplaceStep
<1>10. Sound(h, s, t, n)
  BY <1>5, <1>7, <1>9, StepSound, SoundTrans
<1>11. s.currentEpoch \in Nat /\ r.currentEpoch \in Nat /\ w.currentEpoch \in Nat /\ t.currentEpoch \in Nat
  BY <1>5, <1>6, <1>8, <1>9, OKFields DEF Step
<1>12. Still(s, t)
  BY <1>5, <1>7, <1>9, <1>11 DEF Step, Calm, Still
<1>13. t.log = s.log \cup {note}
  BY <1>5, <1>7, <1>9 DEF Step, Calm
<1> QED  BY <1>10, <1>12, <1>13 DEF Wins, note

\* clusterHandleSlaveFailover().
LEMMA SlaveFailoverIs ==
    ASSUME NEW h, NEW s, NEW n, OK(s, n), NEW t, t = clusterHandleSlaveFailover(s)
    PROVE  \/ t = s
           \/ IsSlave(s, n) /\ s.auth = "retry" /\ Sound(h, s, t, n) /\ Retries(s, t)
           \/ IsSlave(s, n) /\ s.auth = "open" /\ ~s.auth_sent /\ Sound(h, s, t, n) /\ Asks(s, t, n)
           \/ IsSlave(s, n) /\ s.auth = "open" /\ s.auth_sent /\ s.auth_count >= s.size \div 2 + 1
              /\ Sound(h, s, t, n) /\ Wins(s, t, n)
<1>1. s.me = n /\ s.auth \in Phases
  BY OKFields
<1> DEFINE a == IF s.mf_end THEN "open" ELSE "delay"
           retry == clusterBroadcastPong(WithAuth(s, a), "local")
           ask == Todo(WithSent(clusterRequestFailoverAuth(WithAsk(s))), {"save", "state"})
           win == clusterFailoverReplaceYourMaster(WithLog(WithWon(s, n), <<n, "won", s.auth_epoch>>))
<1>2. /\ retry = clusterBroadcastPong([s EXCEPT !.auth = IF s.mf_end THEN "open" ELSE "delay",
                                                !.auth_count = 0, !.auth_sent = FALSE], "local")
      /\ ask = Todo([clusterRequestFailoverAuth([s EXCEPT !.currentEpoch = @ + 1, !.auth_epoch = s.currentEpoch + 1])
                       EXCEPT !.auth_sent = TRUE], {"save", "state"})
  BY DEF WithAuth, WithAsk, WithSent
<1>3. win = clusterFailoverReplaceYourMaster(
               [SetPeer(s, s.me, [s.known[s.me] EXCEPT !.configEpoch = Max({@, s.auth_epoch})])
                  EXCEPT !.log = @ \cup {<<s.me, "won", s.auth_epoch>>}])
  BY <1>1 DEF WithLog, WithWon, WithEpoch
<1> DEFINE needed == /\ IsSlave(s, s.me) /\ MyMaster(s) # None
                     /\ Failed(s, MyMaster(s)) \/ (s.mf_end /\ s.mf_can_start)
                     /\ NumSlots(s, MyMaster(s)) # 0
<1>4. t = CASE needed /\ s.auth = "retry" -> retry
         [] needed /\ s.auth = "open" /\ ~s.auth_sent -> ask
         [] needed /\ s.auth = "open" /\ s.auth_sent /\ s.auth_count >= s.size \div 2 + 1 -> win
         [] OTHER -> s
  BY <1>2, <1>3 DEF clusterHandleSlaveFailover
<1>5. a \in {"open", "delay"}
  OBVIOUS
<1> HIDE DEF a
<1>6. Sound(h, s, retry, n) /\ Retries(s, retry)
  BY <1>5, RetryIs
<1>7. Sound(h, s, ask, n) /\ Asks(s, ask, n)
  BY AskIs
<1>8. Sound(h, s, win, n) /\ Wins(s, win, n)
  BY WinIs
<1> HIDE DEF retry, ask, win
<1>9. needed => IsSlave(s, n)
  BY <1>1
<1> HIDE DEF needed
<1>10. \/ t = s
       \/ IsSlave(s, n) /\ s.auth = "retry" /\ t = retry
       \/ IsSlave(s, n) /\ s.auth = "open" /\ ~s.auth_sent /\ t = ask
       \/ IsSlave(s, n) /\ s.auth = "open" /\ s.auth_sent /\ s.auth_count >= s.size \div 2 + 1 /\ t = win
  BY <1>4, <1>9
<1> QED  BY <1>6, <1>7, <1>8, <1>10

\* clusterHandleManualFailover().
LEMMA ManualFailoverStep ==
    ASSUME NEW h, NEW s, NEW n, OK(s, n), NEW t, t = clusterHandleManualFailover(s)
    PROVE  /\ Step(h, s, t, n) /\ t.size = s.size /\ t.known = s.known /\ t.out = s.out /\ t.todo = s.todo
           /\ t.currentEpoch = s.currentEpoch
<1>1. t = s \/ t = [s EXCEPT !.mf_can_start = TRUE]
  BY DEF clusterHandleManualFailover
<1>2. CASE t = s
  BY <1>2, StepRefl
<1>3. CASE t = [s EXCEPT !.mf_can_start = TRUE]
  <2>1. s \in Working(Nodes, Slots, n) /\ s.currentEpoch \in Nat
    BY OKFields DEF OK
  <2>2. [s EXCEPT !.mf_can_start = TRUE] \in Working(Nodes, Slots, n)
    BY <2>1 DEF Working
  <2>3. /\ t.up = s.up /\ t.auth = s.auth /\ t.auth_sent = s.auth_sent
        /\ t.auth_epoch = s.auth_epoch /\ t.auth_count = s.auth_count
        /\ t.lastVoteEpoch = s.lastVoteEpoch /\ t.currentEpoch = s.currentEpoch /\ t.log = s.log /\ t.size = s.size
        /\ t.out = s.out /\ t.known = s.known /\ t.slots = s.slots /\ t.todo = s.todo
    BY <1>3, <2>1 DEF Working
  <2>4. t.currentEpoch >= s.currentEpoch
    BY <2>1, <2>3
  <2> QED  BY <1>3, <2>2, <2>3, <2>4, StepFields
<1> QED  BY <1>1, <1>2, <1>3

\* A node votes for m.
Ack(s, t, n, m, a) ==
    a.type = "auth_ack" /\ a.currentEpoch = s.currentEpoch /\ t.out = Queue(s.out, Ways(n, {m}, "own"), <<a>>)
\* Node n votes for m, in the current epoch, in which it had not voted.
VotesFor(s, t, n, m) ==
    /\ t.auth = s.auth /\ t.auth_sent = s.auth_sent /\ t.auth_epoch = s.auth_epoch /\ t.auth_count = s.auth_count
    /\ s.lastVoteEpoch # s.currentEpoch /\ t.lastVoteEpoch = s.currentEpoch /\ t.currentEpoch = s.currentEpoch
    /\ t.log = s.log \cup {<<n, "vote", s.currentEpoch, m>>} /\ t.todo = s.todo
    /\ \E a : Ack(s, t, n, m, a)

\* What a vote changes in the voter itself.
WithVote(s, e, note) == [s EXCEPT !.lastVoteEpoch = e, !.log = @ \cup {note}]
\* What a vote changes in what the voter keeps of the master it is about.
Voted(p) == [p EXCEPT !.voted = TRUE]
\* What the vote does.
LEMMA VoteIs ==
    ASSUME NEW h, NEW s, NEW n, OK(s, n), NEW m \in Nodes, m # n, NEW master \in Nodes, s.lastVoteEpoch # s.currentEpoch,
           NEW t, t = WithVote(SetPeer(clusterSendFailoverAuth(s, m), master, Voted(s.known[master])),
                               s.currentEpoch, <<n, "vote", s.currentEpoch, m>>)
    PROVE  Sound(h, s, t, n) /\ VotesFor(s, t, n, m)
<1> DEFINE type == "auth_ack"
           data == None
           D == {None}
           a == clusterBuildMessageHdr(s, type, data)
           to == {m}
           kind == "own"
           msgs == <<a>>
           b == clusterSendMessage(s, to, kind, msgs)
           q == Voted(s.known[master])
           r == SetPeer(b, master, q)
           note == <<n, "vote", s.currentEpoch, m>>
           e == s.currentEpoch
<1>1. /\ n \in Nodes /\ s.me = n /\ s.currentEpoch \in Nat /\ s.known[master] \in Peer(Nodes)
      /\ (s.known[master].slave <=> s.known[master].slaveof # None) /\ s.known[n].slaveof # n
  BY OKFields
<1>2. t = WithVote(r, e, note)
  BY DEF clusterSendFailoverAuth
<1>3. a = clusterBuildMessageHdr(s, type, data) /\ b = clusterSendMessage(s, to, kind, msgs) /\ data \in D
  OBVIOUS
<1>4. e \in Nat /\ note \in Notes(Nodes)
  BY <1>1 DEF Notes
<1>5. Voted(s.known[master]) \in Peer(Nodes)
  BY <1>1 DEF Voted, Peer
<1>6. /\ q.slave = s.known[master].slave /\ q.slaveof = s.known[master].slaveof
      /\ q.flag = s.known[master].flag /\ q.reports = s.known[master].reports /\ q \in Peer(Nodes)
  BY <1>1, <1>5 DEF Voted, Peer
<1> HIDE DEF a, data, D, q
<1>7. a \in Packet(Nodes, Slots, n, {type}, D) /\ a.type = type /\ a.currentEpoch = s.currentEpoch
  BY <1>3, HeaderIs
<1>8. a \in Packets(Nodes, Slots, n)
  BY <1>7, PacketTypes DEF D
<1>9. Sendable(n, to, kind, msgs)
  BY <1>8, Single DEF Sendable
<1>10. (\A j \in DOMAIN msgs : msgs[j] = a) /\ a.type = "auth_ack"
  BY <1>7
<1> HIDE DEF msgs, b, to, kind, type, note, e
<1>11. /\ OK(b, n) /\ SameBut(s, b) /\ b.known = s.known /\ b.slots = s.slots
       /\ Adds(b.out, s.out, Ways(n, to, kind), msgs) /\ b.out = Queue(s.out, Ways(n, to, kind), msgs)
  BY <1>3, <1>9, SendIs
<1>12. Sound(h, s, b, n)
  <2>1. ASSUME Reasoned(h, s, n)  PROVE Reasoned(h, b, n)
    <3>1. Told(Nodes, Slots, h, a)
      BY <1>10 DEF Told
    <3> QED  BY <1>10, <1>11, <2>1, <3>1 DEF Reasoned, AllTold, Adds
  <2> QED  BY <1>11, <2>1 DEF Sound, SameBut
<1>13. Tame(b, n, master, q)
  BY <1>1, <1>6, <1>11 DEF Tame
<1>14. Step(h, b, r, n)
  BY <1>11, <1>13, TameStep
<1>15. SameBut(b, r) /\ r.out = b.out
  BY <1>11, <1>13, TameIs
<1> HIDE DEF r
<1>16. r \in Working(Nodes, Slots, n) /\ r.log \cup {note} \in SUBSET Notes(Nodes) /\ OK(r, n)
  BY <1>4, <1>14, OKFields DEF Step, OK
<1>17. [r EXCEPT !.lastVoteEpoch = e, !.log = r.log \cup {note}] \in Working(Nodes, Slots, n)
  BY <1>4, <1>16 DEF Working
<1>18. t \in Working(Nodes, Slots, n)
  BY <1>2, <1>17 DEF WithVote
<1>19. /\ t.auth = r.auth /\ t.auth_count = r.auth_count /\ t.up = r.up /\ t.lastVoteEpoch = e
       /\ t.auth_epoch = r.auth_epoch /\ t.currentEpoch = r.currentEpoch /\ t.log = r.log \cup {note} /\ t.auth_sent = r.auth_sent
       /\ t.out = r.out /\ t.known = r.known /\ t.slots = r.slots /\ t.todo = r.todo
  BY <1>2, <1>16 DEF Working, WithVote
<1>20. Sound(h, r, t, n)
  BY <1>16, <1>18, <1>19, SoundFields
<1>21. Sound(h, s, t, n)
  BY <1>12, <1>14, <1>20, StepSound, SoundTrans
<1>22. Ack(s, t, n, m, a)
  BY <1>7, <1>10, <1>11, <1>15, <1>19 DEF Ack, to, kind, msgs
<1>23. VotesFor(s, t, n, m)
  BY <1>11, <1>15, <1>19, <1>22 DEF VotesFor, SameBut, e, note
<1> QED  BY <1>21, <1>23

\* clusterSendFailoverAuthIfNeeded().
LEMMA VoteIfNeeded ==
    ASSUME NEW h, NEW s, NEW n, OK(s, n), NEW m \in Nodes, m # n, NEW p, NEW aged,
           NEW t, t = clusterSendFailoverAuthIfNeeded(s, m, p, aged)
    PROVE  \/ t = s
           \/ ~(p.currentEpoch < s.currentEpoch) /\ Sound(h, s, t, n) /\ VotesFor(s, t, n, m)
<1> DEFINE master == s.known[m].slaveof
           vote == WithVote(SetPeer(clusterSendFailoverAuth(s, m), master, Voted(s.known[master])),
                            s.currentEpoch, <<n, "vote", s.currentEpoch, m>>)
<1>1. s.me = n /\ master \in Nodes \cup {None}
  BY OKFields
<1>2. \/ t = s
      \/ t = vote /\ master # None /\ s.lastVoteEpoch # s.currentEpoch /\ ~(p.currentEpoch < s.currentEpoch)
  BY <1>1 DEF clusterSendFailoverAuthIfNeeded, WithVote, Voted
<1>3. CASE t = vote /\ master # None /\ s.lastVoteEpoch # s.currentEpoch /\ ~(p.currentEpoch < s.currentEpoch)
  <2>1. master \in Nodes /\ s.lastVoteEpoch # s.currentEpoch
    BY <1>1, <1>3
  <2>2. t = vote
    BY <1>3
  <2> HIDE DEF master
  <2>3. Sound(h, s, t, n) /\ VotesFor(s, t, n, m)
    BY <2>1, <2>2, VoteIs
  <2> QED  BY <1>3, <2>3
<1> QED  BY <1>2, <1>3

-----------------------------------------------------------------------------
\* Failure detection

\* The node counts all the masters, or more.
Full(s) == s.size \div 2 + 1 >= Cardinality(Slots) \div 2 + 1

\* A handler leaves elections alone and, if what it was told (b) has a reason and the quorum is a majority,
\* its flags have one.
Move(b, h, s, t, n) ==
    /\ OK(t, n) /\ Calm(s, t) /\ t.size = s.size
    /\ b /\ Full(s) /\ Reasoned(h, s, n) => Reasoned(h, t, n)

\* Handlers in a row.
LEMMA MoveTrans ==
    ASSUME NEW b, NEW h, NEW s, NEW t, NEW r, NEW n, OK(s, n), Move(b, h, s, t, n), Move(b, h, t, r, n)
    PROVE  Move(b, h, s, r, n)
<1>1. s.currentEpoch \in Nat /\ t.currentEpoch \in Nat /\ r.currentEpoch \in Nat
  BY OKFields DEF Move
<1>2. Calm(s, r)
  BY <1>1 DEF Move, Calm
<1>3. Full(s) => Full(t)
  BY DEF Full, Move
<1> QED  BY <1>2, <1>3 DEF Move

\* Those whose flags always have a reason.
LEMMA StepMove == ASSUME NEW b, NEW h, NEW s, NEW t, NEW n, Step(h, s, t, n), t.size = s.size  PROVE Move(b, h, s, t, n)
BY DEF Step, Move

\* Sizes of sets of nodes.
LEMMA Sizes ==
    ASSUME setup \in Setups, NEW A, A \subseteq Nodes
    PROVE  IsFiniteSet(A) /\ Cardinality(A) \in Nat
BY Setting, FS_Subset, FS_CardinalityType

\* A subset has no more members.
LEMMA Larger ==
    ASSUME setup \in Setups, NEW A, NEW B, A \subseteq B, B \subseteq Nodes
    PROVE  Cardinality(A) <= Cardinality(B)
<1>1. IsFiniteSet(B)
  BY Sizes
<1> QED  BY <1>1, FS_Subset

\* Enough failure reports: a majority suspects the node.
LEMMA EnoughReports ==
    ASSUME NEW h, NEW s, NEW n, OK(s, n), Full(s), Reasoned(h, s, n), NEW m \in Nodes, TimedOut(s, m),
           Cardinality(s.known[m].reports) + (IF IsMaster(s, s.me) THEN 1 ELSE 0) >= s.size \div 2 + 1
    PROVE  Down(Nodes, Slots, h, m)
<1> DEFINE R == s.known[m].reports
           A == Suspecters(Nodes, h, m)
<1>1. R \subseteq Nodes /\ setup \in Setups /\ n \in Nodes /\ s.size \in Nat /\ A \subseteq Nodes
  BY OKFields DEF OK, Suspecters
<1>2. n \notin R /\ (Down(Nodes, Slots, h, m) \/ R \subseteq A) /\ <<n, "suspect", m>> \in h
  BY DEF Reasoned, FlagsOK, Founded, TimedOut
<1>3. n \in A
  BY <1>1, <1>2 DEF Suspecters
<1> HIDE DEF R, A
<1> SUFFICES ASSUME R \subseteq A PROVE Down(Nodes, Slots, h, m)
  BY <1>2
<1>4. IsFiniteSet(R) /\ Cardinality(R) \in Nat /\ Cardinality(A) \in Nat
  BY <1>1, Sizes
<1>5. Cardinality(R \cup {n}) = Cardinality(R) + 1
  BY <1>2, <1>4, FS_AddElement
<1>6. Cardinality(R \cup {n}) <= Cardinality(A)
  BY <1>1, <1>3, Larger
<1>7. Cardinality(R) + 1 >= s.size \div 2 + 1
  BY <1>4, <1>1 DEF R
<1>8. s.size \div 2 \in Nat
  BY <1>1
<1>10. IsFiniteSet(Slots) /\ Cardinality(Slots) \in Nat
  BY <1>1, Setting, FS_CardinalityType
<1>9. Cardinality(Slots) \div 2 \in Nat
  BY <1>10
<1>11. s.size \div 2 + 1 >= Cardinality(Slots) \div 2 + 1
  BY DEF Full
<1> DEFINE x == s.size \div 2
           y == Cardinality(Slots) \div 2
<1> HIDE DEF x, y
<1>12. Cardinality(A) >= y + 1
  BY <1>4, <1>5, <1>6, <1>7, <1>8, <1>9, <1>11 DEF x, y
<1> QED  BY <1>12 DEF Down, A, y

\* Nodes are flagged as failing.
FailTable(s, ms) == [m \in Nodes |-> IF m \in ms THEN [s.known[m] EXCEPT !.flag = "fail"] ELSE s.known[m]]
\* Only what the node keeps of its peers changes.
WithKnown(s, k) == [s EXCEPT !.known = k]
\* Under b, and with a full quorum, the nodes in ms are down.
Flaggable(b, h, s, n, ms) ==
    ms \subseteq Nodes /\ (b /\ Full(s) /\ Reasoned(h, s, n) => \A m \in ms : Down(Nodes, Slots, h, m))
\* Such nodes may be flagged as failing.
LEMMA FlagMove ==
    ASSUME NEW b, NEW h, NEW s, NEW n, OK(s, n), NEW ms, Flaggable(b, h, s, n, ms), NEW t, t = WithKnown(s, FailTable(s, ms))
    PROVE  Move(b, h, s, t, n) /\ (Reasoned(h, t, n) => \A m \in ms : Down(Nodes, Slots, h, m))
<1> DEFINE k == FailTable(s, ms)
<1>13. t = [s EXCEPT !.known = k] /\ ms \subseteq Nodes
  BY DEF WithKnown, Flaggable
<1>1. s \in Working(Nodes, Slots, n) /\ Sane(Nodes, Slots, s, n) /\ setup \in Setups /\ n \in Nodes
  BY DEF OK
<1>2. \A m \in Nodes : s.known[m] \in Peer(Nodes)
  BY OKFields
<1>3. ASSUME NEW m \in Nodes
      PROVE  /\ k[m] \in Peer(Nodes) /\ k[m].slave = s.known[m].slave /\ k[m].slaveof = s.known[m].slaveof
             /\ k[m].reports = s.known[m].reports
             /\ k[m].flag = IF m \in ms THEN "fail" ELSE s.known[m].flag
  <2>1. s.known[m] \in Peer(Nodes)
    BY <1>2
  <2>2. k[m] = IF m \in ms THEN [s.known[m] EXCEPT !.flag = "fail"] ELSE s.known[m]
    BY DEF FailTable
  <2> QED  BY <2>1, <2>2 DEF Peer
<1>4. k \in [Nodes -> Peer(Nodes)]
  BY <1>3 DEF FailTable
<1> HIDE DEF k
<1>14. s \in Working(Nodes, Slots, n)
  BY <1>1
<1>5. t \in Working(Nodes, Slots, n) /\ SameBut(s, t) /\ t.known = k /\ t.slots = s.slots /\ t.out = s.out
  BY <1>4, <1>13, <1>14, KnownIs
<1>6. Sane(Nodes, Slots, t, n)
  BY <1>1, <1>3, <1>5 DEF Sane, Roles
<1>7. OK(t, n)
  BY <1>1, <1>5, <1>6 DEF OK
<1>8. s.currentEpoch \in Nat
  BY OKFields
<1>9. Calm(s, t)
  BY <1>5, <1>8, CalmSame
<1>10. ASSUME b, Full(s), Reasoned(h, s, n)  PROVE Reasoned(h, t, n)
  <2>1. ASSUME NEW m \in Nodes
        PROVE  /\ Founded(Nodes, Slots, h, n, m, t.known[m].flag)
               /\ n \notin t.known[m].reports
               /\ Down(Nodes, Slots, h, m) \/ t.known[m].reports \subseteq Suspecters(Nodes, h, m)
    <3>1. /\ Founded(Nodes, Slots, h, n, m, s.known[m].flag)
          /\ n \notin s.known[m].reports
          /\ Down(Nodes, Slots, h, m) \/ s.known[m].reports \subseteq Suspecters(Nodes, h, m)
      BY <1>10 DEF Reasoned, FlagsOK
    <3> QED  BY <1>3, <1>5, <1>10, <3>1 DEF Founded, Flaggable
  <2> QED  BY <1>5, <1>10, <2>1 DEF Reasoned, FlagsOK
<1>11. t.size = s.size
  BY <1>5 DEF SameBut
<1>12. \A m \in ms : m \in Nodes /\ t.known[m].flag = "fail"
  BY <1>3, <1>5, <1>13
<1>15. Reasoned(h, t, n) => \A m \in ms : Down(Nodes, Slots, h, m)
  BY <1>12 DEF Reasoned, FlagsOK, Founded
<1> QED  BY <1>7, <1>9, <1>10, <1>11, <1>15 DEF Move

\* markNodeAsFailingIfNeeded().
LEMMA MarkMove ==
    ASSUME NEW b, NEW h, NEW s, NEW n, OK(s, n), NEW ms, ms \subseteq Nodes, NEW t, t = markNodeAsFailingIfNeeded(s, ms)
    PROVE  Move(b, h, s, t, n)
<1> DEFINE failures(m) == Cardinality(s.known[m].reports) + (IF IsMaster(s, s.me) THEN 1 ELSE 0)
           failing == {m \in ms : TimedOut(s, m) /\ failures(m) >= s.size \div 2 + 1}
           k == [m \in Nodes |-> IF m \in failing THEN [s.known[m] EXCEPT !.flag = "fail"] ELSE s.known[m]]
           failed == [s EXCEPT !.known = k]
           told == IF IsMaster(s, s.me) THEN clusterSendFail(failed, failing) ELSE failed
           f == {"state", "save"}
<1>1. t = IF failing = {} THEN s ELSE Todo(told, f)
  BY DEF markNodeAsFailingIfNeeded
<1>2. CASE failing = {}
  <2>1. t = s
    BY <1>1, <1>2
  <2> QED  BY <2>1, StepRefl, StepMove
<1>3. CASE failing # {}
  <2>1. failing \subseteq Nodes
    OBVIOUS
  <2>2. Full(s) /\ Reasoned(h, s, n) => \A m \in failing : Down(Nodes, Slots, h, m)
    BY EnoughReports
  <2>3. failed = WithKnown(s, FailTable(s, failing))
    BY DEF WithKnown, FailTable
  <2>4. Flaggable(b, h, s, n, failing)
    BY <2>1, <2>2 DEF Flaggable
  <2>5. t = Todo(told, f)
    BY <1>1, <1>3
  <2> HIDE DEF failing, k, failed
  <2>6. Move(b, h, s, failed, n) /\ (Reasoned(h, failed, n) => \A m \in failing : Down(Nodes, Slots, h, m))
    BY <2>3, <2>4, FlagMove
  <2>7. OK(failed, n)
    BY <2>6 DEF Move
  <2>8. Failing(h, failed, n, failing)
    BY <1>3, <2>1, <2>6 DEF Failing
  <2> DEFINE sent == clusterSendFail(failed, failing)
  <2>9. Step(h, failed, sent, n) /\ sent.size = failed.size
    BY <2>7, <2>8, SendFailing
  <2>10. Step(h, failed, failed, n)
    BY <2>7, StepRefl
  <2> HIDE DEF sent
  <2>11. Step(h, failed, told, n) /\ told.size = failed.size
    BY <2>9, <2>10 DEF sent
  <2> HIDE DEF told
  <2>12. OK(told, n) /\ f \in SUBSET {"save", "state"}
    BY <2>11 DEF Step
  <2> HIDE DEF f
  <2>13. Step(h, told, t, n) /\ t.size = told.size
    BY <2>5, <2>12, TodoStep
  <2>14. Move(b, h, failed, told, n) /\ Move(b, h, told, t, n)
    BY <2>11, <2>13, StepMove
  <2>15. Move(b, h, s, told, n)
    BY <2>6, <2>14, MoveTrans
  <2> QED  BY <2>14, <2>15, MoveTrans
<1> QED  BY <1>2, <1>3

\* Nothing happens.
LEMMA MoveRefl == ASSUME NEW b, NEW h, NEW s, NEW n, OK(s, n)  PROVE  Move(b, h, s, s, n)
BY StepRefl, StepMove

\* A flag of a node is cleared.
WithFlag(p, f) == [p EXCEPT !.flag = f]
\* Clearing a flag needs no reason.
LEMMA ClearTame ==
    ASSUME NEW s, NEW n, OK(s, n), NEW m \in Nodes, NEW p, p = WithFlag(s.known[m], "ok")
    PROVE  Tame(s, n, m, p)
<1>1. /\ s.known[m] \in Peer(Nodes) /\ (s.known[m].slave <=> s.known[m].slaveof # None)
      /\ s.known[n].slaveof # n
  BY OKFields
<1>2. WithFlag(s.known[m], "ok") \in Peer(Nodes)
  BY <1>1 DEF Peer, WithFlag
<1>3. /\ p.slave = s.known[m].slave /\ p.slaveof = s.known[m].slaveof
      /\ p.flag = "ok" /\ p.reports = s.known[m].reports
  BY <1>1 DEF Peer, WithFlag
<1> QED  BY <1>1, <1>2, <1>3 DEF Tame

\* A change of an entry, and flags for clusterBeforeSleep().
Asked(f) == f \in SUBSET {"save", "state"}
\* Nor does it together with a note for clusterBeforeSleep.
LEMMA TameTodo ==
    ASSUME NEW h, NEW s, NEW n, OK(s, n), NEW m, NEW p, Tame(s, n, m, p), NEW f, Asked(f),
           NEW t, t = Todo(SetPeer(s, m, p), f)
    PROVE  Step(h, s, t, n) /\ t.size = s.size
<1> DEFINE r == SetPeer(s, m, p)
<1>1. Step(h, s, r, n)
  BY TameStep
<1>2. SameBut(s, r)
  BY TameIs
<1>3. OK(r, n) /\ r.size = s.size /\ t = Todo(r, f)
  BY <1>1, <1>2 DEF Step, SameBut
<1> HIDE DEF r
<1>4. Step(h, r, t, n) /\ t.size = r.size
  BY <1>3, TodoStep DEF Asked
<1> QED  BY <1>1, <1>3, <1>4, StepTrans

\* clearNodeFailureIfNeeded().
LEMMA ClearStep ==
    ASSUME NEW h, NEW s, NEW n, OK(s, n), NEW m \in Nodes, NEW old, NEW t, t = clearNodeFailureIfNeeded(s, m, old)
    PROVE  Step(h, s, t, n) /\ t.size = s.size
<1> DEFINE p == WithFlag(s.known[m], "ok")
           f == {"state", "save"}
           r == Todo(SetPeer(s, m, p), f)
<1>1. t = s \/ t = r
  BY DEF clearNodeFailureIfNeeded, WithFlag
<1>2. p = WithFlag(s.known[m], "ok") /\ f \in SUBSET {"save", "state"} /\ r = Todo(SetPeer(s, m, p), f)
  OBVIOUS
<1> HIDE DEF p, f, r
<1>3. Tame(s, n, m, p)
  BY <1>2, ClearTame
<1>5. Asked(f) /\ r = Todo(SetPeer(s, m, p), f)
  BY <1>2 DEF Asked
<1>4. Step(h, s, r, n) /\ r.size = s.size
  BY <1>3, <1>5, TameTodo
<1> QED  BY <1>1, <1>4, StepRefl

-----------------------------------------------------------------------------
\* Receiving

\* A packet for n.
Mail(p, n) == p.sender \in Nodes \ {n} /\ p \in Packets(Nodes, Slots, p.sender)

\* Its fields.
LEMMA MailFields ==
    ASSUME NEW p, NEW n, Mail(p, n)
    PROVE  /\ p.sender \in Nodes /\ p.sender # n /\ p.myslots \subseteq Slots /\ p.slaveof \in Nodes \cup {None}
           /\ p.currentEpoch \in Nat /\ p.configEpoch \in Nat /\ p.offset \in Nat /\ p.paused \in BOOLEAN
           /\ p.type \in {"ping", "pong", "fail", "update", "auth_request", "auth_ack", "mfstart"}
BY DEF Mail, Packets, Packet

\* What it carries.
LEMMA MailData ==
    ASSUME NEW p, NEW n, Mail(p, n)
    PROVE  /\ p.type \in {"ping", "pong"} => p.data \in [Nodes \ {p.sender} -> Flags]
           /\ p.type = "fail" => p.data \in Nodes
           /\ p.type = "update" => p.data \in Claims(Nodes, Slots)
           /\ p.type = "auth_request" => p.data \in BOOLEAN
           /\ p.type = "mfstart" => p.data \in Nat
BY DEF Mail, Packets, Packet

\* The reports of a gossip section.
ReportTable(s, p) ==
    [m \in Nodes |-> IF m \in {s.me, p.sender} THEN s.known[m]
                     ELSE [s.known[m] EXCEPT !.reports = IF p.data[m] = "ok" THEN @ \ {p.sender}
                                                         ELSE @ \cup {p.sender}]]
\* The failure reports of a gossip section are founded when the packet is.
LEMMA ReportsMove ==
    ASSUME NEW h, NEW s, NEW n, OK(s, n), NEW p, Mail(p, n), p.type \in {"ping", "pong"},
           NEW b, b = Told(Nodes, Slots, h, p), NEW t, t = GossipReports(s, p)
    PROVE  Move(b, h, s, t, n)
<1> DEFINE k == ReportTable(s, p)
           from == p.sender
<1>1. s \in Working(Nodes, Slots, n) /\ Sane(Nodes, Slots, s, n) /\ setup \in Setups /\ n \in Nodes
  BY DEF OK
<1>2. s.me = n /\ \A m \in Nodes : s.known[m] \in Peer(Nodes) /\ s.known[m].reports \subseteq Nodes
  BY OKFields
<1>3. from \in Nodes /\ from # n /\ p.data \in [Nodes \ {from} -> Flags]
  BY MailFields, MailData
<1>4. ASSUME NEW m \in Nodes
      PROVE  /\ k[m] \in Peer(Nodes) /\ k[m].slave = s.known[m].slave /\ k[m].slaveof = s.known[m].slaveof
             /\ k[m].flag = s.known[m].flag
             /\ k[m].reports \subseteq s.known[m].reports \cup {from}
             /\ from \in k[m].reports => from \in s.known[m].reports \/ (m # from /\ p.data[m] # "ok")
  <2>1. s.known[m] \in Peer(Nodes) /\ s.known[m].reports \subseteq Nodes
    BY <1>2
  <2>2. k[m] = IF m \in {n, from} THEN s.known[m]
               ELSE [s.known[m] EXCEPT !.reports = IF p.data[m] = "ok" THEN s.known[m].reports \ {from}
                                                   ELSE s.known[m].reports \cup {from}]
    BY <1>2 DEF ReportTable
  <2> DEFINE rep == IF p.data[m] = "ok" THEN s.known[m].reports \ {from} ELSE s.known[m].reports \cup {from}
             q == [s.known[m] EXCEPT !.reports = rep]
  <2>3. /\ rep \in SUBSET Nodes /\ rep \subseteq s.known[m].reports \cup {from}
        /\ from \in rep => p.data[m] # "ok"
    BY <1>3, <2>1
  <2> HIDE DEF rep
  <2>4. /\ q \in Peer(Nodes) /\ q.slave = s.known[m].slave /\ q.slaveof = s.known[m].slaveof
        /\ q.flag = s.known[m].flag /\ q.reports = rep
    BY <2>1, <2>3 DEF Peer
  <2>5. k[m] = IF m \in {n, from} THEN s.known[m] ELSE q
    BY <2>2 DEF rep
  <2> HIDE DEF q, k
  <2> QED  BY <2>1, <2>3, <2>4, <2>5
<1>5. k \in [Nodes -> Peer(Nodes)]
  BY <1>4 DEF ReportTable
<1>6. t = [s EXCEPT !.known = k]
  BY DEF GossipReports, ReportTable
<1> HIDE DEF k, from
<1>7. s \in Working(Nodes, Slots, n)
  BY <1>1
<1>8. t \in Working(Nodes, Slots, n) /\ SameBut(s, t) /\ t.known = k /\ t.slots = s.slots /\ t.out = s.out
  BY <1>5, <1>6, <1>7, KnownIs
<1>9. Sane(Nodes, Slots, t, n)
  BY <1>1, <1>4, <1>8 DEF Sane, Roles
<1>10. OK(t, n)
  BY <1>1, <1>8, <1>9 DEF OK
<1>11. s.currentEpoch \in Nat
  BY OKFields
<1>12. Calm(s, t)
  BY <1>8, <1>11, CalmSame
<1>13. ASSUME Told(Nodes, Slots, h, p), Reasoned(h, s, n)  PROVE Reasoned(h, t, n)
  <2>1. ASSUME NEW m \in Nodes
        PROVE  /\ Founded(Nodes, Slots, h, n, m, t.known[m].flag)
               /\ n \notin t.known[m].reports
               /\ Down(Nodes, Slots, h, m) \/ t.known[m].reports \subseteq Suspecters(Nodes, h, m)
    <3>1. /\ Founded(Nodes, Slots, h, n, m, s.known[m].flag)
          /\ n \notin s.known[m].reports
          /\ Down(Nodes, Slots, h, m) \/ s.known[m].reports \subseteq Suspecters(Nodes, h, m)
      BY <1>13 DEF Reasoned, FlagsOK
    <3>2. t.known[m] = k[m]
      BY <1>8
    <3>3. Founded(Nodes, Slots, h, n, m, t.known[m].flag) /\ n \notin t.known[m].reports
      BY <1>3, <1>4, <3>1, <3>2
    <3>4. m # from /\ p.data[m] # "ok" => Down(Nodes, Slots, h, m) \/ from \in Suspecters(Nodes, h, m)
      <4> SUFFICES ASSUME m # from, p.data[m] # "ok"
                   PROVE  Down(Nodes, Slots, h, m) \/ from \in Suspecters(Nodes, h, m)
        OBVIOUS
      <4>1. p.data[m] \in {"pfail", "fail"}
        BY <1>3 DEF Flags
      <4>2. Founded(Nodes, Slots, h, from, m, p.data[m])
        BY <1>13 DEF Told, from
      <4> QED  BY <1>3, <4>1, <4>2 DEF Founded, Suspecters
    <3>5. Down(Nodes, Slots, h, m) \/ t.known[m].reports \subseteq Suspecters(Nodes, h, m)
      BY <1>4, <3>1, <3>2, <3>4
    <3> QED  BY <3>3, <3>5
  <2> QED  BY <1>8, <1>13, <2>1 DEF Reasoned, FlagsOK
<1>14. t.size = s.size
  BY <1>8 DEF SameBut
<1> QED  BY <1>10, <1>12, <1>13, <1>14 DEF Move

\* clusterProcessGossipSection().
LEMMA GossipMove ==
    ASSUME NEW h, NEW s, NEW n, OK(s, n), NEW p, Mail(p, n), p.type \in {"ping", "pong"},
           NEW b, b = Told(Nodes, Slots, h, p), NEW t, t = clusterProcessGossipSection(s, p)
    PROVE  Move(b, h, s, t, n)
<1> DEFINE r == GossipReports(s, p)
           ms == {m \in Nodes \ {s.me, p.sender} : p.data[m] # "ok"}
           u == markNodeAsFailingIfNeeded(r, ms)
<1>1. t = s \/ t = u
  BY DEF clusterProcessGossipSection
<1>2. Move(b, h, s, r, n)
  BY ReportsMove
<1>3. OK(r, n) /\ ms \subseteq Nodes
  BY <1>2 DEF Move
<1> HIDE DEF r, ms
<1>4. Move(b, h, r, u, n)
  BY <1>3, MarkMove
<1> HIDE DEF u
<1>5. Move(b, h, s, u, n)
  BY <1>2, <1>4, MoveTrans
<1> QED  BY <1>1, <1>5, MoveRefl

\* The epoch of a peer may be raised.
Raised(s, m, e) == Todo(SetPeer(s, m, WithEpoch(s.known[m], e)), {"save"})
\* The header of a packet raises the epoch its sender is known with.
LEMMA RaiseStep ==
    ASSUME NEW h, NEW s, NEW n, OK(s, n), NEW m \in Nodes, NEW e \in Nat, m # n,
           NEW t, t = Raised(s, m, e) \/ t = s
    PROVE  /\ Step(h, s, t, n) /\ t.size = s.size /\ t.out = s.out
           /\ t.currentEpoch = s.currentEpoch /\ t.known[n] = s.known[n]
<1> DEFINE p == WithEpoch(s.known[m], e)
           r == SetPeer(s, m, p)
           f == {"save"}
           u == Todo(r, f)
<1>1. CASE t = s
  BY <1>1, StepRefl
<1>2. CASE t = Raised(s, m, e)
  <2>1. t = u /\ p = WithEpoch(s.known[m], e) /\ u = Todo(r, f) /\ r = SetPeer(s, m, p)
    BY <1>2 DEF Raised
  <2>2. Asked(f)
    BY DEF Asked
  <2>3. Tame(s, n, m, p)
    BY PeerEpochTame
  <2> HIDE DEF p, f
  <2>4. Step(h, s, u, n) /\ u.size = s.size
    BY <2>2, <2>3, TameTodo
  <2>5. SameBut(s, r) /\ r.out = s.out /\ \A x \in Nodes : x # m => r.known[x] = s.known[x]
    BY <2>3, TameIs
  <2>6. Step(h, s, r, n)
    BY <2>3, TameStep
  <2>7. r \in Working(Nodes, Slots, n) /\ n \in Nodes
    BY <2>6 DEF Step, OK
  <2> HIDE DEF r
  <2>8. u.out = r.out /\ u.known = r.known /\ u.currentEpoch = r.currentEpoch
    BY <2>7 DEF Todo, Working
  <2>9. r.currentEpoch = s.currentEpoch
    BY <2>5 DEF SameBut
  <2> QED  BY <2>1, <2>4, <2>5, <2>7, <2>8, <2>9
<1> QED  BY <1>1, <1>2

\* ProcessHeader.
WithHeader(s, e, o) == [s EXCEPT !.currentEpoch = e, !.mf_master_offset = o]
\* After the header the current epoch is at least that of the packet.
LEMMA HeaderStep ==
    ASSUME NEW h, NEW s, NEW n, OK(s, n), NEW p, Mail(p, n), NEW t, t = ProcessHeader(s, p)
    PROVE  /\ Step(h, s, t, n) /\ t.size = s.size /\ t.out = s.out
           /\ t.currentEpoch >= p.currentEpoch /\ t.known[n] = s.known[n]
<1> DEFINE m == p.sender
           newer == p.configEpoch > s.known[m].configEpoch
           known == IF newer THEN Todo(SetPeer(s, m, WithEpoch(s.known[m], p.configEpoch)), {"save"}) ELSE s
           offset == /\ s.mf_end /\ IsSlave(s, s.me) /\ MyMaster(s) = p.sender
                     /\ p.paused /\ s.mf_master_offset = 0
           e == Max({known.currentEpoch, p.currentEpoch})
           o == IF offset THEN p.offset ELSE known.mf_master_offset
<1>1. t = WithHeader(known, e, o)
  BY DEF ProcessHeader, WithHeader, WithEpoch
<1>2. m \in Nodes /\ m # n /\ p.currentEpoch \in Nat /\ p.configEpoch \in Nat /\ p.offset \in Nat
  BY MailFields
<1>3. known = Raised(s, m, p.configEpoch) \/ known = s
  BY DEF Raised
<1> HIDE DEF known, newer, m, offset
<1>4. /\ Step(h, s, known, n) /\ known.size = s.size /\ known.out = s.out
      /\ known.currentEpoch = s.currentEpoch /\ known.known[n] = s.known[n]
  BY <1>2, <1>3, RaiseStep
<1>5. OK(known, n)
  BY <1>4 DEF Step
<1>6. known.currentEpoch \in Nat /\ known.mf_master_offset \in Nat
  BY <1>5, OKFields
<1>7. e \in Nat /\ e >= known.currentEpoch /\ e >= p.currentEpoch /\ o \in Nat
  BY <1>2, <1>6, Max2
<1> HIDE DEF e, o
<1>8. known \in Working(Nodes, Slots, n)
  BY <1>5 DEF OK
<1>9. WithHeader(known, e, o) \in Working(Nodes, Slots, n)
  BY <1>7, <1>8 DEF Working, WithHeader
<1>10. /\ t.up = known.up /\ t.auth = known.auth /\ t.auth_sent = known.auth_sent
      /\ t.auth_epoch = known.auth_epoch /\ t.auth_count = known.auth_count
      /\ t.lastVoteEpoch = known.lastVoteEpoch /\ t.currentEpoch = e /\ t.log = known.log /\ t.size = known.size
      /\ t.out = known.out /\ t.known = known.known /\ t.slots = known.slots /\ t.todo = known.todo
  BY <1>1, <1>8 DEF Working, WithHeader
<1>11. Step(h, known, t, n)
  BY <1>1, <1>5, <1>7, <1>9, <1>10, StepFields
<1>12. Step(h, s, t, n)
  BY <1>4, <1>11, StepTrans
<1> QED  BY <1>4, <1>7, <1>10, <1>12

\* ProcessPong.
WithPinged(p, b) == [p EXCEPT !.pinged = b]
\* A ping sent or answered needs no reason.
LEMMA PingedTame ==
    ASSUME NEW s, NEW n, OK(s, n), NEW m \in Nodes, NEW b \in BOOLEAN, NEW p, p = WithPinged(s.known[m], b)
    PROVE  Tame(s, n, m, p)
<1>1. /\ s.known[m] \in Peer(Nodes) /\ (s.known[m].slave <=> s.known[m].slaveof # None)
      /\ s.known[n].slaveof # n
  BY OKFields
<1>2. WithPinged(s.known[m], b) \in Peer(Nodes)
  BY <1>1 DEF Peer, WithPinged
<1>3. /\ p.slave = s.known[m].slave /\ p.slaveof = s.known[m].slaveof
      /\ p.flag = s.known[m].flag /\ p.reports = s.known[m].reports
  BY <1>1 DEF Peer, WithPinged
<1> QED  BY <1>1, <1>2, <1>3 DEF Tame

\* A PONG takes no part in an election.
LEMMA PongStep ==
    ASSUME NEW h, NEW s, NEW n, OK(s, n), NEW m \in Nodes, NEW old, NEW t, t = ProcessPong(s, m, old)
    PROVE  Step(h, s, t, n) /\ t.size = s.size
<1> DEFINE b == FALSE
           p == WithPinged(s.known[m], b)
           got == SetPeer(s, m, p)
           q == WithFlag(got.known[m], "ok")
           f == {"save", "state"}
           u == Todo(SetPeer(got, m, q), f)
           w == clearNodeFailureIfNeeded(got, m, old)
<1>1. t = u \/ t = w \/ t = got
  BY DEF ProcessPong, WithFlag, WithPinged
<1>2. b \in BOOLEAN /\ p = WithPinged(s.known[m], b) /\ Asked(f)
  BY DEF Asked
<1>9. w = clearNodeFailureIfNeeded(got, m, old)
  OBVIOUS
<1> HIDE DEF p, b, f, w
<1>3. Tame(s, n, m, p)
  BY <1>2, PingedTame
<1>4. Step(h, s, got, n)
  BY <1>3, TameStep
<1>5. SameBut(s, got)
  BY <1>3, TameIs
<1>6. OK(got, n) /\ got.size = s.size
  BY <1>4, <1>5 DEF Step, SameBut
<1> HIDE DEF got
<1>7. Tame(got, n, m, q)
  BY <1>6, ClearTame
<1>10. Asked(f) /\ u = Todo(SetPeer(got, m, q), f)
  BY <1>2
<1> HIDE DEF q, u
<1>8. Step(h, got, u, n) /\ u.size = got.size
  BY <1>6, <1>7, <1>10, TameTodo
<1>11. Step(h, got, w, n) /\ w.size = got.size
  BY <1>6, <1>9, ClearStep
<1>12. Step(h, s, u, n) /\ Step(h, s, w, n)
  BY <1>4, <1>8, <1>11, StepTrans
<1> QED  BY <1>1, <1>4, <1>6, <1>8, <1>11, <1>12

\* ProcessRole.
WithRole(p, m) == [p EXCEPT !.slave = TRUE, !.slaveof = m]
\* Nor does the role that a packet claims.
LEMMA RoleStep ==
    ASSUME NEW h, NEW s, NEW n, OK(s, n), NEW p, Mail(p, n), NEW t, t = ProcessRole(s, p)
    PROVE  Step(h, s, t, n) /\ t.size = s.size
<1> DEFINE m == p.sender
           g == [x \in Slots |-> IF s.slots[x] = m THEN None ELSE s.slots[x]]
           demoted == [s EXCEPT !.slots = g]
           f == {"save", "state"}
           was == IF IsMaster(s, m) THEN Todo(demoted, f) ELSE s
           q == WithRole(was.known[m], p.slaveof)
           sv == {"save"}
           u == Todo(SetPeer(was, m, q), sv)
           master == clusterSetNodeAsMaster(s, m)
<1>1. (p.slaveof = None /\ t = master) \/ t = s \/ (p.slaveof # None /\ t = u)
  BY DEF ProcessRole, WithRole
<1>2. m \in Nodes /\ m # n /\ p.slaveof \in Nodes \cup {None} /\ None \notin Nodes /\ n \in Nodes
  BY MailFields, Setting DEF OK
<1>3. s.slots \in [Slots -> Nodes \cup {None}]
  BY OKFields
<1>4. g \in [Slots -> Nodes \cup {None}] /\ \A x \in Slots : g[x] = n => s.slots[x] = n
  BY <1>2, <1>3
<1> HIDE DEF m, g
<1>5. Step(h, s, demoted, n) /\ demoted.size = s.size
  BY <1>4, SlotsStep
<1> HIDE DEF demoted
<1>6. OK(demoted, n) /\ f \in SUBSET {"save", "state"}
  BY <1>5 DEF Step
<1> HIDE DEF f
<1>7. Step(h, demoted, Todo(demoted, f), n) /\ Todo(demoted, f).size = demoted.size
  BY <1>6, TodoStep
<1>8. Step(h, s, Todo(demoted, f), n) /\ Todo(demoted, f).size = s.size
  BY <1>5, <1>7, StepTrans
<1>9. Step(h, s, was, n) /\ was.size = s.size
  BY <1>8, StepRefl
<1> HIDE DEF was
<1>10. OK(was, n)
  BY <1>9 DEF Step
<1>11. was.known[m] \in Peer(Nodes)
  BY <1>2, <1>10, OKFields
<1>12. CASE p.slaveof # None /\ t = u
  <2>1. p.slaveof \in Nodes
    BY <1>2, <1>12
  <2>2. q \in Peer(Nodes) /\ q.slave = TRUE /\ q.slaveof = p.slaveof /\ q.flag = was.known[m].flag /\ q.reports = was.known[m].reports
    BY <1>11, <2>1 DEF Peer, WithRole
  <2> HIDE DEF q
  <2>3. Tame(was, n, m, q)
    BY <1>2, <2>1, <2>2 DEF Tame
  <2>4. Asked(sv) /\ u = Todo(SetPeer(was, m, q), sv)
    BY DEF Asked
  <2> HIDE DEF sv, u
  <2>5. Step(h, was, u, n) /\ u.size = was.size
    BY <1>10, <2>3, <2>4, TameTodo
  <2>6. Step(h, s, u, n)
    BY <1>9, <2>5, StepTrans
  <2> QED  BY <1>9, <1>12, <2>5, <2>6
<1>13. Step(h, s, master, n) /\ master.size = s.size
  BY <1>2, SetNodeAsMasterStep
<1> HIDE DEF master
<1> QED  BY <1>1, <1>12, <1>13, StepRefl

\* The smallest of a set of numbers.
LEMMA MinIs ==
    ASSUME NEW T, T \subseteq Nat, T # {}
    PROVE  (CHOOSE x \in T : \A y \in T : x <= y) \in T
<1> DEFINE R == OpToRel(<, Nat)
<1>1. \A i, j \in Nat : <<i, j>> \in R <=> i < j
  BY DEF OpToRel
<1>2. IsWellFoundedOn(R, Nat)
  BY NatLessThanWellFounded
<1> HIDE DEF R
<1>3. PICK i \in T : \A j \in T : ~(<<j, i>> \in R)
  BY <1>2, WFMin
<1>4. ASSUME NEW j \in T  PROVE i <= j
  <2>1. i \in Nat /\ j \in Nat
    BY <1>3
  <2>2. ~(j < i)
    BY <1>1, <1>3, <2>1
  <2> QED  BY <2>1, <2>2
<1> QED  BY <1>3, <1>4

\* ProcessSlots.
LEMMA ClaimStep ==
    ASSUME NEW h, NEW s, NEW n, OK(s, n), NEW p, Mail(p, n), NEW t, t = ProcessSlots(s, p)
    PROVE  Step(h, s, t, n) /\ t.size = s.size
<1> DEFINE m == p.sender
           master == IF IsMaster(s, m) THEN m ELSE s.known[m].slaveof
           dirty == master # None /\ SlotsOf(s, master) # p.myslots
           w == clusterUpdateSlotsConfigWith(s, m, p.configEpoch, p.myslots)
           r == IF IsMaster(s, m) /\ dirty THEN w ELSE s
           stale == {x \in p.myslots : /\ r.slots[x] \notin {m, None}
                                       /\ r.known[r.slots[x]].configEpoch > p.configEpoch}
           first == CHOOSE x \in stale : \A y \in stale : x <= y
           to == r.slots[first]
           u == clusterSendUpdate(r, m, to)
<1>1. t = IF dirty /\ stale # {} THEN u ELSE r
  BY DEF ProcessSlots
<1>2. m \in Nodes /\ m # n /\ p.myslots \subseteq Slots /\ Slots \subseteq Nat
  BY MailFields, Setting DEF OK
<1> HIDE DEF m
<1>3. Step(h, s, w, n) /\ w.size = s.size
  BY <1>2, UpdateSlotsStep
<1> HIDE DEF w
<1>4. Step(h, s, r, n) /\ r.size = s.size
  BY <1>3, StepRefl
<1> HIDE DEF r
<1>5. OK(r, n)
  BY <1>4 DEF Step
<1>6. CASE dirty /\ stale # {}
  <2>1. stale \subseteq Nat /\ stale # {}
    BY <1>2, <1>6
  <2>2. first \in stale
    BY <2>1, MinIs
  <2>3. r.slots \in [Slots -> Nodes \cup {None}]
    BY <1>5, OKFields
  <2>4. to \in Nodes /\ m \in Nodes \ {n}
    BY <1>2, <2>2, <2>3
  <2> HIDE DEF to, first, stale
  <2>5. Step(h, r, u, n) /\ u.size = r.size
    BY <1>5, <2>4, SendUpdateStep
  <2> HIDE DEF u
  <2> QED  BY <1>1, <1>4, <1>6, <2>5, StepTrans
<1>7. CASE ~(dirty /\ stale # {})
  BY <1>1, <1>4, <1>7
<1> QED  BY <1>6, <1>7

\* PING and PONG.
LEMMA PacketPingMove ==
    ASSUME NEW h, NEW s, NEW n, OK(s, n), NEW p, Mail(p, n), p.type \in {"ping", "pong"}, NEW kind, NEW old,
           NEW b, b = Told(Nodes, Slots, h, p), NEW t, t = ProcessPing(s, p, kind, old)
    PROVE  Move(b, h, s, t, n)
<1> DEFINE m == p.sender
           rk == "reply"
           rt == "pong"
           to == {m}
           pong == clusterSendPing(s, to, rk, rt)
           replied == IF p.type = "ping" THEN pong ELSE s
           hd == ProcessPong(replied, m, old)
           heard == IF kind = "reply" THEN hd ELSE replied
           role == ProcessRole(heard, p)
           slots == ProcessSlots(role, p)
           co == clusterHandleConfigEpochCollision(slots, m)
           collide == /\ IsMaster(slots, slots.me) /\ IsMaster(slots, p.sender)
                      /\ p.configEpoch = slots.known[slots.me].configEpoch
           solved == IF collide THEN co ELSE slots
<1>1. t = clusterProcessGossipSection(solved, p)
  BY DEF ProcessPing
<1>2. m \in Nodes /\ m # n
  BY MailFields
<1>3. to \subseteq Nodes \ {n} /\ rk \in {"own", "reply"} /\ rt \in {"ping", "pong"}
  BY <1>2
<1> HIDE DEF m, rk, rt, to, collide
<1>4. Step(h, s, pong, n) /\ pong.size = s.size
  BY <1>3, PingStep
<1> HIDE DEF pong
<1>5. Step(h, s, replied, n) /\ replied.size = s.size
  BY <1>4, StepRefl
<1> HIDE DEF replied
<1>6. OK(replied, n)
  BY <1>5 DEF Step
<1>7. Step(h, replied, hd, n) /\ hd.size = replied.size
  BY <1>2, <1>6, PongStep
<1> HIDE DEF hd
<1>8. Step(h, replied, heard, n) /\ heard.size = replied.size
  BY <1>6, <1>7, StepRefl
<1> HIDE DEF heard
<1>9. OK(heard, n)
  BY <1>8 DEF Step
<1>10. Step(h, heard, role, n) /\ role.size = heard.size
  BY <1>9, RoleStep
<1> HIDE DEF role
<1>11. OK(role, n)
  BY <1>10 DEF Step
<1>12. Step(h, role, slots, n) /\ slots.size = role.size
  BY <1>11, ClaimStep
<1> HIDE DEF slots
<1>13. OK(slots, n)
  BY <1>12 DEF Step
<1>14. Step(h, slots, co, n) /\ co.size = slots.size
  BY <1>13, CollisionStep
<1> HIDE DEF co
<1>15. Step(h, slots, solved, n) /\ solved.size = slots.size
  BY <1>13, <1>14, StepRefl
<1> HIDE DEF solved
<1>16. OK(solved, n)
  BY <1>15 DEF Step
<1>17. Step(h, s, heard, n)
  BY <1>5, <1>8, StepTrans
<1>18. Step(h, s, role, n)
  BY <1>10, <1>17, StepTrans
<1>19. Step(h, s, slots, n)
  BY <1>12, <1>18, StepTrans
<1>20. Step(h, s, solved, n) /\ solved.size = s.size
  BY <1>5, <1>8, <1>10, <1>12, <1>15, <1>19, StepTrans
<1>21. Move(b, h, s, solved, n)
  BY <1>20, StepMove
<1>22. Move(b, h, solved, t, n)
  BY <1>1, <1>16, GossipMove
<1> QED  BY <1>21, <1>22, MoveTrans

\* FAIL.
LEMMA PacketFailMove ==
    ASSUME NEW h, NEW s, NEW n, OK(s, n), NEW p, Mail(p, n), p.type = "fail",
           NEW b, b = Told(Nodes, Slots, h, p), NEW t, t = ProcessFail(s, p)
    PROVE  Move(b, h, s, t, n)
<1> DEFINE ms == {p.data}
           k == FailTable(s, ms)
           r == WithKnown(s, k)
           f == {"save", "state"}
           u == Todo(r, f)
<1>1. p.data \in Nodes
  BY MailData
<1>0. s \in Working(Nodes, Slots, n) /\ s.known \in [Nodes -> Peer(Nodes)]
  BY OKFields DEF OK
<1>2. t = s \/ t = u
  <2>1. k = [s.known EXCEPT ![p.data] = [s.known[p.data] EXCEPT !.flag = "fail"]]
    BY <1>0, <1>1 DEF FailTable
  <2>2. r = SetPeer(s, p.data, [s.known[p.data] EXCEPT !.flag = "fail"])
    BY <2>1 DEF SetPeer, WithKnown
  <2> HIDE DEF r
  <2> QED  BY <2>2 DEF ProcessFail
<1>3. Flaggable(b, h, s, n, ms)
  BY <1>1 DEF Flaggable, Told
<1>4. r = WithKnown(s, FailTable(s, ms)) /\ u = Todo(r, f)
  OBVIOUS
<1> HIDE DEF ms, k, r, u
<1>5. Move(b, h, s, r, n)
  BY <1>3, <1>4, FlagMove
<1>6. OK(r, n) /\ f \in SUBSET {"save", "state"}
  BY <1>5 DEF Move
<1> HIDE DEF f
<1>7. Step(h, r, u, n) /\ u.size = r.size
  BY <1>4, <1>6, TodoStep
<1>8. Move(b, h, r, u, n)
  BY <1>7, StepMove
<1>9. Move(b, h, s, u, n)
  BY <1>5, <1>8, MoveTrans
<1> QED  BY <1>2, <1>9, MoveRefl

\* MFSTART.
LEMMA PacketMfStartStep ==
    ASSUME NEW h, NEW s, NEW n, OK(s, n), NEW p, Mail(p, n), p.type = "mfstart", NEW t, t = ProcessMfStart(s, p)
    PROVE  Step(h, s, t, n) /\ t.size = s.size
<1> DEFINE r == resetManualFailover(s)
           a == TRUE
           c == r.mf_can_start
           m == p.sender
           o == r.mf_master_offset
           id == p.data
           u == WithManual(r, a, a, c, m, o, id)
<1>1. Step(h, s, r, n) /\ r.size = s.size
  BY ResetStep
<1>2. OK(r, n)
  BY <1>1 DEF Step
<1>3. r \in Working(Nodes, Slots, n)
  BY <1>2 DEF OK
<1>4. t = s \/ t = u
  <2>1. t = s \/ t = [r EXCEPT !.mf_end = TRUE, !.mf_slave = p.sender, !.paused = TRUE, !.mf_id = p.data]
    BY DEF ProcessMfStart
  <2> HIDE DEF r
  <2>2. [r EXCEPT !.mf_end = TRUE, !.mf_slave = p.sender, !.paused = TRUE, !.mf_id = p.data] = u
    BY <1>3 DEF Working, WithManual
  <2> QED  BY <2>1, <2>2
<1> HIDE DEF r
<1>5. ManualArgs(a, a, c, m, o, id)
  BY <1>2, MailFields, MailData, OKFields DEF ManualArgs
<1>6. u = WithManual(r, a, a, c, m, o, id)
  OBVIOUS
<1> HIDE DEF a, c, m, o, id, u
<1>7. Step(h, r, u, n) /\ u.size = r.size
  BY <1>2, <1>5, <1>6, ManualStep
<1>8. Step(h, s, u, n) /\ u.size = s.size
  BY <1>1, <1>7, StepTrans
<1> QED  BY <1>4, <1>8, StepRefl

\* UPDATE.
LEMMA PacketUpdateStep ==
    ASSUME NEW h, NEW s, NEW n, OK(s, n), NEW p, Mail(p, n), p.type = "update", NEW t, t = ProcessUpdate(s, p)
    PROVE  Step(h, s, t, n) /\ t.size = s.size
<1> DEFINE m == p.data.about
           e == p.data.epoch
           x == p.data.slots
           master == clusterSetNodeAsMaster(s, m)
           q == WithEpoch(master.known[m], e)
           f == {"save"}
           r == Todo(SetPeer(master, m, q), f)
           u == clusterUpdateSlotsConfigWith(r, m, e, x)
<1>1. t = s \/ t = u
  BY DEF ProcessUpdate, WithEpoch
<1>2. m \in Nodes /\ e \in Nat
  BY MailData DEF Claims
<1> HIDE DEF m, e, x
<1>3. Step(h, s, master, n) /\ master.size = s.size
  BY <1>2, SetNodeAsMasterStep
<1> HIDE DEF master
<1>4. OK(master, n)
  BY <1>3 DEF Step
<1>5. Tame(master, n, m, q)
  BY <1>2, <1>4, PeerEpochTame
<1>6. Asked(f) /\ r = Todo(SetPeer(master, m, q), f)
  BY DEF Asked
<1> HIDE DEF q, f, r
<1>7. Step(h, master, r, n) /\ r.size = master.size
  BY <1>4, <1>5, <1>6, TameTodo
<1>8. OK(r, n)
  BY <1>7 DEF Step
<1>9. Step(h, r, u, n) /\ u.size = r.size
  BY <1>2, <1>8, UpdateSlotsStep
<1> HIDE DEF u
<1>10. Step(h, s, r, n)
  BY <1>3, <1>7, StepTrans
<1>11. Step(h, s, u, n) /\ u.size = s.size
  BY <1>3, <1>7, <1>9, <1>10, StepTrans
<1> QED  BY <1>1, <1>11, StepRefl

\* FAILOVER_AUTH_ACK: a vote is counted.
Counts(s, t) ==
    /\ t.auth = s.auth /\ t.auth_sent = s.auth_sent /\ t.auth_epoch = s.auth_epoch /\ t.auth_count = s.auth_count + 1
    /\ t.lastVoteEpoch = s.lastVoteEpoch /\ t.currentEpoch = s.currentEpoch /\ t.log = s.log
    /\ t.out = s.out /\ t.known = s.known /\ t.size = s.size
\* One vote more.
WithCount(s) == [s EXCEPT !.auth_count = @ + 1]
\* A vote is counted only when it is of the epoch asked in, or of a later one.
LEMMA AckIs ==
    ASSUME NEW h, NEW s, NEW n, OK(s, n), NEW p, NEW t, t = ProcessAck(s, p)
    PROVE  t = s \/ (Sound(h, s, t, n) /\ Counts(s, t) /\ p.currentEpoch >= s.auth_epoch)
<1> DEFINE r == WithCount(s)
           f == {"failover"}
           u == Todo(r, f)
<1>1. t = s \/ (t = u /\ p.currentEpoch >= s.auth_epoch)
  BY DEF ProcessAck, WithCount
<1>2. s \in Working(Nodes, Slots, n) /\ s.auth_count \in Nat
  BY OKFields DEF OK
<1>3. r \in Working(Nodes, Slots, n)
  <2> DEFINE c == s.auth_count + 1
  <2>1. c \in Nat /\ r = [s EXCEPT !.auth_count = c]
    BY <1>2 DEF WithCount
  <2> HIDE DEF c
  <2>2. [s EXCEPT !.auth_count = c] \in Working(Nodes, Slots, n)
    BY <1>2, <2>1 DEF Working
  <2> QED  BY <2>1, <2>2
<1>4. /\ r.up = s.up /\ r.auth = s.auth /\ r.auth_sent = s.auth_sent
      /\ r.auth_epoch = s.auth_epoch /\ r.auth_count = s.auth_count + 1
      /\ r.lastVoteEpoch = s.lastVoteEpoch /\ r.currentEpoch = s.currentEpoch /\ r.log = s.log /\ r.size = s.size
      /\ r.out = s.out /\ r.known = s.known /\ r.slots = s.slots
  BY <1>2 DEF Working, WithCount
<1> HIDE DEF r
<1>5. r.todo \cup f \in SUBSET Todos
  BY <1>3 DEF Working, Todos
<1> HIDE DEF f
<1>6. [r EXCEPT !.todo = r.todo \cup f] \in Working(Nodes, Slots, n)
  BY <1>3, <1>5 DEF Working
<1>7. u \in Working(Nodes, Slots, n)
  BY <1>6 DEF Todo
<1>8. /\ u.up = r.up /\ u.auth = r.auth /\ u.auth_sent = r.auth_sent
      /\ u.auth_epoch = r.auth_epoch /\ u.auth_count = r.auth_count
      /\ u.lastVoteEpoch = r.lastVoteEpoch /\ u.currentEpoch = r.currentEpoch /\ u.log = r.log /\ u.size = r.size
      /\ u.out = r.out /\ u.known = r.known /\ u.slots = r.slots
  BY <1>3 DEF Working, Todo
<1> HIDE DEF u
<1>9. Sound(h, s, u, n)
  BY <1>4, <1>7, <1>8, SoundFields
<1>10. Counts(s, u)
  BY <1>4, <1>8 DEF Counts
<1> QED  BY <1>1, <1>9, <1>10

-----------------------------------------------------------------------------
\* One turn of the event loop

\* clusterProcessPacket() of packets that are not about votes.
LEMMA PacketMove ==
    ASSUME NEW h, NEW s, NEW n, OK(s, n), NEW p, Mail(p, n), p.type \notin VoteTypes, NEW kind, NEW old, NEW aged,
           NEW b, b = Told(Nodes, Slots, h, p), NEW t, t = clusterProcessPacket(s, p, kind, old, aged)
    PROVE  Move(b, h, s, t, n)
<1> DEFINE r == ProcessHeader(s, p)
<1>1. Step(h, s, r, n) /\ r.size = s.size
  BY HeaderStep
<1>2. p.type \in {"ping", "pong", "fail", "update", "mfstart"}
  BY MailFields DEF VoteTypes
<1>3. t = CASE p.type \in {"ping", "pong"} -> ProcessPing(r, p, kind, old)
         [] p.type = "fail" -> ProcessFail(r, p)
         [] p.type = "auth_request" -> clusterSendFailoverAuthIfNeeded(r, p.sender, p, aged)
         [] p.type = "auth_ack" -> ProcessAck(r, p)
         [] p.type = "mfstart" -> ProcessMfStart(r, p)
         [] p.type = "update" -> ProcessUpdate(r, p)
  BY DEF clusterProcessPacket
<1> HIDE DEF r
<1>4. OK(r, n) /\ Move(b, h, s, r, n)
  BY <1>1, StepMove DEF Step
<1>5. CASE p.type \in {"ping", "pong"}
  <2>1. t = ProcessPing(r, p, kind, old)
    BY <1>3, <1>5
  <2>2. Move(b, h, r, t, n)
    BY <1>4, <1>5, <2>1, PacketPingMove
  <2> QED  BY <1>4, <2>2, MoveTrans
<1>6. CASE p.type = "fail"
  <2>1. t = ProcessFail(r, p)
    BY <1>3, <1>6
  <2>2. Move(b, h, r, t, n)
    BY <1>4, <1>6, <2>1, PacketFailMove
  <2> QED  BY <1>4, <2>2, MoveTrans
<1>7. CASE p.type = "mfstart"
  <2>1. t = ProcessMfStart(r, p)
    BY <1>3, <1>7
  <2>2. Step(h, r, t, n) /\ t.size = r.size
    BY <1>4, <1>7, <2>1, PacketMfStartStep
  <2>3. Move(b, h, r, t, n)
    BY <2>2, StepMove
  <2> QED  BY <1>4, <2>3, MoveTrans
<1>8. CASE p.type = "update"
  <2>1. t = ProcessUpdate(r, p)
    BY <1>3, <1>8
  <2>2. Step(h, r, t, n) /\ t.size = r.size
    BY <1>4, <1>8, <2>1, PacketUpdateStep
  <2>3. Move(b, h, r, t, n)
    BY <2>2, StepMove
  <2> QED  BY <1>4, <2>3, MoveTrans
<1> QED  BY <1>2, <1>5, <1>6, <1>7, <1>8

\* A request for a vote.
Answers(h, s, r, t, n, p) ==
    /\ Step(h, s, r, n) /\ r.out = s.out /\ r.currentEpoch >= p.currentEpoch /\ r.size = s.size
    /\ \/ t = r
       \/ ~(p.currentEpoch < r.currentEpoch) /\ Sound(h, r, t, n) /\ VotesFor(r, t, n, p.sender)
\* A request is handled by its header and then by the vote.
LEMMA PacketRequestIs ==
    ASSUME NEW h, NEW s, NEW n, OK(s, n), NEW p, Mail(p, n), p.type = "auth_request", NEW kind, NEW old, NEW aged,
           NEW t, t = clusterProcessPacket(s, p, kind, old, aged)
    PROVE  \E r : Answers(h, s, r, t, n, p)
<1> DEFINE r == ProcessHeader(s, p)
           m == p.sender
<1>1. Step(h, s, r, n) /\ r.out = s.out /\ r.currentEpoch >= p.currentEpoch /\ r.size = s.size
  BY HeaderStep
<1>2. t = clusterSendFailoverAuthIfNeeded(r, m, p, aged)
  BY DEF clusterProcessPacket
<1>3. m \in Nodes /\ m # n
  BY MailFields
<1> HIDE DEF r, m
<1>4. OK(r, n)
  BY <1>1 DEF Step
<1>5. t = r \/ (~(p.currentEpoch < r.currentEpoch) /\ Sound(h, r, t, n) /\ VotesFor(r, t, n, m))
  BY <1>2, <1>3, <1>4, VoteIfNeeded
<1>6. Answers(h, s, r, t, n, p)
  BY <1>1, <1>5 DEF m, Answers
<1> QED  BY <1>6

\* A vote.
Tallies(h, s, r, t, n, p) ==
    /\ Step(h, s, r, n) /\ r.out = s.out /\ r.size = s.size /\ r.known[n] = s.known[n]
    /\ \/ t = r
       \/ Sound(h, r, t, n) /\ Counts(r, t) /\ p.currentEpoch >= r.auth_epoch
\* A vote is handled by its header, then counted, and what is due runs before sleep.
LEMMA PacketAckIs ==
    ASSUME NEW h, NEW s, NEW n, OK(s, n), NEW p, Mail(p, n), p.type = "auth_ack", NEW kind, NEW old, NEW aged,
           NEW t, t = clusterProcessPacket(s, p, kind, old, aged)
    PROVE  \E r : Tallies(h, s, r, t, n, p)
<1> DEFINE r == ProcessHeader(s, p)
<1>1. Step(h, s, r, n) /\ r.out = s.out /\ r.size = s.size /\ r.known[n] = s.known[n]
  BY HeaderStep
<1>2. t = ProcessAck(r, p)
  BY DEF clusterProcessPacket
<1> HIDE DEF r
<1>4. OK(r, n)
  BY <1>1 DEF Step
<1>5. t = r \/ (Sound(h, r, t, n) /\ Counts(r, t) /\ p.currentEpoch >= r.auth_epoch)
  BY <1>2, <1>4, AckIs
<1>6. Tallies(h, s, r, t, n, p)
  BY <1>1, <1>5 DEF Tallies
<1> QED  BY <1>6

\* clusterBeforeSleep() without a failover to handle.
LEMMA SleepStep ==
    ASSUME NEW h, NEW s, NEW n, OK(s, n), "failover" \notin s.todo, NEW t, t = clusterBeforeSleep(s)
    PROVE  Step(h, s, t, n) /\ t.out = s.out
<1>1. t = s \/ t = clusterUpdateState(s)
  BY DEF clusterBeforeSleep
<1>2. CASE t = s
  BY <1>2, StepRefl
<1>3. CASE t = clusterUpdateState(s)
  BY <1>3, UpdateStateStep
<1> QED  BY <1>1, <1>2, <1>3

\* With one.
LEMMA SleepIs ==
    ASSUME NEW h, NEW s, NEW n, OK(s, n), NEW t, t = clusterBeforeSleep(s)
    PROVE  \E r : (r = s \/ r = clusterHandleSlaveFailover(s)) /\ (OK(r, n) => Step(h, r, t, n) /\ t.out = r.out)
<1> DEFINE r == IF "failover" \in s.todo THEN clusterHandleSlaveFailover(s) ELSE s
<1>1. t = r \/ t = clusterUpdateState(r)
  BY DEF clusterBeforeSleep
<1>2. r = s \/ r = clusterHandleSlaveFailover(s)
  OBVIOUS
<1> HIDE DEF r
<1>3. ASSUME OK(r, n)  PROVE Step(h, r, t, n) /\ t.out = r.out
  BY <1>1, <1>3, UpdateStateStep, StepRefl
<1> QED  BY <1>2, <1>3

-----------------------------------------------------------------------------
\* The whole state

\* The memory of the nodes, their nodes.conf files, the network, the history.
DiskRecord(N, S) ==
    [currentEpoch: Nat, lastVoteEpoch: Nat, slots: [S -> N \cup {None}], known: [N -> Peer(N)]]
\* What nodes keep in memory is typed and sane.
NodesOK(N, S, nd) == nd \in [N -> NodeState(N, S)] /\ \A n \in N : nd[n].me = n /\ Sane(N, S, nd[n], n)
\* So is what they saved.
DisksOK(N, S, dk) == dk \in [N -> DiskRecord(N, S)] /\ \A n \in N : Sane(N, S, dk[n], n)
\* Channels carry the packets of their senders.
NetOK(N, S, q) ==
    DOMAIN q \subseteq Chans(N) /\ \A c \in DOMAIN q : q[c] \in Seq(Packets(N, S, c[1])) /\ q[c] # <<>>
\* No assertion failed.
HistOK(N, h) == h \subseteq Notes(N) /\ \A x \in h : x[2] # "assert"

\* Only nodes that are up have messages in flight.
Live(nd, q) == \A c \in DOMAIN q : nd[c[1]].up /\ nd[c[2]].up

\* The type invariant: a slave has a master and no slots, in memory and on disk, and no
\* assertion of clusterSetMaster failed.
TInv ==
    /\ setup \in Setups
    /\ NodesOK(Nodes, Slots, node) /\ DisksOK(Nodes, Slots, disk) /\ NetOK(Nodes, Slots, net)
    /\ HistOK(Nodes, hist) /\ used \in [Events -> Nat] /\ Live(node, net)

\* No messages.
LEMMA Empty == ASSUME NEW C, NEW P  PROVE <<>> \in Queues(C, P) /\ DOMAIN <<>> = {}
<1>1. DOMAIN <<>> = {}
  OBVIOUS
<1>2. <<>> \in [{} -> Seq(P) \ {<<>>}]
  OBVIOUS
<1>3. {} \in SUBSET C
  OBVIOUS
<1> QED  BY <1>1, <1>2, <1>3 DEF Queues

\* A node between two turns.
LEMMA BetweenIs ==
    ASSUME setup \in Setups, NEW n \in Nodes, NEW s \in NodeState(Nodes, Slots), s.me = n, Sane(Nodes, Slots, s, n)
    PROVE  OK(s, n) /\ s.out = <<>> /\ s.todo = {} /\ s.log = {}
<1>2. <<>> \in Queues(From(Nodes, n), Packets(Nodes, Slots, n))
  BY Empty
<1>3. s \in Working(Nodes, Slots, n) /\ s.out = <<>> /\ s.todo = {} /\ s.log = {}
  BY <1>2 DEF NodeState, Working
<1> QED  BY <1>3 DEF OK

\* What a node keeps between two events is what a handler may start from.
LEMMA NodeIs ==
    ASSUME TInv, NEW n \in Nodes
    PROVE  OK(node[n], n) /\ node[n].out = <<>> /\ node[n].todo = {} /\ node[n].log = {} /\ node[n].me = n
<1> DEFINE s == node[n]
<1>1. s \in NodeState(Nodes, Slots) /\ s.me = n /\ Sane(Nodes, Slots, s, n) /\ setup \in Setups
  BY DEF TInv, NodesOK
<1> HIDE DEF s
<1>2. OK(s, n) /\ s.out = <<>> /\ s.todo = {} /\ s.log = {}
  BY <1>1, BetweenIs
<1> QED  BY <1>1, <1>2 DEF s

\* What is kept of a handler's record.
LEMMA KeptIs ==
    ASSUME NEW t, NEW n, OK(t, n), NEW k, k = Kept(t)
    PROVE  /\ k \in NodeState(Nodes, Slots) /\ k.me = n /\ Sane(Nodes, Slots, k, n)
           /\ k.known = t.known /\ k.up = t.up /\ k.auth = t.auth /\ k.auth_sent = t.auth_sent
           /\ k.auth_epoch = t.auth_epoch /\ k.auth_count = t.auth_count /\ k.size = t.size
           /\ k.lastVoteEpoch = t.lastVoteEpoch /\ k.currentEpoch = t.currentEpoch
<1>1. t \in Working(Nodes, Slots, n) /\ Sane(Nodes, Slots, t, n) /\ n \in Nodes
  BY DEF OK
<1>2. [t EXCEPT !.out = <<>>, !.todo = {}, !.log = {}] \in NodeState(Nodes, Slots)
  BY <1>1 DEF Working, NodeState
<1>3. k \in NodeState(Nodes, Slots)
  BY <1>2 DEF Kept
<1>4. /\ k.known = t.known /\ k.up = t.up /\ k.auth = t.auth /\ k.auth_sent = t.auth_sent
      /\ k.auth_epoch = t.auth_epoch /\ k.auth_count = t.auth_count /\ k.size = t.size
      /\ k.lastVoteEpoch = t.lastVoteEpoch /\ k.currentEpoch = t.currentEpoch
      /\ k.slots = t.slots /\ k.me = n
  BY <1>1 DEF Working, Kept
<1>5. Sane(Nodes, Slots, k, n)
  BY <1>1, <1>4 DEF Sane
<1> QED  BY <1>3, <1>4, <1>5

\* What is saved of it.
LEMMA SavedIs ==
    ASSUME NEW t, NEW n, OK(t, n), NEW d, d = Saved(t)
    PROVE  /\ d \in DiskRecord(Nodes, Slots) /\ Sane(Nodes, Slots, d, n)
           /\ d.lastVoteEpoch = t.lastVoteEpoch /\ d.currentEpoch = t.currentEpoch
           /\ \A m \in Nodes : d.known[m].flag = t.known[m].flag /\ d.known[m].reports = {}
<1>1. /\ n \in Nodes /\ t.known \in [Nodes -> Peer(Nodes)] /\ t.slots \in [Slots -> Nodes \cup {None}]
      /\ t.currentEpoch \in Nat /\ t.lastVoteEpoch \in Nat
  BY OKFields
<1> DEFINE k == [m \in Nodes |-> [t.known[m] EXCEPT !.reports = {}, !.voted = FALSE]]
<1>2. ASSUME NEW m \in Nodes
      PROVE  k[m] \in Peer(Nodes) /\ k[m].slave = t.known[m].slave /\ k[m].slaveof = t.known[m].slaveof
             /\ k[m].flag = t.known[m].flag /\ k[m].reports = {}
  <2>1. t.known[m] \in Peer(Nodes) /\ k[m] = [t.known[m] EXCEPT !.reports = {}, !.voted = FALSE]
    BY <1>1
  <2> QED  BY <2>1 DEF Peer
<1>3. k \in [Nodes -> Peer(Nodes)]
  BY <1>2
<1>4. d = [currentEpoch |-> t.currentEpoch, lastVoteEpoch |-> t.lastVoteEpoch, slots |-> t.slots, known |-> k]
  BY DEF Saved
<1> HIDE DEF k
<1>5. /\ d \in DiskRecord(Nodes, Slots) /\ d.known = k /\ d.slots = t.slots
      /\ d.lastVoteEpoch = t.lastVoteEpoch /\ d.currentEpoch = t.currentEpoch
  BY <1>1, <1>3, <1>4 DEF DiskRecord
<1>6. Sane(Nodes, Slots, t, n)
  BY DEF OK
<1>7. Sane(Nodes, Slots, d, n)
  BY <1>1, <1>2, <1>5, <1>6 DEF Sane, Roles
<1> QED  BY <1>2, <1>5, <1>7

\* What is on a channel after a turn comes from the network or from the turn.
Sends(q, chans, out) ==
    \A c \in DOMAIN q :
       \/ c \in DOMAIN chans /\ q[c] = chans[c]
       \/ c \in DOMAIN out /\ node[c[2]].up /\ q[c] = On(chans, c) \o out[c]
\* What a handler sends is queued behind what waits.
LEMMA DeliverIs ==
    ASSUME NEW t, NEW n, OK(t, n), NEW chans, NetOK(Nodes, Slots, chans), NEW q, q = Deliver(chans, t)
    PROVE  NetOK(Nodes, Slots, q) /\ Sends(q, chans, t.out)
<1> DEFINE to == {c \in DOMAIN t.out : node[c[2]].up}
           w(c) == IF c \in to THEN On(chans, c) \o t.out[c] ELSE chans[c]
<1>1. t.out \in Queues(From(Nodes, n), Packets(Nodes, Slots, n))
  BY OKFields
<1>2. DOMAIN t.out \subseteq From(Nodes, n) /\ \A c \in DOMAIN t.out : t.out[c] \in Seq(Packets(Nodes, Slots, n)) /\ t.out[c] # <<>>
  BY <1>1, QueuesIs
<1>3. /\ DOMAIN chans \subseteq Chans(Nodes)
      /\ \A c \in DOMAIN chans : chans[c] \in Seq(Packets(Nodes, Slots, c[1])) /\ chans[c] # <<>>
  BY DEF NetOK
<1>4. DOMAIN q = DOMAIN chans \cup to /\ \A c \in DOMAIN q : q[c] = w(c)
  BY DEF Deliver
<1>5. \A c \in to : c \in Chans(Nodes) /\ c[1] = n
  BY <1>2 DEF From
<1>6. ASSUME NEW c \in DOMAIN q
      PROVE  q[c] \in Seq(Packets(Nodes, Slots, c[1])) /\ q[c] # <<>>
  <2>1. CASE c \in to
    <3> DEFINE P == Packets(Nodes, Slots, c[1])
    <3>1. c[1] = n /\ c \in DOMAIN t.out
      BY <1>5, <2>1
    <3>6. c \in DOMAIN chans => chans[c] \in Seq(P)
      BY <1>3
    <3>3. t.out[c] \in Seq(P) /\ t.out[c] # <<>>
      BY <1>2, <3>1
    <3>2. On(chans, c) \in Seq(P)
      <4> HIDE DEF P
      <4>1. <<>> \in Seq(P)
        OBVIOUS
      <4> QED  BY <3>6, <4>1 DEF On
    <3>4. q[c] = On(chans, c) \o t.out[c]
      BY <1>4, <2>1
    <3> HIDE DEF P
    <3>5. On(chans, c) \o t.out[c] \in Seq(P) /\ On(chans, c) \o t.out[c] # <<>>
      BY <3>2, <3>3, Concat
    <3> QED  BY <3>4, <3>5 DEF P
  <2>2. CASE c \notin to
    BY <1>3, <1>4, <2>2
  <2> QED  BY <2>1, <2>2
<1>7. NetOK(Nodes, Slots, q)
  BY <1>3, <1>4, <1>5, <1>6 DEF NetOK
<1>8. Sends(q, chans, t.out)
  BY <1>4 DEF Sends
<1> QED  BY <1>7, <1>8

\* A turn of node n that ends with record t on a network with the messages of chans.
Acts(n, t, chans) ==
    /\ setup' = setup
    /\ node' = [node EXCEPT ![n] = Kept(t)]
    /\ disk' = disk \/ disk' = [disk EXCEPT ![n] = Saved(t)]
    /\ net' = Deliver(chans, t)
    /\ hist' = hist \cup t.log
\* A turn of the event loop changes the node as clusterBeforeSleep leaves it.
LEMMA TurnActs ==
    ASSUME NEW s, NEW n, NEW t, t = clusterBeforeSleep(s), t.me = n, NEW chans, Turn(s, chans), UNCHANGED setup
    PROVE  Acts(n, t, chans)
BY DEF Turn, Acts

-----------------------------------------------------------------------------
\* What a turn does

\* Some messages of Q are gone.
Less(q, Q) ==
    DOMAIN q \subseteq DOMAIN Q /\ \A c \in DOMAIN q : q[c] # <<>> /\ (q[c] = Q[c] \/ q[c] = Tail(Q[c]))

\* Fewer packets are packets still.
LEMMA LessOK ==
    ASSUME NetOK(Nodes, Slots, net), NEW q, Less(q, net)
    PROVE  NetOK(Nodes, Slots, q)
<1> SUFFICES ASSUME NEW c \in DOMAIN q  PROVE q[c] \in Seq(Packets(Nodes, Slots, c[1])) /\ q[c] # <<>>
  BY DEF NetOK, Less
<1> DEFINE P == Packets(Nodes, Slots, c[1])
<1>1. net[c] \in Seq(P) /\ net[c] # <<>> /\ q[c] # <<>> /\ (q[c] = net[c] \/ q[c] = Tail(net[c]))
  BY DEF NetOK, Less
<1> HIDE DEF P
<1>2. Tail(net[c]) \in Seq(P)
  BY <1>1
<1> QED  BY <1>1, <1>2 DEF P

\* Taking nothing away takes no more than that.
LEMMA LessRefl == ASSUME NetOK(Nodes, Slots, net)  PROVE Less(net, net)
BY DEF NetOK, Less

\* Fewer channels.
LEMMA WithoutLess ==
    ASSUME NetOK(Nodes, Slots, net), NEW gone, NEW q, q = Without(net, gone)
    PROVE  Less(q, net) /\ DOMAIN q = DOMAIN net \ gone
BY DEF NetOK, Less, Without

\* The messages after the first.
LEMMA TailIs ==
    ASSUME NEW P, NEW w \in Seq(P), w # <<>>
    PROVE  /\ Tail(w) \in Seq(P) /\ (Len(w) # 1 => Tail(w) # <<>>)
           /\ 1 \in DOMAIN w /\ Head(w) = w[1] /\ w[1] \in P
           /\ \A i \in DOMAIN Tail(w) : i \in Nat /\ i # 0 /\ i + 1 \in DOMAIN w /\ Tail(w)[i] = w[i + 1]
<1>1. Len(w) \in Nat /\ DOMAIN w = 1..Len(w) /\ Len(w) # 0
  BY EmptySeq
<1>2. Tail(w) \in Seq(P) /\ Len(Tail(w)) = Len(w) - 1
  BY HeadTailProperties
<1>3. DOMAIN Tail(w) = 1..(Len(w) - 1)
  BY <1>2
<1>4. ASSUME Len(w) # 1  PROVE Tail(w) # <<>>
  <2> DEFINE u == Tail(w)
  <2>1. 1 \in DOMAIN u
    BY <1>1, <1>3, <1>4
  <2> HIDE DEF u
  <2>2. u # <<>>
    BY <2>1
  <2> QED  BY <2>2 DEF u
<1>5. \A i \in 1..(Len(w) - 1) : Tail(w)[i] = w[i + 1] /\ i + 1 \in 1..Len(w) /\ i \in Nat /\ i # 0
  BY <1>1, HeadTailProperties
<1>6. 1 \in DOMAIN w /\ w[1] \in P /\ Head(w) = w[1]
  BY <1>1
<1> QED  BY <1>1, <1>2, <1>3, <1>4, <1>5, <1>6

\* The first message of a channel is taken.
Takes(c, q) == c \in DOMAIN net /\ Less(q, net) /\ (c \in DOMAIN q => q[c] = Tail(net[c]))
\* Reading a packet takes the first one of its channel.
LEMMA TakesIs ==
    ASSUME NetOK(Nodes, Slots, net), NEW c \in DOMAIN net, NEW q,
           q = IF Len(net[c]) = 1 THEN Without(net, {c}) ELSE [net EXCEPT ![c] = Tail(@)]
    PROVE  Takes(c, q)
<1>1. CASE Len(net[c]) = 1
  <2>1. q = Without(net, {c})
    BY <1>1
  <2>2. Less(q, net) /\ DOMAIN q = DOMAIN net \ {c}
    BY <2>1, WithoutLess
  <2> QED  BY <2>2 DEF Takes
<1>2. CASE Len(net[c]) # 1
  <2> DEFINE P == Packets(Nodes, Slots, c[1])
  <2>1. net[c] \in Seq(P) /\ net[c] # <<>>
    BY DEF NetOK
  <2> HIDE DEF P
  <2>2. Tail(net[c]) # <<>>
    BY <1>2, <2>1, TailIs
  <2> DEFINE v == Tail(net[c])
  <2>5. q = [net EXCEPT ![c] = v]
    BY <1>2
  <2> HIDE DEF v
  <2>6. DOMAIN q = DOMAIN net /\ q[c] = v /\ \A x \in DOMAIN q : x # c => q[x] = net[x]
    BY <2>5
  <2>3. DOMAIN q = DOMAIN net /\ q[c] = Tail(net[c]) /\ \A x \in DOMAIN q : x # c => q[x] = net[x]
    BY <2>6 DEF v
  <2>4. \A x \in DOMAIN net : net[x] # <<>>
    BY DEF NetOK
  <2> QED  BY <2>2, <2>3, <2>4 DEF Takes, Less
<1> QED  BY <1>1, <1>2

\* Node n neither votes nor asks for votes.
Rests(s, t) ==
    /\ t.auth = s.auth /\ t.auth_sent = s.auth_sent /\ t.auth_epoch = s.auth_epoch
    /\ t.lastVoteEpoch = s.lastVoteEpoch /\ t.currentEpoch >= s.currentEpoch /\ Plain(t.out)
\* So it does, and counts no vote.
Quiet(s, t) == Rests(s, t) /\ t.auth_count = s.auth_count

\* It wins with the votes it has.
Elected(s, t, n) ==
    t.log = {<<n, "won", s.auth_epoch>>} /\ IsSlave(s, n) /\ t.auth_count >= s.size \div 2 + 1

\* It schedules an attempt; asks for votes; votes; counts a vote.
Schedules(s, t) ==
    /\ s.auth = "retry" /\ t.auth_count = 0 /\ t.auth_sent = FALSE /\ t.auth_epoch = s.auth_epoch
    /\ t.lastVoteEpoch = s.lastVoteEpoch /\ t.currentEpoch >= s.currentEpoch /\ t.log = {} /\ Plain(t.out)
\* A slave whose election is open asks for votes, in the epoch that its requests carry.
Runs(s, t) ==
    /\ s.auth = "open" /\ ~s.auth_sent /\ t.auth = "open" /\ t.auth_count = s.auth_count /\ t.auth_sent = TRUE
    /\ t.lastVoteEpoch = s.lastVoteEpoch /\ t.currentEpoch >= s.currentEpoch /\ t.log = {}
    /\ \A c \in DOMAIN t.out : \A i \in DOMAIN t.out[c] :
          /\ t.out[c][i].type # "auth_ack"
          /\ t.out[c][i].type = "auth_request" => t.out[c][i].currentEpoch = t.auth_epoch
\* Node n votes for m in epoch e, the one the request carries.
Grants(s, t, n, m, e) ==
    /\ t.auth = s.auth /\ t.auth_sent = s.auth_sent /\ t.auth_epoch = s.auth_epoch /\ t.auth_count = s.auth_count
    /\ e >= s.currentEpoch /\ e # s.lastVoteEpoch /\ t.lastVoteEpoch = e /\ t.currentEpoch >= e
    /\ t.log = {<<n, "vote", e, m>>}
    /\ \E a : a.type = "auth_ack" /\ t.out = Queue(<<>>, {<<n, m, "own">>}, <<a>>)
\* A slave counts a vote, and may win by it.
Counted(s, t, n) == Rests(s, t) /\ t.auth_count = s.auth_count + 1 /\ (t.log = {} \/ Elected(s, t, n))

\* What an event of a running node does about elections: nothing, a win by votes counted
\* before, a new attempt, requests, a vote, or a vote counted or dropped.
Elects(n, s, t, chans) ==
    \/ Quiet(s, t) /\ (t.log = {} \/ (\E m \in Nodes : t.log = {<<n, "suspect", m>>}) \/ Elected(s, t, n))
    \/ Schedules(s, t)
    \/ Runs(s, t)
    \/ \E c : Takes(c, chans) /\ c[2] = n /\ net[c][1].type = "auth_request" /\ Grants(s, t, n, c[1], net[c][1].currentEpoch)
    \/ \E c : Takes(c, chans) /\ c[2] = n /\ net[c][1].type = "auth_ack"
            /\ (Counted(s, t, n) \/ (t.log = {} /\ (s.auth = "retry" \/ ~s.auth_sent)))

\* With the quorum of a majority and a reason for all it was told, n has a reason for its flags.
Argues(h, s, t, n) ==
    Full(s) /\ Reasoned(h, s, n) /\ AllTold(Nodes, Slots, h, net) => Reasoned(h, t, n)

\* An event of a running node n that leaves it in t, having taken what chans lacks.
Does(n, t, chans) ==
    /\ n \in Nodes /\ node[n].up /\ OK(t, n) /\ t.up = node[n].up /\ Acts(n, t, chans) /\ Less(chans, net)
    /\ Elects(n, node[n], t, chans) /\ Argues(hist', node[n], t, n)

\* A turn with a handler that leaves elections alone.
Goes(h, s, t, n) == OK(t, n) /\ Calm(s, t) /\ Argues(h, s, t, n)
\* What takes no part in an election goes.
LEMMA StepGoes == ASSUME NEW h, NEW s, NEW t, NEW n, Step(h, s, t, n)  PROVE Goes(h, s, t, n)
BY DEF Step, Goes, Argues

\* So does what is founded once all packets are.
LEMMA MoveGoes ==
    ASSUME NEW h, NEW s, NEW t, NEW n, NEW b, Move(b, h, s, t, n), AllTold(Nodes, Slots, h, net) => b
    PROVE Goes(h, s, t, n)
BY DEF Move, Goes, Argues

\* Between two events, taking no part in an election is being quiet.
LEMMA CalmQuiet ==
    ASSUME NEW s, NEW t, Calm(s, t), s.out = <<>>, s.log = {}
    PROVE  Quiet(s, t) /\ t.log = {} /\ t.up = s.up
<1>1. Plain(s.out)
  BY DEF Plain
<1> QED  BY <1>1 DEF Calm, Quiet, Rests

\* The events that go are events of a running node.
LEMMA CalmTurn ==
    ASSUME TInv, NEW n \in Nodes, node[n].up, NEW s, Goes(hist', node[n], s, n),
           NEW chans, Less(chans, net), Turn(s, chans), UNCHANGED setup
    PROVE  \E t : Does(n, t, chans)
<1> DEFINE t == clusterBeforeSleep(s)
           h == hist'
           b == node[n]
<1>1. OK(b, n) /\ b.out = <<>> /\ b.todo = {} /\ b.log = {}
  BY NodeIs
<1>2. OK(s, n) /\ Calm(b, s) /\ Argues(h, b, s, n)
  BY DEF Goes
<1>3. "failover" \notin s.todo
  BY <1>1, <1>2 DEF Calm
<1>4. t = clusterBeforeSleep(s)
  OBVIOUS
<1> HIDE DEF t, h, b
<1>5. Step(h, s, t, n) /\ t.out = s.out
  BY <1>2, <1>3, <1>4, SleepStep
<1>6. OK(t, n) /\ t.me = n
  BY <1>5, OKFields DEF Step
<1>7. b.currentEpoch \in Nat /\ s.currentEpoch \in Nat /\ t.currentEpoch \in Nat
  BY <1>1, <1>2, <1>6, OKFields
<1>8. Calm(b, t)
  BY <1>2, <1>5, <1>7 DEF Step, Calm
<1>9. Argues(h, b, t, n)
  BY <1>2, <1>5 DEF Step, Argues
<1>10. Acts(n, t, chans)
  BY <1>4, <1>6, TurnActs
<1>11. Quiet(b, t) /\ t.log = {} /\ t.up = b.up
  BY <1>1, <1>8, CalmQuiet
<1>12. Elects(n, b, t, chans)
  BY <1>11 DEF Elects
<1> QED  BY <1>6, <1>9, <1>10, <1>11, <1>12 DEF Does, b, h

-----------------------------------------------------------------------------
\* The actions

\* The bounds of a situation.
LEMMA SpendOK == ASSUME TInv, NEW e \in Events, Spend(e)  PROVE used' \in [Events -> Nat]
<1>1. used \in [Events -> Nat] /\ (used' = used \/ used' = [used EXCEPT ![e] = used[e] + 1])
  BY DEF TInv, Spend
<1> QED  BY <1>1

\* A step is a turn of a node.
Happens == (\E n, t, chans : Does(n, t, chans)) /\ used' \in [Events -> Nat]

\* The node notes that it pinged another, and pings it.
Pinging(s, m) == clusterSendPing(SetPeer(s, m, WithPinged(s.known[m], TRUE)), {m}, "own", "ping")
\* Sending a ping is such a step.
LEMMA PingingStep ==
    ASSUME NEW h, NEW s, NEW n, OK(s, n), NEW m \in Nodes, m # n, NEW t, t = Pinging(s, m)
    PROVE  Step(h, s, t, n)
<1> DEFINE b == TRUE
           p == WithPinged(s.known[m], b)
           r == SetPeer(s, m, p)
           to == {m}
           kind == "own"
           type == "ping"
<1>1. b \in BOOLEAN /\ to \subseteq Nodes \ {n} /\ kind \in {"own", "reply"} /\ type \in {"ping", "pong"}
  OBVIOUS
<1>2. p = WithPinged(s.known[m], b) /\ r = SetPeer(s, m, p) /\ t = clusterSendPing(r, to, kind, type)
  BY DEF Pinging
<1> HIDE DEF b, p, r, to, kind, type
<1>3. Tame(s, n, m, p)
  BY <1>1, <1>2, PingedTame
<1>4. Step(h, s, r, n)
  BY <1>2, <1>3, TameStep
<1>5. OK(r, n)
  BY <1>4 DEF Step
<1>6. Step(h, r, t, n)
  BY <1>1, <1>2, <1>5, PingStep
<1> QED  BY <1>4, <1>6, StepTrans

\* The pairs of nodes of a situation.
LEMMA PairIs ==
    ASSUME setup \in Setups, NEW pair \in setup.pings \cup setup.reconnects \cup setup.timeouts
    PROVE  pair[1] \in Nodes /\ pair[2] \in Nodes /\ pair[2] # pair[1]
BY ClusterAssumption DEF IsSetup, Nodes

\* The ping of clusterCron.
LEMMA PingDoes ==
    ASSUME TInv, UNCHANGED setup, NEW n \in Nodes, NEW m \in Nodes, m # n, Ping(n, m)  PROVE Happens
<1> DEFINE h == hist'
           b == node[n]
           s == Pinging(b, m)
<1>1. OK(b, n) /\ b.up /\ used' \in [Events -> Nat]
  BY NodeIs, SpendOK DEF Ping, Events
<1>2. Turn(s, net)
  BY DEF Ping, Pinging, WithPinged
<1>3. s = Pinging(b, m)
  OBVIOUS
<1> HIDE DEF h, b, s
<1>4. Goes(h, b, s, n)
  BY <1>1, <1>3, PingingStep, StepGoes
<1>5. Less(net, net)
  BY LessRefl DEF TInv
<1>6. \E t : Does(n, t, net)
  BY <1>1, <1>2, <1>4, <1>5, CalmTurn DEF h, b
<1> QED  BY <1>1, <1>6 DEF Happens

\* A link that broke is opened again.
LEMMA ReconnectDoes ==
    ASSUME TInv, UNCHANGED setup, NEW n \in Nodes, NEW m \in Nodes, m # n, Reconnect(n, m)  PROVE Happens
<1> DEFINE h == hist'
           b == node[n]
           s == Pinging(b, m)
           gone == {<<n, m, "own">>, <<m, n, "reply">>}
           q == Without(net, gone)
<1>1. OK(b, n) /\ b.up /\ used' \in [Events -> Nat]
  BY NodeIs, SpendOK DEF Reconnect, Events
<1>2. Turn(s, q)
  BY DEF Reconnect, Pinging, WithPinged
<1>3. s = Pinging(b, m) /\ q = Without(net, gone)
  OBVIOUS
<1> HIDE DEF h, b, s, gone, q
<1>4. Goes(h, b, s, n)
  BY <1>1, <1>3, PingingStep, StepGoes
<1>5. Less(q, net)
  BY <1>3, WithoutLess DEF TInv
<1>6. \E t : Does(n, t, q)
  BY <1>1, <1>2, <1>4, <1>5, CalmTurn DEF h, b
<1> QED  BY <1>1, <1>6 DEF Happens

\* A report is too old.
WithReports(p, R) == [p EXCEPT !.reports = R]
\* A failure report that is too old goes.
LEMMA ReportExpiresDoes ==
    ASSUME TInv, UNCHANGED setup, NEW n \in Nodes, NEW m \in Nodes, ReportExpires(n, m)  PROVE Happens
<1> DEFINE h == hist'
           b == node[n]
<1>1. OK(b, n) /\ b.up /\ used' \in [Events -> Nat]
  BY NodeIs DEF ReportExpires, TInv
<1>2. PICK r \in b.known[m].reports : Turn(SetPeer(b, m, [b.known[m] EXCEPT !.reports = @ \ {r}]), net)
  BY DEF ReportExpires
<1> DEFINE R == b.known[m].reports \ {r}
           p == WithReports(b.known[m], R)
           s == SetPeer(b, m, p)
<1>3. Turn(s, net)
  BY <1>2 DEF WithReports
<1>4. s = SetPeer(b, m, p) /\ R \subseteq b.known[m].reports
  OBVIOUS
<1>5. /\ b.known[m] \in Peer(Nodes) /\ b.known[m].reports \subseteq Nodes /\ b.known[n].slaveof # n
      /\ (b.known[m].slave <=> b.known[m].slaveof # None)
  BY <1>1, OKFields
<1>6. p = WithReports(b.known[m], R)
  OBVIOUS
<1> HIDE DEF h, b, R, p, s
<1>7. WithReports(b.known[m], R) \in Peer(Nodes)
  BY <1>4, <1>5 DEF WithReports, Peer
<1>8. /\ p.slave = b.known[m].slave /\ p.slaveof = b.known[m].slaveof /\ p.flag = b.known[m].flag
      /\ p.reports = R /\ p \in Peer(Nodes)
  BY <1>5, <1>6, <1>7 DEF WithReports, Peer
<1>9. Tame(b, n, m, p)
  BY <1>4, <1>5, <1>8 DEF Tame
<1>10. Goes(h, b, s, n)
  BY <1>1, <1>4, <1>9, TameStep, StepGoes
<1>11. Less(net, net)
  BY LessRefl DEF TInv
<1>12. \E t : Does(n, t, net)
  BY <1>1, <1>3, <1>10, <1>11, CalmTurn DEF h, b
<1> QED  BY <1>1, <1>12 DEF Happens

\* A delay is over.
WithDelays(s) == [s EXCEPT !.booting = FALSE, !.minority = FALSE]
\* The delay before a master accepts queries again is over.
LEMMA StateDelayDoes ==
    ASSUME TInv, UNCHANGED setup, NEW n \in Nodes, StateDelayOver(n)  PROVE Happens
<1> DEFINE h == hist'
           b == node[n]
           r == WithDelays(b)
           s == IF r.state = "fail" THEN clusterUpdateState(r) ELSE r
<1>1. OK(b, n) /\ b.up /\ used' \in [Events -> Nat]
  BY NodeIs DEF StateDelayOver, TInv
<1>2. Turn(s, net)
  BY DEF StateDelayOver, WithDelays
<1>3. b \in Working(Nodes, Slots, n) /\ b.currentEpoch \in Nat
  BY <1>1, OKFields DEF OK
<1>4. s = r \/ s = clusterUpdateState(r)
  OBVIOUS
<1> HIDE DEF h, b, s
<1>5. [b EXCEPT !.booting = FALSE, !.minority = FALSE] \in Working(Nodes, Slots, n)
  BY <1>3 DEF Working
<1>6. r \in Working(Nodes, Slots, n)
  BY <1>5 DEF WithDelays
<1>7. /\ r.up = b.up /\ r.auth = b.auth /\ r.auth_sent = b.auth_sent
      /\ r.auth_epoch = b.auth_epoch /\ r.auth_count = b.auth_count
      /\ r.lastVoteEpoch = b.lastVoteEpoch /\ r.currentEpoch = b.currentEpoch /\ r.log = b.log
      /\ r.out = b.out /\ r.known = b.known /\ r.slots = b.slots /\ r.todo = b.todo
  BY <1>3 DEF Working, WithDelays
<1> HIDE DEF r
<1>8. r.currentEpoch >= b.currentEpoch
  BY <1>3, <1>7
<1>9. Step(h, b, r, n)
  BY <1>1, <1>6, <1>7, <1>8, StepFields
<1>10. OK(r, n)
  BY <1>9 DEF Step
<1>11. Step(h, r, s, n)
  BY <1>4, <1>10, StepRefl, UpdateStateStep
<1>12. Goes(h, b, s, n)
  BY <1>1, <1>9, <1>11, StepTrans, StepGoes
<1>13. Less(net, net)
  BY LessRefl DEF TInv
<1>14. \E t : Does(n, t, net)
  BY <1>1, <1>2, <1>12, <1>13, CalmTurn DEF h, b
<1> QED  BY <1>1, <1>14 DEF Happens

\* A manual failover is given up.
LEMMA MfTimeoutDoes ==
    ASSUME TInv, UNCHANGED setup, NEW n \in Nodes, ManualFailoverTimeout(n)  PROVE Happens
<1> DEFINE h == hist'
           b == node[n]
           s == resetManualFailover(b)
<1>1. OK(b, n) /\ b.up /\ used' \in [Events -> Nat]
  BY NodeIs DEF ManualFailoverTimeout, TInv
<1>2. Turn(s, net) /\ s = resetManualFailover(b)
  BY DEF ManualFailoverTimeout
<1> HIDE DEF h, b, s
<1>4. Goes(h, b, s, n)
  BY <1>1, <1>2, ResetStep, StepGoes
<1>5. Less(net, net)
  BY LessRefl DEF TInv
<1>6. \E t : Does(n, t, net)
  BY <1>1, <1>2, <1>4, <1>5, CalmTurn DEF h, b
<1> QED  BY <1>1, <1>6 DEF Happens

\* CLUSTER FAILOVER: the manual failover starts.
Begins(r, id) == [r EXCEPT !.mf_end = TRUE, !.mf_id = id]
\* CLUSTER FAILOVER asks the master to pause.
LEMMA BeginsStep ==
    ASSUME NEW h, NEW b, NEW n, OK(b, n), NEW id \in Nat, NEW s, s = Begins(resetManualFailover(b), id)
    PROVE  Step(h, b, s, n) /\ s.known = b.known
<1> DEFINE r == resetManualFailover(b)
           p == r.paused
           e == TRUE
           c == r.mf_can_start
           m == r.mf_slave
           o == r.mf_master_offset
<1>1. Step(h, b, r, n) /\ r.known = b.known
  BY ResetStep
<1>2. OK(r, n) /\ s = Begins(r, id)
  BY <1>1 DEF Step
<1> HIDE DEF r
<1>3. r \in Working(Nodes, Slots, n)
  BY <1>2 DEF OK
<1>4. ManualArgs(p, e, c, m, o, id)
  BY <1>2, OKFields DEF ManualArgs
<1>5. s = WithManual(r, p, e, c, m, o, id)
  BY <1>2, <1>3 DEF WithManual, Begins, Working
<1> HIDE DEF p, e, c, m, o
<1>6. Step(h, r, s, n) /\ s.known = r.known
  BY <1>2, <1>4, <1>5, ManualStep
<1> QED  BY <1>1, <1>6, StepTrans

\* FORCE: the slave does not wait.
Forced(s) == [s EXCEPT !.mf_can_start = TRUE]
\* CLUSTER FAILOVER FORCE waits for no offset.
LEMMA ForcedStep ==
    ASSUME NEW h, NEW s, NEW n, OK(s, n), NEW t, t = Forced(s)
    PROVE  Step(h, s, t, n)
<1> DEFINE p == s.paused
           e == s.mf_end
           c == TRUE
           m == s.mf_slave
           o == s.mf_master_offset
           id == s.mf_id
<1>3. s \in Working(Nodes, Slots, n)
  BY DEF OK
<1>4. ManualArgs(p, e, c, m, o, id)
  BY OKFields DEF ManualArgs
<1>5. t = WithManual(s, p, e, c, m, o, id)
  BY <1>3 DEF WithManual, Forced, Working
<1> HIDE DEF p, e, c, m, o, id
<1> QED  BY <1>4, <1>5, ManualStep

\* No option: the master is told.
LEMMA MfStartStep ==
    ASSUME NEW h, NEW s, NEW n, OK(s, n), NEW id \in Nat, NEW m \in Nodes, m # n,
           NEW t, t = clusterSendMessage(s, {m}, "own", <<clusterBuildMessageHdr(s, "mfstart", id)>>)
    PROVE  Step(h, s, t, n)
<1> DEFINE type == "mfstart"
           D == Nat
           p == clusterBuildMessageHdr(s, type, id)
           to == {m}
           kind == "own"
<1>1. p = clusterBuildMessageHdr(s, type, id) /\ t = clusterSendMessage(s, to, kind, <<p>>) /\ id \in D
  OBVIOUS
<1>2. to \subseteq Nodes \ {n} /\ kind \in {"own", "reply"}
  OBVIOUS
<1> HIDE DEF p, to, kind, D
<1>3. p \in Packet(Nodes, Slots, n, {type}, D) /\ p.type = type
  BY <1>1, HeaderIs
<1>4. p \in Packets(Nodes, Slots, n)
  BY <1>3, PacketTypes DEF D
<1>5. p.type \notin VoteTypes /\ Told(Nodes, Slots, h, p)
  BY <1>3 DEF VoteTypes, Told
<1>6. Letter(h, s, n, to, kind, p)
  BY <1>2, <1>4, <1>5 DEF Letter
<1> QED  BY <1>1, <1>6, SendLetter

\* CLUSTER FAILOVER, with any option.
LEMMA FailoverDoes ==
    ASSUME TInv, UNCHANGED setup, NEW n \in Nodes, NEW option \in {"", "force", "takeover"}, ClusterFailover(n, option)
    PROVE  Happens
<1> DEFINE h == hist'
           b == node[n]
           id == used'["manual"]
           s == Begins(resetManualFailover(b), id)
           m == MyMaster(s)
           bumped == clusterBumpConfigEpochWithoutConsensus(s)
           t == CASE option = "takeover" -> clusterFailoverReplaceYourMaster(bumped)
                  [] option = "force" -> Forced(s)
                  [] option = "" -> clusterSendMessage(s, {m}, "own", <<clusterBuildMessageHdr(s, "mfstart", id)>>)
<1>1. OK(b, n) /\ b.up /\ b.me = n /\ b.known[n].slaveof # None
  BY NodeIs DEF ClusterFailover, MyMaster
<1>2. used' \in [Events -> Nat] /\ id \in Nat
  BY SpendOK DEF ClusterFailover, Events
<1>3. Turn(t, net)
  BY DEF ClusterFailover, Begins, Forced
<1>4. s = Begins(resetManualFailover(b), id) /\ bumped = clusterBumpConfigEpochWithoutConsensus(s)
  OBVIOUS
<1> HIDE DEF h, b, s, id, bumped
<1>5. Step(h, b, s, n) /\ s.known = b.known
  BY <1>1, <1>2, <1>4, BeginsStep
<1>6. OK(s, n)
  BY <1>5 DEF Step
<1>12. s.me = n /\ s.known[n].slaveof \in Nodes \cup {None} /\ s.known[n].slaveof # n
  BY <1>6, OKFields
<1>13. m = s.known[n].slaveof /\ s.known[n].slaveof # None
  BY <1>1, <1>5, <1>12 DEF MyMaster
<1>7. m \in Nodes /\ m # n
  BY <1>12, <1>13
<1> HIDE DEF m
<1>8. Step(h, s, t, n)
  <2>1. CASE option = "takeover"
    <3>1. t = clusterFailoverReplaceYourMaster(bumped)
      BY <2>1
    <3> HIDE DEF t
    <3>2. Step(h, s, bumped, n)
      BY <1>4, <1>6, BumpStep
    <3>3. OK(bumped, n)
      BY <3>2 DEF Step
    <3>4. Step(h, bumped, t, n)
      BY <3>1, <3>3, ReplaceStep
    <3> QED  BY <1>6, <3>2, <3>4, StepTrans
  <2>2. CASE option = "force"
    <3>1. t = Forced(s)
      BY <2>2
    <3> HIDE DEF t
    <3> QED  BY <1>6, <3>1, ForcedStep
  <2>3. CASE option = ""
    <3>1. t = clusterSendMessage(s, {m}, "own", <<clusterBuildMessageHdr(s, "mfstart", id)>>)
      BY <2>3
    <3> HIDE DEF t
    <3> QED  BY <1>2, <1>6, <1>7, <3>1, MfStartStep
  <2> QED  BY <2>1, <2>2, <2>3
<1> HIDE DEF t
<1>9. Goes(h, b, t, n)
  BY <1>1, <1>5, <1>8, StepTrans, StepGoes
<1>10. Less(net, net)
  BY LessRefl DEF TInv
<1>11. \E r : Does(n, r, net)
  BY <1>1, <1>3, <1>9, <1>10, CalmTurn DEF h, b
<1> QED  BY <1>2, <1>11 DEF Happens

\* A node is found unreachable.
Suspicion(n, m) == <<n, "suspect", m>>
\* Node n finds m unreachable, and notes it.
Suspects(s, n, m) == [SetPeer(s, m, WithFlag(s.known[m], "pfail")) EXCEPT !.log = {<<n, "suspect", m>>}]
\* That flag is founded on its own note.
LEMMA SuspectsIs ==
    ASSUME NEW h, NEW s, NEW n, OK(s, n), NEW m \in Nodes, Suspicion(n, m) \in h, NEW t, t = Suspects(s, n, m)
    PROVE  /\ Sound(h, s, t, n) /\ t.log = {Suspicion(n, m)} /\ t.out = s.out
           /\ t.auth = s.auth /\ t.auth_sent = s.auth_sent /\ t.auth_epoch = s.auth_epoch /\ t.auth_count = s.auth_count
           /\ t.lastVoteEpoch = s.lastVoteEpoch /\ t.currentEpoch = s.currentEpoch /\ t.todo = s.todo
<1> DEFINE p == WithFlag(s.known[m], "pfail")
           r == SetPeer(s, m, p)
           L == {<<n, "suspect", m>>}
<1>1. s \in Working(Nodes, Slots, n) /\ n \in Nodes /\ Sane(Nodes, Slots, s, n) /\ setup \in Setups
  BY DEF OK
<1>2. s.known[m] \in Peer(Nodes) /\ (s.known[m].slave <=> s.known[m].slaveof # None)
  BY OKFields
<1>3. WithFlag(s.known[m], "pfail") \in Peer(Nodes)
  BY <1>2 DEF WithFlag, Peer
<1>4. /\ p.slave = s.known[m].slave /\ p.slaveof = s.known[m].slaveof /\ p.flag = "pfail"
      /\ p.reports = s.known[m].reports /\ p \in Peer(Nodes)
  BY <1>2, <1>3 DEF WithFlag, Peer
<1>5. t = [r EXCEPT !.log = L]
  BY DEF Suspects
<1>6. L \in SUBSET Notes(Nodes)
  BY <1>1 DEF Notes
<1> HIDE DEF p, L
<1>7. /\ r \in Working(Nodes, Slots, n) /\ SameBut(s, r)
      /\ r.known \in [Nodes -> Peer(Nodes)] /\ r.known[m] = p
      /\ \A x \in Nodes : x # m => r.known[x] = s.known[x]
      /\ r.slots = s.slots /\ r.out = s.out /\ r.todo = s.todo
  BY <1>1, <1>4, PeerIs
<1> HIDE DEF r
<1>8. [r EXCEPT !.log = L] \in Working(Nodes, Slots, n)
  BY <1>6, <1>7 DEF Working
<1>9. /\ t \in Working(Nodes, Slots, n) /\ t.known = r.known /\ t.slots = r.slots /\ t.out = r.out /\ t.up = r.up
      /\ t.auth = r.auth /\ t.auth_sent = r.auth_sent /\ t.auth_epoch = r.auth_epoch /\ t.auth_count = r.auth_count
      /\ t.lastVoteEpoch = r.lastVoteEpoch /\ t.currentEpoch = r.currentEpoch /\ t.todo = r.todo /\ t.log = L
  BY <1>5, <1>7, <1>8 DEF Working
<1>10. Sane(Nodes, Slots, t, n)
  BY <1>1, <1>4, <1>7, <1>9 DEF Sane, Roles
<1>11. OK(t, n)
  BY <1>1, <1>9, <1>10 DEF OK
<1>12. ASSUME Reasoned(h, s, n)  PROVE Reasoned(h, t, n)
  <2> SUFFICES ASSUME NEW x \in Nodes
               PROVE  /\ Founded(Nodes, Slots, h, n, x, t.known[x].flag)
                      /\ n \notin t.known[x].reports
                      /\ Down(Nodes, Slots, h, x) \/ t.known[x].reports \subseteq Suspecters(Nodes, h, x)
    BY <1>7, <1>9, <1>12 DEF Reasoned, FlagsOK
  <2>1. /\ Founded(Nodes, Slots, h, n, x, s.known[x].flag)
        /\ n \notin s.known[x].reports
        /\ Down(Nodes, Slots, h, x) \/ s.known[x].reports \subseteq Suspecters(Nodes, h, x)
    BY <1>12 DEF Reasoned, FlagsOK
  <2> QED  BY <1>4, <1>7, <1>9, <2>1 DEF Founded, Suspicion
<1>13. Sound(h, s, t, n)
  BY <1>7, <1>9, <1>11, <1>12 DEF Sound, SameBut
<1> QED  BY <1>7, <1>9, <1>13 DEF SameBut, L, Suspicion

\* A ping that is not answered in time.
LEMMA TimeoutDoes ==
    ASSUME TInv, UNCHANGED setup, NEW n \in Nodes, NEW m \in Nodes, PingTimeout(n, m)  PROVE Happens
<1> DEFINE h == hist'
           b == node[n]
           r == Suspects(b, n, m)
           u == clusterUpdateState(r)
           t == clusterBeforeSleep(u)
<1>1. OK(b, n) /\ b.up /\ b.me = n /\ b.out = <<>> /\ b.todo = {} /\ used' \in [Events -> Nat]
  BY NodeIs, SpendOK DEF PingTimeout, Events
<1>2. Turn(u, net)
  BY DEF PingTimeout, Suspects, WithFlag
<1>3. hist' = hist \cup t.log
  BY <1>2 DEF Turn
<1>4. r = Suspects(b, n, m) /\ u = clusterUpdateState(r) /\ t = clusterBeforeSleep(u)
  OBVIOUS
<1> DEFINE g == {Suspicion(n, m)}
<1>5. Suspicion(n, m) \in g
  OBVIOUS
<1> HIDE DEF h, b, r, u, t, g
<1>22. OK(b, n)
  BY <1>1
<1>23. r = Suspects(b, n, m)
  BY <1>4
<1>6. Sound(g, b, r, n) /\ r.log = {Suspicion(n, m)} /\ r.todo = b.todo
  BY <1>5, <1>22, <1>23, SuspectsIs
<1>7. OK(r, n)
  BY <1>6 DEF Sound
<1>8. ASSUME NEW x
      PROVE  Step(x, r, u, n) /\ Step(x, u, t, n) /\ t.out = u.out
  <2>1. Step(x, r, u, n) /\ u.todo = r.todo
    BY <1>4, <1>7, UpdateStateStep
  <2>2. OK(u, n) /\ "failover" \notin u.todo
    BY <1>1, <1>6, <2>1 DEF Step
  <2>3. Step(x, u, t, n) /\ t.out = u.out
    BY <1>4, <2>2, SleepStep
  <2> QED  BY <2>1, <2>3
<1>9. Step(h, r, u, n) /\ Step(h, u, t, n)
  BY <1>8
<1>10. Step(h, r, t, n)
  BY <1>7, <1>9, StepTrans
<1>11. t.log = {Suspicion(n, m)}
  BY <1>6, <1>10 DEF Step, Calm
<1>12. Suspicion(n, m) \in h
  BY <1>3, <1>11 DEF h
<1>13. /\ Sound(h, b, r, n) /\ r.out = b.out
       /\ r.auth = b.auth /\ r.auth_sent = b.auth_sent /\ r.auth_epoch = b.auth_epoch /\ r.auth_count = b.auth_count
       /\ r.lastVoteEpoch = b.lastVoteEpoch /\ r.currentEpoch = b.currentEpoch
  BY <1>12, <1>22, <1>23, SuspectsIs
<1>14. OK(t, n) /\ t.me = n
  BY <1>10, OKFields DEF Step
<1>15. Plain(r.out)
  BY <1>1, <1>13 DEF Plain
<1>16. Quiet(b, t) /\ t.up = b.up
  BY <1>10, <1>13, <1>15 DEF Step, Calm, Quiet, Rests, Sound
<1>17. Elects(n, b, t, net)
  BY <1>11, <1>16 DEF Elects, Suspicion
<1>18. Argues(h, b, t, n)
  BY <1>10, <1>13 DEF Argues, Sound, Step
<1>19. Acts(n, t, net)
  BY <1>2, <1>4, <1>14, TurnActs
<1>20. Less(net, net)
  BY LessRefl DEF TInv
<1>21. Does(n, t, net)
  BY <1>1, <1>14, <1>16, <1>17, <1>18, <1>19, <1>20 DEF Does, h, b
<1> QED  BY <1>1, <1>21 DEF Happens

\* The outcome of clusterHandleSlaveFailover between handlers that leave elections alone.
Idle(b, n) == OK(b, n) /\ b.out = <<>> /\ b.todo = {} /\ b.log = {}
\* s was reached from b without anything that elections or flags rest on.
Ready(h, b, s, n) ==
    Step(h, b, s, n) /\ s.known = b.known /\ s.size = b.size /\ s.out = b.out /\ s.currentEpoch = b.currentEpoch
\* Whatever calm step follows f, the whole is what Elects and Argues allow from b.
Fits(h, b, f, n, chans) ==
    /\ OK(f, n) /\ "failover" \notin f.todo
    /\ \A t : Step(h, f, t, n) /\ t.out = f.out
             => OK(t, n) /\ t.up = b.up /\ Elects(n, b, t, chans) /\ Argues(h, b, t, n)
\* clusterHandleSlaveFailover fits, whichever branch it takes.
LEMMA FailoverElects ==
    ASSUME NEW h, NEW n, NEW b, Idle(b, n), NEW s, Ready(h, b, s, n),
           NEW f, f = clusterHandleSlaveFailover(s), NEW chans
    PROVE  Fits(h, b, f, n, chans)
<1>0. /\ OK(b, n) /\ b.out = <<>> /\ b.todo = {} /\ b.log = {}
      /\ Step(h, b, s, n) /\ s.known = b.known /\ s.size = b.size /\ s.out = b.out /\ s.currentEpoch = b.currentEpoch
  BY DEF Idle, Ready
<1>1. OK(s, n) /\ Calm(b, s)
  BY <1>0 DEF Step
<1>2. Plain(s.out)
  BY <1>0 DEF Plain
<1>3. /\ s.log = {} /\ "failover" \notin s.todo /\ s.auth = b.auth /\ s.auth_sent = b.auth_sent /\ s.up = b.up
      /\ s.auth_epoch = b.auth_epoch /\ s.auth_count = b.auth_count /\ s.lastVoteEpoch = b.lastVoteEpoch
  BY <1>0, <1>1 DEF Calm
<1>4. IsSlave(s, n) => IsSlave(b, n)
  BY <1>0 DEF IsSlave
<1>5. b.currentEpoch \in Nat /\ s.currentEpoch \in Nat /\ s.auth_epoch \in Nat
  BY <1>0, <1>1, OKFields
<1>6. \/ f = s
      \/ IsSlave(s, n) /\ s.auth = "retry" /\ Sound(h, s, f, n) /\ Retries(s, f)
      \/ IsSlave(s, n) /\ s.auth = "open" /\ ~s.auth_sent /\ Sound(h, s, f, n) /\ Asks(s, f, n)
      \/ IsSlave(s, n) /\ s.auth = "open" /\ s.auth_sent /\ s.auth_count >= s.size \div 2 + 1
         /\ Sound(h, s, f, n) /\ Wins(s, f, n)
  BY <1>1, SlaveFailoverIs
<1>7. Sound(h, s, f, n)
  BY <1>1, <1>6 DEF Sound
<1>8. OK(f, n)
  BY <1>7 DEF Sound
<1>9. "failover" \notin f.todo
  BY <1>3, <1>6 DEF Retries, Asks, Wins, Still
<1>10. ASSUME NEW t, Step(h, f, t, n), t.out = f.out
       PROVE  OK(t, n) /\ t.up = b.up /\ Elects(n, b, t, chans) /\ Argues(h, b, t, n)
  <2>1. OK(t, n) /\ Calm(f, t)
    BY <1>10 DEF Step
  <2>2. f.currentEpoch \in Nat /\ t.currentEpoch \in Nat
    BY <1>8, <2>1, OKFields
  <2>3. t.up = b.up
    BY <1>3, <1>7, <2>1 DEF Sound, Calm
  <2>4. Argues(h, b, t, n)
    BY <1>0, <1>7, <1>10 DEF Argues, Sound, Step
  <2>5. CASE f = s
    <3>1. Quiet(b, t) /\ t.log = {}
      BY <1>0, <1>1, <1>2, <1>3, <1>5, <2>1, <2>2, <2>5 DEF Calm, Quiet, Rests
    <3> QED  BY <2>1, <2>3, <2>4, <3>1 DEF Elects
  <2>6. CASE s.auth = "retry" /\ Retries(s, f)
    <3>1. Schedules(b, t)
      BY <1>0, <1>2, <1>3, <1>5, <2>1, <2>2, <2>6 DEF Calm, Schedules, Retries
    <3> QED  BY <2>1, <2>3, <2>4, <3>1 DEF Elects
  <2>7. CASE s.auth = "open" /\ ~s.auth_sent /\ Asks(s, f, n)
    <3> HIDE DEF Asks
    <3>1. PICK p : Request(s, f, n, p)
      BY <2>7 DEF Asks
    <3>2. \A c \in DOMAIN f.out : \A i \in DOMAIN f.out[c] :
             f.out[c][i].type = "auth_request" /\ f.out[c][i].currentEpoch = f.auth_epoch
      BY <1>0, <3>1 DEF Request, Adds
    <3>3. /\ t.auth = "open" /\ t.auth_count = b.auth_count /\ t.auth_sent = TRUE /\ t.auth_epoch = f.auth_epoch
          /\ t.lastVoteEpoch = b.lastVoteEpoch /\ t.currentEpoch >= b.currentEpoch /\ t.log = {}
      BY <1>0, <1>3, <1>5, <2>1, <2>2, <2>7 DEF Calm, Asks
    <3>4. Runs(b, t)
      BY <1>3, <1>10, <2>7, <3>2, <3>3 DEF Runs
    <3> QED  BY <2>1, <2>3, <2>4, <3>4 DEF Elects
  <2>8. CASE s.auth_count >= s.size \div 2 + 1 /\ IsSlave(s, n) /\ Wins(s, f, n)
    <3>1. Quiet(b, t) /\ t.log = {<<n, "won", b.auth_epoch>>}
      BY <1>0, <1>2, <1>3, <1>5, <2>1, <2>2, <2>8 DEF Calm, Quiet, Rests, Wins, Still
    <3>2. Elected(b, t, n)
      BY <1>0, <1>3, <1>4, <2>8, <3>1 DEF Elected, Quiet
    <3> QED  BY <2>1, <2>3, <2>4, <3>1, <3>2 DEF Elects
  <2> QED  BY <1>6, <2>5, <2>6, <2>7, <2>8
<1> QED  BY <1>8, <1>9, <1>10 DEF Fits

\* The part of clusterCron that slaves run.
LEMMA SlaveCronDoes ==
    ASSUME TInv, UNCHANGED setup, NEW n \in Nodes, SlaveCron(n)  PROVE Happens
<1> DEFINE h == hist'
           b == node[n]
           s == clusterHandleManualFailover(b)
           f == clusterHandleSlaveFailover(s)
           u == IF f.state = "fail" THEN clusterUpdateState(f) ELSE f
           t == clusterBeforeSleep(u)
<1>1. OK(b, n) /\ b.up /\ b.me = n /\ b.out = <<>> /\ b.todo = {} /\ b.log = {}
  BY NodeIs DEF SlaveCron
<1>2. Turn(u, net)
  BY DEF SlaveCron
<1>3. used' \in [Events -> Nat]
  <2>1. Spend("attempt") \/ UNCHANGED used
    BY DEF SlaveCron
  <2>2. "attempt" \in Events
    BY DEF Events
  <2> QED  BY <2>1, <2>2, SpendOK DEF TInv
<1>4. s = clusterHandleManualFailover(b)
  OBVIOUS
<1>5. f = clusterHandleSlaveFailover(s)
  OBVIOUS
<1>6. (u = f \/ u = clusterUpdateState(f)) /\ t = clusterBeforeSleep(u)
  OBVIOUS
<1> HIDE DEF h, b, s, f, u, t
<1>7. Step(h, b, s, n) /\ s.known = b.known /\ s.size = b.size /\ s.out = b.out /\ s.currentEpoch = b.currentEpoch
  BY <1>1, <1>4, ManualFailoverStep
<1>20. Idle(b, n) /\ Ready(h, b, s, n)
  BY <1>1, <1>7 DEF Idle, Ready
<1>21. Fits(h, b, f, n, net)
  BY <1>5, <1>20, FailoverElects
<1>8. OK(f, n) /\ "failover" \notin f.todo
  BY <1>21 DEF Fits
<1>9. \A x : Step(h, f, x, n) /\ x.out = f.out => OK(x, n) /\ x.up = b.up /\ Elects(n, b, x, net) /\ Argues(h, b, x, n)
  BY <1>21 DEF Fits
<1>10. Step(h, f, u, n) /\ u.out = f.out
  <2>1. OK(f, n)
    BY <1>8
  <2>2. CASE u = f
    BY <2>1, <2>2, StepRefl
  <2>3. CASE u = clusterUpdateState(f)
    BY <2>1, <2>3, UpdateStateStep
  <2> QED  BY <1>6, <2>2, <2>3
<1>11. OK(u, n) /\ "failover" \notin u.todo
  BY <1>8, <1>10 DEF Step, Calm
<1>12. Step(h, u, t, n) /\ t.out = u.out
  BY <1>6, <1>11, SleepStep
<1>13. Step(h, f, t, n) /\ t.out = f.out
  BY <1>8, <1>10, <1>12, StepTrans
<1>14. OK(t, n) /\ t.up = b.up /\ Elects(n, b, t, net) /\ Argues(h, b, t, n)
  BY <1>9, <1>13
<1>15. t.me = n
  BY <1>14, OKFields
<1>16. Acts(n, t, net)
  BY <1>2, <1>6, <1>15, TurnActs
<1>17. Less(net, net)
  BY LessRefl DEF TInv
<1>18. Does(n, t, net)
  BY <1>1, <1>14, <1>16, <1>17 DEF Does, h, b
<1> QED  BY <1>3, <1>18 DEF Happens

\* The first packet of a channel.
Handled(s, n, p, kind, old, aged) == s = clusterProcessPacket(node[n], p, kind, old, aged)
\* p is the first packet of channel c.
First(c, p) == c \in DOMAIN net /\ 1 \in DOMAIN net[c] /\ p = net[c][1] /\ c[1] = p.sender

\* A packet that is not about votes.
LEMMA OtherDoes ==
    ASSUME TInv, UNCHANGED setup, NEW n \in Nodes, node[n].up, NEW c, NEW p, First(c, p),
           Mail(p, n), p.type \notin VoteTypes, NEW kind, NEW old, NEW aged,
           NEW s, Handled(s, n, p, kind, old, aged), NEW chans, Less(chans, net), Turn(s, chans)
    PROVE  \E t : Does(n, t, chans)
<1> DEFINE h == hist'
           b == node[n]
           r == Told(Nodes, Slots, h, p)
<1>1. OK(b, n)
  BY NodeIs
<1>2. r = Told(Nodes, Slots, h, p) /\ s = clusterProcessPacket(b, p, kind, old, aged)
  BY DEF Handled
<1>3. AllTold(Nodes, Slots, h, net) => r
  BY DEF AllTold, First
<1> HIDE DEF h, b, r
<1>4. Move(r, h, b, s, n)
  BY <1>1, <1>2, PacketMove
<1>5. Goes(h, b, s, n)
  BY <1>3, <1>4, MoveGoes
<1> QED  BY <1>5, CalmTurn DEF h, b

\* A request for a vote.
LEMMA RequestDoes ==
    ASSUME TInv, UNCHANGED setup, NEW n \in Nodes, node[n].up, NEW c, NEW p, First(c, p), c[2] = n,
           Mail(p, n), p.type = "auth_request", NEW kind, NEW old, NEW aged,
           NEW s, Handled(s, n, p, kind, old, aged), NEW chans, Takes(c, chans), Turn(s, chans)
    PROVE  \E t : Does(n, t, chans)
<1> DEFINE h == hist'
           b == node[n]
           t == clusterBeforeSleep(s)
           m == p.sender
           e == p.currentEpoch
<1>1. OK(b, n) /\ b.out = <<>> /\ b.todo = {} /\ b.log = {}
  BY NodeIs
<1>2. s = clusterProcessPacket(b, p, kind, old, aged)
  BY DEF Handled
<1>3. t = clusterBeforeSleep(s)
  OBVIOUS
<1>4. Less(chans, net)
  BY DEF Takes
<1>30. e \in Nat
  BY MailFields
<1> HIDE DEF h, b, t
<1>31. PICK r : Answers(h, b, r, s, n, p)
  BY <1>1, <1>2, PacketRequestIs
<1>5. /\ Step(h, b, r, n) /\ r.out = b.out /\ r.currentEpoch >= p.currentEpoch /\ r.size = b.size
      /\ \/ s = r
         \/ ~(p.currentEpoch < r.currentEpoch) /\ Sound(h, r, s, n) /\ VotesFor(r, s, n, p.sender)
  BY <1>31 DEF Answers
<1>6. CASE s = r
  <2>1. Goes(h, b, s, n)
    BY <1>5, <1>6, StepGoes
  <2> QED  BY <1>4, <2>1, CalmTurn DEF h, b
<1>7. CASE ~(p.currentEpoch < r.currentEpoch) /\ Sound(h, r, s, n) /\ VotesFor(r, s, n, p.sender)
  <2>1. OK(r, n) /\ OK(s, n)
    BY <1>5, <1>7 DEF Step, Sound
  <2>2. b.currentEpoch \in Nat /\ r.currentEpoch \in Nat /\ s.currentEpoch \in Nat
    BY <1>1, <2>1, OKFields
  <2>3. e = r.currentEpoch /\ e >= b.currentEpoch
    BY <1>5, <1>7, <1>30, <2>2 DEF Step, Calm
  <2>4. Calm(b, r)
    BY <1>5 DEF Step
  <2>5. "failover" \notin s.todo
    BY <1>1, <1>7, <2>4 DEF Calm, VotesFor
  <2>6. Step(h, s, t, n) /\ t.out = s.out
    BY <1>3, <2>1, <2>5, SleepStep
  <2>7. OK(t, n) /\ Calm(s, t)
    BY <2>6 DEF Step
  <2>8. t.me = n /\ t.currentEpoch \in Nat
    BY <2>7, OKFields
  <2>9. PICK a : Ack(r, s, n, m, a)
    BY <1>7 DEF VotesFor
  <2>10. a.type = "auth_ack" /\ t.out = Queue(<<>>, {<<n, m, "own">>}, <<a>>)
    <3>1. Ways(n, {m}, "own") = {<<n, m, "own">>}
      BY DEF Ways
    <3> QED  BY <1>1, <1>5, <2>6, <2>9, <3>1 DEF Ack
  <2>11. /\ t.auth = b.auth /\ t.auth_sent = b.auth_sent /\ t.auth_epoch = b.auth_epoch /\ t.auth_count = b.auth_count
         /\ e # b.lastVoteEpoch /\ t.lastVoteEpoch = e /\ t.currentEpoch >= e
    BY <1>7, <2>2, <2>3, <2>4, <2>7, <2>8 DEF Calm, VotesFor
  <2>12. t.log = {<<n, "vote", e, m>>}
    <3>1. t.log = s.log /\ r.log = b.log
      BY <2>4, <2>7 DEF Calm
    <3>2. s.log = r.log \cup {<<n, "vote", e, m>>}
      BY <1>7, <2>3 DEF VotesFor
    <3> QED  BY <1>1, <3>1, <3>2
  <2>13. Grants(b, t, n, m, e)
    BY <2>3, <2>10, <2>11, <2>12 DEF Grants
  <2>14. Elects(n, b, t, chans)
    BY <2>13 DEF Elects, First
  <2>15. Argues(h, b, t, n)
    BY <1>5, <1>7, <2>6 DEF Argues, Step, Sound
  <2>16. Acts(n, t, chans)
    BY <1>3, <2>8, TurnActs
  <2>17. t.up = b.up
    BY <1>7, <2>4, <2>7 DEF Calm, Sound
  <2>18. Does(n, t, chans)
    BY <1>4, <2>7, <2>14, <2>15, <2>16, <2>17 DEF Does, h, b
  <2> QED  BY <2>18
<1> QED  BY <1>5, <1>6, <1>7

\* A vote.
LEMMA VoteDoes ==
    ASSUME TInv, UNCHANGED setup, NEW n \in Nodes, node[n].up, NEW c, NEW p, First(c, p), c[2] = n,
           Mail(p, n), p.type = "auth_ack", NEW kind, NEW old, NEW aged,
           NEW s, Handled(s, n, p, kind, old, aged), NEW chans, Takes(c, chans), Turn(s, chans)
    PROVE  \E t : Does(n, t, chans)
<1> DEFINE h == hist'
           b == node[n]
           t == clusterBeforeSleep(s)
<1>1. OK(b, n) /\ b.out = <<>> /\ b.todo = {} /\ b.log = {}
  BY NodeIs
<1>2. s = clusterProcessPacket(b, p, kind, old, aged)
  BY DEF Handled
<1>3. t = clusterBeforeSleep(s)
  OBVIOUS
<1>4. Less(chans, net)
  BY DEF Takes
<1> HIDE DEF h, b, t
<1>5. PICK r : Tallies(h, b, r, s, n, p)
  BY <1>1, <1>2, PacketAckIs
<1>6. /\ Step(h, b, r, n) /\ r.out = b.out /\ r.size = b.size /\ r.known[n] = b.known[n]
      /\ s = r \/ (Sound(h, r, s, n) /\ Counts(r, s))
  BY <1>5 DEF Tallies
<1>7. CASE s = r
  <2>1. Goes(h, b, s, n)
    BY <1>6, <1>7, StepGoes
  <2> QED  BY <1>4, <2>1, CalmTurn DEF h, b
<1>8. CASE Sound(h, r, s, n) /\ Counts(r, s)
  <2>1. OK(r, n) /\ OK(s, n) /\ Calm(b, r)
    BY <1>6, <1>8 DEF Step, Sound
  <2>2. b.currentEpoch \in Nat /\ s.currentEpoch \in Nat /\ r.currentEpoch \in Nat
    BY <1>1, <2>1, OKFields
  <2>3. /\ s.auth = b.auth /\ s.auth_sent = b.auth_sent /\ s.auth_epoch = b.auth_epoch /\ s.auth_count = b.auth_count + 1
        /\ s.lastVoteEpoch = b.lastVoteEpoch /\ s.currentEpoch >= b.currentEpoch /\ s.log = {} /\ s.up = b.up
        /\ s.out = <<>> /\ s.size = b.size /\ s.known[n] = b.known[n]
    BY <1>1, <1>6, <1>8, <2>1, <2>2 DEF Counts, Calm, Sound
  <2>4. Plain(s.out)
    BY <2>3 DEF Plain
  <2>5. PICK w : (w = s \/ w = clusterHandleSlaveFailover(s)) /\ (OK(w, n) => Step(h, w, t, n) /\ t.out = w.out)
    BY <1>3, <2>1, SleepIs
  <2>6. \/ w = s
        \/ s.auth = "retry" /\ Sound(h, s, w, n) /\ Retries(s, w)
        \/ ~s.auth_sent /\ Sound(h, s, w, n) /\ Asks(s, w, n)
        \/ IsSlave(s, n) /\ s.auth_count >= s.size \div 2 + 1 /\ Sound(h, s, w, n) /\ Wins(s, w, n)
    <3>1. CASE w = s
      BY <3>1
    <3>2. CASE w = clusterHandleSlaveFailover(s)
      BY <2>1, <3>2, SlaveFailoverIs
    <3> QED  BY <2>5, <3>1, <3>2
  <2>7. Sound(h, s, w, n)
    BY <2>1, <2>6 DEF Sound
  <2>8. OK(w, n)
    BY <2>7 DEF Sound
  <2>9. Step(h, w, t, n) /\ t.out = w.out
    BY <2>5, <2>8
  <2>10. OK(t, n) /\ Calm(w, t)
    BY <2>9 DEF Step
  <2>11. t.me = n /\ t.currentEpoch \in Nat /\ w.currentEpoch \in Nat
    BY <2>8, <2>10, OKFields
  <2>12. t.up = b.up
    BY <2>3, <2>7, <2>10 DEF Sound, Calm
  <2>13. Argues(h, b, t, n)
    BY <1>6, <1>8, <2>7, <2>9 DEF Argues, Step, Sound
  <2>14. Acts(n, t, chans)
    BY <1>3, <2>11, TurnActs
  <2>15. Counted(b, t, n) \/ (t.log = {} /\ (b.auth = "retry" \/ ~b.auth_sent))
    <3>1. CASE w = s
      BY <2>2, <2>3, <2>4, <2>10, <2>11, <3>1 DEF Counted, Rests, Calm
    <3>2. CASE s.auth = "retry" /\ Retries(s, w)
      BY <2>3, <2>10, <3>2 DEF Retries, Calm
    <3>3. CASE ~s.auth_sent /\ Asks(s, w, n)
      BY <2>3, <2>10, <3>3 DEF Asks, Calm
    <3>4. CASE IsSlave(s, n) /\ s.auth_count >= s.size \div 2 + 1 /\ Wins(s, w, n)
      <4>1. IsSlave(b, n)
        BY <2>3, <3>4 DEF IsSlave
      <4>2. Rests(b, t) /\ t.auth_count = b.auth_count + 1 /\ t.log = {<<n, "won", b.auth_epoch>>}
        BY <2>2, <2>3, <2>4, <2>10, <2>11, <3>4 DEF Rests, Calm, Wins, Still
      <4>3. t.auth_count >= b.size \div 2 + 1
        BY <2>3, <3>4, <4>2
      <4> QED  BY <4>1, <4>2, <4>3 DEF Counted, Elected
    <3> QED  BY <2>6, <3>1, <3>2, <3>3, <3>4
  <2>16. Elects(n, b, t, chans)
    BY <2>15 DEF Elects, First
  <2>17. Does(n, t, chans)
    BY <1>4, <2>10, <2>12, <2>13, <2>14, <2>16 DEF Does, h, b
  <2> QED  BY <2>17
<1> QED  BY <1>6, <1>7, <1>8

\* clusterReadHandler().
LEMMA ReceiveDoes ==
    ASSUME TInv, UNCHANGED setup, NEW c \in DOMAIN net, Receive(c)  PROVE Happens
<1> DEFINE n == c[2]
           p == net[c][1]
           P == Packets(Nodes, Slots, c[1])
           chans == IF Len(net[c]) = 1 THEN Without(net, {c}) ELSE [net EXCEPT ![c] = Tail(@)]
<1>1. used' \in [Events -> Nat]
  BY DEF Receive, TInv
<1>2. n \in Nodes /\ c[1] \in Nodes /\ c[1] # n /\ node[n].up
  BY DEF TInv, NetOK, Live, Chans
<1>3. net[c] \in Seq(P) /\ net[c] # <<>>
  BY DEF TInv, NetOK
<1>4. p \in P /\ p = Head(net[c]) /\ 1 \in DOMAIN net[c]
  <2> HIDE DEF P
  <2> QED  BY <1>3, TailIs
<1>5. p.sender = c[1]
  BY <1>4 DEF Packets, Packet
<1>6. Mail(p, n) /\ First(c, p)
  BY <1>2, <1>4, <1>5 DEF Mail, First
<1>7. PICK old, aged : Turn(clusterProcessPacket(node[n], p, c[3], old, aged), chans)
  BY <1>4 DEF Receive
<1> DEFINE s == clusterProcessPacket(node[n], p, c[3], old, aged)
           kind == c[3]
<1>8. Handled(s, n, p, kind, old, aged) /\ Turn(s, chans) /\ c[2] = n
  BY <1>7 DEF Handled
<1>9. Takes(c, chans)
  BY TakesIs DEF TInv
<1> HIDE DEF s, kind, n, p, chans
<1>10. Less(chans, net)
  BY <1>9 DEF Takes
<1>11. \E t : Does(n, t, chans)
  <2>0. n \in Nodes /\ node[n].up
    BY <1>2
  <2>1. CASE p.type \notin VoteTypes
    BY <2>0, <1>6, <1>8, <1>10, <2>1, OtherDoes
  <2>2. CASE p.type = "auth_request"
    BY <2>0, <1>6, <1>8, <1>9, <2>2, RequestDoes
  <2>3. CASE p.type = "auth_ack"
    BY <2>0, <1>6, <1>8, <1>9, <2>3, VoteDoes
  <2> QED  BY <2>1, <2>2, <2>3 DEF VoteTypes
<1> QED  BY <1>1, <1>11 DEF Happens

\* A turn keeps the types.
LEMMA DoesKeep ==
    ASSUME TInv, NEW n, NEW t, NEW chans, Does(n, t, chans), used' \in [Events -> Nat]
    PROVE  TInv'
<1> DEFINE k == Kept(t)
           d == Saved(t)
<1>0. n \in Nodes /\ node[n].up /\ OK(t, n) /\ t.up = node[n].up /\ Acts(n, t, chans) /\ Less(chans, net)
  BY DEF Does
<1>1. Nodes' = Nodes /\ Slots' = Slots /\ setup' \in Setups
  BY <1>0 DEF Acts, Nodes, Slots, TInv
<1>2. t.log \subseteq Notes(Nodes)
  BY <1>0, OKFields
<1>13. OK(t, n) /\ k = Kept(t)
  BY <1>0
<1>3. k \in NodeState(Nodes, Slots) /\ k.me = n /\ Sane(Nodes, Slots, k, n) /\ k.up = t.up
  <2> HIDE DEF k
  <2> QED  BY <1>13, KeptIs
<1>4. d \in DiskRecord(Nodes, Slots) /\ Sane(Nodes, Slots, d, n)
  BY <1>0, SavedIs
<1> HIDE DEF k, d
<1>5. node' = [node EXCEPT ![n] = k] /\ (disk' = disk \/ disk' = [disk EXCEPT ![n] = d])
  BY <1>0 DEF Acts, k, d
<1>6. NodesOK(Nodes, Slots, node')
  BY <1>0, <1>3, <1>5 DEF TInv, NodesOK
<1>7. DisksOK(Nodes, Slots, disk')
  BY <1>0, <1>4, <1>5 DEF TInv, DisksOK
<1>8. NetOK(Nodes, Slots, chans)
  BY <1>0, LessOK DEF TInv
<1>9. NetOK(Nodes, Slots, net') /\ Sends(net', chans, t.out)
  BY <1>0, <1>8, DeliverIs DEF Acts
<1>10. \A x \in t.log : x[2] # "assert"
  <2>1. Elects(n, node[n], t, chans)
    BY DEF Does
  <2>2. \/ t.log = {} \/ (\E m : t.log = {<<n, "suspect", m>>}) \/ (\E e : t.log = {<<n, "won", e>>})
        \/ \E e, m : t.log = {<<n, "vote", e, m>>}
    BY <2>1 DEF Elects, Elected, Schedules, Runs, Grants, Counted
  <2> QED  BY <2>2
<1>11. HistOK(Nodes, hist')
  BY <1>0, <1>2, <1>10 DEF Acts, HistOK, TInv
<1>12. Live(node', net')
  <2> SUFFICES ASSUME NEW c \in DOMAIN net'  PROVE node'[c[1]].up /\ node'[c[2]].up
    BY DEF Live
  <2>1. c \in Chans(Nodes)
    BY <1>9 DEF NetOK
  <2>2. c[1] \in Nodes /\ c[2] \in Nodes
    BY <2>1 DEF Chans
  <2>3. \A x \in Nodes : node'[x].up = node[x].up
    BY <1>0, <1>3, <1>5 DEF TInv, NodesOK
  <2>4. CASE c \in DOMAIN chans
    BY <1>0, <2>2, <2>3, <2>4 DEF TInv, Live, Less
  <2>5. CASE c \in DOMAIN t.out /\ node[c[2]].up
    <3>1. DOMAIN t.out \subseteq From(Nodes, n)
      BY <1>0, OKFields, QueuesIs
    <3>2. c[1] = n
      BY <2>5, <3>1 DEF From
    <3> QED  BY <1>0, <2>2, <2>3, <2>5, <3>2
  <2> QED  BY <1>9, <2>4, <2>5 DEF Sends
<1> QED  BY <1>1, <1>6, <1>7, <1>9, <1>11, <1>12 DEF TInv

-----------------------------------------------------------------------------
\* Steps that are not turns

\* Time passes for node n, or data reaches it.
SameNode(s, b) ==
    /\ s.me = b.me /\ s.known = b.known /\ s.slots = b.slots /\ s.up = b.up /\ s.size = b.size
    /\ s.auth_sent = b.auth_sent /\ s.auth_epoch = b.auth_epoch /\ s.auth_count = b.auth_count
    /\ s.lastVoteEpoch = b.lastVoteEpoch /\ s.currentEpoch = b.currentEpoch
\* Time passes at node n, or its data does: only the phase of its election and its offset
\* change, and while votes are in flight no attempt ends or starts.
Ticks(n, s) ==
    /\ n \in Nodes /\ setup' = setup /\ node' = [node EXCEPT ![n] = s]
    /\ disk' = disk /\ net' = net /\ hist' = hist
    /\ s \in NodeState(Nodes, Slots) /\ SameNode(s, node[n])
    /\ \/ s.auth = node[n].auth
       \/ node[n].auth # "retry" /\ s.auth # "retry"
       \/ setup.latevotes
       \/ ~VotesInFlight(n)
\* Time passes at some node.
Passes == (\E n, s : Ticks(n, s)) /\ used' \in [Events -> Nat]

\* The replication offset moves.
WithOffset(s, o) == [s EXCEPT !.offset = o]
\* It does so at node n, and nothing else does.
Streams(n, o) ==
    /\ setup' = setup /\ disk' = disk /\ net' = net /\ hist' = hist
    /\ node' = [node EXCEPT ![n] = WithOffset(node[n], o)]
\* That is time passing.
LEMMA OffsetTicks ==
    ASSUME TInv, NEW n \in Nodes, NEW o \in Nat, Streams(n, o)
    PROVE  \E s : Ticks(n, s)
<1> DEFINE b == node[n]
           s == WithOffset(b, o)
<1>1. b \in NodeState(Nodes, Slots)
  BY DEF TInv, NodesOK
<1>2. setup' = setup /\ node' = [node EXCEPT ![n] = s] /\ disk' = disk /\ net' = net /\ hist' = hist
  BY DEF Streams
<1> HIDE DEF b
<1>3. [b EXCEPT !.offset = o] \in NodeState(Nodes, Slots)
  BY <1>1 DEF NodeState
<1>4. s \in NodeState(Nodes, Slots) /\ SameNode(s, b) /\ s.auth = b.auth
  BY <1>1, <1>3 DEF NodeState, SameNode, WithOffset
<1> HIDE DEF s
<1>5. Ticks(n, s)
  BY <1>2, <1>4 DEF Ticks, b
<1> QED  BY <1>5

\* A client writes.
LEMMA WritePasses ==
    ASSUME TInv, UNCHANGED setup, NEW n \in Nodes, Write(n)  PROVE Passes
<1> DEFINE o == node[n].offset + 1
<1>1. o \in Nat
  BY NodeIs, OKFields
<1>2. Streams(n, o)
  BY DEF Write, WithOffset, Streams
<1>3. used' \in [Events -> Nat]
  BY SpendOK DEF Write, Events
<1> HIDE DEF o
<1>4. \E s : Ticks(n, s)
  BY <1>1, <1>2, OffsetTicks
<1> QED  BY <1>3, <1>4 DEF Passes

\* The replication stream.
LEMMA ReplicatePasses ==
    ASSUME TInv, UNCHANGED setup, NEW n \in Nodes, Replicate(n)  PROVE Passes
<1> DEFINE m == MyMaster(node[n])
           o == IF node[n].offset < node[m].offset THEN node[n].offset + 1 ELSE node[m].offset
<1>1. OK(node[n], n) /\ node[n].me = n /\ m # None
  BY NodeIs DEF Replicate
<1>2. m \in Nodes
  <2>1. node[n].known[n].slaveof \in Nodes \cup {None}
    BY <1>1, OKFields
  <2> QED  BY <1>1, <2>1 DEF MyMaster
<1>3. OK(node[m], m)
  BY <1>2, NodeIs
<1>4. o \in Nat
  BY <1>1, <1>3, OKFields
<1>5. Streams(n, o)
  BY DEF Replicate, WithOffset, Streams
<1>6. used' \in [Events -> Nat]
  BY DEF Replicate, TInv
<1> HIDE DEF o
<1>7. \E s : Ticks(n, s)
  BY <1>4, <1>5, OffsetTicks
<1> QED  BY <1>6, <1>7 DEF Passes

\* The time of a failover attempt.
WithPhase(s, a) == [s EXCEPT !.auth = a]
\* So is a phase of an election that ends.
LEMMA AuthTimePasses ==
    ASSUME TInv, UNCHANGED setup, NEW n \in Nodes, AuthTime(n)  PROVE Passes
<1> DEFINE b == node[n]
           a == CASE b.auth = "delay" -> "open" [] b.auth = "open" -> "expired" [] b.auth = "expired" -> "retry"
           s == WithPhase(b, a)
<1>1. b \in NodeState(Nodes, Slots) /\ b.auth \in Phases /\ b.auth # "retry"
  BY DEF TInv, NodesOK, NodeState, AuthTime
<1>2. node' = [node EXCEPT ![n] = s] /\ UNCHANGED <<disk, net, hist, used>>
  BY DEF AuthTime, WithPhase
<1>3. a \in Phases /\ (a = "retry" => b.auth = "expired")
  BY <1>1 DEF Phases
<1>4. b.auth = "expired" => setup.latevotes \/ ~VotesInFlight(n)
  BY DEF AuthTime
<1> HIDE DEF b, a
<1>5. [b EXCEPT !.auth = a] \in NodeState(Nodes, Slots)
  BY <1>1, <1>3 DEF NodeState
<1>6. s \in NodeState(Nodes, Slots) /\ SameNode(s, b) /\ s.auth = a
  BY <1>1, <1>5 DEF NodeState, SameNode, WithPhase
<1> HIDE DEF s
<1>7. Ticks(n, s)
  BY <1>1, <1>2, <1>3, <1>4, <1>6 DEF Ticks, b
<1>8. used' \in [Events -> Nat]
  BY <1>2 DEF TInv
<1> QED  BY <1>7, <1>8 DEF Passes

\* Time keeps the types.
LEMMA TicksKeep ==
    ASSUME TInv, NEW n, NEW s, Ticks(n, s), used' \in [Events -> Nat]  PROVE TInv'
<1>1. Nodes' = Nodes /\ Slots' = Slots /\ setup' \in Setups
  BY DEF Ticks, Nodes, Slots, TInv
<1>2. /\ n \in Nodes /\ node' = [node EXCEPT ![n] = s] /\ s \in NodeState(Nodes, Slots) /\ SameNode(s, node[n])
      /\ disk' = disk /\ net' = net /\ hist' = hist
  BY DEF Ticks
<1>3. node[n].me = n /\ Sane(Nodes, Slots, node[n], n)
  BY <1>2 DEF TInv, NodesOK
<1>4. s.me = n /\ Sane(Nodes, Slots, s, n) /\ s.up = node[n].up
  BY <1>2, <1>3 DEF Sane, SameNode
<1>5. NodesOK(Nodes, Slots, node')
  BY <1>2, <1>4 DEF TInv, NodesOK
<1>6. \A x \in Nodes : node'[x].up = node[x].up
  BY <1>2, <1>4 DEF TInv, NodesOK
<1>7. Live(node', net')
  BY <1>2, <1>6 DEF TInv, Live, NetOK, Chans
<1> QED  BY <1>1, <1>2, <1>5, <1>7 DEF TInv

\* The process dies.
WithUp(s, u) == [s EXCEPT !.up = u]
\* Node n crashes: its links go with all they carry.
Dies(n) ==
    /\ n \in Nodes /\ setup' = setup /\ node' = [node EXCEPT ![n] = WithUp(node[n], FALSE)]
    /\ Less(net', net) /\ DOMAIN net' = {c \in DOMAIN net : c[1] # n /\ c[2] # n}
    /\ disk' = disk /\ hist' = hist
\* That is what Crash does.
LEMMA CrashDies ==
    ASSUME TInv, UNCHANGED setup, NEW n \in Nodes, Crash(n)  PROVE Dies(n) /\ used' \in [Events -> Nat]
<1> DEFINE gone == {c \in Channels : n \in {c[1], c[2]}}
<1>1. used' \in [Events -> Nat]
  BY SpendOK DEF Crash, Events
<1>2. node' = [node EXCEPT ![n] = WithUp(node[n], FALSE)] /\ disk' = disk /\ hist' = hist /\ net' = Without(net, gone)
  BY DEF Crash, WithUp
<1>3. DOMAIN net \subseteq Channels
  BY DEF TInv, NetOK, Chans, Channels
<1>4. \A c \in DOMAIN net : c \in gone <=> (c[1] = n \/ c[2] = n)
  BY <1>3
<1> HIDE DEF gone
<1>5. Less(net', net) /\ DOMAIN net' = DOMAIN net \ gone
  BY <1>2, WithoutLess DEF TInv
<1> QED  BY <1>1, <1>2, <1>4, <1>5 DEF Dies

\* A crash changes nothing else of the node.
LEMMA UpIs ==
    ASSUME NEW b \in NodeState(Nodes, Slots), NEW s, s = WithUp(b, FALSE)
    PROVE  /\ s \in NodeState(Nodes, Slots) /\ ~s.up /\ s.me = b.me /\ s.known = b.known /\ s.slots = b.slots
           /\ s.auth = b.auth /\ s.auth_sent = b.auth_sent /\ s.auth_epoch = b.auth_epoch /\ s.auth_count = b.auth_count
           /\ s.lastVoteEpoch = b.lastVoteEpoch /\ s.currentEpoch = b.currentEpoch
<1>1. [b EXCEPT !.up = FALSE] \in NodeState(Nodes, Slots)
  BY DEF NodeState
<1>2. s = [b EXCEPT !.up = FALSE]
  BY DEF WithUp
<1> QED  BY <1>1, <1>2 DEF NodeState

\* A crash keeps the types.
LEMMA DiesKeep ==
    ASSUME TInv, NEW n, Dies(n), used' \in [Events -> Nat]  PROVE TInv'
<1> DEFINE s == WithUp(node[n], FALSE)
<1>1. Nodes' = Nodes /\ Slots' = Slots /\ setup' \in Setups
  BY DEF Dies, Nodes, Slots, TInv
<1>2. /\ n \in Nodes /\ node' = [node EXCEPT ![n] = s] /\ disk' = disk /\ hist' = hist
      /\ Less(net', net) /\ DOMAIN net' = {c \in DOMAIN net : c[1] # n /\ c[2] # n}
  BY DEF Dies
<1>3. node[n] \in NodeState(Nodes, Slots) /\ node[n].me = n /\ Sane(Nodes, Slots, node[n], n)
  BY <1>2 DEF TInv, NodesOK
<1>4. s \in NodeState(Nodes, Slots) /\ s.me = n /\ s.known = node[n].known /\ s.slots = node[n].slots
  BY <1>3, UpIs
<1> HIDE DEF s
<1>5. Sane(Nodes, Slots, s, n)
  BY <1>3, <1>4 DEF Sane
<1>6. NodesOK(Nodes, Slots, node')
  BY <1>2, <1>4, <1>5 DEF TInv, NodesOK
<1>7. NetOK(Nodes, Slots, net')
  BY <1>2, LessOK DEF TInv
<1>8. Live(node', net')
  BY <1>2, <1>7 DEF TInv, NodesOK, Live, NetOK, Chans
<1> QED  BY <1>1, <1>2, <1>6, <1>7, <1>8 DEF TInv

\* clusterLoadConfig().
Reloads(n, l) ==
    /\ OK(l, n) /\ l.known = disk[n].known /\ l.lastVoteEpoch = disk[n].lastVoteEpoch
    /\ l.currentEpoch >= disk[n].currentEpoch
    /\ l.auth = "retry" /\ l.auth_sent = FALSE /\ l.auth_count = 0 /\ l.up
\* What clusterLoadConfig reads is what was saved.
LEMMA LoadedIs ==
    ASSUME TInv, NEW n \in Nodes, NEW o \in Nat, NEW l, l = Loaded(n, o)
    PROVE  Reloads(n, l)
<1> DEFINE d == disk[n]
           T == {d.known[m].configEpoch : m \in Nodes} \cup {d.currentEpoch}
           top == Max(T)
<1>1. d \in DiskRecord(Nodes, Slots) /\ Sane(Nodes, Slots, d, n) /\ setup \in Setups
  BY DEF TInv, DisksOK
<1>2. l = [me |-> n, up |-> TRUE, currentEpoch |-> top,
           lastVoteEpoch |-> d.lastVoteEpoch, known |-> d.known, slots |-> d.slots,
           size |-> 1, state |-> "fail", booting |-> TRUE, minority |-> FALSE,
           auth |-> "retry", auth_sent |-> FALSE, auth_epoch |-> 0, auth_count |-> 0,
           mf_end |-> FALSE, mf_can_start |-> FALSE, mf_slave |-> None,
           mf_master_offset |-> 0, mf_id |-> 0, paused |-> FALSE, offset |-> o,
           out |-> <<>>, todo |-> {}, log |-> {}]
  BY DEF Loaded
<1> HIDE DEF d
<1>3. /\ d.known \in [Nodes -> Peer(Nodes)] /\ d.slots \in [Slots -> Nodes \cup {None}]
      /\ d.lastVoteEpoch \in Nat /\ d.currentEpoch \in Nat
  BY <1>1 DEF DiskRecord
<1>4. \A m \in Nodes : d.known[m].configEpoch \in Nat
  BY <1>3, PeerFields
<1>5. T \subseteq Nat /\ d.currentEpoch \in T /\ T # {}
  BY <1>3, <1>4
<1>6. IsFiniteSet(T)
  <2> DEFINE f == [m \in Nodes |-> d.known[m].configEpoch]
             I == {f[m] : m \in Nodes}
  <2>1. IsFiniteSet(Nodes)
    BY <1>1, Setting
  <2>2. IsFiniteSet(I)
    <3>1. f \in [Nodes -> I] /\ \A y \in I : \E m \in Nodes : f[m] = y
      OBVIOUS
    <3> HIDE DEF f, I
    <3>2. f \in Surjection(Nodes, I)
      BY <3>1 DEF Surjection
    <3> QED  BY <2>1, <3>2, FS_Surjection
  <2>3. T = I \cup {d.currentEpoch}
    OBVIOUS
  <2> HIDE DEF T, I
  <2> QED  BY <2>2, <2>3, FS_AddElement
<1> HIDE DEF T
<1>7. top \in Nat /\ top >= d.currentEpoch
  BY <1>5, <1>6, MaxIs
<1> HIDE DEF top
<1>8. <<>> \in Queues(From(Nodes, n), Packets(Nodes, Slots, n))
  BY Empty
<1>9. l \in Working(Nodes, Slots, n)
  <2>1. "retry" \in Phases
    BY DEF Phases
  <2> QED  BY <1>2, <1>3, <1>7, <1>8, <2>1 DEF Working
<1>10. /\ l.known = d.known /\ l.slots = d.slots /\ l.lastVoteEpoch = d.lastVoteEpoch /\ l.currentEpoch = top
       /\ l.out = <<>> /\ l.log = {} /\ l.auth = "retry" /\ l.auth_sent = FALSE /\ l.auth_count = 0 /\ l.up
  BY <1>2
<1>11. Sane(Nodes, Slots, l, n)
  BY <1>1, <1>10 DEF Sane
<1>12. OK(l, n)
  BY <1>1, <1>9, <1>11 DEF OK
<1> QED  BY <1>7, <1>10, <1>12 DEF d, Reloads

\* A node comes back with what it saved.
Returns(n, s) ==
    /\ n \in Nodes /\ ~node[n].up /\ setup' = setup /\ node' = [node EXCEPT ![n] = s]
    /\ disk' = disk /\ net' = net /\ hist' = hist
    /\ s \in NodeState(Nodes, Slots) /\ s.me = n /\ Sane(Nodes, Slots, s, n) /\ s.up
    /\ s.known = disk[n].known /\ s.lastVoteEpoch = disk[n].lastVoteEpoch /\ s.currentEpoch >= disk[n].currentEpoch
    /\ s.auth = "retry" /\ s.auth_sent = FALSE /\ s.auth_count = 0
\* That is what Restart does.
LEMMA RestartReturns ==
    ASSUME TInv, UNCHANGED setup, NEW n \in Nodes, Restart(n)
    PROVE  (\E s : Returns(n, s)) /\ used' \in [Events -> Nat]
<1> DEFINE o == node[n].offset
           l == Loaded(n, o)
           u == clusterUpdateState(l)
           s == Kept(u)
           h == {}
<1>1. o \in Nat
  BY NodeIs, OKFields
<1>2. /\ ~node[n].up /\ node' = [node EXCEPT ![n] = s] /\ disk' = disk /\ net' = net /\ hist' = hist
      /\ used' \in [Events -> Nat]
  BY DEF Restart, TInv
<1>12. l = Loaded(n, o)
  OBVIOUS
<1>3. u = clusterUpdateState(l) /\ s = Kept(u)
  OBVIOUS
<1> HIDE DEF o, l, u, s, h
<1>4. /\ OK(l, n) /\ l.known = disk[n].known /\ l.lastVoteEpoch = disk[n].lastVoteEpoch
      /\ l.currentEpoch >= disk[n].currentEpoch
      /\ l.auth = "retry" /\ l.auth_sent = FALSE /\ l.auth_count = 0 /\ l.up
  <2>1. Reloads(n, l)
    BY <1>1, <1>12, LoadedIs
  <2> QED  BY <2>1 DEF Reloads
<1>5. Step(h, l, u, n) /\ u.known = l.known
  BY <1>3, <1>4, UpdateStateStep
<1>6. OK(u, n) /\ Calm(l, u)
  BY <1>5 DEF Step
<1>7. /\ s \in NodeState(Nodes, Slots) /\ s.me = n /\ Sane(Nodes, Slots, s, n)
      /\ s.known = u.known /\ s.up = u.up /\ s.auth = u.auth /\ s.auth_sent = u.auth_sent
      /\ s.auth_epoch = u.auth_epoch /\ s.auth_count = u.auth_count
      /\ s.lastVoteEpoch = u.lastVoteEpoch /\ s.currentEpoch = u.currentEpoch
  BY <1>3, <1>6, KeptIs
<1>8. disk[n].currentEpoch \in Nat /\ l.currentEpoch \in Nat /\ u.currentEpoch \in Nat
  BY <1>4, <1>6, OKFields DEF TInv, DisksOK, DiskRecord
<1>9. s.currentEpoch >= disk[n].currentEpoch
  BY <1>4, <1>6, <1>7, <1>8 DEF Calm
<1>10. s.up /\ s.auth = "retry" /\ s.auth_sent = FALSE /\ s.auth_count = 0 /\ s.lastVoteEpoch = disk[n].lastVoteEpoch
       /\ s.known = disk[n].known
  BY <1>4, <1>5, <1>6, <1>7 DEF Calm
<1>11. Returns(n, s)
  BY <1>2, <1>7, <1>9, <1>10 DEF Returns
<1> QED  BY <1>2, <1>11

\* A restart keeps the types.
LEMMA ReturnsKeep ==
    ASSUME TInv, NEW n, NEW s, Returns(n, s), used' \in [Events -> Nat]  PROVE TInv'
<1>1. Nodes' = Nodes /\ Slots' = Slots /\ setup' \in Setups
  BY DEF Returns, Nodes, Slots, TInv
<1>2. /\ n \in Nodes /\ node' = [node EXCEPT ![n] = s] /\ s \in NodeState(Nodes, Slots)
      /\ disk' = disk /\ net' = net /\ hist' = hist /\ s.me = n /\ Sane(Nodes, Slots, s, n) /\ s.up
  BY DEF Returns
<1>3. NodesOK(Nodes, Slots, node')
  BY <1>2 DEF TInv, NodesOK
<1>4. Live(node', net')
  BY <1>2 DEF TInv, NodesOK, Live, NetOK, Chans
<1> QED  BY <1>1, <1>2, <1>3, <1>4 DEF TInv

-----------------------------------------------------------------------------
\* The specification

\* Every step is one of these.
LEMMA NextIs ==
    ASSUME TInv, Next
    PROVE  /\ used' \in [Events -> Nat]
           /\ \/ \E n, t, chans : Does(n, t, chans)
              \/ \E n, s : Ticks(n, s)
              \/ \E n : Dies(n)
              \/ \E n, s : Returns(n, s)
<1>1. UNCHANGED setup
  BY DEF Next
<1>2. setup \in Setups
  BY DEF TInv
<1>3. ASSUME Happens \/ Passes  PROVE /\ used' \in [Events -> Nat]
                                      /\ (\E n, t, chans : Does(n, t, chans)) \/ (\E n, s : Ticks(n, s))
  BY <1>3 DEF Happens, Passes
<1>4. CASE \E c \in DOMAIN net : Receive(c)
  BY <1>1, <1>3, <1>4, ReceiveDoes
<1>5. ASSUME NEW pair \in setup.pings, Ping(pair[1], pair[2])  PROVE Happens
  <2>1. pair[1] \in Nodes /\ pair[2] \in Nodes /\ pair[2] # pair[1]
    BY <1>2, PairIs
  <2> QED  BY <1>1, <1>5, <2>1, PingDoes
<1>6. ASSUME NEW pair \in setup.reconnects, Reconnect(pair[1], pair[2])  PROVE Happens
  <2>1. pair[1] \in Nodes /\ pair[2] \in Nodes /\ pair[2] # pair[1]
    BY <1>2, PairIs
  <2> QED  BY <1>1, <1>6, <2>1, ReconnectDoes
<1>7. ASSUME NEW pair \in setup.timeouts, PingTimeout(pair[1], pair[2])  PROVE Happens
  <2>1. pair[1] \in Nodes /\ pair[2] \in Nodes
    BY <1>2, PairIs
  <2> QED  BY <1>1, <1>7, <2>1, TimeoutDoes
<1>8. ASSUME NEW by \in setup.failovers, ClusterFailover(by[1], by[2])  PROVE Happens
  <2>1. by[1] \in Nodes /\ by[2] \in {"", "force", "takeover"}
    BY <1>2, ClusterAssumption DEF IsSetup, Nodes
  <2> QED  BY <1>1, <1>8, <2>1, FailoverDoes
<1>9. ASSUME NEW n \in Nodes,
             \/ \E m \in Nodes : ReportExpires(n, m)
             \/ SlaveCron(n) \/ StateDelayOver(n) \/ ManualFailoverTimeout(n)
      PROVE  Happens
  BY <1>1, <1>9, ReportExpiresDoes, SlaveCronDoes, StateDelayDoes, MfTimeoutDoes
<1>10. ASSUME NEW n \in Nodes, AuthTime(n) \/ Write(n) \/ Replicate(n)  PROVE Passes
  BY <1>1, <1>10, AuthTimePasses, WritePasses, ReplicatePasses
<1>11. ASSUME NEW n \in setup.crashers, Crash(n) \/ Restart(n)
       PROVE  used' \in [Events -> Nat] /\ (Dies(n) \/ \E s : Returns(n, s))
  <2>1. n \in Nodes
    BY <1>2, ClusterAssumption DEF IsSetup, Nodes
  <2> QED  BY <1>1, <1>11, <2>1, CrashDies, RestartReturns
<1>12. \/ \E c \in DOMAIN net : Receive(c)
       \/ \E pair \in setup.pings : Ping(pair[1], pair[2])
       \/ \E pair \in setup.reconnects : Reconnect(pair[1], pair[2])
       \/ \E pair \in setup.timeouts : PingTimeout(pair[1], pair[2])
       \/ \E by \in setup.failovers : ClusterFailover(by[1], by[2])
       \/ \E n \in Nodes : \/ \E m \in Nodes : ReportExpires(n, m)
                           \/ SlaveCron(n) \/ StateDelayOver(n) \/ ManualFailoverTimeout(n)
       \/ \E n \in Nodes : AuthTime(n) \/ Write(n) \/ Replicate(n)
       \/ \E n \in setup.crashers : Crash(n) \/ Restart(n)
  BY DEF Next
<1> QED  BY <1>3, <1>4, <1>5, <1>6, <1>7, <1>8, <1>9, <1>10, <1>11, <1>12

\* Init: the nodes of a situation, and their files.
LEMMA StartIs ==
    ASSUME Init
    PROVE  /\ setup \in Setups /\ NodesOK(Nodes, Slots, node)
           /\ \A n \in Nodes : StartOK(node[n], n)
<1>1. setup \in Setups /\ node = Start[setup.name]
  BY DEF Init
<1>2. IsStart(setup)
  BY <1>1, ClusterAssumption
<1>3. node \in [Nodes -> NodeState(Nodes, Slots)] /\ \A n \in Nodes : StartOK(node[n], n)
  BY <1>1, <1>2 DEF IsStart, Nodes, Slots
<1>4. ASSUME NEW n \in Nodes  PROVE node[n].me = n /\ Sane(Nodes, Slots, node[n], n)
  <2>1. node[n] \in NodeState(Nodes, Slots) /\ StartOK(node[n], n)
    BY <1>3
  <2>2. DOMAIN node[n].known = Nodes /\ DOMAIN node[n].slots = Slots
    BY <2>1 DEF NodeState
  <2> QED  BY <2>1, <2>2 DEF StartOK, Sane, Roles
<1> QED  BY <1>1, <1>3, <1>4 DEF NodesOK

\* Every start of the system is typed.
LEMMA InitKeeps == ASSUME Init  PROVE TInv
<1>1. setup \in Setups /\ NodesOK(Nodes, Slots, node)
  BY StartIs
<1>2. /\ node = Start[setup.name] /\ net = <<>> /\ used = [e \in Events |-> 0]
      /\ disk = [n \in Nodes |-> Saved(node[n])]
  BY DEF Init
<1>3. \A n \in Nodes : disk[n] \in DiskRecord(Nodes, Slots) /\ Sane(Nodes, Slots, disk[n], n)
  <2> SUFFICES ASSUME NEW n \in Nodes  PROVE disk[n] \in DiskRecord(Nodes, Slots) /\ Sane(Nodes, Slots, disk[n], n)
    OBVIOUS
  <2> DEFINE s == node[n]
             d == Saved(s)
  <2>1. s \in NodeState(Nodes, Slots) /\ s.me = n /\ Sane(Nodes, Slots, s, n)
    BY <1>1 DEF NodesOK
  <2>2. disk[n] = d
    BY <1>2
  <2>3. OK(s, n)
    BY <1>1, <2>1, BetweenIs
  <2> HIDE DEF s
  <2>4. d \in DiskRecord(Nodes, Slots) /\ Sane(Nodes, Slots, d, n)
    BY <2>3, SavedIs
  <2> HIDE DEF d
  <2> QED  BY <2>2, <2>4
<1>4. DisksOK(Nodes, Slots, disk)
  BY <1>2, <1>3 DEF DisksOK
<1>5. DOMAIN net = {}
  BY <1>2, Empty
<1>6. NetOK(Nodes, Slots, net) /\ Live(node, net)
  BY <1>5 DEF NetOK, Live
<1>7. HistOK(Nodes, hist)
  <2>1. \A x \in hist : \E a, m \in Nodes : x = <<a, "suspect", m>>
    BY DEF Init
  <2> QED  BY <2>1 DEF HistOK, Notes
<1>8. used \in [Events -> Nat]
  BY <1>2
<1> QED  BY <1>1, <1>4, <1>6, <1>7, <1>8 DEF TInv

\* Every step keeps the types.
LEMMA StepKeeps == ASSUME TInv, [Next]_vars  PROVE TInv'
<1>1. CASE Next
  <2>1. used' \in [Events -> Nat]
    BY <1>1, NextIs
  <2>2. ASSUME NEW n, NEW t, NEW chans, Does(n, t, chans)  PROVE TInv'
    BY <2>1, <2>2, DoesKeep
  <2>3. ASSUME NEW n, NEW s, Ticks(n, s)  PROVE TInv'
    BY <2>1, <2>3, TicksKeep
  <2>4. ASSUME NEW n, Dies(n)  PROVE TInv'
    BY <2>1, <2>4, DiesKeep
  <2>5. ASSUME NEW n, NEW s, Returns(n, s)  PROVE TInv'
    BY <2>1, <2>5, ReturnsKeep
  <2>6. \/ \E n, t, chans : Does(n, t, chans)
        \/ \E n, s : Ticks(n, s)
        \/ \E n : Dies(n)
        \/ \E n, s : Returns(n, s)
    BY <1>1, NextIs
  <2> QED  BY <2>2, <2>3, <2>4, <2>5, <2>6
<1>2. CASE UNCHANGED vars
  BY <1>2 DEF vars, TInv, Nodes, Slots
<1> QED  BY <1>1, <1>2

\* The types hold always.
LEMMA TypesKept == Spec => []TInv
<1>1. Init => TInv
  BY InitKeeps
<1>2. TInv /\ [Next]_vars => TInv'
  BY StepKeeps
<1> QED  BY <1>1, <1>2, PTL DEF Spec

\* For any number of nodes and slots: every node's record has its types in every reachable state,
\* crashes and restarts included, a node is known as a slave just if its master is known, and the
\* two assertions of clusterSetMaster() never fail: a node that turns into a slave has no slot left
\* and does not replicate itself.
THEOREM AssertionsHold == Spec => [](TypeOK /\ NoAssertion)
<1>1. TInv => TypeOK /\ NoAssertion
  BY DEF TInv, TypeOK, NoAssertion, NodesOK, DisksOK, NetOK, HistOK, Sane, Roles, Chans, Channels
<1> QED  BY <1>1, TypesKept, PTL

-----------------------------------------------------------------------------
\* Failure detection of the whole cluster

\* More suspicions give no less reason.
LEMMA MoreDown ==
    ASSUME NEW N, NEW S, NEW h, NEW k, IsFiniteSet(N), IsFiniteSet(S), h \subseteq k, NEW m, Down(N, S, h, m)
    PROVE  Down(N, S, k, m)
<1> DEFINE A == Suspecters(N, h, m)
           B == Suspecters(N, k, m)
           c == Cardinality(S)
<1>1. A \subseteq B /\ B \subseteq N
  BY DEF Suspecters
<1> HIDE DEF A, B
<1>2. IsFiniteSet(B)
  BY <1>1, FS_Subset
<1>3. Cardinality(A) <= Cardinality(B) /\ IsFiniteSet(A)
  BY <1>1, <1>2, FS_Subset
<1>4. Cardinality(A) \in Nat /\ Cardinality(B) \in Nat /\ c \in Nat
  BY <1>2, <1>3, FS_CardinalityType
<1>5. Cardinality(A) >= c \div 2 + 1
  BY DEF Down, A
<1> HIDE DEF c
<1>6. Cardinality(B) >= c \div 2 + 1
  BY <1>3, <1>4, <1>5
<1> QED  BY <1>6 DEF Down, B, c

\* What is founded stays so as the history grows.
LEMMA MoreFounded ==
    ASSUME NEW N, NEW S, NEW h, NEW k, IsFiniteSet(N), IsFiniteSet(S), h \subseteq k, NEW n, NEW m, NEW f,
           Founded(N, S, h, n, m, f)
    PROVE  Founded(N, S, k, n, m, f)
BY MoreDown DEF Founded

\* So do the flags a node keeps,
LEMMA MoreFlags ==
    ASSUME NEW N, NEW S, NEW h, NEW k, IsFiniteSet(N), IsFiniteSet(S), h \subseteq k, NEW known, NEW n,
           FlagsOK(N, S, h, known, n)
    PROVE  FlagsOK(N, S, k, known, n)
<1> SUFFICES ASSUME NEW m \in N
             PROVE  /\ Founded(N, S, k, n, m, known[m].flag) /\ n \notin known[m].reports
                    /\ Down(N, S, k, m) \/ known[m].reports \subseteq Suspecters(N, k, m)
  BY DEF FlagsOK
<1>1. /\ Founded(N, S, h, n, m, known[m].flag) /\ n \notin known[m].reports
      /\ Down(N, S, h, m) \/ known[m].reports \subseteq Suspecters(N, h, m)
  BY DEF FlagsOK
<1>2. Founded(N, S, k, n, m, known[m].flag)
  BY <1>1, MoreFounded
<1>3. Down(N, S, h, m) => Down(N, S, k, m)
  BY MoreDown
<1>4. Suspecters(N, h, m) \subseteq Suspecters(N, k, m)
  BY DEF Suspecters
<1> QED  BY <1>1, <1>2, <1>3, <1>4

\* and those in flight.
LEMMA MoreTold ==
    ASSUME NEW N, NEW S, NEW h, NEW k, IsFiniteSet(N), IsFiniteSet(S), h \subseteq k, NEW q, AllTold(N, S, h, q)
    PROVE  AllTold(N, S, k, q)
<1> SUFFICES ASSUME NEW c \in DOMAIN q, NEW i \in DOMAIN q[c]  PROVE Told(N, S, k, q[c][i])
  BY DEF AllTold
<1> DEFINE p == q[c][i]
<1>1. Told(N, S, h, p)
  BY DEF AllTold
<1> HIDE DEF p
<1>2. Told(N, S, k, p)
  BY <1>1, MoreDown, MoreFounded DEF Told
<1> QED  BY <1>2 DEF p

\* Fewer messages, and more messages.
LEMMA LessTold ==
    ASSUME NEW h, NetOK(Nodes, Slots, net), AllTold(Nodes, Slots, h, net), NEW q, Less(q, net)
    PROVE  AllTold(Nodes, Slots, h, q)
<1> SUFFICES ASSUME NEW c \in DOMAIN q  PROVE \A i \in DOMAIN q[c] : Told(Nodes, Slots, h, q[c][i])
  BY DEF AllTold
<1> DEFINE w == net[c]
           P == Packets(Nodes, Slots, c[1])
<1>1. w \in Seq(P) /\ w # <<>> /\ c \in DOMAIN net /\ (q[c] = w \/ q[c] = Tail(w))
  BY DEF NetOK, Less
<1>2. \A i \in DOMAIN w : Told(Nodes, Slots, h, w[i])
  BY <1>1 DEF AllTold
<1> HIDE DEF w, P
<1>3. \A i \in DOMAIN Tail(w) : i + 1 \in DOMAIN w /\ Tail(w)[i] = w[i + 1]
  BY <1>1, TailIs
<1> DEFINE v == Tail(w)
<1>4. \A i \in DOMAIN v : Told(Nodes, Slots, h, v[i])
  BY <1>2, <1>3
<1> HIDE DEF v
<1>5. q[c] = w \/ q[c] = v
  BY <1>1 DEF v
<1> QED  BY <1>2, <1>4, <1>5

\* Founded packets that are sent join founded packets.
LEMMA SendsTold ==
    ASSUME NEW h, NEW t, NEW n, OK(t, n), NEW chans, NetOK(Nodes, Slots, chans), AllTold(Nodes, Slots, h, chans),
           AllTold(Nodes, Slots, h, t.out), NEW q, Sends(q, chans, t.out)
    PROVE  AllTold(Nodes, Slots, h, q)
<1> SUFFICES ASSUME NEW c \in DOMAIN q  PROVE \A i \in DOMAIN q[c] : Told(Nodes, Slots, h, q[c][i])
  BY DEF AllTold
<1>1. CASE c \in DOMAIN chans /\ q[c] = chans[c]
  BY <1>1 DEF AllTold
<1>2. CASE c \in DOMAIN t.out /\ q[c] = On(chans, c) \o t.out[c]
  <2> DEFINE u == On(chans, c)
             v == t.out[c]
             P == Packets(Nodes, Slots, n)
  <2>1. /\ DOMAIN t.out \subseteq From(Nodes, n)
        /\ \A x \in DOMAIN t.out : t.out[x] \in Seq(P) /\ t.out[x] # <<>>
    BY OKFields, QueuesIs
  <2>2. c[1] = n /\ v \in Seq(P) /\ v # <<>>
    BY <1>2, <2>1 DEF From
  <2>3. c \in DOMAIN chans => chans[c] \in Seq(P)
    BY <2>2 DEF NetOK
  <2>4. c \in DOMAIN chans => \A i \in DOMAIN chans[c] : Told(Nodes, Slots, h, chans[c][i])
    BY DEF AllTold
  <2> HIDE DEF P, v
  <2>5. <<>> \in Seq(P) /\ DOMAIN <<>> = {}
    OBVIOUS
  <2>6. u \in Seq(P) /\ \A i \in DOMAIN u : Told(Nodes, Slots, h, u[i])
    BY <2>3, <2>4, <2>5 DEF On
  <2>7. \A i \in DOMAIN v : Told(Nodes, Slots, h, v[i])
    BY <1>2 DEF AllTold, v
  <2>8. q[c] = u \o v
    BY <1>2 DEF v
  <2> HIDE DEF u
  <2>9. \A i \in DOMAIN (u \o v) : \/ i \in DOMAIN u /\ (u \o v)[i] = u[i]
                                  \/ \E j \in DOMAIN v : (u \o v)[i] = v[j]
    BY <2>2, <2>6, Concat
  <2> DEFINE w == u \o v
  <2>10. \A i \in DOMAIN w : Told(Nodes, Slots, h, w[i])
    BY <2>6, <2>7, <2>9
  <2>11. q[c] = w
    BY <2>8
  <2> HIDE DEF w
  <2> QED  BY <2>10, <2>11
<1> QED  BY <1>1, <1>2 DEF Sends

\* Every node has a reason for the flags it has in memory and on disk, and for what it sent.
FInv(N, S, h, nd, dk, q) ==
    /\ \A n \in N : FlagsOK(N, S, h, nd[n].known, n) /\ FlagsOK(N, S, h, dk[n].known, n)
    /\ AllTold(N, S, h, q)

\* The quorum of every node that runs is a majority of the masters of all slots, as long as it
\* counts that many: a node that has just started counts one (clusterInit).
QuorumsFull == \A n \in Nodes : node[n].up => Full(node[n])

\* The flags in nodes.conf are those in memory.
LEMMA SavedFlags ==
    ASSUME NEW h, NEW t, NEW n, OK(t, n), FlagsOK(Nodes, Slots, h, t.known, n), NEW d, d = Saved(t)
    PROVE  FlagsOK(Nodes, Slots, h, d.known, n)
<1>1. \A m \in Nodes : d.known[m].flag = t.known[m].flag /\ d.known[m].reports = {}
  BY SavedIs
<1> QED  BY <1>1 DEF FlagsOK

\* An event of a running node keeps every flag founded.
LEMMA DoesFlags ==
    ASSUME TInv, NEW n, NEW t, NEW chans, Does(n, t, chans), QuorumsFull, FInv(Nodes, Slots, hist, node, disk, net)
    PROVE  FInv(Nodes, Slots, hist', node', disk', net')
<1> DEFINE k == Kept(t)
           d == Saved(t)
           h == hist'
           b == node[n]
<1>0. n \in Nodes /\ node[n].up /\ OK(t, n) /\ Acts(n, t, chans) /\ Less(chans, net) /\ Argues(h, b, t, n)
  BY DEF Does
<1>1. /\ node' = [node EXCEPT ![n] = k] /\ (disk' = disk \/ disk' = [disk EXCEPT ![n] = d]) /\ hist \subseteq h
      /\ net' = Deliver(chans, t)
  BY <1>0 DEF Acts
<1>2. IsFiniteSet(Nodes) /\ IsFiniteSet(Slots)
  BY Setting DEF TInv
<1>14. k = Kept(t)
  OBVIOUS
<1>15. d = Saved(t)
  OBVIOUS
<1> HIDE DEF k, d, h
<1>3. \A m \in Nodes : FlagsOK(Nodes, Slots, h, node[m].known, m) /\ FlagsOK(Nodes, Slots, h, disk[m].known, m)
  BY <1>1, <1>2, MoreFlags DEF FInv
<1>4. AllTold(Nodes, Slots, h, net)
  BY <1>1, <1>2, MoreTold DEF FInv
<1>5. b.out = <<>>
  BY <1>0, NodeIs
<1>6. AllTold(Nodes, Slots, h, b.out)
  BY <1>5 DEF AllTold
<1>7. Reasoned(h, b, n) /\ Full(b)
  BY <1>0, <1>3, <1>6 DEF Reasoned, QuorumsFull
<1>8. FlagsOK(Nodes, Slots, h, t.known, n) /\ AllTold(Nodes, Slots, h, t.out)
  BY <1>0, <1>4, <1>7 DEF Argues, Reasoned
<1>9. k.known = t.known
  BY <1>0, <1>14, KeptIs
<1>10. FlagsOK(Nodes, Slots, h, d.known, n)
  BY <1>0, <1>8, <1>15, SavedFlags
<1>11. node \in [Nodes -> NodeState(Nodes, Slots)] /\ disk \in [Nodes -> DiskRecord(Nodes, Slots)] /\ NetOK(Nodes, Slots, net)
  BY DEF TInv, NodesOK, DisksOK
<1>12. \A m \in Nodes : FlagsOK(Nodes, Slots, h, node'[m].known, m) /\ FlagsOK(Nodes, Slots, h, disk'[m].known, m)
  BY <1>0, <1>1, <1>3, <1>8, <1>9, <1>10, <1>11
<1>13. AllTold(Nodes, Slots, h, net')
  <2>1. NetOK(Nodes, Slots, chans)
    BY <1>0, <1>11, LessOK
  <2>2. AllTold(Nodes, Slots, h, chans)
    BY <1>0, <1>4, <1>11, LessTold
  <2> DEFINE q == Deliver(chans, t)
  <2>3. Sends(q, chans, t.out)
    BY <1>0, <2>1, DeliverIs
  <2> HIDE DEF q
  <2>4. AllTold(Nodes, Slots, h, q)
    BY <1>0, <1>8, <2>1, <2>2, <2>3, SendsTold
  <2> QED  BY <1>1, <2>4 DEF q
<1> QED  BY <1>12, <1>13 DEF FInv, h

\* So do time, crashes and restarts.
LEMMA OtherFlags ==
    ASSUME TInv, FInv(Nodes, Slots, hist, node, disk, net), NEW n,
           (\E s : Ticks(n, s)) \/ Dies(n) \/ (\E s : Returns(n, s))
    PROVE  FInv(Nodes, Slots, hist', node', disk', net')
<1>1. node \in [Nodes -> NodeState(Nodes, Slots)] /\ NetOK(Nodes, Slots, net)
  BY DEF TInv, NodesOK
<1>2. ASSUME NEW s, Ticks(n, s)  PROVE FInv(Nodes, Slots, hist', node', disk', net')
  BY <1>1, <1>2 DEF Ticks, SameNode, FInv
<1>3. ASSUME NEW s, Returns(n, s)  PROVE FInv(Nodes, Slots, hist', node', disk', net')
  BY <1>1, <1>3 DEF Returns, FInv
<1>4. ASSUME Dies(n)  PROVE FInv(Nodes, Slots, hist', node', disk', net')
  <2> DEFINE s == WithUp(node[n], FALSE)
  <2>1. n \in Nodes /\ node' = [node EXCEPT ![n] = s] /\ Less(net', net) /\ disk' = disk /\ hist' = hist
    BY <1>4 DEF Dies
  <2>2. s.known = node[n].known
    BY <1>1, <2>1, UpIs
  <2> HIDE DEF s
  <2>3. AllTold(Nodes, Slots, hist, net')
    BY <1>1, <2>1, LessTold DEF FInv
  <2> QED  BY <1>1, <2>1, <2>2, <2>3 DEF FInv
<1> QED  BY <1>2, <1>3, <1>4

\* The nodes that are flagged at the start are so by a majority.
LEMMA StartFlags == ASSUME Init  PROVE FInv(Nodes, Slots, hist, node, disk, net)
<1>1. TInv /\ \A n \in Nodes : StartOK(node[n], n)
  BY InitKeeps, StartIs
<1>2. /\ setup \in Setups /\ node = Start[setup.name] /\ net = <<>> /\ disk = [n \in Nodes |-> Saved(node[n])]
      /\ hist = {<<pair[1], "suspect", pair[2]>> : pair \in
                 {pair \in Nodes \X Nodes : IsMaster(node[pair[1]], pair[1]) /\ Failed(node[pair[1]], pair[2])}}
  BY DEF Init
<1>3. ASSUME NEW n \in Nodes, NEW m \in Nodes, node[n].known[m].flag = "fail"  PROVE Down(Nodes, Slots, hist, m)
  <2> DEFINE F == {a \in Nodes : node[a].known[m].flag = "fail"}
             M == {a \in F : ~node[a].known[a].slave}
             A == Suspecters(Nodes, hist, m)
             c == Cardinality(Slots) \div 2 + 1
  <2>1. Cardinality(M) >= c
    <3>1. IsStart(setup)
      BY <1>2, ClusterAssumption
    <3>2. F # {}
      BY <1>3
    <3> QED  BY <1>2, <3>1, <3>2 DEF IsStart, Nodes, Slots
  <2>2. M \subseteq A
    <3> SUFFICES ASSUME NEW a \in M  PROVE <<a, "suspect", m>> \in hist
      BY DEF Suspecters
    <3> DEFINE pair == <<a, m>>
    <3>1. pair \in Nodes \X Nodes /\ IsMaster(node[pair[1]], pair[1]) /\ Failed(node[pair[1]], pair[2])
      BY DEF IsMaster, Failed
    <3> QED  BY <1>2, <3>1
  <2>3. A \subseteq Nodes /\ IsFiniteSet(Nodes) /\ IsFiniteSet(Slots)
    BY <1>2, Setting DEF Suspecters
  <2>4. Cardinality(Slots) \in Nat
    BY <2>3, FS_CardinalityType
  <2> HIDE DEF M, A
  <2>5. IsFiniteSet(A)
    BY <2>3, FS_Subset
  <2>6. IsFiniteSet(M) /\ Cardinality(M) <= Cardinality(A)
    BY <2>2, <2>5, FS_Subset
  <2>7. Cardinality(M) \in Nat /\ Cardinality(A) \in Nat /\ c \in Nat
    BY <2>4, <2>5, <2>6, FS_CardinalityType
  <2> HIDE DEF c
  <2>8. Cardinality(A) >= c
    BY <2>1, <2>6, <2>7
  <2> QED  BY <2>8 DEF Down, A, c
<1>4. ASSUME NEW n \in Nodes  PROVE FlagsOK(Nodes, Slots, hist, node[n].known, n)
  <2>1. DOMAIN node[n].known = Nodes
    BY <1>1 DEF TInv, NodesOK, NodeState
  <2>2. \A m \in Nodes : node[n].known[m].reports = {} /\ node[n].known[m].flag # "pfail"
    BY <1>1, <2>1 DEF StartOK
  <2> QED  BY <1>3, <2>2 DEF FlagsOK, Founded
<1>5. ASSUME NEW n \in Nodes  PROVE FlagsOK(Nodes, Slots, hist, disk[n].known, n)
  <2> DEFINE s == node[n]
             d == Saved(s)
             h == hist
  <2>1. OK(s, n)
    BY <1>1, NodeIs
  <2>2. FlagsOK(Nodes, Slots, h, s.known, n) /\ disk[n] = d
    BY <1>2, <1>4
  <2>3. d = Saved(s)
    OBVIOUS
  <2> HIDE DEF s, d, h
  <2>4. FlagsOK(Nodes, Slots, h, d.known, n)
    BY <2>1, <2>2, <2>3, SavedFlags
  <2> QED  BY <2>2, <2>4 DEF h
<1>6. AllTold(Nodes, Slots, hist, net)
  <2>1. DOMAIN net = {}
    BY <1>2, Empty
  <2> QED  BY <2>1 DEF AllTold
<1> QED  BY <1>4, <1>5, <1>6 DEF FInv

\* Every flag, kept, saved or in flight, is founded.
Flagged == FInv(Nodes, Slots, hist, node, disk, net)
\* Every step keeps that.
LEMMA FlagsKept ==
    ASSUME TInv, QuorumsFull, Flagged, [Next]_vars  PROVE Flagged'
<1>1. CASE Next
  <2>1. \/ \E n, t, chans : Does(n, t, chans)
        \/ \E n, s : Ticks(n, s)
        \/ \E n : Dies(n)
        \/ \E n, s : Returns(n, s)
    BY <1>1, NextIs
  <2>2. setup' = setup
    BY <1>1 DEF Next
  <2>3. Nodes' = Nodes /\ Slots' = Slots
    BY <2>2 DEF Nodes, Slots
  <2>4. FInv(Nodes, Slots, hist', node', disk', net')
    BY <2>1, DoesFlags, OtherFlags DEF Flagged
  <2> QED  BY <2>3, <2>4 DEF Flagged
<1>2. CASE UNCHANGED vars
  BY <1>2 DEF vars, Flagged, Nodes, Slots
<1> QED  BY <1>1, <1>2

\* For any number of nodes and slots: while the quorum of every running node is a majority of the
\* masters that serve a slot each, no node is flagged as failing that a majority did not find
\* unreachable, however flags, gossip, FAIL messages and nodes.conf files with stale flags travel
\* (markNodeAsFailingIfNeeded, clusterProcessGossipSection, clusterLoadConfig).
THEOREM FailuresCorrect == Spec /\ []QuorumsFull => []FailNeedsMajority
<1>1. Init => Flagged
  BY StartFlags DEF Flagged
<1>2. TInv /\ QuorumsFull /\ Flagged /\ [Next]_vars => Flagged'
  BY FlagsKept
<1>3. Flagged => FailNeedsMajority
  BY DEF Flagged, FInv, FlagsOK, Founded, Down, Suspecters, FailNeedsMajority, Failed, Majority
<1> QED  BY <1>1, <1>2, <1>3, TypesKept, PTL DEF Spec

-----------------------------------------------------------------------------
\* Votes in flight

\* The channel on which votes travel from a to m.
Way(a, m) == <<a, m, "own">>

\* The requests and the votes on a channel.
HasAck(w) == \E i \in DOMAIN w : w[i].type = "auth_ack"
\* w holds at most one vote,
OneAck(w) == \A i, j \in DOMAIN w : w[i].type = "auth_ack" /\ w[j].type = "auth_ack" => i = j
\* or a request of epoch e.
HasRequest(w, e) == \E i \in DOMAIN w : w[i].type = "auth_request" /\ w[i].currentEpoch = e
\* A vote is in flight on c.
Acks(q, c) == c \in DOMAIN q /\ HasAck(q[c])
\* A request of epoch e is in flight on c.
Requests(q, c, e) == c \in DOMAIN q /\ HasRequest(q[c], e)

\* Network r has no requests and no votes that q does not have.
Fewer(r, q) ==
    \A c : /\ Acks(r, c) => Acks(q, c) /\ (OneAck(q[c]) => OneAck(r[c]))
           /\ \A e : Requests(r, c, e) => Requests(q, c, e)

\* Fewer of fewer is fewer.
LEMMA FewerTrans == ASSUME NEW p, NEW q, NEW r, Fewer(p, q), Fewer(q, r)  PROVE Fewer(p, r)
BY DEF Fewer

\* The messages after the first.
LEMMA TailVotes ==
    ASSUME NEW P, NEW w \in Seq(P), w # <<>>, NEW v, v = Tail(w)
    PROVE  /\ HasAck(v) => HasAck(w)
           /\ OneAck(w) => OneAck(v)
           /\ \A e : HasRequest(v, e) => HasRequest(w, e)
           /\ OneAck(w) /\ w[1].type = "auth_ack" => ~HasAck(v)
<1>1. 1 \in DOMAIN w /\ \A i \in DOMAIN v : i \in Nat /\ i # 0 /\ i + 1 \in DOMAIN w /\ v[i] = w[i + 1]
  BY TailIs
<1> QED  BY <1>1 DEF HasAck, OneAck, HasRequest

\* Messages one after the other.
LEMMA ConcatVotes ==
    ASSUME NEW P, NEW u \in Seq(P), NEW v \in Seq(P), NEW w, w = u \o v
    PROVE  /\ HasAck(w) => HasAck(u) \/ HasAck(v)
           /\ OneAck(u) /\ ~HasAck(v) => OneAck(w)
           /\ ~HasAck(u) /\ OneAck(v) => OneAck(w)
           /\ \A e : HasRequest(w, e) => HasRequest(u, e) \/ HasRequest(v, e)
<1> DEFINE k == Len(u)
<1>1. k \in Nat /\ DOMAIN u = 1..k
  BY Concat
<1>4. DOMAIN w = 1..(k + Len(v)) /\ Len(v) \in Nat
  BY Concat
<1>2. \A i \in DOMAIN w : \/ i \in DOMAIN u /\ w[i] = u[i]
                          \/ i > k /\ i - k \in DOMAIN v /\ w[i] = v[i - k]
  BY Concat
<1>3. \A i \in DOMAIN w : i \in Nat
  BY <1>1, <1>4
<1> HIDE DEF k
<1>5. HasAck(w) => HasAck(u) \/ HasAck(v)
  BY <1>2 DEF HasAck
<1>6. \A e : HasRequest(w, e) => HasRequest(u, e) \/ HasRequest(v, e)
  BY <1>2 DEF HasRequest
<1>7. ASSUME OneAck(u), ~HasAck(v)  PROVE OneAck(w)
  BY <1>2, <1>7 DEF OneAck, HasAck
<1>8. ASSUME ~HasAck(u), OneAck(v)  PROVE OneAck(w)
  <2> SUFFICES ASSUME NEW i \in DOMAIN w, NEW j \in DOMAIN w, w[i].type = "auth_ack", w[j].type = "auth_ack"
               PROVE  i = j
    BY DEF OneAck
  <2>1. i - k \in DOMAIN v /\ w[i] = v[i - k] /\ j - k \in DOMAIN v /\ w[j] = v[j - k] /\ i > k /\ j > k
    BY <1>2, <1>8 DEF HasAck
  <2>2. i - k = j - k
    BY <1>8, <2>1 DEF OneAck
  <2> QED  BY <1>1, <1>3, <2>2
<1> QED  BY <1>5, <1>6, <1>7, <1>8

\* Messages are lost.
LEMMA LessFewer ==
    ASSUME NetOK(Nodes, Slots, net), NEW q, Less(q, net)
    PROVE  Fewer(q, net)
<1> SUFFICES ASSUME NEW c \in DOMAIN q
             PROVE  /\ HasAck(q[c]) => HasAck(net[c])
                    /\ OneAck(net[c]) => OneAck(q[c])
                    /\ \A e : HasRequest(q[c], e) => HasRequest(net[c], e)
  BY DEF Fewer, Less, Acks, Requests
<1> DEFINE w == net[c]
           v == Tail(w)
           P == Packets(Nodes, Slots, c[1])
<1>1. w \in Seq(P) /\ w # <<>> /\ (q[c] = w \/ q[c] = v)
  BY DEF NetOK, Less
<1>2. v = Tail(w)
  OBVIOUS
<1> HIDE DEF w, v, P
<1>3. /\ HasAck(v) => HasAck(w)
      /\ OneAck(w) => OneAck(v)
      /\ \A e : HasRequest(v, e) => HasRequest(w, e)
  BY <1>1, <1>2, TailVotes
<1>4. /\ HasAck(q[c]) => HasAck(w)
      /\ OneAck(w) => OneAck(q[c])
      /\ \A e : HasRequest(q[c], e) => HasRequest(w, e)
  BY <1>1, <1>3
<1> QED  BY <1>4 DEF w

\* A vote is read.
LEMMA AckTaken ==
    ASSUME NetOK(Nodes, Slots, net), NEW c, NEW q, Takes(c, q), net[c][1].type = "auth_ack", OneAck(net[c])
    PROVE  ~Acks(q, c)
<1> DEFINE w == net[c]
           v == Tail(w)
           P == Packets(Nodes, Slots, c[1])
<1>1. w \in Seq(P) /\ w # <<>> /\ (c \in DOMAIN q => q[c] = v) /\ w[1].type = "auth_ack" /\ OneAck(w)
  BY DEF NetOK, Takes
<1>2. v = Tail(w)
  OBVIOUS
<1> HIDE DEF w, v, P
<1>3. ~HasAck(v)
  BY <1>1, <1>2, TailVotes
<1> QED  BY <1>1, <1>3 DEF Acks

\* What a turn adds to a channel.
LEMMA SendsIs ==
    ASSUME NEW t, NEW n, OK(t, n), NEW chans, NetOK(Nodes, Slots, chans), NEW q, Sends(q, chans, t.out), NEW c \in DOMAIN q
    PROVE  \/ c \in DOMAIN chans /\ q[c] = chans[c]
           \/ /\ c \in DOMAIN t.out /\ c[1] = n
              /\ HasAck(q[c]) => Acks(chans, c) \/ HasAck(t.out[c])
              /\ Acks(chans, c) /\ OneAck(chans[c]) /\ ~HasAck(t.out[c]) => OneAck(q[c])
              /\ ~Acks(chans, c) /\ OneAck(t.out[c]) => OneAck(q[c])
              /\ \A e : HasRequest(q[c], e) => Requests(chans, c, e) \/ HasRequest(t.out[c], e)
<1>1. CASE c \in DOMAIN t.out /\ q[c] = On(chans, c) \o t.out[c]
  <2> DEFINE u == On(chans, c)
             v == t.out[c]
             w == u \o v
             P == Packets(Nodes, Slots, n)
  <2>1. /\ DOMAIN t.out \subseteq From(Nodes, n)
        /\ \A x \in DOMAIN t.out : t.out[x] \in Seq(P) /\ t.out[x] # <<>>
    BY OKFields, QueuesIs
  <2>2. c[1] = n /\ v \in Seq(P)
    BY <1>1, <2>1 DEF From
  <2>3. c \in DOMAIN chans => chans[c] \in Seq(P)
    BY <2>2 DEF NetOK
  <2> HIDE DEF P
  <2>4. <<>> \in Seq(P) /\ DOMAIN <<>> = {}
    OBVIOUS
  <2>5. u \in Seq(P) /\ (c \in DOMAIN chans => u = chans[c]) /\ (c \notin DOMAIN chans => u = <<>>)
    BY <2>3, <2>4 DEF On
  <2>6. w = u \o v /\ q[c] = w /\ v = t.out[c]
    BY <1>1
  <2> HIDE DEF u, v, w
  <2>7. (HasAck(u) <=> Acks(chans, c)) /\ \A e : HasRequest(u, e) <=> Requests(chans, c, e)
    BY <2>4, <2>5 DEF HasAck, HasRequest, Acks, Requests
  <2>8. /\ HasAck(w) => HasAck(u) \/ HasAck(v)
        /\ OneAck(u) /\ ~HasAck(v) => OneAck(w)
        /\ ~HasAck(u) /\ OneAck(v) => OneAck(w)
        /\ \A e : HasRequest(w, e) => HasRequest(u, e) \/ HasRequest(v, e)
    <3>1. u \in Seq(P)
      BY <2>5
    <3>2. v \in Seq(P)
      BY <2>2
    <3>3. w = u \o v
      BY <2>6
    <3> QED  BY <3>1, <3>2, <3>3, ConcatVotes
  <2>9. Acks(chans, c) => u = chans[c]
    BY <2>5 DEF Acks
  <2> QED  BY <1>1, <2>2, <2>6, <2>7, <2>8, <2>9
<1> QED  BY <1>1 DEF Sends

\* A turn that sends no votes.
LEMMA PlainFewer ==
    ASSUME NEW t, NEW n, OK(t, n), NEW chans, NetOK(Nodes, Slots, chans), NEW q, Sends(q, chans, t.out), Plain(t.out)
    PROVE  Fewer(q, chans)
<1>1. \A c \in DOMAIN t.out : ~HasAck(t.out[c]) /\ \A e : ~HasRequest(t.out[c], e)
  BY DEF Plain, HasAck, HasRequest, VoteTypes
<1>2. ASSUME NEW c \in DOMAIN q
      PROVE  /\ HasAck(q[c]) => Acks(chans, c) /\ (OneAck(chans[c]) => OneAck(q[c]))
             /\ \A e : HasRequest(q[c], e) => Requests(chans, c, e)
  <2>1. CASE c \in DOMAIN chans /\ q[c] = chans[c]
    BY <2>1 DEF Acks, Requests
  <2>2. CASE ~(c \in DOMAIN chans /\ q[c] = chans[c])
    <3>1. /\ c \in DOMAIN t.out
          /\ HasAck(q[c]) => Acks(chans, c) \/ HasAck(t.out[c])
          /\ Acks(chans, c) /\ OneAck(chans[c]) /\ ~HasAck(t.out[c]) => OneAck(q[c])
          /\ \A e : HasRequest(q[c], e) => Requests(chans, c, e) \/ HasRequest(t.out[c], e)
      BY <2>2, SendsIs
    <3> QED  BY <1>1, <3>1
  <2> QED  BY <2>1, <2>2
<1> QED  BY <1>2 DEF Fewer, Acks, Requests

\* Network r has more requests of node n than q, for epoch e.
Requested(r, q, n, e) ==
    \A c : /\ Acks(r, c) => Acks(q, c) /\ (OneAck(q[c]) => OneAck(r[c]))
           /\ \A f : Requests(r, c, f) => Requests(q, c, f) \/ (c[1] = n /\ f = e)

\* A turn that asks for votes.
LEMMA RunsRequested ==
    ASSUME NEW s, NEW t, NEW n, OK(t, n), NEW chans, NetOK(Nodes, Slots, chans), NEW q, Sends(q, chans, t.out), Runs(s, t)
    PROVE  Requested(q, chans, n, t.auth_epoch)
<1>1. \A c \in DOMAIN t.out : ~HasAck(t.out[c]) /\ \A e : HasRequest(t.out[c], e) => e = t.auth_epoch
  BY DEF Runs, HasAck, HasRequest
<1>2. ASSUME NEW c \in DOMAIN q
      PROVE  /\ HasAck(q[c]) => Acks(chans, c) /\ (OneAck(chans[c]) => OneAck(q[c]))
             /\ \A f : HasRequest(q[c], f) => Requests(chans, c, f) \/ (c[1] = n /\ f = t.auth_epoch)
  <2>1. CASE c \in DOMAIN chans /\ q[c] = chans[c]
    BY <2>1 DEF Acks, Requests
  <2>2. CASE ~(c \in DOMAIN chans /\ q[c] = chans[c])
    <3>1. /\ c \in DOMAIN t.out /\ c[1] = n
          /\ HasAck(q[c]) => Acks(chans, c) \/ HasAck(t.out[c])
          /\ Acks(chans, c) /\ OneAck(chans[c]) /\ ~HasAck(t.out[c]) => OneAck(q[c])
          /\ \A e : HasRequest(q[c], e) => Requests(chans, c, e) \/ HasRequest(t.out[c], e)
      BY <2>2, SendsIs
    <3> QED  BY <1>1, <3>1
  <2> QED  BY <2>1, <2>2
<1> QED  BY <1>2 DEF Requested, Acks, Requests

\* Network r has one more vote than q, from node n to m.
Granted(r, q, n, m) ==
    \A c : /\ Acks(r, c) => c = Way(n, m) \/ (Acks(q, c) /\ (OneAck(q[c]) => OneAck(r[c])))
           /\ c = Way(n, m) /\ ~Acks(q, c) /\ Acks(r, c) => OneAck(r[c])
           /\ \A e : Requests(r, c, e) => Requests(q, c, e)

\* A turn that votes.
LEMMA GrantsGranted ==
    ASSUME NEW s, NEW t, NEW n, NEW m, NEW f, OK(t, n), NEW chans, NetOK(Nodes, Slots, chans), NEW q,
           Sends(q, chans, t.out), Grants(s, t, n, m, f)
    PROVE  Granted(q, chans, n, m)
<1> DEFINE y == Way(n, m)
<1>1. PICK a : a.type = "auth_ack" /\ t.out = Queue(<<>>, {y}, <<a>>)
  BY DEF Grants, Way
<1> HIDE DEF y
<1>2. DOMAIN t.out = {y} /\ t.out[y] = <<a>>
  <2>1. DOMAIN t.out = DOMAIN <<>> \cup {y} /\ t.out[y] = On(<<>>, y) \o <<a>>
    BY <1>1 DEF Queue
  <2>2. DOMAIN <<>> = {}
    OBVIOUS
  <2>3. On(<<>>, y) = <<>>
    BY <2>2 DEF On
  <2>4. <<>> \o <<a>> = <<a>>
    <3> DEFINE v == <<a>>
    <3>1. v \in Seq({a})
      OBVIOUS
    <3> HIDE DEF v
    <3>2. <<>> \o v = v
      BY <3>1, ConcatEmptySeq
    <3> QED  BY <3>2 DEF v
  <2> QED  BY <2>1, <2>2, <2>3, <2>4
<1>3. OneAck(t.out[y]) /\ \A e : ~HasRequest(t.out[y], e)
  <2> DEFINE v == <<a>>
  <2>1. DOMAIN v = {1} /\ v[1] = a
    OBVIOUS
  <2> HIDE DEF v
  <2>2. OneAck(v) /\ \A e : ~HasRequest(v, e)
    BY <1>1, <2>1 DEF OneAck, HasRequest
  <2>3. t.out[y] = v
    BY <1>2 DEF v
  <2> QED  BY <2>2, <2>3
<1>4. ASSUME NEW c \in DOMAIN q
      PROVE  /\ HasAck(q[c]) => c = y \/ (Acks(chans, c) /\ (OneAck(chans[c]) => OneAck(q[c])))
             /\ c = y /\ ~Acks(chans, c) /\ HasAck(q[c]) => OneAck(q[c])
             /\ \A e : HasRequest(q[c], e) => Requests(chans, c, e)
  <2>1. CASE c \in DOMAIN chans /\ q[c] = chans[c]
    BY <2>1 DEF Acks, Requests
  <2>2. CASE ~(c \in DOMAIN chans /\ q[c] = chans[c])
    <3>1. /\ c \in DOMAIN t.out
          /\ ~Acks(chans, c) /\ OneAck(t.out[c]) => OneAck(q[c])
          /\ \A e : HasRequest(q[c], e) => Requests(chans, c, e) \/ HasRequest(t.out[c], e)
      BY <2>2, SendsIs
    <3>2. c = y
      BY <1>2, <3>1
    <3> QED  BY <1>3, <3>1, <3>2
  <2> QED  BY <2>1, <2>2
<1> QED  BY <1>4 DEF Granted, Acks, Requests, y

-----------------------------------------------------------------------------
\* Elections of the whole cluster: nd is the memory of the nodes N, dk their files, q the network,
\* h the history.

\* The note that a voted for m in epoch e.
Vote(a, e, m) == <<a, "vote", e, m>>
\* Those who voted for n in epoch e.
VotesOf(N, h, e, n) == {v \in N : Vote(v, e, n) \in h}

\* A node votes once in an epoch, and not in one before the last it voted in.
NoDouble(h) == \A a, e, m, o : Vote(a, e, m) \in h /\ Vote(a, e, o) \in h => m = o
\* A running node has voted in no epoch after its lastVoteEpoch.
Upto(N, nd, h) == \A a \in N : \A e, m : Vote(a, e, m) \in h /\ nd[a].up => e <= nd[a].lastVoteEpoch
\* lastVoteEpoch is never ahead of currentEpoch, in memory or on disk.
Epochs(N, nd, dk) ==
    \A n \in N : nd[n].lastVoteEpoch <= nd[n].currentEpoch /\ dk[n].lastVoteEpoch <= dk[n].currentEpoch

\* The requests in flight are those of the sender's attempt, the votes in flight answer the
\* attempt of the node they go to.
Canvass(s) == s.auth_sent /\ s.auth # "retry"
\* A request in flight is of the election its sender is in.
Asking(nd, q) == \A c, e : Requests(q, c, e) => Canvass(nd[c[1]]) /\ e = nd[c[1]].auth_epoch
\* A vote in flight is for the election its receiver is in, was noted, and is the only one
\* on its channel.
Answered(nd, q, h) ==
    \A c : Acks(q, c) => /\ Canvass(nd[c[2]]) /\ c = Way(c[1], c[2])
                         /\ Vote(c[1], nd[c[2]].auth_epoch, c[2]) \in h /\ OneAck(q[c])

\* The votes that node n counted are those of different nodes, whose vote is no more in flight.
Backed(N, q, h, s, n, C) ==
    /\ C \subseteq VotesOf(N, h, s.auth_epoch, n) /\ Cardinality(C) = s.auth_count
    /\ \A v \in C : ~Acks(q, Way(v, n))
\* The votes a slave counted are of voters whose vote is not in flight any more.
Tallied(N, q, h, s, n) == (~s.auth_sent => s.auth_count = 0) /\ \E C : Backed(N, q, h, s, n, C)

\* That holds of every node.
AllTallied(N, q, h, nd) == \A n \in N : Tallied(N, q, h, nd[n], n)

\* Who won did so with a majority.
Majorities(N, S, h) ==
    \A n, e : <<n, "won", e>> \in h => Cardinality(VotesOf(N, h, e, n)) >= Cardinality(S) \div 2 + 1

\* The invariant of elections.
EInv(N, S, nd, dk, q, h) ==
    /\ NoDouble(h) /\ Upto(N, nd, h) /\ Epochs(N, nd, dk)
    /\ Asking(nd, q) /\ Answered(nd, q, h) /\ AllTallied(N, q, h, nd) /\ Majorities(N, S, h)

\* Only node n changes.
OnlyAt(N, nd, md, n) == \A x \in N : x # n => md[x] = nd[x]

\* Its attempt goes on, or none of its requests and no vote for it is in flight.
SameRace(s, t) == (Canvass(s) => Canvass(t)) /\ t.auth_epoch = s.auth_epoch
\* No request of n and no vote for n is in flight.
NoVotes(q, n) == \A c : (c[1] = n => \A e : ~Requests(q, c, e)) /\ (c[2] = n => ~Acks(q, c))

\* With no packet of an election added, what is in flight stays about the elections that
\* run.
LEMMA RacesKept ==
    ASSUME NEW N, NEW nd, NEW md, NEW q, NEW r, NEW h, NEW k, NEW n, Asking(nd, q), Answered(nd, q, h),
           Fewer(r, q), h \subseteq k, OnlyAt(N, nd, md, n), DOMAIN q \subseteq Chans(N),
           SameRace(nd[n], md[n]) \/ NoVotes(r, n)
    PROVE  Asking(md, r) /\ Answered(md, r, k)
<1>1. ASSUME NEW c, NEW e, Requests(r, c, e)  PROVE Canvass(md[c[1]]) /\ e = md[c[1]].auth_epoch
  <2>1. Requests(q, c, e)
    BY <1>1 DEF Fewer
  <2>2. c[1] \in N /\ Canvass(nd[c[1]]) /\ e = nd[c[1]].auth_epoch
    BY <2>1 DEF Requests, Chans, Asking
  <2>3. CASE c[1] # n
    BY <2>2, <2>3 DEF OnlyAt
  <2>4. CASE c[1] = n
    BY <1>1, <2>2, <2>4 DEF SameRace, NoVotes
  <2> QED  BY <2>3, <2>4
<1>2. ASSUME NEW c, Acks(r, c)
      PROVE  /\ Canvass(md[c[2]]) /\ c = Way(c[1], c[2])
             /\ Vote(c[1], md[c[2]].auth_epoch, c[2]) \in k /\ OneAck(r[c])
  <2>1. Acks(q, c) /\ (OneAck(q[c]) => OneAck(r[c]))
    BY <1>2 DEF Fewer
  <2>2. /\ c[2] \in N /\ Canvass(nd[c[2]]) /\ c = Way(c[1], c[2])
        /\ Vote(c[1], nd[c[2]].auth_epoch, c[2]) \in h /\ OneAck(q[c])
    BY <2>1 DEF Acks, Chans, Answered
  <2>3. CASE c[2] # n
    BY <2>1, <2>2, <2>3 DEF OnlyAt
  <2>4. CASE c[2] = n
    BY <1>2, <2>1, <2>2, <2>4 DEF SameRace, NoVotes
  <2> QED  BY <2>3, <2>4
<1> QED  BY <1>1, <1>2 DEF Asking, Answered

\* The votes of an attempt stay counted.
LEMMA MoreVotes ==
    ASSUME NEW N, NEW h, NEW k, h \subseteq k, NEW e, NEW n
    PROVE  VotesOf(N, h, e, n) \subseteq VotesOf(N, k, e, n) /\ VotesOf(N, k, e, n) \subseteq N
BY DEF VotesOf

\* The count stays.
SameTally(s, t) == t.auth_sent = s.auth_sent /\ t.auth_epoch = s.auth_epoch /\ t.auth_count = s.auth_count
\* Then it stays backed by votes as votes leave the channels.
LEMMA TallyKept ==
    ASSUME NEW N, NEW q, NEW r, NEW h, NEW k, NEW s, NEW t, NEW n, Tallied(N, q, h, s, n), SameTally(s, t),
           \A c : Acks(r, c) => Acks(q, c), h \subseteq k
    PROVE  Tallied(N, r, k, t, n)
<1>1. PICK C : Backed(N, q, h, s, n, C)
  BY DEF Tallied
<1>2. Backed(N, r, k, t, n, C)
  BY <1>1, MoreVotes DEF Backed, SameTally
<1> QED  BY <1>2 DEF Tallied, SameTally

\* An attempt starts afresh.
LEMMA TallyReset ==
    ASSUME NEW N, NEW r, NEW k, NEW t, NEW n, t.auth_count = 0
    PROVE  Tallied(N, r, k, t, n)
<1>1. Backed(N, r, k, t, n, {})
  BY FS_EmptySet DEF Backed
<1> QED  BY <1>1 DEF Tallied

\* A vote is counted.
LEMMA TallyCounts ==
    ASSUME NEW N, IsFiniteSet(N), NEW q, NEW r, NEW h, NEW k, NEW s, NEW t, NEW n, Tallied(N, q, h, s, n),
           \A c : Acks(r, c) => Acks(q, c), h \subseteq k,
           NEW v \in N, Acks(q, Way(v, n)), ~Acks(r, Way(v, n)), Vote(v, s.auth_epoch, n) \in h,
           s.auth_sent, t.auth_sent = s.auth_sent, t.auth_epoch = s.auth_epoch, t.auth_count = s.auth_count + 1
    PROVE  Tallied(N, r, k, t, n)
<1>1. PICK C : Backed(N, q, h, s, n, C)
  BY DEF Tallied
<1> DEFINE D == C \cup {v}
           A == VotesOf(N, h, s.auth_epoch, n)
           B == VotesOf(N, k, s.auth_epoch, n)
<1>2. v \notin C /\ C \subseteq A /\ Cardinality(C) = s.auth_count
  BY <1>1 DEF Backed
<1>3. A \subseteq B /\ A \subseteq N /\ v \in A
  BY MoreVotes DEF VotesOf
<1> HIDE DEF A, B
<1>4. IsFiniteSet(C)
  BY <1>2, <1>3, FS_Subset
<1>5. Cardinality(D) = Cardinality(C) + 1
  BY <1>2, <1>4, FS_AddElement
<1>6. D \subseteq B
  BY <1>2, <1>3
<1>7. \A w \in D : ~Acks(r, Way(w, n))
  BY <1>1 DEF Backed
<1> HIDE DEF D
<1>8. Backed(N, r, k, t, n, D)
  BY <1>2, <1>5, <1>6, <1>7 DEF Backed, B
<1> QED  BY <1>8 DEF Tallied

\* A winner has a majority.
LEMMA MajoritiesKept ==
    ASSUME NEW N, NEW S, IsFiniteSet(N), IsFiniteSet(S), NEW h, NEW k, h \subseteq k, Majorities(N, S, h),
           \A n, e : <<n, "won", e>> \in k => \/ <<n, "won", e>> \in h
                                              \/ Cardinality(VotesOf(N, k, e, n)) >= Cardinality(S) \div 2 + 1
    PROVE  Majorities(N, S, k)
<1> SUFFICES ASSUME NEW n, NEW e, <<n, "won", e>> \in h
             PROVE  Cardinality(VotesOf(N, k, e, n)) >= Cardinality(S) \div 2 + 1
  BY DEF Majorities
<1> DEFINE A == VotesOf(N, h, e, n)
           B == VotesOf(N, k, e, n)
           c == Cardinality(S) \div 2 + 1
<1>1. A \subseteq B /\ B \subseteq N
  BY MoreVotes
<1>2. Cardinality(A) >= c
  BY DEF Majorities
<1>3. Cardinality(S) \in Nat
  BY FS_CardinalityType
<1>4. c \in Nat
  BY <1>3
<1> HIDE DEF A, B, c
<1>5. IsFiniteSet(B)
  BY <1>1, FS_Subset
<1>6. IsFiniteSet(A) /\ Cardinality(A) <= Cardinality(B)
  BY <1>1, <1>5, FS_Subset
<1>7. Cardinality(A) \in Nat /\ Cardinality(B) \in Nat
  BY <1>5, <1>6, FS_CardinalityType
<1>8. Cardinality(B) >= c
  BY <1>2, <1>4, <1>6, <1>7
<1> QED  BY <1>8 DEF B, c

\* A count that reaches the quorum is backed by so many votes.
LEMMA TalliedMajority ==
    ASSUME NEW N, NEW S, IsFiniteSet(N), IsFiniteSet(S), NEW q, NEW h, NEW s, NEW n, Tallied(N, q, h, s, n),
           s.auth_count >= Cardinality(S) \div 2 + 1
    PROVE  Cardinality(VotesOf(N, h, s.auth_epoch, n)) >= Cardinality(S) \div 2 + 1
<1>1. PICK C : Backed(N, q, h, s, n, C)
  BY DEF Tallied
<1> DEFINE B == VotesOf(N, h, s.auth_epoch, n)
           c == Cardinality(S) \div 2 + 1
<1>2. C \subseteq B /\ B \subseteq N /\ Cardinality(C) = s.auth_count
  BY <1>1 DEF Backed, VotesOf
<1>3. Cardinality(S) \in Nat
  BY FS_CardinalityType
<1>4. c \in Nat
  BY <1>3
<1>9. Cardinality(C) >= c
  BY <1>2
<1> HIDE DEF B, c
<1>5. IsFiniteSet(B)
  BY <1>2, FS_Subset
<1>6. IsFiniteSet(C) /\ Cardinality(C) <= Cardinality(B)
  BY <1>2, <1>5, FS_Subset
<1>7. Cardinality(C) \in Nat /\ Cardinality(B) \in Nat
  BY <1>5, <1>6, FS_CardinalityType
<1>8. Cardinality(B) >= c
  BY <1>4, <1>6, <1>7, <1>9
<1> QED  BY <1>8 DEF B, c

\* What elections see of a turn.
NodeOf(t, k) ==
    /\ k.up /\ k.auth = t.auth /\ k.auth_sent = t.auth_sent /\ k.auth_epoch = t.auth_epoch /\ k.auth_count = t.auth_count
    /\ k.lastVoteEpoch = t.lastVoteEpoch /\ k.currentEpoch = t.currentEpoch
\* What elections see of an event of a running node.
Turned(n, t, chans) ==
    /\ n \in Nodes /\ OK(t, n) /\ OnlyAt(Nodes, node, node', n) /\ NodeOf(t, node'[n])
    /\ \A x \in Nodes : \/ disk'[x] = disk[x]
                        \/ x = n /\ disk'[x].lastVoteEpoch = t.lastVoteEpoch /\ disk'[x].currentEpoch = t.currentEpoch
    /\ hist' = hist \cup t.log /\ hist \subseteq hist'
    /\ NetOK(Nodes, Slots, chans) /\ Fewer(chans, net) /\ Sends(net', chans, t.out)
\* Every such event is seen so.
LEMMA DoesTurned ==
    ASSUME TInv, NEW n, NEW t, NEW chans, Does(n, t, chans)
    PROVE  Turned(n, t, chans)
<1> DEFINE k == Kept(t)
           d == Saved(t)
<1>0. n \in Nodes /\ node[n].up /\ OK(t, n) /\ t.up = node[n].up /\ Acts(n, t, chans) /\ Less(chans, net)
  BY DEF Does
<1>1. k = Kept(t)
  OBVIOUS
<1>2. d = Saved(t)
  OBVIOUS
<1>3. /\ node' = [node EXCEPT ![n] = k] /\ (disk' = disk \/ disk' = [disk EXCEPT ![n] = d]) /\ hist' = hist \cup t.log
      /\ net' = Deliver(chans, t)
  BY <1>0 DEF Acts
<1> HIDE DEF k, d
<1>4. /\ k.up = t.up /\ k.auth = t.auth /\ k.auth_sent = t.auth_sent /\ k.auth_epoch = t.auth_epoch
      /\ k.auth_count = t.auth_count /\ k.lastVoteEpoch = t.lastVoteEpoch /\ k.currentEpoch = t.currentEpoch
  BY <1>0, <1>1, KeptIs
<1>5. d.lastVoteEpoch = t.lastVoteEpoch /\ d.currentEpoch = t.currentEpoch
  BY <1>0, <1>2, SavedIs
<1>6. node \in [Nodes -> NodeState(Nodes, Slots)] /\ disk \in [Nodes -> DiskRecord(Nodes, Slots)] /\ NetOK(Nodes, Slots, net)
  BY DEF TInv, NodesOK, DisksOK
<1>7. node'[n] = k /\ OnlyAt(Nodes, node, node', n)
  BY <1>0, <1>3, <1>6 DEF OnlyAt
<1>8. NodeOf(t, node'[n])
  BY <1>0, <1>4, <1>7 DEF NodeOf
<1>9. \A x \in Nodes : \/ disk'[x] = disk[x]
                       \/ x = n /\ disk'[x].lastVoteEpoch = t.lastVoteEpoch /\ disk'[x].currentEpoch = t.currentEpoch
  BY <1>0, <1>3, <1>5, <1>6
<1>10. NetOK(Nodes, Slots, chans)
  BY <1>0, <1>6, LessOK
<1>11. Fewer(chans, net)
  BY <1>0, <1>6, LessFewer
<1>12. Sends(net', chans, t.out)
  <2> DEFINE q == Deliver(chans, t)
  <2>1. Sends(q, chans, t.out)
    BY <1>0, <1>10, DeliverIs
  <2> QED  BY <1>3, <2>1
<1> QED  BY <1>0, <1>3, <1>7, <1>8, <1>9, <1>10, <1>11, <1>12 DEF Turned

\* A history without a new vote.
NoVote(log) == \A x \in log : x[2] # "vote"
\* k holds no vote that h does not.
SameVotes(h, k) == \A a, e, m : Vote(a, e, m) \in k => Vote(a, e, m) \in h
\* Noting something else adds no vote.
LEMMA NoVoteSame == ASSUME NEW h, NEW log, NoVote(log)  PROVE SameVotes(h, h \cup log)
<1>1. \A a, e, m : Vote(a, e, m)[2] = "vote"
  BY DEF Vote
<1> QED  BY <1>1 DEF SameVotes, NoVote

\* A vote in the history has its types.
LEMMA CastIs ==
    ASSUME NEW N, NEW h, HistOK(N, h), NEW a, NEW e, NEW m, Vote(a, e, m) \in h
    PROVE  a \in N /\ e \in Nat /\ m \in N
<1> DEFINE x == <<a, "vote", e, m>>
<1>1. x \in Notes(N)
  BY DEF HistOK, Vote
<1>2. x[1] = a /\ x[2] = "vote" /\ x[3] = e /\ x[4] = m
  OBVIOUS
<1> HIDE DEF x
<1>3. x \in N \X {"vote"} \X Nat \X N
  BY <1>1, <1>2 DEF Notes
<1>4. x[1] \in N /\ x[3] \in Nat /\ x[4] \in N
  BY <1>3
<1>5. a = x[1] /\ e = x[3] /\ m = x[4]
  BY DEF x
<1> QED  BY <1>4, <1>5

\* Turns without a vote.
LEMMA VotesRest ==
    ASSUME TInv, NEW n, NEW t, NEW chans, Turned(n, t, chans), EInv(Nodes, Slots, node, disk, net, hist),
           NoVote(t.log), t.lastVoteEpoch = node[n].lastVoteEpoch, t.currentEpoch >= node[n].currentEpoch, node[n].up
    PROVE  NoDouble(hist') /\ Upto(Nodes, node', hist') /\ Epochs(Nodes, node', disk')
<1>1. SameVotes(hist, hist')
  BY NoVoteSame DEF Turned
<1>2. NoDouble(hist')
  BY <1>1 DEF EInv, NoDouble, SameVotes
<1>3. n \in Nodes /\ OnlyAt(Nodes, node, node', n) /\ NodeOf(t, node'[n])
  BY DEF Turned
<1>4. Upto(Nodes, node', hist')
  <2> SUFFICES ASSUME NEW a \in Nodes, NEW e, NEW m, Vote(a, e, m) \in hist', node'[a].up
               PROVE  e <= node'[a].lastVoteEpoch
    BY DEF Upto
  <2>1. Vote(a, e, m) \in hist
    BY <1>1 DEF SameVotes
  <2>2. CASE a # n
    BY <1>3, <2>1, <2>2 DEF OnlyAt, EInv, Upto
  <2>3. CASE a = n
    BY <1>3, <2>1, <2>3 DEF NodeOf, EInv, Upto
  <2> QED  BY <2>2, <2>3
<1>5. node[n].lastVoteEpoch \in Nat /\ node[n].currentEpoch \in Nat /\ t.lastVoteEpoch \in Nat /\ t.currentEpoch \in Nat
  BY <1>3, NodeIs, OKFields DEF Turned
<1>6. t.lastVoteEpoch <= t.currentEpoch
  BY <1>3, <1>5 DEF EInv, Epochs
<1>7. Epochs(Nodes, node', disk')
  BY <1>3, <1>6 DEF EInv, Epochs, NodeOf, OnlyAt, Turned
<1> QED  BY <1>2, <1>4, <1>7

\* A vote.
LEMMA VotesGrant ==
    ASSUME TInv, NEW n, NEW t, NEW chans, Turned(n, t, chans), EInv(Nodes, Slots, node, disk, net, hist),
           NEW m, NEW e \in Nat, Grants(node[n], t, n, m, e), node[n].up
    PROVE  /\ NoDouble(hist') /\ Upto(Nodes, node', hist') /\ Epochs(Nodes, node', disk')
           /\ e > node[n].lastVoteEpoch /\ hist' = hist \cup {Vote(n, e, m)}
<1>3. n \in Nodes /\ OnlyAt(Nodes, node, node', n) /\ NodeOf(t, node'[n])
  BY DEF Turned
<1>5. node[n].lastVoteEpoch \in Nat /\ node[n].currentEpoch \in Nat /\ t.lastVoteEpoch \in Nat /\ t.currentEpoch \in Nat
  BY <1>3, NodeIs, OKFields DEF Turned
<1>6. e >= node[n].currentEpoch /\ e # node[n].lastVoteEpoch /\ t.lastVoteEpoch = e /\ t.currentEpoch >= e
  BY DEF Grants
<1>7. node[n].lastVoteEpoch <= node[n].currentEpoch
  BY <1>3 DEF EInv, Epochs
<1>8. e > node[n].lastVoteEpoch
  BY <1>5, <1>6, <1>7
<1>9. hist' = hist \cup {Vote(n, e, m)}
  BY DEF Turned, Grants, Vote
<1>10. \A f, o : Vote(n, f, o) \in hist => f \in Nat /\ f <= node[n].lastVoteEpoch
  <2> SUFFICES ASSUME NEW f, NEW o, Vote(n, f, o) \in hist  PROVE f \in Nat /\ f <= node[n].lastVoteEpoch
    OBVIOUS
  <2>1. HistOK(Nodes, hist) /\ Upto(Nodes, node, hist)
    BY DEF TInv, EInv
  <2>2. f \in Nat
    BY <2>1, CastIs
  <2>3. f <= node[n].lastVoteEpoch
    BY <1>3, <2>1 DEF Upto
  <2> QED  BY <2>2, <2>3
<1>11. \A a, f, o : Vote(a, f, o) = Vote(n, e, m) => a = n /\ f = e /\ o = m
  BY DEF Vote
<1>12. \A f, o : Vote(n, f, o) \in hist => f # e
  BY <1>5, <1>8, <1>10
<1>2. NoDouble(hist')
  <2> SUFFICES ASSUME NEW a, NEW f, NEW o, NEW p, Vote(a, f, o) \in hist', Vote(a, f, p) \in hist'
               PROVE  o = p
    BY DEF NoDouble
  <2>1. Vote(a, f, o) \in hist /\ Vote(a, f, p) \in hist => o = p
    BY DEF EInv, NoDouble
  <2>2. Vote(a, f, o) \in hist \/ (a = n /\ f = e /\ o = m)
    BY <1>9, <1>11
  <2>3. Vote(a, f, p) \in hist \/ (a = n /\ f = e /\ p = m)
    BY <1>9, <1>11
  <2> QED  BY <1>12, <2>1, <2>2, <2>3
<1>4. Upto(Nodes, node', hist')
  <2> SUFFICES ASSUME NEW a \in Nodes, NEW f, NEW o, Vote(a, f, o) \in hist', node'[a].up
               PROVE  f <= node'[a].lastVoteEpoch
    BY DEF Upto
  <2>1. Vote(a, f, o) \in hist \/ (a = n /\ f = e)
    BY <1>9, <1>11
  <2>2. CASE a # n
    BY <1>3, <2>1, <2>2 DEF OnlyAt, EInv, Upto
  <2>3. CASE a = n
    <3>1. node'[n].lastVoteEpoch = e
      BY <1>3, <1>6 DEF NodeOf
    <3>2. f = e \/ (f \in Nat /\ f <= node[n].lastVoteEpoch)
      BY <1>10, <2>1, <2>3
    <3> QED  BY <1>5, <1>8, <2>3, <3>1, <3>2
  <2> QED  BY <2>2, <2>3
<1>13. t.lastVoteEpoch <= t.currentEpoch
  BY <1>5, <1>6
<1>14. Epochs(Nodes, node', disk')
  BY <1>3, <1>13 DEF EInv, Epochs, NodeOf, OnlyAt, Turned
<1> QED  BY <1>2, <1>4, <1>8, <1>9, <1>14

\* The quorum of every slave that runs is a majority of the masters of all slots.
SlavesFull == \A n \in Nodes : node[n].up /\ IsSlave(node[n], n) => Full(node[n])

\* A slave that wins has the votes of a majority behind it.
LEMMA WinsMajority ==
    ASSUME TInv, NEW n, NEW t, NEW chans, Turned(n, t, chans), EInv(Nodes, Slots, node, disk, net, hist),
           SlavesFull, node[n].up, t.auth_epoch = node[n].auth_epoch,
           Tallied(Nodes, net', hist', node'[n], n), NoVote(t.log),
           \A x, e : <<x, "won", e>> \in t.log => Elected(node[n], t, n)
    PROVE  Majorities(Nodes, Slots, hist')
<1> DEFINE h == hist'
           s == node'[n]
           q == net'
           c == Cardinality(Slots) \div 2 + 1
           z == node[n].size \div 2 + 1
<1>1. IsFiniteSet(Nodes) /\ IsFiniteSet(Slots) /\ n \in Nodes /\ hist \subseteq h /\ h = hist \cup t.log
  BY Setting DEF TInv, Turned
<1>2. s.auth_count = t.auth_count /\ s.auth_epoch = node[n].auth_epoch
  BY DEF Turned, NodeOf
<1>3. ASSUME NEW x, NEW e, <<x, "won", e>> \in t.log
      PROVE  Cardinality(VotesOf(Nodes, h, e, x)) >= c
  <2>1. Elected(node[n], t, n)
    BY <1>3
  <2>2. t.log = {<<n, "won", node[n].auth_epoch>>} /\ IsSlave(node[n], n) /\ t.auth_count >= z
    BY <2>1 DEF Elected
  <2>3. x = n /\ e = s.auth_epoch
    BY <1>2, <1>3, <2>2
  <2>4. z >= c
    BY <1>1, <2>2 DEF SlavesFull, Full
  <2>5. c \in Nat /\ z \in Nat /\ t.auth_count \in Nat
    <3>1. Cardinality(Slots) \in Nat
      BY <1>1, FS_CardinalityType
    <3>2. node[n].size \in Nat /\ t.auth_count \in Nat
      BY <1>1, NodeIs, OKFields DEF Turned
    <3> QED  BY <3>1, <3>2
  <2>6. s.auth_count >= c
    <3> HIDE DEF c, z, s
    <3> QED  BY <1>2, <2>2, <2>4, <2>5
  <2>7. Tallied(Nodes, q, h, s, n)
    OBVIOUS
  <2>8. Cardinality(VotesOf(Nodes, h, s.auth_epoch, n)) >= Cardinality(Slots) \div 2 + 1
    <3> HIDE DEF q, h, s
    <3> QED  BY <1>1, <2>6, <2>7, TalliedMajority
  <2> QED  BY <2>3, <2>8
<1>4. Majorities(Nodes, Slots, hist)
  BY DEF EInv
<1> HIDE DEF h, s, q
<1>5. \A x, e : <<x, "won", e>> \in h => \/ <<x, "won", e>> \in hist
                                         \/ Cardinality(VotesOf(Nodes, h, e, x)) >= Cardinality(Slots) \div 2 + 1
  BY <1>1, <1>3
<1>6. Majorities(Nodes, Slots, h)
  BY <1>1, <1>4, <1>5, MajoritiesKept
<1> QED  BY <1>6 DEF h

\* The attempts of the nodes that do not act.
OtherTallies(N, r, k, md, n) == \A x \in N : x # n => Tallied(N, r, k, md[x], x)
\* The counts of the other nodes stay backed.
LEMMA OthersTally ==
    ASSUME NEW N, NEW nd, NEW md, NEW q, NEW r, NEW h, NEW k, NEW n, AllTallied(N, q, h, nd),
           OnlyAt(N, nd, md, n), Fewer(r, q), h \subseteq k
    PROVE  OtherTallies(N, r, k, md, n)
<1> SUFFICES ASSUME NEW x \in N, x # n  PROVE Tallied(N, r, k, md[x], x)
  BY DEF OtherTallies
<1> DEFINE s == nd[x]
           t == md[x]
<1>1. Tallied(N, q, h, s, x) /\ t = s
  BY DEF OnlyAt, AllTallied
<1>4. \A c : Acks(r, c) => Acks(q, c)
  BY DEF Fewer
<1>2. SameTally(s, t)
  BY <1>1 DEF SameTally
<1> HIDE DEF s, t
<1>3. Tallied(N, r, k, t, x)
  BY <1>1, <1>2, <1>4, TallyKept
<1> QED  BY <1>3 DEF t

\* The node that acts has or has not requests and votes in flight.
LEMMA IdleNoVotes ==
    ASSUME NEW nd, NEW q, NEW h, NEW n, Asking(nd, q), Answered(nd, q, h), ~Canvass(nd[n]), NEW r, Fewer(r, q)
    PROVE  NoVotes(r, n)
BY DEF Asking, Answered, NoVotes, Fewer

\* Turns that send no votes and no requests.
Peaceful(n, t, chans) ==
    /\ Turned(n, t, chans) /\ node[n].up /\ Plain(t.out) /\ NoVote(t.log)
    /\ t.lastVoteEpoch = node[n].lastVoteEpoch /\ t.currentEpoch >= node[n].currentEpoch
    /\ t.auth_epoch = node[n].auth_epoch
    /\ SameRace(node[n], node'[n]) \/ ~Canvass(node[n])
    /\ \A x, e : <<x, "won", e>> \in t.log => Elected(node[n], t, n)
\* Then no packet of an election is added to those in flight.
LEMMA PeacefulFewer == ASSUME NEW n, NEW t, NEW chans, Peaceful(n, t, chans)  PROVE Fewer(net', net)
<1> DEFINE q == net'
<1>1. /\ OK(t, n) /\ NetOK(Nodes, Slots, chans) /\ Sends(q, chans, t.out) /\ Plain(t.out) /\ Fewer(chans, net)
  BY DEF Peaceful, Turned
<1> HIDE DEF q
<1>2. Fewer(q, chans)
  BY <1>1, PlainFewer
<1>3. Fewer(q, net)
  BY <1>1, <1>2, FewerTrans
<1> QED  BY <1>3 DEF q

\* An event that sends no request and no vote keeps the invariant, when the count of its
\* own node stays backed.
LEMMA PeacefulElects ==
    ASSUME TInv, SlavesFull, EInv(Nodes, Slots, node, disk, net, hist), NEW n, NEW t, NEW chans, Peaceful(n, t, chans),
           Tallied(Nodes, net', hist', node'[n], n)
    PROVE  EInv(Nodes, Slots, node', disk', net', hist')
<1> DEFINE q == net'
           h == hist'
           md == node'
<1>1. /\ Turned(n, t, chans) /\ node[n].up /\ NoVote(t.log) /\ hist \subseteq h /\ OnlyAt(Nodes, node, md, n)
      /\ SameRace(node[n], md[n]) \/ ~Canvass(node[n])
  BY DEF Peaceful, Turned
<1>2. NoDouble(h) /\ Upto(Nodes, md, h) /\ Epochs(Nodes, md, disk')
  BY <1>1, VotesRest DEF Peaceful
<1>3. Fewer(q, net)
  BY PeacefulFewer
<1>4. Majorities(Nodes, Slots, h)
  BY <1>1, WinsMajority DEF Peaceful
<1>5. Asking(node, net) /\ Answered(node, net, hist) /\ AllTallied(Nodes, net, hist, node)
  BY DEF EInv
<1>6. DOMAIN net \subseteq Chans(Nodes)
  BY DEF TInv, NetOK
<1>7. Tallied(Nodes, q, h, md[n], n)
  OBVIOUS
<1> HIDE DEF q, h, md
<1>9. OtherTallies(Nodes, q, h, md, n)
  <2>1. AllTallied(Nodes, net, hist, node)
    BY <1>5
  <2>2. OnlyAt(Nodes, node, md, n)
    BY <1>1
  <2>3. hist \subseteq h
    BY <1>1
  <2> QED  BY <1>3, <2>1, <2>2, <2>3, OthersTally
<1>10. SameRace(node[n], md[n]) \/ NoVotes(q, n)
  BY <1>1, <1>3, <1>5, IdleNoVotes
<1>11. Asking(md, q) /\ Answered(md, q, h)
  BY <1>1, <1>3, <1>5, <1>6, <1>10, RacesKept
<1>12. AllTallied(Nodes, q, h, md)
  BY <1>7, <1>9 DEF AllTallied, OtherTallies
<1> QED  BY <1>2, <1>4, <1>11, <1>12 DEF EInv, q, h, md

\* A turn that leaves the attempt alone.
LEMMA QuietElects ==
    ASSUME TInv, SlavesFull, EInv(Nodes, Slots, node, disk, net, hist), NEW n, NEW t, NEW chans, Turned(n, t, chans),
           node[n].up, Quiet(node[n], t),
           t.log = {} \/ (\E m \in Nodes : t.log = {<<n, "suspect", m>>}) \/ Elected(node[n], t, n)
    PROVE  EInv(Nodes, Slots, node', disk', net', hist')
<1>1. NoVote(t.log) /\ \A x, e : <<x, "won", e>> \in t.log => Elected(node[n], t, n)
  <2>1. CASE t.log = {}
    BY <2>1 DEF NoVote
  <2>2. ASSUME NEW m \in Nodes, t.log = {<<n, "suspect", m>>}
        PROVE  NoVote(t.log) /\ \A x, e : <<x, "won", e>> \in t.log => Elected(node[n], t, n)
    <3>1. \A y \in t.log : y[2] = "suspect"
      BY <2>2
    <3>2. \A x, e : <<x, "won", e>>[2] # "suspect"
      OBVIOUS
    <3> QED  BY <3>1, <3>2 DEF NoVote
  <2>3. CASE Elected(node[n], t, n)
    BY <2>3 DEF Elected, NoVote
  <2> QED  BY <2>1, <2>2, <2>3
<1> DEFINE q == net'
           h == hist'
           b == node[n]
           s == node'[n]
<1>2. NodeOf(t, s) /\ n \in Nodes /\ hist \subseteq h
  BY DEF Turned
<1>3. SameRace(b, s) /\ SameTally(b, s)
  BY <1>2 DEF NodeOf, Quiet, Rests, SameRace, SameTally, Canvass
<1>4. Peaceful(n, t, chans)
  BY <1>1, <1>3 DEF Peaceful, Quiet, Rests
<1>5. Fewer(q, net)
  BY <1>4, PeacefulFewer
<1>6. Tallied(Nodes, net, hist, b, n)
  BY <1>2 DEF EInv, AllTallied
<1> HIDE DEF q, h, b, s
<1>7. \A c : Acks(q, c) => Acks(net, c)
  BY <1>5 DEF Fewer
<1>8. Tallied(Nodes, q, h, s, n)
  BY <1>2, <1>3, <1>6, <1>7, TallyKept
<1> QED  BY <1>4, <1>8, PeacefulElects DEF q, h, s

\* An attempt is scheduled.
LEMMA SchedulesElects ==
    ASSUME TInv, SlavesFull, EInv(Nodes, Slots, node, disk, net, hist), NEW n, NEW t, NEW chans, Turned(n, t, chans),
           node[n].up, Schedules(node[n], t)
    PROVE  EInv(Nodes, Slots, node', disk', net', hist')
<1> DEFINE q == net'
           h == hist'
           s == node'[n]
<1>1. s.auth_count = 0
  BY DEF Turned, NodeOf, Schedules
<1>2. Peaceful(n, t, chans)
  BY DEF Peaceful, Schedules, NoVote, Canvass
<1> HIDE DEF q, h, s
<1>3. Tallied(Nodes, q, h, s, n)
  BY <1>1, TallyReset
<1> QED  BY <1>2, <1>3, PeacefulElects DEF q, h, s

\* A vote is counted.
LEMMA CountedElects ==
    ASSUME TInv, SlavesFull, EInv(Nodes, Slots, node, disk, net, hist), NEW n, NEW t, NEW chans, Turned(n, t, chans),
           node[n].up, NEW c, Takes(c, chans), c[2] = n, net[c][1].type = "auth_ack", Counted(node[n], t, n)
    PROVE  EInv(Nodes, Slots, node', disk', net', hist')
<1> DEFINE q == net'
           h == hist'
           b == node[n]
           s == node'[n]
           v == c[1]
<1>1. NoVote(t.log) /\ \A x, e : <<x, "won", e>> \in t.log => Elected(node[n], t, n)
  <2>1. CASE t.log = {}
    BY <2>1 DEF NoVote
  <2>2. CASE Elected(node[n], t, n)
    BY <2>2 DEF Elected, NoVote
  <2> QED  BY <2>1, <2>2 DEF Counted
<1>2. NodeOf(t, s) /\ n \in Nodes /\ hist \subseteq h /\ IsFiniteSet(Nodes) /\ NetOK(Nodes, Slots, net)
  BY Setting DEF Turned, TInv
<1>3. SameRace(b, s) /\ s.auth_sent = b.auth_sent /\ s.auth_epoch = b.auth_epoch /\ s.auth_count = b.auth_count + 1
  BY <1>2 DEF NodeOf, Counted, Rests, SameRace, Canvass
<1>4. Peaceful(n, t, chans)
  BY <1>1, <1>3 DEF Peaceful, Counted, Rests
<1>5. Fewer(q, net)
  BY <1>4, PeacefulFewer
<1>6. Tallied(Nodes, net, hist, b, n)
  BY <1>2 DEF EInv, AllTallied
<1>7. Acks(net, c) /\ c \in Chans(Nodes)
  <2> DEFINE w == net[c]
             P == Packets(Nodes, Slots, c[1])
  <2>1. c \in DOMAIN net /\ w \in Seq(P) /\ w # <<>> /\ w[1].type = "auth_ack" /\ c \in Chans(Nodes)
    BY <1>2 DEF Takes, NetOK
  <2> HIDE DEF w, P
  <2>2. 1 \in DOMAIN w
    BY <2>1, TailIs
  <2>3. HasAck(w)
    BY <2>1, <2>2 DEF HasAck
  <2> QED  BY <2>1, <2>3 DEF Acks, w
<1>8. v \in Nodes /\ b.auth_sent /\ c = Way(v, n) /\ Vote(v, b.auth_epoch, n) \in hist /\ OneAck(net[c])
  BY <1>7 DEF EInv, Answered, Canvass, Chans
<1>9. ~Acks(chans, c)
  BY <1>2, <1>8, AckTaken
<1>10. Fewer(q, chans)
  BY <1>4, PlainFewer DEF Peaceful, Turned
<1>11. Acks(net, Way(v, n)) /\ ~Acks(q, Way(v, n))
  BY <1>7, <1>8, <1>9, <1>10 DEF Fewer
<1> HIDE DEF q, h, b, s, v
<1>12. \A x : Acks(q, x) => Acks(net, x)
  BY <1>5 DEF Fewer
<1>13. Tallied(Nodes, q, h, s, n)
  BY <1>2, <1>3, <1>6, <1>8, <1>11, <1>12, TallyCounts
<1> QED  BY <1>4, <1>13, PeacefulElects DEF q, h, s

\* A node asks for votes.
FewerAcks(r, p) == \A c : Acks(r, c) => Acks(p, c)
\* A slave that starts asking when nothing of its last election is in flight.
LEMMA RequestedKept ==
    ASSUME NEW N, NEW nd, NEW md, NEW p, NEW q, NEW r, NEW h, NEW n, NEW e, Asking(nd, p), Answered(nd, p, h),
           Fewer(q, p), Requested(r, q, n, e), OnlyAt(N, nd, md, n), DOMAIN p \subseteq Chans(N),
           ~Canvass(nd[n]), Canvass(md[n]), md[n].auth_epoch = e
    PROVE  Asking(md, r) /\ Answered(md, r, h) /\ FewerAcks(r, p)
<1>1. ASSUME NEW c, NEW f, Requests(r, c, f)  PROVE Canvass(md[c[1]]) /\ f = md[c[1]].auth_epoch
  <2>1. Requests(q, c, f) \/ (c[1] = n /\ f = e)
    BY <1>1 DEF Requested
  <2>2. CASE c[1] = n /\ f = e
    BY <2>2
  <2>3. CASE Requests(q, c, f)
    <3>1. Requests(p, c, f)
      BY <2>3 DEF Fewer
    <3>2. c[1] \in N /\ Canvass(nd[c[1]]) /\ f = nd[c[1]].auth_epoch
      BY <3>1 DEF Requests, Chans, Asking
    <3>3. md[c[1]] = nd[c[1]]
      BY <3>2 DEF OnlyAt
    <3> QED  BY <3>2, <3>3
  <2> QED  BY <2>1, <2>2, <2>3
<1>2. ASSUME NEW c, Acks(r, c)
      PROVE  /\ Canvass(md[c[2]]) /\ c = Way(c[1], c[2]) /\ Acks(p, c)
             /\ Vote(c[1], md[c[2]].auth_epoch, c[2]) \in h /\ OneAck(r[c])
  <2>1. Acks(p, c) /\ (OneAck(p[c]) => OneAck(r[c]))
    BY <1>2 DEF Fewer, Requested
  <2>2. /\ c[2] \in N /\ Canvass(nd[c[2]]) /\ c = Way(c[1], c[2])
        /\ Vote(c[1], nd[c[2]].auth_epoch, c[2]) \in h /\ OneAck(p[c])
    BY <2>1 DEF Acks, Chans, Answered
  <2>3. md[c[2]] = nd[c[2]]
    BY <2>2 DEF OnlyAt
  <2> QED  BY <2>1, <2>2, <2>3
<1> QED  BY <1>1, <1>2 DEF Asking, Answered, FewerAcks

\* Asking for votes keeps the invariant.
LEMMA RunsElects ==
    ASSUME TInv, EInv(Nodes, Slots, node, disk, net, hist), NEW n, NEW t, NEW chans, Turned(n, t, chans),
           node[n].up, Runs(node[n], t)
    PROVE  EInv(Nodes, Slots, node', disk', net', hist')
<1> DEFINE q == net'
           h == hist'
           md == node'
           e == t.auth_epoch
           b == node[n]
<1>1. /\ n \in Nodes /\ OnlyAt(Nodes, node, md, n) /\ Fewer(chans, net) /\ OK(t, n) /\ NetOK(Nodes, Slots, chans)
      /\ Sends(q, chans, t.out) /\ NodeOf(t, md[n])
  BY DEF Turned
<1>2. hist' = hist
  BY DEF Turned, Runs
<1>3. NoDouble(h) /\ Upto(Nodes, md, h) /\ Epochs(Nodes, md, disk')
  <2>1. NoVote(t.log) /\ t.lastVoteEpoch = b.lastVoteEpoch /\ t.currentEpoch >= b.currentEpoch
    BY DEF Runs, NoVote
  <2> QED  BY <2>1, VotesRest
<1>4. Majorities(Nodes, Slots, h)
  BY <1>2 DEF EInv
<1>5. /\ Asking(node, net) /\ Answered(node, net, hist) /\ AllTallied(Nodes, net, hist, node)
      /\ DOMAIN net \subseteq Chans(Nodes)
  BY DEF EInv, TInv, NetOK
<1>6. ~Canvass(node[n]) /\ Canvass(md[n]) /\ md[n].auth_epoch = e
  BY <1>1 DEF Canvass, Runs, NodeOf
<1>7. md[n].auth_count = 0
  BY <1>1, <1>5 DEF Runs, NodeOf, AllTallied, Tallied
<1> HIDE DEF q, md
<1>8. Requested(q, chans, n, e)
  BY <1>1, RunsRequested
<1> HIDE DEF e, h
<1>9. Asking(md, q) /\ Answered(md, q, hist) /\ FewerAcks(q, net)
  <2>1. OnlyAt(Nodes, node, md, n)
    BY <1>1
  <2>2. Fewer(chans, net)
    BY <1>1
  <2>3. DOMAIN net \subseteq Chans(Nodes)
    BY <1>5
  <2>4. Asking(node, net)
    BY <1>5
  <2>5. Answered(node, net, hist)
    BY <1>5
  <2> QED  BY <1>6, <1>8, <2>1, <2>2, <2>3, <2>4, <2>5, RequestedKept
<1>10. AllTallied(Nodes, q, h, md)
  <2> SUFFICES ASSUME NEW x \in Nodes  PROVE Tallied(Nodes, q, h, md[x], x)
    BY DEF AllTallied
  <2> DEFINE s == node[x]
             u == md[x]
  <2>1. CASE x = n
    <3>1. u.auth_count = 0
      BY <1>7, <2>1
    <3> HIDE DEF u
    <3>2. Tallied(Nodes, q, h, u, x)
      BY <3>1, TallyReset
    <3> QED  BY <3>2 DEF u
  <2>2. CASE x # n
    <3>1. Tallied(Nodes, net, hist, s, x) /\ u = s
      BY <1>1, <1>5, <2>2 DEF AllTallied, OnlyAt
    <3>2. SameTally(s, u)
      BY <3>1 DEF SameTally
    <3>3. \A c : Acks(q, c) => Acks(net, c)
      BY <1>9 DEF FewerAcks
    <3>4. hist \subseteq h
      BY <1>2 DEF h
    <3> HIDE DEF s, u
    <3>5. Tallied(Nodes, q, h, u, x)
      BY <3>1, <3>2, <3>3, <3>4, TallyKept
    <3> QED  BY <3>5 DEF u
  <2> QED  BY <2>1, <2>2
<1>11. Asking(md, q) /\ Answered(md, q, h)
  BY <1>2, <1>9 DEF h
<1> QED  BY <1>3, <1>4, <1>10, <1>11 DEF EInv, q, h, md

\* A node votes for m.
LEMMA GrantedKept ==
    ASSUME NEW N, NEW nd, NEW md, NEW p, NEW q, NEW r, NEW h, NEW k, NEW n \in N, NEW m \in N, n # m,
           Asking(nd, p), Answered(nd, p, h), AllTallied(N, p, h, nd), Fewer(q, p), Granted(r, q, n, m),
           OnlyAt(N, nd, md, n), DOMAIN p \subseteq Chans(N), SameRace(nd[n], md[n]), SameTally(nd[n], md[n]),
           Canvass(nd[m]), NEW e, e = nd[m].auth_epoch, k = h \cup {Vote(n, e, m)}, Vote(n, e, m) \notin h
    PROVE  Asking(md, r) /\ Answered(md, r, k) /\ AllTallied(N, r, k, md)
<1> DEFINE y == Way(n, m)
<1>1. y[1] = n /\ y[2] = m /\ y = Way(y[1], y[2]) /\ \A v, x : Way(v, x) = y => v = n /\ x = m
  BY DEF Way
<1> HIDE DEF y
<1>2. ~Acks(p, y)
  BY <1>1 DEF Answered
<1>3. ~Acks(q, y)
  BY <1>2 DEF Fewer
<1>4. ASSUME NEW c, NEW f, Requests(r, c, f)  PROVE Canvass(md[c[1]]) /\ f = md[c[1]].auth_epoch
  <2>1. Requests(p, c, f)
    BY <1>4 DEF Granted, Fewer
  <2>2. c[1] \in N /\ Canvass(nd[c[1]]) /\ f = nd[c[1]].auth_epoch
    BY <2>1 DEF Requests, Chans, Asking
  <2> QED  BY <2>2 DEF OnlyAt, SameRace
<1>5. ASSUME NEW c, Acks(r, c)
      PROVE  /\ Canvass(md[c[2]]) /\ c = Way(c[1], c[2])
             /\ Vote(c[1], md[c[2]].auth_epoch, c[2]) \in k /\ OneAck(r[c])
  <2>1. CASE c = y
    <3>1. OneAck(r[c])
      BY <1>3, <1>5, <2>1 DEF Granted, y
    <3>2. md[m] = nd[m]
      BY DEF OnlyAt
    <3> QED  BY <1>1, <2>1, <3>1, <3>2
  <2>2. CASE c # y
    <3>1. Acks(p, c) /\ (OneAck(p[c]) => OneAck(r[c]))
      BY <1>5, <2>2 DEF Granted, Fewer, y
    <3>2. /\ c[2] \in N /\ Canvass(nd[c[2]]) /\ c = Way(c[1], c[2])
          /\ Vote(c[1], nd[c[2]].auth_epoch, c[2]) \in h /\ OneAck(p[c])
      BY <3>1 DEF Acks, Chans, Answered
    <3>3. Canvass(md[c[2]]) /\ md[c[2]].auth_epoch = nd[c[2]].auth_epoch
      BY <3>2 DEF OnlyAt, SameRace
    <3> QED  BY <3>1, <3>2, <3>3
  <2> QED  BY <2>1, <2>2
<1>6. ASSUME NEW x \in N  PROVE Tallied(N, r, k, md[x], x)
  <2> DEFINE s == nd[x]
             t == md[x]
  <2>1. SameTally(s, t)
    BY DEF OnlyAt, SameTally
  <2>2. Tallied(N, p, h, s, x)
    BY DEF AllTallied
  <2>3. PICK C : Backed(N, p, h, s, x, C)
    BY <2>2 DEF Tallied
  <2>4. \A v \in C : ~Acks(p, Way(v, x)) /\ Vote(v, s.auth_epoch, x) \in h
    BY <2>3 DEF Backed, VotesOf
  <2>5. ASSUME NEW v \in C  PROVE ~Acks(r, Way(v, x))
    <3>1. CASE Way(v, x) = y
      BY <1>1, <2>4, <2>5, <3>1
    <3>2. CASE Way(v, x) # y
      BY <2>4, <2>5, <3>2 DEF Granted, Fewer, y
    <3> QED  BY <3>1, <3>2
  <2>6. t.auth_epoch = s.auth_epoch /\ t.auth_count = s.auth_count /\ t.auth_sent = s.auth_sent
    BY <2>1 DEF SameTally
  <2>7. C \subseteq VotesOf(N, h, s.auth_epoch, x) /\ Cardinality(C) = s.auth_count
    BY <2>3 DEF Backed
  <2>8. VotesOf(N, h, s.auth_epoch, x) \subseteq VotesOf(N, k, s.auth_epoch, x)
    BY DEF VotesOf
  <2> HIDE DEF s, t
  <2>9. Backed(N, r, k, t, x, C)
    BY <2>5, <2>6, <2>7, <2>8 DEF Backed
  <2>10. Tallied(N, r, k, t, x)
    BY <2>2, <2>6, <2>9 DEF Tallied
  <2> QED  BY <2>10 DEF t
<1> QED  BY <1>4, <1>5, <1>6 DEF Asking, Answered, AllTallied

\* A vote keeps it: the voter has not voted in that epoch, nor its answer been counted.
LEMMA GrantsElects ==
    ASSUME TInv, EInv(Nodes, Slots, node, disk, net, hist), NEW n, NEW t, NEW chans, Turned(n, t, chans),
           node[n].up, NEW c, Takes(c, chans), c[2] = n, net[c][1].type = "auth_request",
           Grants(node[n], t, n, c[1], net[c][1].currentEpoch)
    PROVE  EInv(Nodes, Slots, node', disk', net', hist')
<1> DEFINE q == net'
           h == hist'
           md == node'
           m == c[1]
           e == net[c][1].currentEpoch
<1>1. /\ n \in Nodes /\ OnlyAt(Nodes, node, md, n) /\ Fewer(chans, net) /\ OK(t, n) /\ NetOK(Nodes, Slots, chans)
      /\ Sends(q, chans, t.out) /\ NodeOf(t, md[n])
  BY DEF Turned
<1>2. /\ Asking(node, net) /\ Answered(node, net, hist) /\ AllTallied(Nodes, net, hist, node)
      /\ DOMAIN net \subseteq Chans(Nodes)
  BY DEF EInv, TInv, NetOK
<1>3. Requests(net, c, e) /\ c \in Chans(Nodes)
  <2> DEFINE w == net[c]
             P == Packets(Nodes, Slots, c[1])
  <2>1. c \in DOMAIN net /\ w \in Seq(P) /\ w # <<>> /\ w[1].type = "auth_request" /\ e = w[1].currentEpoch /\ c \in Chans(Nodes)
    BY DEF Takes, NetOK, TInv
  <2> HIDE DEF w, P, e
  <2>2. 1 \in DOMAIN w
    BY <2>1, TailIs
  <2>3. HasRequest(w, e)
    BY <2>1, <2>2 DEF HasRequest
  <2> QED  BY <2>1, <2>3 DEF Requests, w
<1>4. m \in Nodes /\ n # m
  BY <1>3 DEF Chans
<1>5. Canvass(node[m]) /\ e = node[m].auth_epoch
  BY <1>2, <1>3 DEF Asking
<1>6. e \in Nat
  BY <1>4, <1>5, NodeIs, OKFields
<1>7. Grants(node[n], t, n, m, e)
  OBVIOUS
<1>16. SameRace(node[n], md[n]) /\ SameTally(node[n], md[n])
  BY <1>1, <1>7 DEF NodeOf, Grants, SameRace, SameTally, Canvass
<1> HIDE DEF m, e
<1>8. /\ NoDouble(h) /\ Upto(Nodes, md, h) /\ Epochs(Nodes, md, disk')
      /\ e > node[n].lastVoteEpoch /\ h = hist \cup {Vote(n, e, m)}
  BY <1>6, <1>7, VotesGrant
<1>9. Vote(n, e, m) \notin hist
  <2>1. Vote(n, e, m) \in hist => e <= node[n].lastVoteEpoch
    BY <1>1 DEF EInv, Upto
  <2>2. node[n].lastVoteEpoch \in Nat
    BY <1>1, NodeIs, OKFields
  <2> QED  BY <1>6, <1>8, <2>1, <2>2
<1>15. Majorities(Nodes, Slots, h)
  <2>1. IsFiniteSet(Nodes) /\ IsFiniteSet(Slots) /\ Majorities(Nodes, Slots, hist) /\ hist \subseteq h
    BY <1>8, Setting DEF TInv, EInv
  <2>2. \A x, f : <<x, "won", f>> \in h => <<x, "won", f>> \in hist
    <3>1. Vote(n, e, m)[2] = "vote" /\ \A x, f : <<x, "won", f>>[2] = "won"
      BY DEF Vote
    <3> QED  BY <1>8, <3>1
  <2> HIDE DEF h
  <2>3. \A x, f : <<x, "won", f>> \in h => \/ <<x, "won", f>> \in hist
                                           \/ Cardinality(VotesOf(Nodes, h, f, x)) >= Cardinality(Slots) \div 2 + 1
    BY <2>2
  <2> QED  BY <2>1, <2>3, MajoritiesKept
<1> HIDE DEF q, h, md
<1>10. Granted(q, chans, n, m)
  BY <1>1, <1>7, GrantsGranted
<1>11. Asking(md, q) /\ Answered(md, q, h) /\ AllTallied(Nodes, q, h, md)
  <2>1. OnlyAt(Nodes, node, md, n) /\ n \in Nodes
    BY <1>1
  <2>2. Fewer(chans, net)
    BY <1>1
  <2>3. DOMAIN net \subseteq Chans(Nodes)
    BY <1>2
  <2>4. Asking(node, net) /\ Answered(node, net, hist)
    BY <1>2
  <2>5. AllTallied(Nodes, net, hist, node)
    BY <1>2
  <2>6. h = hist \cup {Vote(n, e, m)}
    BY <1>8
  <2> QED  BY <1>4, <1>5, <1>9, <1>10, <1>16, <2>1, <2>2, <2>3, <2>4, <2>5, <2>6, GrantedKept
<1>12. NoDouble(h) /\ Upto(Nodes, md, h) /\ Epochs(Nodes, md, disk')
  BY <1>8
<1> QED  BY <1>11, <1>12, <1>15 DEF EInv, q, h, md

\* A turn keeps elections sound.
LEMMA DoesElects ==
    ASSUME TInv, SlavesFull, EInv(Nodes, Slots, node, disk, net, hist), NEW n, NEW t, NEW chans, Does(n, t, chans)
    PROVE  EInv(Nodes, Slots, node', disk', net', hist')
<1>1. Turned(n, t, chans)
  BY DoesTurned
<1>2. node[n].up /\ n \in Nodes /\ Elects(n, node[n], t, chans)
  BY DEF Does
<1>3. CASE /\ Quiet(node[n], t)
           /\ t.log = {} \/ (\E m \in Nodes : t.log = {<<n, "suspect", m>>}) \/ Elected(node[n], t, n)
  BY <1>1, <1>2, <1>3, QuietElects
<1>4. CASE Schedules(node[n], t)
  BY <1>1, <1>2, <1>4, SchedulesElects
<1>5. CASE Runs(node[n], t)
  BY <1>1, <1>2, <1>5, RunsElects
<1>6. ASSUME NEW c, Takes(c, chans), c[2] = n, net[c][1].type = "auth_request",
             Grants(node[n], t, n, c[1], net[c][1].currentEpoch)
      PROVE  EInv(Nodes, Slots, node', disk', net', hist')
  BY <1>1, <1>2, <1>6, GrantsElects
<1>7. ASSUME NEW c, Takes(c, chans), c[2] = n, net[c][1].type = "auth_ack",
             Counted(node[n], t, n) \/ (t.log = {} /\ (node[n].auth = "retry" \/ ~node[n].auth_sent))
      PROVE  EInv(Nodes, Slots, node', disk', net', hist')
  <2>1. Acks(net, c)
    <3> DEFINE w == net[c]
               P == Packets(Nodes, Slots, c[1])
    <3>1. c \in DOMAIN net /\ w \in Seq(P) /\ w # <<>> /\ w[1].type = "auth_ack"
      BY <1>7 DEF Takes, NetOK, TInv
    <3> HIDE DEF w, P
    <3>2. 1 \in DOMAIN w
      BY <3>1, TailIs
    <3>3. HasAck(w)
      BY <3>1, <3>2 DEF HasAck
    <3> QED  BY <3>1, <3>3 DEF Acks, w
  <2>2. Canvass(node[n])
    BY <1>7, <2>1 DEF EInv, Answered
  <2>3. Counted(node[n], t, n)
    BY <1>7, <2>2 DEF Canvass
  <2> QED  BY <1>1, <1>2, <1>7, <2>3, CountedElects
<1> QED  BY <1>2, <1>3, <1>4, <1>5, <1>6, <1>7 DEF Elects

\* Steps that are not turns.
Settles(n, s) ==
    /\ n \in Nodes /\ OnlyAt(Nodes, node, node', n) /\ node'[n] = s /\ disk' = disk /\ hist' = hist
    /\ Fewer(net', net)
    /\ SameRace(node[n], s) \/ NoVotes(net', n)
    /\ SameTally(node[n], s) \/ s.auth_count = 0
    /\ s.lastVoteEpoch <= s.currentEpoch
    /\ s.up => \A e, m : Vote(n, e, m) \in hist => e <= s.lastVoteEpoch
\* A node that changes without any event of its own keeps it.
LEMMA SettlesElects ==
    ASSUME TInv, EInv(Nodes, Slots, node, disk, net, hist), NEW n, NEW s, Settles(n, s)
    PROVE  EInv(Nodes, Slots, node', disk', net', hist')
<1> DEFINE q == net'
           md == node'
           b == node[n]
           h == hist
<1>1. /\ n \in Nodes /\ OnlyAt(Nodes, node, md, n) /\ md[n] = s /\ disk' = disk /\ hist' = h /\ Fewer(q, net)
      /\ SameRace(node[n], md[n]) \/ NoVotes(q, n)
      /\ SameTally(b, s) \/ s.auth_count = 0
  BY DEF Settles
<1>2. /\ Asking(node, net) /\ Answered(node, net, h) /\ AllTallied(Nodes, net, h, node)
      /\ DOMAIN net \subseteq Chans(Nodes) /\ NoDouble(h) /\ Majorities(Nodes, Slots, h)
  BY DEF EInv, TInv, NetOK
<1>3. Upto(Nodes, md, h)
  BY <1>1 DEF EInv, Upto, OnlyAt, Settles
<1>4. Epochs(Nodes, md, disk')
  BY <1>1 DEF EInv, Epochs, OnlyAt, Settles
<1>8. Tallied(Nodes, net, h, b, n)
  BY <1>1, <1>2 DEF AllTallied
<1>13. h \subseteq h
  OBVIOUS
<1> HIDE DEF q, md, b, h
<1>5. Asking(md, q) /\ Answered(md, q, h)
  BY <1>1, <1>2, <1>13, RacesKept
<1>6. OtherTallies(Nodes, q, h, md, n)
  <2>1. AllTallied(Nodes, net, h, node)
    BY <1>2
  <2>2. OnlyAt(Nodes, node, md, n)
    BY <1>1
  <2>3. Fewer(q, net)
    BY <1>1
  <2> QED  BY <1>13, <2>1, <2>2, <2>3, OthersTally
<1>7. Tallied(Nodes, q, h, s, n)
  <2>1. \A c : Acks(q, c) => Acks(net, c)
    BY <1>1 DEF Fewer
  <2>2. CASE SameTally(b, s)
    BY <1>8, <1>13, <2>1, <2>2, TallyKept
  <2>3. CASE s.auth_count = 0
    BY <2>3, TallyReset
  <2> QED  BY <1>1, <2>2, <2>3
<1>9. AllTallied(Nodes, q, h, md)
  BY <1>1, <1>6, <1>7 DEF AllTallied, OtherTallies
<1>10. EInv(Nodes, Slots, md, disk', q, h)
  BY <1>2, <1>3, <1>4, <1>5, <1>9 DEF EInv
<1> QED  BY <1>1, <1>10 DEF q, md

\* A vote of a node that is down is in its nodes.conf: clusterSendFailoverAuthIfNeeded() changes
\* lastVoteEpoch but does not ask for the file to be saved, so a crash may forget it.
VotesSaved == \A x \in hist : x[2] = "vote" /\ ~node[x[1]].up => x[3] <= disk[x[1]].lastVoteEpoch

\* At most as many nodes vote in an epoch as there are slots: no two serve the same slot then.
Voters(e) == {a \in Nodes : \E m \in Nodes : <<a, "vote", e, m>> \in hist}
\* In the epoch of a winner no more nodes voted than there are slots.
FewVoters == \A x \in hist : x[2] = "won" => Cardinality(Voters(x[3])) <= Cardinality(Slots)

\* What elections rest on: a vote arrives before auth_retry_time is over, if it does, no node forgets
\* a vote, the quorum of a slave is a majority, and no more nodes vote than there are slots.
ElectionTerms == ~setup.latevotes /\ VotesSaved /\ SlavesFull /\ FewVoters

\* Time keeps it, as no attempt ends while its votes are in flight.
LEMMA TicksElects ==
    ASSUME TInv, EInv(Nodes, Slots, node, disk, net, hist), ~setup.latevotes, NEW n, NEW s, Ticks(n, s)
    PROVE  EInv(Nodes, Slots, node', disk', net', hist')
<1>1. /\ n \in Nodes /\ node' = [node EXCEPT ![n] = s] /\ SameNode(s, node[n])
      /\ disk' = disk /\ net' = net /\ hist' = hist
      /\ \/ s.auth = node[n].auth
         \/ node[n].auth # "retry" /\ s.auth # "retry"
         \/ ~VotesInFlight(n)
  BY DEF Ticks
<1>2. OnlyAt(Nodes, node, node', n) /\ node'[n] = s
  BY <1>1 DEF TInv, NodesOK, OnlyAt
<1>3. Fewer(net', net)
  BY <1>1 DEF Fewer
<1>4. SameRace(node[n], s) \/ NoVotes(net', n)
  <2>1. CASE s.auth = node[n].auth \/ (node[n].auth # "retry" /\ s.auth # "retry")
    BY <1>1, <2>1 DEF SameRace, SameNode, Canvass
  <2>2. CASE ~VotesInFlight(n)
    <3>1. NoVotes(net, n)
      BY <2>2 DEF NoVotes, VotesInFlight, Acks, Requests, HasAck, HasRequest
    <3> QED  BY <1>1, <3>1
  <2> QED  BY <1>1, <2>1, <2>2
<1>5. SameTally(node[n], s)
  BY <1>1 DEF SameNode, SameTally
<1>6. s.lastVoteEpoch <= s.currentEpoch /\ (s.up => \A e, m : Vote(n, e, m) \in hist => e <= s.lastVoteEpoch)
  BY <1>1 DEF EInv, Epochs, Upto, SameNode
<1>7. Settles(n, s)
  BY <1>1, <1>2, <1>3, <1>4, <1>5, <1>6 DEF Settles
<1> QED  BY <1>7, SettlesElects

\* A crash keeps it: its packets are gone.
LEMMA DiesElects ==
    ASSUME TInv, EInv(Nodes, Slots, node, disk, net, hist), NEW n, Dies(n)
    PROVE  EInv(Nodes, Slots, node', disk', net', hist')
<1> DEFINE b == node[n]
           s == WithUp(b, FALSE)
           q == net'
<1>1. /\ n \in Nodes /\ node' = [node EXCEPT ![n] = s] /\ disk' = disk /\ Less(q, net) /\ hist' = hist
  BY DEF Dies
<1>2. OnlyAt(Nodes, node, node', n) /\ node'[n] = s /\ b \in NodeState(Nodes, Slots) /\ NetOK(Nodes, Slots, net)
  BY <1>1 DEF TInv, NodesOK, OnlyAt
<1>8. b.lastVoteEpoch <= b.currentEpoch
  BY <1>1 DEF EInv, Epochs
<1>9. s = WithUp(b, FALSE)
  OBVIOUS
<1> HIDE DEF q, s, b
<1>3. Fewer(q, net)
  BY <1>1, <1>2, LessFewer
<1>4. /\ ~s.up /\ s.auth = b.auth /\ s.auth_sent = b.auth_sent /\ s.auth_epoch = b.auth_epoch /\ s.auth_count = b.auth_count
      /\ s.lastVoteEpoch = b.lastVoteEpoch /\ s.currentEpoch = b.currentEpoch
  BY <1>2, <1>9, UpIs
<1>5. SameTally(b, s) /\ SameRace(b, s)
  BY <1>4 DEF SameTally, SameRace, Canvass
<1>6. s.lastVoteEpoch <= s.currentEpoch
  BY <1>4, <1>8
<1>7. Settles(n, s)
  BY <1>1, <1>2, <1>3, <1>4, <1>5, <1>6 DEF Settles, q, b
<1> QED  BY <1>7, SettlesElects

\* A restart keeps it when the votes were saved.
LEMMA ReturnsElects ==
    ASSUME TInv, EInv(Nodes, Slots, node, disk, net, hist), VotesSaved, NEW n, NEW s, Returns(n, s)
    PROVE  EInv(Nodes, Slots, node', disk', net', hist')
<1>1. /\ n \in Nodes /\ ~node[n].up /\ node' = [node EXCEPT ![n] = s] /\ s \in NodeState(Nodes, Slots)
      /\ disk' = disk /\ net' = net /\ hist' = hist
      /\ s.lastVoteEpoch = disk[n].lastVoteEpoch /\ s.currentEpoch >= disk[n].currentEpoch /\ s.auth_count = 0
  BY DEF Returns
<1>2. OnlyAt(Nodes, node, node', n) /\ node'[n] = s
  BY <1>1 DEF TInv, NodesOK, OnlyAt
<1>3. Fewer(net', net)
  BY <1>1 DEF Fewer
<1>4. NoVotes(net', n)
  <2>1. \A c \in DOMAIN net : c[1] # n /\ c[2] # n
    BY <1>1 DEF TInv, Live
  <2>2. NoVotes(net, n)
    BY <2>1 DEF NoVotes, Acks, Requests
  <2> QED  BY <1>1, <2>2
<1>5. s.lastVoteEpoch <= s.currentEpoch
  <2>1. disk[n].lastVoteEpoch <= disk[n].currentEpoch
    BY <1>1 DEF EInv, Epochs
  <2>2. disk[n].lastVoteEpoch \in Nat /\ disk[n].currentEpoch \in Nat /\ s.currentEpoch \in Nat
    BY <1>1 DEF TInv, DisksOK, DiskRecord, NodeState
  <2> QED  BY <1>1, <2>1, <2>2
<1>6. ASSUME NEW e, NEW m, Vote(n, e, m) \in hist  PROVE e <= s.lastVoteEpoch
  <2> DEFINE x == Vote(n, e, m)
  <2>1. x[1] = n /\ x[2] = "vote" /\ x[3] = e /\ x \in hist
    BY <1>6 DEF Vote
  <2> HIDE DEF x
  <2>2. x[3] <= disk[x[1]].lastVoteEpoch
    BY <1>1, <2>1 DEF VotesSaved
  <2> QED  BY <1>1, <2>1, <2>2
<1>7. Settles(n, s)
  BY <1>1, <1>2, <1>3, <1>4, <1>5, <1>6 DEF Settles
<1> QED  BY <1>7, SettlesElects

\* No election is under way at the start.
LEMMA StartElects == ASSUME Init  PROVE EInv(Nodes, Slots, node, disk, net, hist)
<1>1. TInv /\ \A n \in Nodes : StartOK(node[n], n)
  BY InitKeeps, StartIs
<1>2. /\ net = <<>> /\ disk = [n \in Nodes |-> Saved(node[n])]
      /\ \A x \in hist : \E a, m \in Nodes : x = <<a, "suspect", m>>
  BY DEF Init
<1>3. \A x \in hist : x[2] = "suspect"
  BY <1>2
<1>4. \A a, e, m : Vote(a, e, m) \notin hist
  <2>1. \A a, e, m : Vote(a, e, m)[2] = "vote"
    BY DEF Vote
  <2> QED  BY <1>3, <2>1
<1>5. \A n, e : <<n, "won", e>> \notin hist
  <2>1. \A n, e : <<n, "won", e>>[2] = "won"
    OBVIOUS
  <2> QED  BY <1>3, <2>1
<1>6. DOMAIN net = {}
  BY <1>2, Empty
<1>7. (\A c : ~Acks(net, c)) /\ \A c, e : ~Requests(net, c, e)
  BY <1>6 DEF Acks, Requests
<1>8. ASSUME NEW n \in Nodes
      PROVE  /\ node[n].lastVoteEpoch <= node[n].currentEpoch /\ disk[n].lastVoteEpoch <= disk[n].currentEpoch
             /\ Tallied(Nodes, net, hist, node[n], n)
  <2> DEFINE s == node[n]
             d == Saved(s)
             q == net
             h == hist
  <2>1. OK(s, n) /\ s.lastVoteEpoch <= s.currentEpoch /\ s.auth_count = 0 /\ disk[n] = d
    BY <1>1, <1>2, NodeIs DEF StartOK
  <2>2. d = Saved(s)
    OBVIOUS
  <2> HIDE DEF s, d, q, h
  <2>3. d.lastVoteEpoch = s.lastVoteEpoch /\ d.currentEpoch = s.currentEpoch
    BY <2>1, <2>2, SavedIs
  <2>4. Tallied(Nodes, q, h, s, n)
    BY <2>1, TallyReset
  <2> QED  BY <2>1, <2>3, <2>4 DEF s, q, h
<1>9. NoDouble(hist) /\ Upto(Nodes, node, hist) /\ Majorities(Nodes, Slots, hist)
  BY <1>4, <1>5 DEF NoDouble, Upto, Majorities
<1>10. Epochs(Nodes, node, disk) /\ AllTallied(Nodes, net, hist, node)
  BY <1>8 DEF Epochs, AllTallied
<1>11. Asking(node, net) /\ Answered(node, net, hist)
  BY <1>7 DEF Asking, Answered
<1> QED  BY <1>9, <1>10, <1>11 DEF EInv

\* It holds of the state.
Electing == EInv(Nodes, Slots, node, disk, net, hist)
\* Every step keeps it.
LEMMA ElectionsKept ==
    ASSUME TInv, ElectionTerms, Electing, [Next]_vars  PROVE Electing'
<1>1. CASE Next
  <2>1. \/ \E n, t, chans : Does(n, t, chans)
        \/ \E n, s : Ticks(n, s)
        \/ \E n : Dies(n)
        \/ \E n, s : Returns(n, s)
    BY <1>1, NextIs
  <2>2. setup' = setup
    BY <1>1 DEF Next
  <2>3. Nodes' = Nodes /\ Slots' = Slots
    BY <2>2 DEF Nodes, Slots
  <2>4. EInv(Nodes, Slots, node', disk', net', hist')
    BY <2>1, DoesElects, TicksElects, DiesElects, ReturnsElects DEF Electing, ElectionTerms
  <2> QED  BY <2>3, <2>4 DEF Electing
<1>2. CASE UNCHANGED vars
  BY <1>2 DEF vars, Electing, Nodes, Slots
<1> QED  BY <1>1, <1>2

\* A winner in the history.
LEMMA WonIs ==
    ASSUME NEW N, NEW h, HistOK(N, h), NEW x \in h, x[2] = "won"
    PROVE  x = <<x[1], "won", x[3]>>
<1>1. x \in Notes(N)
  BY DEF HistOK
<1>2. x \in N \X {"won"} \X Nat
  BY <1>1 DEF Notes
<1> QED  BY <1>2

\* Two majorities have a node in common, which voted once.
LEMMA OneWins ==
    ASSUME TInv, FewVoters, Electing, NEW x \in hist, NEW y \in hist, x[2] = "won", y[2] = "won", x[3] = y[3]
    PROVE  x[1] = y[1]
<1> DEFINE e == x[3]
           A == VotesOf(Nodes, hist, e, x[1])
           B == VotesOf(Nodes, hist, e, y[1])
           U == Voters(e)
           c == Cardinality(Slots)
<1>1. IsFiniteSet(Nodes) /\ IsFiniteSet(Slots) /\ HistOK(Nodes, hist) /\ Majorities(Nodes, Slots, hist) /\ NoDouble(hist)
  BY Setting DEF TInv, Electing, EInv
<1>2. x = <<x[1], "won", e>> /\ y = <<y[1], "won", e>>
  BY <1>1, WonIs
<1>3. Cardinality(A) >= c \div 2 + 1 /\ Cardinality(B) >= c \div 2 + 1
  BY <1>1, <1>2 DEF Majorities
<1>4. A \subseteq U /\ B \subseteq U /\ U \subseteq Nodes
  <2>1. ASSUME NEW m, NEW v \in VotesOf(Nodes, hist, e, m)  PROVE v \in U
    <3>1. v \in Nodes /\ Vote(v, e, m) \in hist
      BY <2>1 DEF VotesOf
    <3>2. m \in Nodes
      BY <1>1, <3>1, CastIs
    <3> QED  BY <3>1, <3>2 DEF Voters, Vote
  <2> QED  BY <2>1 DEF Voters
<1>5. Cardinality(U) <= c
  BY DEF FewVoters
<1>6. c \in Nat
  BY <1>1, FS_CardinalityType
<1>10. \A v \in A \cap B : Vote(v, e, x[1]) \in hist /\ Vote(v, e, y[1]) \in hist
  BY DEF VotesOf
<1> HIDE DEF A, B, U, c, e
<1>7. IsFiniteSet(U)
  BY <1>1, <1>4, FS_Subset
<1>8. IsFiniteSet(A) /\ IsFiniteSet(B)
  BY <1>4, <1>7, FS_Subset
<1>9. Cardinality(A) \in Nat /\ Cardinality(B) \in Nat /\ Cardinality(U) \in Nat
  BY <1>7, <1>8, FS_CardinalityType
<1>11. Cardinality(A) + Cardinality(B) > Cardinality(U)
  BY <1>3, <1>5, <1>6, <1>9
<1>12. A \cap B # {}
  BY <1>4, <1>7, <1>11, FS_MajoritiesIntersect
<1> QED  BY <1>1, <1>10, <1>12 DEF NoDouble

\* For any number of nodes and slots, in the terms above: every slave that wins an election has the
\* votes of a majority of the masters in that epoch, and no epoch elects two slaves
\* (clusterHandleSlaveFailover, clusterSendFailoverAuthIfNeeded, FAILOVER_AUTH_ACK), through
\* crashes, restarts, lost messages, retries and votes for several slaves of one master.
THEOREM ElectionsCorrect == Spec /\ []ElectionTerms => []ElectionsSound
<1>1. Init => Electing
  BY StartElects DEF Electing
<1>2. TInv /\ ElectionTerms /\ Electing /\ [Next]_vars => Electing'
  BY ElectionsKept
<1>3. ASSUME TInv, ElectionTerms, Electing  PROVE ElectionsSound
  <2>1. OneWinnerPerEpoch
    BY <1>3, OneWins DEF OneWinnerPerEpoch, ElectionTerms
  <2>2. ASSUME NEW x \in hist, x[2] = "won"
        PROVE  Cardinality({v \in Nodes : <<v, "vote", x[3], x[1]>> \in hist}) >= Majority
    <3>1. HistOK(Nodes, hist) /\ Majorities(Nodes, Slots, hist)
      BY <1>3 DEF TInv, Electing, EInv
    <3>2. x = <<x[1], "won", x[3]>>
      BY <2>2, <3>1, WonIs
    <3>3. Cardinality(VotesOf(Nodes, hist, x[3], x[1])) >= Cardinality(Slots) \div 2 + 1
      BY <3>1, <3>2, <2>2 DEF Majorities
    <3> QED  BY <3>3 DEF VotesOf, Vote, Majority
  <2>3. WonByMajority
    BY <2>2 DEF WonByMajority
  <2> QED  BY <2>1, <2>3 DEF ElectionsSound
<1>4. TInv /\ ElectionTerms /\ Electing => ElectionsSound
  BY <1>3
<1> QED  BY <1>1, <1>2, <1>4, TypesKept, PTL DEF Spec
=============================================================================
