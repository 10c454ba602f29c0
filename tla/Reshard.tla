------------------------------ MODULE Reshard ------------------------------
(***************************************************************************)
(* One hash slot of a cluster while it is moved from master to master:      *)
(* CLUSTER SETSLOT, MIGRATE and RESTORE-ASKING in the order redis-trib uses *)
(* them, the tables of slots that the bus corrects, and clients that follow *)
(* MOVED and ASK.  The masters serve other slots too and do not fail;       *)
(* election and failure detection are the subject of Cluster.               *)
(***************************************************************************)
EXTENDS Naturals, FiniteSets, FiniteSetsExt, SequencesExt, TLC

CONSTANTS
    RsNodes,        \* masters, numbered in the order of their names
    RsKeys,         \* keys of the slot
    RsSetups,       \* name -> [nodes: of the cluster, owner: of the slot at the start, or NULL, commands, multi: of several
                    \*          keys too, faults: connections of MIGRATE break, settled: a
                    \*          move begins when every node has heard of every epoch,
                    \*          writes, moves: bounds on the writes of clients and the moves of the slot]
    RsMaxFaults     \* bound on the connections that break

NULL == 0           \* no node, no value

VARIABLES rsetup, rs

reshardVars == <<rsetup, rs>>

RsSetup == RsSetups[rsetup]

RsMembers == RsSetup.nodes

NoRequest == [cmd |-> "none"]

ReshardInit ==
    /\ rsetup \in DOMAIN RsSetups
    /\ rs = [slots     |-> [n \in RsNodes |-> RsSetup.owner],      \* server.cluster->slots[]
             migrating |-> [n \in RsNodes |-> NULL], importing |-> [n \in RsNodes |-> NULL],
             epoch     |-> [n \in RsNodes |-> [m \in RsNodes |-> m]],   \* configEpoch of m as n knows it
             current   |-> [n \in RsNodes |-> Max(RsNodes)],       \* currentEpoch
             db        |-> [n \in RsNodes |-> [k \in RsKeys |-> IF n = RsSetup.owner THEN 1 ELSE NULL]],
             latest    |-> [k \in RsKeys |-> IF RsSetup.owner # NULL THEN 1 ELSE NULL],   \* last value a client was told
             doubt     |-> {},          \* keys for which MIGRATE answered with an error
             late      |-> <<>>,        \* RESTOREs the target has still to read
             request   |-> NoRequest,   \* a client on its way to another node
             admin     |-> [at |-> "idle"],
             writes |-> 0, moves |-> 0, faults |-> 0, bad |-> FALSE]

RsSet(s) == rs' = s /\ UNCHANGED rsetup

-----------------------------------------------------------------------------
(* Tables. *)

countKeysInSlot(s, n) == Cardinality({k \in RsKeys : s.db[n][k] # NULL})

delKeysInSlot(s, n) == [s EXCEPT !.db[n] = [k \in RsKeys |-> NULL]]

clusterGetMaxEpoch(s, n) == Max({s.epoch[n][m] : m \in RsNodes} \cup {s.current[n]})

BumpConfigEpoch(s, n) ==
    IF s.epoch[n][n] # NULL /\ s.epoch[n][n] = clusterGetMaxEpoch(s, n) THEN s
    ELSE [s EXCEPT !.current[n] = @ + 1, !.epoch[n][n] = s.current[n] + 1]

\* A claim of sender is taken when the slot is free or the claim is newer, never while the
\* slot is being imported; keys that are left are deleted.
RsUpdateSlots(s, n, sender, epoch) ==
    IF sender = n \/ s.slots[n] = sender \/ s.importing[n] # NULL THEN s
    ELSE IF s.slots[n] # NULL /\ s.epoch[n][s.slots[n]] >= epoch THEN s
    ELSE [(IF s.slots[n] = n THEN delKeysInSlot(s, n) ELSE s) EXCEPT !.slots[n] = sender]

\* The node whose name is smaller takes a new epoch.
RsEpochCollision(s, n, sender) ==
    IF s.epoch[n][sender] # s.epoch[n][n] \/ sender < n THEN s
    ELSE [s EXCEPT !.current[n] = @ + 1, !.epoch[n][n] = s.current[n] + 1]

\* n hears what sender claims; when the table of n has a newer owner it answers with an
\* UPDATE.
RsPing(sender, n) ==
    LET e == rs.epoch[sender][sender]
        a == [rs EXCEPT !.current[n] = Max({@, rs.current[sender]}), !.epoch[n][sender] = e]
        b == IF rs.slots[sender] = sender THEN RsUpdateSlots(a, n, sender, e) ELSE a
        o == b.slots[n]
        newer == rs.slots[sender] = sender /\ o # NULL /\ o # sender /\ b.epoch[n][o] > e
        c == IF ~newer THEN b
             ELSE LET h == [b EXCEPT !.current[sender] = Max({@, b.current[n]}), !.epoch[sender][n] = b.epoch[n][n]]
                  IN  IF h.epoch[sender][o] >= b.epoch[n][o] THEN h
                      ELSE RsUpdateSlots([h EXCEPT !.epoch[sender][o] = b.epoch[n][o]], sender, o, b.epoch[n][o])
    IN  sender # n /\ RsSet(RsEpochCollision(c, n, sender))

-----------------------------------------------------------------------------
(* Serving clients. *)

\* Mutant: the owner serves the keys it has not, too.
getNodeByQuery_Serve(s, n, cmd, keys, asking) ==
    IF s.slots[n] = NULL THEN [to |-> NULL, error |-> "down_unbound"]
    ELSE IF s.importing[n] # NULL /\ asking THEN [to |-> n, error |-> "none"]
    ELSE [to |-> s.slots[n], error |-> IF s.slots[n] = n THEN "none" ELSE "moved"]

\* Where the command goes: [to, error].
getNodeByQuery(s, n, cmd, keys, asking) ==
    LET owner     == s.slots[n]
        migrating == owner = n /\ s.migrating[n] # NULL
        importing == ~migrating /\ s.importing[n] # NULL
        missing   == (migrating \/ importing) /\ \E k \in keys : s.db[n][k] = NULL
    IN  CASE owner = NULL                                   -> [to |-> NULL, error |-> "down_unbound"]
          [] owner # NULL /\ (migrating \/ importing) /\ cmd = "migrate" -> [to |-> n, error |-> "none"]
          [] owner # NULL /\ migrating /\ missing /\ cmd # "migrate" -> [to |-> s.migrating[n], error |-> "ask"]
          [] importing /\ asking /\ cmd # "migrate" /\ owner # NULL ->
                IF Cardinality(keys) > 1 /\ missing THEN [to |-> NULL, error |-> "unstable"]
                ELSE [to |-> n, error |-> "none"]
          [] OTHER -> [to |-> owner, error |-> IF owner = n THEN "none" ELSE "moved"]

\* The command is executed; what it tells its client is compared with what clients were
\* told last, except for keys in doubt.
RsExecute(s, n, cmd, keys) ==
    LET known == keys \ s.doubt
        v     == s.writes + 2
    IN  CASE cmd = "get" -> [s EXCEPT !.bad = @ \/ \E k \in known : s.db[n][k] # s.latest[k]]
          [] cmd = "set" -> [s EXCEPT !.db[n] = [k \in keys |-> v] @@ @, !.latest = [k \in keys |-> v] @@ @,
                                      !.writes = @ + 1]
          [] cmd = "del" -> [s EXCEPT !.bad = @ \/ \E k \in known : (s.db[n][k] = NULL) # (s.latest[k] = NULL),
                                      !.db[n] = [k \in keys |-> NULL] @@ @, !.latest = [k \in keys |-> NULL] @@ @,
                                      !.writes = @ + 1]

\* processCommand() and clusterRedirectClient(): a client that is told to go elsewhere
\* does, as soon as no other is on its way; ASKING goes before the command after ASK.
RsServe(s, n, cmd, keys, asking) ==
    LET r == getNodeByQuery(s, n, cmd, keys, asking)
    IN  IF r.to = n /\ r.error = "none" THEN RsExecute(s, n, cmd, keys)
        ELSE IF r.error \in {"moved", "ask"} /\ s.request = NoRequest
        THEN [s EXCEPT !.request = [cmd |-> cmd, keys |-> keys, node |-> r.to, asking |-> r.error = "ask"]]
        ELSE s

RsClient(n, cmd, keys) ==
    /\ cmd \in RsSetup.commands /\ (RsSetup.multi \/ Cardinality(keys) = 1) /\ (cmd = "get" \/ rs.writes < RsSetup.writes)
    /\ RsSet(RsServe(rs, n, cmd, keys, FALSE))

RsFollow ==
    /\ rs.request # NoRequest /\ (rs.request.cmd = "get" \/ rs.writes < RsSetup.writes)
    /\ LET q == rs.request
       IN  RsSet(RsServe([rs EXCEPT !.request = NoRequest], q.node, q.cmd, q.keys, q.asking))

-----------------------------------------------------------------------------
(* MIGRATE. *)

\* RESTORE-ASKING at the target: whether it is accepted, and its effect.
Restores(s, dst, r) ==
    LET q == getNodeByQuery(s, dst, "restore", {r.key}, TRUE)
    IN  q.to = dst /\ q.error = "none" /\ (r.replace \/ s.db[dst][r.key] = NULL)

Restore(s, dst, r) == IF Restores(s, dst, r) THEN [s EXCEPT !.db[dst][r.key] = r.value] ELSE s

\* The target reads what a connection that was given up had sent, before anything later.
Drained(s) == [FoldLeft(LAMBDA t, r : Restore(t, r.dst, r), s, s.late) EXCEPT !.late = <<>>]

RsLate == rs.late # <<>> /\ RsSet([Restore(rs, rs.late[1].dst, rs.late[1]) EXCEPT !.late = Tail(@)])

\* One connection: the target has executed `done` of the commands and the source has read
\* `replies` answers when the connection breaks (or all of both); a key whose answer was
\* good is deleted here.  The commands sent and not executed are read later, or never.
Attempt(s0, src, dst, todo, done, replies, lost) ==
    LET s  == Drained(s0)
        Do(t, r) == [Restore(t, dst, r) EXCEPT !.ok = Append(@, Restores(t, dst, r))]
        t  == FoldLeft(Do, s @@ [ok |-> <<>>], SubSeq(todo, 1, done))
        good == {todo[i].key : i \in {j \in 1..replies : t.ok[j]}}
        u  == [x \in DOMAIN s |-> t[x]]
    IN  [state |-> [u EXCEPT !.db[src] = [k \in good |-> NULL] @@ @,
                             !.late = IF lost THEN <<>>
                                      ELSE [i \in 1..(Len(todo) - done) |-> [dst |-> dst] @@ todo[done + i]]],
         good |-> good, refused |-> \E i \in 1..replies : ~t.ok[i]]

\* The keys that are here are sent, with their values.
MigrateTodo(src, keys, replace) ==
    SetToSeq({[key |-> k, value |-> rs.db[src][k], replace |-> replace] : k \in {x \in keys : rs.db[src][x] # NULL}})

\* migrateCommand(): after a connection that broke before the first answer there is one
\* more, unless it was a timeout.  The client is told of an error in any other case.
migrateCommand(src, dst, keys, replace) ==
    LET todo == MigrateTodo(src, keys, replace)
        n    == Len(todo)
        End(a) == [a.state EXCEPT !.doubt = (@ \cup ({todo[i].key : i \in 1..n} \ a.good))
                                            \ {k \in a.good : /\ rs.db[src][k] = rs.latest[k]
                                                             /\ \A m \in RsNodes \ {dst} : a.state.db[m][k] = NULL}]
        clean(s) == Attempt(s, src, dst, todo, n, n, FALSE)
    IN  /\ getNodeByQuery(rs, src, "migrate", keys, FALSE).to = src /\ n > 0
        /\ \/ RsSet(End(clean(rs)))
           \/ /\ RsSetup.faults /\ rs.faults < RsMaxFaults
              /\ \E d \in 0..n, r \in 0..n, l \in BOOLEAN :
                    /\ r <= d /\ r < n
                    /\ LET a == Attempt([rs EXCEPT !.faults = @ + 1], src, dst, todo, d, r, l)
                       IN  \/ RsSet(End(a))
                           \/ r = 0 /\ RsSet(End(clean(a.state)))

-----------------------------------------------------------------------------
(* The administrator: redis-trib's move_slot. *)

Owner == {n \in RsMembers : rs.slots[n] = n}

\* CLUSTER SETSLOT slot NODE n, sent to node m.
SetslotNode(s, m, n) ==
    LET a == [s EXCEPT !.migrating[m] = IF countKeysInSlot(s, m) = 0 THEN NULL ELSE @]
        b == IF n = m /\ a.importing[m] # NULL THEN [BumpConfigEpoch(a, m) EXCEPT !.importing[m] = NULL] ELSE a
    IN  IF s.slots[m] = m /\ n # m /\ countKeysInSlot(s, m) # 0 THEN s
        ELSE [b EXCEPT !.slots[m] = n]

SetslotImporting ==
    /\ rs.admin.at = "idle" /\ rs.moves < RsSetup.moves /\ \A n \in RsMembers : rs.slots[n] # NULL
    /\ RsSetup.settled => \A n, m \in RsMembers : rs.epoch[n][m] = rs.epoch[m][m]
    /\ \E src \in Owner, dst \in RsMembers :
          /\ rs.slots[dst] # dst
          /\ RsSet([rs EXCEPT !.importing[dst] = src, !.moves = @ + 1,
                              !.admin = [at |-> "migrating", src |-> src, dst |-> dst]])

SetslotMigrating ==
    /\ rs.admin.at = "migrating" /\ rs.slots[rs.admin.src] = rs.admin.src
    /\ RsSet([rs EXCEPT !.migrating[rs.admin.src] = rs.admin.dst, !.admin.at = "move"])

\* The move is given up.  The command tests nothing: that the target has no key which the
\* source has not, and no client is on its way to it, is what the administrator looks at.
SetslotStable ==
    /\ rs.admin.at \in {"migrating", "move"} /\ rs.request = NoRequest
    /\ \A k \in RsKeys : rs.db[rs.admin.dst][k] # NULL => rs.db[rs.admin.src][k] # NULL
    /\ RsSet([rs EXCEPT !.importing[rs.admin.src] = NULL, !.migrating[rs.admin.src] = NULL,
                        !.importing[rs.admin.dst] = NULL, !.migrating[rs.admin.dst] = NULL,
                        !.admin = [at |-> "idle"]])

MoveKeys ==
    /\ rs.admin.at = "move"
    /\ \E keys \in SUBSET {k \in RsKeys : rs.db[rs.admin.src][k] # NULL}, replace \in BOOLEAN :
          keys # {} /\ (replace => keys \cap rs.doubt # {}) /\ migrateCommand(rs.admin.src, rs.admin.dst, keys, replace)

\* CLUSTER GETKEYSINSLOT finds no key: NODE is sent to every master.
Moved ==
    /\ rs.admin.at = "move" /\ countKeysInSlot(rs, rs.admin.src) = 0
    /\ RsSet([rs EXCEPT !.admin = [at |-> "node", dst |-> rs.admin.dst, todo |-> RsMembers]])

SendNode ==
    /\ rs.admin.at = "node"
    /\ \E m \in rs.admin.todo :
          LET s == SetslotNode(rs, m, rs.admin.dst)
          IN  RsSet([s EXCEPT !.admin = IF rs.admin.todo = {m} THEN [at |-> "idle"] ELSE [@ EXCEPT !.todo = @ \ {m}]])

\* A free slot is given to a node; a node that does not have it forgets who does.
AddSlots(n) ==
    /\ rs.admin.at = "idle" /\ \A m \in RsMembers : rs.slots[m] = NULL
    /\ RsSet([rs EXCEPT !.slots[n] = n, !.importing[n] = NULL])

DelSlots(n) ==
    /\ rs.admin.at = "idle" /\ "delslots" \in RsSetup.commands /\ rs.slots[n] \notin {NULL, n}
    /\ RsSet([rs EXCEPT !.slots[n] = NULL, !.importing[n] = NULL])

\* A node restarts with the tables of nodes.conf and its keys.
verifyClusterConfigWithData(n) ==
    /\ countKeysInSlot(rs, n) > 0 /\ rs.slots[n] # n /\ rs.importing[n] = NULL
    /\ RsSet(IF rs.slots[n] = NULL THEN [rs EXCEPT !.slots[n] = n] ELSE [rs EXCEPT !.importing[n] = rs.slots[n]])

ReshardNext ==
    \/ \E n, m \in RsMembers : RsPing(n, m)
    \/ \E n \in RsMembers, cmd \in {"get", "set", "del"}, keys \in SUBSET RsKeys \ {{}} : RsClient(n, cmd, keys)
    \/ RsFollow \/ RsLate
    \/ SetslotImporting \/ SetslotMigrating \/ SetslotStable \/ MoveKeys \/ Moved \/ SendNode
    \/ \E n \in RsMembers : AddSlots(n) \/ DelSlots(n) \/ verifyClusterConfigWithData(n)

-----------------------------------------------------------------------------

\* Wherever a client starts and whatever redirections it follows, it is answered with what
\* clients were told last of every key that no MIGRATE left in doubt; such a key is on one
\* node only, and no key is lost, in doubt or not.
ReshardSound ==
    /\ ~rs.bad
    /\ \A k \in RsKeys :
          LET holders == {n \in RsNodes : rs.db[n][k] # NULL}
          IN  /\ k \notin rs.doubt => Cardinality(holders) = IF rs.latest[k] = NULL THEN 0 ELSE 1
              /\ rs.latest[k] # NULL => \E n \in holders : rs.db[n][k] = rs.latest[k]
=============================================================================
