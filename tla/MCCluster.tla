----------------------------- MODULE MCCluster -----------------------------
(***************************************************************************)
(* Instances of Cluster for TLC, and the properties of the cluster bus.    *)
(***************************************************************************)
EXTENDS Cluster, TLC

-----------------------------------------------------------------------------
\* Start states

\* Node n of a cluster where slaveof, owner and epoch are what n believes, and
\* n flags the nodes of 'failed' as failing.  The slaves joined as masters with
\* epoch 0 and know themselves under that epoch; the others know them under
\* the epoch of their master, which is the one slaves announce.
Settled(n, up, slaveof, owner, epoch, failed, current) ==
    [me |-> n, up |-> up, currentEpoch |-> current, lastVoteEpoch |-> 0,
     known |-> [m \in DOMAIN slaveof |->
        [slave |-> slaveof[m] # None, slaveof |-> slaveof[m],
         configEpoch |-> IF m = n /\ slaveof[m] # None THEN 0 ELSE epoch[m],
         flag |-> IF m \in failed THEN "fail" ELSE "ok",
         reports |-> {}, pinged |-> FALSE, voted |-> FALSE]],
     slots |-> owner,
     size |-> Cardinality({owner[x] : x \in DOMAIN owner}),
     state |-> IF \E x \in DOMAIN owner : owner[x] \in failed THEN "fail" ELSE "ok",
     booting |-> FALSE, minority |-> FALSE, auth |-> "retry", auth_sent |-> FALSE,
     auth_epoch |-> 0, auth_count |-> 0, mf_end |-> FALSE, mf_can_start |-> FALSE,
     mf_slave |-> None, mf_master_offset |-> 0, mf_id |-> 0, paused |-> FALSE,
     offset |-> 1, out |-> <<>>, todo |-> {}, log |-> {}]

\* Masters 1, 2, 3 serve slots 1, 2, 3; 4 and 5 are slaves of 3.
ThreeAndTwo(nodes) == [n \in nodes |-> IF n > 3 THEN 3 ELSE None]
OwnSlot(slots)     == [x \in slots |-> x]
OwnEpoch(nodes)    == [n \in nodes |-> IF n > 3 THEN 3 ELSE n]
AllMasters(nodes)  == [n \in nodes |-> None]

\* Master 3 is down and everybody knows: an election is due.
StartFailed(nodes, slots) ==
    [n \in nodes |-> Settled(n, n # 3, ThreeAndTwo(nodes), OwnSlot(slots), OwnEpoch(nodes),
                             IF n = 3 THEN {} ELSE {3}, 3)]

\* All is well.
StartOk(nodes, slots) ==
    [n \in nodes |-> Settled(n, TRUE, ThreeAndTwo(nodes), OwnSlot(slots), OwnEpoch(nodes), {}, 3)]

\* Masters 1 to 4 serve a slot each; the others wait for a pong of 4.
Waiting == {<<1, 4>>, <<2, 4>>, <<3, 4>>}
StartWaiting(nodes, slots) ==
    [n \in nodes |->
       LET s == Settled(n, TRUE, AllMasters(nodes), OwnSlot(slots), [m \in nodes |-> m], {}, 4)
       IN [s EXCEPT !.known = [m \in nodes |->
             [s.known[m] EXCEPT !.pinged = <<n, m>> \in Waiting]]]]

\* Slave 4 replaced master 3, and 1 knows; 3 was away and still believes to
\* serve its slot.  3 and 4 cannot reach each other.
StartStale(nodes, slots) ==
    [n \in nodes |->
       IF n = 3
       THEN Settled(n, TRUE, ThreeAndTwo(nodes), OwnSlot(slots), OwnEpoch(nodes), {}, 3)
       ELSE Settled(n, TRUE, AllMasters(nodes), [x \in slots |-> IF x = 3 THEN 4 ELSE x],
                    [m \in nodes |-> IF m = 4 THEN 5 ELSE m], {}, 5)]

\* A new cluster: every master has configuration epoch 0.
StartNew(nodes, slots) ==
    [n \in nodes |-> Settled(n, TRUE, AllMasters(nodes), OwnSlot(slots),
                             [m \in nodes |-> 0], {}, 0)]

\* In three partitions: slaves 4 and 5 of the failed master were both told to
\* take over and chose the same epoch; 1 knows of neither.
StartTakeovers(nodes, slots) ==
    [n \in nodes |->
       IF n > 3
       THEN Settled(n, TRUE, [ThreeAndTwo(nodes) EXCEPT ![n] = None],
                    [OwnSlot(slots) EXCEPT ![3] = n], [OwnEpoch(nodes) EXCEPT ![n] = 4], {3}, 4)
       ELSE StartFailed(nodes, slots)[n]]

-----------------------------------------------------------------------------
\* Situations

With(name, nodes, slots, others, max) ==
    others @@ [name |-> name, nodes |-> nodes, slots |-> slots,
               pings |-> {}, reconnects |-> {}, timeouts |-> {}, crashers |-> {},
               failovers |-> {}, channel |-> 1, latevotes |-> FALSE,
               max |-> max @@ [e \in Events |-> 0]]

\* Two slaves of a failed master run for election.
Election == With("election", 1..5, 1..3, <<>>, [attempt |-> 2])

\* A slave takes over while the old master restarts, crashes, restarts.
Rejoin ==
    With("rejoin", 1..4, 1..3,
         [pings |-> {<<3, 1>>, <<1, 3>>}, crashers |-> {3},
          failovers |-> {<<4, "takeover">>}],
         [attempt |-> 1, ping |-> 1, crash |-> 1, takeover |-> 1])

\* Four masters gossip what they find unreachable.
Unreachable ==
    With("unreachable", 1..4, 1..4,
         [pings |-> {<<1, 2>>, <<2, 1>>, <<2, 3>>, <<1, 3>>},
          timeouts |-> Waiting \cup {<<1, 3>>}],
         [ping |-> 3, timeout |-> 3])

\* A client asks slave 4 for a manual failover while others write.
Manual ==
    With("manual", 1..4, 1..3,
         [pings |-> {<<3, 4>>}, reconnects |-> {<<3, 4>>},
          failovers |-> {<<4, "">>}, channel |-> 2],
         [attempt |-> 1, ping |-> 1, reconnect |-> 1, manual |-> 1, write |-> 1])

\* A slave of a failed master takes over while the other one runs for election:
\* both may end with the same epoch.
Split ==
    With("split", 1..5, 1..3, [failovers |-> {<<4, "takeover">>, <<5, "force">>}],
         [attempt |-> 1, manual |-> 1, takeover |-> 1])

SafetySetups == {Election, Rejoin, Unreachable, Manual, Split}

\* Only the event loops run.
Stale    == With("stale", {1, 3, 4}, {1, 3},
                 [pings |-> {<<3, 1>>, <<1, 3>>, <<1, 4>>, <<4, 1>>}], [ping |-> None])
Collide  == With("collide", 1..3, 1..3,
                 [pings |-> {<<1, 2>>, <<2, 3>>, <<3, 1>>}], [ping |-> None])
Takeover == With("takeover", {1, 3, 4, 5}, {1, 3},
                 [pings |-> {<<1, 4>>, <<4, 5>>}], [ping |-> None])

LiveSetups == {Stale, Collide, Takeover}

Starts ==
    [election    |-> StartFailed(Election.nodes, Election.slots),
     rejoin      |-> StartFailed(Rejoin.nodes, Rejoin.slots),
     unreachable |-> StartWaiting(Unreachable.nodes, Unreachable.slots),
     split       |-> StartFailed(Split.nodes, Split.slots),
     manual      |-> StartOk(Manual.nodes, Manual.slots),
     stale       |-> StartStale(Stale.nodes, Stale.slots),
     collide     |-> StartNew(Collide.nodes, Collide.slots),
     takeover    |-> StartTakeovers(Takeover.nodes, Takeover.slots)]

-----------------------------------------------------------------------------
\* The event loops keep running: packets are read and crons send pings.  This
\* is weak fairness of Receive and Ping, written with the conditions that
\* enable them: a channel with messages, a node that waits for no pong.
AllNodes == UNION {u.nodes : u \in Setups}
AllPings == UNION {u.pings : u \in Setups}
Fairness ==
    /\ \A c \in AllNodes \X AllNodes \X {"own", "reply"} :
         \/ []<>(c \notin DOMAIN net)
         \/ []<><<c \in DOMAIN net /\ Receive(c)>>_vars
    /\ \A pair \in AllPings :
         \/ []<>(\/ pair \notin setup.pings
                 \/ ~node[pair[1]].up
                 \/ node[pair[1]].known[pair[2]].pinged
                 \/ Crowded(pair[1], pair[2]))
         \/ []<><<pair \in setup.pings /\ Ping(pair[1], pair[2])>>_vars

LiveSpec == Spec /\ Fairness

-----------------------------------------------------------------------------
\* Properties

StaleMasterGivesWay ==
    <>[](setup.name = "stale" => /\ MyMaster(node[3]) = 4
                            /\ \A n \in Nodes : node[n].slots[3] = 4)

EpochsGetDistinct ==
    <>[](setup.name = "collide" => \A a, b \in Nodes :
           /\ a # b => node[a].known[a].configEpoch # node[b].known[b].configEpoch
           /\ node[a].known[b].configEpoch = node[b].known[b].configEpoch)

SlotsGetAgreed ==
    <>[](\A a, b \in {n \in Nodes : node[n].up} :
           /\ node[a].slots = node[b].slots
           /\ \A x \in Slots : node[a].slots[x] = a => IsMaster(node[a], a))

\* All nodes finally agree who serves the slots.  A master that missed a failover
\* gives way, even if only a third node can tell it: "other nodes that have an
\* updated table must do it.  In this way A will stop to act as a master"
\* (clusterProcessPacket).  Masters that start with equal epochs "eventually all
\* [...] end with a different configuration epoch" (clusterHandleConfigEpochCollision).
ConfigsConverge == StaleMasterGivesWay /\ EpochsGetDistinct /\ SlotsGetAgreed

=============================================================================
