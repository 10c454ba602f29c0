----------------------------- MODULE MCSentinel -----------------------------
(* Situations of Sentinel for TLC. *)
EXTENDS Sentinel

CONSTANTS s1, s2, s3, A, B, C

Quiet == [e \in Events |-> 0]
Usual == [master |-> A, agreed |-> FALSE, slaves |-> {B}, never |-> {}, parallel_syncs |-> 1,
          cuts |-> {}, starters |-> {s1}, pollers |-> {s1}, speakers |-> {s1}, crashers |-> {},
          timeouts |-> FALSE, timely |-> FALSE]
Watch(other, max) == other @@ [max |-> max @@ Quiet] @@ Usual

\* Two sentinels stand for election, in one epoch or in two; no slave qualifies.
Ballot == [agreed |-> TRUE, never |-> {B}, starters |-> {s1, s2}, pollers |-> {}, speakers |-> {}]
Elect  == Watch(Ballot, [epochs |-> 2])
\* A voter restarts.
Reboot == Watch([crashers |-> {s3}] @@ Ballot, [epochs |-> 1, crash |-> 1])
\* SENTINEL RESET and answers that get too old, during an election.
Reset == Watch([starters |-> {s1}, speakers |-> {s3}] @@ Ballot,
               [epochs |-> 1, reset |-> 1, stale |-> 1, lose |-> 1])

\* A master dies: from the first suspicion to the last slave, with every timeout.
Lead == Watch([timeouts |-> TRUE], [epochs |-> 1, down |-> 1])
\* Two slaves, reconfigured side by side, with every timeout.
Sync == Watch([slaves |-> {B, C}, timeouts |-> TRUE, parallel_syncs |-> 2, agreed |-> TRUE], [epochs |-> 1])
\* The link to the slave that may be promoted is cut.
Apart == Watch([slaves |-> {B, C}, agreed |-> TRUE, cuts |-> {<<s1, B>>}], [epochs |-> 1, cut |-> 1])
\* The old master comes back while it is replaced.
Return == Watch([agreed |-> TRUE], [epochs |-> 1, back |-> 1])
\* The sentinel that leads goes through tilt mode.
Tilted == Watch([agreed |-> TRUE], [epochs |-> 1, tilt |-> 1])
\* Two sentinels lead, one after the other lost.
Race == Watch([agreed |-> TRUE, starters |-> {s1, s2}, pollers |-> {s1, s2},
               speakers |-> {}], [epochs |-> 1])
\* SENTINEL FAILOVER, with a crash of the sentinel that carries it out.
Force == Watch([crashers |-> {s1}, starters |-> {}, pollers |-> {s1, s2}],
               [epochs |-> 1, forced |-> 1, crash |-> 1])

SafetySetups == {Elect, Reboot, Reset, Lead, Sync, Apart, Return, Tilted, Race, Force}

\* One sentinel starts the failover; the old master, or a slave, comes back.
LiveSetups == {Watch([slaves |-> {B, C}, timely |-> TRUE, pollers |-> {s1, s2}],
                     [epochs |-> 1, down |-> 1, back |-> 1])}
=============================================================================
