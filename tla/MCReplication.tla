--------------------------- MODULE MCReplication ---------------------------
(* Deployments of Replication for TLC. *)
EXTENDS Replication, TLC

CONSTANTS A, B, C

\* B is a replica of A.
Pair == [s \in {A, B} |-> IF s = A THEN NoOne ELSE A]

\* C replicates B, which replicates A.
Chain == [s \in {A, B, C} |-> IF s = A THEN NoOne ELSE IF s = B THEN A ELSE B]

Quiet == [b \in Bounds |-> IF b = "ids" THEN 7 ELSE 0]

Deploy(master, dbs, ttl, diskless, max) ==
    [master |-> master, dbs |-> dbs, ttl |-> ttl, diskless |-> diskless, max |-> max @@ Quiet]

\* Roles change twice and a link is lost.
Switchover == Deploy(Pair, {1}, FALSE, FALSE, [writes |-> 2, roles |-> 2, breaks |-> 1])

\* A server restarts from the RDB file of a resynchronisation, or of a save point.
Reboot  == Deploy(Pair, {1}, FALSE, FALSE, [writes |-> 2, roles |-> 1, crashes |-> 1])
SavedAt == Deploy(Pair, {1}, FALSE, FALSE, [writes |-> 1, roles |-> 1, saves |-> 1, crashes |-> 1])

\* Diskless transfers, failing children, backlogs freed for lack of replicas.
Diskless == Deploy(Pair, {0}, TRUE, TRUE, [writes |-> 3, pings |-> 1, breaks |-> 2])

\* A role changes in a chain.
Chained == Deploy(Chain, {1}, FALSE, FALSE, [writes |-> 1, roles |-> 1])

SafetySetups == {Switchover, Reboot, SavedAt, Diskless, Chained}

\* Links fail twice, then no more.
LiveSetups == {Deploy(Pair, {0}, FALSE, FALSE, [writes |-> 1, breaks |-> 2, saves |-> 1])}
=============================================================================
