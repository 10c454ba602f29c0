------------------------------- MODULE MCAof -------------------------------
(* Configurations of the append only file for TLC. *)
EXTENDS Aof, TLC

Config(dbs, fsync, preamble, powerloss, max) ==
    [dbs |-> dbs, fsync |-> fsync, nofsync |-> FALSE, preamble |-> preamble,
     powerloss |-> powerloss, max |-> max @@ [b \in Bounds |-> 0]]

\* The default policy, with a write error, a rewrite and two power failures.
EverySec == Config({0, 1}, "everysec", FALSE, TRUE,
                   [writes |-> 2, rewrites |-> 1, failures |-> 1, crashes |-> 2])

Always == Config({1}, "always", FALSE, TRUE,
                 [writes |-> 3, rewrites |-> 1, failures |-> 1, saves |-> 1, crashes |-> 2])

\* The AOF is switched off and on again while children are running.
Toggle == Config({0, 1}, "no", FALSE, TRUE,
                 [writes |-> 2, rewrites |-> 2, toggles |-> 2, saves |-> 1, crashes |-> 1])

\* Only the process dies, with an RDB preamble in the rewritten file.
ProcessDies == Config({0, 1}, "everysec", TRUE, FALSE,
                      [writes |-> 3, rewrites |-> 1, crashes |-> 1])

SafetySetups == {EverySec, Always, Toggle, ProcessDies}
=============================================================================
