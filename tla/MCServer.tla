------------------------------ MODULE MCServer ------------------------------
(***************************************************************************)
(* The parts of one server that work below the commands, each on its own:   *)
(* one of them is chosen at the start.                                      *)
(***************************************************************************)
EXTENDS Bio, Ae, Clients, Reshard, Config

VARIABLE part

vars == <<part, bioVars, aeVars, clientVars, reshardVars, cfgVars>>

\* RENAME and lazyfree-lazy-server-del are kept apart: together they hand a shared object
\* over to the thread.
MCBioSetups ==
    [lazy |-> [serverDel |-> TRUE, rename |-> FALSE, fsync |-> FALSE, step |-> FALSE, keys |-> BioKeys],
     sync |-> [serverDel |-> FALSE, rename |-> TRUE, fsync |-> TRUE, step |-> FALSE, keys |-> BioKeys],
     step |-> [serverDel |-> FALSE, rename |-> FALSE, fsync |-> FALSE, step |-> TRUE, keys |-> {"k1"}]]

Uses(ops, cs) == [op \in ops |-> cs]

\* CLIENT REPLY is kept apart from QUIT and CLIENT KILL: a silent client that quits is
\* never closed.
MCClSetups ==
    [one    |-> [ops |-> Uses({"reply", "deferred", "refuse"}, {"a"}), start |-> {"a"}, sizes |-> {1, 2, 3}, units |-> 8, time |-> 4],
     silent |-> [ops |-> Uses({"reply", "client_reply"}, {"a"}), start |-> {"a"}, sizes |-> {1}, units |-> 5, time |-> 1],
     two    |-> [ops |-> Uses({"accept", "reply", "kill", "quit", "close", "timeout", "refuse"}, {"a", "b"}), start |-> {"a"},
                 sizes |-> {1, 3}, units |-> 4, time |-> 1],
     full   |-> [ops |-> Uses({"accept", "quit"}, {"a", "b", "c"}), start |-> {}, sizes |-> {1}, units |-> 2, time |-> 1],
     pubsub |-> [ops |-> Uses({"subscribe", "unsubscribe"}, {"a", "b"}) @@ Uses({"close"}, {"a"}) @@ Uses({"publish"}, {"c"}),
                 start |-> {"a", "b", "c"}, sizes |-> {1}, units |-> 2, time |-> 1],
     slaves |-> [ops |-> Uses({"sync", "flush"}, {"b", "c"}) @@ Uses({"close"}, {"b"}) @@ Uses({"write"}, {"a"}),
                 start |-> {"a", "b", "c"}, sizes |-> {1}, units |-> 3, time |-> 1]]

\* A move begins when the epochs of the last one are known everywhere; commands of several
\* keys are kept apart from connections that break.
MCRsSetups ==
    LET base == [nodes |-> RsNodes, owner |-> 1, commands |-> {"get", "set"}, multi |-> FALSE, faults |-> FALSE,
                 settled |-> TRUE, writes |-> 1, moves |-> 1]
    IN  [twice  |-> [base EXCEPT !.moves = 2],
         multi  |-> [base EXCEPT !.nodes = {1, 2}, !.commands = {"get", "set", "del"}, !.multi = TRUE, !.writes = 2],
         fresh  |-> [base EXCEPT !.owner = NULL, !.commands = {"get", "set", "delslots"}],
         faulty |-> [base EXCEPT !.nodes = {1, 2}, !.commands = {"get", "set", "del"}, !.faults = TRUE, !.moves = 2]]

\* Files with comments, an option twice, and options CONFIG REWRITE does not know.  Words
\* that are refused are among those given to CONFIG SET.
MCCfgSetups ==
    LET none == <<"">>
        note(i) == <<"#", <<"one", "two">>[i]>>
        d(n) == <<n, "bytes">>
        class(c, hard, soft, secs) == <<"obuf", <<c, hard, soft, d(secs)>>>>
        setup(lines, sets, hosts) == [file |-> lines, sets |-> sets, hosts |-> hosts]
    IN  [scalars |-> setup(<<note(1), <<"timeout", <<d(5)>>>>, none, <<"timeout", <<d(7)>>>>, note(2),
                             <<"maxmemory", <<<<4, "kb">>>>>>>>,
                           {<<"timeout", d(0)>>, <<"timeout", d(-1)>>, <<"timeout", <<1, "kb">>>>, <<"maxmemory", d(0)>>,
                            <<"maxmemory", <<3, "kb">>>>, <<"maxmemory", <<1, "mb">>>>, <<"maxmemory", <<1, "x">>>>}, {}),
         unknown |-> setup(<<<<"lfu_log_factor", <<d(3)>>>>, <<"rename_command", <<"CONFIG", "">>>>>>,
                           {<<"lfu_log_factor", d(9)>>, <<"hz", d(0)>>, <<"hz", d(9)>>}, {}),
         words   |-> setup(<<<<"dbfilename", <<"x.rdb">>>>, note(1), <<"requirepass", <<"p">>>>, none, none,
                             <<"daemonize", <<"yes">>>>>>,
                           {<<"requirepass", "">>, <<"dbfilename", "dump.rdb">>, <<"dbfilename", "a/b">>,
                            <<"dir", "/data">>, <<"dir", "/none">>}, {}),
         flags   |-> setup(<<<<"maxmemory_policy", <<"allkeys-lru">>>>, note(1)>>,
                           {<<"maxmemory_policy", "noeviction">>, <<"maxmemory_policy", "none">>,
                            <<"slave_read_only", "no">>, <<"slave_read_only", "maybe">>,
                            <<"notify", {"g", "l", "K"}>>, <<"notify", {"g", "q"}>>, <<"notify", {}>>}, {}),
         saves   |-> setup(<<<<"save", <<d(9), d(1)>>>>, note(1), <<"save", <<d(3), d(8)>>>>, <<"bind", <<"a1", "a2">>>>>>,
                           {<<"save", <<>>>>, <<"save", <<d(1), d(0)>>>>, <<"save", <<d(0), d(1)>>>>,
                            <<"save", <<d(1), d(2), d(2), d(1), d(4), d(0)>>>>, <<"save", <<d(1)>>>>}, {}),
         limits  |-> setup(<<class("pubsub", <<2, "kb">>, d(2), 6), note(2), class("slave", d(0), d(0), 0)>>,
                           {<<"obuf", <<"normal", d(1), d(1), d(1)>>>>,
                            <<"obuf", <<"normal", d(0), d(0), d(0), "pubsub", <<4, "kb">>, d(2), d(6)>>>>,
                            <<"obuf", <<"slave", d(8), d(4), d(6), "master", d(0), d(0), d(0)>>>>,
                            <<"obuf", <<"slave", d(8), d(4), d(6), "slave", d(0), d(1), d(0)>>>>}, {}),
         slave   |-> setup(<<<<"slaveof", <<"m1">>>>, <<"port", <<d(6)>>>>, none, note(1), <<"slaveof", <<"m2">>>>>>,
                           {}, {"m1", "m2", "NULL"}),
         cluster |-> setup(<<<<"cluster_enabled", <<"yes">>>>, note(1), <<"notify", <<{"A", "K"}>>>>>>,
                           {}, {"m1", "NULL"})]

\* The setup of a part that is not chosen does not matter.
Init ==
    /\ part \in {"bio", "ae", "clients", "reshard", "config"}
    /\ bioInit /\ aeCreateEventLoop /\ ClientsInit /\ ReshardInit /\ ConfigInit
    /\ part # "bio" => bsetup = "lazy"
    /\ part # "clients" => clsetup = "one"
    /\ part # "reshard" => rsetup = "twice"
    /\ part # "config" => cfsetup = "cluster"

Next ==
    \/ part = "bio" /\ BioNext /\ UNCHANGED <<part, aeVars, clientVars, reshardVars, cfgVars>>
    \/ part = "ae" /\ AeNext /\ UNCHANGED <<part, bioVars, clientVars, reshardVars, cfgVars>>
    \/ part = "clients" /\ ClientsNext /\ UNCHANGED <<part, bioVars, aeVars, reshardVars, cfgVars>>
    \/ part = "reshard" /\ ReshardNext /\ UNCHANGED <<part, bioVars, aeVars, clientVars, cfgVars>>
    \/ part = "config" /\ ConfigNext /\ UNCHANGED <<part, bioVars, aeVars, clientVars, reshardVars>>

\* A thread is scheduled, and the main thread that looks again in freeMemoryIfNeeded()
\* gets a lock that is free again and again; pthread_cond_wait() need not return without
\* a signal.
BioFairness ==
    /\ \A t \in BioTypes : WF_vars(part = "bio" /\ BioThread(t) /\ UNCHANGED <<part, aeVars, clientVars, reshardVars, cfgVars>>)
    /\ SF_vars(part = "bio" /\ BioEvictLook(FALSE) /\ UNCHANGED <<part, aeVars, clientVars, reshardVars, cfgVars>>)

Spec == Init /\ [][Next]_vars /\ BioFairness

-----------------------------------------------------------------------------

\* What the parts promise: the job counters and reference counts of bio.c are exact while
\* threads and the main thread work (BioSound); clients, slaves and subscribers get the
\* output they are owed, in order, and no list names a client that is gone (ClientsSound);
\* whenever CONFIG REWRITE is interrupted, the server starts again with redis.conf, has the
\* settings of the last rewrite and keeps comments and unknown options (ConfigFileSound).
ServerSound ==
    /\ part = "bio" => BioSound
    /\ part = "clients" => ClientsSound
    /\ part = "config" => ConfigFileSound
=============================================================================
