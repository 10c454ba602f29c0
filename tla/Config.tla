------------------------------- MODULE Config -------------------------------
(***************************************************************************)
(* config.c: the settings of a server, the file they are loaded from, CONFIG *)
(* SET and GET, and CONFIG REWRITE, which brings the file up to date while   *)
(* it keeps its comments and its order.                                      *)
(*                                                                           *)
(* The options of one kind are treated alike; the model has one or two of    *)
(* each kind (- in their names is written _).  A line of the file is         *)
(* <<option, words>>, <<"#", text>> or an empty line; a word that should be  *)
(* a number is <<digits, rest>>, so that 2kb is <<2, "kb">>.                 *)
(***************************************************************************)
EXTENDS Integers, Sequences, FiniteSets, SequencesExt

CONSTANTS
    CfgKb,        \* the factor between the units kb, mb and gb
    CfgDirs,      \* the directories there are
    CfgSetups     \* for each setup: the file, what CONFIG SET may be given, the hosts
                  \* SLAVEOF may name

VARIABLES
    cfsetup,
    conf,      \* server.*: the value of every option
    file,      \* the lines of redis.conf
    content,   \* CONFIG REWRITE has written these lines and not cut the padding off yet
    saved      \* the settings the file should give

cfgVars == <<cfsetup, conf, file, content, saved>>

CfgSet == CfgSetups[cfsetup]

NoContent == <<"none">>
Missing == "NULL"
EmptyLine == <<"">>
Signature == <<"#", "Generated by CONFIG REWRITE">>
Hashes == <<"#", "####">>

-----------------------------------------------------------------------------
\* Words

CfgUnits == [bytes |-> 1, b |-> 1, kb |-> CfgKb, mb |-> CfgKb * CfgKb, gb |-> CfgKb * CfgKb * CfgKb]

\* A word that is only digits.
Digits(n) == <<n, "bytes">>

atoi(w) == w[1]

\* getLongLongFromObject takes no unit.
IsNumber(w) == w[2] = "bytes"

IsMemory(w) == w[2] \in DOMAIN CfgUnits

memtoll(w) == IF IsMemory(w) THEN w[1] * CfgUnits[w[2]] ELSE 0

rewriteConfigFormatMemory(n) ==
    LET fits == {u \in {"kb", "mb", "gb"} : n # 0 /\ n % CfgUnits[u] = 0}
    IN  IF fits = {} THEN Digits(n)
        ELSE LET u == CHOOSE u \in fits : \A v \in fits : CfgUnits[v] <= CfgUnits[u]
             IN  <<n \div CfgUnits[u], u>>

yesnotoi(w) == w = "yes"
YesNo(b) == IF b THEN "yes" ELSE "no"

\* The classes of notify-keyspace-events: A stands for all of them but K and E.
NotifyAll == {"g", "l"}
NotifyClasses == NotifyAll \cup {"K", "E"}

keyspaceEventsStringToFlags(s) == (s \ {"A"}) \cup (IF "A" \in s THEN NotifyAll ELSE {})

keyspaceEventsFlagsToString(flags) ==
    IF NotifyAll \subseteq flags THEN {"A"} \cup (flags \ NotifyAll) ELSE flags

ObufClasses == <<"normal", "slave", "pubsub">>

-----------------------------------------------------------------------------
\* The options

\* A number is refused out of lo..hi, or brought into these bounds.
Num(def, lo, hi) == [kind |-> "num", def |-> def, lo |-> lo, hi |-> hi, clip |-> FALSE]

CfgOptions ==
    [daemonize        |-> [kind |-> "yesno", def |-> FALSE],
     slave_read_only  |-> [kind |-> "yesno", def |-> TRUE],
     cluster_enabled  |-> [kind |-> "yesno", def |-> FALSE],
     port             |-> Num(7, 0, 9),
     timeout          |-> Num(0, 0, 99),
     hz               |-> [Num(2, 1, 3) EXCEPT !.clip = TRUE],
     maxmemory        |-> [kind |-> "bytes", def |-> 0],
     lfu_log_factor   |-> Num(10, 0, 99),
     maxmemory_policy |-> [kind |-> "enum", def |-> "noeviction", names |-> {"noeviction", "allkeys-lru"}],
     requirepass      |-> [kind |-> "string", def |-> Missing],
     dbfilename       |-> [kind |-> "string", def |-> "dump.rdb"],
     dir              |-> [kind |-> "dir", def |-> "/"],
     bind             |-> [kind |-> "bind", def |-> <<>>],
     save             |-> [kind |-> "save", def |-> <<>>],
     slaveof          |-> [kind |-> "slaveof", def |-> Missing],
     notify           |-> [kind |-> "notify", def |-> {}],
     obuf             |-> [kind |-> "obuf", def |-> [normal |-> <<0, 0, 0>>, slave |-> <<8, 4, 6>>,
                                                     pubsub |-> <<4, 2, 6>>]],
     rename_command   |-> [kind |-> "rename", def |-> {}]]

Kind(o) == CfgOptions[o].kind
Default(o) == CfgOptions[o].def

\* CONFIG SET knows these, and CONFIG REWRITE those, in this order.
Settable == {"slave_read_only", "timeout", "hz", "maxmemory", "lfu_log_factor", "maxmemory_policy",
             "requirepass", "dbfilename", "dir", "save", "notify", "obuf"}
RewriteOrder == <<"daemonize", "port", "bind", "timeout", "save", "dbfilename", "dir", "slaveof",
                  "slave_read_only", "requirepass", "maxmemory", "maxmemory_policy", "cluster_enabled",
                  "notify", "obuf", "hz">>
Rewritten == ToSet(RewriteOrder)

Clip(o, n) == LET k == CfgOptions[o]
              IN  IF ~k.clip THEN n ELSE IF n < k.lo THEN k.lo ELSE IF n > k.hi THEN k.hi ELSE n

InBounds(o, n) == CfgOptions[o].clip \/ n \in CfgOptions[o].lo .. CfgOptions[o].hi

\* The file name is no path.
pathIsBaseName(w) == w # "a/b"

-----------------------------------------------------------------------------
\* Loading

\* A line is refused: the server does not start.
BadLine(o, w) ==
    CASE o = "lfu_log_factor" -> FALSE      \* what is tested is maxmemory_samples
      [] Kind(o) = "num"    -> ~InBounds(o, atoi(w[1]))
      [] Kind(o) = "yesno"  -> w[1] \notin {"yes", "no"}
      [] Kind(o) = "enum"   -> w[1] \notin CfgOptions[o].names
      [] Kind(o) = "string" -> o = "dbfilename" /\ ~pathIsBaseName(w[1])
      [] Kind(o) = "dir"    -> w[1] \notin CfgDirs
      [] Kind(o) = "save"   -> Len(w) = 2 /\ (atoi(w[1]) < 1 \/ atoi(w[2]) < 0)
      [] Kind(o) = "notify" -> ~(w[1] \subseteq NotifyClasses \cup {"A"})
      [] Kind(o) = "obuf"   -> w[1] \notin ToSet(ObufClasses) \/ atoi(w[4]) < 0
      [] OTHER -> FALSE

\* The value of an option after a line with the words w; `old` is the value before.
LoadValue(o, w, old) ==
    CASE Kind(o) = "num"    -> Clip(o, atoi(w[1]))
      [] Kind(o) = "yesno"  -> yesnotoi(w[1])
      [] Kind(o) = "bytes"  -> memtoll(w[1])
      [] Kind(o) = "bind"   -> w
      [] Kind(o) = "save"   -> IF Len(w) = 2 THEN Append(old, <<atoi(w[1]), atoi(w[2])>>) ELSE <<>>
      [] Kind(o) = "notify" -> keyspaceEventsStringToFlags(w[1])
      [] Kind(o) = "obuf"   -> [old EXCEPT ![w[1]] = <<memtoll(w[2]), memtoll(w[3]), atoi(w[4])>>]
      [] Kind(o) = "rename" -> old \cup {w}
      [] OTHER -> w[1]

LoadLine(r, line) ==
    IF line[1] \in {"#", ""} \/ ~r.ok THEN r
    ELSE IF BadLine(line[1], line[2]) THEN [r EXCEPT !.ok = FALSE]
    ELSE [r EXCEPT !.conf[line[1]] = LoadValue(line[1], line[2], r.conf[line[1]])]

\* main() has reset the save points of the defaults.
loadServerConfig(lines) ==
    LET r == FoldLeft(LoadLine, [ok |-> TRUE, conf |-> [o \in DOMAIN CfgOptions |-> Default(o)]], lines)
    IN  [r EXCEPT !.ok = r.ok /\ ~(r.conf.cluster_enabled /\ r.conf.slaveof # Missing)]

-----------------------------------------------------------------------------
\* CONFIG SET and GET

\* Goes to badfmt: nothing is changed.
BadFormat(o, w) ==
    CASE Kind(o) = "num"    -> ~IsNumber(w) \/ ~InBounds(o, w[1])
      [] Kind(o) = "bytes"  -> ~IsMemory(w) \/ memtoll(w) < 0
      [] Kind(o) = "yesno"  -> w \notin {"yes", "no"}
      [] Kind(o) = "enum"   -> w \notin CfgOptions[o].names
      [] Kind(o) = "string" -> o = "dbfilename" /\ ~pathIsBaseName(w)
      [] Kind(o) = "dir"    -> w \notin CfgDirs
      [] Kind(o) = "notify" -> ~(w \subseteq NotifyClasses \cup {"A"})
      [] Kind(o) = "save"   -> \/ Len(w) % 2 = 1
                               \/ \E j \in 1..Len(w) : ~IsNumber(w[j]) \/ w[j][1] < j % 2
      [] Kind(o) = "obuf"   -> \/ Len(w) % 4 # 0
                               \/ \E j \in 1..Len(w) : IF j % 4 = 1 THEN w[j] \notin ToSet(ObufClasses)
                                                       ELSE ~IsMemory(w[j]) \/ memtoll(w[j]) < 0

\* The units of buffer limits are checked, and then dropped.
SetValue(o, w, old) ==
    CASE Kind(o) = "num"    -> Clip(o, w[1])
      [] Kind(o) = "bytes"  -> memtoll(w)
      [] Kind(o) = "yesno"  -> yesnotoi(w)
      [] Kind(o) = "string" -> IF w = "" /\ o # "dbfilename" THEN Missing ELSE w
      [] Kind(o) = "notify" -> keyspaceEventsStringToFlags(w)
      [] Kind(o) = "save"   -> [j \in 1..(Len(w) \div 2) |-> <<atoi(w[2 * j - 1]), atoi(w[2 * j])>>]
      [] Kind(o) = "obuf"   ->
            LET At(c) == {j \in 1..(Len(w) \div 4) : w[4 * j - 3] = c}
                LastOf(c) == CHOOSE j \in At(c) : \A i \in At(c) : i <= j
            IN  [c \in DOMAIN old |-> IF At(c) = {} THEN old[c]
                                      ELSE [i \in 1..3 |-> atoi(w[4 * LastOf(c) - 3 + i])]]
      [] OTHER -> w

configSetCommand(o, w, c) ==
    IF BadFormat(o, w) THEN c ELSE [c EXCEPT ![o] = SetValue(o, w, c[o])]

\* The words of CONFIG GET.
configGetCommand(o, v) ==
    CASE Kind(o) \in {"num", "bytes"} -> Digits(v)
      [] Kind(o) = "yesno"  -> YesNo(v)
      [] Kind(o) = "string" -> IF v = Missing THEN "" ELSE v
      [] Kind(o) = "notify" -> keyspaceEventsFlagsToString(v)
      [] Kind(o) = "save"   -> FlattenSeq([j \in 1..Len(v) |-> <<Digits(v[j][1]), Digits(v[j][2])>>])
      [] Kind(o) = "obuf"   -> FlattenSeq([j \in 1..3 |-> LET c == ObufClasses[j]
                                   IN  <<c, Digits(v[c][1]), Digits(v[c][2]), Digits(v[c][3])>>])
      [] OTHER -> v

-----------------------------------------------------------------------------
\* CONFIG REWRITE

\* The numbers of the lines of an option, in order.
LinesOf(lines, o) == SelectSeq([i \in 1..Len(lines) |-> i], LAMBDA i : lines[i][1] = o)

rewriteConfigReadOldFile(lines) ==
    [lines |-> lines, has_tail |-> Signature \in ToSet(lines),
     option_to_line |-> [o \in DOMAIN CfgOptions |-> LinesOf(lines, o)]]

\* rewriteConfigRewriteLine: the first line of the option that is left is used again.
rewriteConfigRewriteLine(st, o, words, force) ==
    LET l == st.option_to_line[o]
        tail == IF st.has_tail THEN <<>> ELSE <<Signature>>
    IN  IF l # <<>>
        THEN [st EXCEPT !.option_to_line[o] = Tail(l), !.lines[Head(l)] = <<o, words>>]
        ELSE IF force
        THEN [st EXCEPT !.lines = st.lines \o tail \o <<<<o, words>>>>, !.has_tail = TRUE]
        ELSE st

\* The lines an option is written with: their words, and whether they must be there.
OptionLines(o, c) ==
    LET v == c[o]
        one(words) == <<[words |-> words, force |-> v # Default(o)]>>
        forced(words) == [words |-> words, force |-> TRUE]
    IN  CASE Kind(o) = "num"     -> one(<<Digits(v)>>)
          [] Kind(o) = "bytes"   -> one(<<rewriteConfigFormatMemory(v)>>)
          [] Kind(o) = "yesno"   -> one(<<YesNo(v)>>)
          [] Kind(o) = "enum"    -> one(<<v>>)
          [] Kind(o) = "string"  -> IF v = Missing THEN <<>> ELSE one(<<v>>)
          [] Kind(o) = "dir"     -> <<forced(<<v>>)>>
          [] Kind(o) = "bind"    -> IF v = <<>> THEN <<>> ELSE <<forced(v)>>
          [] Kind(o) = "notify"  -> one(<<keyspaceEventsFlagsToString(v)>>)
          [] Kind(o) = "slaveof" -> IF c.cluster_enabled \/ v = Missing THEN <<>> ELSE <<forced(<<v>>)>>
          [] Kind(o) = "save"    -> [j \in 1..Len(v) |-> forced(<<Digits(v[j][1]), Digits(v[j][2])>>)]
          [] Kind(o) = "obuf"    ->
                [j \in 1..3 |-> LET l == ObufClasses[j]
                    IN  [words |-> <<l, rewriteConfigFormatMemory(v[l][1]), rewriteConfigFormatMemory(v[l][2]),
                                     Digits(v[l][3])>>,
                         force |-> v[l] # Default(o)[l]]]

RewriteOption(st, o, c) ==
    FoldLeft(LAMBDA s, l : rewriteConfigRewriteLine(s, o, l.words, l.force), st, OptionLines(o, c))

\* Mutant: the lines of options the rewrite does not know are blanked too.
rewriteConfigRemoveOrphaned_All(st) ==
    LET orphans == UNION {ToSet(st.option_to_line[o]) : o \in DOMAIN CfgOptions}
    IN  [i \in 1..Len(st.lines) |-> IF i \in orphans THEN EmptyLine ELSE st.lines[i]]

rewriteConfigRemoveOrphaned(st) ==
    LET orphans == UNION {ToSet(st.option_to_line[o]) : o \in Rewritten}
    IN  [i \in 1..Len(st.lines) |-> IF i \in orphans THEN EmptyLine ELSE st.lines[i]]

\* Several empty lines become one.
rewriteConfigGetContentFromState(lines) ==
    LET kept == SelectSeq([i \in 1..Len(lines) |-> i],
                          LAMBDA i : lines[i] = EmptyLine => i = 1 \/ lines[i - 1] # EmptyLine)
    IN  [i \in 1..Len(kept) |-> lines[kept[i]]]

rewriteConfig(lines, c) ==
    LET st == FoldLeft(LAMBDA s, o : RewriteOption(s, o, c), rewriteConfigReadOldFile(lines), RewriteOrder)
    IN  rewriteConfigGetContentFromState(rewriteConfigRemoveOrphaned(st))

-----------------------------------------------------------------------------
ConfigInit ==
    /\ cfsetup \in DOMAIN CfgSetups
    /\ file = CfgSet.file /\ conf = loadServerConfig(file).conf
    /\ content = NoContent /\ saved = conf

ConfigSet ==
    /\ content = NoContent
    /\ \E s \in CfgSet.sets : conf' = configSetCommand(s[1], s[2], conf)
    /\ UNCHANGED <<cfsetup, file, content, saved>>

\* SLAVEOF, or a failover of the cluster.
ConfigSlaveOf ==
    /\ content = NoContent
    /\ \E h \in CfgSet.hosts : conf' = [conf EXCEPT !.slaveof = h]
    /\ UNCHANGED <<cfsetup, file, content, saved>>

\* rewriteConfigOverwriteFile: one write, with padding when the old file was longer; one
\* that fails leaves the file as it was and is only reported, so it is no step.  A cluster
\* node does not keep its master in this file.
ConfigWrite ==
    /\ content = NoContent
    /\ content' = rewriteConfig(file, conf)
    /\ \E padding \in {<<>>, <<EmptyLine>>, <<EmptyLine, Hashes>>} :
         /\ Hashes \in ToSet(file) => padding = <<>>     \* bound: one padding is left behind
         /\ file' = content' \o padding
    /\ saved' = [o \in DOMAIN conf |-> IF o \notin Rewritten THEN saved[o]
                                       ELSE IF o = "slaveof" /\ conf.cluster_enabled THEN Missing
                                       ELSE conf[o]]
    /\ UNCHANGED <<cfsetup, conf>>

\* ftruncate(), whose failure is ignored.
ConfigTruncate ==
    /\ content # NoContent /\ file' \in {content, file} /\ content' = NoContent
    /\ UNCHANGED <<cfsetup, conf, saved>>

\* The server ends or is killed, and starts again with the file.
ConfigRestart ==
    /\ conf' = loadServerConfig(file).conf /\ saved' = conf' /\ content' = NoContent
    /\ UNCHANGED <<cfsetup, file>>

ConfigNext == ConfigSet \/ ConfigSlaveOf \/ ConfigWrite \/ ConfigTruncate \/ ConfigRestart

-----------------------------------------------------------------------------

\* What is kept of a file: the comments and the options the rewrite does not know.
Foreign(lines) ==
    SelectSeq(lines, LAMBDA l : l \notin {Signature, Hashes, EmptyLine} /\ l[1] \notin Rewritten)

\* Wherever CONFIG REWRITE is interrupted, a server starts with the file and has the settings
\* of the last rewrite or of the start (those that are rewritten) and nothing else;
\* comments and the options that are not rewritten stay in their order, and a second
\* rewrite changes nothing; a setting that CONFIG GET shows can be given back to CONFIG SET.
ConfigFileSound ==
    LET r == loadServerConfig(file)
    IN  /\ r.ok /\ r.conf = saved
        /\ Foreign(file) = Foreign(CfgSet.file)
        /\ content # NoContent => rewriteConfig(content, conf) = content
        /\ \A o \in Settable : LET w == configGetCommand(o, conf[o])
                               IN  ~BadFormat(o, w) /\ configSetCommand(o, w, conf) = conf
=============================================================================
