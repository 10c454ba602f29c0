-------------------------------- MODULE Aof --------------------------------
(***************************************************************************)
(* The append only file (aof.c): buffering and flushing, the three fsync   *)
(* policies with the background fsync thread, write errors, background     *)
(* rewrites with the pipes between parent and child, switching the file on *)
(* and off, crashes and power failures, and loading with                   *)
(* aof-load-truncated set.                                                 *)
(*                                                                         *)
(* The data set is the sequence of the writes executed, each with its      *)
(* database.  A command takes two pieces in a buffer or file, so that it   *)
(* can be torn; the rewritten snapshot is one piece.                       *)
(***************************************************************************)
EXTENDS Integers, Sequences, SequencesExt

CONSTANT Setups     \* the configurations that are looked at, see Setup below

VARIABLES
    data,   \* the data set in memory
    aof,    \* the aof_* fields of the server
    file,   \* the file called aof_filename
    child,  \* the rewriting child, and the pipe to it
    bio,    \* the queue of BIO_AOF_FSYNC jobs
    ghost,  \* what clients were told
    used,   \* how much of the bounds has been used
    setup   \* the configuration, one of Setups; never changes

vars == <<data, aof, file, child, bio, ghost, used, setup>>

\* A configuration: the databases in use, appendfsync,
\* no-appendfsync-on-rewrite, aof-use-rdb-preamble, whether a crash may lose
\* what was not synced, and how often the events of Bounds happen.
Bounds == {"writes", "rewrites", "failures", "toggles", "saves", "crashes"}
Setup == [dbs : SUBSET Nat, fsync : {"always", "everysec", "no"},
          nofsync : BOOLEAN, preamble : BOOLEAN, powerloss : BOOLEAN,
          max : [Bounds -> Nat]]

ASSUME AofAssumption == Setups \subseteq Setup

Fsync == setup.fsync
Limit == setup.max

-----------------------------------------------------------------------------
(* Files and buffers are sequences of pieces. *)

None == [none |-> TRUE]

Cmd(op, arg) == << [op |-> op, arg |-> arg, part |-> 1], [op |-> op, arg |-> arg, part |-> 2] >>
Snapshot(d) == << [op |-> "snapshot", arg |-> d, part |-> 0] >>
Zero == [op |-> "zero", arg |-> 0, part |-> 0]

Smaller(a, b) == IF a < b THEN a ELSE b

\* ftruncate(2): cuts, or extends with zeros.
Truncate(seq, size) ==
    IF size <= Len(seq) THEN SubSeq(seq, 1, size)
    ELSE seq \o [i \in 1..(size - Len(seq)) |-> Zero]

\* One piece read by loadAppendOnlyFile().  Commands between MULTI and EXEC
\* are executed when they are read.  After an RDB preamble valid_up_to stays.
Read(preamble, st, piece) ==
    CASE st.bad -> st
      [] ~st.bad /\ piece.op = "snapshot" /\ st.half = None ->
           [st EXCEPT !.data = piece.arg, !.pos = st.pos + 1,
                      !.valid = IF preamble THEN st.valid ELSE st.pos + 1]
      [] ~st.bad /\ piece.part = 1 /\ st.half = None -> [st EXCEPT !.half = piece, !.pos = st.pos + 1]
      [] ~st.bad /\ piece.part = 2 /\ st.half = [op |-> piece.op, arg |-> piece.arg, part |-> 1] ->
           [st EXCEPT !.half  = None, !.pos = st.pos + 1, !.valid = st.pos + 1,
                      !.db    = IF piece.op = "select" THEN piece.arg ELSE st.db,
                      !.data  = IF piece.op = "set" THEN Append(st.data, <<st.db, piece.arg>>) ELSE st.data,
                      !.multi = piece.op = "multi" \/ (st.multi /\ piece.op # "exec")]
      [] OTHER -> [st EXCEPT !.bad = TRUE]

LoadStart == [data |-> <<>>, db |-> 0, multi |-> FALSE, half |-> None, valid |-> 0, pos |-> 0, bad |-> FALSE]

\* loadAppendOnlyFile(): `bad' is a format error, on which the server exits.
LoadAs(preamble, content) ==
    LET st[n \in 0..Len(content)] ==
            IF n = 0 THEN LoadStart ELSE Read(preamble, st[n - 1], content[n])
    IN  st[Len(content)]

Load(content) == LoadAs(setup.preamble, content)

\* What is left of the file: an unexpected end is cut off at valid_up_to.
LoadedFile(content) ==
    LET st == Load(content)
    IN  IF st.half # None \/ st.multi THEN SubSeq(content, 1, st.valid) ELSE content

-----------------------------------------------------------------------------
(* The state after the server has started with the given file. *)

StartedAof(size) ==
    [state |-> "ON", fd |-> "file", selected_db |-> -1, buf |-> <<>>, size |-> size,
     write_ok |-> TRUE, postponed |-> FALSE, elapsed |-> FALSE,
     rwbuf |-> <<>>, scheduled |-> FALSE, rdb_child |-> FALSE]

\* The process ends, with `content' left of the file, and starts again.
RestartFrom(content, synced) ==
    LET kept == LoadedFile(content)
    IN  /\ data' = Load(content).data
        /\ file' = [content |-> kept, synced |-> Smaller(synced, Len(kept))]
        /\ aof' = StartedAof(Len(kept))
        /\ child' = None
        /\ bio' = <<>>

-----------------------------------------------------------------------------
(* Feeding. *)

\* Replies wait in the output buffers until beforeSleep() has flushed the file.
\* Only appendfsync always promises something about them.
Replies(values) == IF Fsync = "always" THEN values ELSE {}
NoReplies == [ghost EXCEPT !.replies = {}]

WithSelect(db, cmds) ==
    IF db = aof.selected_db THEN cmds ELSE Cmd("select", db) \o cmds

\* propagate() and feedAppendOnlyFile().
feedAppendOnlyFile(db, cmds) ==
    aof' = IF aof.state = "OFF" THEN aof
           ELSE [aof EXCEPT !.selected_db = db,
                            !.buf   = IF aof.state = "ON" THEN aof.buf \o WithSelect(db, cmds) ELSE aof.buf,
                            !.rwbuf = IF child # None THEN aof.rwbuf \o WithSelect(db, cmds) ELSE aof.rwbuf]

\* A write command; it is refused after an error writing the file.
Write(db) ==
    /\ aof.write_ok
    /\ used.writes < Limit.writes
    /\ LET v == used.writes + 1
       IN  /\ data' = Append(data, <<db, v>>)
           /\ feedAppendOnlyFile(db, Cmd("set", v))
           /\ ghost' = [ghost EXCEPT !.replies = ghost.replies \cup Replies({v})]
    /\ used' = [used EXCEPT !.writes = used.writes + 1]
    /\ UNCHANGED <<file, child, bio>>

\* A transaction is propagated between MULTI and EXEC.
TxCommands(v) == Cmd("multi", 0) \o Cmd("set", v) \o Cmd("set", v + 1) \o Cmd("exec", 0)

\* EXEC of a transaction of two writes.
Exec(db) ==
    /\ aof.write_ok
    /\ used.writes + 1 < Limit.writes
    /\ LET v == used.writes + 1
       IN  /\ data' = data \o << <<db, v>>, <<db, v + 1>> >>
           /\ feedAppendOnlyFile(db, TxCommands(v))
           /\ ghost' = [ghost EXCEPT !.txs = ghost.txs \cup {v},
                                  !.replies = ghost.replies \cup Replies({v, v + 1})]
    /\ used' = [used EXCEPT !.writes = used.writes + 2]
    /\ UNCHANGED <<file, child, bio>>

-----------------------------------------------------------------------------
(* Flushing. *)

ChildActive == child # None \/ aof.rdb_child
SyncInProgress == Fsync = "everysec" /\ bio # <<>>

\* Mutant: the buffer is written a chunk at a time, the rest with the next flush.
WriteResults_Chunks(n) == {[n |-> IF aof.fd = "file" THEN Smaller(n, 6) ELSE 0, undone |-> FALSE]}

\* What write(2) may do: everything, an error, or a short write that
\* ftruncate(2) then can or cannot undo.
WriteResults(n) ==
    IF aof.fd # "file" THEN {[n |-> 0, undone |-> FALSE]}
    ELSE {[n |-> n, undone |-> FALSE]}
         \cup (IF used.failures < Limit.failures
               THEN {[n |-> k, undone |-> u] : k \in 0..(n - 1), u \in BOOLEAN}
               ELSE {})

Spent(res, n) ==
    IF aof.fd = "file" /\ res.n < n THEN [used EXCEPT !.failures = used.failures + 1] ELSE used

\* The file, the buffer and aof_current_size after a write.
AfterWrite(res) ==
    [content |-> IF res.undone THEN Truncate(file.content \o SubSeq(aof.buf, 1, res.n), aof.size)
                 ELSE file.content \o SubSeq(aof.buf, 1, res.n),
     buf  |-> IF res.undone THEN aof.buf ELSE SubSeq(aof.buf, res.n + 1, Len(aof.buf)),
     size |-> IF res.undone THEN aof.size ELSE aof.size + res.n]

\* Mutant: the fsync is left to the background thread.
SyncsNow_Never == FALSE

SyncsNow == Fsync = "always"

\* The write and the fsync of flushAppendOnlyFile().
Flushed(res) ==
    LET w    == AfterWrite(res)
        full == res.n = Len(aof.buf)
        sync == full /\ ~(setup.nofsync /\ ChildActive)
        due  == sync /\ Fsync = "everysec" /\ aof.elapsed
    IN  [aof  |-> [aof EXCEPT !.buf = w.buf, !.size = w.size, !.write_ok = full,
                              !.postponed = FALSE, !.elapsed = aof.elapsed /\ ~due],
         file |-> [content |-> w.content,
                   synced  |-> IF sync /\ SyncsNow THEN Len(w.content)
                               ELSE Smaller(file.synced, Len(w.content))],
         bio  |-> IF due /\ ~SyncInProgress THEN Append(bio, "current") ELSE bio]

\* With appendfsync always an error makes the server exit.
ExitOnError(res) == RestartFrom(AfterWrite(res).content, file.synced)

\* flushAppendOnlyFile(force): `late' says that a postponed flush has waited
\* two seconds.
Flush(force, late, res) ==
    IF aof.buf = <<>> THEN UNCHANGED <<data, aof, file, child, bio>>
    ELSE IF SyncInProgress /\ ~force /\ ~(aof.postponed /\ late)
         THEN aof' = [aof EXCEPT !.postponed = TRUE] /\ UNCHANGED <<data, file, child, bio>>
    ELSE IF Fsync = "always" /\ res.n < Len(aof.buf) THEN ExitOnError(res)
    ELSE /\ aof' = Flushed(res).aof /\ file' = Flushed(res).file /\ bio' = Flushed(res).bio
         /\ UNCHANGED <<data, child>>

\* beforeSleep().
beforeSleep ==
    \E late \in BOOLEAN, res \in WriteResults(Len(aof.buf)) :
       /\ Flush(FALSE, late, res)
       /\ used' = Spent(res, Len(aof.buf))
       /\ ghost' = [ghost EXCEPT !.replies = {},
                                !.acked = IF aof.state = "ON" /\ res.n = Len(aof.buf)
                                          THEN ghost.acked \cup ghost.replies ELSE ghost.acked]

\* serverCron() retries a postponed or failed flush.
CronFlush ==
    /\ aof.postponed \/ ~aof.write_ok
    /\ \E late \in BOOLEAN, res \in WriteResults(Len(aof.buf)) :
         Flush(FALSE, late, res) /\ used' = Spent(res, Len(aof.buf))
    /\ UNCHANGED ghost

\* A second passes since aof_last_fsync.
Tick ==
    /\ ~aof.elapsed /\ Fsync = "everysec"
    /\ aof' = [aof EXCEPT !.elapsed = TRUE]
    /\ UNCHANGED <<data, file, child, bio, ghost, used>>

\* The bio thread ends a job; a job may be for a file replaced since.
BioFsync ==
    /\ bio # <<>>
    /\ file' = IF Head(bio) = "current" THEN [file EXCEPT !.synced = Len(file.content)] ELSE file
    /\ bio' = Tail(bio)
    /\ UNCHANGED <<data, aof, child, ghost, used>>

-----------------------------------------------------------------------------
(* Rewriting. *)

\* The parent after the fork: the next command starts with a SELECT.
Forked == [aof EXCEPT !.scheduled = FALSE, !.selected_db = -1]

NewChild == [phase |-> "saving", out |-> Snapshot(data), pipe |-> <<>>, stop |-> FALSE]

\* rewriteAppendOnlyFileBackground(), for BGREWRITEAOF and for a rewrite that
\* the cron finds scheduled or due.
Rewrite ==
    /\ ~ChildActive
    /\ used.rewrites < Limit.rewrites
    /\ aof' = Forked /\ child' = NewChild
    /\ used' = [used EXCEPT !.rewrites = used.rewrites + 1]
    /\ UNCHANGED <<data, file, bio, ghost>>

bgrewriteaofCommand ==
    \/ Rewrite
    \/ /\ child = None /\ aof.rdb_child /\ ~aof.scheduled
       /\ aof' = [aof EXCEPT !.scheduled = TRUE]
       /\ UNCHANGED <<data, file, child, bio, ghost, used>>

\* The pipe takes some of the buffered differences.
aofChildWriteDiffData ==
    /\ child # None /\ ~child.stop /\ child.phase \notin {"exited", "failed"}
    /\ \E n \in 1..Len(aof.rwbuf) :
         /\ child' = [child EXCEPT !.pipe = child.pipe \o SubSeq(aof.rwbuf, 1, n)]
         /\ aof' = [aof EXCEPT !.rwbuf = SubSeq(aof.rwbuf, n + 1, Len(aof.rwbuf))]
    /\ UNCHANGED <<data, file, bio, ghost, used>>

\* The child has written the snapshot and asks the parent to stop.
ChildAsksToStop ==
    /\ child # None /\ child.phase = "saving"
    /\ child' = [child EXCEPT !.phase = "asked"]
    /\ UNCHANGED <<data, aof, file, bio, ghost, used>>

aofChildPipeReadable ==
    /\ child # None /\ child.phase = "asked"
    /\ child' = [child EXCEPT !.phase = "acked", !.stop = TRUE]
    /\ UNCHANGED <<data, aof, file, bio, ghost, used>>

\* The child reads the rest of the pipe, appends it, syncs and exits.
ChildExits ==
    /\ child # None /\ child.phase = "acked"
    /\ child' = [child EXCEPT !.phase = "exited", !.out = child.out \o child.pipe, !.pipe = <<>>]
    /\ UNCHANGED <<data, aof, file, bio, ghost, used>>

ChildFails ==
    /\ child # None /\ child.phase \notin {"exited", "failed"}
    /\ used.failures < Limit.failures
    /\ child' = [child EXCEPT !.phase = "failed"]
    /\ used' = [used EXCEPT !.failures = used.failures + 1]
    /\ UNCHANGED <<data, aof, file, bio, ghost>>

\* The end of every rewrite: one that was to switch the file on is repeated.
Cleaned(a) == [a EXCEPT !.rwbuf = <<>>, !.scheduled = a.scheduled \/ a.state = "WAIT_REWRITE"]

\* Mutant: the ordinary buffer is kept when the file is replaced.
Replaced_KeepsBuffer(size) ==
    [aof EXCEPT !.fd = "file", !.selected_db = -1, !.size = size,
                !.state = IF aof.state = "WAIT_REWRITE" THEN "ON" ELSE aof.state]

\* The new file is in use if the file descriptor says that AOF is enabled.
Replaced(size) ==
    IF aof.fd = "none" THEN aof
    ELSE [aof EXCEPT !.fd = "file", !.selected_db = -1, !.size = size, !.buf = <<>>,
                     !.state = IF aof.state = "WAIT_REWRITE" THEN "ON" ELSE aof.state]

\* backgroundRewriteDoneHandler() of a child that succeeded: the rest of the
\* differences is appended and the file replaces the old one.
RewriteDone ==
    /\ child # None /\ child.phase = "exited"
    /\ LET content == child.out \o aof.rwbuf
           enabled == aof.fd # "none"
       IN  /\ aof' = Cleaned(Replaced(Len(content)))
           /\ file' = [content |-> content,
                       synced |-> IF enabled /\ Fsync = "always" THEN Len(content)
                                  ELSE Len(child.out)]
           /\ bio' = [i \in 1..Len(bio) |-> "old"]
                        \o (IF enabled /\ Fsync = "everysec" THEN <<"current">> ELSE <<>>)
    /\ child' = None
    /\ UNCHANGED <<data, ghost, used>>

\* The child failed, or the differences could not be appended.
RewriteFailed ==
    /\ child # None
    /\ \/ child.phase = "failed" /\ UNCHANGED used
       \/ /\ child.phase = "exited"
          /\ used.failures < Limit.failures /\ used' = [used EXCEPT !.failures = used.failures + 1]
    /\ aof' = Cleaned(aof) /\ child' = None
    /\ UNCHANGED <<data, file, bio, ghost>>

-----------------------------------------------------------------------------
(* Switching on and off, saves, crashes. *)

\* CONFIG SET appendonly yes.  When the rewrite cannot be started the file is
\* closed, but aof_fd keeps its number.
startAppendOnly ==
    /\ aof.state = "OFF"
    /\ used.toggles < Limit.toggles
    /\ used' = [used EXCEPT !.toggles = used.toggles + 1]
    /\ \/ /\ aof.rdb_child
          /\ aof' = [aof EXCEPT !.state = "WAIT_REWRITE", !.fd = "file", !.elapsed = FALSE,
                                !.scheduled = TRUE]
          /\ UNCHANGED child
       \/ /\ ~ChildActive
          /\ aof' = [Forked EXCEPT !.state = "WAIT_REWRITE", !.fd = "file", !.elapsed = FALSE]
          /\ child' = NewChild
       \/ /\ child # None
          /\ aof' = [aof EXCEPT !.fd = "closed", !.elapsed = FALSE]
          /\ UNCHANGED child
    /\ UNCHANGED <<data, file, bio, ghost>>

\* CONFIG SET appendonly no: flush, sync, close, kill the child.
stopAppendOnly ==
    /\ aof.state # "OFF"
    /\ used.toggles < Limit.toggles
    /\ \E res \in WriteResults(Len(aof.buf)) :
         /\ Fsync = "always" => res.n = Len(aof.buf)
         /\ LET f == IF aof.buf = <<>> THEN [aof |-> aof, file |-> file, bio |-> bio]
                     ELSE Flushed(res)
            IN  /\ aof' = [f.aof EXCEPT !.state = "OFF", !.fd = "none", !.selected_db = -1,
                                        !.rwbuf = <<>>]
                /\ file' = [f.file EXCEPT !.synced = Len(f.file.content)]
                /\ bio' = [i \in 1..Len(f.bio) |-> "old"]
         /\ used' = [Spent(res, Len(aof.buf)) EXCEPT !.toggles = used.toggles + 1]
    /\ child' = None
    /\ ghost' = [ghost EXCEPT !.acked = {}]
    /\ UNCHANGED data

\* A BGSAVE child starts or ends: it delays rewrites and may delay fsyncs.
bgsave ==
    \/ /\ ~ChildActive /\ used.saves < Limit.saves
       /\ aof' = [aof EXCEPT !.rdb_child = TRUE]
       /\ used' = [used EXCEPT !.saves = used.saves + 1]
       /\ UNCHANGED <<data, file, child, bio, ghost>>
    \/ /\ aof.rdb_child
       /\ aof' = [aof EXCEPT !.rdb_child = FALSE]
       /\ UNCHANGED <<data, file, child, bio, ghost, used>>

\* How much of the file may be left after a crash.
Survives == IF setup.powerloss THEN file.synced..Len(file.content) ELSE {Len(file.content)}

Crash ==
    /\ used.crashes < Limit.crashes
    /\ \E n \in Survives : RestartFrom(SubSeq(file.content, 1, n), file.synced)
    /\ used' = [used EXCEPT !.crashes = used.crashes + 1]
    /\ ghost' = NoReplies

\* The writes whose pieces the parent appends to the rewritten file.
Differences == {aof.rwbuf[i].arg : i \in {j \in 1..Len(aof.rwbuf) : aof.rwbuf[j].op = "set"}}

\* backgroundRewriteDoneHandler() cut short between the rename(2) and the
\* fsync: the old file is gone, and of the new one only what the child wrote is
\* synced.  The differences were acknowledged when the old file was synced, and
\* nothing makes them durable any more: they are no longer counted as such.
CrashAfterRename ==
    /\ child # None /\ child.phase = "exited"
    /\ used.crashes < Limit.crashes
    /\ LET content == child.out \o aof.rwbuf
           synced  == Len(child.out)
       IN  \E n \in IF setup.powerloss THEN synced..Len(content) ELSE {Len(content)} :
              RestartFrom(SubSeq(content, 1, n), synced)
    /\ used' = [used EXCEPT !.crashes = used.crashes + 1]
    /\ ghost' = [ghost EXCEPT !.replies = {}, !.acked = ghost.acked \ Differences]

\* SHUTDOWN, refused while the first file is being written, then a start.
prepareForShutdown ==
    /\ used.crashes < Limit.crashes
    /\ aof.state = "ON"
    /\ \E res \in WriteResults(Len(aof.buf)) :
         /\ LET content == AfterWrite(res).content
            IN  RestartFrom(content, IF Fsync = "always" /\ res.n < Len(aof.buf)
                                     THEN file.synced ELSE Len(content))
         /\ used' = [Spent(res, Len(aof.buf)) EXCEPT !.crashes = used.crashes + 1]
    /\ ghost' = NoReplies

-----------------------------------------------------------------------------

Init ==
    /\ setup \in Setups
    /\ data = <<>>
    /\ aof = StartedAof(0)
    /\ file = [content |-> <<>>, synced |-> 0]
    /\ child = None
    /\ bio = <<>>
    /\ ghost = [replies |-> {}, acked |-> {}, txs |-> {}]
    /\ used = [writes |-> 0, rewrites |-> 0, failures |-> 0, toggles |-> 0,
               saves |-> 0, crashes |-> 0]

Step ==
    \/ \E db \in setup.dbs : Write(db) \/ Exec(db)
    \/ beforeSleep \/ CronFlush \/ Tick \/ BioFsync
    \/ bgrewriteaofCommand \/ aofChildWriteDiffData \/ ChildAsksToStop
    \/ aofChildPipeReadable \/ ChildExits \/ ChildFails \/ RewriteDone \/ RewriteFailed
    \/ startAppendOnly \/ stopAppendOnly \/ bgsave \/ Crash \/ CrashAfterRename
    \/ prepareForShutdown

Next == Step /\ UNCHANGED setup

Spec == Init /\ [][Next]_vars

-----------------------------------------------------------------------------
(* Properties. *)

TypeOK ==
    /\ aof.state \in {"OFF", "ON", "WAIT_REWRITE"}
    /\ aof.fd \in {"none", "file", "closed"}
    /\ aof.size \in Nat
    /\ file.synced \in 0..Len(file.content)
    /\ child = None \/ child.phase \in {"saving", "asked", "acked", "exited", "failed"}

LoadsPrefix ==
    \A n \in Survives :
        LET st == Load(SubSeq(file.content, 1, n))
        IN  ~st.bad /\ IsPrefix(st.data, data)

\* With appendfsync always, every write a client has a reply to survives a
\* power failure (aof.c: "we have the contract with the user"), through write
\* errors, rewrites and file switches.  The one exception is the differences
\* that a power failure between the rename and the fsync of a rewritten file
\* takes (CrashAfterRename); what the child had written survives that too.
AckedIsDurable ==
    Fsync = "always" /\ ~setup.nofsync =>
        LET loaded == Load(SubSeq(file.content, 1, file.synced)).data
        IN  ghost.acked \subseteq {loaded[i][2] : i \in 1..Len(loaded)}

NothingMissing ==
    aof.state = "ON" => Load(file.content \o aof.buf).data = data

\* A data set that was loaded is loaded again, whatever was cut off the file.
LoadStable ==
    \A n \in Survives :
        LET content == SubSeq(file.content, 1, n)
        IN  Load(LoadedFile(content)).data = Load(content).data

\* States and sizes have their types; while AOF is on, the file and the buffer
\* together hold all the data; and the file can be loaded after a crash at any
\* time, to an earlier state of the data set: nothing reordered, repeated or in
\* another database.  A load that cuts the file (aof-load-truncated) keeps what it loaded.
FileHoldsData == TypeOK /\ LoadsPrefix /\ NothingMissing /\ LoadStable

\* If only the process may die and no write fails, a transaction is loaded as a
\* whole or not at all (multi.c: the AOF has "the same consistency and
\* atomicity guarantees"), also while a rewrite is going on.
TransactionsAtomic ==
    ~setup.powerloss /\ Limit.failures = 0 =>
      \A n \in Survives :
        LET loaded == Load(SubSeq(file.content, 1, n)).data
            values == {loaded[i][2] : i \in 1..Len(loaded)}
        IN  \A v \in ghost.txs : v \in values <=> v + 1 \in values
=============================================================================
