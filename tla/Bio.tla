-------------------------------- MODULE Bio --------------------------------
(***************************************************************************)
(* The background threads of bio.c and the objects lazyfree.c hands over    *)
(* to them.  One thread serves each type of job: it takes the first job     *)
(* of its queue and processes it without the lock, and only then, with the  *)
(* lock again, removes it and counts it done.  The main thread's critical   *)
(* sections do not block, so each of its operations is one step, taken      *)
(* when the lock it needs is free; the thread's are broken where it gives   *)
(* the lock up and where it touches what both threads see.                  *)
(***************************************************************************)
EXTENDS Naturals, FiniteSets, FiniteSetsExt, SequencesExt

CONSTANTS
    BioKeys,        \* keys of the database
    BioObjs,        \* addresses of objects
    BioSetups,      \* name -> [serverDel: lazyfree-lazy-server-del, rename: RENAME is used,
                    \*          fsync: the AOF is used, step: bioWaitStepOfType() is used,
                    \*          keys: the keys in use]
    BioMaxJobs      \* bound on the jobs created in a behaviour

BioTypes == {"aof_fsync", "lazy_free"}

ASSUME BioAssumption ==
    /\ BioMaxJobs \in Nat
    /\ \A n \in DOMAIN BioSetups :
          BioSetups[n] \in [serverDel : BOOLEAN, rename : BOOLEAN, fsync : BOOLEAN, step : BOOLEAN,
                           keys : SUBSET BioKeys]

\* A job: the objects to free (one, or those of a database) and what lazyfree_objects
\* counts them as; an fsync has none.
NoJob == [id |-> 0, objs |-> {}, count |-> 0]

VARIABLES
    bsetup,
    bio,            \* type -> [jobs, pending, pc, job, locked, signal]: the queue, the thread
    bmain,          \* what the main thread waits for, or is in the middle of
    bcreated,       \* jobs created so far; a job's identity
    bunsynced,      \* fsync jobs asked for whose fsync() has not returned
    bdb,            \* key -> object
    brc,            \* object -> reference count, 0 when it is free memory
    bread,          \* the count the thread has read in decrRefCount()
    bfreed,         \* lazyfree_objects
    bfault          \* an object was freed twice or used when it was free

bioVars == <<bsetup, bio, bmain, bcreated, bunsynced, bdb, brc, bread, bfreed, bfault>>

BioSetup == BioSetups[bsetup]

BioRunning == bmain.at = "run"

bioInit ==
    /\ bsetup \in DOMAIN BioSetups
    /\ bio = [t \in BioTypes |-> [jobs |-> <<>>, pending |-> 0, pc |-> "start", job |-> NoJob]]
    /\ bmain = [at |-> "run"] /\ bcreated = 0 /\ bunsynced = {}
    /\ bdb = <<>> /\ brc = [o \in BioObjs |-> 0] /\ bread = 0 /\ bfreed = 0 /\ bfault = FALSE

\* The thread has the lock at the top of its loop, the main thread never between steps.
BioUnlocked(t) == bio[t].pc # "loop"

-----------------------------------------------------------------------------
(* The main thread. *)

\* Mutant: the condition is not signalled.
bioCreateBackgroundJob_Silent(b, t, job) == [b EXCEPT ![t].jobs = Append(@, job), ![t].pending = @ + 1]

\* The new job at the end of the queue; the thread that waits is woken up.
bioCreateBackgroundJob(b, t, job) ==
    [b EXCEPT ![t].jobs = Append(@, job), ![t].pending = @ + 1,
              ![t].pc = IF @ = "wait" THEN "woken" ELSE @]

bioPendingJobsOfType(t) == bio[t].pending

BioCanCreate(t) == BioRunning /\ BioUnlocked(t) /\ bcreated < BioMaxJobs

\* flushAppendOnlyFile() with everysec: no fsync while there is one in progress; the end
\* of a rewrite (always) asks for one whatever is in progress.
AofBackgroundFsync(always) ==
    /\ BioSetup.fsync /\ BioCanCreate("aof_fsync")
    /\ always \/ bioPendingJobsOfType("aof_fsync") = 0
    /\ bcreated' = bcreated + 1
    /\ bio' = bioCreateBackgroundJob(bio, "aof_fsync", [NoJob EXCEPT !.id = bcreated'])
    /\ bunsynced' = bunsynced \cup {bcreated'}
    /\ UNCHANGED <<bsetup, bmain, bdb, brc, bread, bfreed, bfault>>

\* incrRefCount() and decrRefCount() of the main thread.
decrRefCount(rc, o) == [rc EXCEPT ![o] = IF @ = 0 THEN 0 ELSE @ - 1]

\* A key is given a new, big value.
BioSet(k) ==
    /\ BioRunning /\ k \notin DOMAIN bdb
    /\ \E o \in BioObjs :
          /\ brc[o] = 0
          /\ bdb' = [x \in DOMAIN bdb \cup {k} |-> IF x = k THEN o ELSE bdb[x]]
          /\ brc' = [brc EXCEPT ![o] = 1]
    /\ UNCHANGED <<bsetup, bio, bmain, bcreated, bunsynced, bread, bfreed, bfault>>

BioWithout(db, k) == [x \in DOMAIN db \ {k} |-> db[x]]

\* UNLINK, lazy expiry and eviction.  The reference the database had goes with the job.
dbAsyncDelete(k) ==
    /\ BioCanCreate("lazy_free") /\ k \in DOMAIN bdb
    /\ bcreated' = bcreated + 1
    /\ bio' = bioCreateBackgroundJob(bio, "lazy_free", [id |-> bcreated', objs |-> {bdb[k]}, count |-> 1])
    /\ bfreed' = bfreed + 1
    /\ bdb' = BioWithout(bdb, k)
    /\ UNCHANGED <<bsetup, bmain, bunsynced, brc, bread, bfault>>

\* DEL: the value is freed at once.
dbSyncDelete(k) ==
    /\ BioRunning /\ k \in DOMAIN bdb
    /\ brc' = decrRefCount(brc, bdb[k])
    /\ bfault' = (bfault \/ brc[bdb[k]] = 0)
    /\ bdb' = BioWithout(bdb, k)
    /\ UNCHANGED <<bsetup, bio, bmain, bcreated, bunsynced, bread, bfreed>>

\* RENAME to a key that does not exist (one that does is deleted first, which is the step
\* dbAsyncDelete or dbSyncDelete): the object is referenced twice while the old key
\* is deleted, which is the background thread's work with lazyfree-lazy-server-del.
renameGenericCommand(src, dst) ==
    /\ BioSetup.rename /\ BioRunning /\ src \in DOMAIN bdb /\ dst \notin DOMAIN bdb
    /\ LET o     == bdb[src]
           moved == [x \in (DOMAIN bdb \cup {dst}) \ {src} |-> IF x = dst THEN o ELSE bdb[x]]
       IN  IF BioSetup.serverDel
           THEN /\ BioCanCreate("lazy_free")
                /\ bcreated' = bcreated + 1 /\ bfreed' = bfreed + 1
                /\ bio' = bioCreateBackgroundJob(bio, "lazy_free", [id |-> bcreated', objs |-> {o}, count |-> 1])
                /\ brc' = [brc EXCEPT ![o] = @ + 1]
                /\ bdb' = moved
           ELSE bdb' = moved /\ UNCHANGED <<bio, bcreated, bfreed, brc>>
    /\ UNCHANGED <<bsetup, bmain, bunsynced, bread, bfault>>

\* FLUSHALL ASYNC: the database is replaced; then, in slotToKeyFlushAsync(), the slots map
\* of a cluster node, when the thread may be at work on the first job.
emptyDbAsync ==
    /\ BioCanCreate("lazy_free") /\ bcreated + 1 < BioMaxJobs
    /\ bcreated' = bcreated + 1
    /\ LET n   == Cardinality(DOMAIN bdb)
           job == [id |-> bcreated', objs |-> {bdb[k] : k \in DOMAIN bdb}, count |-> n]
       IN  /\ bio' = bioCreateBackgroundJob(bio, "lazy_free", job)
           /\ bfreed' = bfreed + n
           /\ bmain' = [at |-> "flush", count |-> n]
    /\ bdb' = <<>>
    /\ UNCHANGED <<bsetup, bunsynced, brc, bread, bfault>>

slotToKeyFlushAsync ==
    /\ bmain.at = "flush" /\ BioUnlocked("lazy_free")
    /\ bcreated' = bcreated + 1 /\ bfreed' = bfreed + bmain.count
    /\ bio' = bioCreateBackgroundJob(bio, "lazy_free", [id |-> bcreated', objs |-> {}, count |-> bmain.count])
    /\ bmain' = [at |-> "run"]
    /\ UNCHANGED <<bsetup, bunsynced, bdb, brc, bread, bfault>>

\* freeMemoryIfNeeded() could free nothing more: it waits for the thread, looking every
\* millisecond, until no job is pending (or the memory suffices).
BioEvictWait == /\ BioRunning /\ bioPendingJobsOfType("lazy_free") # 0 /\ BioUnlocked("lazy_free")
             /\ bmain' = [at |-> "evict"]
             /\ UNCHANGED <<bsetup, bio, bcreated, bunsynced, bdb, brc, bread, bfreed, bfault>>

BioEvictLook(enough) ==
    /\ bmain.at = "evict" /\ BioUnlocked("lazy_free")
    /\ enough \/ bioPendingJobsOfType("lazy_free") = 0
    /\ bmain' = [at |-> "run"]
    /\ UNCHANGED <<bsetup, bio, bcreated, bunsynced, bdb, brc, bread, bfreed, bfault>>

\* bioWaitStepOfType() blocks on the condition that the thread broadcasts.
bioWaitStepOfType(t) ==
    /\ BioSetup.step /\ BioRunning /\ BioUnlocked(t)
    /\ bio[t].pending # 0
    /\ bmain' = [at |-> "step", type |-> t]
    /\ UNCHANGED <<bsetup, bio, bcreated, bunsynced, bdb, brc, bread, bfreed, bfault>>

BioMain ==
    \/ \E always \in BOOLEAN : AofBackgroundFsync(always)
    \/ \E k \in BioSetup.keys : BioSet(k) \/ dbAsyncDelete(k) \/ dbSyncDelete(k)
                          \/ \E d \in BioKeys \ {k} : renameGenericCommand(k, d)
    \/ emptyDbAsync \/ slotToKeyFlushAsync \/ BioEvictWait \/ \E enough \in BOOLEAN : BioEvictLook(enough)
    \/ \E t \in BioTypes : bioWaitStepOfType(t)

-----------------------------------------------------------------------------
(* bioProcessBackgroundJobs(): the thread of type t. *)

BioThreadOnly == UNCHANGED <<bsetup, bmain, bcreated, bunsynced, bdb, brc, bread, bfreed, bfault>>

\* Started, or woken up in pthread_cond_wait(): it needs the lock to go on.
BioLock(t) ==
    /\ bio[t].pc \in {"start", "woken"}
    /\ bio' = [bio EXCEPT ![t].pc = "loop"]
    /\ BioThreadOnly

\* pthread_cond_wait() may return without a signal.
BioSpurious(t) ==
    /\ bio[t].pc = "wait" /\ bio' = [bio EXCEPT ![t].pc = "woken"]
    /\ BioThreadOnly

\* The top of the loop, with the lock.
BioLoopTop(t) ==
    /\ bio[t].pc = "loop"
    /\ bio' = IF bio[t].jobs = <<>> THEN [bio EXCEPT ![t].pc = "wait"]
              ELSE [bio EXCEPT ![t].pc = "job", ![t].job = Head(bio[t].jobs)]
    /\ BioThreadOnly

\* aof_fsync() returns.
BioProcessFsync ==
    /\ bio["aof_fsync"].pc = "job"
    /\ bunsynced' = bunsynced \ {bio["aof_fsync"].job.id}
    /\ bio' = [bio EXCEPT !["aof_fsync"].pc = "done"]
    /\ UNCHANGED <<bsetup, bmain, bcreated, bdb, brc, bread, bfreed, bfault>>

\* decrRefCount() reads the count of an object and writes it back later.  The objects of
\* a database are taken one after the other.
BioLazyRead ==
    /\ bio["lazy_free"].pc = "job"
    /\ IF bio["lazy_free"].job.objs = {}
       THEN /\ bio' = [bio EXCEPT !["lazy_free"].pc = "count"]
            /\ UNCHANGED <<bread, bfault>>
       ELSE /\ bio' = [bio EXCEPT !["lazy_free"].pc = "decr"]
            /\ LET o == CHOOSE x \in bio["lazy_free"].job.objs : TRUE
               IN  bread' = brc[o] /\ bfault' = (bfault \/ brc[o] = 0)
    /\ UNCHANGED <<bsetup, bmain, bcreated, bunsynced, bdb, brc, bfreed>>

BioLazyWrite ==
    /\ bio["lazy_free"].pc = "decr"
    /\ LET o == CHOOSE x \in bio["lazy_free"].job.objs : TRUE
       IN  /\ brc' = [brc EXCEPT ![o] = IF bread = 0 THEN 0 ELSE bread - 1]
           /\ bio' = [bio EXCEPT !["lazy_free"].pc = "job", !["lazy_free"].job.objs = @ \ {o}]
    /\ UNCHANGED <<bsetup, bmain, bcreated, bunsynced, bdb, bread, bfreed, bfault>>

\* atomicDecr() of lazyfree_objects.
BioLazyCount ==
    /\ bio["lazy_free"].pc = "count"
    /\ bfreed' = bfreed - bio["lazy_free"].job.count
    /\ bio' = [bio EXCEPT !["lazy_free"].pc = "done"]
    /\ UNCHANGED <<bsetup, bmain, bcreated, bunsynced, bdb, brc, bread, bfault>>

\* The job is freed and whoever waits for a step is woken up, still without the lock.
BioBroadcast(t) ==
    /\ bio[t].pc = "done"
    /\ bio' = [bio EXCEPT ![t].pc = "relock"]
    /\ bmain' = IF bmain.at = "step" /\ bmain.type = t THEN [at |-> "run"] ELSE bmain
    /\ UNCHANGED <<bsetup, bcreated, bunsynced, bdb, brc, bread, bfreed, bfault>>

\* With the lock again, the node is removed and the counter lowered.
BioRemove(t) ==
    /\ bio[t].pc = "relock"
    /\ bio' = [bio EXCEPT ![t].jobs = RemoveAt(@, CHOOSE i \in DOMAIN @ : @[i].id = bio[t].job.id),
                          ![t].pending = @ - 1, ![t].pc = "loop", ![t].job = NoJob]
    /\ BioThreadOnly

BioThread(t) ==
    \/ BioLock(t) \/ BioLoopTop(t) \/ BioBroadcast(t) \/ BioRemove(t)
    \/ t = "aof_fsync" /\ BioProcessFsync
    \/ t = "lazy_free" /\ (BioLazyRead \/ BioLazyWrite \/ BioLazyCount)

BioNext == BioMain \/ \E t \in BioTypes : BioThread(t) \/ BioSpurious(t)

BioSpec == bioInit /\ [][BioNext]_bioVars

-----------------------------------------------------------------------------

\* The jobs of a queue, the first with what is left to do of it.
BioLeft(t) == [i \in DOMAIN bio[t].jobs |-> IF i = 1 /\ bio[t].job # NoJob THEN bio[t].job ELSE bio[t].jobs[i]]

\* The objects counted in the jobs of a queue.
JobTotal(jobs) ==
    LET total[i \in 0..Len(jobs)] == IF i = 0 THEN 0 ELSE total[i - 1] + jobs[i].count
    IN  total[Len(jobs)]

\* What the counters and the queues say while the thread works outside of the lock: the
\* job in hand is still the first of the queue and still counted, so that no pending
\* fsync means that every fsync asked for has returned; lazyfree_objects counts what is
\* handed over and not freed; every object has as many references as there are keys and
\* jobs that hold it, none is freed twice or used after it.
BioSound ==
    /\ \A t \in BioTypes : /\ bio[t].pending = Len(bio[t].jobs)
                           /\ bio[t].job # NoJob => bio[t].jobs # <<>> /\ bio[t].jobs[1].id = bio[t].job.id
    /\ bioPendingJobsOfType("aof_fsync") = 0 => bunsynced = {}
    /\ bfreed = JobTotal(bio["lazy_free"].jobs)
                - (IF bio["lazy_free"].pc \in {"done", "relock"} THEN bio["lazy_free"].job.count ELSE 0)
    /\ ~bfault
    /\ \A o \in BioObjs :
          brc[o] = Cardinality({k \in DOMAIN bdb : bdb[k] = o})
                   + Cardinality({i \in DOMAIN BioLeft("lazy_free") : o \in BioLeft("lazy_free")[i].objs})

\* Every job is processed and removed (no wakeup is lost, whenever the job is added), and
\* the wait of freeMemoryIfNeeded() ends.
BioEnds ==
    /\ \A n \in 1..BioMaxJobs :
          LET queued == \E t \in BioTypes : \E i \in DOMAIN bio[t].jobs : bio[t].jobs[i].id = n
          IN  queued ~> ~queued
    /\ bmain.at = "evict" ~> bmain.at = "run"
=============================================================================
