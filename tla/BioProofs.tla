----------------------------- MODULE BioProofs -----------------------------
(***************************************************************************)
(* The counters, queues and reference counts of bio.c and lazyfree.c are    *)
(* exact at every step of the threads (BioSound), for any number of keys,   *)
(* objects and jobs.  An object has one holder, a key or a job, so that no  *)
(* two threads count its references; RENAME with lazyfree-lazy-server-del,  *)
(* which hands a shared object over, is left out (Sane).                    *)
(***************************************************************************)
EXTENDS Bio, FiniteSetTheorems, SequenceTheorems, WellFoundedInduction, TLAPS

Jobs == [id : Nat, objs : SUBSET BioObjs, count : Nat]
Idle == {"start", "woken", "loop", "wait"}
Busy == {"job", "decr", "count", "done", "relock"}
Threads == [jobs : Seq(Jobs), pending : Nat, pc : Idle \cup Busy, job : Jobs]
Waits == [at : {"run", "evict"}] \cup [at : {"step"}, type : BioTypes] \cup [at : {"flush"}, count : Nat]

\* The objects of job i of a queue that are still to be freed.
Left(q, i) == IF i = 1 /\ q.pc \in Busy THEN q.job.objs ELSE q.jobs[i].objs

\* The jobs are counted and in the order in which they were created.
QueueOK(q, n) ==
    /\ q.pending = Len(q.jobs)
    /\ \A i \in 1..Len(q.jobs) : q.jobs[i].id \in 1..n
    /\ \A i, j \in 1..Len(q.jobs) : i < j => q.jobs[i].id < q.jobs[j].id

\* The job in hand is the first of the queue.
HandOK(q) ==
    /\ q.pc \in Idle => q.job = NoJob
    /\ q.pc \in Busy => /\ Len(q.jobs) > 0 /\ q.job.id = q.jobs[1].id /\ q.job.count = q.jobs[1].count
                        /\ q.job.objs \subseteq q.jobs[1].objs

\* An fsync that has not returned is one of a job of the queue.
FsyncOK(q, u) ==
    \A n \in u : \E i \in 1..Len(q.jobs) : q.jobs[i].id = n /\ (i = 1 => q.pc \notin {"done", "relock"})

\* What the lazy free thread knows of its job.
LazyOK(q, read) ==
    /\ q.pc = "decr" => q.job.objs # {} /\ read = 1
    /\ q.pc \in {"count", "done", "relock"} => q.job.objs = {}

\* lazyfree_objects.
FreedOK(q, freed) ==
    freed = JobTotal(q.jobs) - IF q.pc \in {"done", "relock"} THEN q.job.count ELSE 0

\* A key, or a job, holds the object.
KeyHolds(db, o) == \E k \in DOMAIN db : db[k] = o
JobHolds(q, o) == \E i \in 1..Len(q.jobs) : o \in Left(q, i)

\* No object has two holders.
OneHolder(q, db) ==
    /\ \A k, l \in DOMAIN db : db[k] = db[l] => k = l
    /\ \A o \in BioObjs : KeyHolds(db, o) => ~JobHolds(q, o)
    /\ \A o \in BioObjs : \A i, j \in 1..Len(q.jobs) : o \in Left(q, i) /\ o \in Left(q, j) => i = j

\* References are counted.
CountOK(q, db, rc) ==
    \A o \in BioObjs : rc[o] = IF KeyHolds(db, o) \/ JobHolds(q, o) THEN 1 ELSE 0

\* A database.
DbOK(db) == IsFiniteSet(DOMAIN db) /\ \A k \in DOMAIN db : db[k] \in BioObjs

\* What the jobs of the lazy free thread hold.
Held(q, db, rc, read, freed) ==
    LazyOK(q, read) /\ FreedOK(q, freed) /\ OneHolder(q, db) /\ CountOK(q, db, rc)

\* RENAME does not hand objects over.
Sane(u) == ~(u.rename /\ u.serverDel)

\* The types of the state.
TypesOK ==
    /\ bsetup \in DOMAIN BioSetups /\ bio \in [BioTypes -> Threads] /\ bmain \in Waits
    /\ bcreated \in Nat /\ bread \in Nat /\ bfreed \in Int
    /\ brc \in [BioObjs -> Nat] /\ DbOK(bdb)

\* The inductive invariant.
BioInv ==
    /\ TypesOK
    /\ \A t \in BioTypes : QueueOK(bio[t], bcreated) /\ HandOK(bio[t])
    /\ FsyncOK(bio["aof_fsync"], bunsynced)
    /\ Held(bio["lazy_free"], bdb, brc, bread, bfreed)
    /\ bfault = FALSE

-----------------------------------------------------------------------------
(* Induction, and the sum of the counts of a queue. *)

\* A set with 0 that has the successor of each of its members holds 0..b.
LEMMA Climb ==
    ASSUME NEW S, 0 \in S, NEW b \in Nat, \A n \in 0..(b - 1) : n \in S => n + 1 \in S
    PROVE  \A n \in 0..b : n \in S
<1> DEFINE U == {n \in 0..b : n \notin S}
           R == OpToRel(<, Nat)
<1> SUFFICES ASSUME U # {} PROVE FALSE
  OBVIOUS
<1>1. \A m, n \in Nat : <<m, n>> \in R <=> m < n
  BY DEF OpToRel
<1>2. IsWellFoundedOn(R, Nat)
  BY NatLessThanWellFounded
<1>3. U \subseteq Nat
  OBVIOUS
<1> HIDE DEF R
<1>4. PICK m \in U : \A n \in U : ~(<<n, m>> \in R)
  BY <1>2, <1>3, WFMin
<1>5. m \in 0..b /\ m \notin S /\ m # 0
  BY <1>4
<1>6. m - 1 \in 0..(b - 1) /\ m - 1 + 1 = m
  BY <1>5
<1>7. <<m - 1, m>> \in R
  BY <1>1, <1>5, <1>6
<1>8. m - 1 \in S
  BY <1>4, <1>6, <1>7
<1> QED  BY <1>5, <1>6, <1>8

\* The sums of the first 0, 1, ..., n counts.
Sums(q, n, f) == f = [i \in 0..n |-> IF i = 0 THEN 0 ELSE f[i - 1] + q[i].count]

\* Every queue has them.
LEMMA SumsExist ==
    ASSUME NEW q, NEW b \in Nat
    PROVE  \E f : Sums(q, b, f)
<1> DEFINE S == {n \in Nat : \E f : Sums(q, n, f)}
<1>1. 0 \in S
  <2> DEFINE f == [i \in 0..0 |-> 0]
  <2>1. f = [i \in 0..0 |-> IF i = 0 THEN 0 ELSE f[i - 1] + q[i].count]
    OBVIOUS
  <2> HIDE DEF f
  <2>2. Sums(q, 0, f)
    BY <2>1 DEF Sums
  <2> QED  BY <2>2
<1>2. \A n \in 0..(b - 1) : n \in S => n + 1 \in S
  <2> TAKE n \in 0..(b - 1)
  <2> HAVE n \in S
  <2>1. PICK f : Sums(q, n, f)
    OBVIOUS
  <2> DEFINE g == [i \in 0..(n + 1) |-> IF i = n + 1 THEN f[n] + q[n + 1].count ELSE f[i]]
  <2>2. \A i \in 0..n : f[i] = IF i = 0 THEN 0 ELSE f[i - 1] + q[i].count
    BY <2>1, Zenon DEF Sums
  <2>3. \A i \in 0..(n + 1) : g[i] = IF i = 0 THEN 0 ELSE g[i - 1] + q[i].count
    <3> TAKE i \in 0..(n + 1)
    <3>1. CASE i = n + 1
      BY <3>1
    <3>2. CASE i # n + 1
      <4>1. i \in 0..n /\ (i # 0 => i - 1 \in 0..(n + 1) /\ i - 1 # n + 1)
        BY <3>2
      <4> QED  BY <2>2, <4>1
    <3> QED  BY <3>1, <3>2
  <2>4. g = [i \in 0..(n + 1) |-> g[i]]
    OBVIOUS
  <2> HIDE DEF g
  <2>5. g = [i \in 0..(n + 1) |-> IF i = 0 THEN 0 ELSE g[i - 1] + q[i].count]
    BY <2>3, <2>4, Zenon
  <2>6. Sums(q, n + 1, g)
    BY <2>5 DEF Sums
  <2> QED  BY <2>6
<1> HIDE DEF S
<1>3. \A n \in 0..b : n \in S
  BY <1>1, <1>2, Climb
<1>4. b \in S
  BY <1>3
<1> QED  BY <1>4 DEF S

\* How they are computed.
LEMMA SumsSteps ==
    ASSUME NEW q, NEW n \in Nat, NEW f, Sums(q, n, f)
    PROVE  f[0] = 0 /\ \A i \in 1..n : f[i] = f[i - 1] + q[i].count
<1>1. \A i \in 0..n : f[i] = IF i = 0 THEN 0 ELSE f[i - 1] + q[i].count
  BY Zenon DEF Sums
<1> QED  BY <1>1

\* They are numbers.
LEMMA SumsType ==
    ASSUME NEW q \in Seq(Jobs), NEW n \in Nat, n <= Len(q), NEW f, Sums(q, n, f)
    PROVE  \A i \in 0..n : f[i] \in Nat
<1> DEFINE S == {i \in 0..n : f[i] \in Nat}
<1>1. f[0] = 0 /\ \A i \in 1..n : f[i] = f[i - 1] + q[i].count
  BY SumsSteps
<1>2. \A i \in 1..n : q[i].count \in Nat
  <2>1. \A i \in 1..n : q[i] \in Jobs
    OBVIOUS
  <2> QED  BY <2>1 DEF Jobs
<1>3. 0 \in S
  BY <1>1
<1>4. \A i \in 0..(n - 1) : i \in S => i + 1 \in S
  <2> TAKE i \in 0..(n - 1)
  <2> HAVE i \in S
  <2>1. i + 1 \in 1..n /\ (i + 1) - 1 = i /\ f[i] \in Nat
    OBVIOUS
  <2>2. f[i + 1] = f[i] + q[i + 1].count /\ q[i + 1].count \in Nat
    BY <1>1, <1>2, <2>1
  <2> QED  BY <2>1, <2>2
<1> HIDE DEF S
<1>5. \A i \in 0..n : i \in S
  BY <1>3, <1>4, Climb
<1> QED  BY <1>5 DEF S

\* The sums of queues that begin alike are alike.
LEMMA SumsAgree ==
    ASSUME NEW q, NEW p, NEW n \in Nat, NEW m \in Nat, n <= m, \A i \in 1..n : q[i].count = p[i].count,
           NEW f, NEW g, Sums(q, n, f), Sums(p, m, g)
    PROVE  \A i \in 0..n : f[i] = g[i]
<1> DEFINE S == {i \in 0..n : f[i] = g[i]}
<1>1. f[0] = 0 /\ \A i \in 1..n : f[i] = f[i - 1] + q[i].count
  BY SumsSteps
<1>2. g[0] = 0 /\ \A i \in 1..m : g[i] = g[i - 1] + p[i].count
  BY SumsSteps
<1>3. 0 \in S
  BY <1>1, <1>2
<1>4. \A i \in 0..(n - 1) : i \in S => i + 1 \in S
  <2> TAKE i \in 0..(n - 1)
  <2> HAVE i \in S
  <2>1. i + 1 \in 1..n /\ i + 1 \in 1..m /\ (i + 1) - 1 = i /\ f[i] = g[i]
    OBVIOUS
  <2>2. f[i + 1] = f[i] + q[i + 1].count /\ g[i + 1] = g[i] + p[i + 1].count
    BY <1>1, <1>2, <2>1
  <2>3. f[i + 1] = g[i + 1]
    BY <2>1, <2>2
  <2> QED  BY <2>1, <2>3
<1> HIDE DEF S
<1>5. \A i \in 0..n : i \in S
  BY <1>3, <1>4, Climb
<1> QED  BY <1>5 DEF S

\* The total is the last of them.
LEMMA TotalIs ==
    ASSUME NEW q \in Seq(Jobs), NEW f, Sums(q, Len(q), f)
    PROVE  JobTotal(q) = f[Len(q)] /\ JobTotal(q) \in Nat
<1> DEFINE g == CHOOSE h : Sums(q, Len(q), h)
<1>1. Sums(q, Len(q), g)
  OBVIOUS
<1>2. JobTotal(q) = g[Len(q)]
  BY DEF JobTotal, Sums
<1> HIDE DEF g
<1>3. Len(q) \in Nat /\ Len(q) <= Len(q) /\ Len(q) \in 0..Len(q)
  OBVIOUS
<1>4. \A i \in 0..Len(q) : f[i] = g[i]
  BY <1>1, <1>3, SumsAgree
<1>5. \A i \in 0..Len(q) : f[i] \in Nat
  BY <1>3, SumsType
<1> QED  BY <1>2, <1>3, <1>4, <1>5

\* A job is added.
LEMMA TotalAppend ==
    ASSUME NEW q \in Seq(Jobs), NEW j \in Jobs
    PROVE  JobTotal(Append(q, j)) = JobTotal(q) + j.count /\ JobTotal(q) \in Nat
<1> DEFINE p == Append(q, j)
           n == Len(q)
           m == n + 1
<1>1. p \in Seq(Jobs) /\ Len(p) = m /\ n \in Nat /\ p[m] = j /\ \A i \in 1..n : q[i].count = p[i].count
  OBVIOUS
<1>2. m \in Nat /\ n <= m /\ n \in 0..n /\ m \in 1..m /\ m - 1 = n
  OBVIOUS
<1>3. n = Len(q)
  OBVIOUS
<1> HIDE DEF p, n, m
<1>4. PICK f : Sums(q, n, f)
  BY <1>1, SumsExist
<1>5. PICK g : Sums(p, m, g)
  BY <1>2, SumsExist
<1>6. JobTotal(q) = f[n] /\ JobTotal(q) \in Nat
  BY <1>3, <1>4, TotalIs
<1>7. JobTotal(p) = g[m]
  BY <1>1, <1>5, TotalIs
<1>8. \A i \in 0..n : f[i] = g[i]
  BY <1>1, <1>2, <1>4, <1>5, SumsAgree
<1>9. \A i \in 1..m : g[i] = g[i - 1] + p[i].count
  BY <1>2, <1>5, SumsSteps
<1>10. g[m] = g[n] + j.count
  BY <1>1, <1>2, <1>9
<1>11. f[n] = g[n]
  BY <1>2, <1>8
<1> QED  BY <1>6, <1>7, <1>10, <1>11 DEF p

\* The first job is removed.
LEMMA TotalTail ==
    ASSUME NEW q \in Seq(Jobs), NEW p \in Seq(Jobs), Len(q) = Len(p) + 1, \A i \in 1..Len(p) : p[i] = q[i + 1]
    PROVE  JobTotal(q) = q[1].count + JobTotal(p) /\ JobTotal(p) \in Nat
<1> DEFINE n == Len(p)
           m == n + 1
<1>1. n \in Nat /\ m \in Nat /\ n = Len(p) /\ m = Len(q) /\ n \in 0..n /\ n + 1 = m /\ 1 \in 1..m
  OBVIOUS
<1>2. \A i \in 1..m : q[i].count \in Nat
  <2>1. \A i \in 1..m : q[i] \in Jobs
    BY <1>1
  <2> QED  BY <2>1 DEF Jobs
<1>3. \A i \in 1..n : p[i] = q[i + 1]
  OBVIOUS
<1> HIDE DEF n, m
<1>4. PICK f : Sums(q, m, f)
  BY <1>1, SumsExist
<1>5. PICK g : Sums(p, n, g)
  BY <1>1, SumsExist
<1>6. f[0] = 0 /\ \A i \in 1..m : f[i] = f[i - 1] + q[i].count
  BY <1>1, <1>4, SumsSteps
<1>7. g[0] = 0 /\ \A i \in 1..n : g[i] = g[i - 1] + p[i].count
  BY <1>1, <1>5, SumsSteps
<1>8. \A i \in 0..n : g[i] \in Nat
  BY <1>1, <1>5, SumsType
<1> DEFINE T == {i \in 0..n : f[i + 1] = q[1].count + g[i]}
<1>9. 0 \in T
  <2>1. f[1] = f[0] + q[1].count
    BY <1>1, <1>6
  <2> QED  BY <1>1, <1>2, <1>6, <1>7, <2>1
<1>10. \A i \in 0..(n - 1) : i \in T => i + 1 \in T
  <2> TAKE i \in 0..(n - 1)
  <2> HAVE i \in T
  <2>1. i + 1 \in 1..n /\ i + 2 \in 1..m /\ (i + 1) - 1 = i /\ (i + 2) - 1 = i + 1 /\ (i + 1) + 1 = i + 2 /\ i \in 0..n
    BY <1>1
  <2>2. f[i + 2] = f[i + 1] + q[i + 2].count /\ g[i + 1] = g[i] + q[i + 2].count
    BY <1>3, <1>6, <1>7, <2>1
  <2>3. f[i + 1] = q[1].count + g[i] /\ g[i] \in Nat /\ q[1].count \in Nat /\ q[i + 2].count \in Nat
    BY <1>1, <1>2, <1>8, <2>1
  <2>4. f[(i + 1) + 1] = q[1].count + g[i + 1]
    BY <2>1, <2>2, <2>3
  <2> QED  BY <2>1, <2>4
<1> HIDE DEF T
<1>11. \A i \in 0..n : i \in T
  BY <1>1, <1>9, <1>10, Climb
<1>12. f[m] = q[1].count + g[n]
  BY <1>1, <1>11 DEF T
<1>13. JobTotal(q) = f[m]
  BY <1>1, <1>4, TotalIs
<1>14. JobTotal(p) = g[n] /\ JobTotal(p) \in Nat
  BY <1>1, <1>5, TotalIs
<1> QED  BY <1>12, <1>13, <1>14

-----------------------------------------------------------------------------
(* The main thread adds a job to a queue. *)

\* q2 is q with job j at its end.
Grown(q, j, q2) ==
    /\ q2 \in Threads /\ q2.jobs = Append(q.jobs, j) /\ q2.pending = q.pending + 1 /\ q2.job = q.job
    /\ q2.pc = IF q.pc = "wait" THEN "woken" ELSE q.pc

\* bioCreateBackgroundJob() adds the job and leaves the other queues alone.
LEMMA CreateGrows ==
    ASSUME NEW b \in [BioTypes -> Threads], NEW t \in BioTypes, NEW j \in Jobs
    PROVE  /\ bioCreateBackgroundJob(b, t, j) \in [BioTypes -> Threads]
           /\ Grown(b[t], j, bioCreateBackgroundJob(b, t, j)[t])
           /\ \A u \in BioTypes : u # t => bioCreateBackgroundJob(b, t, j)[u] = b[u]
<1> DEFINE q == b[t]
           b2 == bioCreateBackgroundJob(b, t, j)
<1>1. q \in Threads
  OBVIOUS
<1>2. q.jobs \in Seq(Jobs) /\ q.pending \in Nat /\ q.pc \in Idle \cup Busy /\ q.job \in Jobs
  BY <1>1 DEF Threads
<1>3. Append(q.jobs, j) \in Seq(Jobs) /\ q.pending + 1 \in Nat
  BY <1>2
<1>4. (IF q.pc = "wait" THEN "woken" ELSE q.pc) \in Idle \cup Busy
  BY <1>2 DEF Idle
<1>5. /\ b2[t].jobs = Append(q.jobs, j) /\ b2[t].pending = q.pending + 1 /\ b2[t].job = q.job
      /\ b2[t].pc = IF q.pc = "wait" THEN "woken" ELSE q.pc
      /\ \A u \in BioTypes : u # t => b2[u] = b[u]
  BY <1>1 DEF bioCreateBackgroundJob, Threads
<1>6. b2 \in [BioTypes -> Threads]
  BY <1>1, <1>2, <1>3, <1>4 DEF bioCreateBackgroundJob, Threads
<1> HIDE DEF b2
<1>7. b2[t] \in Threads
  BY <1>6
<1>8. Grown(q, j, b2[t])
  BY <1>5, <1>7 DEF Grown
<1> QED  BY <1>5, <1>6, <1>8 DEF b2

\* A thread's fields.
LEMMA ThreadIs ==
    ASSUME NEW q \in Threads
    PROVE  /\ q.jobs \in Seq(Jobs) /\ Len(q.jobs) \in Nat /\ q.pending \in Nat
           /\ q.pc \in Idle \cup Busy /\ q.job \in Jobs
           /\ \A i \in 1..Len(q.jobs) : q.jobs[i] \in Jobs
<1>1. q.jobs \in Seq(Jobs) /\ q.pending \in Nat /\ q.pc \in Idle \cup Busy /\ q.job \in Jobs
  BY DEF Threads
<1> QED  BY <1>1

\* The elements of the longer queue.
LEMMA GrownJobs ==
    ASSUME NEW q \in Threads, NEW j \in Jobs, NEW q2, Grown(q, j, q2)
    PROVE  /\ Len(q2.jobs) = Len(q.jobs) + 1 /\ q2.jobs[Len(q.jobs) + 1] = j
           /\ \A i \in 1..Len(q.jobs) : q2.jobs[i] = q.jobs[i]
           /\ q2.pc \in Busy <=> q.pc \in Busy
           /\ q2.pc \in Busy => q2.pc = q.pc
<1>1. q.jobs \in Seq(Jobs) /\ q2.jobs = Append(q.jobs, j)
  BY ThreadIs DEF Grown
<1>2. q2.pc = IF q.pc = "wait" THEN "woken" ELSE q.pc
  BY DEF Grown
<1>3. /\ q2.pc \in Busy <=> q.pc \in Busy
      /\ q2.pc \in Busy => q2.pc = q.pc
  BY <1>2 DEF Busy
<1> QED  BY <1>1, <1>3

\* The longer queue is in order.
LEMMA GrownQueue ==
    ASSUME NEW q \in Threads, NEW j \in Jobs, NEW q2, Grown(q, j, q2), NEW n \in Nat, NEW m \in Nat,
           QueueOK(q, n), HandOK(q), n < j.id, j.id <= m
    PROVE  QueueOK(q2, m) /\ HandOK(q2)
<1> DEFINE k == Len(q.jobs)
<1>1. /\ Len(q2.jobs) = k + 1 /\ q2.jobs[k + 1] = j
      /\ \A i \in 1..k : q2.jobs[i] = q.jobs[i]
  BY GrownJobs
<1>2. k \in Nat /\ j.id \in Nat /\ \A i \in 1..k : q.jobs[i] \in Jobs
  BY ThreadIs DEF Jobs
<1>3. q2.pending = q.pending + 1 /\ q.pending = k
  BY DEF Grown, QueueOK
<1>4. \A i \in 1..k : q2.jobs[i].id \in 1..n
  BY <1>1 DEF QueueOK
<1>5. \A i, h \in 1..k : i < h => q2.jobs[i].id < q2.jobs[h].id
  BY <1>1 DEF QueueOK
<1>6. q2.jobs[k + 1].id \in 1..m /\ q2.jobs[k + 1].id > n
  BY <1>1, <1>2
<1> HIDE DEF k
<1>7. \A i \in 1..(k + 1) : q2.jobs[i].id \in 1..m
  <2> TAKE i \in 1..(k + 1)
  <2>1. i = k + 1 \/ i \in 1..k
    BY <1>2
  <2>2. CASE i \in 1..k
    <3>1. q2.jobs[i].id \in 1..n /\ n < j.id /\ j.id <= m /\ j.id \in Nat
      BY <1>2, <1>4, <2>2
    <3> QED  BY <3>1
  <2> QED  BY <1>6, <2>1, <2>2
<1>8. \A i, h \in 1..(k + 1) : i < h => q2.jobs[i].id < q2.jobs[h].id
  <2> TAKE i, h \in 1..(k + 1)
  <2> HAVE i < h
  <2>1. i \in 1..k /\ (h = k + 1 \/ h \in 1..k)
    BY <1>2
  <2>2. CASE h = k + 1
    <3>1. q2.jobs[i].id \in 1..n /\ q2.jobs[h].id > n /\ q2.jobs[h].id \in 1..m
      BY <1>4, <1>6, <2>1, <2>2
    <3> QED  BY <3>1
  <2>3. CASE h \in 1..k
    BY <1>5, <2>1, <2>3
  <2> QED  BY <2>1, <2>2, <2>3
<1>9. QueueOK(q2, m)
  BY <1>1, <1>3, <1>7, <1>8 DEF QueueOK
<1>10. HandOK(q2)
  <2>1. q2.pc \in Idle => q2.job = NoJob
    BY GrownJobs, ThreadIs DEF HandOK, Grown, Idle, Busy
  <2>2. ASSUME q2.pc \in Busy  PROVE /\ Len(q2.jobs) > 0 /\ q2.job.id = q2.jobs[1].id
                                     /\ q2.job.count = q2.jobs[1].count /\ q2.job.objs \subseteq q2.jobs[1].objs
    <3>1. q.pc \in Busy /\ q2.job = q.job
      BY <2>2, GrownJobs DEF Grown
    <3>2. k > 0 /\ q.job.id = q.jobs[1].id /\ q.job.count = q.jobs[1].count /\ q.job.objs \subseteq q.jobs[1].objs
      BY <3>1 DEF HandOK, k
    <3>3. q2.jobs[1] = q.jobs[1] /\ Len(q2.jobs) > 0
      BY <1>1, <1>2, <3>2
    <3> QED  BY <3>1, <3>2, <3>3
  <2> QED  BY <2>1, <2>2 DEF HandOK
<1> QED  BY <1>9, <1>10

\* What is left of the jobs.
LEMMA GrownLeft ==
    ASSUME NEW q \in Threads, NEW j \in Jobs, NEW q2, Grown(q, j, q2), HandOK(q)
    PROVE  /\ Left(q2, Len(q.jobs) + 1) = j.objs
           /\ \A i \in 1..Len(q.jobs) : Left(q2, i) = Left(q, i)
<1> DEFINE k == Len(q.jobs)
<1>1. /\ Len(q2.jobs) = k + 1 /\ q2.jobs[k + 1] = j
      /\ \A i \in 1..k : q2.jobs[i] = q.jobs[i]
      /\ q2.pc \in Busy <=> q.pc \in Busy
  BY GrownJobs
<1>2. k \in Nat /\ (q.pc \in Busy => k > 0) /\ q2.job = q.job
  BY ThreadIs DEF HandOK, Grown
<1>3. Left(q2, k + 1) = j.objs
  BY <1>1, <1>2 DEF Left
<1>4. \A i \in 1..k : Left(q2, i) = Left(q, i)
  BY <1>1, <1>2 DEF Left
<1> QED  BY <1>3, <1>4

\* The objects the jobs hold.
LEMMA GrownHolds ==
    ASSUME NEW q \in Threads, NEW j \in Jobs, NEW q2, Grown(q, j, q2), HandOK(q)
    PROVE  \A o : JobHolds(q2, o) <=> JobHolds(q, o) \/ o \in j.objs
<1> DEFINE k == Len(q.jobs)
<1>1. Left(q2, k + 1) = j.objs /\ \A i \in 1..k : Left(q2, i) = Left(q, i)
  BY GrownLeft
<1>2. k \in Nat /\ Len(q2.jobs) = k + 1
  BY ThreadIs, GrownJobs
<1>3. \A o : JobHolds(q2, o) <=> \E i \in 1..(k + 1) : o \in Left(q2, i)
  BY <1>2 DEF JobHolds
<1>4. \A o : JobHolds(q, o) <=> \E i \in 1..k : o \in Left(q, i)
  BY DEF JobHolds
<1> HIDE DEF k
<1>5. \A i : i \in 1..(k + 1) <=> i = k + 1 \/ i \in 1..k
  BY <1>2
<1> QED  BY <1>1, <1>3, <1>4, <1>5, Zenon

\* An object that goes from the database to a job has one holder as before.
LEMMA GrownOne ==
    ASSUME NEW q \in Threads, NEW j \in Jobs, NEW q2, Grown(q, j, q2), HandOK(q),
           NEW db, NEW db2, OneHolder(q, db),
           \A o \in j.objs : KeyHolds(db, o) /\ ~KeyHolds(db2, o),
           DOMAIN db2 \subseteq DOMAIN db, \A x \in DOMAIN db2 : db2[x] = db[x]
    PROVE  OneHolder(q2, db2)
<1> DEFINE k == Len(q.jobs)
<1>1. Left(q2, k + 1) = j.objs /\ \A i \in 1..k : Left(q2, i) = Left(q, i)
  BY GrownLeft
<1>2. k \in Nat /\ Len(q2.jobs) = k + 1
  BY ThreadIs, GrownJobs
<1>3. \A o : JobHolds(q2, o) <=> JobHolds(q, o) \/ o \in j.objs
  BY GrownHolds
<1>4. \A o : KeyHolds(db2, o) => KeyHolds(db, o)
  BY Zenon DEF KeyHolds
<1>5. \A o \in BioObjs : KeyHolds(db, o) => ~JobHolds(q, o)
  BY Zenon DEF OneHolder
<1>6. \A o \in BioObjs : KeyHolds(db2, o) => ~JobHolds(q2, o)
  BY <1>3, <1>4, <1>5, Zenon
<1>7. \A x, y \in DOMAIN db2 : db2[x] = db2[y] => x = y
  BY Zenon DEF OneHolder
<1>8. \A o \in BioObjs : \A i, h \in 1..k : o \in Left(q, i) /\ o \in Left(q, h) => i = h
  BY Zenon DEF OneHolder
<1>9. \A o \in BioObjs : o \in j.objs => \A i \in 1..k : o \notin Left(q, i)
  BY <1>5, Zenon DEF JobHolds
<1> HIDE DEF k
<1>10. \A i : i \in 1..(k + 1) <=> i = k + 1 \/ i \in 1..k
  BY <1>2
<1>11. \A o \in BioObjs : \A i, h \in 1..(k + 1) : o \in Left(q2, i) /\ o \in Left(q2, h) => i = h
  BY <1>1, <1>8, <1>9, <1>10, Zenon
<1> QED  BY <1>2, <1>6, <1>7, <1>11, Zenon DEF OneHolder

\* lazyfree_objects counts the new job.
LEMMA GrownFreed ==
    ASSUME NEW q \in Threads, NEW j \in Jobs, NEW q2, Grown(q, j, q2), NEW f \in Int, FreedOK(q, f)
    PROVE  FreedOK(q2, f + j.count)
<1>1. q.jobs \in Seq(Jobs) /\ q.job \in Jobs
  BY ThreadIs
<1>2. JobTotal(q2.jobs) = JobTotal(q.jobs) + j.count /\ JobTotal(q.jobs) \in Nat
  BY <1>1, TotalAppend DEF Grown
<1>3. q2.pc \in {"done", "relock"} <=> q.pc \in {"done", "relock"}
  BY DEF Grown
<1>4. q2.job.count = q.job.count /\ q.job.count \in Nat /\ j.count \in Nat
  BY <1>1 DEF Grown, Jobs
<1>5. f = JobTotal(q.jobs) - IF q.pc \in {"done", "relock"} THEN q.job.count ELSE 0
  BY DEF FreedOK
<1>6. f + j.count = JobTotal(q2.jobs) - IF q2.pc \in {"done", "relock"} THEN q2.job.count ELSE 0
  BY <1>2, <1>3, <1>4, <1>5
<1> QED  BY <1>6 DEF FreedOK

\* What the thread knows of its job does not change.
LEMMA GrownLazy ==
    ASSUME NEW q \in Threads, NEW j \in Jobs, NEW q2, Grown(q, j, q2), NEW r, LazyOK(q, r)
    PROVE  LazyOK(q2, r)
BY DEF Grown, LazyOK

\* An fsync asked for is the last job.
LEMMA GrownFsync ==
    ASSUME NEW q \in Threads, NEW j \in Jobs, NEW q2, Grown(q, j, q2), NEW u, NEW n, QueueOK(q, n), HandOK(q), FsyncOK(q, u)
    PROVE  FsyncOK(q2, u \cup {j.id})
<1> DEFINE k == Len(q.jobs)
<1>1. /\ Len(q2.jobs) = k + 1 /\ q2.jobs[k + 1] = j
      /\ \A i \in 1..k : q2.jobs[i] = q.jobs[i]
      /\ q2.pc \in Busy <=> q.pc \in Busy
      /\ q2.pc \in Busy => q2.pc = q.pc
  BY GrownJobs
<1>2. k \in Nat /\ (q.pc \in Busy => k > 0)
  BY ThreadIs DEF HandOK
<1>3. ASSUME NEW x \in u
      PROVE  \E i \in 1..Len(q2.jobs) : q2.jobs[i].id = x /\ (i = 1 => q2.pc \notin {"done", "relock"})
  <2>1. PICK i \in 1..k : q.jobs[i].id = x /\ (i = 1 => q.pc \notin {"done", "relock"})
    BY DEF FsyncOK
  <2>2. i \in 1..Len(q2.jobs) /\ q2.jobs[i].id = x
    BY <1>1, <1>2, <2>1
  <2>3. i = 1 => q2.pc \notin {"done", "relock"}
    BY <1>1, <2>1 DEF Busy
  <2> QED  BY <2>2, <2>3
<1>4. \E i \in 1..Len(q2.jobs) : q2.jobs[i].id = j.id /\ (i = 1 => q2.pc \notin {"done", "relock"})
  <2>1. k + 1 \in 1..Len(q2.jobs) /\ q2.jobs[k + 1].id = j.id
    BY <1>1, <1>2
  <2>2. k + 1 = 1 => q2.pc \notin {"done", "relock"}
    BY <1>1, <1>2 DEF Busy
  <2> QED  BY <2>1, <2>2
<1> QED  BY <1>3, <1>4 DEF FsyncOK

\* The lazy free queue with a job that takes over what the database loses.
LEMMA GrownHeld ==
    ASSUME NEW q \in Threads, NEW j \in Jobs, NEW q2, Grown(q, j, q2), HandOK(q),
           NEW db, NEW db2, NEW rc, NEW r, NEW f \in Int, Held(q, db, rc, r, f),
           \A o \in j.objs : KeyHolds(db, o) /\ ~KeyHolds(db2, o),
           \A o : KeyHolds(db, o) => KeyHolds(db2, o) \/ o \in j.objs,
           DOMAIN db2 \subseteq DOMAIN db, \A x \in DOMAIN db2 : db2[x] = db[x]
    PROVE  Held(q2, db2, rc, r, f + j.count)
<1>1. LazyOK(q, r) /\ FreedOK(q, f) /\ OneHolder(q, db) /\ CountOK(q, db, rc)
  BY DEF Held
<1>2. LazyOK(q2, r)
  BY <1>1, GrownLazy
<1>3. FreedOK(q2, f + j.count)
  BY <1>1, GrownFreed
<1>4. OneHolder(q2, db2)
  BY <1>1, GrownOne
<1>5. \A o : JobHolds(q2, o) <=> JobHolds(q, o) \/ o \in j.objs
  BY GrownHolds
<1>6. \A o : KeyHolds(db2, o) => KeyHolds(db, o)
  BY Zenon DEF KeyHolds
<1>7. \A o : (KeyHolds(db2, o) \/ JobHolds(q2, o)) <=> (KeyHolds(db, o) \/ JobHolds(q, o))
  BY <1>5, <1>6, Zenon
<1>8. CountOK(q2, db2, rc)
  <2> SUFFICES ASSUME NEW o \in BioObjs
               PROVE  rc[o] = IF KeyHolds(db2, o) \/ JobHolds(q2, o) THEN 1 ELSE 0
    BY DEF CountOK
  <2>1. rc[o] = IF KeyHolds(db, o) \/ JobHolds(q, o) THEN 1 ELSE 0
    BY <1>1 DEF CountOK
  <2>2. (KeyHolds(db2, o) \/ JobHolds(q2, o)) <=> (KeyHolds(db, o) \/ JobHolds(q, o))
    BY <1>7
  <2> QED  BY <2>1, <2>2
<1> QED  BY <1>2, <1>3, <1>4, <1>8 DEF Held

-----------------------------------------------------------------------------
(* A thread takes a step. *)

\* q2 is q at p with job j in hand.
Stepped(q, p, j, q2) ==
    q2 \in Threads /\ q2.jobs = q.jobs /\ q2.pending = q.pending /\ q2.pc = p /\ q2.job = j

\* Of a queue whose jobs keep what they hold, nothing else changes.
LEMMA SameLeft ==
    ASSUME NEW q, NEW q2, q2.jobs = q.jobs, \A i \in 1..Len(q.jobs) : Left(q2, i) = Left(q, i),
           NEW db, NEW rc, OneHolder(q, db), CountOK(q, db, rc)
    PROVE  OneHolder(q2, db) /\ CountOK(q2, db, rc)
<1>1. \A o : JobHolds(q2, o) <=> JobHolds(q, o)
  BY Zenon DEF JobHolds
<1>2. OneHolder(q2, db)
  BY <1>1, Zenon DEF OneHolder
<1>3. CountOK(q2, db, rc)
  <2> SUFFICES ASSUME NEW o \in BioObjs
               PROVE  rc[o] = IF KeyHolds(db, o) \/ JobHolds(q2, o) THEN 1 ELSE 0
    BY DEF CountOK
  <2>1. rc[o] = IF KeyHolds(db, o) \/ JobHolds(q, o) THEN 1 ELSE 0
    BY DEF CountOK
  <2>2. JobHolds(q2, o) <=> JobHolds(q, o)
    BY <1>1
  <2> QED  BY <2>1, <2>2
<1> QED  BY <1>2, <1>3

\* The step of a thread leaves all that the invariant says of its queue.
Keeps(q, q2, n) ==
    /\ QueueOK(q2, n) /\ HandOK(q2)
    /\ \A u : FsyncOK(q, u) => FsyncOK(q2, u)
    /\ \A db, rc, r, f : Held(q, db, rc, r, f) => Held(q2, db, rc, r, f)

\* Waiting, waking up, locking.
LEMMA IdleStep ==
    ASSUME NEW q \in Threads, NEW p \in Idle, NEW q2, Stepped(q, p, q.job, q2), q.pc \in Idle,
           NEW n, QueueOK(q, n), HandOK(q)
    PROVE  Keeps(q, q2, n)
<1>1. QueueOK(q2, n)
  BY DEF QueueOK, Stepped
<1>2. HandOK(q2)
  BY DEF HandOK, Stepped, Idle, Busy
<1>3. ASSUME NEW u, FsyncOK(q, u)  PROVE FsyncOK(q2, u)
  BY <1>3 DEF FsyncOK, Stepped, Idle
<1>4. ASSUME NEW db, NEW rc, NEW r, NEW f, Held(q, db, rc, r, f)  PROVE Held(q2, db, rc, r, f)
  <2>1. \A i \in 1..Len(q.jobs) : Left(q2, i) = Left(q, i)
    BY DEF Left, Stepped, Idle, Busy
  <2>2. OneHolder(q2, db) /\ CountOK(q2, db, rc)
    <3>1. OneHolder(q, db) /\ CountOK(q, db, rc) /\ q2.jobs = q.jobs
      BY <1>4 DEF Held, Stepped
    <3> QED  BY <2>1, <3>1, SameLeft
  <2>3. LazyOK(q2, r)
    BY DEF LazyOK, Stepped, Idle
  <2>4. FreedOK(q2, f)
    BY <1>4 DEF Held, FreedOK, Stepped, Idle
  <2> QED  BY <2>2, <2>3, <2>4 DEF Held
<1> QED  BY <1>1, <1>2, <1>3, <1>4 DEF Keeps

\* The first job is taken in hand.
LEMMA TakeStep ==
    ASSUME NEW q \in Threads, NEW q2, Stepped(q, "job", q.jobs[1], q2), q.pc = "loop", Len(q.jobs) > 0,
           NEW n, QueueOK(q, n), HandOK(q)
    PROVE  Keeps(q, q2, n)
<1>1. QueueOK(q2, n)
  BY DEF QueueOK, Stepped
<1>2. HandOK(q2)
  BY DEF HandOK, Stepped, Idle, Busy
<1>3. ASSUME NEW u, FsyncOK(q, u)  PROVE FsyncOK(q2, u)
  BY <1>3 DEF FsyncOK, Stepped
<1>4. ASSUME NEW db, NEW rc, NEW r, NEW f, Held(q, db, rc, r, f)  PROVE Held(q2, db, rc, r, f)
  <2>1. \A i \in 1..Len(q.jobs) : Left(q2, i) = Left(q, i)
    BY DEF Left, Stepped, Busy
  <2>2. OneHolder(q2, db) /\ CountOK(q2, db, rc)
    <3>1. OneHolder(q, db) /\ CountOK(q, db, rc) /\ q2.jobs = q.jobs
      BY <1>4 DEF Held, Stepped
    <3> QED  BY <2>1, <3>1, SameLeft
  <2>3. LazyOK(q2, r)
    BY DEF LazyOK, Stepped
  <2>4. FreedOK(q2, f)
    BY <1>4 DEF Held, FreedOK, Stepped
  <2> QED  BY <2>2, <2>3, <2>4 DEF Held
<1> QED  BY <1>1, <1>2, <1>3, <1>4 DEF Keeps

\* The thread goes on with its job.
LEMMA WorkStep ==
    ASSUME NEW q \in Threads, NEW p \in Busy, NEW q2, Stepped(q, p, q.job, q2), q.pc \in Busy,
           NEW n, QueueOK(q, n), HandOK(q)
    PROVE  /\ QueueOK(q2, n) /\ HandOK(q2)
           /\ \A db, rc : OneHolder(q, db) /\ CountOK(q, db, rc) => OneHolder(q2, db) /\ CountOK(q2, db, rc)
<1>1. QueueOK(q2, n)
  BY DEF QueueOK, Stepped
<1>2. HandOK(q2)
  BY DEF HandOK, Stepped, Idle, Busy
<1>3. q2.jobs = q.jobs /\ \A i \in 1..Len(q.jobs) : Left(q2, i) = Left(q, i)
  BY DEF Left, Stepped
<1>4. ASSUME NEW db, NEW rc, OneHolder(q, db), CountOK(q, db, rc)
      PROVE  OneHolder(q2, db) /\ CountOK(q2, db, rc)
  BY <1>3, <1>4, SameLeft
<1> QED  BY <1>1, <1>2, <1>4

\* The job is done and the thread takes the lock again.
LEMMA DoneStep ==
    ASSUME NEW q \in Threads, NEW q2, Stepped(q, "relock", q.job, q2), q.pc = "done",
           NEW n, QueueOK(q, n), HandOK(q)
    PROVE  Keeps(q, q2, n)
<1>1. /\ QueueOK(q2, n) /\ HandOK(q2)
      /\ \A db, rc : OneHolder(q, db) /\ CountOK(q, db, rc) => OneHolder(q2, db) /\ CountOK(q2, db, rc)
  <2>1. "relock" \in Busy /\ q.pc \in Busy
    BY DEF Busy
  <2> QED  BY <2>1, WorkStep
<1>2. ASSUME NEW u, FsyncOK(q, u)  PROVE FsyncOK(q2, u)
  BY <1>2 DEF FsyncOK, Stepped
<1>3. ASSUME NEW db, NEW rc, NEW r, NEW f, Held(q, db, rc, r, f)  PROVE Held(q2, db, rc, r, f)
  <2>1. OneHolder(q2, db) /\ CountOK(q2, db, rc)
    BY <1>1, <1>3 DEF Held
  <2>2. LazyOK(q2, r)
    BY <1>3 DEF Held, LazyOK, Stepped
  <2>3. FreedOK(q2, f)
    BY <1>3 DEF Held, FreedOK, Stepped
  <2> QED  BY <2>1, <2>2, <2>3 DEF Held
<1> QED  BY <1>1, <1>2, <1>3 DEF Keeps

\* The fsync() of the first job has returned.
LEMMA FsyncStep ==
    ASSUME NEW q \in Threads, NEW q2, Stepped(q, "done", q.job, q2), q.pc = "job",
           NEW n, QueueOK(q, n), HandOK(q), NEW u, FsyncOK(q, u)
    PROVE  QueueOK(q2, n) /\ HandOK(q2) /\ FsyncOK(q2, u \ {q.job.id})
<1>1. QueueOK(q2, n) /\ HandOK(q2)
  <2>1. "done" \in Busy /\ q.pc \in Busy
    BY DEF Busy
  <2> QED  BY <2>1, WorkStep
<1>2. q.job.id = q.jobs[1].id
  BY DEF HandOK, Busy
<1>3. FsyncOK(q2, u \ {q.job.id})
  BY <1>2 DEF FsyncOK, Stepped
<1> QED  BY <1>1, <1>3

\* An object of the job in hand has one reference, that of the job.
LEMMA HandCount ==
    ASSUME NEW q \in Threads, q.pc \in Busy, HandOK(q), NEW o \in q.job.objs,
           NEW db, NEW rc, OneHolder(q, db), CountOK(q, db, rc)
    PROVE  /\ o \in BioObjs /\ rc[o] = 1 /\ ~KeyHolds(db, o)
           /\ \A i \in 1..Len(q.jobs) : o \in Left(q, i) => i = 1
<1>1. Len(q.jobs) \in Nat /\ Len(q.jobs) > 0 /\ q.job \in Jobs
  BY ThreadIs DEF HandOK
<1>2. 1 \in 1..Len(q.jobs) /\ o \in BioObjs
  BY <1>1 DEF Jobs
<1>3. o \in Left(q, 1)
  BY DEF Left
<1>4. JobHolds(q, o)
  BY <1>2, <1>3 DEF JobHolds
<1>5. rc[o] = 1
  BY <1>2, <1>4 DEF CountOK
<1>6. ~KeyHolds(db, o)
  BY <1>2, <1>4, Zenon DEF OneHolder
<1>7. \A i \in 1..Len(q.jobs) : o \in Left(q, i) => i = 1
  BY <1>2, <1>3, Zenon DEF OneHolder
<1> QED  BY <1>2, <1>5, <1>6, <1>7

\* decrRefCount() reads the count of the next object, or there is none.
LEMMA ReadStep ==
    ASSUME NEW q \in Threads, NEW p \in {"decr", "count"}, NEW q2, Stepped(q, p, q.job, q2), q.pc = "job",
           NEW n, QueueOK(q, n), HandOK(q), NEW db, NEW rc, NEW r, NEW r2, NEW f, Held(q, db, rc, r, f),
           p = "decr" => q.job.objs # {} /\ r2 = 1, p = "count" => q.job.objs = {}
    PROVE  QueueOK(q2, n) /\ HandOK(q2) /\ Held(q2, db, rc, r2, f)
<1>1. /\ QueueOK(q2, n) /\ HandOK(q2)
      /\ \A d, c : OneHolder(q, d) /\ CountOK(q, d, c) => OneHolder(q2, d) /\ CountOK(q2, d, c)
  <2>1. p \in Busy /\ q.pc \in Busy
    BY DEF Busy
  <2> QED  BY <2>1, WorkStep
<1>2. OneHolder(q2, db) /\ CountOK(q2, db, rc)
  BY <1>1 DEF Held
<1>3. LazyOK(q2, r2)
  BY DEF LazyOK, Stepped
<1>4. FreedOK(q2, f)
  BY DEF Held, FreedOK, Stepped
<1> QED  BY <1>1, <1>2, <1>3, <1>4 DEF Held

\* lazyfree_objects no longer counts the job.
LEMMA CountStep ==
    ASSUME NEW q \in Threads, NEW q2, Stepped(q, "done", q.job, q2), q.pc = "count",
           NEW n, QueueOK(q, n), HandOK(q), NEW db, NEW rc, NEW r, NEW f \in Int, Held(q, db, rc, r, f)
    PROVE  QueueOK(q2, n) /\ HandOK(q2) /\ Held(q2, db, rc, r, f - q.job.count)
<1>1. /\ QueueOK(q2, n) /\ HandOK(q2)
      /\ \A d, c : OneHolder(q, d) /\ CountOK(q, d, c) => OneHolder(q2, d) /\ CountOK(q2, d, c)
  <2>1. "done" \in Busy /\ q.pc \in Busy
    BY DEF Busy
  <2> QED  BY <2>1, WorkStep
<1>2. OneHolder(q2, db) /\ CountOK(q2, db, rc)
  BY <1>1 DEF Held
<1>3. LazyOK(q2, r)
  BY DEF Held, LazyOK, Stepped
<1>4. f = JobTotal(q.jobs) - 0
  BY DEF Held, FreedOK
<1>5. q.job.count \in Nat /\ JobTotal(q.jobs) \in Nat
  <2>1. q.jobs \in Seq(Jobs) /\ q.job \in Jobs
    BY ThreadIs
  <2> QED  BY <2>1, TotalAppend DEF Jobs
<1>6. FreedOK(q2, f - q.job.count)
  BY <1>4, <1>5 DEF FreedOK, Stepped
<1> QED  BY <1>1, <1>2, <1>3, <1>6 DEF Held

\* decrRefCount() frees the object, which nothing else holds.
LEMMA WriteStep ==
    ASSUME NEW q \in Threads, NEW o \in q.job.objs, NEW j, j = [q.job EXCEPT !.objs = @ \ {o}],
           NEW q2, Stepped(q, "job", j, q2), q.pc = "decr",
           NEW n, QueueOK(q, n), HandOK(q), NEW db, NEW rc \in [BioObjs -> Nat], NEW r, NEW f, Held(q, db, rc, r, f)
    PROVE  QueueOK(q2, n) /\ HandOK(q2) /\ Held(q2, db, [rc EXCEPT ![o] = 0], r, f)
<1> DEFINE rc2 == [rc EXCEPT ![o] = 0]
<1>1. QueueOK(q2, n)
  BY DEF QueueOK, Stepped
<1>2. q.job \in Jobs /\ Len(q.jobs) \in Nat
  BY ThreadIs
<1>3. j.id = q.job.id /\ j.count = q.job.count /\ j.objs = q.job.objs \ {o}
  BY <1>2 DEF Jobs
<1>4. HandOK(q2)
  <2>1. /\ Len(q.jobs) > 0 /\ q.job.id = q.jobs[1].id /\ q.job.count = q.jobs[1].count
        /\ q.job.objs \subseteq q.jobs[1].objs
    BY DEF HandOK, Busy
  <2> QED  BY <1>3, <2>1 DEF HandOK, Stepped, Idle
<1>5. OneHolder(q, db) /\ CountOK(q, db, rc) /\ FreedOK(q, f) /\ q.pc \in Busy
  BY DEF Held, Busy
<1>6. /\ o \in BioObjs /\ rc[o] = 1 /\ ~KeyHolds(db, o)
      /\ \A i \in 1..Len(q.jobs) : o \in Left(q, i) => i = 1
  BY <1>5, HandCount
<1>7. q2.jobs = q.jobs /\ Left(q2, 1) = Left(q, 1) \ {o} /\ \A i \in 1..Len(q.jobs) : i # 1 => Left(q2, i) = Left(q, i)
  BY <1>3 DEF Left, Stepped, Busy
<1>8. /\ ~JobHolds(q2, o)
      /\ \A x : x # o => (JobHolds(q2, x) <=> JobHolds(q, x))
      /\ \A x : \A i \in 1..Len(q.jobs) : x \in Left(q2, i) => x \in Left(q, i)
  <2>1. \A x : \A i \in 1..Len(q.jobs) : x \in Left(q2, i) <=> x \in Left(q, i) /\ x # o
    BY <1>6, <1>7
  <2> QED  BY <1>7, <2>1, Zenon DEF JobHolds
<1>9. OneHolder(q2, db)
  <2>1. \A x : JobHolds(q2, x) => JobHolds(q, x)
    BY <1>8, Zenon
  <2> QED  BY <1>5, <1>7, <1>8, <2>1, Zenon DEF OneHolder
<1>10. CountOK(q2, db, rc2)
  <2> SUFFICES ASSUME NEW x \in BioObjs
               PROVE  rc2[x] = IF KeyHolds(db, x) \/ JobHolds(q2, x) THEN 1 ELSE 0
    BY DEF CountOK
  <2>1. rc[x] = IF KeyHolds(db, x) \/ JobHolds(q, x) THEN 1 ELSE 0
    BY <1>5 DEF CountOK
  <2>2. CASE x = o
    BY <1>6, <1>8, <2>2
  <2>3. CASE x # o
    <3>1. rc2[x] = rc[x] /\ (JobHolds(q2, x) <=> JobHolds(q, x))
      BY <1>8, <2>3
    <3> QED  BY <2>1, <3>1
  <2> QED  BY <2>2, <2>3
<1>11. LazyOK(q2, r)
  BY DEF LazyOK, Stepped
<1>12. FreedOK(q2, f)
  BY <1>5 DEF FreedOK, Stepped
<1> QED  BY <1>1, <1>4, <1>9, <1>10, <1>11, <1>12 DEF Held

\* The job in hand is found where it was taken.
LEMMA FoundFirst ==
    ASSUME NEW q \in Threads, NEW n \in Nat, QueueOK(q, n), HandOK(q), q.pc \in Busy
    PROVE  (CHOOSE i \in DOMAIN q.jobs : q.jobs[i].id = q.job.id) = 1
<1>1. q.jobs \in Seq(Jobs) /\ Len(q.jobs) \in Nat /\ \A i \in 1..Len(q.jobs) : q.jobs[i] \in Jobs
  BY ThreadIs
<1>2. DOMAIN q.jobs = 1..Len(q.jobs)
  BY <1>1
<1>3. Len(q.jobs) > 0 /\ q.jobs[1].id = q.job.id
  BY DEF HandOK
<1>4. 1 \in 1..Len(q.jobs)
  BY <1>1, <1>3
<1>5. \A i \in 1..Len(q.jobs) : q.jobs[i].id = q.job.id => i = 1
  <2> SUFFICES ASSUME NEW i \in 1..Len(q.jobs), i # 1  PROVE q.jobs[i].id # q.jobs[1].id
    BY <1>3
  <2>1. 1 < i
    BY <1>1
  <2>2. q.jobs[1].id < q.jobs[i].id /\ q.jobs[1].id \in 1..n /\ q.jobs[i].id \in 1..n
    BY <1>4, <2>1 DEF QueueOK
  <2> QED  BY <2>2
<1> QED  BY <1>2, <1>3, <1>4, <1>5

\* A queue without its first job.
LEMMA RestIs ==
    ASSUME NEW s \in Seq(Jobs), Len(s) > 0
    PROVE  /\ RemoveAt(s, 1) \in Seq(Jobs) /\ Len(s) = Len(RemoveAt(s, 1)) + 1
           /\ \A i \in 1..Len(RemoveAt(s, 1)) : RemoveAt(s, 1)[i] = s[i + 1]
<1> DEFINE m == Len(s)
           a == SubSeq(s, 1, 0)
           c == SubSeq(s, 2, m)
<1>1. m \in Nat /\ m > 0
  OBVIOUS
<1>2. a \in Seq(Jobs) /\ Len(a) = 0
  BY <1>1, SubSeqProperties
<1>3. c \in Seq(Jobs) /\ Len(c) = m - 1 /\ \A i \in 1..(m - 1) : c[i] = s[i + 1]
  <2>1. \A i \in 2..m : s[i] \in Jobs
    BY <1>1
  <2>2. /\ c \in Seq(Jobs) /\ Len(c) = IF 2 <= m THEN m - 2 + 1 ELSE 0
        /\ \A i \in 1..(m - 2 + 1) : c[i] = s[2 + i - 1]
    BY <1>1, <2>1, SubSeqProperties
  <2> HIDE DEF c, m
  <2>3. Len(c) = m - 1 /\ m - 2 + 1 = m - 1 /\ \A i \in 1..(m - 1) : 2 + i - 1 = i + 1
    BY <1>1, <2>2
  <2> QED  BY <2>2, <2>3
<1>4. RemoveAt(s, 1) = a \o c
  BY <1>1 DEF RemoveAt
<1> HIDE DEF a, c
<1>5. a \o c \in Seq(Jobs) /\ Len(a \o c) = m - 1 /\ \A i \in 1..(m - 1) : (a \o c)[i] = c[i]
  BY <1>1, <1>2, <1>3, ConcatProperties
<1> DEFINE z == RemoveAt(s, 1)
<1>6. z \in Seq(Jobs) /\ Len(z) = m - 1 /\ \A i \in 1..(m - 1) : z[i] = c[i]
  BY <1>4, <1>5
<1> HIDE DEF z
<1>7. m = Len(z) + 1
  <2> HIDE DEF m
  <2> QED  BY <1>1, <1>6
<1>8. \A i \in 1..Len(z) : z[i] = s[i + 1]
  <2> HIDE DEF m
  <2> QED  BY <1>3, <1>6, Zenon
<1> QED  BY <1>6, <1>7, <1>8 DEF z

\* q2 is q without the job in hand.
Removed(q, q2) ==
    q2 \in Threads /\ q2.jobs = RemoveAt(q.jobs, 1) /\ q2.pending = q.pending - 1 /\ q2.pc = "loop" /\ q2.job = NoJob

\* The job that is done leaves the queue, and the others move up.
LEMMA RemoveStep ==
    ASSUME NEW q \in Threads, NEW q2, Removed(q, q2), q.pc = "relock", NEW n \in Nat, QueueOK(q, n), HandOK(q)
    PROVE  Keeps(q, q2, n)
<1> DEFINE k == Len(q2.jobs)
<1>1. /\ q.jobs \in Seq(Jobs) /\ Len(q.jobs) > 0 /\ q.job.count = q.jobs[1].count /\ q.job \in Jobs
      /\ \A i \in 1..Len(q.jobs) : q.jobs[i] \in Jobs
  BY ThreadIs DEF HandOK, Busy
<1>2. /\ q2.jobs \in Seq(Jobs) /\ Len(q.jobs) = k + 1 /\ k \in Nat
      /\ \A i \in 1..k : q2.jobs[i] = q.jobs[i + 1]
  BY <1>1, RestIs, ThreadIs DEF Removed
<1>3. q2.pending = q.pending - 1 /\ q2.pc = "loop" /\ q2.job = NoJob
  BY DEF Removed
<1>4. /\ q.pending = k + 1 /\ \A i \in 1..(k + 1) : q.jobs[i].id \in 1..n
      /\ \A i, j \in 1..(k + 1) : i < j => q.jobs[i].id < q.jobs[j].id
  BY <1>2 DEF QueueOK
<1>5. k = Len(q2.jobs)
  OBVIOUS
<1> HIDE DEF k
<1>6. \A i \in 1..k : i + 1 \in 1..(k + 1) /\ i + 1 # 1
  BY <1>2
<1>7. QueueOK(q2, n)
  <2>1. q2.pending = k
    BY <1>2, <1>3, <1>4
  <2>2. \A i \in 1..k : q2.jobs[i].id \in 1..n
    BY <1>2, <1>4, <1>6
  <2>3. ASSUME NEW i \in 1..k, NEW j \in 1..k, i < j  PROVE q2.jobs[i].id < q2.jobs[j].id
    <3>1. i + 1 \in 1..(k + 1) /\ j + 1 \in 1..(k + 1) /\ i + 1 < j + 1
      BY <1>2, <2>3
    <3> QED  BY <1>2, <1>4, <3>1
  <2> QED  BY <1>5, <2>1, <2>2, <2>3 DEF QueueOK
<1>8. HandOK(q2)
  BY <1>3 DEF HandOK, Busy
<1>9. ASSUME NEW u, FsyncOK(q, u)  PROVE FsyncOK(q2, u)
  <2> SUFFICES ASSUME NEW x \in u
               PROVE  \E i \in 1..k : q2.jobs[i].id = x /\ (i = 1 => q2.pc \notin {"done", "relock"})
    BY <1>5 DEF FsyncOK
  <2>1. PICK i \in 1..(k + 1) : q.jobs[i].id = x /\ (i = 1 => q.pc \notin {"done", "relock"})
    BY <1>2, <1>9 DEF FsyncOK
  <2>2. i # 1
    BY <2>1
  <2>3. i - 1 \in 1..k /\ (i - 1) + 1 = i
    BY <1>2, <2>2
  <2>4. q2.jobs[i - 1].id = x
    BY <1>2, <2>1, <2>3
  <2> QED  BY <1>3, <2>3, <2>4
<1>10. ASSUME NEW db, NEW rc, NEW r, NEW f, Held(q, db, rc, r, f)  PROVE Held(q2, db, rc, r, f)
  <2>1. LazyOK(q, r) /\ FreedOK(q, f) /\ OneHolder(q, db) /\ CountOK(q, db, rc)
    BY <1>10 DEF Held
  <2>2. LazyOK(q2, r)
    BY <1>3 DEF LazyOK
  <2>3. FreedOK(q2, f)
    <3>1. JobTotal(q.jobs) = q.jobs[1].count + JobTotal(q2.jobs) /\ JobTotal(q2.jobs) \in Nat
      <4>1. Len(q.jobs) = Len(q2.jobs) + 1 /\ \A i \in 1..Len(q2.jobs) : q2.jobs[i] = q.jobs[i + 1]
        BY <1>2, <1>5
      <4> QED  BY <1>1, <1>2, <4>1, TotalTail
    <3>2. q.job.count \in Nat
      BY <1>1 DEF Jobs
    <3>3. f = JobTotal(q.jobs) - q.job.count
      BY <2>1 DEF FreedOK
    <3>4. f = JobTotal(q2.jobs) - 0
      BY <1>1, <3>1, <3>2, <3>3
    <3> QED  BY <1>3, <3>4 DEF FreedOK
  <2>4. Left(q, 1) = {}
    BY <2>1 DEF Left, LazyOK, Busy
  <2>5. \A i \in 1..k : Left(q2, i) = Left(q, i + 1)
    BY <1>2, <1>3, <1>6 DEF Left, Busy
  <2>6. \A o : JobHolds(q2, o) <=> JobHolds(q, o)
    <3>1. \A o : JobHolds(q2, o) => JobHolds(q, o)
      <4>1. Len(q.jobs) = k + 1
        BY <1>2
      <4> QED  BY <1>5, <1>6, <2>5, <4>1 DEF JobHolds
    <3>2. ASSUME NEW o, JobHolds(q, o)  PROVE JobHolds(q2, o)
      <4>1. PICK i \in 1..(k + 1) : o \in Left(q, i)
        BY <1>2, <3>2 DEF JobHolds
      <4>2. i # 1
        BY <2>4, <4>1
      <4>3. i - 1 \in 1..k /\ (i - 1) + 1 = i
        BY <1>2, <4>2
      <4>4. o \in Left(q2, i - 1)
        BY <2>5, <4>1, <4>3
      <4> QED  BY <1>5, <4>3, <4>4 DEF JobHolds
    <3> QED  BY <3>1, <3>2
  <2>7. OneHolder(q2, db)
    <3>1. \A x, y \in DOMAIN db : db[x] = db[y] => x = y
      BY <2>1 DEF OneHolder
    <3>2. \A o \in BioObjs : KeyHolds(db, o) => ~JobHolds(q2, o)
      BY <2>1, <2>6, Zenon DEF OneHolder
    <3>3. ASSUME NEW o \in BioObjs, NEW i \in 1..k, NEW j \in 1..k, o \in Left(q2, i), o \in Left(q2, j)
          PROVE  i = j
      <4>1. o \in Left(q, i + 1) /\ o \in Left(q, j + 1)
        BY <2>5, <3>3
      <4>2. i + 1 \in 1..Len(q.jobs) /\ j + 1 \in 1..Len(q.jobs)
        BY <1>2, <1>6
      <4>3. i + 1 = j + 1
        BY <2>1, <4>1, <4>2 DEF OneHolder
      <4> QED  BY <1>2, <4>3
    <3> QED  BY <1>5, <3>1, <3>2, <3>3 DEF OneHolder
  <2>8. CountOK(q2, db, rc)
    <3> SUFFICES ASSUME NEW o \in BioObjs
                 PROVE  rc[o] = IF KeyHolds(db, o) \/ JobHolds(q2, o) THEN 1 ELSE 0
      BY DEF CountOK
    <3>1. rc[o] = IF KeyHolds(db, o) \/ JobHolds(q, o) THEN 1 ELSE 0
      BY <2>1 DEF CountOK
    <3>2. JobHolds(q2, o) <=> JobHolds(q, o)
      BY <2>6
    <3> QED  BY <3>1, <3>2
  <2> QED  BY <2>2, <2>3, <2>7, <2>8 DEF Held
<1> QED  BY <1>7, <1>8, <1>9, <1>10 DEF Keeps

-----------------------------------------------------------------------------
(* The actions of the threads. *)

\* Only the queue of type t changes, to q2.
Only(b, t, q2, b2) == b2 \in [BioTypes -> Threads] /\ b2[t] = q2 /\ \A u \in BioTypes : u # t => b2[u] = b[u]

\* A thread goes to another place.
LEMMA PcChanges ==
    ASSUME NEW b \in [BioTypes -> Threads], NEW t \in BioTypes, NEW p \in Idle \cup Busy,
           NEW b2, b2 = [b EXCEPT ![t].pc = p]
    PROVE  Only(b, t, b2[t], b2) /\ Stepped(b[t], p, b[t].job, b2[t])
<1>1. b[t] \in Threads
  OBVIOUS
<1>2. b2[t].jobs = b[t].jobs /\ b2[t].pending = b[t].pending /\ b2[t].job = b[t].job /\ b2[t].pc = p
  BY <1>1 DEF Threads
<1>3. b2 \in [BioTypes -> Threads] /\ \A u \in BioTypes : u # t => b2[u] = b[u]
  BY <1>1 DEF Threads
<1>4. b2[t] \in Threads
  BY <1>3
<1> QED  BY <1>2, <1>3, <1>4, Zenon DEF Only, Stepped

\* A thread goes to another place with another job.
LEMMA JobChanges ==
    ASSUME NEW b \in [BioTypes -> Threads], NEW t \in BioTypes, NEW p \in Idle \cup Busy, NEW j \in Jobs,
           NEW b2, b2 = [b EXCEPT ![t].pc = p, ![t].job = j]
    PROVE  Only(b, t, b2[t], b2) /\ Stepped(b[t], p, j, b2[t])
<1>1. b[t] \in Threads
  OBVIOUS
<1>2. b2[t].jobs = b[t].jobs /\ b2[t].pending = b[t].pending /\ b2[t].job = j /\ b2[t].pc = p
  BY <1>1 DEF Threads
<1>3. b2 \in [BioTypes -> Threads] /\ \A u \in BioTypes : u # t => b2[u] = b[u]
  BY <1>1 DEF Threads
<1>4. b2[t] \in Threads
  BY <1>3
<1> QED  BY <1>2, <1>3, <1>4, Zenon DEF Only, Stepped

\* The parts of the invariant.
LEMMA InvParts ==
    ASSUME BioInv, NEW t \in BioTypes
    PROVE  /\ bio \in [BioTypes -> Threads] /\ bio[t] \in Threads /\ bcreated \in Nat /\ bmain \in Waits
           /\ QueueOK(bio[t], bcreated) /\ HandOK(bio[t])
BY Zenon DEF BioInv, TypesOK

\* Both types of threads.
LEMMA TypesAre == "aof_fsync" \in BioTypes /\ "lazy_free" \in BioTypes /\ \A t \in BioTypes : t = "aof_fsync" \/ t = "lazy_free"
BY DEF BioTypes

\* A step of a thread that keeps its queue in order, and nothing else, keeps the invariant.
LEMMA KeptInv ==
    ASSUME BioInv, NEW t \in BioTypes, Only(bio, t, bio'[t], bio'), Keeps(bio[t], bio'[t], bcreated),
           UNCHANGED <<bsetup, bcreated, bunsynced, bdb, brc, bread, bfreed, bfault>>, bmain' \in Waits
    PROVE  BioInv'
<1>1. bio' \in [BioTypes -> Threads] /\ \A u \in BioTypes : u = t \/ bio'[u] = bio[u]
  BY Zenon DEF Only
<1>2. TypesOK'
  BY <1>1 DEF BioInv, TypesOK
<1>3. ASSUME NEW u \in BioTypes  PROVE QueueOK(bio'[u], bcreated') /\ HandOK(bio'[u])
  <2>1. QueueOK(bio[u], bcreated) /\ HandOK(bio[u])
    BY InvParts
  <2> QED  BY <1>1, <2>1 DEF Keeps
<1>4. FsyncOK(bio'["aof_fsync"], bunsynced')
  <2>1. FsyncOK(bio["aof_fsync"], bunsynced) /\ bunsynced' = bunsynced
    BY DEF BioInv
  <2> QED  BY <1>1, <2>1, TypesAre DEF Keeps
<1>5. Held(bio'["lazy_free"], bdb', brc', bread', bfreed')
  <2>1. Held(bio["lazy_free"], bdb, brc, bread, bfreed)
    BY DEF BioInv
  <2>2. bdb' = bdb /\ brc' = brc /\ bread' = bread /\ bfreed' = bfreed
    OBVIOUS
  <2> QED  BY <1>1, <2>1, <2>2, TypesAre DEF Keeps
<1>6. bfault' = FALSE
  BY DEF BioInv
<1> QED  BY <1>2, <1>3, <1>4, <1>5, <1>6 DEF BioInv

\* Locking and waking up.
LEMMA LockInv ==
    ASSUME BioInv, NEW t \in BioTypes, BioLock(t) \/ BioSpurious(t)
    PROVE  BioInv'
<1>1. bio[t] \in Threads /\ bio \in [BioTypes -> Threads] /\ QueueOK(bio[t], bcreated) /\ HandOK(bio[t]) /\ bmain \in Waits
  BY InvParts
<1>2. PICK p \in {"loop", "woken"} : bio' = [bio EXCEPT ![t].pc = p] /\ bio[t].pc \in Idle
  BY DEF BioLock, BioSpurious, Idle
<1>3. p \in Idle /\ p \in Idle \cup Busy
  BY DEF Idle
<1>4. Only(bio, t, bio'[t], bio') /\ Stepped(bio[t], p, bio[t].job, bio'[t])
  BY <1>1, <1>2, <1>3, PcChanges
<1>5. Keeps(bio[t], bio'[t], bcreated)
  BY <1>1, <1>2, <1>3, <1>4, IdleStep
<1>6. UNCHANGED <<bsetup, bcreated, bunsynced, bdb, brc, bread, bfreed, bfault>> /\ bmain' = bmain
  BY DEF BioLock, BioSpurious, BioThreadOnly
<1> QED  BY <1>1, <1>4, <1>5, <1>6, KeptInv

\* The top of the loop.
LEMMA LoopInv ==
    ASSUME BioInv, NEW t \in BioTypes, BioLoopTop(t)
    PROVE  BioInv'
<1>1. bio[t] \in Threads /\ bio \in [BioTypes -> Threads] /\ QueueOK(bio[t], bcreated) /\ HandOK(bio[t]) /\ bmain \in Waits
  BY InvParts
<1>2. bio[t].jobs \in Seq(Jobs) /\ bio[t].pc = "loop" /\ bio[t].pc \in Idle
  BY <1>1, ThreadIs DEF BioLoopTop, Idle
<1>3. UNCHANGED <<bsetup, bcreated, bunsynced, bdb, brc, bread, bfreed, bfault>> /\ bmain' = bmain
  BY DEF BioLoopTop, BioThreadOnly
<1>4. CASE bio[t].jobs = <<>>
  <2>1. bio' = [bio EXCEPT ![t].pc = "wait"] /\ "wait" \in Idle /\ "wait" \in Idle \cup Busy
    BY <1>4 DEF BioLoopTop, Idle
  <2>2. Only(bio, t, bio'[t], bio') /\ Stepped(bio[t], "wait", bio[t].job, bio'[t])
    BY <1>1, <2>1, PcChanges
  <2>3. Keeps(bio[t], bio'[t], bcreated)
    BY <1>1, <1>2, <2>1, <2>2, IdleStep
  <2> QED  BY <1>1, <1>3, <2>2, <2>3, KeptInv
<1>5. CASE bio[t].jobs # <<>>
  <2>1. Head(bio[t].jobs) = bio[t].jobs[1] /\ Len(bio[t].jobs) > 0 /\ bio[t].jobs[1] \in Jobs
    BY <1>2, <1>5
  <2>2. bio' = [bio EXCEPT ![t].pc = "job", ![t].job = bio[t].jobs[1]] /\ "job" \in Idle \cup Busy
    BY <1>5, <2>1 DEF BioLoopTop, Busy
  <2>3. Only(bio, t, bio'[t], bio') /\ Stepped(bio[t], "job", bio[t].jobs[1], bio'[t])
    BY <1>1, <2>1, <2>2, JobChanges
  <2>4. Keeps(bio[t], bio'[t], bcreated)
    BY <1>1, <1>2, <2>1, <2>3, TakeStep
  <2> QED  BY <1>1, <1>3, <2>3, <2>4, KeptInv
<1> QED  BY <1>4, <1>5

\* Whoever waits for a step is woken up.
LEMMA BroadcastInv ==
    ASSUME BioInv, NEW t \in BioTypes, BioBroadcast(t)
    PROVE  BioInv'
<1>1. bio[t] \in Threads /\ bio \in [BioTypes -> Threads] /\ QueueOK(bio[t], bcreated) /\ HandOK(bio[t]) /\ bmain \in Waits
  BY InvParts
<1>2. bio[t].pc = "done" /\ bio' = [bio EXCEPT ![t].pc = "relock"] /\ "relock" \in Idle \cup Busy
  BY DEF BioBroadcast, Busy
<1>3. Only(bio, t, bio'[t], bio') /\ Stepped(bio[t], "relock", bio[t].job, bio'[t])
  BY <1>1, <1>2, PcChanges
<1>4. Keeps(bio[t], bio'[t], bcreated)
  BY <1>1, <1>2, <1>3, DoneStep
<1>5. UNCHANGED <<bsetup, bcreated, bunsynced, bdb, brc, bread, bfreed, bfault>>
  BY DEF BioBroadcast
<1>6. bmain' \in Waits
  BY <1>1 DEF BioBroadcast, Waits
<1> QED  BY <1>3, <1>4, <1>5, <1>6, KeptInv

\* The job is removed.
LEMMA RemoveInv ==
    ASSUME BioInv, NEW t \in BioTypes, BioRemove(t)
    PROVE  BioInv'
<1> DEFINE q == bio[t]
<1>1. q \in Threads /\ bio \in [BioTypes -> Threads] /\ QueueOK(q, bcreated) /\ HandOK(q) /\ bcreated \in Nat /\ bmain \in Waits
  BY InvParts
<1>2. q.pc = "relock" /\ q.pc \in Busy
  BY DEF BioRemove, Busy
<1>3. (CHOOSE i \in DOMAIN q.jobs : q.jobs[i].id = q.job.id) = 1
  BY <1>1, <1>2, FoundFirst
<1>4. bio' = [bio EXCEPT ![t].jobs = RemoveAt(q.jobs, CHOOSE i \in DOMAIN q.jobs : q.jobs[i].id = q.job.id),
                         ![t].pending = @ - 1, ![t].pc = "loop", ![t].job = NoJob]
  BY DEF BioRemove
<1> DEFINE s == RemoveAt(q.jobs, 1)
<1>5. bio' = [bio EXCEPT ![t].jobs = s, ![t].pending = @ - 1, ![t].pc = "loop", ![t].job = NoJob]
  BY <1>3, <1>4
<1>6. q.jobs \in Seq(Jobs) /\ Len(q.jobs) \in Nat /\ Len(q.jobs) > 0 /\ q.pending = Len(q.jobs)
  BY <1>1, <1>2, ThreadIs DEF HandOK, QueueOK
<1>7. s \in Seq(Jobs) /\ q.pending - 1 \in Nat
  BY <1>6, RestIs
<1>8. NoJob \in Jobs /\ "loop" \in Idle \cup Busy
  BY DEF NoJob, Jobs, Idle
<1> HIDE DEF s
<1>9. /\ bio'[t].jobs = s /\ bio'[t].pending = q.pending - 1 /\ bio'[t].pc = "loop" /\ bio'[t].job = NoJob
      /\ \A u \in BioTypes : u # t => bio'[u] = bio[u]
  BY <1>1, <1>5 DEF Threads
<1>10. bio' \in [BioTypes -> Threads]
  BY <1>1, <1>5, <1>7, <1>8 DEF Threads
<1>11. Only(bio, t, bio'[t], bio') /\ Removed(q, bio'[t])
  BY <1>9, <1>10 DEF Only, Removed, s
<1>12. Keeps(q, bio'[t], bcreated)
  BY <1>1, <1>2, <1>11, RemoveStep
<1>13. UNCHANGED <<bsetup, bcreated, bunsynced, bdb, brc, bread, bfreed, bfault>> /\ bmain' = bmain
  BY DEF BioRemove, BioThreadOnly
<1> QED  BY <1>1, <1>11, <1>12, <1>13, KeptInv

\* More jobs were created.
LEMMA QueueLater ==
    ASSUME NEW q \in Threads, NEW n \in Nat, NEW m \in Nat, n <= m, QueueOK(q, n)
    PROVE  QueueOK(q, m)
<1>1. \A i \in 1..Len(q.jobs) : q.jobs[i].id \in 1..n
  BY DEF QueueOK
<1>2. \A x \in 1..n : x \in 1..m
  OBVIOUS
<1>3. \A i \in 1..Len(q.jobs) : q.jobs[i].id \in 1..m
  BY <1>1, <1>2, Zenon
<1> QED  BY <1>3, Zenon DEF QueueOK

\* A step on the queue of fsyncs.
LEMMA FsyncChanged ==
    ASSUME BioInv, Only(bio, "aof_fsync", bio'["aof_fsync"], bio'), bcreated' \in Nat, bcreated <= bcreated',
           QueueOK(bio'["aof_fsync"], bcreated'), HandOK(bio'["aof_fsync"]), FsyncOK(bio'["aof_fsync"], bunsynced'),
           UNCHANGED <<bsetup, bmain, bdb, brc, bread, bfreed, bfault>>
    PROVE  BioInv'
<1>1. bio' \in [BioTypes -> Threads] /\ bio'["lazy_free"] = bio["lazy_free"]
  BY TypesAre DEF Only
<1>2. TypesOK'
  BY <1>1 DEF BioInv, TypesOK
<1>3. QueueOK(bio'["lazy_free"], bcreated') /\ HandOK(bio'["lazy_free"])
  <2>1. QueueOK(bio["lazy_free"], bcreated) /\ HandOK(bio["lazy_free"]) /\ bcreated \in Nat /\ bio["lazy_free"] \in Threads
    BY InvParts, TypesAre
  <2> QED  BY <1>1, <2>1, QueueLater
<1>4. \A u \in BioTypes : QueueOK(bio'[u], bcreated') /\ HandOK(bio'[u])
  BY <1>3, TypesAre
<1>5. Held(bio'["lazy_free"], bdb', brc', bread', bfreed') /\ bfault' = FALSE
  BY <1>1 DEF BioInv
<1> QED  BY <1>2, <1>4, <1>5 DEF BioInv

\* A step on the queue of objects to free.
LEMMA LazyChanged ==
    ASSUME BioInv, Only(bio, "lazy_free", bio'["lazy_free"], bio'), bcreated' \in Nat, bcreated <= bcreated',
           QueueOK(bio'["lazy_free"], bcreated'), HandOK(bio'["lazy_free"]),
           Held(bio'["lazy_free"], bdb', brc', bread', bfreed'),
           UNCHANGED <<bsetup, bunsynced>>, bmain' = bmain \/ bmain' \in Waits, bread' \in Nat, bfreed' \in Int, brc' \in [BioObjs -> Nat],
           DbOK(bdb'), bfault' = FALSE
    PROVE  BioInv'
<1>1. bio' \in [BioTypes -> Threads] /\ bio'["aof_fsync"] = bio["aof_fsync"]
  BY TypesAre DEF Only
<1>2. TypesOK'
  BY <1>1 DEF BioInv, TypesOK
<1>3. QueueOK(bio'["aof_fsync"], bcreated') /\ HandOK(bio'["aof_fsync"])
  <2>1. QueueOK(bio["aof_fsync"], bcreated) /\ HandOK(bio["aof_fsync"]) /\ bcreated \in Nat /\ bio["aof_fsync"] \in Threads
    BY InvParts, TypesAre
  <2> QED  BY <1>1, <2>1, QueueLater
<1>4. \A u \in BioTypes : QueueOK(bio'[u], bcreated') /\ HandOK(bio'[u])
  BY <1>3, TypesAre
<1>5. FsyncOK(bio'["aof_fsync"], bunsynced')
  BY <1>1 DEF BioInv
<1> QED  BY <1>2, <1>4, <1>5 DEF BioInv

\* aof_fsync() returns.
LEMMA FsyncInv ==
    ASSUME BioInv, BioProcessFsync
    PROVE  BioInv'
<1> DEFINE t == "aof_fsync"
           q == bio[t]
<1>1. t \in BioTypes
  BY TypesAre
<1>2. q \in Threads /\ bio \in [BioTypes -> Threads] /\ QueueOK(q, bcreated) /\ HandOK(q) /\ bcreated \in Nat
  BY <1>1, InvParts
<1>3. q.pc = "job" /\ bio' = [bio EXCEPT ![t].pc = "done"] /\ "done" \in Idle \cup Busy
  BY DEF BioProcessFsync, Busy
<1>4. /\ bunsynced' = bunsynced \ {q.job.id} /\ bcreated' = bcreated
      /\ UNCHANGED <<bsetup, bmain, bdb, brc, bread, bfreed, bfault>>
  BY DEF BioProcessFsync
<1>5. Only(bio, t, bio'[t], bio') /\ Stepped(q, "done", q.job, bio'[t])
  BY <1>1, <1>2, <1>3, PcChanges
<1>6. FsyncOK(q, bunsynced)
  BY DEF BioInv
<1>7. QueueOK(bio'[t], bcreated) /\ HandOK(bio'[t]) /\ FsyncOK(bio'[t], bunsynced \ {q.job.id})
  BY <1>2, <1>3, <1>5, <1>6, FsyncStep
<1>8. bcreated <= bcreated' /\ bcreated' \in Nat
  BY <1>2, <1>4
<1> QED  BY <1>4, <1>5, <1>7, <1>8, FsyncChanged

\* What the steps on the lazy free queue start from.
LEMMA LazyParts ==
    ASSUME BioInv
    PROVE  /\ "lazy_free" \in BioTypes /\ bio["lazy_free"] \in Threads /\ bio \in [BioTypes -> Threads]
           /\ QueueOK(bio["lazy_free"], bcreated) /\ HandOK(bio["lazy_free"]) /\ bcreated \in Nat
           /\ Held(bio["lazy_free"], bdb, brc, bread, bfreed)
           /\ OneHolder(bio["lazy_free"], bdb) /\ CountOK(bio["lazy_free"], bdb, brc)
           /\ bread \in Nat /\ bfreed \in Int /\ brc \in [BioObjs -> Nat] /\ DbOK(bdb) /\ bfault = FALSE
<1>1. "lazy_free" \in BioTypes
  BY TypesAre
<1>2. bio["lazy_free"] \in Threads /\ QueueOK(bio["lazy_free"], bcreated) /\ HandOK(bio["lazy_free"])
  BY <1>1, InvParts
<1>3. Held(bio["lazy_free"], bdb, brc, bread, bfreed)
  BY DEF BioInv
<1>4. OneHolder(bio["lazy_free"], bdb) /\ CountOK(bio["lazy_free"], bdb, brc)
  BY <1>3 DEF Held
<1> QED  BY <1>1, <1>2, <1>3, <1>4 DEF BioInv, TypesOK

\* The thread reads the count of an object: it is 1.
LEMMA ReadInv ==
    ASSUME BioInv, BioLazyRead
    PROVE  BioInv'
<1> DEFINE t == "lazy_free"
           q == bio[t]
<1>1. /\ t \in BioTypes /\ q \in Threads /\ bio \in [BioTypes -> Threads] /\ QueueOK(q, bcreated) /\ HandOK(q)
      /\ bcreated \in Nat /\ Held(q, bdb, brc, bread, bfreed) /\ OneHolder(q, bdb) /\ CountOK(q, bdb, brc)
      /\ bread \in Nat /\ bfreed \in Int /\ brc \in [BioObjs -> Nat] /\ DbOK(bdb) /\ bfault = FALSE
  BY LazyParts
<1>2. q.pc = "job" /\ q.pc \in Busy /\ bcreated <= bcreated' /\ UNCHANGED <<bsetup, bmain, bcreated, bunsynced, bdb, brc, bfreed>>
  BY <1>1 DEF BioLazyRead, Busy
<1>3. CASE q.job.objs = {}
  <2>1. bio' = [bio EXCEPT ![t].pc = "count"] /\ "count" \in Idle \cup Busy /\ bread' = bread /\ bfault' = bfault
    BY <1>3 DEF BioLazyRead, Busy
  <2>2. Only(bio, t, bio'[t], bio') /\ Stepped(q, "count", q.job, bio'[t])
    BY <1>1, <2>1, PcChanges
  <2>3. QueueOK(bio'[t], bcreated) /\ HandOK(bio'[t]) /\ Held(bio'[t], bdb, brc, bread, bfreed)
    BY <1>1, <1>2, <1>3, <2>2, ReadStep
  <2> HIDE DEF q
  <2> QED  BY <1>1, <1>2, <2>1, <2>2, <2>3, LazyChanged
<1>4. CASE q.job.objs # {}
  <2> DEFINE o == CHOOSE x \in q.job.objs : TRUE
  <2>1. bio' = [bio EXCEPT ![t].pc = "decr"] /\ "decr" \in Idle \cup Busy
    BY <1>4 DEF BioLazyRead, Busy
  <2>2. bread' = brc[o] /\ bfault' = (bfault \/ brc[o] = 0)
    BY <1>4 DEF BioLazyRead
  <2>3. o \in q.job.objs
    BY <1>4
  <2> HIDE DEF o
  <2>4. brc[o] = 1
    BY <1>1, <1>2, <2>3, HandCount
  <2>5. bread' = 1 /\ bfault' = FALSE
    <3>1. brc[o] # 0
      BY <2>4
    <3> QED  BY <1>1, <2>2, <2>4, <3>1, Zenon
  <2>6. Only(bio, t, bio'[t], bio') /\ Stepped(q, "decr", q.job, bio'[t])
    BY <1>1, <2>1, PcChanges
  <2>7. QueueOK(bio'[t], bcreated) /\ HandOK(bio'[t]) /\ Held(bio'[t], bdb, brc, bread', bfreed)
    BY <1>1, <1>2, <1>4, <2>5, <2>6, ReadStep
  <2>8. bread' \in Nat
    BY <2>5
  <2> HIDE DEF q
  <2> QED  BY <1>1, <1>2, <2>5, <2>6, <2>7, <2>8, LazyChanged
<1> QED  BY <1>3, <1>4

\* The thread frees the object.
LEMMA WriteInv ==
    ASSUME BioInv, BioLazyWrite
    PROVE  BioInv'
<1> DEFINE t == "lazy_free"
           q == bio[t]
           o == CHOOSE x \in q.job.objs : TRUE
           j == [q.job EXCEPT !.objs = @ \ {o}]
<1>1. /\ t \in BioTypes /\ q \in Threads /\ bio \in [BioTypes -> Threads] /\ QueueOK(q, bcreated) /\ HandOK(q)
      /\ bcreated \in Nat /\ Held(q, bdb, brc, bread, bfreed)
      /\ bread \in Nat /\ bfreed \in Int /\ brc \in [BioObjs -> Nat] /\ DbOK(bdb) /\ bfault = FALSE
  BY LazyParts
<1>2. q.pc = "decr" /\ bcreated <= bcreated' /\ UNCHANGED <<bsetup, bmain, bcreated, bunsynced, bdb, bread, bfreed, bfault>>
  BY <1>1 DEF BioLazyWrite
<1>3. q.job.objs # {} /\ bread = 1
  BY <1>1, <1>2 DEF Held, LazyOK
<1>4. o \in q.job.objs
  BY <1>3
<1>5. /\ brc' = [brc EXCEPT ![o] = IF bread = 0 THEN 0 ELSE bread - 1]
      /\ bio' = [bio EXCEPT ![t].pc = "job", ![t].job.objs = @ \ {o}]
  BY DEF BioLazyWrite
<1>6. q.job \in Jobs
  BY <1>1, ThreadIs
<1> HIDE DEF o
<1>7. j \in Jobs
  BY <1>6 DEF Jobs
<1>8. bio' = [bio EXCEPT ![t].pc = "job", ![t].job = j] /\ "job" \in Idle \cup Busy
  BY <1>1, <1>5 DEF Threads, Busy
<1>9. brc' = [brc EXCEPT ![o] = 0] /\ brc' \in [BioObjs -> Nat]
  <2>1. (IF bread = 0 THEN 0 ELSE bread - 1) = 0
    BY <1>3
  <2>2. brc' = [brc EXCEPT ![o] = 0]
    BY <1>5, <2>1
  <2> QED  BY <1>1, <2>2
<1>10. Only(bio, t, bio'[t], bio') /\ Stepped(q, "job", j, bio'[t])
  BY <1>1, <1>7, <1>8, JobChanges
<1>11. QueueOK(bio'[t], bcreated) /\ HandOK(bio'[t]) /\ Held(bio'[t], bdb, [brc EXCEPT ![o] = 0], bread, bfreed)
  BY <1>1, <1>2, <1>4, <1>10, WriteStep
<1> HIDE DEF q, j
<1> QED  BY <1>1, <1>2, <1>9, <1>10, <1>11, LazyChanged

\* atomicDecr() of lazyfree_objects.
LEMMA CountInv ==
    ASSUME BioInv, BioLazyCount
    PROVE  BioInv'
<1> DEFINE t == "lazy_free"
           q == bio[t]
<1>1. /\ t \in BioTypes /\ q \in Threads /\ bio \in [BioTypes -> Threads] /\ QueueOK(q, bcreated) /\ HandOK(q)
      /\ bcreated \in Nat /\ Held(q, bdb, brc, bread, bfreed)
      /\ bread \in Nat /\ bfreed \in Int /\ brc \in [BioObjs -> Nat] /\ DbOK(bdb) /\ bfault = FALSE
  BY LazyParts
<1>2. /\ q.pc = "count" /\ bcreated <= bcreated' /\ bfreed' = bfreed - q.job.count
      /\ UNCHANGED <<bsetup, bmain, bcreated, bunsynced, bdb, brc, bread, bfault>>
  BY <1>1 DEF BioLazyCount
<1>3. bio' = [bio EXCEPT ![t].pc = "done"] /\ "done" \in Idle \cup Busy
  BY DEF BioLazyCount, Busy
<1>4. Only(bio, t, bio'[t], bio') /\ Stepped(q, "done", q.job, bio'[t])
  BY <1>1, <1>3, PcChanges
<1>5. QueueOK(bio'[t], bcreated) /\ HandOK(bio'[t]) /\ Held(bio'[t], bdb, brc, bread, bfreed - q.job.count)
  BY <1>1, <1>2, <1>4, CountStep
<1>6. q.job \in Jobs
  BY <1>1, ThreadIs
<1>7. bfreed' \in Int
  BY <1>1, <1>2, <1>6 DEF Jobs
<1> HIDE DEF q
<1> QED  BY <1>1, <1>2, <1>4, <1>5, <1>7, LazyChanged

-----------------------------------------------------------------------------
(* The actions of the main thread. *)

\* A job is added to queue t of b.
LEMMA CreateOnly ==
    ASSUME NEW b \in [BioTypes -> Threads], NEW t \in BioTypes, NEW j \in Jobs,
           NEW b2, b2 = bioCreateBackgroundJob(b, t, j)
    PROVE  Only(b, t, b2[t], b2) /\ Grown(b[t], j, b2[t])
BY CreateGrows DEF Only

\* An fsync is asked for.
LEMMA AskInv ==
    ASSUME BioInv, NEW always \in BOOLEAN, AofBackgroundFsync(always)
    PROVE  BioInv'
<1> DEFINE t == "aof_fsync"
           q == bio[t]
           j == [NoJob EXCEPT !.id = bcreated']
<1>1. t \in BioTypes
  BY TypesAre
<1>2. q \in Threads /\ bio \in [BioTypes -> Threads] /\ QueueOK(q, bcreated) /\ HandOK(q) /\ bcreated \in Nat
  BY <1>1, InvParts
<1>3. /\ bcreated' = bcreated + 1 /\ bio' = bioCreateBackgroundJob(bio, t, j)
      /\ bunsynced' = bunsynced \cup {bcreated'} /\ UNCHANGED <<bsetup, bmain, bdb, brc, bread, bfreed, bfault>>
  BY DEF AofBackgroundFsync
<1>4. j \in Jobs /\ j.id = bcreated'
  BY <1>2, <1>3 DEF NoJob, Jobs
<1> HIDE DEF j
<1>5. Only(bio, t, bio'[t], bio') /\ Grown(q, j, bio'[t])
  BY <1>1, <1>2, <1>3, <1>4, CreateOnly
<1>6. bcreated' \in Nat /\ bcreated <= bcreated' /\ bcreated < j.id /\ j.id <= bcreated'
  BY <1>2, <1>3, <1>4
<1>7. QueueOK(bio'[t], bcreated') /\ HandOK(bio'[t])
  BY <1>2, <1>4, <1>5, <1>6, GrownQueue
<1>8. FsyncOK(q, bunsynced)
  BY DEF BioInv
<1>9. FsyncOK(bio'[t], bunsynced \cup {j.id})
  BY <1>2, <1>4, <1>5, <1>8, GrownFsync
<1>10. bunsynced' = bunsynced \cup {j.id}
  BY <1>3, <1>4
<1> HIDE DEF q
<1> QED  BY <1>3, <1>5, <1>6, <1>7, <1>9, <1>10, FsyncChanged

\* The step of the main thread changes the database only.
LEMMA DbChanged ==
    ASSUME BioInv, UNCHANGED <<bsetup, bio, bmain, bcreated, bunsynced, bread, bfreed>>, bfault' = FALSE,
           brc' \in [BioObjs -> Nat], DbOK(bdb'), OneHolder(bio["lazy_free"], bdb'), CountOK(bio["lazy_free"], bdb', brc')
    PROVE  BioInv'
<1>1. TypesOK'
  BY DEF BioInv, TypesOK
<1>2. LazyOK(bio["lazy_free"], bread) /\ FreedOK(bio["lazy_free"], bfreed)
  BY DEF BioInv, Held
<1>3. Held(bio["lazy_free"], bdb', brc', bread, bfreed)
  BY <1>2 DEF Held
<1> QED  BY <1>1, <1>3 DEF BioInv

\* A free object has no holder.
LEMMA FreeUnheld ==
    ASSUME NEW q, NEW db, NEW rc, CountOK(q, db, rc), NEW o \in BioObjs, rc[o] = 0
    PROVE  ~KeyHolds(db, o) /\ ~JobHolds(q, o)
<1>1. rc[o] = IF KeyHolds(db, o) \/ JobHolds(q, o) THEN 1 ELSE 0
  BY DEF CountOK
<1> QED  BY <1>1

\* A key is given a value.
LEMMA SetInv ==
    ASSUME BioInv, NEW k, BioSet(k)
    PROVE  BioInv'
<1> DEFINE q == bio["lazy_free"]
<1>1. /\ OneHolder(q, bdb) /\ CountOK(q, bdb, brc) /\ brc \in [BioObjs -> Nat] /\ DbOK(bdb) /\ bfault = FALSE
  BY LazyParts
<1>2. k \notin DOMAIN bdb /\ UNCHANGED <<bsetup, bio, bmain, bcreated, bunsynced, bread, bfreed, bfault>>
  BY DEF BioSet
<1>3. PICK o \in BioObjs : /\ brc[o] = 0 /\ brc' = [brc EXCEPT ![o] = 1]
                          /\ bdb' = [x \in DOMAIN bdb \cup {k} |-> IF x = k THEN o ELSE bdb[x]]
  BY DEF BioSet
<1>4. ~KeyHolds(bdb, o) /\ ~JobHolds(q, o)
  BY <1>1, <1>3, FreeUnheld
<1>5. /\ DOMAIN bdb' = DOMAIN bdb \cup {k} /\ bdb'[k] = o /\ \A x \in DOMAIN bdb : bdb'[x] = bdb[x]
  BY <1>2, <1>3
<1>6. \A x : KeyHolds(bdb', x) <=> KeyHolds(bdb, x) \/ x = o
  BY <1>5 DEF KeyHolds
<1>7. DbOK(bdb')
  <2>1. IsFiniteSet(DOMAIN bdb')
    BY <1>1, <1>5, FS_AddElement DEF DbOK
  <2> QED  BY <1>1, <1>5, <2>1 DEF DbOK
<1>8. OneHolder(q, bdb')
  <2>1. \A x, y \in DOMAIN bdb' : bdb'[x] = bdb'[y] => x = y
    <3>1. \A x \in DOMAIN bdb : bdb[x] # o
      BY <1>4 DEF KeyHolds
    <3>2. \A x, y \in DOMAIN bdb : bdb[x] = bdb[y] => x = y
      BY <1>1, Zenon DEF OneHolder
    <3> QED  BY <1>5, <3>1, <3>2
  <2>2. \A x \in BioObjs : KeyHolds(bdb', x) => ~JobHolds(q, x)
    BY <1>1, <1>4, <1>6, Zenon DEF OneHolder
  <2> QED  BY <1>1, <2>1, <2>2, Zenon DEF OneHolder
<1>9. CountOK(q, bdb', brc')
  <2> SUFFICES ASSUME NEW x \in BioObjs
               PROVE  brc'[x] = IF KeyHolds(bdb', x) \/ JobHolds(q, x) THEN 1 ELSE 0
    BY Zenon DEF CountOK
  <2>1. brc[x] = IF KeyHolds(bdb, x) \/ JobHolds(q, x) THEN 1 ELSE 0
    BY <1>1 DEF CountOK
  <2>2. CASE x = o
    BY <1>1, <1>3, <1>6, <2>2
  <2>3. CASE x # o
    <3>1. brc'[x] = brc[x] /\ (KeyHolds(bdb', x) <=> KeyHolds(bdb, x))
      BY <1>1, <1>3, <1>6, <2>3
    <3> QED  BY <2>1, <3>1
  <2> QED  BY <2>2, <2>3
<1>10. brc' \in [BioObjs -> Nat]
  BY <1>1, <1>3
<1> QED  BY <1>1, <1>2, <1>7, <1>8, <1>9, <1>10, DbChanged

\* A key is deleted.
LEMMA WithoutIs ==
    ASSUME NEW db, NEW q, OneHolder(q, db), DbOK(db), NEW k \in DOMAIN db
    PROVE  /\ DOMAIN BioWithout(db, k) \subseteq DOMAIN db /\ \A x \in DOMAIN BioWithout(db, k) : BioWithout(db, k)[x] = db[x]
           /\ \A o : KeyHolds(BioWithout(db, k), o) <=> KeyHolds(db, o) /\ o # db[k]
           /\ DbOK(BioWithout(db, k)) /\ db[k] \in BioObjs /\ KeyHolds(db, db[k])
<1> DEFINE d == BioWithout(db, k)
<1>1. DOMAIN d = DOMAIN db \ {k} /\ \A x \in DOMAIN d : d[x] = db[x]
  BY DEF BioWithout
<1> HIDE DEF d
<1>2. IsFiniteSet(DOMAIN d)
  BY <1>1, FS_RemoveElement DEF DbOK
<1>3. DbOK(d) /\ db[k] \in BioObjs
  BY <1>1, <1>2 DEF DbOK
<1>4. \A x, y \in DOMAIN db : db[x] = db[y] => x = y
  BY Zenon DEF OneHolder
<1>5. \A o : KeyHolds(d, o) <=> KeyHolds(db, o) /\ o # db[k]
  BY <1>1, <1>4 DEF KeyHolds
<1>6. KeyHolds(db, db[k])
  BY DEF KeyHolds
<1> QED  BY <1>1, <1>3, <1>5, <1>6 DEF d

\* DEL: the object had one reference, that of the key.
LEMMA DelInv ==
    ASSUME BioInv, NEW k, dbSyncDelete(k)
    PROVE  BioInv'
<1> DEFINE q == bio["lazy_free"]
           o == bdb[k]
<1>1. OneHolder(q, bdb) /\ CountOK(q, bdb, brc) /\ brc \in [BioObjs -> Nat] /\ DbOK(bdb) /\ bfault = FALSE
  BY LazyParts
<1>2. /\ k \in DOMAIN bdb /\ bdb' = BioWithout(bdb, k) /\ brc' = decrRefCount(brc, o)
      /\ bfault' = (bfault \/ brc[o] = 0) /\ UNCHANGED <<bsetup, bio, bmain, bcreated, bunsynced, bread, bfreed>>
  BY DEF dbSyncDelete
<1>3. /\ DOMAIN bdb' \subseteq DOMAIN bdb /\ \A x \in DOMAIN bdb' : bdb'[x] = bdb[x]
      /\ \A x : KeyHolds(bdb', x) <=> KeyHolds(bdb, x) /\ x # o
      /\ DbOK(bdb') /\ o \in BioObjs /\ KeyHolds(bdb, o)
  BY <1>1, <1>2, WithoutIs
<1> HIDE DEF q, o
<1>4. brc[o] = 1 /\ ~JobHolds(q, o)
  BY <1>1, <1>3 DEF CountOK, OneHolder
<1>5. bfault' = FALSE
  <2>1. brc[o] # 0
    BY <1>4
  <2> QED  BY <1>1, <1>2, <2>1, Zenon
<1>6. brc' = [brc EXCEPT ![o] = 0] /\ brc' \in [BioObjs -> Nat]
  <2>1. (IF brc[o] = 0 THEN 0 ELSE brc[o] - 1) = 0
    BY <1>4
  <2>2. brc' = [brc EXCEPT ![o] = IF brc[o] = 0 THEN 0 ELSE brc[o] - 1]
    BY <1>2 DEF decrRefCount
  <2>3. brc' = [brc EXCEPT ![o] = 0]
    BY <2>1, <2>2
  <2> QED  BY <1>1, <2>3
<1>7. OneHolder(q, bdb')
  <2>1. \A x, y \in DOMAIN bdb' : bdb'[x] = bdb'[y] => x = y
    BY <1>1, <1>3, Zenon DEF OneHolder
  <2>2. \A x \in BioObjs : KeyHolds(bdb', x) => ~JobHolds(q, x)
    BY <1>1, <1>3, Zenon DEF OneHolder
  <2> QED  BY <1>1, <2>1, <2>2, Zenon DEF OneHolder
<1>8. CountOK(q, bdb', brc')
  <2> SUFFICES ASSUME NEW x \in BioObjs
               PROVE  brc'[x] = IF KeyHolds(bdb', x) \/ JobHolds(q, x) THEN 1 ELSE 0
    BY Zenon DEF CountOK
  <2>1. brc[x] = IF KeyHolds(bdb, x) \/ JobHolds(q, x) THEN 1 ELSE 0
    BY <1>1 DEF CountOK
  <2>2. CASE x = o
    BY <1>1, <1>3, <1>4, <1>6, <2>2
  <2>3. CASE x # o
    <3>1. brc'[x] = brc[x] /\ (KeyHolds(bdb', x) <=> KeyHolds(bdb, x))
      BY <1>1, <1>3, <1>6, <2>3
    <3> QED  BY <2>1, <3>1
  <2> QED  BY <2>2, <2>3
<1> QED  BY <1>2, <1>3, <1>5, <1>6, <1>7, <1>8, DbChanged DEF q

\* UNLINK: the object goes from the key to a job.
LEMMA UnlinkInv ==
    ASSUME BioInv, NEW k, dbAsyncDelete(k)
    PROVE  BioInv'
<1> DEFINE t == "lazy_free"
           q == bio[t]
           o == bdb[k]
           j == [id |-> bcreated', objs |-> {o}, count |-> 1]
<1>1. /\ t \in BioTypes /\ q \in Threads /\ bio \in [BioTypes -> Threads] /\ QueueOK(q, bcreated) /\ HandOK(q)
      /\ bcreated \in Nat /\ Held(q, bdb, brc, bread, bfreed) /\ OneHolder(q, bdb)
      /\ bread \in Nat /\ bfreed \in Int /\ brc \in [BioObjs -> Nat] /\ DbOK(bdb) /\ bfault = FALSE
  BY LazyParts
<1>2. /\ k \in DOMAIN bdb /\ bdb' = BioWithout(bdb, k) /\ bio' = bioCreateBackgroundJob(bio, t, j)
      /\ bcreated' = bcreated + 1 /\ bfreed' = bfreed + 1
      /\ UNCHANGED <<bsetup, bmain, bunsynced, brc, bread, bfault>>
  BY DEF dbAsyncDelete
<1>3. /\ DOMAIN bdb' \subseteq DOMAIN bdb /\ \A x \in DOMAIN bdb' : bdb'[x] = bdb[x]
      /\ \A x : KeyHolds(bdb', x) <=> KeyHolds(bdb, x) /\ x # o
      /\ DbOK(bdb') /\ o \in BioObjs /\ KeyHolds(bdb, o)
  BY <1>1, <1>2, WithoutIs
<1>4. j \in Jobs /\ j.id = bcreated' /\ j.objs = {o} /\ j.count = 1
  BY <1>1, <1>2, <1>3 DEF Jobs
<1> HIDE DEF j, o
<1>5. Only(bio, t, bio'[t], bio') /\ Grown(q, j, bio'[t])
  BY <1>1, <1>2, <1>4, CreateOnly
<1>6. /\ bcreated' \in Nat /\ bcreated <= bcreated' /\ bcreated < j.id /\ j.id <= bcreated'
      /\ bfreed' \in Int /\ bfreed' = bfreed + j.count
  BY <1>1, <1>2, <1>4
<1>7. QueueOK(bio'[t], bcreated') /\ HandOK(bio'[t])
  BY <1>1, <1>4, <1>5, <1>6, GrownQueue
<1>8. /\ \A x \in j.objs : KeyHolds(bdb, x) /\ ~KeyHolds(bdb', x)
      /\ \A x : KeyHolds(bdb, x) => KeyHolds(bdb', x) \/ x \in j.objs
  BY <1>3, <1>4
<1>9. Held(bio'[t], bdb', brc, bread, bfreed + j.count)
  BY <1>1, <1>3, <1>4, <1>5, <1>8, GrownHeld
<1> HIDE DEF q
<1> QED  BY <1>1, <1>2, <1>3, <1>5, <1>6, <1>7, <1>9, LazyChanged

\* RENAME: the key that holds the object changes.
LEMMA RenameInv ==
    ASSUME BioInv, Sane(BioSetups[bsetup]), NEW k, NEW d, renameGenericCommand(k, d)
    PROVE  BioInv'
<1> DEFINE q == bio["lazy_free"]
           moved == [x \in (DOMAIN bdb \cup {d}) \ {k} |-> IF x = d THEN bdb[k] ELSE bdb[x]]
<1>1. OneHolder(q, bdb) /\ CountOK(q, bdb, brc) /\ brc \in [BioObjs -> Nat] /\ DbOK(bdb) /\ bfault = FALSE
  BY LazyParts
<1>2. ~BioSetups[bsetup].serverDel
  BY DEF Sane, renameGenericCommand, BioSetup
<1>3. /\ k \in DOMAIN bdb /\ d \notin DOMAIN bdb /\ bdb' = moved
      /\ UNCHANGED <<bsetup, bio, bmain, bcreated, bunsynced, brc, bread, bfreed, bfault>>
  BY <1>2, Zenon DEF renameGenericCommand, BioSetup
<1>4. /\ DOMAIN bdb' = (DOMAIN bdb \cup {d}) \ {k} /\ d \in DOMAIN bdb' /\ bdb'[d] = bdb[k]
      /\ \A x \in DOMAIN bdb' : x # d => x \in DOMAIN bdb /\ bdb'[x] = bdb[x]
  BY <1>3
<1>5. \A x, y \in DOMAIN bdb : bdb[x] = bdb[y] => x = y
  BY <1>1, Zenon DEF OneHolder
<1>6. \A x, y \in DOMAIN bdb' : bdb'[x] = bdb'[y] => x = y
  BY <1>3, <1>4, <1>5
<1>7. \A o : KeyHolds(bdb', o) <=> KeyHolds(bdb, o)
  BY <1>3, <1>4 DEF KeyHolds
<1>8. DbOK(bdb')
  <2>1. IsFiniteSet(DOMAIN bdb')
    <3>1. IsFiniteSet(DOMAIN bdb \cup {d})
      BY <1>1, FS_AddElement DEF DbOK
    <3> QED  BY <1>4, <3>1, FS_RemoveElement
  <2> QED  BY <1>1, <1>3, <1>4, <2>1 DEF DbOK
<1>9. OneHolder(q, bdb')
  BY <1>1, <1>6, <1>7, Zenon DEF OneHolder
<1>10. CountOK(q, bdb', brc')
  <2> SUFFICES ASSUME NEW x \in BioObjs
               PROVE  brc'[x] = IF KeyHolds(bdb', x) \/ JobHolds(q, x) THEN 1 ELSE 0
    BY Zenon DEF CountOK
  <2>1. brc[x] = IF KeyHolds(bdb, x) \/ JobHolds(q, x) THEN 1 ELSE 0
    BY <1>1 DEF CountOK
  <2>2. (KeyHolds(bdb', x) <=> KeyHolds(bdb, x)) /\ brc' = brc
    BY <1>3, <1>7
  <2> QED  BY <2>1, <2>2
<1> QED  BY <1>1, <1>3, <1>8, <1>9, <1>10, DbChanged

\* FLUSHALL ASYNC: the objects of the database go to a job.
LEMMA FlushInv ==
    ASSUME BioInv, emptyDbAsync
    PROVE  BioInv'
<1> DEFINE t == "lazy_free"
           q == bio[t]
           n == Cardinality(DOMAIN bdb)
           j == [id |-> bcreated', objs |-> {bdb[k] : k \in DOMAIN bdb}, count |-> n]
<1>1. /\ t \in BioTypes /\ q \in Threads /\ bio \in [BioTypes -> Threads] /\ QueueOK(q, bcreated) /\ HandOK(q)
      /\ bcreated \in Nat /\ Held(q, bdb, brc, bread, bfreed) /\ OneHolder(q, bdb)
      /\ bread \in Nat /\ bfreed \in Int /\ brc \in [BioObjs -> Nat] /\ DbOK(bdb) /\ bfault = FALSE
  BY LazyParts
<1>2. /\ bdb' = <<>> /\ bio' = bioCreateBackgroundJob(bio, t, j) /\ bmain' = [at |-> "flush", count |-> n]
      /\ bcreated' = bcreated + 1 /\ bfreed' = bfreed + n
      /\ UNCHANGED <<bsetup, bunsynced, brc, bread, bfault>>
  BY DEF emptyDbAsync
<1>3. n \in Nat
  BY <1>1, FS_CardinalityType DEF DbOK
<1>4. DOMAIN bdb' = {} /\ bmain' \in Waits
  BY <1>2, <1>3 DEF Waits
<1>5. (\A o : ~KeyHolds(bdb', o)) /\ DOMAIN bdb' \subseteq DOMAIN bdb /\ \A x \in DOMAIN bdb' : bdb'[x] = bdb[x]
  BY <1>4 DEF KeyHolds
<1>6. DbOK(bdb')
  BY <1>4, FS_EmptySet DEF DbOK
<1>7. /\ j \in Jobs /\ j.id = bcreated + 1 /\ j.count = n
      /\ \A o : o \in j.objs <=> KeyHolds(bdb, o)
  BY <1>1, <1>2, <1>3 DEF Jobs, KeyHolds, DbOK
<1> HIDE DEF j, n
<1>8. Only(bio, t, bio'[t], bio') /\ Grown(q, j, bio'[t])
  BY <1>1, <1>2, <1>7, CreateOnly
<1>9. /\ bcreated' \in Nat /\ bcreated <= bcreated' /\ bcreated < j.id /\ j.id <= bcreated'
      /\ bfreed' \in Int /\ bfreed' = bfreed + j.count
  BY <1>1, <1>2, <1>3, <1>7
<1>10. QueueOK(bio'[t], bcreated') /\ HandOK(bio'[t])
  BY <1>1, <1>7, <1>8, <1>9, GrownQueue
<1>11. Held(bio'[t], bdb', brc, bread, bfreed + j.count)
  BY <1>1, <1>5, <1>7, <1>8, GrownHeld
<1> HIDE DEF q
<1> QED  BY <1>1, <1>2, <1>4, <1>6, <1>8, <1>9, <1>10, <1>11, LazyChanged

\* Then a job follows that holds none.
LEMMA SlotFlushInv ==
    ASSUME BioInv, slotToKeyFlushAsync
    PROVE  BioInv'
<1> DEFINE t == "lazy_free"
           q == bio[t]
           n == bmain.count
           j == [id |-> bcreated', objs |-> {}, count |-> n]
<1>1. /\ t \in BioTypes /\ q \in Threads /\ bio \in [BioTypes -> Threads] /\ QueueOK(q, bcreated) /\ HandOK(q)
      /\ bcreated \in Nat /\ Held(q, bdb, brc, bread, bfreed) /\ OneHolder(q, bdb)
      /\ bread \in Nat /\ bfreed \in Int /\ brc \in [BioObjs -> Nat] /\ DbOK(bdb) /\ bfault = FALSE
  BY LazyParts
<1>2. /\ bio' = bioCreateBackgroundJob(bio, t, j) /\ bmain' = [at |-> "run"]
      /\ bcreated' = bcreated + 1 /\ bfreed' = bfreed + n
      /\ UNCHANGED <<bsetup, bunsynced, bdb, brc, bread, bfault>>
  BY DEF slotToKeyFlushAsync
<1>3. n \in Nat /\ bmain' \in Waits
  BY <1>2 DEF slotToKeyFlushAsync, BioInv, TypesOK, Waits
<1>4. j \in Jobs /\ j.id = bcreated + 1 /\ j.count = n /\ j.objs = {}
  BY <1>1, <1>2, <1>3 DEF Jobs
<1> HIDE DEF j, n
<1>5. Only(bio, t, bio'[t], bio') /\ Grown(q, j, bio'[t])
  BY <1>1, <1>2, <1>4, CreateOnly
<1>6. /\ bcreated' \in Nat /\ bcreated <= bcreated' /\ bcreated < j.id /\ j.id <= bcreated'
      /\ bfreed' \in Int /\ bfreed' = bfreed + j.count
  BY <1>1, <1>2, <1>3, <1>4
<1>7. QueueOK(bio'[t], bcreated') /\ HandOK(bio'[t])
  BY <1>1, <1>4, <1>5, <1>6, GrownQueue
<1>8. Held(bio'[t], bdb', brc, bread, bfreed + j.count)
  BY <1>1, <1>2, <1>4, <1>5, GrownHeld
<1> HIDE DEF q
<1> QED  BY <1>1, <1>2, <1>3, <1>5, <1>6, <1>7, <1>8, LazyChanged

\* The main thread waits, or stops to.
LEMMA WaitInv ==
    ASSUME BioInv, BioEvictWait \/ (\E enough \in BOOLEAN : BioEvictLook(enough)) \/ \E t \in BioTypes : bioWaitStepOfType(t)
    PROVE  BioInv'
<1>1. bmain' \in Waits /\ UNCHANGED <<bsetup, bio, bcreated, bunsynced, bdb, brc, bread, bfreed, bfault>>
  BY DEF BioEvictWait, BioEvictLook, bioWaitStepOfType, Waits
<1>2. TypesOK'
  BY <1>1 DEF BioInv, TypesOK
<1> QED  BY <1>1, <1>2 DEF BioInv

-----------------------------------------------------------------------------
(* The theorem. *)

\* Nothing was asked for.
LEMMA BioInitInv == bioInit => BioInv
<1> SUFFICES ASSUME bioInit  PROVE BioInv
  OBVIOUS
<1> DEFINE q == [jobs |-> <<>>, pending |-> 0, pc |-> "start", job |-> NoJob]
<1>1. NoJob \in Jobs /\ NoJob.objs = {}
  BY DEF NoJob, Jobs
<1>2. q \in Threads /\ Len(q.jobs) = 0
  BY <1>1 DEF Threads, Idle
<1>3. \A t \in BioTypes : bio[t] = q
  BY DEF bioInit
<1>4. bio["lazy_free"] = q /\ bio["aof_fsync"] = q
  BY <1>3, TypesAre
<1>5. DOMAIN bdb = {} /\ \A o : ~KeyHolds(bdb, o)
  BY DEF bioInit, KeyHolds
<1>6. TypesOK
  <2>1. DbOK(bdb)
    BY <1>5, FS_EmptySet DEF DbOK
  <2>2. bio \in [BioTypes -> Threads]
    BY <1>2 DEF bioInit
  <2>3. bmain \in Waits
    BY DEF bioInit, Waits
  <2> QED  BY <2>1, <2>2, <2>3 DEF TypesOK, bioInit
<1>7. q.jobs = <<>> /\ q.pending = 0 /\ q.pc = "start" /\ q.job = NoJob /\ <<>> \in Seq(Jobs) /\ Len(q.jobs) = 0
  OBVIOUS
<1> HIDE DEF q
<1>8. \A i : i \notin 1..Len(q.jobs)
  BY <1>7
<1>9. QueueOK(q, bcreated) /\ HandOK(q)
  BY <1>7, <1>8 DEF QueueOK, HandOK, Busy
<1>10. FsyncOK(q, bunsynced)
  BY DEF FsyncOK, bioInit
<1>11. Held(q, bdb, brc, bread, bfreed)
  <2>1. LazyOK(q, bread)
    BY <1>7 DEF LazyOK
  <2>2. FreedOK(q, bfreed)
    <3>1. PICK f : Sums(q.jobs, 0, f)
      BY SumsExist
    <3>2. JobTotal(q.jobs) = f[0]
      BY <1>7, <3>1, TotalIs
    <3>3. f[0] = 0
      BY <1>7, <3>1, SumsSteps
    <3> QED  BY <1>7, <3>2, <3>3 DEF FreedOK, bioInit
  <2>3. \A o : ~JobHolds(q, o)
    BY <1>8, Zenon DEF JobHolds
  <2>4. OneHolder(q, bdb)
    BY <1>5, <1>8 DEF OneHolder
  <2>5. CountOK(q, bdb, brc)
    BY <1>5, <2>3 DEF CountOK, bioInit
  <2> QED  BY <2>1, <2>2, <2>4, <2>5 DEF Held
<1>12. bfault = FALSE
  BY DEF bioInit
<1> QED  BY <1>3, <1>4, <1>6, <1>9, <1>10, <1>11, <1>12 DEF BioInv

\* Every step keeps the invariant.
LEMMA BioStep ==
    ASSUME BioInv, Sane(BioSetups[bsetup]), BioNext
    PROVE  BioInv'
<1>1. CASE BioMain
  <2>1. CASE \E always \in BOOLEAN : AofBackgroundFsync(always)
    BY <2>1, AskInv
  <2>2. CASE \E k \in BioSetup.keys : BioSet(k) \/ dbAsyncDelete(k) \/ dbSyncDelete(k)
                                    \/ \E d \in BioKeys \ {k} : renameGenericCommand(k, d)
    BY <2>2, SetInv, UnlinkInv, DelInv, RenameInv
  <2>3. CASE emptyDbAsync \/ slotToKeyFlushAsync
    BY <2>3, FlushInv, SlotFlushInv
  <2>4. CASE BioEvictWait \/ (\E enough \in BOOLEAN : BioEvictLook(enough)) \/ \E t \in BioTypes : bioWaitStepOfType(t)
    BY <2>4, WaitInv
  <2> QED  BY <1>1, <2>1, <2>2, <2>3, <2>4, Zenon DEF BioMain
<1>2. ASSUME NEW t \in BioTypes, BioThread(t) \/ BioSpurious(t)  PROVE BioInv'
  <2>1. CASE BioLock(t) \/ BioSpurious(t)
    BY <2>1, LockInv
  <2>2. CASE BioLoopTop(t)
    BY <2>2, LoopInv
  <2>3. CASE BioBroadcast(t)
    BY <2>3, BroadcastInv
  <2>4. CASE BioRemove(t)
    BY <2>4, RemoveInv
  <2>5. CASE BioProcessFsync
    BY <2>5, FsyncInv
  <2>6. CASE BioLazyRead \/ BioLazyWrite \/ BioLazyCount
    BY <2>6, ReadInv, WriteInv, CountInv
  <2> QED  BY <1>2, <2>1, <2>2, <2>3, <2>4, <2>5, <2>6, Zenon DEF BioThread
<1> QED  BY <1>1, <1>2, Zenon DEF BioNext

\* The number of members of a set that has at most one.
LEMMA OneOrNone ==
    ASSUME NEW S, \A x, y \in S : x = y
    PROVE  Cardinality(S) = IF S = {} THEN 0 ELSE 1
<1>1. CASE S = {}
  BY <1>1, FS_EmptySet
<1>2. CASE S # {}
  <2>1. PICK x : S = {x}
    BY <1>2
  <2> QED  BY <1>2, <2>1, FS_Singleton
<1> QED  BY <1>1, <1>2

\* The invariant says what BioSound does.
LEMMA InvSound ==
    ASSUME BioInv
    PROVE  BioSound
<1> DEFINE q == bio["lazy_free"]
<1>1. ASSUME NEW t \in BioTypes
      PROVE  /\ bio[t].pending = Len(bio[t].jobs)
             /\ bio[t].job # NoJob => bio[t].jobs # <<>> /\ bio[t].jobs[1].id = bio[t].job.id
  <2>1. bio[t] \in Threads /\ QueueOK(bio[t], bcreated) /\ HandOK(bio[t])
    BY InvParts
  <2>2. bio[t].jobs \in Seq(Jobs) /\ bio[t].pc \in Idle \cup Busy
    BY <2>1, ThreadIs
  <2>3. bio[t].pending = Len(bio[t].jobs)
    BY <2>1 DEF QueueOK
  <2>4. ASSUME bio[t].job # NoJob  PROVE Len(bio[t].jobs) > 0 /\ bio[t].jobs[1].id = bio[t].job.id
    BY <2>1, <2>2, <2>4 DEF HandOK
  <2> QED  BY <2>2, <2>3, <2>4
<1>2. bioPendingJobsOfType("aof_fsync") = 0 => bunsynced = {}
  <2>1. FsyncOK(bio["aof_fsync"], bunsynced)
    BY DEF BioInv
  <2>2. bio["aof_fsync"].pending = Len(bio["aof_fsync"].jobs)
    BY <1>1, TypesAre
  <2> QED  BY <2>1, <2>2 DEF FsyncOK, bioPendingJobsOfType
<1>3. /\ q \in Threads /\ QueueOK(q, bcreated) /\ HandOK(q) /\ FreedOK(q, bfreed)
      /\ OneHolder(q, bdb) /\ CountOK(q, bdb, brc) /\ bfault = FALSE /\ bcreated \in Nat
  BY LazyParts DEF Held
<1>4. bfreed = JobTotal(q.jobs) - (IF q.pc \in {"done", "relock"} THEN q.job.count ELSE 0)
  BY <1>3 DEF FreedOK
<1>5. q.jobs \in Seq(Jobs) /\ q.pc \in Idle \cup Busy /\ Len(q.jobs) \in Nat
  BY <1>3, ThreadIs
<1>6. DOMAIN BioLeft("lazy_free") = 1..Len(q.jobs)
  BY <1>5 DEF BioLeft
<1>7. \A i \in 1..Len(q.jobs) : BioLeft("lazy_free")[i].objs = Left(q, i)
  <2>1. q.pc \in Busy <=> q.job # NoJob
    <3>1. ASSUME q.pc \in Busy  PROVE q.job # NoJob
      <4>1. Len(q.jobs) > 0 /\ q.job.id = q.jobs[1].id
        BY <1>3, <3>1 DEF HandOK
      <4>2. q.jobs[1].id \in 1..bcreated
        BY <1>3, <1>5, <4>1 DEF QueueOK
      <4> QED  BY <1>3, <4>1, <4>2 DEF NoJob
    <3>2. ASSUME q.pc \notin Busy  PROVE q.job = NoJob
      BY <1>3, <1>5, <3>2 DEF HandOK
    <3> QED  BY <3>1, <3>2
  <2> QED  BY <1>5, <2>1 DEF BioLeft, Left
<1>8. ASSUME NEW o \in BioObjs
      PROVE  brc[o] = Cardinality({k \in DOMAIN bdb : bdb[k] = o})
                      + Cardinality({i \in DOMAIN BioLeft("lazy_free") : o \in BioLeft("lazy_free")[i].objs})
  <2> DEFINE K == {k \in DOMAIN bdb : bdb[k] = o}
             I == {i \in DOMAIN BioLeft("lazy_free") : o \in BioLeft("lazy_free")[i].objs}
  <2>1. I = {i \in 1..Len(q.jobs) : o \in Left(q, i)}
    BY <1>6, <1>7
  <2>2. (\A x, y \in K : x = y) /\ \A x, y \in I : x = y
    <3>1. \A x, y \in K : x = y
      BY <1>3 DEF OneHolder
    <3>2. \A x, y \in I : x = y
      BY <1>3, <2>1, Zenon DEF OneHolder
    <3> QED  BY <3>1, <3>2
  <2>3. (K # {} <=> KeyHolds(bdb, o)) /\ (I # {} <=> JobHolds(q, o))
    <3>1. K # {} <=> KeyHolds(bdb, o)
      BY DEF KeyHolds
    <3>2. I # {} <=> JobHolds(q, o)
      BY <2>1 DEF JobHolds
    <3> QED  BY <3>1, <3>2
  <2>4. Cardinality(K) = (IF K = {} THEN 0 ELSE 1) /\ Cardinality(I) = IF I = {} THEN 0 ELSE 1
    <3> HIDE DEF K, I
    <3> QED  BY <2>2, OneOrNone
  <2>5. ~(KeyHolds(bdb, o) /\ JobHolds(q, o))
    BY <1>3, Zenon DEF OneHolder
  <2>6. brc[o] = IF KeyHolds(bdb, o) \/ JobHolds(q, o) THEN 1 ELSE 0
    BY <1>3 DEF CountOK
  <2> HIDE DEF K, I
  <2>7. brc[o] = Cardinality(K) + Cardinality(I)
    BY <2>3, <2>4, <2>5, <2>6
  <2> QED  BY <2>7 DEF K, I
<1> QED  BY <1>1, <1>2, <1>3, <1>4, <1>8 DEF BioSound

\* The counters, the queues and the references are exact whatever the threads and the
\* main thread do in which order: no fsync is pending only if all have returned,
\* lazyfree_objects counts what is handed over and not freed, and no object is freed
\* twice or used when it is free, for any numbers of keys, objects and jobs.
THEOREM ThreadsSound == BioSpec => [](Sane(BioSetup) => BioSound)
<1>1. bioInit => (Sane(BioSetup) => BioInv)
  BY BioInitInv
<1>2. (Sane(BioSetup) => BioInv) /\ [BioNext]_bioVars => (Sane(BioSetup) => BioInv)'
  <2> SUFFICES ASSUME Sane(BioSetup) => BioInv, [BioNext]_bioVars, Sane(BioSetup)'
               PROVE  BioInv'
    OBVIOUS
  <2>1. bsetup' = bsetup
    BY DEF BioNext, bioVars, BioMain, BioThread, AofBackgroundFsync, BioSet, dbAsyncDelete, dbSyncDelete,
           renameGenericCommand, emptyDbAsync, slotToKeyFlushAsync, BioEvictWait, BioEvictLook, bioWaitStepOfType, BioThreadOnly,
           BioLock, BioSpurious, BioLoopTop, BioProcessFsync, BioLazyRead, BioLazyWrite, BioLazyCount,
           BioBroadcast, BioRemove
  <2>2. Sane(BioSetups[bsetup]) /\ BioInv
    BY <2>1 DEF BioSetup
  <2>3. CASE BioNext
    BY <2>2, <2>3, BioStep
  <2>4. CASE UNCHANGED bioVars
    BY <2>2, <2>4 DEF bioVars, BioInv, TypesOK
  <2> QED  BY <2>3, <2>4
<1>3. (Sane(BioSetup) => BioInv) => (Sane(BioSetup) => BioSound)
  BY InvSound
<1> QED  BY <1>1, <1>2, <1>3, PTL DEF BioSpec
=============================================================================
