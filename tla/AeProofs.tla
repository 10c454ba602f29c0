------------------------------ MODULE AeProofs ------------------------------
(***************************************************************************)
(* The event loop is sound for every number of descriptors and timers,      *)
(* whatever the handlers close, accept, create and delete.                  *)
(***************************************************************************)
EXTENDS Ae, FiniteSetTheorems, SequenceTheorems, WellFoundedInduction, TLAPS

Masks == SUBSET {"r", "w"}
Procs == {"none", "read", "write", "connect"}
Events == [mask : Masks, rproc : Procs, wproc : Procs, data : Nat]
Timers == [node : Nat, id : Nat \cup {AE_DELETED_EVENT_ID}, when : Int]

Worlds == [fd : [AeFds -> Nat], conn : Nat, events : [AeFds -> Events], kernel : [AeFds -> Masks],
           maxfd : Int, timers : Seq(Timers), nextid : Nat]

\* maxfd is the greatest descriptor with an event.
MaxFdOK(w) ==
    /\ \A f \in AeFds : w.events[f].mask # {} => f <= w.maxfd
    /\ w.maxfd # -1 => w.maxfd \in AeFds /\ w.events[w.maxfd].mask # {}

\* epoll, the table of events and the open descriptors agree.
FilesOK(w) ==
    /\ \A f \in AeFds : w.kernel[f] = w.events[f].mask
    /\ \A f \in AeFds : w.events[f].mask # {} => w.events[f].data = w.fd[f] /\ w.fd[f] # 0
    /\ w.maxfd >= -1 /\ MaxFdOK(w)

\* Timers are linked at the head, so the list is in the order of their identifiers.
TimersOK(ts, n) ==
    /\ \A i \in 1..Len(ts) : ts[i].node < n /\ ts[i].id \in {ts[i].node, AE_DELETED_EVENT_ID}
    /\ \A i, j \in 1..Len(ts) : i < j => ts[j].node < ts[i].node

\* What a handler may do to the list: link one timer at the head, or mark one as deleted.
Follows(ts, new) ==
    \E d \in 0..1 :
        /\ Len(new) = Len(ts) + d
        /\ \A i \in 1..Len(ts) : /\ new[i + d].node = ts[i].node
                                 /\ new[i + d].when = ts[i].when
                                 /\ new[i + d].id \in {ts[i].id, AE_DELETED_EVENT_ID}

\* Where te is, with prev right before it.
AtNode(ts, p, te, prev) ==
    /\ ts[p].node = te
    /\ prev = NoNode => p = 1
    /\ prev # NoNode => p > 1 /\ ts[p - 1].node = prev

\* The timers still due are ahead: they are linked, and either deleted or their time is there.
DueOK(ts, te, due, now) ==
    \A k \in due : /\ k <= te
                   /\ \E i \in 1..Len(ts) : ts[i].node = k /\ (ts[i].id = AE_DELETED_EVENT_ID \/ ts[i].when <= now)

\* processTimeEvents() on its way through the list.
WalkOK(ts, te, prev, maxid, due, now) ==
    /\ te # NoNode => te <= maxid /\ \E p \in 1..Len(ts) : AtNode(ts, p, te, prev)
    /\ te = NoNode => due = {}
    /\ DueOK(ts, te, due, now)

\* The last call of a handler was right.
CallOK == acall.fd # -1 => acall.watched /\ acall.data = acall.conn /\ acall.conn # 0 /\ ~acall.twice

\* The inductive invariant.
AeInv ==
    /\ AeWorld \in Worlds /\ FilesOK(AeWorld) /\ TimersOK(atimers, anextid)
    /\ afired \in Seq([fd : AeFds, mask : Masks])
    /\ apc \in [at : {"before", "poll", "file", "write", "time"}, rfired : BOOLEAN]
    /\ anow \in Int /\ CallOK /\ amaxid \in Int
    /\ ate \in Nat \cup {NoNode} /\ aprev \in Nat \cup {NoNode} /\ adue \subseteq Nat
    /\ apc.at = "write" => afired # <<>>
    /\ apc.at = "time" => WalkOK(atimers, ate, aprev, amaxid, adue, anow)
    /\ apc.at # "time" => ate = NoNode
    /\ apc.at = "before" => adue = {}

-----------------------------------------------------------------------------
(* Greatest and least elements. *)

\* A set of naturals has a least element.
LEMMA LeastNat ==
    ASSUME NEW S, S \subseteq Nat, S # {}
    PROVE  \E m \in S : \A n \in S : m <= n
<1> DEFINE R == OpToRel(<, Nat)
<1>1. \A m, n \in Nat : <<m, n>> \in R <=> m < n
  BY DEF OpToRel
<1>2. IsWellFoundedOn(R, Nat)
  BY NatLessThanWellFounded
<1> HIDE DEF R
<1>3. PICK m \in S : \A n \in S : ~(<<n, m>> \in R)
  BY <1>2, WFMin
<1>4. m \in Nat /\ \A n \in S : n \in Nat
  OBVIOUS
<1>5. \A n \in S : ~(n < m)
  BY <1>1, <1>3, <1>4, Zenon
<1>6. \A n \in S : m <= n
  BY <1>4, <1>5
<1> QED  BY <1>6

\* Min, as AeOpen uses it.
LEMMA MinIs ==
    ASSUME NEW S, S \subseteq Nat, S # {}
    PROVE  Min(S) \in S
<1>1. \E m \in S : \A n \in S : m =< n
  BY LeastNat
<1> QED  BY <1>1 DEF Min

\* Max, as aeDeleteFileEvent uses it, of a set that has a bound.
LEMMA MaxIs ==
    ASSUME NEW S, S \subseteq Nat, S # {}, NEW b \in Nat, \A x \in S : x <= b
    PROVE  Max(S) \in S /\ \A x \in S : x <= Max(S)
<1> DEFINE U == {n \in Nat : \A x \in S : x <= n}
<1>1. U \subseteq Nat /\ U # {}
  OBVIOUS
<1>2. PICK m \in U : \A n \in U : m <= n
  BY <1>1, LeastNat
<1>3. PICK y \in S : TRUE
  OBVIOUS
<1>4. m \in S
  <2> SUFFICES ASSUME m \notin S PROVE FALSE
    OBVIOUS
  <2>1. m \in Nat /\ \A x \in S : x \in Nat /\ x <= m /\ x # m
    BY <1>2
  <2>2. m - 1 \in Nat /\ \A x \in S : x <= m - 1
    BY <2>1, <1>3
  <2> QED  BY <1>2, <2>1, <2>2
<1>5. \A x \in S : m >= x
  BY <1>2
<1>6. \E x \in S : \A z \in S : x >= z
  BY <1>4, <1>5
<1>7. Max(S) \in S /\ \A z \in S : Max(S) >= z
  BY <1>6 DEF Max
<1> QED  BY <1>7

-----------------------------------------------------------------------------
(* The operations of handlers on files. *)

\* aeCreateFileEvent() with the data of the connection.
LEMMA CreateOK ==
    ASSUME NEW w \in Worlds, FilesOK(w), NEW f \in AeFds, NEW mask \in Masks, mask # {}, NEW proc \in Procs,
           w.fd[f] # 0, NEW new, new = aeCreateFileEvent(w, f, mask, proc, w.fd[f])
    PROVE  new \in Worlds /\ FilesOK(new) /\ new.timers = w.timers /\ new.nextid = w.nextid
<1> DEFINE ev == [mask |-> w.events[f].mask \cup mask,
                  rproc |-> IF "r" \in mask THEN proc ELSE w.events[f].rproc,
                  wproc |-> IF "w" \in mask THEN proc ELSE w.events[f].wproc,
                  data |-> w.fd[f]]
           mx == IF f > w.maxfd THEN f ELSE w.maxfd
           evs == [w.events EXCEPT ![f] = ev]
           ker == [w.kernel EXCEPT ![f] = w.events[f].mask \cup mask]
<1>0. AeFds \subseteq Nat
  BY AeAssumption
<1>1. /\ w.events \in [AeFds -> Events] /\ w.kernel \in [AeFds -> Masks] /\ w.fd \in [AeFds -> Nat]
      /\ w.maxfd \in Int
  BY DEF Worlds
<1>2. w.events[f] \in Events /\ w.fd[f] \in Nat
  BY <1>1
<1>3. ev \in Events /\ ev.mask = w.events[f].mask \cup mask /\ ev.mask # {} /\ ev.data = w.fd[f]
  BY <1>2 DEF Events, Masks
<1>4. mx \in Int /\ mx >= f /\ mx >= w.maxfd /\ mx \in {f, w.maxfd}
  BY <1>0, <1>1
<1>5. ker \in [AeFds -> Masks] /\ ker[f] = ev.mask /\ \A g \in AeFds : g # f => ker[g] = w.kernel[g]
  BY <1>1, <1>2, <1>3 DEF Events, Masks
<1>6. new = [w EXCEPT !.kernel = ker, !.events = evs, !.maxfd = mx]
  BY DEF aeCreateFileEvent, aeApiAddEvent
<1> HIDE DEF ev, mx, ker
<1>7. evs \in [AeFds -> Events] /\ evs[f] = ev /\ \A g \in AeFds : g # f => evs[g] = w.events[g]
  BY <1>1, <1>3
<1> HIDE DEF evs
<1>8. /\ new.kernel = ker /\ new.events = evs /\ new.maxfd = mx /\ new.fd = w.fd
      /\ new.timers = w.timers /\ new.nextid = w.nextid /\ new.conn = w.conn
      /\ new \in Worlds
  BY <1>4, <1>5, <1>6, <1>7 DEF Worlds
<1>9. \A g \in AeFds : evs[g].mask # {} => g <= mx
  BY <1>0, <1>1, <1>4, <1>7 DEF FilesOK, MaxFdOK
<1>10. mx # -1 => mx \in AeFds /\ evs[mx].mask # {}
  BY <1>3, <1>4, <1>7 DEF FilesOK, MaxFdOK
<1>11. MaxFdOK(new)
  BY <1>8, <1>9, <1>10 DEF MaxFdOK
<1>12. \A g \in AeFds : new.kernel[g] = new.events[g].mask
  BY <1>5, <1>7, <1>8 DEF FilesOK
<1>13. \A g \in AeFds : new.events[g].mask # {} => new.events[g].data = new.fd[g] /\ new.fd[g] # 0
  BY <1>3, <1>7, <1>8 DEF FilesOK
<1>14. new.maxfd >= -1
  BY <1>1, <1>4, <1>8 DEF FilesOK
<1> QED  BY <1>8, <1>11, <1>12, <1>13, <1>14 DEF FilesOK

\* aeDeleteFileEvent().
LEMMA DeleteOK ==
    ASSUME NEW w \in Worlds, FilesOK(w), NEW f \in AeFds, NEW mask \in Masks,
           NEW new, new = aeDeleteFileEvent(w, f, mask)
    PROVE  /\ new \in Worlds /\ FilesOK(new) /\ new.timers = w.timers /\ new.nextid = w.nextid
           /\ new.fd = w.fd /\ new.events[f].mask = w.events[f].mask \ mask
<1> DEFINE left == w.events[f].mask \ mask
           used == {g \in AeFds : g < f /\ w.events[g].mask # {}}
           mx == IF f # w.maxfd \/ left # {} THEN w.maxfd ELSE IF used = {} THEN -1 ELSE Max(used)
           ev == [w.events[f] EXCEPT !.mask = left]
           evs == [w.events EXCEPT ![f] = ev]
           ker == [w.kernel EXCEPT ![f] = left]
<1>0. AeFds \subseteq Nat
  BY AeAssumption
<1>1. /\ w.events \in [AeFds -> Events] /\ w.kernel \in [AeFds -> Masks] /\ w.fd \in [AeFds -> Nat]
      /\ w.maxfd \in Int
  BY DEF Worlds
<1>2. w.events[f] \in Events
  BY <1>1
<1>3. CASE w.events[f].mask = {}
  BY <1>3 DEF aeDeleteFileEvent, AE_NONE
<1>4. CASE w.events[f].mask # {}
  <2>1. new = [w EXCEPT !.kernel = ker, !.events = evs, !.maxfd = mx]
    BY <1>4 DEF aeDeleteFileEvent, aeApiDelEvent, AE_NONE
  <2>2. ev \in Events /\ ev.mask = left /\ ev.data = w.events[f].data
    BY <1>2 DEF Events, Masks
  <2>3. left \in Masks /\ ker \in [AeFds -> Masks] /\ ker[f] = left /\ \A g \in AeFds : g # f => ker[g] = w.kernel[g]
    BY <1>1, <1>2 DEF Events, Masks
  <2> HIDE DEF ker, ev
  <2>4. evs \in [AeFds -> Events] /\ evs[f] = ev /\ \A g \in AeFds : g # f => evs[g] = w.events[g]
    BY <1>1, <2>2
  <2> HIDE DEF evs
  <2>5. used # {} => Max(used) \in used /\ \A x \in used : x <= Max(used)
    <3>1. f \in Nat /\ \A x \in AeFds : x \in Nat
      BY <1>0
    <3>2. used \subseteq Nat
      BY <3>1
    <3>3. \A x \in used : x <= f
      BY <3>1
    <3> HIDE DEF used
    <3> QED  BY <3>1, <3>2, <3>3, MaxIs
  <2>6. f <= w.maxfd /\ (\A g \in AeFds : w.events[g].mask # {} => g <= w.maxfd)
        /\ (w.maxfd # -1 => w.maxfd \in AeFds /\ w.events[w.maxfd].mask # {}) /\ w.maxfd >= -1
    BY <1>4 DEF FilesOK, MaxFdOK
  <2>7. mx \in Int /\ mx >= -1 /\ (\A g \in AeFds : evs[g].mask # {} => g <= mx)
        /\ (mx # -1 => mx \in AeFds /\ evs[mx].mask # {})
    <3>1. CASE f # w.maxfd
      BY <1>0, <1>1, <2>2, <2>4, <2>6, <3>1
    <3>2. CASE f = w.maxfd /\ left # {}
      BY <1>0, <1>1, <2>2, <2>4, <2>6, <3>2
    <3>3. CASE f = w.maxfd /\ left = {}
      <4>1. \A g \in AeFds : evs[g].mask # {} => g \in used
        BY <1>0, <1>1, <2>2, <2>4, <2>6, <3>3
      <4>2. CASE used = {}
        <5>1. mx = -1
          BY <3>3, <4>2
        <5> HIDE DEF mx, used
        <5> QED  BY <4>1, <4>2, <5>1
      <4>3. CASE used # {}
        <5>1. mx = Max(used)
          BY <3>3, <4>3
        <5>2. mx \in AeFds /\ mx < f /\ w.events[mx].mask # {} /\ \A x \in used : x <= mx
          BY <2>5, <4>3, <5>1
        <5> HIDE DEF mx, used
        <5> QED  BY <1>0, <2>4, <4>1, <5>2
      <4> QED  BY <4>2, <4>3
    <3> QED  BY <3>1, <3>2, <3>3
  <2> HIDE DEF mx, left
  <2>8. /\ new.kernel = ker /\ new.events = evs /\ new.maxfd = mx /\ new.fd = w.fd
        /\ new.timers = w.timers /\ new.nextid = w.nextid
        /\ new \in Worlds
    BY <2>1, <2>3, <2>4, <2>7 DEF Worlds
  <2>9. MaxFdOK(new)
    BY <2>7, <2>8 DEF MaxFdOK
  <2>10. \A g \in AeFds : new.kernel[g] = new.events[g].mask
    BY <2>2, <2>3, <2>4, <2>8 DEF FilesOK
  <2>11. \A g \in AeFds : new.events[g].mask # {} => new.events[g].data = new.fd[g] /\ new.fd[g] # 0
    BY <1>4, <2>2, <2>4, <2>8 DEF FilesOK
  <2>12. FilesOK(new)
    BY <2>7, <2>8, <2>9, <2>10, <2>11 DEF FilesOK
  <2>13. new.events[f].mask = left
    BY <2>2, <2>4, <2>8
  <2> QED  BY <2>8, <2>12, <2>13 DEF left
<1> QED  BY <1>3, <1>4

\* A connection is closed.
LEMMA CloseOK ==
    ASSUME NEW w \in Worlds, FilesOK(w), NEW f \in AeFds, NEW new, new = AeClose(w, f)
    PROVE  new \in Worlds /\ FilesOK(new) /\ new.timers = w.timers /\ new.nextid = w.nextid
<1> DEFINE u == aeDeleteFileEvent(w, f, {"r"})
           v == aeDeleteFileEvent(u, f, {"w"})
           fds == [v.fd EXCEPT ![f] = 0]
           ker == [v.kernel EXCEPT ![f] = {}]
<1>1. {"r"} \in Masks /\ {"w"} \in Masks
  BY DEF Masks
<1>2. new = [v EXCEPT !.fd = fds, !.kernel = ker]
  BY DEF AeClose, AE_NONE
<1>3. /\ u \in Worlds /\ FilesOK(u) /\ u.timers = w.timers /\ u.nextid = w.nextid
      /\ u.events[f].mask = w.events[f].mask \ {"r"}
  BY <1>1, DeleteOK
<1> HIDE DEF u
<1>4. /\ v \in Worlds /\ FilesOK(v) /\ v.timers = u.timers /\ v.nextid = u.nextid
      /\ v.events[f].mask = u.events[f].mask \ {"w"}
  BY <1>1, <1>3, DeleteOK
<1> HIDE DEF v
<1>5. v.events[f].mask = {}
  <2>1. w.events[f].mask \in Masks
    BY DEF Worlds, Events
  <2> QED  BY <1>3, <1>4, <2>1 DEF Masks
<1>6. /\ v.fd \in [AeFds -> Nat] /\ v.kernel \in [AeFds -> Masks]
  BY <1>4 DEF Worlds
<1>7. /\ fds \in [AeFds -> Nat] /\ ker \in [AeFds -> Masks] /\ ker[f] = {}
      /\ \A g \in AeFds : g # f => fds[g] = v.fd[g] /\ ker[g] = v.kernel[g]
  BY <1>6 DEF Masks
<1> HIDE DEF fds, ker
<1>8. /\ new.kernel = ker /\ new.events = v.events /\ new.maxfd = v.maxfd /\ new.fd = fds
      /\ new.timers = v.timers /\ new.nextid = v.nextid
      /\ new \in Worlds
  BY <1>2, <1>4, <1>7 DEF Worlds
<1>9. MaxFdOK(new)
  BY <1>4, <1>8 DEF MaxFdOK, FilesOK
<1>10. \A g \in AeFds : new.kernel[g] = new.events[g].mask
  BY <1>4, <1>5, <1>7, <1>8 DEF FilesOK
<1>11. \A g \in AeFds : new.events[g].mask # {} => new.events[g].data = new.fd[g] /\ new.fd[g] # 0
  BY <1>4, <1>5, <1>7, <1>8 DEF FilesOK
<1>12. FilesOK(new)
  BY <1>4, <1>8, <1>9, <1>10, <1>11 DEF FilesOK
<1> QED  BY <1>3, <1>4, <1>8, <1>12

\* A connection is opened on the lowest free descriptor.
LEMMA OpenOK ==
    ASSUME NEW w \in Worlds, FilesOK(w), NEW proc \in Procs, NEW mask \in Masks, mask # {},
           {g \in AeFds : w.fd[g] = 0} # {}, NEW new, new = AeOpen(w, proc, mask)
    PROVE  new \in Worlds /\ FilesOK(new) /\ new.timers = w.timers /\ new.nextid = w.nextid
<1> DEFINE free == {g \in AeFds : w.fd[g] = 0}
           f == Min(free)
           c == w.conn + 1
           fds == [w.fd EXCEPT ![f] = c]
           v == [w EXCEPT !.fd = fds, !.conn = c]
<1>1. f \in free
  <2>1. free \subseteq Nat /\ free # {}
    BY AeAssumption
  <2> HIDE DEF free
  <2> QED  BY <2>1, MinIs
<1>2. new = aeCreateFileEvent(v, f, mask, proc, c)
  BY DEF AeOpen
<1>3. f \in AeFds /\ w.fd[f] = 0
  BY <1>1
<1> HIDE DEF f
<1>4. w.fd \in [AeFds -> Nat] /\ c \in Nat /\ c # 0
  BY DEF Worlds
<1> HIDE DEF c
<1>5. fds \in [AeFds -> Nat] /\ fds[f] = c /\ \A g \in AeFds : g # f => fds[g] = w.fd[g]
  BY <1>3, <1>4
<1> HIDE DEF fds
<1>6. /\ v \in Worlds /\ v.fd = fds /\ v.events = w.events /\ v.kernel = w.kernel /\ v.maxfd = w.maxfd
      /\ v.timers = w.timers /\ v.nextid = w.nextid
  BY <1>4, <1>5 DEF Worlds
<1>7. w.events[f].mask = {}
  BY <1>3 DEF FilesOK
<1> HIDE DEF v
<1>8. FilesOK(v)
  <2>1. MaxFdOK(v)
    BY <1>6 DEF MaxFdOK, FilesOK
  <2>2. \A g \in AeFds : v.events[g].mask # {} => v.events[g].data = v.fd[g] /\ v.fd[g] # 0
    BY <1>5, <1>6, <1>7 DEF FilesOK
  <2> QED  BY <1>6, <2>1, <2>2 DEF FilesOK
<1>9. v.fd[f] = c
  BY <1>5, <1>6
<1>10. new = aeCreateFileEvent(v, f, mask, proc, v.fd[f]) /\ v.fd[f] # 0
  BY <1>2, <1>4, <1>9
<1>11. new \in Worlds /\ FilesOK(new) /\ new.timers = v.timers /\ new.nextid = v.nextid
  BY <1>3, <1>6, <1>8, <1>10, CreateOK
<1> QED  BY <1>6, <1>11

-----------------------------------------------------------------------------
(* The operations of handlers on timers. *)

\* The domain of a list of timers.
LEMMA TimerList ==
    ASSUME NEW ts \in Seq(Timers)
    PROVE  /\ Len(ts) \in Nat /\ DOMAIN ts = 1..Len(ts)
           /\ \A i \in 1..Len(ts) : ts[i] \in Timers /\ ts[i].node \in Nat /\ ts[i].when \in Int
<1>1. Len(ts) \in Nat /\ DOMAIN ts = 1..Len(ts) /\ \A i \in 1..Len(ts) : ts[i] \in Timers
  OBVIOUS
<1>2. \A te \in Timers : te.node \in Nat /\ te.when \in Int
  BY DEF Timers
<1> QED  BY <1>1, <1>2

\* A list left alone.
LEMMA SameOK ==
    ASSUME NEW ts \in Seq(Timers)
    PROVE  Follows(ts, ts)
<1> DEFINE none == 0
<1>1. none \in 0..1 /\ Len(ts) = Len(ts) + none /\ \A i \in 1..Len(ts) : i + none = i
  OBVIOUS
<1> HIDE DEF none
<1>2. \A i \in 1..Len(ts) : /\ ts[i + none].node = ts[i].node
                            /\ ts[i + none].when = ts[i].when
                            /\ ts[i + none].id \in {ts[i].id, AE_DELETED_EVENT_ID}
  BY <1>1
<1> QED  BY <1>1, <1>2 DEF Follows

\* A list whose entries keep their nodes is in order still.
LEMMA MappedOK ==
    ASSUME NEW ts \in Seq(Timers), NEW n \in Nat, TimersOK(ts, n), NEW new \in Seq(Timers), Len(new) = Len(ts),
           \A i \in 1..Len(ts) : new[i].node = ts[i].node /\ new[i].id \in {ts[i].id, AE_DELETED_EVENT_ID}
    PROVE  TimersOK(new, n)
<1>1. \A i \in 1..Len(new) : new[i].node < n /\ new[i].id \in {new[i].node, AE_DELETED_EVENT_ID}
  BY DEF TimersOK
<1>2. \A i, j \in 1..Len(new) : i < j => new[j].node < new[i].node
  BY DEF TimersOK
<1> QED  BY <1>1, <1>2 DEF TimersOK

\* Marking a timer as deleted keeps the rest of it.
LEMMA DeletedIs ==
    ASSUME NEW te \in Timers
    PROVE  /\ Deleted(te) \in Timers /\ Deleted(te).node = te.node /\ Deleted(te).when = te.when
           /\ Deleted(te).id = AE_DELETED_EVENT_ID
  BY DEF Deleted, Timers

\* aeDeleteTimeEvent().
LEMMA DelTimerOK ==
    ASSUME NEW w \in Worlds, TimersOK(w.timers, w.nextid), NEW id, NEW new, new = aeDeleteTimeEvent(w, id)
    PROVE  /\ new \in Worlds /\ TimersOK(new.timers, new.nextid) /\ Follows(w.timers, new.timers)
           /\ FilesOK(w) => FilesOK(new)
<1> DEFINE ts == w.timers
           us == [i \in DOMAIN ts |-> IF ts[i].id = id THEN Deleted(ts[i]) ELSE ts[i]]
<1>1. ts \in Seq(Timers) /\ w.nextid \in Nat
  BY DEF Worlds
<1>2. new = [w EXCEPT !.timers = us]
  BY DEF aeDeleteTimeEvent
<1>3. TimersOK(ts, w.nextid)
  OBVIOUS
<1> HIDE DEF ts
<1>4. Len(ts) \in Nat /\ DOMAIN ts = 1..Len(ts) /\ \A i \in 1..Len(ts) : ts[i] \in Timers
  BY <1>1, TimerList
<1>5. /\ us \in Seq(Timers) /\ Len(us) = Len(ts)
      /\ \A i \in 1..Len(ts) : us[i] = IF ts[i].id = id THEN Deleted(ts[i]) ELSE ts[i]
  <2>1. us \in [1..Len(ts) -> Timers]
    BY <1>4, DeletedIs
  <2> QED  BY <1>4, <2>1
<1> HIDE DEF us
<1>6. \A i \in 1..Len(ts) : /\ us[i].node = ts[i].node /\ us[i].when = ts[i].when
                            /\ us[i].id \in {ts[i].id, AE_DELETED_EVENT_ID}
  BY <1>4, <1>5, DeletedIs
<1>7. TimersOK(us, w.nextid)
  BY <1>1, <1>3, <1>5, <1>6, MappedOK
<1>8. Follows(ts, us)
  <2> DEFINE none == 0
  <2>1. none \in 0..1 /\ Len(us) = Len(ts) + none /\ \A i \in 1..Len(ts) : i + none = i
    BY <1>4, <1>5
  <2> HIDE DEF none
  <2>2. \A i \in 1..Len(ts) : /\ us[i + none].node = ts[i].node
                              /\ us[i + none].when = ts[i].when
                              /\ us[i + none].id \in {ts[i].id, AE_DELETED_EVENT_ID}
    BY <1>6, <2>1
  <2> QED  BY <2>1, <2>2 DEF Follows
<1>9. /\ new \in Worlds /\ new.timers = us /\ new.nextid = w.nextid /\ new.kernel = w.kernel
      /\ new.events = w.events /\ new.fd = w.fd /\ new.maxfd = w.maxfd
  BY <1>2, <1>5 DEF Worlds
<1>10. FilesOK(w) => FilesOK(new)
  BY <1>9 DEF FilesOK, MaxFdOK
<1> QED  BY <1>7, <1>8, <1>9, <1>10 DEF ts

\* aeCreateTimeEvent().
LEMMA NewTimerOK ==
    ASSUME NEW w \in Worlds, TimersOK(w.timers, w.nextid), anow \in Int, NEW ms \in Nat,
           NEW new, new = aeCreateTimeEvent(w, ms)
    PROVE  /\ new \in Worlds /\ TimersOK(new.timers, new.nextid) /\ Follows(w.timers, new.timers)
           /\ FilesOK(w) => FilesOK(new)
<1> DEFINE ts == w.timers
           n == w.nextid
           te == [node |-> n, id |-> n, when |-> anow + ms]
           us == <<te>> \o ts
           m == n + 1
<1>1. ts \in Seq(Timers) /\ n \in Nat
  BY DEF Worlds
<1>2. new = [w EXCEPT !.timers = us, !.nextid = m]
  BY DEF aeCreateTimeEvent
<1>3. TimersOK(ts, n)
  OBVIOUS
<1> HIDE DEF ts, n
<1>4. te \in Timers /\ te.node = n /\ te.id = n
  BY <1>1 DEF Timers
<1> HIDE DEF te
<1>5. Len(ts) \in Nat /\ \A i \in 1..Len(ts) : ts[i] \in Timers /\ ts[i].node \in Nat
  BY <1>1, TimerList
<1>6. /\ us \in Seq(Timers) /\ Len(us) = Len(ts) + 1 /\ us[1] = te
      /\ \A i \in 1..Len(ts) : us[i + 1] = ts[i]
  BY <1>1, <1>4
<1>7. \A i \in 1..Len(us) : i = 1 \/ (i - 1 \in 1..Len(ts) /\ us[i] = ts[i - 1])
  BY <1>5, <1>6
<1> HIDE DEF us
<1>8. TimersOK(us, m)
  <2>1. \A i \in 1..Len(us) : us[i].node < m /\ us[i].id \in {us[i].node, AE_DELETED_EVENT_ID}
    <3> TAKE i \in 1..Len(us)
    <3>1. CASE i = 1
      BY <1>1, <1>4, <1>6, <3>1
    <3>2. CASE i - 1 \in 1..Len(ts) /\ us[i] = ts[i - 1]
      BY <1>1, <1>3, <1>5, <3>2 DEF TimersOK
    <3> QED  BY <1>7, <3>1, <3>2
  <2>2. \A i, j \in 1..Len(us) : i < j => us[j].node < us[i].node
    <3> SUFFICES ASSUME NEW i \in 1..Len(us), NEW j \in 1..Len(us), i < j  PROVE us[j].node < us[i].node
      OBVIOUS
    <3>1. j - 1 \in 1..Len(ts) /\ us[j] = ts[j - 1]
      BY <1>6, <1>7
    <3>2. CASE i = 1
      BY <1>1, <1>3, <1>4, <1>6, <3>1, <3>2 DEF TimersOK
    <3>3. CASE i - 1 \in 1..Len(ts) /\ us[i] = ts[i - 1]
      <4>1. i - 1 < j - 1
        BY <1>6
      <4> QED  BY <1>3, <3>1, <3>3, <4>1 DEF TimersOK
    <3> QED  BY <1>7, <3>2, <3>3
  <2> QED  BY <2>1, <2>2 DEF TimersOK
<1>9. Follows(ts, us)
  <2>1. \A i \in 1..Len(ts) : /\ us[i + 1].node = ts[i].node
                              /\ us[i + 1].when = ts[i].when
                              /\ us[i + 1].id \in {ts[i].id, AE_DELETED_EVENT_ID}
    BY <1>6
  <2>2. 1 \in 0..1
    OBVIOUS
  <2> QED  BY <1>6, <2>1, <2>2 DEF Follows
<1>10. m \in Nat
  BY <1>1
<1> HIDE DEF m
<1>11. /\ new \in Worlds /\ new.timers = us /\ new.nextid = m /\ new.kernel = w.kernel
       /\ new.events = w.events /\ new.fd = w.fd /\ new.maxfd = w.maxfd
  BY <1>2, <1>6, <1>10 DEF Worlds
<1>12. FilesOK(w) => FilesOK(new)
  BY <1>11 DEF FilesOK, MaxFdOK
<1> QED  BY <1>8, <1>9, <1>11, <1>12 DEF ts

\* The world after whatever a handler does.
HandledOK(w, new) ==
    /\ new \in Worlds /\ FilesOK(new)
    /\ TimersOK(new.timers, new.nextid) /\ Follows(w.timers, new.timers)

\* Every operation of a handler.
LEMMA OpsOK ==
    ASSUME AeWorld \in Worlds, FilesOK(AeWorld), TimersOK(atimers, anextid), anow \in Int,
           NEW new \in AeOps
    PROVE  HandledOK(AeWorld, new)
<1> DEFINE w == AeWorld
           open == {f \in AeFds : w.fd[f] # 0}
<1>1. /\ w \in Worlds /\ FilesOK(w) /\ TimersOK(w.timers, w.nextid) /\ w.timers \in Seq(Timers) /\ w.nextid \in Nat
      /\ w.fd \in [AeFds -> Nat]
  BY DEF AeWorld, Worlds
<1>2. \/ \E f \in open : new = AeClose(w, f)
      \/ open # AeFds /\ new = AeOpen(w, "read", {"r"})
      \/ open # AeFds /\ new = AeOpen(w, "connect", {"r", "w"})
      \/ \E f \in open : new = aeCreateFileEvent(w, f, {"w"}, "write", w.fd[f])
      \/ \E f \in open : new = aeDeleteFileEvent(w, f, {"w"})
      \/ \E p \in AePeriods : new = aeCreateTimeEvent(w, p)
      \/ \E i \in DOMAIN w.timers : new = aeDeleteTimeEvent(w, w.timers[i].id)
  BY DEF AeOps
<1> SUFFICES HandledOK(w, new)
  OBVIOUS
<1> HIDE DEF w
<1>3. {"r"} \in Masks /\ {"w"} \in Masks /\ {"r", "w"} \in Masks /\ {"r"} # {} /\ {"w"} # {} /\ {"r", "w"} # {}
      /\ "read" \in Procs /\ "write" \in Procs /\ "connect" \in Procs
  BY DEF Masks, Procs
<1>4. \A f \in open : f \in AeFds /\ w.fd[f] # 0
  OBVIOUS
<1>5. open # AeFds => {g \in AeFds : w.fd[g] = 0} # {}
  OBVIOUS
<1> HIDE DEF open
<1>6. ASSUME new \in Worlds, FilesOK(new), new.timers = w.timers, new.nextid = w.nextid
      PROVE  HandledOK(w, new)
  BY <1>1, <1>6, SameOK DEF HandledOK
<1>7. CASE \E f \in open : new = AeClose(w, f)
  BY <1>1, <1>4, <1>6, <1>7, CloseOK
<1>8. CASE open # AeFds /\ new = AeOpen(w, "read", {"r"})
  <2> DEFINE pr == "read"
             mk == {"r"}
  <2>1. /\ w \in Worlds /\ FilesOK(w) /\ pr \in Procs /\ mk \in Masks /\ mk # {}
        /\ {g \in AeFds : w.fd[g] = 0} # {} /\ new = AeOpen(w, pr, mk)
    BY <1>1, <1>3, <1>5, <1>8
  <2> HIDE DEF pr, mk
  <2>2. new \in Worlds /\ FilesOK(new) /\ new.timers = w.timers /\ new.nextid = w.nextid
    BY <2>1, OpenOK
  <2> QED  BY <1>6, <2>2
<1>9. CASE open # AeFds /\ new = AeOpen(w, "connect", {"r", "w"})
  <2> DEFINE pr == "connect"
             mk == {"r", "w"}
  <2>1. /\ w \in Worlds /\ FilesOK(w) /\ pr \in Procs /\ mk \in Masks /\ mk # {}
        /\ {g \in AeFds : w.fd[g] = 0} # {} /\ new = AeOpen(w, pr, mk)
    BY <1>1, <1>3, <1>5, <1>9
  <2> HIDE DEF pr, mk
  <2>2. new \in Worlds /\ FilesOK(new) /\ new.timers = w.timers /\ new.nextid = w.nextid
    BY <2>1, OpenOK
  <2> QED  BY <1>6, <2>2
<1>10. CASE \E f \in open : new = aeCreateFileEvent(w, f, {"w"}, "write", w.fd[f])
  <2> DEFINE pr == "write"
             mk == {"w"}
  <2>1. PICK f \in open : new = aeCreateFileEvent(w, f, mk, pr, w.fd[f])
    BY <1>10
  <2>2. w \in Worlds /\ FilesOK(w) /\ pr \in Procs /\ mk \in Masks /\ mk # {} /\ f \in AeFds /\ w.fd[f] # 0
    BY <1>1, <1>3, <1>4, <2>1
  <2> HIDE DEF pr, mk
  <2>3. new \in Worlds /\ FilesOK(new) /\ new.timers = w.timers /\ new.nextid = w.nextid
    BY <2>1, <2>2, CreateOK
  <2> QED  BY <1>6, <2>3
<1>11. CASE \E f \in open : new = aeDeleteFileEvent(w, f, {"w"})
  BY <1>1, <1>3, <1>4, <1>6, <1>11, DeleteOK
<1>12. CASE \E p \in AePeriods : new = aeCreateTimeEvent(w, p)
  BY <1>1, <1>12, NewTimerOK, AeAssumption DEF HandledOK
<1>13. CASE \E i \in DOMAIN w.timers : new = aeDeleteTimeEvent(w, w.timers[i].id)
  BY <1>1, <1>13, DelTimerOK DEF HandledOK
<1> QED  BY <1>2, <1>7, <1>8, <1>9, <1>10, <1>11, <1>12, <1>13

-----------------------------------------------------------------------------
(* The steps. *)

\* The variables hold the world that AeSet() gives them.
LEMMA SetIs ==
    ASSUME NEW w \in Worlds, AeSet(w)
    PROVE  AeWorld' = w
<1>1. w = [fd |-> w.fd, conn |-> w.conn, events |-> w.events, kernel |-> w.kernel, maxfd |-> w.maxfd,
           timers |-> w.timers, nextid |-> w.nextid]
  BY DEF Worlds
<1>2. AeWorld' = [fd |-> w.fd, conn |-> w.conn, events |-> w.events, kernel |-> w.kernel, maxfd |-> w.maxfd,
                  timers |-> w.timers, nextid |-> w.nextid]
  BY DEF AeWorld, AeSet
<1> QED  BY <1>1, <1>2

\* The fields of the world are the variables.
LEMMA WorldIs ==
    /\ AeWorld.fd = afd /\ AeWorld.conn = aconn /\ AeWorld.events = aevents /\ AeWorld.kernel = akernel
    /\ AeWorld.maxfd = amaxfd /\ AeWorld.timers = atimers /\ AeWorld.nextid = anextid
  BY DEF AeWorld

\* What the invariant says of the world.
WorldOK == AeWorld \in Worlds /\ FilesOK(AeWorld) /\ TimersOK(atimers, anextid)

\* A handler keeps the world sound.
LEMMA HandlerOK ==
    ASSUME WorldOK, anow \in Int, AeHandler
    PROVE  WorldOK' /\ Follows(atimers, atimers')
<1>1. TimersOK(AeWorld.timers, AeWorld.nextid) /\ AeWorld.timers \in Seq(Timers)
  BY WorldIs DEF WorldOK, Worlds
<1>2. PICK w : AeSet(w) /\ (w = AeWorld \/ w \in AeOps)
  BY DEF AeHandler
<1>3. HandledOK(AeWorld, w)
  <2>1. CASE w = AeWorld
    BY <1>1, <2>1, SameOK DEF HandledOK, WorldOK
  <2>2. CASE w \in AeOps
    BY <2>2, OpsOK DEF WorldOK
  <2> QED  BY <1>2, <2>1, <2>2
<1>4. AeWorld' = w
  BY <1>2, <1>3, SetIs DEF HandledOK
<1>5. w.timers = atimers' /\ w.nextid = anextid' /\ AeWorld.timers = atimers
  BY <1>2, WorldIs DEF AeSet
<1> QED  BY <1>3, <1>4, <1>5 DEF HandledOK, WorldOK

\* Without a handler the world stays as it is.
LEMMA NoHandlerOK ==
    ASSUME WorldOK, NoHandler
    PROVE  WorldOK'
<1>1. AeWorld' = AeWorld /\ atimers' = atimers /\ anextid' = anextid
  BY DEF NoHandler, AeWorld
<1> QED  BY <1>1 DEF WorldOK

\* A handler is called with the data of the connection that is open.
LEMMA CallIs ==
    ASSUME WorldOK, NEW f \in AeFds, NEW kind, kind \in aevents[f].mask, Call(f, kind),
           ~(kind = "w" /\ apc.rfired /\ aevents[f].wproc = aevents[f].rproc)
    PROVE  CallOK'
<1>1. aevents[f].mask # {}
  OBVIOUS
<1>2. aevents[f].data = afd[f] /\ afd[f] # 0
  BY <1>1, WorldIs DEF WorldOK, FilesOK
<1> QED  BY <1>2 DEF Call, CallOK

\* The place of a node in the list.
LEMMA PosIs ==
    ASSUME NEW ts \in Seq(Timers), NEW n, TimersOK(ts, n), NEW p \in 1..Len(ts)
    PROVE  /\ PosOf(ts, ts[p].node) = p
           /\ NextOf(ts, ts[p].node) = IF p = Len(ts) THEN NoNode ELSE ts[p + 1].node
<1>1. Len(ts) \in Nat /\ DOMAIN ts = 1..Len(ts) /\ \A i \in 1..Len(ts) : ts[i].node \in Nat
  BY TimerList
<1>2. \A i \in 1..Len(ts) : ts[i].node = ts[p].node => i = p
  <2> SUFFICES ASSUME NEW i \in 1..Len(ts), ts[i].node = ts[p].node, i # p  PROVE FALSE
    OBVIOUS
  <2>1. ts[i].node < ts[p].node \/ ts[p].node < ts[i].node
    BY DEF TimersOK
  <2> QED  BY <1>1, <2>1
<1>3. PosOf(ts, ts[p].node) = p
  BY <1>1, <1>2 DEF PosOf
<1> QED  BY <1>3 DEF NextOf

\* One timer further than p, all of rest is ahead.
AheadOK(ts, p, next, rest, maxid, now) ==
    /\ next # NoNode => p + 1 \in 1..Len(ts) /\ next = ts[p + 1].node /\ next \in Nat /\ next <= maxid
    /\ next = NoNode => rest = {}
    /\ \A k \in rest : /\ k <= next
                       /\ \E i \in (p + 1)..Len(ts) :
                             ts[i].node = k /\ (ts[i].id = AE_DELETED_EVENT_ID \/ ts[i].when <= now)

\* What is due stays ahead when the timer passed is not due.
LEMMA Advances ==
    ASSUME NEW ts \in Seq(Timers), NEW n, TimersOK(ts, n), NEW p \in 1..Len(ts), NEW maxid \in Int, NEW now \in Int,
           ts[p].node <= maxid, NEW due \in SUBSET Nat, DueOK(ts, ts[p].node, due, now),
           NEW rest \in SUBSET due, ts[p].node \notin rest,
           NEW next, next = IF p = Len(ts) THEN NoNode ELSE ts[p + 1].node
    PROVE  AheadOK(ts, p, next, rest, maxid, now)
<1>1. Len(ts) \in Nat /\ \A i \in 1..Len(ts) : ts[i].node \in Nat /\ ts[i].when \in Int
  BY TimerList
<1>2. next # NoNode => p + 1 \in 1..Len(ts) /\ next = ts[p + 1].node
  BY <1>1
<1>3. next # NoNode => next \in Nat /\ next <= maxid
  <2> SUFFICES ASSUME next # NoNode  PROVE next \in Nat /\ next <= maxid
    OBVIOUS
  <2>1. p + 1 \in 1..Len(ts) /\ next = ts[p + 1].node /\ p < p + 1
    BY <1>2
  <2>2. ts[p + 1].node < ts[p].node
    BY <2>1 DEF TimersOK
  <2> QED  BY <1>1, <2>1, <2>2
<1>4. ASSUME NEW k \in rest
      PROVE  /\ next # NoNode /\ k <= next
             /\ \E i \in (p + 1)..Len(ts) : ts[i].node = k /\ (ts[i].id = AE_DELETED_EVENT_ID \/ ts[i].when <= now)
  <2>1. k \in due /\ k \in Nat /\ k # ts[p].node
    BY <1>4
  <2>2. k <= ts[p].node
    BY <2>1 DEF DueOK
  <2>3. PICK i \in 1..Len(ts) : ts[i].node = k /\ (ts[i].id = AE_DELETED_EVENT_ID \/ ts[i].when <= now)
    BY <2>1 DEF DueOK
  <2>4. ~(i < p) /\ i # p
    <3>1. i < p => ts[p].node < ts[i].node
      BY DEF TimersOK
    <3> QED  BY <1>1, <2>1, <2>2, <2>3, <3>1
  <2>5. i \in (p + 1)..Len(ts) /\ p # Len(ts)
    BY <1>1, <2>4
  <2>6. next = ts[p + 1].node /\ p + 1 \in 1..Len(ts) /\ next \in Nat
    BY <1>1, <2>5
  <2>7. k <= next
    <3>1. i = p + 1 \/ p + 1 < i
      BY <2>5
    <3>2. p + 1 < i => ts[i].node < ts[p + 1].node
      BY <2>6 DEF TimersOK
    <3> QED  BY <1>1, <2>1, <2>3, <2>6, <3>1, <3>2
  <2>8. next # NoNode
    BY <2>6 DEF NoNode
  <2> QED  BY <2>3, <2>5, <2>7, <2>8
<1> QED  BY <1>2, <1>3, <1>4 DEF AheadOK

\* The list without its entry p.
Without(ts, p) == SubSeq(ts, 1, p - 1) \o SubSeq(ts, p + 1, Len(ts))

\* Unlinking leaves the other timers as they are.
LEMMA WithoutIs ==
    ASSUME NEW ts \in Seq(Timers), NEW n, TimersOK(ts, n), NEW p \in 1..Len(ts), NEW new, new = Without(ts, p)
    PROVE  /\ new \in Seq(Timers) /\ Len(new) = Len(ts) - 1
           /\ \A i \in 1..Len(new) : new[i] = IF i < p THEN ts[i] ELSE ts[i + 1]
           /\ TimersOK(new, n)
<1>1. Len(ts) \in Nat
  BY TimerList
<1> DEFINE a == SubSeq(ts, 1, p - 1)
           b == SubSeq(ts, p + 1, Len(ts))
<1>2. a \in Seq(Timers) /\ Len(a) = p - 1 /\ \A i \in 1..(p - 1) : a[i] = ts[i]
  BY <1>1
<1>3. b \in Seq(Timers) /\ Len(b) = Len(ts) - p /\ \A i \in 1..(Len(ts) - p) : b[i] = ts[p + i]
  BY <1>1
<1>4. new = a \o b
  BY DEF Without
<1> HIDE DEF a, b
<1>5. new \in Seq(Timers) /\ Len(new) = Len(ts) - 1
  BY <1>1, <1>2, <1>3, <1>4
<1>6. \A i \in 1..Len(new) : new[i] = IF i < p THEN ts[i] ELSE ts[i + 1]
  <2> TAKE i \in 1..Len(new)
  <2>1. CASE i < p
    BY <1>1, <1>2, <1>3, <1>4, <1>5, <2>1
  <2>2. CASE ~(i < p)
    <3>1. i - Len(a) \in 1..Len(b) /\ new[i] = b[i - Len(a)] /\ i - Len(a) = i - (p - 1)
      BY <1>1, <1>2, <1>3, <1>4, <1>5, <2>2
    <3>2. p + (i - (p - 1)) = i + 1
      OBVIOUS
    <3> QED  BY <1>3, <2>2, <3>1, <3>2
  <2> QED  BY <2>1, <2>2
<1>7. TimersOK(new, n)
  <2> DEFINE at(i) == IF i < p THEN i ELSE i + 1
  <2>1. \A i \in 1..Len(new) : at(i) \in 1..Len(ts) /\ new[i] = ts[at(i)]
    BY <1>1, <1>5, <1>6
  <2>2. \A i, j \in 1..Len(new) : i < j => at(i) < at(j)
    BY <1>1, <1>5
  <2> HIDE DEF at
  <2>3. \A i \in 1..Len(new) : new[i].node < n /\ new[i].id \in {new[i].node, AE_DELETED_EVENT_ID}
    BY <2>1 DEF TimersOK
  <2>4. \A i, j \in 1..Len(new) : i < j => new[j].node < new[i].node
    BY <2>1, <2>2 DEF TimersOK
  <2> QED  BY <2>3, <2>4 DEF TimersOK
<1> QED  BY <1>5, <1>6, <1>7

\* What the handler of a timer returns changes this timer only.
LEMMA RearmIs ==
    ASSUME NEW w \in Worlds, FilesOK(w), TimersOK(w.timers, w.nextid), anow \in Int, NEW te,
           NEW ret, ret \in Nat \/ ret = AE_NOMORE, NEW new, new = Rearm(w, te, ret)
    PROVE  /\ new \in Worlds /\ FilesOK(new) /\ TimersOK(new.timers, new.nextid)
           /\ Len(new.timers) = Len(w.timers)
           /\ \A i \in 1..Len(w.timers) : /\ new.timers[i].node = w.timers[i].node
                                          /\ w.timers[i].node # te => new.timers[i] = w.timers[i]
<1> DEFINE ts == w.timers
           again(t) == [t EXCEPT !.when = anow + ret]
           one(t) == IF t.node # te THEN t ELSE IF ret = AE_NOMORE THEN Deleted(t) ELSE again(t)
           us == [i \in DOMAIN ts |-> one(ts[i])]
<1>1. ts \in Seq(Timers) /\ w.nextid \in Nat
  BY DEF Worlds
<1>2. new = [w EXCEPT !.timers = us]
  BY DEF Rearm
<1>3. TimersOK(ts, w.nextid)
  OBVIOUS
<1>4. Len(ts) \in Nat /\ DOMAIN ts = 1..Len(ts) /\ \A i \in 1..Len(ts) : ts[i] \in Timers
  BY <1>1, TimerList
<1> SUFFICES /\ new \in Worlds /\ FilesOK(new) /\ TimersOK(new.timers, new.nextid)
             /\ Len(new.timers) = Len(ts)
             /\ \A i \in 1..Len(ts) : /\ new.timers[i].node = ts[i].node
                                      /\ ts[i].node # te => new.timers[i] = ts[i]
  OBVIOUS
<1> HIDE DEF ts
<1>5. \A t \in Timers : ret # AE_NOMORE => again(t) \in Timers /\ again(t).node = t.node /\ again(t).id = t.id
  BY DEF Timers
<1> HIDE DEF again
<1>6. \A t \in Timers : /\ one(t) \in Timers /\ one(t).node = t.node /\ one(t).id \in {t.id, AE_DELETED_EVENT_ID}
                        /\ t.node # te => one(t) = t
  BY <1>5, DeletedIs
<1> HIDE DEF one
<1>7. us \in Seq(Timers) /\ Len(us) = Len(ts) /\ \A i \in 1..Len(ts) : us[i] = one(ts[i])
  <2>1. us \in [1..Len(ts) -> Timers]
    BY <1>4, <1>6
  <2> QED  BY <1>4, <2>1
<1> HIDE DEF us
<1>8. \A i \in 1..Len(ts) : /\ us[i].node = ts[i].node /\ us[i].id \in {ts[i].id, AE_DELETED_EVENT_ID}
                            /\ ts[i].node # te => us[i] = ts[i]
  BY <1>4, <1>6, <1>7
<1>9. TimersOK(us, w.nextid)
  BY <1>1, <1>3, <1>7, <1>8, MappedOK
<1>10. /\ new \in Worlds /\ new.timers = us /\ new.nextid = w.nextid /\ new.kernel = w.kernel
       /\ new.events = w.events /\ new.fd = w.fd /\ new.maxfd = w.maxfd
  BY <1>2, <1>7 DEF Worlds
<1>11. FilesOK(new)
  BY <1>10 DEF FilesOK, MaxFdOK
<1> QED  BY <1>7, <1>8, <1>9, <1>10, <1>11

-----------------------------------------------------------------------------
(* Every action keeps the invariant. *)

\* The loop starts sound.
LEMMA InitOK ==
    ASSUME aeCreateEventLoop
    PROVE  AeInv
<1>1. NoEvent \in Events /\ NoEvent.mask = {} /\ {} \in Masks
  BY DEF NoEvent, Events, Masks, Procs, AE_NONE
<1>2. AeWorld \in Worlds
  BY <1>1 DEF aeCreateEventLoop, AeWorld, Worlds, AE_NONE
<1>3. FilesOK(AeWorld)
  BY <1>1, WorldIs DEF aeCreateEventLoop, FilesOK, MaxFdOK, AE_NONE
<1>4. TimersOK(atimers, anextid)
  BY DEF aeCreateEventLoop, TimersOK
<1>5. anow \in Int
  BY AeAssumption DEF aeCreateEventLoop
<1>6. CallOK
  BY DEF aeCreateEventLoop, CallOK
<1>7. /\ afired \in Seq([fd : AeFds, mask : Masks])
      /\ apc \in [at : {"before", "poll", "file", "write", "time"}, rfired : BOOLEAN] /\ apc.at = "before"
      /\ amaxid \in Int /\ ate = NoNode /\ aprev = NoNode /\ adue = {}
  BY DEF aeCreateEventLoop
<1> QED  BY <1>2, <1>3, <1>4, <1>5, <1>6, <1>7 DEF AeInv

\* The invariant away from processTimeEvents().
OutsideOK ==
    /\ afired \in Seq([fd : AeFds, mask : Masks])
    /\ apc \in [at : {"before", "poll", "file", "write"}, rfired : BOOLEAN]
    /\ anow \in Int /\ CallOK /\ amaxid \in Int
    /\ ate = NoNode /\ aprev \in Nat \cup {NoNode} /\ adue \subseteq Nat
    /\ apc.at = "write" => afired # <<>>
    /\ apc.at = "before" => adue = {}

\* The invariant while the timers are looked through.
InsideOK ==
    /\ afired \in Seq([fd : AeFds, mask : Masks])
    /\ apc \in [at : {"time"}, rfired : BOOLEAN]
    /\ anow \in Int /\ CallOK /\ amaxid \in Int
    /\ ate \in Nat \cup {NoNode} /\ aprev \in Nat \cup {NoNode} /\ adue \subseteq Nat
    /\ WalkOK(atimers, ate, aprev, amaxid, adue, anow)

\* The loop is at one place or at the other.
LEMMA InvParts ==
    AeInv <=> WorldOK /\ ((OutsideOK /\ apc.at # "time") \/ (InsideOK /\ apc.at = "time"))
<1>1. ASSUME AeInv, apc.at # "time"  PROVE WorldOK /\ OutsideOK
  BY <1>1 DEF AeInv, WorldOK, OutsideOK
<1>2. ASSUME AeInv, apc.at = "time"  PROVE WorldOK /\ InsideOK
  BY <1>2 DEF AeInv, WorldOK, InsideOK
<1>3. ASSUME WorldOK, OutsideOK, apc.at # "time"  PROVE AeInv
  BY <1>3 DEF AeInv, WorldOK, OutsideOK
<1>4. ASSUME WorldOK, InsideOK, apc.at = "time"  PROVE AeInv
  BY <1>4 DEF AeInv, WorldOK, InsideOK
<1> QED  BY <1>1, <1>2, <1>3, <1>4

\* The same, of the next state.
LEMMA InvNext ==
    ASSUME WorldOK', (OutsideOK' /\ apc'.at # "time") \/ (InsideOK' /\ apc'.at = "time")
    PROVE  AeInv'
<1>1. CASE OutsideOK' /\ apc'.at # "time"
  BY <1>1 DEF AeInv, WorldOK, OutsideOK
<1>2. CASE InsideOK' /\ apc'.at = "time"
  BY <1>2 DEF AeInv, WorldOK, InsideOK
<1> QED  BY <1>1, <1>2

\* The event handled next is one of a descriptor.
LEMMA FiredHead ==
    ASSUME NEW s \in Seq([fd : AeFds, mask : Masks]), s # <<>>
    PROVE  s[1].fd \in AeFds
<1> DEFINE F == [fd : AeFds, mask : Masks]
<1>1. \A e \in F : e.fd \in AeFds
  OBVIOUS
<1>2. s \in Seq(F) /\ s # <<>>
  OBVIOUS
<1> HIDE DEF F
<1>3. s[1] \in F
  BY <1>2
<1> QED  BY <1>1, <1>3

\* The steps that handle file events.
LEMMA FileStepsOK ==
    ASSUME AeInv, AeBeforeSleep \/ AePoll \/ AeReadable \/ AeWritable
    PROVE  AeInv'
<1>0. WorldOK /\ OutsideOK /\ apc.at # "time"
  BY InvParts DEF AeBeforeSleep, AePoll, AeReadable, AeWritable
<1>1. CASE AeBeforeSleep
  <2>1. WorldOK'
    BY <1>0, <1>1, HandlerOK DEF AeBeforeSleep, OutsideOK
  <2>2. OutsideOK' /\ apc'.at # "time"
    BY <1>0, <1>1 DEF AeBeforeSleep, OutsideOK, CallOK
  <2> QED  BY <2>1, <2>2, InvNext
<1>2. CASE AePoll
  <2>1. WorldOK'
    BY <1>0, <1>2, NoHandlerOK DEF AePoll
  <2>2. PICK fired \in AePolled : afired' = fired
    BY <1>2 DEF AePoll
  <2>3. afired' \in Seq([fd : AeFds, mask : Masks])
    <3> DEFINE E == [fd : AeFds, mask : {{"r"}, {"w"}, {"r", "w"}}]
               F == [fd : AeFds, mask : Masks]
    <3>1. Cardinality(AeFds) \in Nat
      BY AeAssumption, FS_CardinalityType
    <3>2. PICK n \in 0..Cardinality(AeFds) : fired \in [1..n -> E]
      BY DEF AePolled
    <3>3. \A e \in E : e \in F
      BY DEF Masks
    <3> HIDE DEF E
    <3>4. fired \in [1..n -> F] /\ n \in Nat
      BY <3>1, <3>2, <3>3
    <3> HIDE DEF F
    <3>5. fired \in Seq(F)
      BY <3>4
    <3> QED  BY <2>2, <3>5 DEF F
  <2>4. anow' \in Int
    <3>1. anow \in Int
      BY <1>0 DEF OutsideOK
    <3>2. anow' = anow \/ \E d \in 0..AeMaxNow : anow' = anow + d
      BY <1>2 DEF AePoll
    <3> QED  BY <3>1, <3>2
  <2>5. OutsideOK' /\ apc'.at # "time"
    BY <1>0, <1>2, <2>3, <2>4 DEF AePoll, OutsideOK, CallOK
  <2> QED  BY <2>1, <2>5, InvNext
<1>3. CASE AeReadable
  <2> DEFINE f == afired[1].fd
  <2>1. afired \in Seq([fd : AeFds, mask : Masks]) /\ afired # <<>> /\ anow \in Int
    BY <1>0, <1>3 DEF OutsideOK, AeReadable
  <2>2. f \in AeFds
    BY <2>1, FiredHead
  <2>3. \/ Watched(f, "r") /\ Call(f, "r") /\ AeHandler
        \/ NoHandler /\ UNCHANGED acall
    BY <1>3 DEF AeReadable
  <2>4. apc' \in [at : {"write"}, rfired : BOOLEAN] /\ UNCHANGED <<afired, ate, aprev, amaxid, adue, anow, alast>>
    <3>1. apc' = [at |-> "write", rfired |-> TRUE] \/ apc' = [at |-> "write", rfired |-> FALSE]
      BY <1>3 DEF AeReadable
    <3>2. UNCHANGED <<afired, ate, aprev, amaxid, adue, anow, alast>>
      BY <1>3 DEF AeReadable
    <3>3. /\ [at |-> "write", rfired |-> TRUE] \in [at : {"write"}, rfired : BOOLEAN]
          /\ [at |-> "write", rfired |-> FALSE] \in [at : {"write"}, rfired : BOOLEAN]
      OBVIOUS
    <3>4. apc' \in [at : {"write"}, rfired : BOOLEAN]
      BY <3>1, <3>3, Zenon
    <3> QED  BY <3>2, <3>4
  <2> HIDE DEF f
  <2>5. WorldOK' /\ CallOK'
    <3>1. CASE Watched(f, "r") /\ Call(f, "r") /\ AeHandler
      <4>1. "r" \in aevents[f].mask
        BY <3>1 DEF Watched
      <4>2. "r" # "w"
        OBVIOUS
      <4> QED  BY <1>0, <2>1, <2>2, <3>1, <4>1, <4>2, HandlerOK, CallIs
    <3>2. CASE NoHandler /\ UNCHANGED acall
      BY <1>0, <3>2, NoHandlerOK DEF OutsideOK, CallOK
    <3> QED  BY <2>3, <3>1, <3>2
  <2>6. OutsideOK' /\ apc'.at # "time"
    BY <1>0, <2>1, <2>4, <2>5 DEF OutsideOK
  <2> QED  BY <2>5, <2>6, InvNext
<1>4. CASE AeWritable
  <2> DEFINE f == afired[1].fd
  <2>1. afired \in Seq([fd : AeFds, mask : Masks]) /\ afired # <<>> /\ anow \in Int
    BY <1>0, <1>4 DEF OutsideOK, AeWritable
  <2>2. f \in AeFds
    BY <2>1, FiredHead
  <2>3. \/ Watched(f, "w") /\ (~apc.rfired \/ aevents[f].wproc # aevents[f].rproc) /\ Call(f, "w") /\ AeHandler
        \/ NoHandler /\ UNCHANGED acall
    BY <1>4 DEF AeWritable
  <2>4. apc' = [at |-> "file", rfired |-> FALSE] /\ afired' = Tail(afired)
        /\ UNCHANGED <<ate, aprev, amaxid, adue, anow, alast>>
    BY <1>4 DEF AeWritable
  <2> HIDE DEF f
  <2>5. WorldOK' /\ CallOK'
    <3>1. CASE Watched(f, "w") /\ (~apc.rfired \/ aevents[f].wproc # aevents[f].rproc) /\ Call(f, "w") /\ AeHandler
      <4>1. "w" \in aevents[f].mask
        BY <3>1 DEF Watched
      <4> QED  BY <1>0, <2>1, <2>2, <3>1, <4>1, HandlerOK, CallIs
    <3>2. CASE NoHandler /\ UNCHANGED acall
      BY <1>0, <3>2, NoHandlerOK DEF OutsideOK, CallOK
    <3> QED  BY <2>3, <3>1, <3>2
  <2>6. afired' \in Seq([fd : AeFds, mask : Masks])
    <3> DEFINE F == [fd : AeFds, mask : Masks]
    <3> HIDE DEF F
    <3>1. afired \in Seq(F) /\ afired # <<>>
      BY <2>1 DEF F
    <3>2. Tail(afired) \in Seq(F)
      BY <3>1
    <3> QED  BY <2>4, <3>2 DEF F
  <2>7. OutsideOK' /\ apc'.at # "time"
    BY <1>0, <2>1, <2>4, <2>5, <2>6 DEF OutsideOK
  <2> QED  BY <2>5, <2>7, InvNext
<1> QED  BY <1>1, <1>2, <1>3, <1>4

\* The position of the timer at hand.
LEMMA AtTimer ==
    ASSUME WorldOK, InsideOK, ate # NoNode
    PROVE  /\ atimers \in Seq(Timers) /\ anextid \in Nat /\ TimersOK(atimers, anextid)
           /\ ate \in Nat /\ ate <= amaxid /\ DueOK(atimers, ate, adue, anow)
           /\ \E p \in 1..Len(atimers) :
                 /\ AtNode(atimers, p, ate, aprev) /\ PosOf(atimers, ate) = p
                 /\ NextOf(atimers, ate) = IF p = Len(atimers) THEN NoNode ELSE atimers[p + 1].node
<1>1. atimers \in Seq(Timers) /\ anextid \in Nat /\ TimersOK(atimers, anextid)
  BY WorldIs DEF WorldOK, Worlds
<1>2. ate \in Nat /\ ate <= amaxid /\ DueOK(atimers, ate, adue, anow)
  BY DEF InsideOK, WalkOK
<1>3. PICK p \in 1..Len(atimers) : AtNode(atimers, p, ate, aprev)
  BY DEF InsideOK, WalkOK
<1>4. ate = atimers[p].node
  BY <1>3 DEF AtNode
<1>5. PosOf(atimers, ate) = p /\ NextOf(atimers, ate) = IF p = Len(atimers) THEN NoNode ELSE atimers[p + 1].node
  BY <1>1, <1>4, PosIs
<1> QED  BY <1>1, <1>2, <1>3, <1>5

\* processTimeEvents() begins.
LEMMA StartOK ==
    ASSUME AeInv, AeTimeStart
    PROVE  AeInv'
<1>0. WorldOK /\ OutsideOK
  BY InvParts DEF AeTimeStart
<1> DEFINE ts == atimers
           back(t) == [t EXCEPT !.when = t.when % AeSecond]
           us == [i \in DOMAIN ts |-> back(ts[i])]
           new == atimers'
<1>1. /\ new = us \/ new = ts
      /\ adue' = {new[i].node : i \in {j \in DOMAIN new : new[j].id # AE_DELETED_EVENT_ID /\ new[j].when <= anow}}
      /\ ate' = IF new = <<>> THEN NoNode ELSE new[1].node
      /\ aprev' = NoNode /\ amaxid' = anextid - 1 /\ apc' = [at |-> "time", rfired |-> FALSE]
      /\ UNCHANGED <<afd, aconn, aevents, akernel, amaxfd, afired, acall, anextid, anow, aops>>
  BY DEF AeTimeStart
<1>2. ts \in Seq(Timers) /\ anextid \in Nat /\ TimersOK(ts, anextid) /\ AeWorld \in Worlds /\ FilesOK(AeWorld)
  BY <1>0, WorldIs DEF WorldOK, Worlds
<1>3. Len(ts) \in Nat /\ DOMAIN ts = 1..Len(ts) /\ \A i \in 1..Len(ts) : ts[i] \in Timers
  BY <1>2, TimerList
<1>4. \A t \in Timers : back(t) \in Timers /\ back(t).node = t.node /\ back(t).id = t.id
  <2> TAKE t \in Timers
  <2> DEFINE w == t.when % AeSecond
  <2>1. w \in Int
    BY AeAssumption DEF Timers
  <2> HIDE DEF w
  <2>2. [t EXCEPT !.when = w] \in Timers /\ [t EXCEPT !.when = w].node = t.node /\ [t EXCEPT !.when = w].id = t.id
    BY <2>1 DEF Timers
  <2> QED  BY <2>2 DEF w
<1> HIDE DEF back
<1>5. /\ new \in Seq(Timers) /\ Len(new) = Len(ts)
      /\ \A i \in 1..Len(ts) : new[i].node = ts[i].node /\ new[i].id \in {ts[i].id, AE_DELETED_EVENT_ID}
  <2>1. CASE new = ts
    BY <1>2, <2>1
  <2>2. CASE new = us
    <3>1. us \in [1..Len(ts) -> Timers] /\ \A i \in 1..Len(ts) : us[i] = back(ts[i])
      BY <1>3, <1>4
    <3> HIDE DEF us
    <3>2. us \in Seq(Timers) /\ Len(us) = Len(ts)
      BY <1>3, <3>1
    <3>3. \A i \in 1..Len(ts) : us[i].node = ts[i].node /\ us[i].id = ts[i].id
      BY <1>3, <1>4, <3>1
    <3> QED  BY <2>2, <3>2, <3>3
  <2> QED  BY <1>1, <2>1, <2>2
<1> HIDE DEF ts
<1>6. TimersOK(new, anextid)
  BY <1>2, <1>5, MappedOK
<1>7. WorldOK'
  <2>1. /\ AeWorld' \in Worlds /\ AeWorld'.kernel = AeWorld.kernel /\ AeWorld'.events = AeWorld.events
        /\ AeWorld'.fd = AeWorld.fd /\ AeWorld'.maxfd = AeWorld.maxfd
    BY <1>1, <1>2, <1>5 DEF AeWorld, Worlds
  <2>2. FilesOK(AeWorld')
    BY <1>2, <2>1 DEF FilesOK, MaxFdOK
  <2>3. FilesOK(AeWorld') = FilesOK(AeWorld)'
    BY DEF FilesOK, MaxFdOK
  <2>4. TimersOK(atimers, anextid)'
    BY <1>1, <1>6 DEF TimersOK
  <2> QED  BY <2>1, <2>2, <2>3, <2>4 DEF WorldOK
<1>8. /\ Len(new) \in Nat /\ DOMAIN new = 1..Len(new)
      /\ \A i \in 1..Len(new) : new[i].node \in Nat /\ new[i].when \in Int
  BY <1>5, TimerList
<1>9. CASE new = <<>>
  <2>1. adue' = {} /\ ate' = NoNode
    BY <1>1, <1>9
  <2>2. WalkOK(atimers, ate, aprev, amaxid, adue, anow)'
    BY <2>1 DEF WalkOK, DueOK
  <2>3. amaxid' \in Int /\ aprev' = NoNode /\ apc' = [at |-> "time", rfired |-> FALSE]
        /\ UNCHANGED <<afired, acall, anow>>
    BY <1>1, <1>2
  <2>4. InsideOK' /\ apc'.at = "time"
    BY <1>0, <2>1, <2>2, <2>3 DEF InsideOK, OutsideOK, CallOK
  <2> QED  BY <1>7, <2>4, InvNext
<1>10. CASE new # <<>>
  <2>1. 1 \in 1..Len(new)
    BY <1>5, <1>8, <1>10
  <2>2. ate' = new[1].node /\ ate' \in Nat /\ ate' # NoNode
    BY <1>1, <1>8, <1>10, <2>1 DEF NoNode
  <2>3. ate' <= amaxid' /\ amaxid' \in Int
    <3>1. new[1].node < anextid
      BY <1>6, <2>1 DEF TimersOK
    <3> QED  BY <1>1, <1>2, <2>2, <3>1
  <2>4. AtNode(atimers', 1, ate', aprev')
    BY <1>1, <2>2 DEF AtNode
  <2>5. ASSUME NEW k \in adue'
        PROVE  /\ k \in Nat /\ k <= ate'
               /\ \E i \in 1..Len(new) : new[i].node = k /\ (new[i].id = AE_DELETED_EVENT_ID \/ new[i].when <= anow)
    <3>1. PICK i \in DOMAIN new : new[i].node = k /\ new[i].when <= anow
      BY <1>1, <2>5
    <3>2. i \in 1..Len(new) /\ k \in Nat
      BY <1>8, <3>1
    <3>3. i = 1 \/ new[i].node < new[1].node
      BY <1>6, <2>1, <3>2 DEF TimersOK
    <3>4. k <= ate'
      BY <1>8, <2>2, <3>1, <3>2, <3>3
    <3> QED  BY <3>1, <3>2, <3>4
  <2>6. WalkOK(atimers', ate', aprev', amaxid', adue', anow')
    BY <1>1, <2>1, <2>2, <2>3, <2>4, <2>5 DEF WalkOK, DueOK
  <2>7. WalkOK(atimers, ate, aprev, amaxid, adue, anow)'
    BY <2>6 DEF WalkOK, DueOK, AtNode
  <2>8. adue' \subseteq Nat
    BY <2>5
  <2>9. InsideOK' /\ apc'.at = "time"
    BY <1>0, <1>1, <2>2, <2>3, <2>7, <2>8 DEF InsideOK, OutsideOK, CallOK
  <2> QED  BY <1>7, <2>9, InvNext
<1> QED  BY <1>9, <1>10

\* prev is right before te: unlinking removes te and nothing else.
LEMMA UnlinkIs ==
    ASSUME NEW ts \in Seq(Timers), NEW n, TimersOK(ts, n), NEW p \in 1..Len(ts), NEW te, NEW prev,
           AtNode(ts, p, te, prev)
    PROVE  (IF prev = NoNode THEN <<>> ELSE SubSeq(ts, 1, PosOf(ts, prev))) \o SubSeq(ts, p + 1, Len(ts))
               = Without(ts, p)
<1>1. (prev = NoNode => p = 1) /\ (prev # NoNode => p > 1 /\ ts[p - 1].node = prev) /\ Len(ts) \in Nat
  BY TimerList DEF AtNode
<1>2. CASE prev = NoNode
  <2>1. SubSeq(ts, 1, p - 1) = <<>>
    BY <1>1, <1>2
  <2> QED  BY <1>2, <2>1 DEF Without
<1>3. CASE prev # NoNode
  <2>1. p - 1 \in 1..Len(ts) /\ ts[p - 1].node = prev
    BY <1>1, <1>3
  <2>2. PosOf(ts, ts[p - 1].node) = p - 1
    BY <2>1, PosIs
  <2> QED  BY <1>3, <2>1, <2>2 DEF Without
<1> QED  BY <1>2, <1>3

\* A deleted timer is unlinked.
LEMMA UnlinkOK ==
    ASSUME AeInv, AeTimeUnlink
    PROVE  AeInv'
<1>0. WorldOK /\ InsideOK /\ ate # NoNode
  BY InvParts DEF AeTimeUnlink
<1> DEFINE ts == atimers
           new == atimers'
           next == ate'
           rest == adue'
<1>1. /\ ts \in Seq(Timers) /\ anextid \in Nat /\ TimersOK(ts, anextid)
      /\ ate \in Nat /\ ate <= amaxid /\ DueOK(ts, ate, adue, anow)
  BY <1>0, AtTimer
<1>2. PICK p \in 1..Len(ts) :
         /\ AtNode(ts, p, ate, aprev) /\ PosOf(ts, ate) = p
         /\ NextOf(ts, ate) = IF p = Len(ts) THEN NoNode ELSE ts[p + 1].node
  BY <1>0, AtTimer
<1>3. /\ new = (IF aprev = NoNode THEN <<>> ELSE SubSeq(ts, 1, PosOf(ts, aprev))) \o SubSeq(ts, p + 1, Len(ts))
      /\ next = NextOf(ts, ate) /\ adue' = adue \ {ate}
      /\ UNCHANGED <<afd, aconn, aevents, akernel, amaxfd, afired, apc, acall, anextid, aprev, amaxid, anow, alast, aops>>
  BY <1>2 DEF AeTimeUnlink
<1>4. /\ ate = ts[p].node /\ (aprev = NoNode => p = 1)
      /\ (aprev # NoNode => p > 1 /\ ts[p - 1].node = aprev)
  BY <1>2 DEF AtNode
<1>5. Len(ts) \in Nat /\ \A i \in 1..Len(ts) : ts[i].node \in Nat
  BY <1>1, TimerList
<1>6. new = Without(ts, p)
  BY <1>1, <1>2, <1>3, UnlinkIs
<1> HIDE DEF ts
<1>7. /\ new \in Seq(Timers) /\ Len(new) = Len(ts) - 1
      /\ \A i \in 1..Len(new) : new[i] = IF i < p THEN ts[i] ELSE ts[i + 1]
      /\ TimersOK(new, anextid)
  BY <1>1, <1>6, WithoutIs
<1>8. WorldOK'
  <2>1. AeWorld \in Worlds /\ FilesOK(AeWorld)
    BY <1>0 DEF WorldOK
  <2>2. /\ AeWorld' \in Worlds /\ AeWorld'.kernel = AeWorld.kernel /\ AeWorld'.events = AeWorld.events
        /\ AeWorld'.fd = AeWorld.fd /\ AeWorld'.maxfd = AeWorld.maxfd
    BY <1>3, <1>7, <2>1 DEF AeWorld, Worlds
  <2>3. FilesOK(AeWorld')
    BY <2>1, <2>2 DEF FilesOK, MaxFdOK
  <2>4. FilesOK(AeWorld') = FilesOK(AeWorld)'
    BY DEF FilesOK, MaxFdOK
  <2>5. TimersOK(atimers, anextid)'
    BY <1>3, <1>7 DEF TimersOK
  <2> QED  BY <2>2, <2>3, <2>4, <2>5 DEF WorldOK
<1>9. /\ adue \in SUBSET Nat /\ rest \in SUBSET adue /\ ts[p].node \notin rest /\ amaxid \in Int /\ anow \in Int
      /\ ts[p].node <= amaxid /\ DueOK(ts, ts[p].node, adue, anow)
      /\ next = IF p = Len(ts) THEN NoNode ELSE ts[p + 1].node
      /\ ts \in Seq(Timers) /\ TimersOK(ts, anextid)
  BY <1>0, <1>1, <1>2, <1>3, <1>4 DEF InsideOK
<1> HIDE DEF next, rest, new
<1>10a. AheadOK(ts, p, next, rest, amaxid, anow)
  BY <1>9, Advances
<1>10. /\ next # NoNode => p + 1 \in 1..Len(ts) /\ next = ts[p + 1].node /\ next \in Nat /\ next <= amaxid
       /\ next = NoNode => rest = {}
       /\ \A k \in rest : /\ k <= next
                          /\ \E i \in (p + 1)..Len(ts) :
                                ts[i].node = k /\ (ts[i].id = AE_DELETED_EVENT_ID \/ ts[i].when <= anow)
  BY <1>10a DEF AheadOK
<1>11. ASSUME next # NoNode
       PROVE  next <= amaxid /\ \E q \in 1..Len(new) : AtNode(new, q, next, aprev)
  <2>1. p + 1 \in 1..Len(ts) /\ next = ts[p + 1].node /\ p \in 1..Len(new)
    BY <1>5, <1>7, <1>10, <1>11
  <2>2. new[p] = ts[p + 1]
    BY <1>7, <2>1
  <2>3. aprev # NoNode => p - 1 \in 1..Len(new) /\ new[p - 1] = ts[p - 1]
    BY <1>4, <1>7, <2>1
  <2>4. AtNode(new, p, next, aprev)
    BY <1>4, <2>1, <2>2, <2>3 DEF AtNode
  <2> QED  BY <1>10, <1>11, <2>1, <2>4
<1>12. ASSUME NEW k \in rest
       PROVE  /\ k <= next
              /\ \E i \in 1..Len(new) : new[i].node = k /\ (new[i].id = AE_DELETED_EVENT_ID \/ new[i].when <= anow)
  <2>1. PICK i \in (p + 1)..Len(ts) : ts[i].node = k /\ (ts[i].id = AE_DELETED_EVENT_ID \/ ts[i].when <= anow)
    BY <1>10, <1>12
  <2>2. i - 1 \in 1..Len(new) /\ ~(i - 1 < p) /\ (i - 1) + 1 = i
    BY <1>5, <1>7
  <2>3. new[i - 1] = ts[i]
    BY <1>7, <2>2
  <2> QED  BY <1>10, <1>12, <2>1, <2>2, <2>3
<1>13. WalkOK(new, next, aprev, amaxid, rest, anow)
  BY <1>10, <1>11, <1>12 DEF WalkOK, DueOK
<1>14. WalkOK(atimers, ate, aprev, amaxid, adue, anow)'
  <2>1. aprev' = aprev /\ amaxid' = amaxid /\ anow' = anow
    BY <1>3
  <2> QED  BY <1>13, <2>1 DEF WalkOK, DueOK, AtNode, new, next, rest
<1>15. ate' \in Nat \cup {NoNode} /\ adue' \subseteq Nat
  BY <1>9, <1>10 DEF next, rest
<1>16. apc.at = "time" /\ apc' = apc
  BY <1>3 DEF AeTimeUnlink
<1>17. InsideOK' /\ apc'.at = "time"
  BY <1>0, <1>3, <1>14, <1>15, <1>16 DEF InsideOK, CallOK
<1> QED  BY <1>8, <1>17, InvNext

\* A timer whose time has not come is passed.
LEMMA SkipOK ==
    ASSUME AeInv, AeTimeSkip
    PROVE  AeInv'
<1>0. WorldOK /\ InsideOK /\ ate # NoNode /\ apc.at = "time"
  BY InvParts DEF AeTimeSkip
<1> DEFINE ts == atimers
           next == ate'
<1>1. /\ ts \in Seq(Timers) /\ anextid \in Nat /\ TimersOK(ts, anextid)
      /\ ate \in Nat /\ ate <= amaxid /\ DueOK(ts, ate, adue, anow)
  BY <1>0, AtTimer
<1>2. PICK p \in 1..Len(ts) :
         /\ AtNode(ts, p, ate, aprev) /\ PosOf(ts, ate) = p
         /\ NextOf(ts, ate) = IF p = Len(ts) THEN NoNode ELSE ts[p + 1].node
  BY <1>0, AtTimer
<1>3. /\ ts[p].id # AE_DELETED_EVENT_ID /\ (ts[p].id > amaxid \/ anow < ts[p].when)
      /\ aprev' = IF ts[p].id > amaxid THEN aprev ELSE ate
      /\ next = NextOf(ts, ate) /\ NoHandler /\ UNCHANGED <<afired, apc, acall, amaxid, adue, anow>>
  BY <1>2 DEF AeTimeSkip
<1>4. ate = ts[p].node
  BY <1>2 DEF AtNode
<1>5. Len(ts) \in Nat /\ \A i \in 1..Len(ts) : ts[i].node \in Nat /\ ts[i].when \in Int
  BY <1>1, TimerList
<1>6. adue \in SUBSET Nat /\ amaxid \in Int /\ anow \in Int
  BY <1>0 DEF InsideOK
<1>7. ts[p].id = ts[p].node /\ ~(ts[p].id > amaxid)
  <2>1. ts[p].id = ts[p].node
    BY <1>1, <1>3 DEF TimersOK
  <2> QED  BY <1>1, <1>4, <1>5, <1>6, <2>1
<1>8. aprev' = ate /\ anow < ts[p].when
  BY <1>3, <1>7
<1>9. WorldOK' /\ atimers' = ts
  BY <1>0, <1>3, NoHandlerOK DEF NoHandler
<1>10. ts[p].node \notin adue
  <2> SUFFICES ASSUME ts[p].node \in adue  PROVE FALSE
    OBVIOUS
  <2>1. PICK i \in 1..Len(ts) : ts[i].node = ts[p].node /\ (ts[i].id = AE_DELETED_EVENT_ID \/ ts[i].when <= anow)
    BY <1>1 DEF DueOK
  <2>2. PosOf(ts, ts[i].node) = i /\ PosOf(ts, ts[p].node) = p
    BY <1>1, PosIs
  <2>3. i = p
    BY <2>1, <2>2
  <2> QED  BY <1>3, <1>5, <1>6, <1>8, <2>1, <2>3
<1>11. /\ ts[p].node <= amaxid /\ DueOK(ts, ts[p].node, adue, anow)
       /\ next = IF p = Len(ts) THEN NoNode ELSE ts[p + 1].node
       /\ adue \in SUBSET adue /\ ts \in Seq(Timers) /\ TimersOK(ts, anextid)
  BY <1>1, <1>2, <1>3, <1>4
<1> HIDE DEF ts, next
<1>12a. AheadOK(ts, p, next, adue, amaxid, anow)
  BY <1>6, <1>10, <1>11, Advances
<1>12. /\ next # NoNode => p + 1 \in 1..Len(ts) /\ next = ts[p + 1].node /\ next \in Nat /\ next <= amaxid
       /\ next = NoNode => adue = {}
       /\ \A k \in adue : /\ k <= next
                          /\ \E i \in (p + 1)..Len(ts) :
                                ts[i].node = k /\ (ts[i].id = AE_DELETED_EVENT_ID \/ ts[i].when <= anow)
  BY <1>12a DEF AheadOK
<1>13. ASSUME next # NoNode
       PROVE  next <= amaxid /\ \E q \in 1..Len(ts) : AtNode(ts, q, next, ate)
  <2>1. p + 1 \in 1..Len(ts) /\ next = ts[p + 1].node /\ (p + 1) - 1 = p /\ p + 1 > 1
    BY <1>12, <1>13
  <2>2. AtNode(ts, p + 1, next, ate)
    BY <1>0, <1>4, <2>1 DEF AtNode
  <2> QED  BY <1>12, <1>13, <2>1, <2>2
<1>14. ASSUME NEW k \in adue
       PROVE  /\ k <= next
              /\ \E i \in 1..Len(ts) : ts[i].node = k /\ (ts[i].id = AE_DELETED_EVENT_ID \/ ts[i].when <= anow)
  <2>1. PICK i \in (p + 1)..Len(ts) : ts[i].node = k /\ (ts[i].id = AE_DELETED_EVENT_ID \/ ts[i].when <= anow)
    BY <1>12, <1>14
  <2>2. i \in 1..Len(ts)
    BY <1>5
  <2> QED  BY <1>12, <1>14, <2>1, <2>2
<1>15. WalkOK(ts, next, ate, amaxid, adue, anow)
  BY <1>12, <1>13, <1>14 DEF WalkOK, DueOK
<1>16. WalkOK(atimers, ate, aprev, amaxid, adue, anow)'
  BY <1>3, <1>8, <1>9, <1>15 DEF WalkOK, DueOK, AtNode, next
<1>17. ate' \in Nat \cup {NoNode} /\ aprev' \in Nat \cup {NoNode}
  BY <1>1, <1>8, <1>12 DEF next
<1>18. InsideOK' /\ apc'.at = "time"
  BY <1>0, <1>3, <1>16, <1>17 DEF InsideOK, CallOK
<1> QED  BY <1>9, <1>18, InvNext

\* The handler of a timer is called.
LEMMA FireOK ==
    ASSUME AeInv, AeTimeFire
    PROVE  AeInv'
<1>0. WorldOK /\ InsideOK /\ ate # NoNode /\ apc.at = "time"
  BY InvParts DEF AeTimeFire
<1> DEFINE ts == atimers
           next == ate'
           rest == adue'
<1>1. /\ ts \in Seq(Timers) /\ anextid \in Nat /\ TimersOK(ts, anextid)
      /\ ate \in Nat /\ ate <= amaxid /\ DueOK(ts, ate, adue, anow)
  BY <1>0, AtTimer
<1>2. PICK p \in 1..Len(ts) :
         /\ AtNode(ts, p, ate, aprev) /\ PosOf(ts, ate) = p
         /\ NextOf(ts, ate) = IF p = Len(ts) THEN NoNode ELSE ts[p + 1].node
  BY <1>0, AtTimer
<1>3. PICK w \in (IF aops < AeMaxOps THEN AeOps ELSE {}) \cup {AeWorld}, ret \in AePeriods \cup {AE_NOMORE} :
         AeSet(Rearm(w, ate, ret)) /\ next = NextOf(w.timers, ate)
  BY DEF AeTimeFire
<1>4. aprev' = ate /\ rest = adue \ {ate} /\ UNCHANGED <<afired, apc, acall, amaxid, anow, alast>>
  BY DEF AeTimeFire
<1>5. ate = ts[p].node
  BY <1>2 DEF AtNode
<1>6. adue \in SUBSET Nat /\ amaxid \in Int /\ anow \in Int
  BY <1>0 DEF InsideOK
<1>7. HandledOK(AeWorld, w)
  <2>1. w = AeWorld \/ w \in AeOps
    BY <1>3
  <2>2. CASE w = AeWorld
    BY <1>0, <1>1, <2>2, SameOK, WorldIs DEF HandledOK, WorldOK
  <2>3. CASE w \in AeOps
    BY <1>0, <1>6, <2>3, OpsOK DEF WorldOK
  <2> QED  BY <2>1, <2>2, <2>3
<1> DEFINE us == w.timers
           v == Rearm(w, ate, ret)
           vs == v.timers
<1>8. ret \in Nat \/ ret = AE_NOMORE
  BY <1>3, AeAssumption
<1>9. w \in Worlds /\ FilesOK(w) /\ TimersOK(us, w.nextid) /\ us \in Seq(Timers) /\ Follows(ts, us)
  BY <1>7, WorldIs DEF HandledOK, Worlds
<1>10. /\ v \in Worlds /\ FilesOK(v) /\ TimersOK(vs, v.nextid) /\ Len(vs) = Len(us)
       /\ \A i \in 1..Len(us) : vs[i].node = us[i].node /\ (us[i].node # ate => vs[i] = us[i])
  BY <1>6, <1>8, <1>9, RearmIs
<1>11. AeSet(v)
  BY <1>3
<1> HIDE DEF v
<1>12. AeWorld' = v /\ atimers' = vs /\ anextid' = v.nextid
  BY <1>10, <1>11, SetIs DEF AeSet
<1>13. WorldOK'
  BY <1>10, <1>12 DEF WorldOK
<1>14. next = NextOf(us, ate)
  BY <1>3
<1> HIDE DEF us, vs, ts, next, rest
<1>15. PICK d \in 0..1 :
        /\ Len(us) = Len(ts) + d
        /\ \A i \in 1..Len(ts) : /\ us[i + d].node = ts[i].node
                                 /\ us[i + d].when = ts[i].when
                                 /\ us[i + d].id \in {ts[i].id, AE_DELETED_EVENT_ID}
  BY <1>9 DEF Follows
<1>16. Len(ts) \in Nat /\ \A i \in 1..Len(ts) : ts[i].node \in Nat
  BY <1>1, TimerList
<1>17. \A i \in 1..Len(ts) : i + d \in 1..Len(us)
  BY <1>15, <1>16
<1>18. next = IF p = Len(ts) THEN NoNode ELSE ts[p + 1].node
  <2>1. p + d \in 1..Len(us) /\ us[p + d].node = ate
    BY <1>5, <1>15, <1>17
  <2>2. next = IF p + d = Len(us) THEN NoNode ELSE us[(p + d) + 1].node
    BY <1>9, <1>14, <2>1, PosIs
  <2>3. p + d = Len(us) <=> p = Len(ts)
    BY <1>15, <1>16
  <2>4. p # Len(ts) => p + 1 \in 1..Len(ts) /\ (p + d) + 1 = (p + 1) + d
    BY <1>16
  <2> QED  BY <1>15, <2>2, <2>3, <2>4
<1>19. /\ ts[p].node <= amaxid /\ DueOK(ts, ts[p].node, adue, anow) /\ rest \in SUBSET adue /\ ts[p].node \notin rest
       /\ ts \in Seq(Timers) /\ TimersOK(ts, anextid)
  BY <1>1, <1>4, <1>5
<1>20. AheadOK(ts, p, next, rest, amaxid, anow)
  BY <1>6, <1>18, <1>19, Advances
<1>21. /\ next # NoNode => p + 1 \in 1..Len(ts) /\ next = ts[p + 1].node /\ next \in Nat /\ next <= amaxid
       /\ next = NoNode => rest = {}
       /\ \A k \in rest : /\ k <= next
                          /\ \E i \in (p + 1)..Len(ts) :
                                ts[i].node = k /\ (ts[i].id = AE_DELETED_EVENT_ID \/ ts[i].when <= anow)
  BY <1>20 DEF AheadOK
<1>22. ASSUME next # NoNode
       PROVE  next <= amaxid /\ \E q \in 1..Len(vs) : AtNode(vs, q, next, ate)
  <2>1. p + 1 \in 1..Len(ts) /\ next = ts[p + 1].node
    BY <1>21, <1>22
  <2>2. /\ (p + 1) + d \in 1..Len(vs) /\ vs[(p + 1) + d].node = next
        /\ p + d \in 1..Len(us) /\ vs[p + d].node = ate
    BY <1>5, <1>10, <1>15, <1>17, <2>1
  <2>3. ((p + 1) + d) - 1 = p + d /\ (p + 1) + d > 1
    OBVIOUS
  <2>4. AtNode(vs, (p + 1) + d, next, ate)
    BY <1>0, <2>2, <2>3 DEF AtNode
  <2> QED  BY <1>21, <1>22, <2>2, <2>4
<1>23. ASSUME NEW k \in rest
       PROVE  /\ k <= next
              /\ \E i \in 1..Len(vs) : vs[i].node = k /\ (vs[i].id = AE_DELETED_EVENT_ID \/ vs[i].when <= anow)
  <2>1. PICK i \in (p + 1)..Len(ts) : ts[i].node = k /\ (ts[i].id = AE_DELETED_EVENT_ID \/ ts[i].when <= anow)
    BY <1>21, <1>23
  <2>2. i \in 1..Len(ts) /\ k # ate
    BY <1>4, <1>16
  <2>3. i + d \in 1..Len(us) /\ us[i + d].node = k /\ us[i + d].when = ts[i].when
        /\ us[i + d].id \in {ts[i].id, AE_DELETED_EVENT_ID}
    BY <1>15, <1>17, <2>1, <2>2
  <2>4. i + d \in 1..Len(vs) /\ vs[i + d] = us[i + d]
    BY <1>10, <2>2, <2>3
  <2> QED  BY <1>21, <1>23, <2>1, <2>3, <2>4
<1>24. WalkOK(vs, next, ate, amaxid, rest, anow)
  BY <1>21, <1>22, <1>23 DEF WalkOK, DueOK
<1>25. WalkOK(atimers, ate, aprev, amaxid, adue, anow)'
  <2>1. aprev' = ate /\ amaxid' = amaxid /\ anow' = anow /\ atimers' = vs
    BY <1>4, <1>12
  <2> QED  BY <1>24, <2>1 DEF WalkOK, DueOK, AtNode, next, rest
<1>26. ate' \in Nat \cup {NoNode} /\ aprev' \in Nat \cup {NoNode} /\ adue' \subseteq Nat
  BY <1>1, <1>4, <1>6, <1>19, <1>21 DEF next, rest
<1>27. InsideOK' /\ apc'.at = "time"
  BY <1>0, <1>4, <1>25, <1>26 DEF InsideOK, CallOK
<1> QED  BY <1>13, <1>27, InvNext

\* The end of the list.
LEMMA EndOK ==
    ASSUME AeInv, AeTimeEnd
    PROVE  AeInv'
<1>0. WorldOK /\ InsideOK /\ ate = NoNode
  BY InvParts DEF AeTimeEnd
<1>1. adue = {}
  BY <1>0 DEF InsideOK, WalkOK
<1>2. WorldOK'
  BY <1>0, NoHandlerOK DEF AeTimeEnd
<1>3. OutsideOK' /\ apc'.at # "time"
  BY <1>0, <1>1 DEF AeTimeEnd, InsideOK, OutsideOK, CallOK
<1> QED  BY <1>2, <1>3, InvNext

\* The clock.
LEMMA ClockOK ==
    ASSUME AeInv, AeClock
    PROVE  AeInv'
<1>0. WorldOK' /\ WorldOK
  BY InvParts, NoHandlerOK DEF AeClock
<1>1. /\ NoHandler /\ UNCHANGED <<afired, apc, acall, ate, aprev, amaxid, adue, alast>>
      /\ apc.at = "poll" \/ apc.at = "time"
  BY DEF AeClock
<1>2. anow' \in Int /\ (apc.at = "time" => anow' = anow + 1)
  <2>1. AeSecond \in Nat /\ AeMaxNow \in Nat
    BY AeAssumption
  <2>2. PICK n \in AeSecond..AeMaxNow : anow' = n /\ (n = anow + 1 \/ (apc.at = "poll" /\ n + AeSecond <= anow))
    BY DEF AeClock
  <2> QED  BY <2>1, <2>2
<1>3. CASE apc.at = "poll"
  <2>1. OutsideOK
    BY <1>3, InvParts
  <2>2. OutsideOK' /\ apc'.at # "time"
    BY <1>1, <1>2, <1>3, <2>1 DEF OutsideOK, CallOK
  <2> QED  BY <1>0, <2>2, InvNext
<1>4. CASE apc.at = "time"
  <2>1. InsideOK
    BY <1>4, InvParts
  <2>2. atimers' = atimers /\ anow \in Int /\ anow' = anow + 1 /\ WalkOK(atimers, ate, aprev, amaxid, adue, anow)
    BY <1>1, <1>2, <1>4, <2>1 DEF NoHandler, InsideOK
  <2>3. \A i \in 1..Len(atimers) : atimers[i].when \in Int
    BY <1>0, WorldIs, TimerList DEF WorldOK, Worlds
  <2>4. DueOK(atimers, ate, adue, anow')
    BY <2>2, <2>3 DEF WalkOK, DueOK
  <2>5. WalkOK(atimers, ate, aprev, amaxid, adue, anow)'
    BY <1>1, <2>2, <2>4 DEF WalkOK, DueOK, AtNode
  <2>6. InsideOK' /\ apc'.at = "time"
    BY <1>1, <1>2, <1>4, <2>1, <2>5 DEF InsideOK, CallOK
  <2> QED  BY <1>0, <2>6, InvNext
<1> QED  BY <1>1, <1>3, <1>4

\* The invariant is inductive.
LEMMA StepOK ==
    ASSUME AeInv, [AeNext]_aeVars
    PROVE  AeInv'
<1>1. CASE UNCHANGED aeVars
  <2>1. WorldOK'
    BY <1>1, InvParts, NoHandlerOK DEF aeVars, NoHandler
  <2>2. CASE apc.at = "time"
    <3>1. InsideOK' /\ apc'.at = "time"
      BY <1>1, <2>2, InvParts DEF aeVars, InsideOK, CallOK
    <3> QED  BY <2>1, <3>1, InvNext
  <2>3. CASE apc.at # "time"
    <3>1. OutsideOK' /\ apc'.at # "time"
      BY <1>1, <2>3, InvParts DEF aeVars, OutsideOK, CallOK
    <3> QED  BY <2>1, <3>1, InvNext
  <2> QED  BY <2>2, <2>3
<1>2. CASE AeNext
  BY <1>2, FileStepsOK, StartOK, UnlinkOK, SkipOK, FireOK, EndOK, ClockOK DEF AeNext
<1> QED  BY <1>1, <1>2

\* maxfd is the greatest descriptor with an event, or -1.
LEMMA MaxFdIs ==
    ASSUME WorldOK
    PROVE  amaxfd = Max({f \in AeFds : aevents[f].mask # AE_NONE} \cup {-1})
<1> DEFINE S == {f \in AeFds : aevents[f].mask # AE_NONE} \cup {-1}
<1>1. amaxfd \in Int /\ amaxfd >= -1 /\ (\A f \in AeFds : aevents[f].mask # {} => f <= amaxfd)
      /\ (amaxfd # -1 => amaxfd \in AeFds /\ aevents[amaxfd].mask # {})
  BY WorldIs DEF WorldOK, Worlds, FilesOK, MaxFdOK
<1>2. amaxfd \in S /\ \A x \in S : x \in Int
  BY <1>1, AeAssumption DEF AE_NONE
<1>3. \A x \in S : amaxfd >= x
  BY <1>1, <1>2, AeAssumption DEF AE_NONE
<1> HIDE DEF S
<1>4. \A y \in S : (\A x \in S : y >= x) => y = amaxfd
  BY <1>2, <1>3
<1>5. Max(S) = amaxfd
  BY <1>2, <1>3, <1>4 DEF Max
<1> QED  BY <1>5 DEF S

-----------------------------------------------------------------------------

\* The inductive invariant holds in every state.
THEOREM LoopInvariance == AeSpec => []AeInv
<1> QED  BY InitOK, StepOK, PTL DEF AeSpec

\* Handlers are called only for events that are watched, with the data of the connection
\* that is open, and every timer that is due is called, however handlers of the same
\* iteration close, accept, create and delete (aeProcessEvents, processTimeEvents).
THEOREM LoopCorrect == AeSpec => []AeSound
<1>1. ASSUME AeInv  PROVE AeSound
  <2>1. WorldOK /\ CallOK /\ (apc.at = "before" => adue = {})
    BY <1>1 DEF AeInv, WorldOK
  <2>2. \A f \in AeFds : akernel[f] = aevents[f].mask /\ (aevents[f].mask # AE_NONE => aevents[f].data = afd[f])
    BY <2>1, WorldIs DEF WorldOK, FilesOK, AE_NONE
  <2>3. atimers \in Seq(Timers) /\ TimersOK(atimers, anextid)
    BY <2>1, WorldIs DEF WorldOK, Worlds
  <2>4. DOMAIN atimers = 1..Len(atimers) /\ \A i \in 1..Len(atimers) : atimers[i].node \in Nat
    BY <2>3, TimerList
  <2>5. \A i, j \in DOMAIN atimers : i # j => atimers[i].node # atimers[j].node
    <3>1. \A i, j \in 1..Len(atimers) : i < j => atimers[i].node # atimers[j].node
      BY <2>3, <2>4 DEF TimersOK
    <3>2. \A i, j \in 1..Len(atimers) : i # j => i < j \/ j < i
      OBVIOUS
    <3> QED  BY <2>4, <3>1, <3>2
  <2>6. ate # NoNode => \E i \in DOMAIN atimers : atimers[i].node = ate
    BY <1>1, <2>4 DEF AeInv, WalkOK, AtNode
  <2> QED  BY <2>1, <2>2, <2>5, <2>6, MaxFdIs DEF AeSound, CallOK
<1> QED  BY <1>1, LoopInvariance, PTL

\* Every node of ts is one of new, unless it is deleted.
KeepsNodes(ts, new) ==
    \A i \in DOMAIN ts : ts[i].id # AE_DELETED_EVENT_ID => \E j \in DOMAIN new : new[j].node = ts[i].node

\* A handler keeps the nodes.
LEMMA FollowsKeeps ==
    ASSUME NEW ts \in Seq(Timers), NEW us \in Seq(Timers), Follows(ts, us), NEW vs \in Seq(Timers),
           Len(vs) = Len(us), \A i \in 1..Len(us) : vs[i].node = us[i].node
    PROVE  KeepsNodes(ts, vs)
<1>1. PICK d \in 0..1 : Len(us) = Len(ts) + d /\ \A i \in 1..Len(ts) : us[i + d].node = ts[i].node
  BY DEF Follows
<1>2. Len(ts) \in Nat /\ DOMAIN ts = 1..Len(ts) /\ DOMAIN vs = 1..Len(vs)
  BY TimerList
<1>3. \A i \in 1..Len(ts) : i + d \in 1..Len(vs) /\ vs[i + d].node = ts[i].node
  BY <1>1, <1>2
<1> QED  BY <1>2, <1>3 DEF KeepsNodes

\* One step of the loop keeps the nodes.
LEMMA StepKeeps ==
    ASSUME AeInv, AeInv', AeNext
    PROVE  KeepsNodes(atimers, atimers')
<1>0. /\ WorldOK /\ anow \in Int /\ atimers \in Seq(Timers) /\ TimersOK(atimers, anextid)
      /\ atimers' \in Seq(Timers)
  <2>1. AeWorld' \in Worlds /\ AeWorld'.timers = atimers'
    BY DEF AeInv, AeWorld
  <2> QED  BY <2>1, WorldIs DEF AeInv, WorldOK, Worlds
<1>1. ASSUME AeHandler  PROVE KeepsNodes(atimers, atimers')
  BY <1>0, <1>1, HandlerOK, FollowsKeeps
<1>2. ASSUME atimers' = atimers  PROVE KeepsNodes(atimers, atimers')
  BY <1>2 DEF KeepsNodes
<1>3. CASE AeBeforeSleep \/ AePoll \/ AeReadable \/ AeWritable \/ AeTimeSkip \/ AeTimeEnd \/ AeClock
  <2>1. AeHandler \/ atimers' = atimers
    BY <1>3 DEF AeBeforeSleep, AePoll, AeReadable, AeWritable, AeTimeSkip, AeTimeEnd, AeClock, NoHandler
  <2> QED  BY <1>1, <1>2, <2>1
<1>4. CASE AeTimeStart
  <2> DEFINE us == [i \in DOMAIN atimers |-> [atimers[i] EXCEPT !.when = atimers[i].when % AeSecond]]
  <2>1. atimers' = us \/ atimers' = atimers
    BY <1>4 DEF AeTimeStart
  <2>2. \A i \in DOMAIN atimers : us[i].node = atimers[i].node
    <3>1. \A t \in Timers : \A x : [t EXCEPT !.when = x].node = t.node
      BY DEF Timers
    <3>2. \A i \in DOMAIN atimers : atimers[i] \in Timers
      BY <1>0, TimerList
    <3> QED  BY <3>1, <3>2
  <2>3. DOMAIN us = DOMAIN atimers
    OBVIOUS
  <2> HIDE DEF us
  <2> QED  BY <1>2, <2>1, <2>2, <2>3 DEF KeepsNodes
<1>5. CASE AeTimeUnlink
  <2>1. WorldOK /\ InsideOK /\ ate # NoNode
    BY <1>5, InvParts DEF AeTimeUnlink
  <2>2. PICK p \in 1..Len(atimers) : AtNode(atimers, p, ate, aprev) /\ PosOf(atimers, ate) = p
    BY <2>1, AtTimer
  <2>3. /\ atimers[p].id = AE_DELETED_EVENT_ID
        /\ atimers' = (IF aprev = NoNode THEN <<>> ELSE SubSeq(atimers, 1, PosOf(atimers, aprev)))
                      \o SubSeq(atimers, p + 1, Len(atimers))
    BY <1>5, <2>2 DEF AeTimeUnlink
  <2>4. atimers' = Without(atimers, p)
    BY <1>0, <2>2, <2>3, UnlinkIs, ZenonT(60)
  <2> DEFINE ts == atimers
             new == atimers'
  <2>5. p \in 1..Len(ts) /\ Len(ts) \in Nat /\ DOMAIN ts = 1..Len(ts) /\ DOMAIN new = 1..Len(new)
    BY <1>0, TimerList
  <2>6. Len(new) = Len(ts) - 1 /\ \A i \in 1..Len(new) : new[i] = IF i < p THEN ts[i] ELSE ts[i + 1]
    BY <1>0, <2>4, WithoutIs
  <2> SUFFICES ASSUME NEW i \in DOMAIN ts, ts[i].id # AE_DELETED_EVENT_ID
               PROVE  \E j \in DOMAIN new : new[j].node = ts[i].node
    BY DEF KeepsNodes
  <2> HIDE DEF ts, new
  <2>7. i # p
    BY <2>3 DEF ts
  <2>8. CASE i < p
    <3>1. i \in 1..Len(new) /\ new[i] = ts[i]
      BY <2>5, <2>6, <2>8
    <3> QED  BY <2>5, <3>1
  <2>9. CASE ~(i < p)
    <3>1. i - 1 \in 1..Len(new) /\ ~(i - 1 < p) /\ (i - 1) + 1 = i
      BY <2>5, <2>6, <2>7, <2>9
    <3>2. new[i - 1] = ts[i]
      BY <2>6, <3>1
    <3> QED  BY <2>5, <3>1, <3>2
  <2> QED  BY <2>8, <2>9
<1>6. CASE AeTimeFire
  <2>1. PICK w \in (IF aops < AeMaxOps THEN AeOps ELSE {}) \cup {AeWorld}, ret \in AePeriods \cup {AE_NOMORE} :
           AeSet(Rearm(w, ate, ret))
    BY <1>6 DEF AeTimeFire
  <2>2. HandledOK(AeWorld, w)
    <3>1. w = AeWorld \/ w \in AeOps
      BY <2>1
    <3>2. CASE w = AeWorld
      BY <1>0, <3>2, SameOK, WorldIs DEF HandledOK, WorldOK
    <3>3. CASE w \in AeOps
      BY <1>0, <3>3, OpsOK DEF WorldOK
    <3> QED  BY <3>1, <3>2, <3>3
  <2>3. w \in Worlds /\ FilesOK(w) /\ TimersOK(w.timers, w.nextid) /\ w.timers \in Seq(Timers)
        /\ Follows(atimers, w.timers) /\ (ret \in Nat \/ ret = AE_NOMORE)
    BY <2>1, <2>2, WorldIs, AeAssumption DEF HandledOK, Worlds
  <2> DEFINE v == Rearm(w, ate, ret)
  <2>4. Len(v.timers) = Len(w.timers) /\ \A i \in 1..Len(w.timers) : v.timers[i].node = w.timers[i].node
    BY <1>0, <2>3, RearmIs
  <2>5. atimers' = v.timers
    BY <2>1 DEF AeSet
  <2> HIDE DEF v
  <2> QED  BY <1>0, <2>3, <2>4, <2>5, FollowsKeeps
<1> QED  BY <1>3, <1>4, <1>5, <1>6 DEF AeNext

\* No timer is ever lost from the list (processTimeEvents unlinks through prev and te, which
\* its handlers must leave next to each other).
THEOREM TimersStay == AeSpec => TimersKept
<1>1. ASSUME AeInv, AeInv', [AeNext]_aeVars
      PROVE  [\A i \in DOMAIN atimers : atimers[i].id # AE_DELETED_EVENT_ID
                  => \E j \in DOMAIN atimers' : atimers'[j].node = atimers[i].node]_aeVars
  BY <1>1, StepKeeps DEF KeepsNodes
<1> QED  BY <1>1, LoopInvariance, PTL DEF AeSpec, TimersKept
=============================================================================
