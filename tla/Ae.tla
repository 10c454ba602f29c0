--------------------------------- MODULE Ae ---------------------------------
(***************************************************************************)
(* The event loop, ae.c with epoll: file events whose handlers may close    *)
(* and accept connections while the events of one poll are still being      *)
(* handled, so that descriptors are used again, and timers that create and  *)
(* delete timers from their handlers, under a clock that may be set back.   *)
(* A handler is one operation of a menu.  The second has AeSecond ticks.    *)
(***************************************************************************)
EXTENDS Integers, Sequences, FiniteSets, FiniteSetsExt

CONSTANTS
    AeFds,          \* descriptors, eventLoop->setsize of them
    AeTimerIds,     \* identifiers of timers, from 0
    AeSecond,       \* ticks of a second
    AeMaxNow,       \* bound on the clock
    AeMaxOps,       \* bound on the operations of handlers
    AePeriods       \* what a timer's handler returns to be called again

ASSUME AeAssumption ==
    /\ AeFds \subseteq Nat /\ IsFiniteSet(AeFds) /\ AeTimerIds \subseteq Nat
    /\ AeSecond \in Nat \ {0} /\ AeMaxNow \in Nat /\ AeMaxOps \in Nat /\ AePeriods \subseteq Nat

AE_NONE == {}
AE_NOMORE == -1
NoNode == -1

VARIABLES
    afd,            \* descriptor -> the connection behind it, 0 when it is closed
    aconn,          \* connections accepted so far
    aevents,        \* descriptor -> [mask, rproc, wproc, data]
    akernel,        \* descriptor -> what epoll watches
    amaxfd, afired, \* eventLoop->maxfd, the rest of eventLoop->fired
    apc,            \* [at, rfired]: where aeProcessEvents() is
    acall,          \* the last handler called, and the connection then behind the descriptor
    atimers,        \* timeEventHead: sequence of [node, id, when]
    anextid, ate, aprev, amaxid,   \* timeEventNextId and the variables of processTimeEvents()
    adue,           \* timers that had to be called when the timers were looked through
    anow, alast,    \* the clock, lastTime
    aops

aeVars == <<afd, aconn, aevents, akernel, amaxfd, afired, apc, acall, atimers, anextid, ate, aprev, amaxid,
            adue, anow, alast, aops>>

\* What handlers work on, as one record.
AeWorld == [fd |-> afd, conn |-> aconn, events |-> aevents, kernel |-> akernel, maxfd |-> amaxfd,
            timers |-> atimers, nextid |-> anextid]

AeSet(w) == /\ afd' = w.fd /\ aconn' = w.conn /\ aevents' = w.events /\ akernel' = w.kernel
            /\ amaxfd' = w.maxfd /\ atimers' = w.timers /\ anextid' = w.nextid

NoEvent == [mask |-> AE_NONE, rproc |-> "none", wproc |-> "none", data |-> 0]

aeCreateEventLoop ==
    /\ afd = [f \in AeFds |-> 0] /\ aconn = 0
    /\ aevents = [f \in AeFds |-> NoEvent] /\ akernel = [f \in AeFds |-> AE_NONE]
    /\ amaxfd = -1 /\ afired = <<>> /\ apc = [at |-> "before", rfired |-> FALSE]
    /\ acall = [fd |-> -1, data |-> 0, conn |-> 0, watched |-> TRUE, twice |-> FALSE]
    /\ atimers = <<>> /\ anextid = 0 /\ ate = NoNode /\ aprev = NoNode /\ amaxid = -1
    /\ adue = {} /\ anow = AeSecond /\ alast = 1 /\ aops = 0

\* What epoll watches is merged with the events the table has, or reduced to what is left.
aeApiAddEvent(w, f, mask) == [w.kernel EXCEPT ![f] = w.events[f].mask \cup mask]

aeApiDelEvent(w, f, delmask) == [w.kernel EXCEPT ![f] = w.events[f].mask \ delmask]

\* An error, of epoll or for a descriptor beyond setsize, changes nothing: who meets it
\* is a handler that does nothing.
aeCreateFileEvent(w, f, mask, proc, data) ==
    [w EXCEPT !.kernel = aeApiAddEvent(w, f, mask),
              !.events = [w.events EXCEPT ![f] = [mask |-> w.events[f].mask \cup mask,
                             rproc |-> IF "r" \in mask THEN proc ELSE w.events[f].rproc,
                             wproc |-> IF "w" \in mask THEN proc ELSE w.events[f].wproc,
                             data |-> data]],
              !.maxfd = IF f > w.maxfd THEN f ELSE w.maxfd]

aeDeleteFileEvent(w, f, mask) ==
    IF w.events[f].mask = AE_NONE THEN w
    ELSE LET left == w.events[f].mask \ mask
             used == {g \in AeFds : g < f /\ w.events[g].mask # AE_NONE}
         IN  [w EXCEPT !.kernel = aeApiDelEvent(w, f, mask),
                       !.events = [w.events EXCEPT ![f] = [w.events[f] EXCEPT !.mask = left]],
                       !.maxfd = IF f # w.maxfd \/ left # AE_NONE THEN w.maxfd
                                 ELSE IF used = {} THEN -1 ELSE Max(used)]

\* aeAddMillisecondsToNow(): milliseconds carry into seconds, which a single number does.
aeCreateTimeEvent(w, ms) ==
    [w EXCEPT !.timers = <<[node |-> w.nextid, id |-> w.nextid, when |-> anow + ms]>> \o w.timers,
              !.nextid = w.nextid + 1]

AE_DELETED_EVENT_ID == -1

Deleted(te) == [te EXCEPT !.id = AE_DELETED_EVENT_ID]

aeDeleteTimeEvent(w, id) ==
    [w EXCEPT !.timers = [i \in DOMAIN w.timers |-> IF w.timers[i].id = id THEN Deleted(w.timers[i]) ELSE w.timers[i]]]

\* unlinkClient(): both events, then close(), after which epoll forgets the descriptor.
AeClose(w, f) ==
    LET v == aeDeleteFileEvent(aeDeleteFileEvent(w, f, {"r"}), f, {"w"})
    IN  [v EXCEPT !.fd = [v.fd EXCEPT ![f] = 0], !.kernel = [v.kernel EXCEPT ![f] = AE_NONE]]

\* accept() and createClient(), or connect() with one handler for both events: the lowest
\* descriptor that is free.
AeOpen(w, proc, mask) ==
    LET f == Min({g \in AeFds : w.fd[g] = 0})
    IN  aeCreateFileEvent([w EXCEPT !.fd = [w.fd EXCEPT ![f] = w.conn + 1], !.conn = w.conn + 1],
                          f, mask, proc, w.conn + 1)

\* The worlds after one operation of a handler.
AeOps ==
    LET w == AeWorld
        open == {f \in AeFds : w.fd[f] # 0}
    IN  {AeClose(w, f) : f \in open}
        \cup {AeOpen(w, "read", {"r"}) : f \in IF open = AeFds THEN {} ELSE {0}}
        \cup {AeOpen(w, "connect", {"r", "w"}) : f \in IF open = AeFds THEN {} ELSE {0}}
        \cup {aeCreateFileEvent(w, f, {"w"}, "write", w.fd[f]) : f \in open}
        \cup {aeDeleteFileEvent(w, f, {"w"}) : f \in open}
        \cup {aeCreateTimeEvent(w, p) : p \in IF w.nextid \in AeTimerIds THEN AePeriods ELSE {}}
        \cup {aeDeleteTimeEvent(w, w.timers[i].id) : i \in {j \in DOMAIN w.timers : w.timers[j].id # AE_DELETED_EVENT_ID}}

\* A handler does nothing of this kind, or one operation.
AeHandler ==
    \/ AeSet(AeWorld) /\ UNCHANGED aops
    \/ aops < AeMaxOps /\ aops' = aops + 1 /\ \E w \in AeOps : AeSet(w)

NoHandler == UNCHANGED <<afd, aconn, aevents, akernel, amaxfd, atimers, anextid, aops>>

-----------------------------------------------------------------------------

\* The nearest timer, a deleted one that is still linked too.
aeSearchNearestTimer == Min({atimers[i].when : i \in DOMAIN atimers})

\* beforesleep(), then aeApiPoll(): it returns the events that are ready, or nothing at
\* the latest when the nearest timer has to be called.
AeBeforeSleep ==
    /\ apc.at = "before"
    /\ AeHandler
    /\ apc' = [apc EXCEPT !.at = "poll"]
    /\ UNCHANGED <<afired, acall, ate, aprev, amaxid, adue, anow, alast>>

\* aeApiPoll(): eventLoop->fired, in any order, for any of the descriptors watched with some
\* of their events; an error or the end of a connection is reported as writable to whoever
\* watches the descriptor.
AePolled ==
    {fired \in UNION {[1..n -> [fd : AeFds, mask : {{"r"}, {"w"}, {"r", "w"}}]] : n \in 0..Cardinality(AeFds)} :
        /\ \A i \in DOMAIN fired : akernel[fired[i].fd] # AE_NONE /\ fired[i].mask \subseteq akernel[fired[i].fd] \cup {"w"}
        /\ \A i, j \in DOMAIN fired : i # j => fired[i].fd # fired[j].fd}

AePoll ==
    /\ apc.at = "poll"
    /\ \E fired \in AePolled :
          /\ afired' = fired
          /\ IF fired # <<>> THEN anow' = anow
             ELSE \E d \in 0..AeMaxNow :
                     /\ anow + d <= AeMaxNow /\ anow' = anow + d
                     /\ atimers # <<>> /\ d > 0 => anow' <= aeSearchNearestTimer
    /\ apc' = [at |-> "file", rfired |-> FALSE]
    /\ NoHandler /\ UNCHANGED <<acall, ate, aprev, amaxid, adue, alast>>

Call(f, kind) == acall' = [fd |-> f, data |-> aevents[f].data, conn |-> afd[f],
                           watched |-> kind \in aevents[f].mask,
                           twice |-> kind = "w" /\ apc.rfired /\ aevents[f].wproc = aevents[f].rproc]

\* Mutant: the mask of the poll decides, whatever earlier handlers removed.
Watched_Fired(f, kind) == kind \in afired[1].mask

\* The event must still be watched: an earlier handler may have removed it.
Watched(f, kind) == kind \in aevents[f].mask \cap afired[1].mask

AeReadable ==
    /\ apc.at = "file" /\ afired # <<>>
    /\ LET f == afired[1].fd
       IN  IF Watched(f, "r")
           THEN Call(f, "r") /\ AeHandler /\ apc' = [at |-> "write", rfired |-> TRUE]
           ELSE NoHandler /\ apc' = [at |-> "write", rfired |-> FALSE] /\ UNCHANGED acall
    /\ UNCHANGED <<afired, ate, aprev, amaxid, adue, anow, alast>>

AeWritable ==
    /\ apc.at = "write"
    /\ LET f == afired[1].fd
       IN  IF Watched(f, "w") /\ (~apc.rfired \/ aevents[f].wproc # aevents[f].rproc)
           THEN Call(f, "w") /\ AeHandler
           ELSE NoHandler /\ UNCHANGED acall
    /\ afired' = Tail(afired) /\ apc' = [at |-> "file", rfired |-> FALSE]
    /\ UNCHANGED <<ate, aprev, amaxid, adue, anow, alast>>

\* All events are handled: processTimeEvents() begins.  When the clock was set back, every
\* timer is due.
AeTimeStart ==
    /\ apc.at = "file" /\ afired = <<>>
    /\ LET back   == anow \div AeSecond < alast
           timers == IF back THEN [i \in DOMAIN atimers |-> [atimers[i] EXCEPT !.when = atimers[i].when % AeSecond]]
                     ELSE atimers
       IN  /\ atimers' = timers
           /\ adue' = {timers[i].node : i \in {j \in DOMAIN timers : timers[j].id # AE_DELETED_EVENT_ID
                                                                     /\ timers[j].when <= anow}}
           /\ ate' = IF timers = <<>> THEN NoNode ELSE timers[1].node
    /\ alast' = anow \div AeSecond
    /\ aprev' = NoNode /\ amaxid' = anextid - 1
    /\ apc' = [at |-> "time", rfired |-> FALSE]
    /\ UNCHANGED <<afd, aconn, aevents, akernel, amaxfd, afired, acall, anextid, anow, aops>>

PosOf(timers, n) == CHOOSE i \in DOMAIN timers : timers[i].node = n
NextOf(timers, n) == IF PosOf(timers, n) = Len(timers) THEN NoNode ELSE timers[PosOf(timers, n) + 1].node

\* A deleted timer is unlinked: what is before prev, prev, and what follows te.  No timer
\* of the server has a finalizerProc.
AeTimeUnlink ==
    /\ apc.at = "time" /\ ate # NoNode
    /\ LET p == PosOf(atimers, ate)
       IN  /\ atimers[p].id = AE_DELETED_EVENT_ID
           /\ atimers' = (IF aprev = NoNode THEN <<>> ELSE SubSeq(atimers, 1, PosOf(atimers, aprev)))
                         \o SubSeq(atimers, p + 1, Len(atimers))
    /\ ate' = NextOf(atimers, ate)
    /\ adue' = adue \ {ate}
    /\ UNCHANGED <<afd, aconn, aevents, akernel, amaxfd, afired, apc, acall, anextid, aprev, amaxid, anow, alast, aops>>

AeTimeSkip ==
    /\ apc.at = "time" /\ ate # NoNode
    /\ LET te == atimers[PosOf(atimers, ate)]
       IN  /\ te.id # AE_DELETED_EVENT_ID
           /\ te.id > amaxid \/ anow < te.when
           /\ aprev' = IF te.id > amaxid THEN aprev ELSE ate
    /\ ate' = NextOf(atimers, ate)
    /\ NoHandler /\ UNCHANGED <<afired, apc, acall, amaxid, adue, anow, alast>>

\* The timer at node te is called again after ret, or deleted.
Rearm(w, te, ret) ==
    [w EXCEPT !.timers = [i \in DOMAIN w.timers |->
                             IF w.timers[i].node # te THEN w.timers[i]
                             ELSE IF ret = AE_NOMORE THEN Deleted(w.timers[i])
                             ELSE [w.timers[i] EXCEPT !.when = anow + ret]]]

\* The handler of a timer is called, may do an operation, and says when to be called
\* again; the node is there still, whatever it did.
AeTimeFire ==
    /\ apc.at = "time" /\ ate # NoNode
    /\ LET te == atimers[PosOf(atimers, ate)]
       IN  te.id \in 0..amaxid /\ anow >= te.when
    /\ \E w \in (IF aops < AeMaxOps THEN AeOps ELSE {}) \cup {AeWorld}, ret \in AePeriods \cup {AE_NOMORE} :
          /\ AeSet(Rearm(w, ate, ret))
          /\ aops' = IF w = AeWorld THEN aops ELSE aops + 1
          /\ ate' = NextOf(w.timers, ate)
    /\ aprev' = ate /\ adue' = adue \ {ate}
    /\ UNCHANGED <<afired, apc, acall, amaxid, anow, alast>>

AeTimeEnd ==
    /\ apc.at = "time" /\ ate = NoNode
    /\ apc' = [apc EXCEPT !.at = "before"]
    /\ NoHandler /\ UNCHANGED <<afired, acall, ate, aprev, amaxid, adue, anow, alast>>

\* Time passes, or the clock is set back by a second or more while the process sleeps.
AeClock ==
    /\ apc.at \in {"poll", "time"}
    /\ \E n \in AeSecond..AeMaxNow : anow' = n /\ (n = anow + 1 \/ (apc.at = "poll" /\ n + AeSecond <= anow))
    /\ NoHandler /\ UNCHANGED <<afired, apc, acall, ate, aprev, amaxid, adue, alast>>

AeNext == AeBeforeSleep \/ AePoll \/ AeReadable \/ AeWritable
          \/ AeTimeStart \/ AeTimeUnlink \/ AeTimeSkip \/ AeTimeFire \/ AeTimeEnd \/ AeClock

AeSpec == aeCreateEventLoop /\ [][AeNext]_aeVars

-----------------------------------------------------------------------------

\* A handler is called only for an event that is watched at that moment, with the data of
\* the connection the descriptor now stands for, a handler of both events once; epoll
\* watches what the table says, maxfd is its greatest entry; no timer is ever lost from
\* the list or linked twice, and one whose time had come when the timers were looked
\* through has been called or deleted when that is over, the clock set back or not.
AeSound ==
    /\ acall.fd # -1 => acall.watched /\ acall.data = acall.conn /\ acall.conn # 0 /\ ~acall.twice
    /\ \A f \in AeFds : akernel[f] = aevents[f].mask /\ (aevents[f].mask # AE_NONE => aevents[f].data = afd[f])
    /\ amaxfd = Max({f \in AeFds : aevents[f].mask # AE_NONE} \cup {-1})
    /\ \A i, j \in DOMAIN atimers : i # j => atimers[i].node # atimers[j].node
    /\ ate # NoNode => \E i \in DOMAIN atimers : atimers[i].node = ate
    /\ apc.at = "before" => adue = {}

\* A timer that is not deleted stays linked, whatever its own handler and those of the
\* timers before it create and delete while the list is walked.
TimersKept ==
    [][\A i \in DOMAIN atimers : atimers[i].id # AE_DELETED_EVENT_ID
           => \E j \in DOMAIN atimers' : atimers'[j].node = atimers[i].node]_aeVars
=============================================================================
