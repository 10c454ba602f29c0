----------------------------- MODULE AofProofs -----------------------------
(***************************************************************************)
(* Proofs about the append only file, for any configuration that is Sane:  *)
(* what loadAppendOnlyFile() reads from a whole file and from a prefix of  *)
(* it (Read, LoadAs, Stream); that every step of the server keeps the file *)
(* loadable to an earlier state of the data set (Holds, AofInv); that what *)
(* a client was told under appendfsync always is in the synced part        *)
(* (Durable, AckInv); and that only whole transactions are loaded when no  *)
(* write is torn (TxHolds, TxInv).                                         *)
(***************************************************************************)
EXTENDS Aof, SequenceTheorems, WellFoundedInduction, TLAPS

(* The types of the data set, of pieces and of the state of a load. *)

Entries == Nat \X Nat
Data == Seq(Entries)
Ops == {"set", "select", "multi", "exec"}
CmdPieces == [op : Ops, arg : Nat, part : {1, 2}]
SnapPieces == [op : {"snapshot"}, arg : Data, part : {0}]
Pieces == CmdPieces \cup SnapPieces
Contents == Seq(Pieces)
Halves == [op : Ops, arg : Nat, part : {1}]
LoadStates == [data : Data, db : Nat, multi : BOOLEAN, half : Halves \cup {None},
               valid : Nat, pos : Nat, bad : BOOLEAN]

\* A set of natural numbers that is not empty has a least element.
LEMMA LeastNat ==
    ASSUME NEW S, S \subseteq Nat, S # {}
    PROVE  \E m \in S : \A n \in S : m <= n
<1> DEFINE R == OpToRel(<, Nat)
<1>1. \A m, n \in Nat : <<m, n>> \in R <=> m < n
  BY DEF OpToRel
<1>2. IsWellFoundedOn(R, Nat)
  BY NatLessThanWellFounded
<1> HIDE DEF R
<1>3. PICK m \in S : \A n \in S : ~(<<n, m>> \in R)
  BY <1>2, WFMin
<1>4. m \in Nat /\ \A n \in S : n \in Nat
  OBVIOUS
<1>5. \A n \in S : ~(n < m)
  BY <1>1, <1>3, <1>4, Zenon
<1>6. \A n \in S : m <= n
  BY <1>4, <1>5
<1> QED  BY <1>6

\* A set with 0 that has the successor of each of its members holds Nat.
LEMMA Climb ==
    ASSUME NEW S, 0 \in S, NEW b \in Nat, \A n \in 0..(b - 1) : n \in S => n + 1 \in S
    PROVE  \A n \in 0..b : n \in S
<1> DEFINE U == {n \in 0..b : n \notin S}
<1> SUFFICES ASSUME U # {} PROVE FALSE
  OBVIOUS
<1>1. U \subseteq Nat
  OBVIOUS
<1>2. PICK m \in U : \A n \in U : m <= n
  BY <1>1, LeastNat
<1>3. m \in 0..b /\ m \notin S /\ m # 0
  BY <1>2
<1>4. m - 1 \in 0..(b - 1) /\ m - 1 \notin U /\ m - 1 + 1 = m
  BY <1>2, <1>3
<1>5. m - 1 \in S
  BY <1>4
<1> QED  BY <1>3, <1>4, <1>5

-----------------------------------------------------------------------------
(* The states of a load, piece by piece. *)

\* The states after 0, 1, ..., n pieces.
Trace(p, c, n, f) ==
    f = [i \in 0..n |-> IF i = 0 THEN LoadStart ELSE Read(p, f[i - 1], c[i])]

\* Every content has a trace.
LEMMA TraceExists ==
    ASSUME NEW p, NEW c, NEW b \in Nat
    PROVE  \E f : Trace(p, c, b, f)
<1> DEFINE S == {n \in Nat : \E f : Trace(p, c, n, f)}
<1>1. 0 \in S
  <2> DEFINE f == [i \in 0..0 |-> LoadStart]
  <2>1. f = [i \in 0..0 |-> IF i = 0 THEN LoadStart ELSE Read(p, f[i - 1], c[i])]
    OBVIOUS
  <2> HIDE DEF f
  <2>2. Trace(p, c, 0, f)
    BY <2>1 DEF Trace
  <2> QED  BY <2>2
<1>2. \A n \in 0..(b - 1) : n \in S => n + 1 \in S
  <2> TAKE n \in 0..(b - 1)
  <2> HAVE n \in S
  <2>1. PICK f : Trace(p, c, n, f)
    OBVIOUS
  <2> DEFINE g == [i \in 0..(n + 1) |-> IF i = n + 1 THEN Read(p, f[n], c[n + 1]) ELSE f[i]]
  <2>2. \A i \in 0..n : f[i] = IF i = 0 THEN LoadStart ELSE Read(p, f[i - 1], c[i])
    BY <2>1, Zenon DEF Trace
  <2>3. \A i \in 0..(n + 1) : g[i] = IF i = 0 THEN LoadStart ELSE Read(p, g[i - 1], c[i])
    <3> TAKE i \in 0..(n + 1)
    <3>1. CASE i = n + 1
      BY <3>1
    <3>2. CASE i # n + 1
      <4>1. i \in 0..n /\ (i # 0 => i - 1 \in 0..(n + 1) /\ i - 1 # n + 1)
        BY <3>2
      <4> QED  BY <2>2, <4>1
    <3> QED  BY <3>1, <3>2
  <2>4. g = [i \in 0..(n + 1) |-> g[i]]
    OBVIOUS
  <2> HIDE DEF g
  <2>5. g = [i \in 0..(n + 1) |-> IF i = 0 THEN LoadStart ELSE Read(p, g[i - 1], c[i])]
    BY <2>3, <2>4, Zenon
  <2>6. Trace(p, c, n + 1, g)
    BY <2>5 DEF Trace
  <2> QED  BY <2>6
<1> HIDE DEF S
<1>3. \A n \in 0..b : n \in S
  BY <1>1, <1>2, Climb
<1>4. b \in S
  BY <1>3
<1> QED  BY <1>4 DEF S

\* The steps of a trace.
LEMMA TraceSteps ==
    ASSUME NEW p, NEW c, NEW n \in Nat, NEW f, Trace(p, c, n, f)
    PROVE  /\ f[0] = LoadStart
           /\ \A i \in 1..n : f[i] = Read(p, f[i - 1], c[i])
<1>1. \A i \in 0..n : f[i] = IF i = 0 THEN LoadStart ELSE Read(p, f[i - 1], c[i])
  BY Zenon DEF Trace
<1> QED  BY <1>1

\* The first n pieces are the same.
Alike(c, d, n) == \A i \in 1..n : c[i] = d[i]

\* Traces of contents that begin alike begin alike.
LEMMA TracesAgree ==
    ASSUME NEW p, NEW c, NEW d, NEW n \in Nat, NEW m \in Nat, n <= m,
           Alike(c, d, n),
           NEW f, NEW g, Trace(p, c, n, f), Trace(p, d, m, g)
    PROVE  \A i \in 0..n : f[i] = g[i]
<1> DEFINE S == {i \in 0..n : f[i] = g[i]}
<1>1. f[0] = LoadStart /\ g[0] = LoadStart
  BY TraceSteps
<1>2. \A i \in 1..n : f[i] = Read(p, f[i - 1], c[i])
  BY TraceSteps
<1>3. \A i \in 1..m : g[i] = Read(p, g[i - 1], d[i])
  BY TraceSteps
<1>4. 0 \in S
  BY <1>1
<1>5. \A i \in 0..(n - 1) : i \in S => i + 1 \in S
  <2> TAKE i \in 0..(n - 1)
  <2> HAVE i \in S
  <2>1. i + 1 \in 1..n /\ i + 1 \in 1..m /\ (i + 1) - 1 = i
    OBVIOUS
  <2>2. f[i + 1] = Read(p, f[i], c[i + 1])
    BY <1>2, <2>1
  <2>3. g[i + 1] = Read(p, g[i], d[i + 1])
    BY <1>3, <2>1
  <2>4. f[i + 1] = g[i + 1]
    BY <2>1, <2>2, <2>3 DEF Alike
  <2> QED  BY <2>1, <2>4
<1> HIDE DEF S
<1>6. \A i \in 0..n : i \in S
  BY <1>4, <1>5, Climb
<1> QED  BY <1>6 DEF S

\* LoadAs is the last state of the trace.
LEMMA LoadIsTrace ==
    ASSUME NEW p, NEW c, Len(c) \in Nat, NEW f, Trace(p, c, Len(c), f)
    PROVE  LoadAs(p, c) = f[Len(c)]
<1> DEFINE g == CHOOSE h : Trace(p, c, Len(c), h)
<1>1. Trace(p, c, Len(c), g)
  OBVIOUS
<1>2. LoadAs(p, c) = g[Len(c)]
  BY DEF LoadAs, Trace
<1> HIDE DEF g
<1>3. Alike(c, c, Len(c)) /\ Len(c) <= Len(c)
  BY DEF Alike
<1>4. \A i \in 0..Len(c) : f[i] = g[i]
  BY <1>1, <1>3, TracesAgree
<1> QED  BY <1>2, <1>4

\* Nothing is read from an empty file.
LEMMA LoadEmpty ==
    ASSUME NEW p
    PROVE  LoadAs(p, <<>>) = LoadStart
<1>1. PICK f : Trace(p, <<>>, 0, f)
  BY TraceExists
<1>2. LoadAs(p, <<>>) = f[0]
  BY <1>1, LoadIsTrace
<1> QED  BY <1>1, <1>2, TraceSteps

\* A file is loaded piece by piece.
LEMMA LoadAppend ==
    ASSUME NEW p, NEW S, NEW c \in Seq(S), NEW x \in S
    PROVE  LoadAs(p, Append(c, x)) = Read(p, LoadAs(p, c), x)
<1> DEFINE d == Append(c, x)
           n == Len(c)
           m == n + 1
<1>1. Len(d) = m /\ n \in Nat /\ d[m] = x
  OBVIOUS
<1>c. Alike(c, d, n)
  BY DEF Alike
<1>a. m \in Nat /\ n <= m /\ n \in 0..n /\ m \in 1..m /\ m - 1 = n
  OBVIOUS
<1> HIDE DEF d, n, m
<1>2. PICK f : Trace(p, c, n, f)
  BY <1>1, TraceExists
<1>3. PICK g : Trace(p, d, m, g)
  BY <1>a, TraceExists
<1>4. LoadAs(p, c) = f[n]
  BY <1>1, <1>2, LoadIsTrace DEF n
<1>5. LoadAs(p, d) = g[m]
  BY <1>1, <1>3, <1>a, LoadIsTrace
<1>b. \A i \in 0..n : f[i] = g[i]
  BY <1>1, <1>2, <1>3, <1>a, <1>c, TracesAgree
<1>6. f[n] = g[n]
  BY <1>a, <1>b
<1>7. \A i \in 1..m : g[i] = Read(p, g[i - 1], d[i])
  BY <1>a, <1>3, TraceSteps
<1>8. g[m] = Read(p, g[n], d[m])
  BY <1>a, <1>7
<1> QED  BY <1>1, <1>4, <1>5, <1>6, <1>8 DEF d

-----------------------------------------------------------------------------
(* What one piece does. *)

\* A command in progress is not None.
LEMMA HalfIsSome ==
    ASSUME NEW h \in Halves
    PROVE  h # None
<1>1. DOMAIN h = {"op", "arg", "part"}
  BY DEF Halves
<1>2. DOMAIN None = {"none"}
  BY DEF None
<1>3. "op" \notin {"none"}
  OBVIOUS
<1> QED  BY <1>1, <1>2, <1>3

\* The start of a load.
LEMMA StartType == LoadStart \in LoadStates
<1>1. <<>> \in Data
  BY DEF Data
<1> QED  BY <1>1 DEF LoadStart, LoadStates

\* The state after a snapshot, after half a command and after a command.
AfterSnapshot(p, st, x) ==
    [st EXCEPT !.data = x.arg, !.pos = st.pos + 1, !.valid = IF p THEN st.valid ELSE st.pos + 1]
AfterFirst(st, x) == [st EXCEPT !.half = x, !.pos = st.pos + 1]
AfterCommand(st, x) ==
    [st EXCEPT !.half  = None, !.pos = st.pos + 1, !.valid = st.pos + 1,
               !.db    = IF x.op = "select" THEN x.arg ELSE st.db,
               !.data  = IF x.op = "set" THEN Append(st.data, <<st.db, x.arg>>) ELSE st.data,
               !.multi = x.op = "multi" \/ (st.multi /\ x.op # "exec")]

\* Nothing is read after a format error.
LEMMA ReadBad ==
    ASSUME NEW p, NEW st, NEW x, st.bad
    PROVE  Read(p, st, x) = st
BY DEF Read

\* The snapshot, read at the start of a command.
LEMMA ReadSnapshot ==
    ASSUME NEW p, NEW st \in LoadStates, NEW x \in SnapPieces, ~st.bad, st.half = None
    PROVE  Read(p, st, x) = AfterSnapshot(p, st, x)
<1>1. x.op = "snapshot"
  BY DEF SnapPieces
<1>2. x.part = 0
  BY DEF SnapPieces
<1> QED  BY <1>1, <1>2 DEF Read, AfterSnapshot

\* The first piece of a command.
LEMMA ReadFirst ==
    ASSUME NEW p, NEW st \in LoadStates, NEW x \in CmdPieces, x.part = 1, ~st.bad, st.half = None
    PROVE  Read(p, st, x) = AfterFirst(st, x)
<1>1. x.op # "snapshot" /\ x.part # 2
  BY DEF CmdPieces, Ops
<1> QED  BY <1>1 DEF Read, AfterFirst

\* The second piece of a command.
LEMMA ReadSecond ==
    ASSUME NEW p, NEW st \in LoadStates, NEW x \in CmdPieces, x.part = 2, ~st.bad,
           st.half = [op |-> x.op, arg |-> x.arg, part |-> 1]
    PROVE  Read(p, st, x) = AfterCommand(st, x)
<1>1. x.op # "snapshot" /\ x.part # 1
  BY DEF CmdPieces, Ops
<1>2. st.half \in Halves
  BY DEF Halves, CmdPieces
<1>3. st.half # None
  BY <1>2, HalfIsSome
<1> QED  BY <1>1, <1>3 DEF Read, AfterCommand

\* Anything else is a format error.
LEMMA ReadOther ==
    ASSUME NEW p, NEW st \in LoadStates, NEW x \in Pieces, ~st.bad,
           ~(x \in SnapPieces /\ st.half = None),
           ~(x.part = 1 /\ st.half = None),
           ~(x.part = 2 /\ st.half = [op |-> x.op, arg |-> x.arg, part |-> 1])
    PROVE  Read(p, st, x) = [st EXCEPT !.bad = TRUE]
<1>1. x.op = "snapshot" => x \in SnapPieces
  BY DEF Pieces, CmdPieces, Ops
<1> QED  BY <1>1 DEF Read

\* The cases of a piece that is read without an error.
ReadCases(p, st, x) ==
    \/ x \in SnapPieces /\ st.half = None
    \/ x \in CmdPieces /\ x.part = 1 /\ st.half = None
    \/ /\ x \in CmdPieces /\ x.part = 2
       /\ st.half = [op |-> x.op, arg |-> x.arg, part |-> 1]

\* A piece that leaves no error is one of the three.
LEMMA ReadGood ==
    ASSUME NEW p, NEW st \in LoadStates, NEW x \in Pieces, ~Read(p, st, x).bad
    PROVE  ~st.bad /\ ReadCases(p, st, x)
<1>1. ~st.bad
  BY ReadBad
<1>2. ASSUME ~ReadCases(p, st, x)  PROVE FALSE
  <2>1. x.part \in {1, 2} => x \in CmdPieces
    BY DEF Pieces, SnapPieces
  <2>2. Read(p, st, x) = [st EXCEPT !.bad = TRUE]
    BY <1>1, <1>2, <2>1, ReadOther DEF ReadCases
  <2>3. Read(p, st, x).bad
    BY <2>2 DEF LoadStates
  <2> QED  BY <2>3
<1> QED  BY <1>1, <1>2

\* The types of a load are kept.
LEMMA ReadType ==
    ASSUME NEW p \in BOOLEAN, NEW st \in LoadStates, NEW x \in Pieces
    PROVE  Read(p, st, x) \in LoadStates
<1>1. CASE st.bad
  BY <1>1, ReadBad
<1>2. CASE ~st.bad /\ x \in SnapPieces /\ st.half = None
  <2> DEFINE v == IF p THEN st.valid ELSE st.pos + 1
             q == st.pos + 1
             d == x.arg
  <2>1. d \in Data
    BY <1>2 DEF SnapPieces
  <2>2. q \in Nat /\ v \in Nat
    BY DEF LoadStates
  <2>a. Read(p, st, x) = AfterSnapshot(p, st, x)
    BY <1>2, ReadSnapshot
  <2>3. AfterSnapshot(p, st, x) = [st EXCEPT !.data = d, !.pos = q, !.valid = v]
    BY DEF AfterSnapshot
  <2> HIDE DEF v, q, d
  <2>4. [st EXCEPT !.data = d, !.pos = q, !.valid = v] \in LoadStates
    BY <2>1, <2>2 DEF LoadStates
  <2> QED  BY <2>a, <2>3, <2>4
<1>3. CASE ~st.bad /\ x \in CmdPieces /\ x.part = 1 /\ st.half = None
  <2> DEFINE q == st.pos + 1
  <2>1. x \in Halves
    BY <1>3 DEF CmdPieces, Halves
  <2>2. q \in Nat
    BY DEF LoadStates
  <2>a. Read(p, st, x) = AfterFirst(st, x)
    BY <1>3, ReadFirst
  <2>3. AfterFirst(st, x) = [st EXCEPT !.half = x, !.pos = q]
    BY DEF AfterFirst
  <2> HIDE DEF q
  <2>4. [st EXCEPT !.half = x, !.pos = q] \in LoadStates
    BY <2>1, <2>2 DEF LoadStates
  <2> QED  BY <2>a, <2>3, <2>4
<1>4. CASE /\ ~st.bad /\ x \in CmdPieces /\ x.part = 2
           /\ st.half = [op |-> x.op, arg |-> x.arg, part |-> 1]
  <2> DEFINE q == st.pos + 1
             db == IF x.op = "select" THEN x.arg ELSE st.db
             dt == IF x.op = "set" THEN Append(st.data, <<st.db, x.arg>>) ELSE st.data
             mu == x.op = "multi" \/ (st.multi /\ x.op # "exec")
  <2>1. x.arg \in Nat
    BY <1>4 DEF CmdPieces
  <2>2. st.db \in Nat /\ st.data \in Data /\ q \in Nat
    BY DEF LoadStates
  <2>3. <<st.db, x.arg>> \in Entries
    BY <2>1, <2>2 DEF Entries
  <2>4. dt \in Data
    BY <2>2, <2>3 DEF Data
  <2>5. mu \in BOOLEAN
    BY DEF LoadStates
  <2>a. Read(p, st, x) = AfterCommand(st, x)
    BY <1>4, ReadSecond
  <2>6. AfterCommand(st, x) = [st EXCEPT !.half = None, !.pos = q, !.valid = q,
                                         !.db = db, !.data = dt, !.multi = mu]
    BY DEF AfterCommand
  <2>7. db \in Nat
    BY <2>1, <2>2
  <2> HIDE DEF db, dt, mu, q
  <2>8. [st EXCEPT !.half = None, !.pos = q, !.valid = q,
                   !.db = db, !.data = dt, !.multi = mu] \in LoadStates
    BY <2>2, <2>4, <2>5, <2>7 DEF LoadStates
  <2> QED  BY <2>a, <2>6, <2>8
<1>5. CASE ~st.bad /\ ~ReadCases(p, st, x)
  <2>1. x.part \in {1, 2} => x \in CmdPieces
    BY DEF Pieces, SnapPieces
  <2>2. Read(p, st, x) = [st EXCEPT !.bad = TRUE]
    BY <1>5, <2>1, ReadOther DEF ReadCases
  <2> QED  BY <2>2 DEF LoadStates
<1> QED  BY <1>1, <1>2, <1>3, <1>4, <1>5 DEF ReadCases

-----------------------------------------------------------------------------
(* Prefixes of sequences. *)

\* IsPrefix element by element.
LEMMA PrefixIs ==
    ASSUME NEW S, NEW s \in Seq(S), NEW t \in Seq(S)
    PROVE  IsPrefix(s, t) <=> Len(s) <= Len(t) /\ \A i \in 1..Len(s) : s[i] = t[i]
<1>1. CASE Len(s) <= Len(t)
  <2>1. SubSeq(s, 1, Len(s)) = s
    OBVIOUS
  <2>2. /\ SubSeq(t, 1, Len(s)) \in Seq(S) /\ Len(SubSeq(t, 1, Len(s))) = Len(s)
        /\ \A i \in 1..Len(s) : SubSeq(t, 1, Len(s))[i] = t[i]
    BY <1>1
  <2> DEFINE u == SubSeq(t, 1, Len(s))
  <2> HIDE DEF u
  <2>3. u \in Seq(S) /\ Len(u) = Len(s) /\ \A i \in 1..Len(s) : u[i] = t[i]
    BY <2>2 DEF u
  <2>4. s = u <=> \A i \in 1..Len(s) : s[i] = u[i]
    BY <2>3, SeqEqual
  <2>5. s = u <=> \A i \in 1..Len(s) : s[i] = t[i]
    BY <2>3, <2>4
  <2> QED  BY <1>1, <2>1, <2>5 DEF IsPrefix, u
<1>2. CASE ~(Len(s) <= Len(t))
  BY <1>2 DEF IsPrefix
<1> QED  BY <1>1, <1>2

\* Every sequence is a prefix of itself.
LEMMA PrefixRefl ==
    ASSUME NEW S, NEW s \in Seq(S)
    PROVE  IsPrefix(s, s)
BY DEF IsPrefix

\* The empty sequence is a prefix of every sequence.
LEMMA PrefixEmpty ==
    ASSUME NEW S, NEW s \in Seq(S)
    PROVE  IsPrefix(<<>>, s)
<1>1. Len(<<>>) = 0 /\ Len(s) \in Nat
  OBVIOUS
<1>2. SubSeq(<<>>, 1, 0) = <<>> /\ SubSeq(s, 1, 0) = <<>>
  BY SubSeqEmpty
<1> QED  BY <1>1, <1>2 DEF IsPrefix

\* Prefixes of prefixes.
LEMMA PrefixTrans ==
    ASSUME NEW S, NEW s \in Seq(S), NEW t \in Seq(S), NEW u \in Seq(S),
           IsPrefix(s, t), IsPrefix(t, u)
    PROVE  IsPrefix(s, u)
<1>1. Len(s) <= Len(t) /\ \A i \in 1..Len(s) : s[i] = t[i]
  BY PrefixIs
<1>2. Len(t) <= Len(u) /\ \A i \in 1..Len(t) : t[i] = u[i]
  BY PrefixIs
<1>3. Len(s) \in Nat /\ Len(t) \in Nat /\ Len(u) \in Nat
  OBVIOUS
<1>4. Len(s) <= Len(u) /\ \A i \in 1..Len(s) : s[i] = u[i]
  BY <1>1, <1>2, <1>3
<1> QED  BY <1>4, PrefixIs

\* A sequence is a prefix of what is made by adding to its end.
LEMMA PrefixConcat ==
    ASSUME NEW S, NEW s \in Seq(S), NEW t \in Seq(S)
    PROVE  IsPrefix(s, s \o t)
<1>1. s \o t \in Seq(S) /\ Len(s) <= Len(s \o t) /\ \A i \in 1..Len(s) : s[i] = (s \o t)[i]
  OBVIOUS
<1> QED  BY <1>1, PrefixIs

\* An entry added after a prefix.
LEMMA PrefixAppend ==
    ASSUME NEW S, NEW s \in Seq(S), NEW x \in S
    PROVE  IsPrefix(s, Append(s, x))
<1>1. /\ Append(s, x) \in Seq(S) /\ Len(s) <= Len(Append(s, x))
      /\ \A i \in 1..Len(s) : s[i] = Append(s, x)[i]
  OBVIOUS
<1> QED  BY <1>1, PrefixIs

-----------------------------------------------------------------------------
(* What is loaded from a file and from its prefixes. *)

\* The next piece of a file.
LEMMA NextPiece ==
    ASSUME NEW p, NEW c \in Contents, NEW n \in 0..(Len(c) - 1)
    PROVE  /\ SubSeq(c, 1, n) \in Contents
           /\ c[n + 1] \in Pieces
           /\ SubSeq(c, 1, n + 1) = Append(SubSeq(c, 1, n), c[n + 1])
           /\ LoadAs(p, SubSeq(c, 1, n + 1)) = Read(p, LoadAs(p, SubSeq(c, 1, n)), c[n + 1])
<1>1. c \in Seq(Pieces) /\ n \in Nat /\ n + 1 \in 1..Len(c)
  BY DEF Contents
<1>2. SubSeq(c, 1, n) \in Seq(Pieces) /\ c[n + 1] \in Pieces
  BY <1>1
<1>3. SubSeq(c, 1, n + 1) = Append(SubSeq(c, 1, n), c[n + 1])
  BY <1>1
<1>4. LoadAs(p, Append(SubSeq(c, 1, n), c[n + 1])) = Read(p, LoadAs(p, SubSeq(c, 1, n)), c[n + 1])
  BY <1>2, LoadAppend
<1> QED  BY <1>2, <1>3, <1>4 DEF Contents

\* The whole of a file and none of it, as prefixes.
LEMMA WholeFile ==
    ASSUME NEW c \in Contents
    PROVE  SubSeq(c, 1, Len(c)) = c /\ SubSeq(c, 1, 0) = <<>> /\ Len(c) \in Nat
<1>1. c \in Seq(Pieces)
  BY DEF Contents
<1> QED  BY <1>1

\* The state of a load has its type.
LEMMA LoadType ==
    ASSUME NEW p \in BOOLEAN, NEW c \in Contents
    PROVE  LoadAs(p, c) \in LoadStates
<1> DEFINE S == {n \in Nat : LoadAs(p, SubSeq(c, 1, n)) \in LoadStates}
           len == Len(c)
<1>1. 0 \in S
  BY WholeFile, LoadEmpty, StartType
<1>2. \A n \in 0..(len - 1) : n \in S => n + 1 \in S
  <2> TAKE n \in 0..(len - 1)
  <2> HAVE n \in S
  <2>1. c[n + 1] \in Pieces /\ LoadAs(p, SubSeq(c, 1, n + 1)) = Read(p, LoadAs(p, SubSeq(c, 1, n)), c[n + 1])
    BY NextPiece
  <2>2. LoadAs(p, SubSeq(c, 1, n + 1)) \in LoadStates
    BY <2>1, ReadType
  <2> QED  BY <2>2
<1>3. len \in Nat
  BY WholeFile
<1> HIDE DEF S, len
<1>4. \A n \in 0..len : n \in S
  BY <1>1, <1>2, <1>3, Climb
<1>5. len \in S
  BY <1>3, <1>4
<1> QED  BY <1>5, WholeFile DEF S, len

\* The position of a load, and valid_up_to when there is no preamble.
Counted(p, st, n) ==
    ~st.bad => /\ st.pos = n
               /\ ~p /\ st.half = None => st.valid = n
               /\ ~p /\ st.half # None => n > 0 /\ st.valid = n - 1

\* Reading a piece keeps the counts right.
LEMMA ReadCounted ==
    ASSUME NEW p \in BOOLEAN, NEW st \in LoadStates, NEW x \in Pieces, NEW n \in Nat, Counted(p, st, n)
    PROVE  Counted(p, Read(p, st, x), n + 1)
<1> DEFINE r == Read(p, st, x)
<1> SUFFICES ASSUME ~r.bad
             PROVE  /\ r.pos = n + 1
                    /\ ~p /\ r.half = None => r.valid = n + 1
                    /\ ~p /\ r.half # None => n + 1 > 0 /\ r.valid = n + 1 - 1
  BY DEF Counted
<1>1. ~st.bad /\ ReadCases(p, st, x)
  BY ReadGood
<1>2. /\ st.pos = n /\ (~p /\ st.half = None => st.valid = n)
  BY <1>1 DEF Counted
<1>3. CASE x \in SnapPieces /\ st.half = None
  <2>1. r = AfterSnapshot(p, st, x)
    BY <1>1, <1>3, ReadSnapshot
  <2>2. r.pos = n + 1 /\ (~p => r.valid = n + 1) /\ r.half = None
    BY <1>2, <1>3, <2>1 DEF AfterSnapshot, LoadStates
  <2> QED  BY <2>2
<1>4. CASE x \in CmdPieces /\ x.part = 1 /\ st.half = None
  <2>1. r = AfterFirst(st, x)
    BY <1>1, <1>4, ReadFirst
  <2>2. x \in Halves
    BY <1>4 DEF CmdPieces, Halves
  <2>3. r.pos = n + 1 /\ r.half = x /\ r.valid = st.valid
    BY <1>2, <2>1 DEF LoadStates, AfterFirst
  <2>4. r.half # None
    BY <2>2, <2>3, HalfIsSome
  <2> QED  BY <1>2, <1>4, <2>3, <2>4
<1>5. CASE /\ x \in CmdPieces /\ x.part = 2
           /\ st.half = [op |-> x.op, arg |-> x.arg, part |-> 1]
  <2>1. r = AfterCommand(st, x)
    BY <1>1, <1>5, ReadSecond
  <2>2. r.pos = n + 1 /\ r.half = None /\ r.valid = n + 1
    BY <1>2, <2>1 DEF LoadStates, AfterCommand
  <2> QED  BY <2>2
<1> QED  BY <1>1, <1>3, <1>4, <1>5 DEF ReadCases

\* valid_up_to is the end of the last whole command.
LEMMA LoadCounted ==
    ASSUME NEW p \in BOOLEAN, NEW c \in Contents
    PROVE  Counted(p, LoadAs(p, c), Len(c))
<1> DEFINE S == {n \in Nat : Counted(p, LoadAs(p, SubSeq(c, 1, n)), n)}
           len == Len(c)
<1>1. 0 \in S
  <2>1. Counted(p, LoadStart, 0)
    BY DEF Counted, LoadStart
  <2> QED  BY <2>1, WholeFile, LoadEmpty
<1>2. \A n \in 0..(len - 1) : n \in S => n + 1 \in S
  <2> TAKE n \in 0..(len - 1)
  <2> HAVE n \in S
  <2>1. /\ SubSeq(c, 1, n) \in Contents /\ c[n + 1] \in Pieces
        /\ LoadAs(p, SubSeq(c, 1, n + 1)) = Read(p, LoadAs(p, SubSeq(c, 1, n)), c[n + 1])
    BY NextPiece
  <2>2. LoadAs(p, SubSeq(c, 1, n)) \in LoadStates
    BY <2>1, LoadType
  <2>3. Counted(p, LoadAs(p, SubSeq(c, 1, n + 1)), n + 1)
    BY <2>1, <2>2, ReadCounted
  <2> QED  BY <2>3
<1>3. len \in Nat
  BY WholeFile
<1> HIDE DEF S, len
<1>4. \A n \in 0..len : n \in S
  BY <1>1, <1>2, <1>3, Climb
<1>5. len \in S
  BY <1>3, <1>4
<1> QED  BY <1>5, WholeFile DEF S, len

\* A snapshot is only found at the beginning of a file.
SnapshotFirst(c) == \A i \in 2..Len(c) : c[i] \notin SnapPieces

\* What was read before is a prefix of what is read with one more piece.
LEMMA ReadExtends ==
    ASSUME NEW p \in BOOLEAN, NEW st \in LoadStates, NEW x \in Pieces, ~Read(p, st, x).bad,
           x \in SnapPieces => st.data = <<>>
    PROVE  ~st.bad /\ IsPrefix(st.data, Read(p, st, x).data)
<1> DEFINE r == Read(p, st, x)
<1>1. ~st.bad /\ ReadCases(p, st, x)
  BY ReadGood
<1>2. r \in LoadStates
  BY ReadType
<1>3. st.data \in Seq(Entries) /\ r.data \in Seq(Entries)
  BY <1>2 DEF LoadStates, Data
<1>4. CASE x \in SnapPieces /\ st.half = None
  <2>1. IsPrefix(<<>>, r.data)
    BY <1>3, PrefixEmpty
  <2> QED  BY <1>1, <1>4, <2>1
<1>5. CASE x \in CmdPieces /\ x.part = 1 /\ st.half = None
  <2>1. r = AfterFirst(st, x)
    BY <1>1, <1>5, ReadFirst
  <2>2. r.data = st.data
    BY <2>1 DEF LoadStates, AfterFirst
  <2> QED  BY <1>1, <1>3, <2>2, PrefixRefl
<1>6. CASE /\ x \in CmdPieces /\ x.part = 2
           /\ st.half = [op |-> x.op, arg |-> x.arg, part |-> 1]
  <2>1. r = AfterCommand(st, x)
    BY <1>1, <1>6, ReadSecond
  <2>2. r.data = IF x.op = "set" THEN Append(st.data, <<st.db, x.arg>>) ELSE st.data
    BY <2>1 DEF LoadStates, AfterCommand
  <2>3. <<st.db, x.arg>> \in Entries
    BY <1>6 DEF LoadStates, CmdPieces, Entries
  <2>4. IsPrefix(st.data, st.data)
    BY <1>3, PrefixRefl
  <2>5. IsPrefix(st.data, Append(st.data, <<st.db, x.arg>>))
    BY <1>3, <2>3, PrefixAppend
  <2> QED  BY <1>1, <2>2, <2>4, <2>5
<1> QED  BY <1>1, <1>4, <1>5, <1>6 DEF ReadCases

\* A prefix of a file that loads is loaded, to a prefix of the data.
LEMMA PrefixLoads ==
    ASSUME NEW p \in BOOLEAN, NEW c \in Contents, SnapshotFirst(c), ~LoadAs(p, c).bad, NEW n \in 0..Len(c)
    PROVE  /\ ~LoadAs(p, SubSeq(c, 1, n)).bad
           /\ IsPrefix(LoadAs(p, SubSeq(c, 1, n)).data, LoadAs(p, c).data)
<1> DEFINE L(k) == LoadAs(p, SubSeq(c, 1, k))
           ok(k) == ~L(n + k).bad => ~L(n).bad /\ IsPrefix(L(n).data, L(n + k).data)
           S == {k \in Nat : ok(k)}
           b == Len(c) - n
<1>1. n \in Nat /\ b \in Nat /\ Len(c) \in Nat /\ n + b = Len(c)
  BY WholeFile
<1>2. \A k \in 0..Len(c) : L(k) \in LoadStates
  <2> TAKE k \in 0..Len(c)
  <2>1. c \in Seq(Pieces) /\ k \in Nat /\ \A i \in 1..k : i \in 1..Len(c)
    BY <1>1 DEF Contents
  <2>2. SubSeq(c, 1, k) \in Seq(Pieces)
    BY <2>1
  <2>3. SubSeq(c, 1, k) \in Contents
    BY <2>2 DEF Contents
  <2> QED  BY <2>3, LoadType
<1>3. 0 \in S
  <2>1. L(n).data \in Seq(Entries)
    BY <1>2 DEF LoadStates, Data
  <2>2. IsPrefix(L(n).data, L(n).data)
    BY <2>1, PrefixRefl
  <2>3. n + 0 = n
    BY <1>1
  <2> QED  BY <2>2, <2>3
<1>4. \A k \in 0..(b - 1) : k \in S => k + 1 \in S
  <2> TAKE k \in 0..(b - 1)
  <2> HAVE k \in S
  <2> DEFINE m == n + k
             x == c[m + 1]
  <2>1. m \in 0..(Len(c) - 1) /\ m \in 0..Len(c) /\ m + 1 \in 0..Len(c) /\ n + (k + 1) = m + 1
    BY <1>1
  <2>2. x \in Pieces /\ L(m + 1) = Read(p, L(m), x)
    BY <2>1, NextPiece
  <2>3. L(m) \in LoadStates /\ L(m + 1) \in LoadStates /\ L(n) \in LoadStates
    BY <1>2, <2>1
  <2>4. x \in SnapPieces => L(m).data = <<>>
    <3>1. CASE m = 0
      <4>1. L(m) = LoadStart
        BY <3>1, WholeFile, LoadEmpty
      <4> QED  BY <4>1 DEF LoadStart
    <3>2. CASE m # 0
      <4>1. m + 1 \in 2..Len(c)
        BY <2>1, <3>2
      <4> QED  BY <4>1 DEF SnapshotFirst
    <3> QED  BY <3>1, <3>2
  <2> DEFINE ln == L(n)
             lm == L(m)
             lz == L(m + 1)
  <2>5. ASSUME ~L(m + 1).bad PROVE ~L(n).bad /\ IsPrefix(L(n).data, L(m + 1).data)
    <3>1. ~L(m).bad /\ IsPrefix(L(m).data, L(m + 1).data)
      <4> HIDE DEF L, x
      <4> QED  BY <2>2, <2>3, <2>4, <2>5, ReadExtends
    <3>2. ~L(n).bad /\ IsPrefix(L(n).data, L(m).data)
      BY <3>1
    <3>3. /\ L(n).data \in Seq(Entries) /\ L(m).data \in Seq(Entries)
          /\ L(m + 1).data \in Seq(Entries)
      BY <2>3 DEF LoadStates, Data
    <3> HIDE DEF L
    <3>4. IsPrefix(L(n).data, L(m + 1).data)
      BY <3>1, <3>2, <3>3, PrefixTrans
    <3> QED  BY <3>2, <3>4
  <2>6. ok(k + 1)
    BY <2>1, <2>5
  <2> QED  BY <2>6
<1> HIDE DEF S, b
<1>5. \A k \in 0..b : k \in S
  BY <1>1, <1>3, <1>4, Climb
<1>6. b \in S
  BY <1>1, <1>5
<1>7. ok(b)
  BY <1>6 DEF S
<1>8. L(n + b) = LoadAs(p, c)
  BY <1>1, WholeFile
<1> QED  BY <1>7, <1>8

\* What loadAppendOnlyFile() leaves of a file.
Kept(p, c) ==
    LET st == LoadAs(p, c)
    IN  IF st.half # None \/ st.multi THEN SubSeq(c, 1, st.valid) ELSE c

\* Nothing that was loaded is cut off, and the file ends with a whole command.
KeptWell(p, c, k) ==
    /\ k \in Contents /\ Len(k) \in {Len(c), Len(c) - 1} /\ k = SubSeq(c, 1, Len(k))
    /\ ~LoadAs(p, k).bad
    /\ LoadAs(p, k).half = None
    /\ LoadAs(p, k).data = LoadAs(p, c).data

\* Files that are cut where they should be.
LEMMA KeptIsWell ==
    ASSUME NEW p \in BOOLEAN, NEW c \in Contents, ~LoadAs(p, c).bad,
           p => LoadAs(p, c).half = None /\ ~LoadAs(p, c).multi
    PROVE  KeptWell(p, c, Kept(p, c))
<1> DEFINE st == LoadAs(p, c)
<1>1. st \in LoadStates /\ Counted(p, st, Len(c))
  BY LoadType, LoadCounted
<1>2. SubSeq(c, 1, Len(c)) = c /\ Len(c) \in Nat
  BY WholeFile
<1>3. CASE st.half = None
  <2>1. Kept(p, c) = c
    BY <1>1, <1>2, <1>3 DEF Kept, Counted
  <2> QED  BY <1>2, <1>3, <2>1 DEF KeptWell
<1>4. CASE st.half # None
  <2> DEFINE n == Len(c) - 1
             k == SubSeq(c, 1, n)
             sk == LoadAs(p, k)
             x == c[n + 1]
  <2>1. ~p /\ Len(c) > 0 /\ st.valid = n
    BY <1>1, <1>4 DEF Counted
  <2>2. Kept(p, c) = k
    BY <1>4, <2>1 DEF Kept
  <2>3. n \in 0..(Len(c) - 1) /\ n + 1 = Len(c)
    BY <1>2, <2>1
  <2>a. SubSeq(c, 1, n + 1) = c
    BY <1>2, <2>3
  <2>b. k \in Contents /\ x \in Pieces /\ LoadAs(p, SubSeq(c, 1, n + 1)) = Read(p, sk, x)
    <3> HIDE DEF n
    <3> QED  BY <2>3, NextPiece
  <2>4. k \in Contents /\ x \in Pieces /\ st = Read(p, sk, x)
    BY <2>a, <2>b
  <2>5. Len(k) = n /\ k = SubSeq(c, 1, Len(k))
    BY <2>3 DEF Contents
  <2>6. sk \in LoadStates
    BY <2>4, LoadType
  <2> HIDE DEF st, sk, k, x
  <2>7. ~sk.bad /\ ReadCases(p, sk, x)
    BY <2>4, <2>6, ReadGood DEF st
  <2>8. x \in CmdPieces /\ x.part = 1 /\ sk.half = None
    <3>1. ASSUME x \in SnapPieces, sk.half = None PROVE FALSE
      <4>1. st = AfterSnapshot(p, sk, x)
        BY <2>4, <2>6, <2>7, <3>1, ReadSnapshot
      <4>2. st.half = None
        BY <2>6, <3>1, <4>1 DEF AfterSnapshot, LoadStates
      <4> QED  BY <1>4, <4>2
    <3>2. ASSUME x \in CmdPieces, x.part = 2,
                 sk.half = [op |-> x.op, arg |-> x.arg, part |-> 1]
          PROVE FALSE
      <4>1. st = AfterCommand(sk, x)
        BY <2>4, <2>6, <2>7, <3>2, ReadSecond
      <4>2. st.half = None
        BY <2>6, <4>1 DEF AfterCommand, LoadStates
      <4> QED  BY <1>4, <4>2
    <3> QED  BY <2>7, <3>1, <3>2 DEF ReadCases
  <2>9. st = AfterFirst(sk, x)
    BY <2>4, <2>6, <2>7, <2>8, ReadFirst
  <2>10. st.data = sk.data
    BY <2>6, <2>9 DEF LoadStates, AfterFirst
  <2> QED  BY <2>2, <2>4, <2>5, <2>7, <2>8, <2>10 DEF KeptWell, st, sk
<1> QED  BY <1>3, <1>4

-----------------------------------------------------------------------------
(* Feeding: what is loaded when whole commands are added. *)

\* Concatenation, by a name of its own.
Cat(s, t) == s \o t

\* The pieces of a command.
LEMMA CmdType ==
    ASSUME NEW op \in Ops, NEW arg \in Nat
    PROVE  /\ Cmd(op, arg) \in Contents /\ Cmd(op, arg) \in Seq(CmdPieces)
           /\ Cmd(op, arg) = << [op |-> op, arg |-> arg, part |-> 1], [op |-> op, arg |-> arg, part |-> 2] >>
<1> DEFINE x == [op |-> op, arg |-> arg, part |-> 1]
           y == [op |-> op, arg |-> arg, part |-> 2]
<1>1. x \in CmdPieces /\ y \in CmdPieces
  BY DEF CmdPieces
<1>2. Cmd(op, arg) = <<x, y>>
  BY DEF Cmd
<1> HIDE DEF x, y
<1>3. <<x, y>> \in Seq(CmdPieces)
  BY <1>1
<1>4. <<x, y>> \in Seq(Pieces)
  BY <1>1 DEF Pieces
<1> QED  BY <1>2, <1>3, <1>4 DEF Contents, x, y

\* Concatenations of files and buffers.
LEMMA Assoc ==
    ASSUME NEW s \in Contents, NEW t \in Contents, NEW u \in Contents
    PROVE  Cat(Cat(s, t), u) = Cat(s, Cat(t, u)) /\ Cat(s, t) \in Contents
<1>1. s \in Seq(Pieces) /\ t \in Seq(Pieces) /\ u \in Seq(Pieces)
  BY DEF Contents
<1>2. (s \o t) \o u = s \o (t \o u)
  BY <1>1, ConcatAssociative
<1>3. s \o t \in Seq(Pieces)
  BY <1>1
<1> QED  BY <1>2, <1>3 DEF Contents, Cat

\* Commands added to a file.
LEMMA AddCommands ==
    ASSUME NEW c \in Contents, NEW e \in Seq(CmdPieces)
    PROVE  Cat(c, e) \in Contents /\ (SnapshotFirst(c) => SnapshotFirst(Cat(c, e)))
<1>1. c \in Seq(Pieces) /\ e \in Seq(Pieces)
  BY DEF Contents, Pieces
<1>2. c \o e \in Seq(Pieces) /\ Len(c \o e) = Len(c) + Len(e) /\ Len(c) \in Nat /\ Len(e) \in Nat
  BY <1>1
<1>3. \A i \in 1..Len(c \o e) : (c \o e)[i] = IF i <= Len(c) THEN c[i] ELSE e[i - Len(c)]
  BY <1>1, <1>2
<1>4. \A x \in CmdPieces : x \notin SnapPieces
  BY DEF CmdPieces, SnapPieces, Ops
<1>5. ASSUME SnapshotFirst(c), NEW i \in 2..Len(c \o e) PROVE (c \o e)[i] \notin SnapPieces
  <2>1. CASE i <= Len(c)
    <3>1. i \in 2..Len(c) /\ (c \o e)[i] = c[i]
      BY <1>2, <1>3, <2>1
    <3> QED  BY <1>5, <3>1 DEF SnapshotFirst
  <2>2. CASE ~(i <= Len(c))
    <3>1. i - Len(c) \in 1..Len(e) /\ (c \o e)[i] = e[i - Len(c)]
      BY <1>2, <1>3, <2>2
    <3>2. e[i - Len(c)] \in CmdPieces
      BY <3>1
    <3> QED  BY <1>4, <3>1, <3>2
  <2> QED  BY <2>1, <2>2
<1> QED  BY <1>2, <1>5 DEF Contents, SnapshotFirst, Cat

\* The state of a load after one more command.
Executed(st, r, op, arg) ==
    /\ ~r.bad /\ r.half = None
    /\ r.db = IF op = "select" THEN arg ELSE st.db
    /\ r.data = IF op = "set" THEN Append(st.data, <<st.db, arg>>) ELSE st.data
    /\ r.multi <=> (op = "multi" \/ (st.multi /\ op # "exec"))

\* A whole command is executed.
LEMMA LoadCmd ==
    ASSUME NEW p \in BOOLEAN, NEW c \in Contents, NEW op \in Ops, NEW arg \in Nat,
           ~LoadAs(p, c).bad, LoadAs(p, c).half = None
    PROVE  Executed(LoadAs(p, c), LoadAs(p, Cat(c, Cmd(op, arg))), op, arg)
<1> DEFINE x == [op |-> op, arg |-> arg, part |-> 1]
           y == [op |-> op, arg |-> arg, part |-> 2]
           st == LoadAs(p, c)
           sx == LoadAs(p, Append(c, x))
           sy == LoadAs(p, Append(Append(c, x), y))
<1>1. x \in CmdPieces /\ y \in CmdPieces /\ x \in Pieces /\ y \in Pieces
  BY DEF CmdPieces, Pieces
<1>2. Cmd(op, arg) = <<x, y>>
  BY DEF Cmd
<1>3. x.op = op /\ x.arg = arg /\ x.part = 1 /\ y.op = op /\ y.arg = arg /\ y.part = 2
  OBVIOUS
<1>4. x = [op |-> y.op, arg |-> y.arg, part |-> 1]
  OBVIOUS
<1>5. c \in Seq(Pieces)
  BY DEF Contents
<1> HIDE DEF x, y
<1>6. Append(c, x) \in Seq(Pieces) /\ Cat(c, Cmd(op, arg)) = Append(Append(c, x), y)
  BY <1>1, <1>2, <1>5 DEF Cat
<1>7. sx = Read(p, st, x) /\ sy = Read(p, sx, y)
  BY <1>1, <1>5, <1>6, LoadAppend
<1>8. st \in LoadStates
  BY LoadType
<1> HIDE DEF st, sx, sy
<1>9. ~st.bad /\ st.half = None
  BY DEF st
<1>10. sx = AfterFirst(st, x)
  BY <1>1, <1>3, <1>7, <1>8, <1>9, ReadFirst
<1>d. sx \in LoadStates
  BY <1>1, <1>7, <1>8, ReadType
<1>e. sx.half = x /\ ~sx.bad /\ sx.db = st.db /\ sx.data = st.data
  BY <1>8, <1>9, <1>10 DEF AfterFirst, LoadStates
<1>f. sx.multi = st.multi
  BY <1>8, <1>10 DEF AfterFirst, LoadStates
<1>11. sx \in LoadStates /\ sx.half = x /\ ~sx.bad /\ sx.db = st.db /\ sx.data = st.data
  BY <1>d, <1>e
<1>12. sy = AfterCommand(sx, y)
  BY <1>1, <1>3, <1>4, <1>7, <1>11, ReadSecond
<1>a. ~sy.bad /\ sy.half = None
  BY <1>11, <1>12 DEF AfterCommand, LoadStates
<1>b. sy.db = IF op = "select" THEN arg ELSE sx.db
  BY <1>3, <1>11, <1>12 DEF AfterCommand, LoadStates
<1>c. sy.data = IF op = "set" THEN Append(sx.data, <<sx.db, arg>>) ELSE sx.data
  BY <1>3, <1>11, <1>12 DEF AfterCommand, LoadStates
<1>14. sy.multi <=> (op = "multi" \/ (sx.multi /\ op # "exec"))
  BY <1>3, <1>11, <1>12 DEF AfterCommand, LoadStates
<1>15. sy = LoadAs(p, Cat(c, Cmd(op, arg)))
  BY <1>6 DEF sy
<1>16. Executed(st, sy, op, arg)
  BY <1>11, <1>a, <1>b, <1>c, <1>f, <1>14 DEF Executed
<1> QED  BY <1>15, <1>16 DEF st

\* A file, or a file and what is to follow it, that loads to d with the
\* database sel selected (-1: any), and ends with a whole command.
Stream(p, c, d, sel) ==
    /\ c \in Contents /\ SnapshotFirst(c)
    /\ ~LoadAs(p, c).bad /\ LoadAs(p, c).half = None
    /\ LoadAs(p, c).data = d
    /\ sel # -1 => LoadAs(p, c).db = sel

\* One command added to a stream.
LEMMA StreamCmd ==
    ASSUME NEW p \in BOOLEAN, NEW c, NEW d, NEW sel \in Nat, NEW op \in Ops, NEW arg \in Nat,
           Stream(p, c, d, sel)
    PROVE  /\ Stream(p, Cat(c, Cmd(op, arg)),
                     IF op = "set" THEN Append(d, <<sel, arg>>) ELSE d,
                     IF op = "select" THEN arg ELSE sel)
           /\ LoadAs(p, Cat(c, Cmd(op, arg))).multi
                <=> (op = "multi" \/ (LoadAs(p, c).multi /\ op # "exec"))
<1> DEFINE e == Cat(c, Cmd(op, arg))
<1>1. c \in Contents /\ SnapshotFirst(c) /\ ~LoadAs(p, c).bad /\ LoadAs(p, c).half = None
  BY DEF Stream
<1>2. LoadAs(p, c).data = d /\ LoadAs(p, c).db = sel
  BY DEF Stream
<1>3. Executed(LoadAs(p, c), LoadAs(p, e), op, arg)
  BY <1>1, LoadCmd
<1>4. e \in Contents /\ SnapshotFirst(e)
  BY <1>1, CmdType, AddCommands
<1> HIDE DEF e
<1> QED  BY <1>2, <1>3, <1>4 DEF Stream, Executed, e

\* SELECT added to a stream.
LEMMA StreamSelect ==
    ASSUME NEW p \in BOOLEAN, NEW c, NEW d, NEW sel, NEW db \in Nat, Stream(p, c, d, sel)
    PROVE  /\ Stream(p, Cat(c, Cmd("select", db)), d, db)
           /\ LoadAs(p, Cat(c, Cmd("select", db))).multi <=> LoadAs(p, c).multi
<1> DEFINE op == "select"
           e == Cat(c, Cmd(op, db))
<1>1. c \in Contents /\ SnapshotFirst(c) /\ ~LoadAs(p, c).bad /\ LoadAs(p, c).half = None
  BY DEF Stream
<1>2. LoadAs(p, c).data = d
  BY DEF Stream
<1>a. op \in Ops /\ op # "set" /\ op # "multi" /\ op # "exec"
  BY DEF Ops
<1>b. op = "select"
  OBVIOUS
<1> HIDE DEF op
<1>3. Executed(LoadAs(p, c), LoadAs(p, e), op, db)
  BY <1>1, <1>a, LoadCmd
<1>4. e \in Contents /\ SnapshotFirst(e)
  BY <1>1, <1>a, CmdType, AddCommands
<1> HIDE DEF e
<1>5. Stream(p, e, d, db) /\ (LoadAs(p, e).multi <=> LoadAs(p, c).multi)
  BY <1>2, <1>3, <1>4, <1>a, <1>b DEF Stream, Executed
<1> QED  BY <1>5 DEF e, op

\* WithSelect for a given selected database.
Chosen(sel, db, cmds) == IF db = sel THEN cmds ELSE Cat(Cmd("select", db), cmds)

\* The stream c with the database db selected.
Selects(p, c, e, d, db) == Stream(p, e, d, db) /\ (LoadAs(p, e).multi <=> LoadAs(p, c).multi)

\* A stream is fed through WithSelect.
LEMMA ChosenIs ==
    ASSUME NEW p \in BOOLEAN, NEW c, NEW d, NEW sel, NEW db \in Nat, Stream(p, c, d, sel),
           NEW cmds \in Seq(CmdPieces)
    PROVE  \E e : Selects(p, c, e, d, db) /\ Cat(c, Chosen(sel, db, cmds)) = Cat(e, cmds)
<1>1. CASE db = sel
  <2>1. Chosen(sel, db, cmds) = cmds
    BY <1>1 DEF Chosen
  <2>2. Selects(p, c, c, d, db)
    BY <1>1 DEF Selects
  <2> QED  BY <2>1, <2>2
<1>2. CASE db # sel
  <2> DEFINE s == Cmd("select", db)
             e == Cat(c, s)
  <2>1. Selects(p, c, e, d, db)
    BY StreamSelect DEF Selects
  <2>2. s \in Contents
    <3>1. "select" \in Ops
      BY DEF Ops
    <3> QED  BY <3>1, CmdType
  <2>3. c \in Contents /\ cmds \in Contents
    BY DEF Stream, Contents, Pieces
  <2>4. Chosen(sel, db, cmds) = Cat(s, cmds)
    BY <1>2 DEF Chosen
  <2> HIDE DEF s
  <2>5. Cat(c, Cat(s, cmds)) = Cat(Cat(c, s), cmds)
    BY <2>2, <2>3, Assoc
  <2> QED  BY <2>1, <2>4, <2>5
<1> QED  BY <1>1, <1>2

\* A write fed to a stream.
LEMMA FeedSet ==
    ASSUME NEW p \in BOOLEAN, NEW c, NEW d, NEW sel, NEW db \in Nat, NEW v \in Nat,
           Stream(p, c, d, sel)
    PROVE  /\ Stream(p, Cat(c, Chosen(sel, db, Cmd("set", v))), Append(d, <<db, v>>), db)
           /\ LoadAs(p, Cat(c, Chosen(sel, db, Cmd("set", v)))).multi <=> LoadAs(p, c).multi
<1> DEFINE op == "set"
           cmds == Cmd(op, v)
<1>1. op \in Ops /\ op # "select" /\ op # "multi" /\ op # "exec"
  BY DEF Ops
<1>2. cmds \in Seq(CmdPieces)
  BY <1>1, CmdType
<1>a. op = "set"
  OBVIOUS
<1> HIDE DEF op, cmds
<1>b. PICK e : Selects(p, c, e, d, db) /\ Cat(c, Chosen(sel, db, cmds)) = Cat(e, cmds)
  BY <1>2, ChosenIs
<1>3. /\ Stream(p, e, d, db) /\ (LoadAs(p, e).multi <=> LoadAs(p, c).multi)
      /\ Cat(c, Chosen(sel, db, cmds)) = Cat(e, cmds)
  BY <1>b DEF Selects
<1>4. /\ Stream(p, Cat(e, Cmd(op, v)), IF op = "set" THEN Append(d, <<db, v>>) ELSE d,
                IF op = "select" THEN v ELSE db)
      /\ LoadAs(p, Cat(e, Cmd(op, v))).multi <=> (op = "multi" \/ (LoadAs(p, e).multi /\ op # "exec"))
  BY <1>1, <1>3, StreamCmd
<1>5. /\ Stream(p, Cat(e, Cmd(op, v)), Append(d, <<db, v>>), db)
      /\ LoadAs(p, Cat(e, Cmd(op, v))).multi <=> LoadAs(p, e).multi
  BY <1>1, <1>4, <1>a
<1>6. /\ Stream(p, Cat(c, Chosen(sel, db, cmds)), Append(d, <<db, v>>), db)
      /\ LoadAs(p, Cat(c, Chosen(sel, db, cmds))).multi <=> LoadAs(p, c).multi
  BY <1>3, <1>5 DEF cmds
<1> QED  BY <1>6 DEF cmds, op

\* A transaction of two writes fed to a stream.
LEMMA FeedTx ==
    ASSUME NEW p \in BOOLEAN, NEW c, NEW d \in Data, NEW sel, NEW db \in Nat, NEW v \in Nat,
           Stream(p, c, d, sel)
    PROVE  /\ Stream(p, Cat(c, Chosen(sel, db, TxCommands(v))), d \o << <<db, v>>, <<db, v + 1>> >>, db)
           /\ ~LoadAs(p, Cat(c, Chosen(sel, db, TxCommands(v)))).multi
<1> DEFINE m == "multi"
           s == "set"
           x == "exec"
           w == v + 1
           z == 0
           cmds == TxCommands(v)
           A == <<db, v>>
           B == <<db, w>>
<1>1. m \in Ops /\ s \in Ops /\ x \in Ops /\ w \in Nat /\ z \in Nat
  BY DEF Ops
<1>2. /\ m # "set" /\ m # "select" /\ s = "set" /\ s # "select" /\ x # "set" /\ x # "select"
      /\ x # "multi" /\ x = "exec"
  OBVIOUS
<1>3. cmds = Cat(Cat(Cat(Cmd(m, z), Cmd(s, v)), Cmd(s, w)), Cmd(x, z))
  BY DEF TxCommands, Cat
<1> HIDE DEF m, s, x, w, z, cmds, A, B
<1>4. Cmd(m, z) \in Seq(CmdPieces) /\ Cmd(s, v) \in Seq(CmdPieces) /\ Cmd(s, w) \in Seq(CmdPieces) /\ Cmd(x, z) \in Seq(CmdPieces)
  BY <1>1, CmdType
<1>5. cmds \in Seq(CmdPieces)
  BY <1>3, <1>4 DEF Cat
<1>a. PICK e : Selects(p, c, e, d, db) /\ Cat(c, Chosen(sel, db, cmds)) = Cat(e, cmds)
  BY <1>5, ChosenIs
<1>6. Stream(p, e, d, db) /\ Cat(c, Chosen(sel, db, cmds)) = Cat(e, cmds)
  BY <1>a DEF Selects
<1> DEFINE e1 == Cat(e, Cmd(m, z))
           e2 == Cat(e1, Cmd(s, v))
           e3 == Cat(e2, Cmd(s, w))
           e4 == Cat(e3, Cmd(x, z))
           d2 == Append(d, A)
           d3 == Append(d2, B)
<1>7. Stream(p, e1, d, db)
  <2>1. Stream(p, Cat(e, Cmd(m, z)), IF m = "set" THEN Append(d, <<db, z>>) ELSE d,
               IF m = "select" THEN z ELSE db)
    BY <1>1, <1>6, StreamCmd
  <2> QED  BY <1>2, <2>1
<1> HIDE DEF e1
<1>8. Stream(p, e2, d2, db)
  <2>1. Stream(p, Cat(e1, Cmd(s, v)), IF s = "set" THEN Append(d, <<db, v>>) ELSE d,
               IF s = "select" THEN v ELSE db)
    BY <1>1, <1>7, StreamCmd
  <2> QED  BY <1>2, <2>1 DEF A
<1> HIDE DEF e2, d2
<1>9. Stream(p, e3, d3, db)
  <2>1. Stream(p, Cat(e2, Cmd(s, w)), IF s = "set" THEN Append(d2, <<db, w>>) ELSE d2,
               IF s = "select" THEN w ELSE db)
    BY <1>1, <1>8, StreamCmd
  <2> QED  BY <1>2, <2>1 DEF B
<1> HIDE DEF e3, d3
<1>10. Stream(p, e4, d3, db) /\ ~LoadAs(p, e4).multi
  <2>1. /\ Stream(p, Cat(e3, Cmd(x, z)), IF x = "set" THEN Append(d3, <<db, z>>) ELSE d3,
               IF x = "select" THEN z ELSE db)
        /\ LoadAs(p, Cat(e3, Cmd(x, z))).multi <=> (x = "multi" \/ (LoadAs(p, e3).multi /\ x # "exec"))
    BY <1>1, <1>9, StreamCmd
  <2> QED  BY <1>2, <2>1
<1>11. Cat(e, cmds) = e4
  <2> DEFINE a1 == Cmd(m, z)
             a2 == Cmd(s, v)
             a3 == Cmd(s, w)
             a4 == Cmd(x, z)
  <2>1. e \in Contents
    BY <1>6 DEF Stream
  <2>2. a1 \in Contents /\ a2 \in Contents /\ a3 \in Contents /\ a4 \in Contents
    BY <1>1, CmdType
  <2>3. cmds = Cat(Cat(Cat(a1, a2), a3), a4) /\ e4 = Cat(Cat(Cat(Cat(e, a1), a2), a3), a4)
    BY <1>3 DEF e1, e2, e3
  <2> HIDE DEF a1, a2, a3, a4, e4
  <2> DEFINE b2 == Cat(a1, a2)
             b3 == Cat(b2, a3)
  <2>4. b2 \in Contents /\ Cat(e, b2) = Cat(Cat(e, a1), a2)
    BY <2>1, <2>2, Assoc
  <2> HIDE DEF b2
  <2>5. b3 \in Contents /\ Cat(e, b3) = Cat(Cat(e, b2), a3)
    BY <2>1, <2>2, <2>4, Assoc
  <2> HIDE DEF b3
  <2>6. Cat(e, Cat(b3, a4)) = Cat(Cat(e, b3), a4)
    BY <2>1, <2>2, <2>5, Assoc
  <2> QED  BY <2>3, <2>4, <2>5, <2>6 DEF b2, b3
<1>12. d3 = d \o <<A, B>>
  <2>1. d \in Seq(Entries) /\ A \in Entries /\ B \in Entries
    BY <1>1 DEF Data, A, B, Entries
  <2> QED  BY <2>1 DEF d2, d3
<1>13. /\ Stream(p, Cat(c, Chosen(sel, db, cmds)), d \o <<A, B>>, db)
       /\ ~LoadAs(p, Cat(c, Chosen(sel, db, cmds))).multi
  BY <1>6, <1>10, <1>11, <1>12
<1> QED  BY <1>13 DEF cmds, A, B, w

\* What is loaded from a snapshot.
LEMMA SnapshotStream ==
    ASSUME NEW p \in BOOLEAN, NEW d \in Data
    PROVE  Stream(p, Snapshot(d), d, -1) /\ ~LoadAs(p, Snapshot(d)).multi
<1> DEFINE x == [op |-> "snapshot", arg |-> d, part |-> 0]
           r == LoadAs(p, <<x>>)
<1>1. x \in SnapPieces /\ x.arg = d
  BY DEF SnapPieces
<1>2. Snapshot(d) = <<x>>
  BY DEF Snapshot
<1> HIDE DEF x
<1>3. x \in Pieces
  BY <1>1 DEF Pieces
<1>4. <<x>> = Append(<<>>, x) /\ <<>> \in Seq(Pieces) /\ <<x>> \in Seq(Pieces) /\ Len(<<x>>) = 1
  BY <1>3
<1>5. r = Read(p, LoadStart, x)
  <2> DEFINE nil == <<>>
  <2>1. nil \in Seq(Pieces) /\ LoadAs(p, nil) = LoadStart /\ <<x>> = Append(nil, x)
    BY <1>4, LoadEmpty
  <2> HIDE DEF nil
  <2>2. LoadAs(p, Append(nil, x)) = Read(p, LoadAs(p, nil), x)
    BY <1>3, <2>1, LoadAppend
  <2> QED  BY <2>1, <2>2
<1>6. ~LoadStart.bad /\ LoadStart.half = None /\ ~LoadStart.multi
  BY DEF LoadStart
<1>7. r = AfterSnapshot(p, LoadStart, x)
  BY <1>1, <1>5, <1>6, StartType, ReadSnapshot
<1>8. ~r.bad /\ r.half = None /\ ~r.multi /\ r.data = d
  BY <1>1, <1>6, <1>7, StartType DEF AfterSnapshot, LoadStates
<1>9. SnapshotFirst(<<x>>)
  BY <1>4 DEF SnapshotFirst
<1> HIDE DEF r
<1> QED  BY <1>2, <1>4, <1>8, <1>9 DEF Stream, Contents, r

\* Nothing is loaded from an empty file.
LEMMA EmptyStream ==
    ASSUME NEW p \in BOOLEAN
    PROVE  Stream(p, <<>>, <<>>, -1) /\ ~LoadAs(p, <<>>).multi
<1>1. LoadAs(p, <<>>) = LoadStart
  BY LoadEmpty
<1>2. <<>> \in Contents /\ SnapshotFirst(<<>>)
  BY DEF Contents, SnapshotFirst
<1> QED  BY <1>1, <1>2 DEF Stream, LoadStart

-----------------------------------------------------------------------------
(* The invariant, as a predicate on the parts of a state. *)

AofTypes == [state : {"OFF", "ON", "WAIT_REWRITE"}, fd : {"none", "file", "closed"},
             selected_db : Nat \cup {-1}, buf : Seq(CmdPieces), size : Nat,
             write_ok : BOOLEAN, postponed : BOOLEAN, elapsed : BOOLEAN,
             rwbuf : Seq(CmdPieces), scheduled : BOOLEAN, rdb_child : BOOLEAN]
FileTypes == [content : Contents, synced : Nat]
Children == [phase : {"saving", "asked", "acked", "exited", "failed"}, out : Contents,
             pipe : Seq(CmdPieces), stop : BOOLEAN]

\* The file loads, to an earlier state of the data set d.
FileLoads(p, d, f) ==
    /\ SnapshotFirst(f.content)
    /\ ~LoadAs(p, f.content).bad
    /\ IsPrefix(LoadAs(p, f.content).data, d)
    /\ f.synced <= Len(f.content)

\* While AOF is on, the file and the buffer hold the data set.
OnHolds(p, d, a, f) ==
    a.state = "ON" => /\ a.fd = "file"
                      /\ a.size = Len(f.content)
                      /\ Stream(p, Cat(f.content, a.buf), d, a.selected_db)

\* The buffer is only used while AOF is on.
OffEmpty(a) == a.state # "ON" => a.buf = <<>>

\* What a rewritten file will hold: the snapshot, what the child has read or
\* will find in the pipe, and the differences the parent still has.
Rewritten(a, k) == Cat(k.out, Cat(k.pipe, a.rwbuf))

\* The rewritten file will hold the data set of now if the child is fed, and
\* otherwise that of the time of the fork.
ChildHolds(p, d, a, k) ==
    /\ k = None => a.rwbuf = <<>>
    /\ k # None => /\ k \in Children
                   /\ ~a.rdb_child
                   /\ k.phase = "exited" => k.pipe = <<>>
                   /\ ~LoadAs(p, Rewritten(a, k)).multi
                   /\ a.state # "OFF" => Stream(p, Rewritten(a, k), d, a.selected_db)
                   /\ a.state = "OFF" => /\ Stream(p, Rewritten(a, k), LoadAs(p, Rewritten(a, k)).data, -1)
                                         /\ IsPrefix(LoadAs(p, Rewritten(a, k)).data, d)

\* The file ends with a whole command, outside of a transaction.
Whole(p, a, f) ==
    /\ LoadAs(p, f.content).half = None
    /\ ~LoadAs(p, f.content).multi
    /\ ~LoadAs(p, Cat(f.content, a.buf)).multi

\* The types of the parts.
Typed(d, a, f, k) == d \in Data /\ a \in AofTypes /\ f \in FileTypes /\ (k = None \/ k \in Children)

\* Everything together; calm says that no write is torn.
Holds(p, calm, d, a, f, k) ==
    /\ Typed(d, a, f, k)
    /\ FileLoads(p, d, f)
    /\ OnHolds(p, d, a, f)
    /\ OffEmpty(a)
    /\ ChildHolds(p, d, a, k)
    /\ calm => Whole(p, a, f)

\* A child is not None.
LEMMA ChildIsSome ==
    ASSUME NEW k \in Children
    PROVE  k # None
<1>1. DOMAIN k = {"phase", "out", "pipe", "stop"}
  BY DEF Children
<1>2. DOMAIN None = {"none"}
  BY DEF None
<1>3. "out" \notin {"none"}
  OBVIOUS
<1> QED  BY <1>1, <1>2, <1>3

\* Command pieces are pieces.
LEMMA CmdsAreContents ==
    ASSUME NEW e \in Seq(CmdPieces)
    PROVE  e \in Contents
BY DEF Contents, Pieces

\* Nothing added.
LEMMA CatEmpty ==
    ASSUME NEW c \in Contents
    PROVE  Cat(c, <<>>) = c /\ Cat(<<>>, c) = c /\ <<>> \in Seq(CmdPieces)
<1>1. c \in Seq(Pieces)
  BY DEF Contents
<1> QED  BY <1>1 DEF Cat

\* The fields that the invariant looks at.
SameAof(a, b) ==
    /\ b.state = a.state /\ b.fd = a.fd /\ b.size = a.size /\ b.buf = a.buf
    /\ b.selected_db = a.selected_db /\ b.rwbuf = a.rwbuf /\ b.rdb_child = a.rdb_child

\* The other fields do not matter.
LEMMA SameHolds ==
    ASSUME NEW p, NEW calm, NEW d, NEW a, NEW f, NEW k, Holds(p, calm, d, a, f, k),
           NEW b \in AofTypes, SameAof(a, b)
    PROVE  Holds(p, calm, d, b, f, k)
<1>1. Typed(d, b, f, k) /\ FileLoads(p, d, f)
  BY DEF Holds, Typed
<1>2. OnHolds(p, d, b, f) /\ OffEmpty(b)
  BY DEF Holds, SameAof, OnHolds, OffEmpty
<1>3. Rewritten(b, k) = Rewritten(a, k)
  BY DEF SameAof, Rewritten
<1>4. ChildHolds(p, d, b, k)
  BY <1>3 DEF Holds, SameAof, ChildHolds
<1>5. calm => Whole(p, b, f)
  BY DEF Holds, SameAof, Whole
<1> QED  BY <1>1, <1>2, <1>4, <1>5 DEF Holds

\* A save that ends or starts when there is no rewriting child.
LEMMA SaveHolds ==
    ASSUME NEW p, NEW calm, NEW d, NEW a, NEW f, NEW k, Holds(p, calm, d, a, f, k),
           NEW b, NEW save \in BOOLEAN, b = [a EXCEPT !.rdb_child = save], k # None => ~save
    PROVE  Holds(p, calm, d, b, f, k)
<1>a. a \in AofTypes
  BY DEF Holds, Typed
<1>0. /\ b \in AofTypes /\ b.state = a.state /\ b.fd = a.fd /\ b.size = a.size /\ b.buf = a.buf
      /\ b.selected_db = a.selected_db /\ b.rwbuf = a.rwbuf /\ b.rdb_child = save
  BY <1>a DEF AofTypes
<1>1. Typed(d, b, f, k) /\ FileLoads(p, d, f)
  BY <1>0 DEF Holds, Typed
<1>2. OnHolds(p, d, b, f) /\ OffEmpty(b)
  BY <1>0 DEF Holds, OnHolds, OffEmpty
<1>3. Rewritten(b, k) = Rewritten(a, k)
  BY <1>0 DEF Rewritten
<1>4. ChildHolds(p, d, b, k)
  BY <1>0, <1>3 DEF Holds, ChildHolds
<1>5. calm => Whole(p, b, f)
  BY <1>0 DEF Holds, Whole
<1> QED  BY <1>1, <1>2, <1>4, <1>5 DEF Holds

\* A restart from what is left of a file.
LEMMA RestartHolds ==
    ASSUME NEW p \in BOOLEAN, NEW calm \in BOOLEAN, NEW c \in Contents, SnapshotFirst(c),
           ~LoadAs(p, c).bad, p \/ calm => LoadAs(p, c).half = None /\ ~LoadAs(p, c).multi,
           NEW n \in Nat
    PROVE  Holds(p, calm, LoadAs(p, c).data, StartedAof(Len(Kept(p, c))),
                 [content |-> Kept(p, c), synced |-> Smaller(n, Len(Kept(p, c)))], None)
<1> DEFINE k == Kept(p, c)
           m == Len(k)
           d == LoadAs(p, c).data
           a == StartedAof(m)
           f == [content |-> k, synced |-> Smaller(n, m)]
<1>1. KeptWell(p, c, k)
  BY KeptIsWell
<1>2. k \in Contents /\ ~LoadAs(p, k).bad /\ LoadAs(p, k).half = None /\ LoadAs(p, k).data = d
  BY <1>1 DEF KeptWell
<1>3. m \in Nat /\ Len(c) \in Nat /\ m <= Len(c) /\ k = SubSeq(c, 1, m)
  BY <1>1, <1>2, WholeFile DEF KeptWell
<1>4. d \in Data
  BY LoadType DEF LoadStates
<1>5. SnapshotFirst(k)
  <2>1. c \in Seq(Pieces)
    BY DEF Contents
  <2>2. \A i \in 2..m : i \in 2..Len(c) /\ k[i] = c[i]
    BY <1>3, <2>1
  <2> QED  BY <2>2 DEF SnapshotFirst
<1>6. calm => k = c
  <2>1. ASSUME calm PROVE k = c
    BY <2>1 DEF Kept
  <2> QED  BY <2>1
<1> HIDE DEF k, m, d
<1>7. Smaller(n, m) \in Nat /\ Smaller(n, m) <= m
  BY <1>3 DEF Smaller
<1>8. f \in FileTypes /\ f.content = k /\ f.synced <= m
  BY <1>2, <1>7 DEF FileTypes
<1>9. /\ a \in AofTypes /\ a.state = "ON" /\ a.fd = "file" /\ a.size = m /\ a.buf = <<>>
      /\ a.selected_db = -1 /\ a.rwbuf = <<>>
  BY <1>3 DEF StartedAof, AofTypes
<1> HIDE DEF f, a
<1>10. Typed(d, a, f, None)
  BY <1>4, <1>8, <1>9 DEF Typed
<1>11. FileLoads(p, d, f)
  <2>1. IsPrefix(d, d)
    BY <1>4, PrefixRefl DEF Data
  <2> QED  BY <1>2, <1>5, <1>8, <2>1 DEF FileLoads, m
<1>12. Cat(f.content, a.buf) = k
  BY <1>2, <1>8, <1>9, CatEmpty
<1>13. Stream(p, k, d, -1)
  BY <1>2, <1>5 DEF Stream
<1>14. OnHolds(p, d, a, f) /\ OffEmpty(a)
  BY <1>8, <1>9, <1>12, <1>13 DEF OnHolds, OffEmpty, m
<1>15. ChildHolds(p, d, a, None)
  BY <1>9 DEF ChildHolds
<1>16. calm => Whole(p, a, f)
  BY <1>2, <1>6, <1>8, <1>12 DEF Whole
<1>17. Holds(p, calm, d, a, f, None)
  BY <1>10, <1>11, <1>14, <1>15, <1>16 DEF Holds
<1> QED  BY <1>17 DEF d, a, f, k, m

-----------------------------------------------------------------------------
(* Feeding and flushing keep the invariant. *)

\* Whatever they are added to, cmds for the database db execute ents.
Feeds(p, db, cmds, ents) ==
    \A c, d, sel :
        d \in Data /\ Stream(p, c, d, sel) =>
            /\ Stream(p, Cat(c, Chosen(sel, db, cmds)), Cat(d, ents), db)
            /\ ~LoadAs(p, c).multi => ~LoadAs(p, Cat(c, Chosen(sel, db, cmds))).multi

\* A SET, and a transaction.
LEMMA SetFeeds ==
    ASSUME NEW p \in BOOLEAN, NEW db \in Nat, NEW v \in Nat
    PROVE  Feeds(p, db, Cmd("set", v), << <<db, v>> >>)
<1> SUFFICES ASSUME NEW c, NEW d, NEW sel, d \in Data, Stream(p, c, d, sel)
             PROVE  /\ Stream(p, Cat(c, Chosen(sel, db, Cmd("set", v))), Cat(d, << <<db, v>> >>), db)
                    /\ ~LoadAs(p, c).multi => ~LoadAs(p, Cat(c, Chosen(sel, db, Cmd("set", v)))).multi
  BY DEF Feeds
<1>1. /\ Stream(p, Cat(c, Chosen(sel, db, Cmd("set", v))), Append(d, <<db, v>>), db)
      /\ LoadAs(p, Cat(c, Chosen(sel, db, Cmd("set", v)))).multi <=> LoadAs(p, c).multi
  BY FeedSet
<1> DEFINE x == <<db, v>>
<1>2. x \in Entries /\ d \in Seq(Entries)
  BY DEF Entries, Data
<1> HIDE DEF x
<1>3. Append(d, x) = Cat(d, <<x>>)
  BY <1>2 DEF Cat
<1> QED  BY <1>1, <1>3 DEF x

\* A transaction fed to the file.
LEMMA TxFeeds ==
    ASSUME NEW p \in BOOLEAN, NEW db \in Nat, NEW v \in Nat
    PROVE  Feeds(p, db, TxCommands(v), << <<db, v>>, <<db, v + 1>> >>)
<1> DEFINE ents == << <<db, v>>, <<db, v + 1>> >>
<1> SUFFICES ASSUME NEW c, NEW d, NEW sel, d \in Data, Stream(p, c, d, sel)
             PROVE  /\ Stream(p, Cat(c, Chosen(sel, db, TxCommands(v))), Cat(d, ents), db)
                    /\ ~LoadAs(p, c).multi => ~LoadAs(p, Cat(c, Chosen(sel, db, TxCommands(v)))).multi
  BY DEF Feeds
<1>1. /\ Stream(p, Cat(c, Chosen(sel, db, TxCommands(v))), d \o << <<db, v>>, <<db, v + 1>> >>, db)
      /\ ~LoadAs(p, Cat(c, Chosen(sel, db, TxCommands(v)))).multi
  BY FeedTx
<1>2. Cat(d, ents) = d \o << <<db, v>>, <<db, v + 1>> >>
  BY DEF Cat
<1> QED  BY <1>1, <1>2

\* The commands of both.
LEMMA FeedTypes ==
    ASSUME NEW v \in Nat
    PROVE  /\ Cmd("set", v) \in Seq(CmdPieces) /\ Len(Cmd("set", v)) > 0
           /\ TxCommands(v) \in Seq(CmdPieces) /\ Len(TxCommands(v)) > 0
<1> DEFINE m == "multi"
           s == "set"
           x == "exec"
           w == v + 1
           z == 0
<1>1. m \in Ops /\ s \in Ops /\ x \in Ops /\ w \in Nat /\ z \in Nat
  BY DEF Ops
<1>2. TxCommands(v) = ((Cmd(m, z) \o Cmd(s, v)) \o Cmd(s, w)) \o Cmd(x, z)
  BY DEF TxCommands
<1> HIDE DEF m, s, x, w, z
<1>3. /\ Cmd(m, z) \in Seq(CmdPieces) /\ Cmd(s, v) \in Seq(CmdPieces) /\ Cmd(s, w) \in Seq(CmdPieces)
      /\ Cmd(x, z) \in Seq(CmdPieces)
  BY <1>1, CmdType
<1>4. Len(Cmd(s, v)) = 2
  BY DEF Cmd
<1>5. TxCommands(v) \in Seq(CmdPieces) /\ Len(TxCommands(v)) > 0
  BY <1>2, <1>3, <1>4
<1>6. Cmd(s, v) \in Seq(CmdPieces) /\ Len(Cmd(s, v)) > 0
  BY <1>3, <1>4
<1>7. Cmd(s, v) = Cmd("set", v)
  BY DEF s
<1> DEFINE one == Cmd(s, v)
<1> HIDE DEF one
<1>8. one \in Seq(CmdPieces) /\ Len(one) > 0 /\ one = Cmd("set", v)
  BY <1>6, <1>7 DEF one
<1> QED  BY <1>5, <1>8

\* The fields after feedAppendOnlyFile().
Fed(a, k, db, cmds) ==
    IF a.state = "OFF" THEN a
    ELSE [a EXCEPT !.selected_db = db,
                   !.buf   = IF a.state = "ON" THEN Cat(a.buf, Chosen(a.selected_db, db, cmds)) ELSE a.buf,
                   !.rwbuf = IF k # None THEN Cat(a.rwbuf, Chosen(a.selected_db, db, cmds)) ELSE a.rwbuf]

\* The data set only grows.
LEMMA DataGrows ==
    ASSUME NEW d \in Data, NEW ents \in Data
    PROVE  /\ Cat(d, ents) \in Data /\ IsPrefix(d, Cat(d, ents))
           /\ \A e \in Data : IsPrefix(e, d) => IsPrefix(e, Cat(d, ents))
<1>1. d \in Seq(Entries) /\ ents \in Seq(Entries)
  BY DEF Data
<1>2. d \o ents \in Seq(Entries) /\ IsPrefix(d, d \o ents)
  BY <1>1, PrefixConcat
<1>3. \A e \in Seq(Entries) : IsPrefix(e, d) => IsPrefix(e, d \o ents)
  BY <1>1, <1>2, PrefixTrans
<1>4. Cat(d, ents) = d \o ents
  BY DEF Cat
<1> DEFINE u == d \o ents
<1> HIDE DEF u
<1>5. u \in Seq(Entries) /\ IsPrefix(d, u) /\ \A e \in Seq(Entries) : IsPrefix(e, d) => IsPrefix(e, u)
  BY <1>2, <1>3 DEF u
<1>6. Cat(d, ents) = u
  BY <1>4 DEF u
<1> QED  BY <1>5, <1>6 DEF Data

\* The command chosen is a sequence of commands.
LEMMA ChosenType ==
    ASSUME NEW sel, NEW db \in Nat, NEW cmds \in Seq(CmdPieces)
    PROVE  Chosen(sel, db, cmds) \in Seq(CmdPieces) /\ (Len(cmds) > 0 => Len(Chosen(sel, db, cmds)) > 0)
<1> DEFINE s == Cmd("select", db)
<1>1. s \in Seq(CmdPieces)
  <2>1. "select" \in Ops
    BY DEF Ops
  <2> QED  BY <2>1, CmdType
<1> HIDE DEF s
<1>2. s \o cmds \in Seq(CmdPieces) /\ Len(s \o cmds) = Len(s) + Len(cmds) /\ Len(s) \in Nat /\ Len(cmds) \in Nat
  BY <1>1
<1>3. Chosen(sel, db, cmds) = IF db = sel THEN cmds ELSE s \o cmds
  BY DEF Chosen, Cat, s
<1> QED  BY <1>2, <1>3

\* Feeding keeps the invariant.
LEMMA FedHolds ==
    ASSUME NEW p \in BOOLEAN, NEW calm, NEW d, NEW a, NEW f, NEW k, Holds(p, calm, d, a, f, k),
           NEW db \in Nat, NEW cmds \in Seq(CmdPieces), NEW ents \in Data, Feeds(p, db, cmds, ents)
    PROVE  Holds(p, calm, Cat(d, ents), Fed(a, k, db, cmds), f, k)
<1> DEFINE e == Cat(d, ents)
           x == Chosen(a.selected_db, db, cmds)
           b == Fed(a, k, db, cmds)
           nbuf == IF a.state = "ON" THEN Cat(a.buf, x) ELSE a.buf
           nrw == IF k # None THEN Cat(a.rwbuf, x) ELSE a.rwbuf
<1>1. d \in Data /\ a \in AofTypes /\ f \in FileTypes /\ (k = None \/ k \in Children)
  BY DEF Holds, Typed
<1>2. f.content \in Contents /\ LoadAs(p, f.content).data \in Data
  <2>1. f.content \in Contents
    BY <1>1 DEF FileTypes
  <2> QED  BY <2>1, LoadType DEF LoadStates
<1>3. e \in Data /\ IsPrefix(d, e) /\ \A u \in Data : IsPrefix(u, d) => IsPrefix(u, e)
  BY <1>1, DataGrows
<1>4. x \in Seq(CmdPieces)
  BY <1>1, ChosenType
<1>5. a.buf \in Seq(CmdPieces) /\ a.rwbuf \in Seq(CmdPieces)
  BY <1>1 DEF AofTypes
<1> HIDE DEF e
<1>6. nbuf \in Seq(CmdPieces) /\ nrw \in Seq(CmdPieces)
  BY <1>4, <1>5 DEF Cat
<1>7. FileLoads(p, e, f)
  BY <1>2, <1>3 DEF Holds, FileLoads
<1>8. ASSUME a.state = "OFF" PROVE Holds(p, calm, e, b, f, k)
  <2>1. b = a
    BY <1>8 DEF Fed
  <2>2. Typed(e, a, f, k)
    BY <1>1, <1>3 DEF Typed
  <2>3. OnHolds(p, e, a, f) /\ OffEmpty(a) /\ (calm => Whole(p, a, f))
    BY <1>8 DEF Holds, OnHolds
  <2>4. ASSUME k # None PROVE IsPrefix(LoadAs(p, Rewritten(a, k)).data, e)
    <3>1. IsPrefix(LoadAs(p, Rewritten(a, k)).data, d) /\ Rewritten(a, k) \in Contents
      BY <1>8, <2>4 DEF Holds, ChildHolds, Stream
    <3>2. LoadAs(p, Rewritten(a, k)).data \in Data
      BY <3>1, LoadType DEF LoadStates
    <3> QED  BY <1>3, <3>1, <3>2
  <2>5. ChildHolds(p, e, a, k)
    BY <1>8, <2>4 DEF Holds, ChildHolds
  <2> QED  BY <1>7, <2>1, <2>2, <2>3, <2>5 DEF Holds
<1>9. ASSUME a.state # "OFF" PROVE Holds(p, calm, e, b, f, k)
  <2>1. b = [a EXCEPT !.selected_db = db, !.buf = nbuf, !.rwbuf = nrw]
    BY <1>9 DEF Fed
  <2> HIDE DEF b, nbuf, nrw
  <2>2. /\ b \in AofTypes /\ b.state = a.state /\ b.fd = a.fd /\ b.size = a.size
        /\ b.rdb_child = a.rdb_child
    BY <1>1, <1>6, <2>1 DEF AofTypes
  <2>3. b.selected_db = db /\ b.buf = nbuf /\ b.rwbuf = nrw
    BY <1>1, <2>1 DEF AofTypes
  <2>4. Typed(e, b, f, k)
    BY <1>1, <1>3, <2>2 DEF Typed
  <2>5. ASSUME a.state = "ON"
        PROVE  /\ Stream(p, Cat(f.content, b.buf), e, db)
               /\ calm => ~LoadAs(p, Cat(f.content, b.buf)).multi
    <3> DEFINE c == Cat(f.content, a.buf)
    <3>1. Stream(p, c, d, a.selected_db)
      BY <2>5 DEF Holds, OnHolds
    <3>2. calm => ~LoadAs(p, c).multi
      BY DEF Holds, Whole
    <3>3. Cat(f.content, b.buf) = Cat(c, x)
      <4>1. a.buf \in Contents /\ x \in Contents
        BY <1>4, <1>5, CmdsAreContents
      <4>2. b.buf = Cat(a.buf, x)
        BY <2>3, <2>5 DEF nbuf
      <4> DEFINE F == f.content
                 B == a.buf
      <4>3. F \in Contents /\ B \in Contents /\ c = Cat(F, B) /\ Cat(f.content, b.buf) = Cat(F, Cat(B, x))
        BY <1>2, <4>1, <4>2
      <4> HIDE DEF F, B, c, x
      <4>4. Cat(F, Cat(B, x)) = Cat(Cat(F, B), x)
        BY <4>1, <4>3, Assoc
      <4> QED  BY <4>3, <4>4
    <3> HIDE DEF c, x
    <3>4. /\ Stream(p, Cat(c, x), e, db)
          /\ ~LoadAs(p, c).multi => ~LoadAs(p, Cat(c, x)).multi
      BY <1>1, <3>1 DEF Feeds, e, x
    <3> QED  BY <3>2, <3>3, <3>4
  <2>6. OnHolds(p, e, b, f)
    BY <2>2, <2>3, <2>5 DEF Holds, OnHolds
  <2>7. OffEmpty(b)
    BY <2>2, <2>3 DEF Holds, OffEmpty, nbuf
  <2>8. calm => Whole(p, b, f)
    <3>1. CASE a.state = "ON"
      BY <2>5, <3>1 DEF Holds, Whole
    <3>2. CASE a.state # "ON"
      BY <2>3, <3>2 DEF Holds, Whole, nbuf
    <3> QED  BY <3>1, <3>2
  <2>9. ChildHolds(p, e, b, k)
    <3>1. CASE k = None
      BY <2>3, <3>1 DEF Holds, ChildHolds, nrw
    <3>2. CASE k # None
      <4> DEFINE c == Rewritten(a, k)
      <4>1. Stream(p, c, d, a.selected_db) /\ ~LoadAs(p, c).multi
        BY <1>9, <3>2 DEF Holds, ChildHolds
      <4>2. Rewritten(b, k) = Cat(c, x)
        <5>1. k.out \in Contents /\ k.pipe \in Seq(CmdPieces)
          BY <1>1, <3>2 DEF Children
        <5>2. k.pipe \in Contents /\ a.rwbuf \in Contents /\ x \in Contents
          BY <1>4, <1>5, <5>1, CmdsAreContents
        <5>3. b.rwbuf = Cat(a.rwbuf, x)
          BY <2>3, <3>2 DEF nrw
        <5> DEFINE r == a.rwbuf
                   y == Cat(k.pipe, r)
        <5> HIDE DEF x, r
        <5>4. y \in Contents /\ Cat(k.pipe, Cat(r, x)) = Cat(y, x)
          BY <5>2, Assoc DEF r
        <5> HIDE DEF y
        <5>5. Cat(k.out, Cat(y, x)) = Cat(Cat(k.out, y), x)
          BY <5>1, <5>2, <5>4, Assoc, ZenonT(60)
        <5>6. Rewritten(b, k) = Cat(k.out, Cat(k.pipe, Cat(r, x)))
          BY <5>3 DEF Rewritten, r
        <5>7. c = Cat(k.out, y)
          BY DEF Rewritten, y, r
        <5> HIDE DEF c
        <5> QED  BY <5>4, <5>5, <5>6, <5>7
      <4> HIDE DEF c, x
      <4>3. Stream(p, Cat(c, x), e, db) /\ ~LoadAs(p, Cat(c, x)).multi
        BY <1>1, <4>1 DEF Feeds, e, x
      <4>4. k \in Children /\ ~a.rdb_child /\ (k.phase = "exited" => k.pipe = <<>>)
        BY <3>2 DEF Holds, ChildHolds
      <4> QED  BY <1>9, <2>2, <2>3, <3>2, <4>2, <4>3, <4>4 DEF ChildHolds
    <3> QED  BY <3>1, <3>2
  <2> QED  BY <1>7, <2>4, <2>6, <2>7, <2>8, <2>9 DEF Holds
<1>10. Holds(p, calm, e, b, f, k)
  BY <1>8, <1>9
<1> QED  BY <1>10 DEF e

-----------------------------------------------------------------------------
(* Writing the buffer. *)

\* The first n pieces of the buffer have been written, n <= Len(a.buf).
Written(a, n) == SubSeq(a.buf, 1, n)
Unwritten(a, n) == SubSeq(a.buf, n + 1, Len(a.buf))

\* The buffer, split where a write ended.
LEMMA SplitBuffer ==
    ASSUME NEW a \in AofTypes, NEW c \in Contents, NEW n \in 0..Len(a.buf)
    PROVE  /\ Len(a.buf) \in Nat
           /\ Written(a, n) \in Seq(CmdPieces) /\ Unwritten(a, n) \in Seq(CmdPieces)
           /\ Cat(c, Written(a, n)) \in Contents
           /\ Len(Cat(c, Written(a, n))) = Len(c) + n
           /\ Cat(Cat(c, Written(a, n)), Unwritten(a, n)) = Cat(c, a.buf)
           /\ Cat(c, Written(a, n)) = SubSeq(Cat(c, a.buf), 1, Len(c) + n)
           /\ Len(c) + n \in 0..Len(Cat(c, a.buf))
           /\ n = Len(a.buf) => Written(a, n) = a.buf /\ Unwritten(a, n) = <<>>
<1> DEFINE B == a.buf
           x == Written(a, n)
           y == Unwritten(a, n)
<1>1. B \in Seq(CmdPieces)
  BY DEF AofTypes
<1>2. Len(B) \in Nat /\ n \in Nat /\ n <= Len(B)
  BY <1>1
<1>3. x = SubSeq(B, 1, n) /\ y = SubSeq(B, n + 1, Len(B))
  BY DEF Written, Unwritten
<1> HIDE DEF B, x, y
<1>4. x \in Seq(CmdPieces) /\ Len(x) = n /\ \A i \in 1..n : x[i] = B[i]
  BY <1>1, <1>2, <1>3
<1>5. y \in Seq(CmdPieces)
  BY <1>1, <1>2, <1>3
<1>6. x \o y = B
  <2> DEFINE one == 1
             l == Len(B)
  <2>1. one \in 1..(Len(B) + 1) /\ n \in (one - 1)..Len(B) /\ l \in n..Len(B) /\ SubSeq(B, one, l) = B
    BY <1>1, <1>2
  <2>2. x = SubSeq(B, one, n) /\ y = SubSeq(B, n + 1, l)
    BY <1>3
  <2> HIDE DEF one, l
  <2> QED  BY <1>1, <2>1, <2>2, ConcatAdjacentSubSeq
<1>7. n = Len(B) => x = B /\ y = <<>>
  BY <1>1, <1>2, <1>3
<1>8. x \in Contents /\ y \in Contents /\ B \in Contents
  BY <1>1, <1>4, <1>5, CmdsAreContents
<1>9. Cat(c, x) \in Contents /\ Cat(Cat(c, x), y) = Cat(c, B)
  <2>1. Cat(x, y) = B
    BY <1>6 DEF Cat
  <2> QED  BY <1>8, <2>1, Assoc
<1>10. c \in Seq(Pieces) /\ x \in Seq(Pieces) /\ B \in Seq(Pieces) /\ Len(c) \in Nat
  BY <1>8 DEF Contents
<1>11. Len(c \o x) = Len(c) + n /\ Len(c \o B) = Len(c) + Len(B)
  BY <1>4, <1>10
<1>12. c \o x = SubSeq(c \o B, 1, Len(c) + n)
  <2> DEFINE m == Len(c) + n
             u == c \o B
             v == c \o x
             w == SubSeq(u, 1, m)
  <2>1. m \in Nat /\ m <= Len(u) /\ u \in Seq(Pieces) /\ v \in Seq(Pieces) /\ Len(v) = m
    BY <1>2, <1>10, <1>11
  <2>2. \A i \in 1..m : v[i] = IF i <= Len(c) THEN c[i] ELSE x[i - Len(c)]
    BY <1>4, <1>10, <1>11
  <2>3. \A i \in 1..Len(u) : u[i] = IF i <= Len(c) THEN c[i] ELSE B[i - Len(c)]
    BY <1>10, <1>11
  <2>4. \A i \in 1..m : v[i] = u[i]
    <3> TAKE i \in 1..m
    <3>1. i \in 1..Len(u)
      BY <2>1
    <3>2. ~(i <= Len(c)) => i - Len(c) \in 1..n
      BY <1>2, <1>10
    <3> QED  BY <1>4, <2>2, <2>3, <3>1, <3>2
  <2> HIDE DEF m, u, v
  <2>5. w \in Seq(Pieces) /\ Len(w) = m /\ \A i \in 1..m : w[i] = u[i]
    BY <2>1
  <2> HIDE DEF w
  <2>6. v = w
    BY <2>1, <2>4, <2>5, SeqEqual
  <2> QED  BY <2>6 DEF u, v, w, m
<1>13. Cat(c, x) = c \o x /\ Cat(c, B) = c \o B
  BY DEF Cat
<1>14. Len(Cat(c, x)) = Len(c) + n
  BY <1>11, <1>13
<1>15. Cat(c, x) = SubSeq(Cat(c, B), 1, Len(c) + n)
  BY <1>12, <1>13
<1>16. Len(c) + n \in 0..Len(Cat(c, B))
  BY <1>2, <1>10, <1>11, <1>13
<1> QED  BY <1>2, <1>4, <1>5, <1>7, <1>9, <1>14, <1>15, <1>16 DEF B, x, y

\* Some of the buffer is written: the file still loads.
LEMMA TornLoads ==
    ASSUME NEW p \in BOOLEAN, NEW calm, NEW d, NEW a, NEW f, NEW k, Holds(p, calm, d, a, f, k),
           a.state = "ON", NEW n \in 0..Len(a.buf)
    PROVE  /\ Cat(f.content, Written(a, n)) \in Contents
           /\ SnapshotFirst(Cat(f.content, Written(a, n)))
           /\ ~LoadAs(p, Cat(f.content, Written(a, n))).bad
           /\ IsPrefix(LoadAs(p, Cat(f.content, Written(a, n))).data, d)
           /\ calm /\ n = Len(a.buf) => /\ LoadAs(p, Cat(f.content, Written(a, n))).half = None
                                        /\ ~LoadAs(p, Cat(f.content, Written(a, n))).multi
<1> DEFINE c == Cat(f.content, a.buf)
           m == Len(f.content) + n
           x == Written(a, n)
           w == Cat(f.content, x)
<1>1. a \in AofTypes /\ f.content \in Contents
  BY DEF Holds, Typed, FileTypes
<1>2. Stream(p, c, d, a.selected_db) /\ (calm => ~LoadAs(p, c).multi)
  BY DEF Holds, OnHolds, Whole
<1>3. x \in Seq(CmdPieces) /\ w \in Contents /\ w = SubSeq(c, 1, m) /\ m \in 0..Len(c)
  BY <1>1, SplitBuffer
<1>4. n = Len(a.buf) => w = c
  BY <1>1, SplitBuffer
<1>5. SnapshotFirst(w)
  <2>1. SnapshotFirst(f.content)
    BY DEF Holds, FileLoads
  <2> QED  BY <1>1, <1>3, <2>1, AddCommands
<1>6. c \in Contents /\ SnapshotFirst(c) /\ ~LoadAs(p, c).bad /\ LoadAs(p, c).half = None /\ LoadAs(p, c).data = d
  BY <1>2 DEF Stream
<1> HIDE DEF c, m, x, w
<1>7. ~LoadAs(p, w).bad /\ IsPrefix(LoadAs(p, w).data, LoadAs(p, c).data)
  BY <1>3, <1>6, PrefixLoads
<1> QED  BY <1>2, <1>3, <1>4, <1>5, <1>6, <1>7 DEF w, x

\* The fields after a write of n pieces that is not undone.
Wrote(a, b, n) ==
    /\ b.state = a.state /\ b.fd = a.fd /\ b.selected_db = a.selected_db
    /\ b.rwbuf = a.rwbuf /\ b.rdb_child = a.rdb_child
    /\ b.buf = Unwritten(a, n) /\ b.size = a.size + n

\* A write keeps the invariant.
LEMMA WriteHolds ==
    ASSUME NEW p \in BOOLEAN, NEW calm, NEW d, NEW a, NEW f, NEW k, Holds(p, calm, d, a, f, k),
           a.state = "ON", NEW n \in 0..Len(a.buf), calm => n = Len(a.buf),
           NEW b \in AofTypes, Wrote(a, b, n),
           NEW s \in Nat, s <= Len(Cat(f.content, Written(a, n)))
    PROVE  Holds(p, calm, d, b, [content |-> Cat(f.content, Written(a, n)), synced |-> s], k)
<1> DEFINE w == Cat(f.content, Written(a, n))
           g == [content |-> w, synced |-> s]
<1>1. d \in Data /\ a \in AofTypes /\ f.content \in Contents /\ (k = None \/ k \in Children)
  BY DEF Holds, Typed, FileTypes
<1>2. /\ w \in Contents /\ SnapshotFirst(w) /\ ~LoadAs(p, w).bad /\ IsPrefix(LoadAs(p, w).data, d)
      /\ calm => LoadAs(p, w).half = None /\ ~LoadAs(p, w).multi
  BY TornLoads
<1>3. Len(w) = Len(f.content) + n /\ Cat(w, Unwritten(a, n)) = Cat(f.content, a.buf)
  BY <1>1, SplitBuffer
<1> HIDE DEF w
<1>4. g \in FileTypes /\ g.content = w /\ g.synced = s
  BY <1>2 DEF FileTypes
<1> HIDE DEF g
<1>5. Typed(d, b, g, k)
  BY <1>1, <1>4 DEF Typed
<1>6. FileLoads(p, d, g)
  BY <1>2, <1>4 DEF FileLoads, w
<1>7. OnHolds(p, d, b, g) /\ OffEmpty(b)
  BY <1>3, <1>4 DEF Holds, OnHolds, OffEmpty, Wrote
<1>8. Rewritten(b, k) = Rewritten(a, k)
  BY DEF Rewritten, Wrote
<1>9. ChildHolds(p, d, b, k)
  BY <1>8 DEF Holds, ChildHolds, Wrote
<1>10. calm => Whole(p, b, g)
  BY <1>2, <1>3, <1>4 DEF Holds, Whole, Wrote
<1>11. Holds(p, calm, d, b, g, k)
  BY <1>5, <1>6, <1>7, <1>9, <1>10 DEF Holds
<1> QED  BY <1>11 DEF g, w

-----------------------------------------------------------------------------
(* Rewriting, and switching on and off. *)

\* A stream remains one when the next command will start with a SELECT.
LEMMA Unselected ==
    ASSUME NEW p, NEW c, NEW d, NEW sel, Stream(p, c, d, sel)
    PROVE  Stream(p, c, d, -1)
BY DEF Stream

\* fork(): the child starts with a snapshot of the data set.
LEMMA ForkHolds ==
    ASSUME NEW p \in BOOLEAN, NEW calm, NEW d, NEW a, NEW f, Holds(p, calm, d, a, f, None), ~a.rdb_child,
           NEW b \in AofTypes, b.buf = a.buf, b.size = a.size, b.selected_db = -1, b.rwbuf = a.rwbuf,
           b.rdb_child = a.rdb_child,
           (b.state = a.state /\ b.fd = a.fd) \/ (a.state = "OFF" /\ b.state = "WAIT_REWRITE")
    PROVE  Holds(p, calm, d, b, f, [phase |-> "saving", out |-> Snapshot(d), pipe |-> <<>>, stop |-> FALSE])
<1> DEFINE k == [phase |-> "saving", out |-> Snapshot(d), pipe |-> <<>>, stop |-> FALSE]
           s == Snapshot(d)
<1>1. d \in Data /\ f \in FileTypes
  BY DEF Holds, Typed
<1>2. Stream(p, s, d, -1) /\ ~LoadAs(p, s).multi /\ s \in Contents
  BY <1>1, SnapshotStream DEF Stream
<1>3. IsPrefix(d, d)
  BY <1>1, PrefixRefl DEF Data
<1> HIDE DEF s
<1>4. k = [phase |-> "saving", out |-> s, pipe |-> <<>>, stop |-> FALSE]
  BY DEF s
<1> HIDE DEF k
<1>5. <<>> \in Seq(CmdPieces) /\ Cat(s, <<>>) = s
  BY <1>2, CatEmpty
<1>6. k \in Children /\ k.out = s /\ k.pipe = <<>> /\ k.phase = "saving"
  BY <1>2, <1>4, <1>5 DEF Children
<1>7. k # None
  BY <1>6, ChildIsSome
<1>8. a.rwbuf = <<>>
  BY DEF Holds, ChildHolds
<1>9. Rewritten(b, k) = s
  <2>1. Cat(<<>>, <<>>) = <<>>
    BY DEF Cat
  <2> QED  BY <1>5, <1>6, <1>8, <2>1 DEF Rewritten
<1>10. LoadAs(p, s).data = d
  BY <1>2 DEF Stream
<1>11. ChildHolds(p, d, b, k)
  BY <1>2, <1>3, <1>6, <1>7, <1>9, <1>10 DEF ChildHolds
<1>12. Typed(d, b, f, k) /\ FileLoads(p, d, f)
  BY <1>1, <1>6 DEF Typed, Holds
<1>13. OnHolds(p, d, b, f)
  BY Unselected DEF Holds, OnHolds
<1>14. OffEmpty(b) /\ (calm => Whole(p, b, f))
  BY DEF Holds, OffEmpty, Whole
<1>15. Holds(p, calm, d, b, f, k)
  BY <1>11, <1>12, <1>13, <1>14 DEF Holds
<1> QED  BY <1>15 DEF k, s

\* CONFIG SET appendonly yes without a fork.
LEMMA StartHolds ==
    ASSUME NEW p \in BOOLEAN, NEW calm, NEW d, NEW a, NEW f, NEW k, Holds(p, calm, d, a, f, k),
           a.state = "OFF", NEW b \in AofTypes, b.state \in {"OFF", "WAIT_REWRITE"},
           b.state = "WAIT_REWRITE" => k = None,
           b.buf = a.buf, b.rwbuf = a.rwbuf, b.selected_db = a.selected_db, b.rdb_child = a.rdb_child
    PROVE  Holds(p, calm, d, b, f, k)
<1>1. Typed(d, b, f, k) /\ FileLoads(p, d, f)
  BY DEF Holds, Typed
<1>2. OnHolds(p, d, b, f) /\ OffEmpty(b)
  BY DEF Holds, OnHolds, OffEmpty
<1>3. Rewritten(b, k) = Rewritten(a, k)
  BY DEF Rewritten
<1>4. ChildHolds(p, d, b, k)
  BY <1>3 DEF Holds, ChildHolds
<1>5. calm => Whole(p, b, f)
  BY DEF Holds, Whole
<1> QED  BY <1>1, <1>2, <1>4, <1>5 DEF Holds

\* What the child and the pipe do does not change what the file will hold.
LEMMA ChildMoves ==
    ASSUME NEW p \in BOOLEAN, NEW calm, NEW d, NEW a, NEW f, NEW k, Holds(p, calm, d, a, f, k), k # None,
           NEW b \in AofTypes, b.state = a.state, b.fd = a.fd, b.size = a.size, b.buf = a.buf,
           b.selected_db = a.selected_db, b.rdb_child = a.rdb_child,
           NEW l \in Children, l.phase = "exited" => l.pipe = <<>>,
           Rewritten(b, l) = Rewritten(a, k)
    PROVE  Holds(p, calm, d, b, f, l)
<1>1. Typed(d, b, f, l) /\ FileLoads(p, d, f)
  BY DEF Holds, Typed
<1>2. OnHolds(p, d, b, f) /\ OffEmpty(b)
  BY DEF Holds, OnHolds, OffEmpty
<1>3. l # None
  BY ChildIsSome
<1>4. ChildHolds(p, d, b, l)
  BY <1>3 DEF Holds, ChildHolds
<1>5. calm => Whole(p, b, f)
  BY DEF Holds, Whole
<1> QED  BY <1>1, <1>2, <1>4, <1>5 DEF Holds

\* The rewritten file replaces the old one.
LEMMA DoneHolds ==
    ASSUME NEW p \in BOOLEAN, NEW calm, NEW d, NEW a, NEW f, NEW k, Holds(p, calm, d, a, f, k), k # None,
           k.phase = "exited",
           NEW g \in FileTypes, g.content = Cat(k.out, a.rwbuf), g.synced <= Len(g.content),
           NEW b \in AofTypes, b.rwbuf = <<>>, b.buf = <<>>,
           b.state = "ON" => /\ a.state # "OFF" /\ b.fd = "file"
                             /\ b.size = Len(g.content) /\ b.selected_db = -1
    PROVE  Holds(p, calm, d, b, g, None)
<1> DEFINE c == Rewritten(a, k)
<1>1. k \in Children /\ k.pipe = <<>> /\ a \in AofTypes /\ d \in Data
  BY DEF Holds, Typed, ChildHolds
<1>2. c = g.content
  <2>1. a.rwbuf \in Contents
    BY <1>1, CmdsAreContents DEF AofTypes
  <2> QED  BY <1>1, <2>1, CatEmpty DEF Rewritten
<1>3. ~LoadAs(p, c).multi /\ Stream(p, c, LoadAs(p, c).data, -1)
  BY Unselected DEF Holds, ChildHolds, Stream
<1>4. IsPrefix(LoadAs(p, c).data, d)
  <2>1. IsPrefix(d, d)
    BY <1>1, PrefixRefl DEF Data
  <2> QED  BY <2>1 DEF Holds, ChildHolds, Stream
<1>5. a.state # "OFF" => LoadAs(p, c).data = d
  BY DEF Holds, ChildHolds, Stream
<1> HIDE DEF c
<1>6. c \in Contents /\ SnapshotFirst(c) /\ ~LoadAs(p, c).bad /\ LoadAs(p, c).half = None
  BY <1>3 DEF Stream
<1>7. Cat(g.content, b.buf) = c
  BY <1>2, <1>6, CatEmpty
<1>8. Typed(d, b, g, None)
  BY <1>1 DEF Typed
<1>9. FileLoads(p, d, g)
  BY <1>2, <1>4, <1>6 DEF FileLoads
<1>10. OnHolds(p, d, b, g) /\ OffEmpty(b)
  BY <1>3, <1>5, <1>7 DEF OnHolds, OffEmpty
<1>11. ChildHolds(p, d, b, None)
  BY DEF ChildHolds
<1>12. calm => Whole(p, b, g)
  BY <1>2, <1>3, <1>6, <1>7 DEF Whole
<1> QED  BY <1>8, <1>9, <1>10, <1>11, <1>12 DEF Holds

\* The rewritten file is thrown away.
LEMMA FailHolds ==
    ASSUME NEW p \in BOOLEAN, NEW calm, NEW d, NEW a, NEW f, NEW k, Holds(p, calm, d, a, f, k),
           NEW b \in AofTypes, b.state = a.state, b.fd = a.fd, b.size = a.size, b.buf = a.buf,
           b.selected_db = a.selected_db, b.rwbuf = <<>>
    PROVE  Holds(p, calm, d, b, f, None)
<1>1. Typed(d, b, f, None) /\ FileLoads(p, d, f)
  BY DEF Holds, Typed
<1>2. OnHolds(p, d, b, f) /\ OffEmpty(b)
  BY DEF Holds, OnHolds, OffEmpty
<1>3. ChildHolds(p, d, b, None)
  BY DEF ChildHolds
<1>4. calm => Whole(p, b, f)
  BY DEF Holds, Whole
<1> QED  BY <1>1, <1>2, <1>3, <1>4 DEF Holds

\* The file is synced.
LEMMA SyncHolds ==
    ASSUME NEW p \in BOOLEAN, NEW calm, NEW d, NEW a, NEW f, NEW k, Holds(p, calm, d, a, f, k),
           NEW g \in FileTypes, g.content = f.content, g.synced <= Len(g.content)
    PROVE  Holds(p, calm, d, a, g, k)
<1>1. Typed(d, a, g, k) /\ FileLoads(p, d, g)
  BY DEF Holds, Typed, FileLoads
<1>2. OnHolds(p, d, a, g) /\ OffEmpty(a) /\ (calm => Whole(p, a, g))
  BY DEF Holds, OnHolds, OffEmpty, Whole
<1> QED  BY <1>1, <1>2 DEF Holds

\* CONFIG SET appendonly no, when the buffer has been written.
LEMMA StopHolds ==
    ASSUME NEW p \in BOOLEAN, NEW calm, NEW d, NEW a, NEW f, NEW k, Holds(p, calm, d, a, f, k),
           a.buf = <<>>, NEW b \in AofTypes, b.state = "OFF", b.buf = a.buf, b.rwbuf = <<>>
    PROVE  Holds(p, calm, d, b, f, None)
<1>1. Typed(d, b, f, None) /\ FileLoads(p, d, f)
  BY DEF Holds, Typed
<1>2. OnHolds(p, d, b, f) /\ OffEmpty(b)
  BY DEF Holds, OnHolds, OffEmpty
<1>3. ChildHolds(p, d, b, None)
  BY DEF ChildHolds
<1>4. calm => Whole(p, b, f)
  BY DEF Holds, Whole
<1> QED  BY <1>1, <1>2, <1>3, <1>4 DEF Holds

-----------------------------------------------------------------------------
(* The steps. *)

\* The types of the bounds used and of what clients were told.
UsedTypes == [writes : Nat, rewrites : Nat, failures : Nat, toggles : Nat, saves : Nat, crashes : Nat]
GhostTypes == [replies : SUBSET Nat, acked : SUBSET Nat, txs : SUBSET Nat]

\* No write and no file is torn.
Calm(s) == ~s.powerloss /\ s.max.failures = 0

\* The configurations the theorems are about.  The two that are left out can
\* lose what they should hold: a buffer kept by an AOF switched off after a
\* write error is written when it is switched on again, and a file torn in the
\* first command after an RDB preamble is cut to nothing.
Sane(s) ==
    /\ s.max.failures = 0 \/ s.max.toggles = 0
    /\ s.preamble => Calm(s)

\* The inductive invariant.
AofInv ==
    /\ setup \in Setup /\ used \in UsedTypes /\ ghost \in GhostTypes
    /\ Holds(setup.preamble, Calm(setup), data, aof, file, child)
    /\ Limit.toggles = 0 => aof.state = "ON"

\* What a step has to establish.
Holds2 == Holds(setup.preamble, Calm(setup), data', aof', file', child')

\* The parts of the invariant.
LEMMA InvParts ==
    ASSUME AofInv
    PROVE  /\ setup.preamble \in BOOLEAN /\ Calm(setup) \in BOOLEAN
           /\ setup.dbs \subseteq Nat /\ setup.max \in [Bounds -> Nat]
           /\ data \in Data /\ aof \in AofTypes /\ file \in FileTypes /\ (child = None \/ child \in Children)
           /\ file.content \in Contents /\ file.synced \in Nat
           /\ Holds(setup.preamble, Calm(setup), data, aof, file, child)
<1>1. setup \in Setup
  BY DEF AofInv
<1>2. setup.preamble \in BOOLEAN /\ setup.dbs \subseteq Nat /\ setup.max \in [Bounds -> Nat]
  BY <1>1 DEF Setup
<1>3. Calm(setup) \in BOOLEAN
  BY DEF Calm
<1>4. data \in Data /\ aof \in AofTypes /\ file \in FileTypes /\ (child = None \/ child \in Children)
  BY DEF AofInv, Holds, Typed
<1>5. file.content \in Contents /\ file.synced \in Nat
  BY <1>4 DEF FileTypes
<1> QED  BY <1>2, <1>3, <1>4, <1>5 DEF AofInv

\* A write command, or a transaction.
LEMMA FeedStep ==
    ASSUME AofInv, NEW db \in setup.dbs, NEW cmds \in Seq(CmdPieces), NEW ents \in Data,
           Feeds(setup.preamble, db, cmds, ents), feedAppendOnlyFile(db, cmds),
           data' = Cat(data, ents), UNCHANGED <<file, child>>
    PROVE  Holds2
<1>1. aof' = Fed(aof, child, db, cmds)
  BY DEF feedAppendOnlyFile, Fed, WithSelect, Chosen, Cat
<1>2. db \in Nat
  BY InvParts
<1>3. Holds(setup.preamble, Calm(setup), Cat(data, ents), Fed(aof, child, db, cmds), file, child)
  BY <1>2, InvParts, FedHolds
<1> QED  BY <1>1, <1>3 DEF Holds2

\* A write.
LEMMA WriteStep ==
    ASSUME AofInv, NEW db \in setup.dbs, Write(db)
    PROVE  Holds2
<1> DEFINE v == used.writes + 1
           x == <<db, v>>
<1>1. v \in Nat /\ db \in Nat /\ data \in Data
  BY InvParts DEF AofInv, UsedTypes
<1>2. data' = Append(data, x) /\ feedAppendOnlyFile(db, Cmd("set", v)) /\ UNCHANGED <<file, child>>
  BY DEF Write
<1>3. Cmd("set", v) \in Seq(CmdPieces) /\ Feeds(setup.preamble, db, Cmd("set", v), <<x>>)
  BY <1>1, InvParts, FeedTypes, SetFeeds
<1>4. x \in Entries
  BY <1>1 DEF Entries
<1> HIDE DEF x, v
<1>5. <<x>> \in Data /\ Append(data, x) = Cat(data, <<x>>)
  BY <1>1, <1>4 DEF Data, Cat
<1> QED  BY <1>2, <1>3, <1>5, FeedStep

\* An EXEC.
LEMMA ExecStep ==
    ASSUME AofInv, NEW db \in setup.dbs, Exec(db)
    PROVE  Holds2
<1> DEFINE v == used.writes + 1
           ents == << <<db, v>>, <<db, v + 1>> >>
<1>1. v \in Nat /\ db \in Nat
  BY InvParts DEF AofInv, UsedTypes
<1>2. data' = data \o ents /\ feedAppendOnlyFile(db, TxCommands(v)) /\ UNCHANGED <<file, child>>
  BY DEF Exec
<1>3. TxCommands(v) \in Seq(CmdPieces) /\ Feeds(setup.preamble, db, TxCommands(v), ents)
  BY <1>1, InvParts, FeedTypes, TxFeeds
<1>4. <<db, v>> \in Entries /\ <<db, v + 1>> \in Entries
  BY <1>1 DEF Entries
<1>5. ents \in Data
  BY <1>4 DEF Data
<1> HIDE DEF ents, v
<1>6. data' = Cat(data, ents)
  BY <1>2 DEF Cat
<1> QED  BY <1>2, <1>3, <1>5, <1>6, FeedStep

\* What a write of the buffer may do.
WriteIs(res) ==
    /\ res.n \in 0..Len(aof.buf) /\ res.undone \in BOOLEAN
    /\ Limit.failures = 0 => res.n = Len(aof.buf) /\ ~res.undone
    /\ res.undone => res.n < Len(aof.buf)
    /\ ~res.undone => /\ AfterWrite(res).content = Cat(file.content, Written(aof, res.n))
                      /\ AfterWrite(res).buf = Unwritten(aof, res.n)
                      /\ AfterWrite(res).size = aof.size + res.n
    /\ res.undone => /\ AfterWrite(res).content = file.content
                     /\ AfterWrite(res).buf = aof.buf
                     /\ AfterWrite(res).size = aof.size

\* Every result of write(2) does one of these things.
LEMMA WriteCases ==
    ASSUME AofInv, aof.state = "ON", NEW res \in WriteResults(Len(aof.buf))
    PROVE  WriteIs(res)
<1> DEFINE n == Len(aof.buf)
           F == file.content
<1>1. aof.fd = "file" /\ aof.size = Len(F) /\ F \in Contents /\ aof \in AofTypes
  BY InvParts DEF Holds, OnHolds
<1>2. n \in Nat /\ aof.buf \in Seq(CmdPieces)
  <2>1. aof.buf \in Seq(CmdPieces)
    BY <1>1 DEF AofTypes
  <2> QED  BY <2>1
<1>3. \/ res = [n |-> n, undone |-> FALSE]
      \/ /\ used.failures < Limit.failures
         /\ \E k \in 0..(n - 1), u \in BOOLEAN : res = [n |-> k, undone |-> u]
  BY <1>1 DEF WriteResults
<1>4. ASSUME res = [n |-> n, undone |-> FALSE]
      PROVE  res.n \in 0..n /\ res.undone \in BOOLEAN /\ res.n = n /\ ~res.undone
  BY <1>2, <1>4
<1>5. ASSUME used.failures < Limit.failures, NEW k \in 0..(n - 1), NEW u \in BOOLEAN, res = [n |-> k, undone |-> u]
      PROVE  res.n \in 0..n /\ res.undone \in BOOLEAN /\ res.n < n /\ Limit.failures # 0
  <2>1. used.failures \in Nat /\ Limit.failures \in Nat
    BY InvParts DEF AofInv, UsedTypes, Limit, Bounds
  <2>2. res.n = k /\ res.undone = u
    BY <1>5
  <2> QED  BY <1>2, <1>5, <2>1, <2>2
<1>6. /\ res.n \in 0..n /\ res.undone \in BOOLEAN
      /\ Limit.failures = 0 => res.n = n /\ ~res.undone
      /\ res.undone => res.n < n
  BY <1>3, <1>4, <1>5
<1>7. ASSUME ~res.undone
      PROVE  /\ AfterWrite(res).content = Cat(F, Written(aof, res.n))
             /\ AfterWrite(res).buf = Unwritten(aof, res.n)
             /\ AfterWrite(res).size = aof.size + res.n
  BY <1>7 DEF AfterWrite, Cat, Written, Unwritten
<1>8. ASSUME res.undone
      PROVE  AfterWrite(res).content = F /\ AfterWrite(res).buf = aof.buf /\ AfterWrite(res).size = aof.size
  <2> DEFINE x == Written(aof, res.n)
             w == F \o x
  <2>1. AfterWrite(res).content = Truncate(w, aof.size)
    BY <1>8 DEF AfterWrite, Written
  <2>2. x \in Seq(CmdPieces)
    BY <1>1, <1>6, SplitBuffer
  <2>3. F \in Seq(Pieces) /\ x \in Seq(Pieces)
    BY <1>1, <2>2, CmdsAreContents DEF Contents
  <2> HIDE DEF x
  <2>4. Len(F) <= Len(w) /\ SubSeq(w, 1, Len(F)) = F
    BY <2>3
  <2>5. Truncate(w, aof.size) = F
    BY <1>1, <2>4 DEF Truncate
  <2>6. AfterWrite(res).buf = aof.buf /\ AfterWrite(res).size = aof.size
    BY <1>8 DEF AfterWrite
  <2> QED  BY <2>1, <2>5, <2>6
<1> QED  BY <1>6, <1>7, <1>8 DEF WriteIs

\* What is in the file after a write, whole or torn.
LEMMA WriteLoads ==
    ASSUME AofInv, Sane(setup), aof.state = "ON", NEW res, WriteIs(res)
    PROVE  LET c == AfterWrite(res).content
           IN  /\ c \in Contents /\ SnapshotFirst(c) /\ ~LoadAs(setup.preamble, c).bad
               /\ IsPrefix(LoadAs(setup.preamble, c).data, data)
               /\ setup.preamble \/ Calm(setup) => /\ LoadAs(setup.preamble, c).half = None
                                                   /\ ~LoadAs(setup.preamble, c).multi
<1> DEFINE p == setup.preamble
           calm == Calm(setup)
           w == Cat(file.content, Written(aof, res.n))
<1>1. p \in BOOLEAN /\ calm \in BOOLEAN /\ Holds(p, calm, data, aof, file, child) /\ file.content \in Contents
  BY InvParts
<1>2. (p \/ calm) => calm /\ Limit.failures = 0
  BY DEF Sane, Calm, Limit
<1>3. res.n \in 0..Len(aof.buf)
  BY DEF WriteIs
<1> HIDE DEF p, calm
<1>4. /\ w \in Contents /\ SnapshotFirst(w) /\ ~LoadAs(p, w).bad /\ IsPrefix(LoadAs(p, w).data, data)
      /\ calm /\ res.n = Len(aof.buf) => LoadAs(p, w).half = None /\ ~LoadAs(p, w).multi
  BY <1>1, <1>3, TornLoads
<1> HIDE DEF w
<1>5. CASE ~res.undone
  <2>1. AfterWrite(res).content = w
    BY <1>5 DEF WriteIs, w
  <2>2. calm => res.n = Len(aof.buf)
    BY <1>2 DEF WriteIs
  <2> QED  BY <1>2, <1>4, <2>1, <2>2 DEF p, calm
<1>6. CASE res.undone
  <2>1. AfterWrite(res).content = file.content /\ Limit.failures # 0
    BY <1>6 DEF WriteIs
  <2>2. /\ SnapshotFirst(file.content) /\ ~LoadAs(p, file.content).bad
        /\ IsPrefix(LoadAs(p, file.content).data, data)
    BY <1>1 DEF Holds, FileLoads
  <2> QED  BY <1>1, <1>2, <2>1, <2>2 DEF p, calm
<1> QED  BY <1>5, <1>6, <1>1, <1>3 DEF WriteIs

\* A restart, from what is left of the file.
LEMMA RestartStep ==
    ASSUME AofInv, Sane(setup), NEW c \in Contents, SnapshotFirst(c), ~LoadAs(setup.preamble, c).bad,
           setup.preamble \/ Calm(setup) => LoadAs(setup.preamble, c).half = None /\ ~LoadAs(setup.preamble, c).multi,
           NEW n \in Nat, RestartFrom(c, n)
    PROVE  Holds2 /\ aof'.state = "ON"
<1> DEFINE p == setup.preamble
           calm == Calm(setup)
<1>1. LoadedFile(c) = Kept(p, c) /\ Load(c) = LoadAs(p, c)
  BY DEF LoadedFile, Kept, Load
<1>2. /\ data' = LoadAs(p, c).data /\ aof' = StartedAof(Len(Kept(p, c))) /\ child' = None
      /\ file' = [content |-> Kept(p, c), synced |-> Smaller(n, Len(Kept(p, c)))]
  BY <1>1 DEF RestartFrom
<1>3. p \in BOOLEAN /\ calm \in BOOLEAN
  BY InvParts
<1> HIDE DEF p, calm
<1>4. Holds(p, calm, LoadAs(p, c).data, StartedAof(Len(Kept(p, c))),
                 [content |-> Kept(p, c), synced |-> Smaller(n, Len(Kept(p, c)))], None)
  BY <1>3, RestartHolds DEF p, calm
<1>5. StartedAof(Len(Kept(p, c))).state = "ON"
  BY DEF StartedAof
<1> QED  BY <1>2, <1>4, <1>5 DEF Holds2, p, calm

\* The buffer is only written while AOF is on.
LEMMA BufferOn ==
    ASSUME AofInv, aof.buf # <<>>
    PROVE  aof.state = "ON"
BY DEF AofInv, Holds, OffEmpty

\* The smaller of two numbers.
LEMMA SmallerIs ==
    ASSUME NEW m \in Nat, NEW n \in Nat
    PROVE  Smaller(m, n) \in Nat /\ Smaller(m, n) <= m /\ Smaller(m, n) <= n
BY DEF Smaller

\* The fields after the write of flushAppendOnlyFile().
LEMMA FlushedIs ==
    ASSUME AofInv, aof.state = "ON", NEW res, WriteIs(res)
    PROVE  LET a == Flushed(res).aof
               f == Flushed(res).file
           IN  /\ a \in AofTypes /\ f \in FileTypes
               /\ a.state = aof.state /\ a.fd = aof.fd /\ a.selected_db = aof.selected_db
               /\ a.rwbuf = aof.rwbuf /\ a.rdb_child = aof.rdb_child
               /\ a.buf = AfterWrite(res).buf /\ a.size = AfterWrite(res).size
               /\ a.write_ok = (res.n = Len(aof.buf)) /\ a.postponed = FALSE
               /\ f.content = AfterWrite(res).content
               /\ f = [content |-> f.content, synced |-> f.synced]
               /\ f.synced <= Len(f.content)
               /\ f.synced = file.synced \/ f.synced = Len(f.content)
               /\ res.n = Len(aof.buf) /\ Fsync = "always" /\ ~setup.nofsync => f.synced = Len(f.content)
<1> DEFINE w == AfterWrite(res)
           full == res.n = Len(aof.buf)
           sync == full /\ ~(setup.nofsync /\ ChildActive)
           due == sync /\ Fsync = "everysec" /\ aof.elapsed
           later == aof.elapsed /\ ~due
           syn == IF sync /\ SyncsNow THEN Len(w.content) ELSE Smaller(file.synced, Len(w.content))
           a == Flushed(res).aof
           f == Flushed(res).file
<1>1. /\ a = [aof EXCEPT !.buf = w.buf, !.size = w.size, !.write_ok = full, !.postponed = FALSE,
                         !.elapsed = later]
      /\ f = [content |-> w.content, synced |-> syn]
  BY DEF Flushed
<1>2. aof \in AofTypes /\ file.content \in Contents /\ file.synced \in Nat /\ file.synced <= Len(file.content)
  BY InvParts DEF Holds, FileLoads
<1>3. res.n \in 0..Len(aof.buf) /\ res.n \in Nat /\ Len(aof.buf) \in Nat
  <2>1. res.n \in 0..Len(aof.buf)
    BY DEF WriteIs
  <2> QED  BY <1>2, <2>1, SplitBuffer
<1>4. /\ w.buf \in Seq(CmdPieces) /\ w.size \in Nat /\ w.content \in Contents
      /\ Len(file.content) <= Len(w.content)
  <2>1. aof.size \in Nat /\ aof.buf \in Seq(CmdPieces)
    BY <1>2 DEF AofTypes
  <2>2. CASE res.undone
    <3>1. w.content = file.content /\ w.buf = aof.buf /\ w.size = aof.size
      BY <2>2 DEF WriteIs
    <3>2. Len(file.content) \in Nat
      BY <1>2, WholeFile
    <3> QED  BY <1>2, <2>1, <3>1, <3>2
  <2>3. CASE ~res.undone
    <3> DEFINE F == Cat(file.content, Written(aof, res.n))
    <3>1. w.content = F /\ w.buf = Unwritten(aof, res.n) /\ w.size = aof.size + res.n
      BY <2>3 DEF WriteIs
    <3>2. F \in Contents /\ Len(F) = Len(file.content) + res.n /\ Unwritten(aof, res.n) \in Seq(CmdPieces)
      BY <1>2, <1>3, SplitBuffer
    <3>3. Len(file.content) \in Nat
      BY <1>2, WholeFile
    <3> HIDE DEF F
    <3> QED  BY <1>3, <2>1, <3>1, <3>2, <3>3
  <2> QED  BY <2>2, <2>3
<1>5. Len(w.content) \in Nat /\ Len(file.content) \in Nat
  BY <1>2, <1>4, WholeFile
<1>6. syn \in Nat /\ syn <= Len(w.content) /\ (syn = file.synced \/ syn = Len(w.content))
  BY <1>2, <1>4, <1>5, SmallerIs DEF Smaller
<1>7. full /\ Fsync = "always" /\ ~setup.nofsync => syn = Len(w.content)
  BY DEF SyncsNow
<1>8. full \in BOOLEAN /\ later \in BOOLEAN
  BY <1>2 DEF AofTypes
<1> HIDE DEF w, syn, later, a, f
<1>9. f \in FileTypes /\ f.content = w.content /\ f.synced = syn /\ f = [content |-> f.content, synced |-> f.synced]
  BY <1>1, <1>4, <1>6 DEF FileTypes
<1>10. a \in AofTypes
  <2> HIDE DEF full
  <2> QED  BY <1>1, <1>2, <1>4, <1>8 DEF AofTypes
<1>11. /\ a.state = aof.state /\ a.fd = aof.fd /\ a.selected_db = aof.selected_db
       /\ a.rwbuf = aof.rwbuf /\ a.rdb_child = aof.rdb_child /\ a.buf = w.buf /\ a.size = w.size
  BY <1>1, <1>2 DEF AofTypes
<1>12. a.write_ok = full /\ a.postponed = FALSE
  <2> HIDE DEF full
  <2> QED  BY <1>1, <1>2 DEF AofTypes
<1>13. f.synced <= Len(f.content) /\ (f.synced = file.synced \/ f.synced = Len(f.content))
  BY <1>6, <1>9
<1>14. res.n = Len(aof.buf) /\ Fsync = "always" /\ ~setup.nofsync => f.synced = Len(f.content)
  BY <1>7, <1>9
<1> QED  BY <1>9, <1>10, <1>11, <1>12, <1>13, <1>14 DEF w, a, f

\* The invariant after the write.
LEMMA FlushedHolds ==
    ASSUME AofInv, Sane(setup), aof.state = "ON", NEW res, WriteIs(res)
    PROVE  Holds(setup.preamble, Calm(setup), data, Flushed(res).aof, Flushed(res).file, child)
<1> DEFINE p == setup.preamble
           calm == Calm(setup)
           a == Flushed(res).aof
           f == Flushed(res).file
           n == res.n
<1>1. p \in BOOLEAN /\ calm \in BOOLEAN /\ Holds(p, calm, data, aof, file, child)
  BY InvParts
<1>2. calm => n = Len(aof.buf) /\ ~res.undone
  BY DEF WriteIs, Calm, Limit
<1>3. n \in 0..Len(aof.buf)
  BY DEF WriteIs
<1>4. /\ a \in AofTypes /\ f \in FileTypes
      /\ a.state = aof.state /\ a.fd = aof.fd /\ a.selected_db = aof.selected_db
      /\ a.rwbuf = aof.rwbuf /\ a.rdb_child = aof.rdb_child
      /\ a.buf = AfterWrite(res).buf /\ a.size = AfterWrite(res).size
      /\ f.content = AfterWrite(res).content /\ f = [content |-> f.content, synced |-> f.synced]
      /\ f.synced <= Len(f.content)
  BY FlushedIs
<1> HIDE DEF p, calm, a, f, n
<1>5. CASE ~res.undone
  <2> DEFINE c == Cat(file.content, Written(aof, n))
  <2>1. AfterWrite(res).content = c /\ AfterWrite(res).buf = Unwritten(aof, n) /\ AfterWrite(res).size = aof.size + n
    BY <1>5 DEF WriteIs, n
  <2>2. Wrote(aof, a, n)
    BY <1>4, <2>1 DEF Wrote
  <2>3. f.synced \in Nat /\ f.synced <= Len(c) /\ f = [content |-> c, synced |-> f.synced]
    BY <1>4, <2>1 DEF FileTypes
  <2>4. Holds(p, calm, data, a, [content |-> c, synced |-> f.synced], child)
    BY <1>1, <1>2, <1>3, <1>4, <2>2, <2>3, WriteHolds
  <2>5. Holds(p, calm, data, a, f, child)
    BY <2>3, <2>4
  <2> QED  BY <2>5 DEF p, calm, a, f
<1>6. CASE res.undone
  <2>1. AfterWrite(res).content = file.content /\ AfterWrite(res).buf = aof.buf /\ AfterWrite(res).size = aof.size
    BY <1>6 DEF WriteIs
  <2>2. SameAof(aof, a)
    BY <1>4, <2>1 DEF SameAof
  <2>3. Holds(p, calm, data, a, file, child)
    BY <1>1, <1>4, <2>2, SameHolds
  <2>4. f.content = file.content
    BY <1>4, <2>1
  <2>5. Holds(p, calm, data, a, f, child)
    BY <1>1, <1>4, <2>3, <2>4, SyncHolds
  <2> QED  BY <2>5 DEF p, calm, a, f
<1> QED  BY <1>5, <1>6

\* flushAppendOnlyFile().
LEMMA FlushStep ==
    ASSUME AofInv, Sane(setup), NEW force \in BOOLEAN, NEW late \in BOOLEAN,
           NEW res \in WriteResults(Len(aof.buf)), Flush(force, late, res)
    PROVE  Holds2 /\ (aof'.state = "ON" \/ aof'.state = aof.state)
<1>1. CASE aof.buf = <<>>
  BY <1>1 DEF Flush, Holds2, AofInv
<1>2. CASE aof.buf # <<>>
  <2>1. aof.state = "ON" /\ WriteIs(res)
    BY <1>2, BufferOn, WriteCases
  <2>2. CASE SyncInProgress /\ ~force /\ ~(aof.postponed /\ late)
    <3>1. aof' = [aof EXCEPT !.postponed = TRUE] /\ UNCHANGED <<data, file, child>>
      BY <1>2, <2>2 DEF Flush
    <3>2. aof \in AofTypes
      BY InvParts
    <3>3. aof' \in AofTypes /\ SameAof(aof, aof')
      BY <3>1, <3>2 DEF AofTypes, SameAof
    <3>4. Holds(setup.preamble, Calm(setup), data, aof', file, child)
      BY <3>3, SameHolds DEF AofInv
    <3> QED  BY <3>1, <3>3, <3>4 DEF Holds2, SameAof
  <2>3. CASE ~(SyncInProgress /\ ~force /\ ~(aof.postponed /\ late)) /\ Fsync = "always" /\ res.n < Len(aof.buf)
    <3> DEFINE c == AfterWrite(res).content
    <3>1. RestartFrom(c, file.synced)
      BY <1>2, <2>3 DEF Flush, ExitOnError
    <3>2. /\ c \in Contents /\ SnapshotFirst(c) /\ ~LoadAs(setup.preamble, c).bad
          /\ setup.preamble \/ Calm(setup) => /\ LoadAs(setup.preamble, c).half = None
                                              /\ ~LoadAs(setup.preamble, c).multi
      BY <2>1, WriteLoads
    <3>3. file.synced \in Nat
      BY InvParts
    <3> HIDE DEF c
    <3> QED  BY <3>1, <3>2, <3>3, RestartStep
  <2>4. CASE ~(SyncInProgress /\ ~force /\ ~(aof.postponed /\ late)) /\ ~(Fsync = "always" /\ res.n < Len(aof.buf))
    <3>1. aof' = Flushed(res).aof /\ file' = Flushed(res).file /\ UNCHANGED <<data, child>>
      BY <1>2, <2>4 DEF Flush
    <3>2. Holds(setup.preamble, Calm(setup), data, Flushed(res).aof, Flushed(res).file, child)
      BY <2>1, FlushedHolds
    <3>3. Flushed(res).aof.state = aof.state
      BY <2>1, FlushedIs
    <3> QED  BY <3>1, <3>2, <3>3 DEF Holds2
  <2> QED  BY <2>2, <2>3, <2>4
<1> QED  BY <1>1, <1>2

\* A flush that is postponed or done, from beforeSleep() or serverCron().
LEMMA SleepStep ==
    ASSUME AofInv, Sane(setup), beforeSleep \/ CronFlush
    PROVE  Holds2 /\ (aof'.state = "ON" \/ aof'.state = aof.state)
<1>1. PICK late \in BOOLEAN, res \in WriteResults(Len(aof.buf)) : Flush(FALSE, late, res)
  BY DEF beforeSleep, CronFlush
<1> DEFINE force == FALSE
<1>2. force \in BOOLEAN /\ Flush(force, late, res)
  BY <1>1
<1> HIDE DEF force
<1> QED  BY <1>1, <1>2, FlushStep

\* Fields of the server that the file does not depend on.
LEMMA TickStep ==
    ASSUME AofInv, Tick \/ (aof' = [aof EXCEPT !.scheduled = TRUE] /\ UNCHANGED <<data, file, child>>)
    PROVE  Holds2 /\ aof'.state = aof.state
<1>1. aof \in AofTypes /\ UNCHANGED <<data, file, child>>
  BY InvParts DEF Tick
<1>2. aof' \in AofTypes /\ SameAof(aof, aof')
  BY <1>1 DEF Tick, AofTypes, SameAof
<1>3. Holds(setup.preamble, Calm(setup), data, aof', file, child)
  BY <1>2, SameHolds DEF AofInv
<1> QED  BY <1>1, <1>2, <1>3 DEF Holds2, SameAof

\* The background thread syncs.
LEMMA BioStep ==
    ASSUME AofInv, BioFsync
    PROVE  Holds2 /\ aof'.state = aof.state
<1>1. UNCHANGED <<data, aof, child>> /\ (file' = file \/ file' = [file EXCEPT !.synced = Len(file.content)])
  BY DEF BioFsync
<1>2. file \in FileTypes /\ file.content \in Contents /\ setup.preamble \in BOOLEAN
  BY InvParts
<1>3. Len(file.content) \in Nat
  BY <1>2, WholeFile
<1>4. file' \in FileTypes /\ file'.content = file.content /\ file'.synced <= Len(file'.content)
  <2>1. file.synced <= Len(file.content)
    BY DEF AofInv, Holds, FileLoads
  <2> QED  BY <1>1, <1>2, <1>3, <2>1 DEF FileTypes
<1>5. Holds(setup.preamble, Calm(setup), data, aof, file', child)
  BY <1>2, <1>4, SyncHolds DEF AofInv
<1> QED  BY <1>1, <1>5 DEF Holds2

\* The fork of a rewrite, for BGREWRITEAOF or CONFIG SET appendonly yes.
LEMMA RewriteStep ==
    ASSUME AofInv, ~ChildActive, child' = NewChild, UNCHANGED <<data, file>>,
           \/ aof' = Forked
           \/ aof.state = "OFF" /\ aof' = [Forked EXCEPT !.state = "WAIT_REWRITE", !.fd = "file", !.elapsed = FALSE]
    PROVE  Holds2
<1>1. child = None /\ ~aof.rdb_child /\ aof \in AofTypes /\ setup.preamble \in BOOLEAN
  BY InvParts DEF ChildActive
<1>2. /\ aof' \in AofTypes /\ aof'.buf = aof.buf /\ aof'.size = aof.size /\ aof'.selected_db = -1
      /\ aof'.rwbuf = aof.rwbuf /\ aof'.rdb_child = aof.rdb_child
      /\ \/ aof'.state = aof.state /\ aof'.fd = aof.fd
         \/ aof.state = "OFF" /\ aof'.state = "WAIT_REWRITE"
  BY <1>1 DEF Forked, AofTypes
<1>3. Holds(setup.preamble, Calm(setup), data, aof', file,
            [phase |-> "saving", out |-> Snapshot(data), pipe |-> <<>>, stop |-> FALSE])
  BY <1>1, <1>2, ForkHolds DEF AofInv
<1> QED  BY <1>3 DEF Holds2, NewChild

\* The differences move on to the child.
LEMMA DiffStep ==
    ASSUME AofInv, aofChildWriteDiffData
    PROVE  Holds2 /\ aof'.state = aof.state /\ Rewritten(aof', child') = Rewritten(aof, child)
<1>1. child # None /\ child.phase \notin {"exited", "failed"} /\ UNCHANGED <<data, file>>
  BY DEF aofChildWriteDiffData
<1>2. PICK n \in 1..Len(aof.rwbuf) :
         /\ child' = [child EXCEPT !.pipe = child.pipe \o SubSeq(aof.rwbuf, 1, n)]
         /\ aof' = [aof EXCEPT !.rwbuf = SubSeq(aof.rwbuf, n + 1, Len(aof.rwbuf))]
  BY DEF aofChildWriteDiffData
<1> DEFINE R == aof.rwbuf
           x == SubSeq(R, 1, n)
           y == SubSeq(R, n + 1, Len(R))
           q == child.pipe
           qx == q \o x
<1>3. aof \in AofTypes /\ child \in Children /\ setup.preamble \in BOOLEAN
  BY <1>1, InvParts
<1>4. R \in Seq(CmdPieces) /\ q \in Seq(CmdPieces) /\ child.out \in Contents
  BY <1>3 DEF AofTypes, Children
<1> HIDE DEF R, q
<1>5. n \in Nat /\ n >= 1 /\ n <= Len(R) /\ Len(R) \in Nat
  BY <1>2, <1>4 DEF R
<1>6. x \in Seq(CmdPieces) /\ y \in Seq(CmdPieces) /\ x \o y = R
  <2>1. x \in Seq(CmdPieces) /\ y \in Seq(CmdPieces)
    BY <1>4, <1>5
  <2> DEFINE one == 1
             l == Len(R)
  <2>2. one \in 1..(Len(R) + 1) /\ n \in (one - 1)..Len(R) /\ l \in n..Len(R) /\ SubSeq(R, one, l) = R
    BY <1>4, <1>5
  <2>3. x = SubSeq(R, one, n) /\ y = SubSeq(R, n + 1, l)
    OBVIOUS
  <2> HIDE DEF one, l, x, y
  <2>4. x \o y = R
    BY <1>4, <2>2, <2>3, ConcatAdjacentSubSeq
  <2> QED  BY <2>1, <2>4
<1>7. child' = [child EXCEPT !.pipe = qx] /\ aof' = [aof EXCEPT !.rwbuf = y]
  BY <1>2 DEF R, q
<1> HIDE DEF x, y
<1>8. qx \in Seq(CmdPieces)
  BY <1>4, <1>6
<1>9. Cat(qx, y) = Cat(q, R)
  <2>1. q \in Contents /\ x \in Contents /\ y \in Contents
    BY <1>4, <1>6, CmdsAreContents
  <2>2. Cat(q, x) = qx /\ Cat(x, y) = R
    BY <1>6 DEF Cat
  <2> HIDE DEF qx
  <2>3. Cat(Cat(q, x), y) = Cat(q, Cat(x, y))
    BY <2>1, Assoc
  <2> QED  BY <2>2, <2>3
<1> HIDE DEF qx
<1>10. /\ aof' \in AofTypes /\ aof'.state = aof.state /\ aof'.fd = aof.fd /\ aof'.size = aof.size
       /\ aof'.buf = aof.buf /\ aof'.selected_db = aof.selected_db /\ aof'.rdb_child = aof.rdb_child
       /\ aof'.rwbuf = y
  BY <1>3, <1>6, <1>7 DEF AofTypes
<1>11. child' \in Children /\ child'.phase = child.phase /\ child'.out = child.out /\ child'.pipe = qx
  BY <1>3, <1>7, <1>8 DEF Children
<1>12. Rewritten(aof', child') = Rewritten(aof, child)
  BY <1>9, <1>10, <1>11 DEF Rewritten, R, q
<1>13. child'.phase # "exited"
  BY <1>1, <1>11
<1>14. Holds(setup.preamble, Calm(setup), data, aof', file, child')
  BY <1>1, <1>3, <1>10, <1>11, <1>12, <1>13, ChildMoves DEF AofInv
<1> QED  BY <1>1, <1>10, <1>12, <1>14 DEF Holds2

\* The child's own steps.
LEMMA ChildStep ==
    ASSUME AofInv, ChildAsksToStop \/ aofChildPipeReadable \/ ChildExits \/ ChildFails
    PROVE  Holds2 /\ aof'.state = aof.state /\ Rewritten(aof', child') = Rewritten(aof, child)
<1>1. child # None /\ UNCHANGED <<data, aof, file>>
  BY DEF ChildAsksToStop, aofChildPipeReadable, ChildExits, ChildFails
<1>2. aof \in AofTypes /\ child \in Children /\ setup.preamble \in BOOLEAN
  BY <1>1, InvParts
<1>3. child' \in Children /\ (child'.phase = "exited" => child'.pipe = <<>>) /\ Rewritten(aof, child') = Rewritten(aof, child)
  <2>1. CASE ChildExits
    <3> DEFINE o == child.out
               q == child.pipe
               oq == o \o q
               R == aof.rwbuf
    <3>1. o \in Contents /\ q \in Seq(CmdPieces) /\ R \in Seq(CmdPieces)
      BY <1>2 DEF Children, AofTypes
    <3>2. q \in Contents /\ R \in Contents
      BY <3>1, CmdsAreContents
    <3>3. child' = [child EXCEPT !.phase = "exited", !.out = oq, !.pipe = <<>>]
      BY <2>1 DEF ChildExits
    <3>4. Cat(o, q) = oq
      BY DEF Cat
    <3> HIDE DEF o, q, oq, R
    <3>a. Cat(o, q) \in Contents /\ Cat(Cat(o, q), R) = Cat(o, Cat(q, R))
      BY <3>1, <3>2, Assoc
    <3>b. Cat(<<>>, R) = R
      BY <3>2, CatEmpty
    <3>5. oq \in Contents /\ Cat(oq, R) = Cat(o, Cat(q, R)) /\ Cat(<<>>, R) = R
      BY <3>4, <3>a, <3>b
    <3>6. child' \in Children /\ child'.out = oq /\ child'.pipe = <<>>
      <4> DEFINE nil == <<>>
      <4>1. nil \in Seq(CmdPieces) /\ child' = [child EXCEPT !.phase = "exited", !.out = oq, !.pipe = nil]
        BY <3>3
      <4> HIDE DEF nil
      <4>2. child' \in Children /\ child'.out = oq /\ child'.pipe = nil
        BY <1>2, <3>5, <4>1 DEF Children
      <4> QED  BY <4>2 DEF nil
    <3>7. Rewritten(aof, child') = Cat(oq, Cat(<<>>, R))
      BY <3>6 DEF Rewritten, R
    <3>8. Rewritten(aof, child) = Cat(o, Cat(q, R))
      BY DEF Rewritten, o, q, R
    <3> QED  BY <3>5, <3>6, <3>7, <3>8
  <2>2. CASE ChildAsksToStop \/ aofChildPipeReadable \/ ChildFails
    <3>1. \/ child' = [child EXCEPT !.phase = "asked"]
          \/ child' = [child EXCEPT !.phase = "acked", !.stop = TRUE]
          \/ child' = [child EXCEPT !.phase = "failed"]
      BY <2>2 DEF ChildAsksToStop, aofChildPipeReadable, ChildFails
    <3>2. child' \in Children /\ child'.phase # "exited" /\ child'.out = child.out /\ child'.pipe = child.pipe
      BY <1>2, <3>1 DEF Children
    <3> QED  BY <3>2 DEF Rewritten
  <2> QED  BY <2>1, <2>2
<1>4. Holds(setup.preamble, Calm(setup), data, aof, file, child')
  BY <1>1, <1>2, <1>3, ChildMoves DEF AofInv
<1>5. aof' = aof
  BY <1>1
<1> QED  BY <1>1, <1>3, <1>4, <1>5 DEF Holds2

\* The fields after backgroundRewriteDoneHandler().
LEMMA CleanedIs ==
    ASSUME NEW a \in AofTypes
    PROVE  /\ Cleaned(a) \in AofTypes /\ Cleaned(a).rwbuf = <<>>
           /\ Cleaned(a).state = a.state /\ Cleaned(a).fd = a.fd /\ Cleaned(a).size = a.size
           /\ Cleaned(a).buf = a.buf /\ Cleaned(a).selected_db = a.selected_db
           /\ Cleaned(a).write_ok = a.write_ok /\ Cleaned(a).postponed = a.postponed
<1> DEFINE s == a.scheduled \/ a.state = "WAIT_REWRITE"
<1>1. s \in BOOLEAN /\ <<>> \in Seq(CmdPieces)
  OBVIOUS
<1>2. Cleaned(a) = [a EXCEPT !.rwbuf = <<>>, !.scheduled = s]
  BY DEF Cleaned
<1> HIDE DEF s
<1> QED  BY <1>1, <1>2 DEF AofTypes

\* The fields when the new file is in use.
LEMMA ReplacedIs ==
    ASSUME aof \in AofTypes, NEW size \in Nat
    PROVE  /\ Replaced(size) \in AofTypes
           /\ Replaced(size).rwbuf = aof.rwbuf
           /\ Replaced(size).write_ok = aof.write_ok /\ Replaced(size).postponed = aof.postponed
           /\ aof.fd = "none" => Replaced(size) = aof
           /\ aof.fd # "none" => /\ Replaced(size).fd = "file" /\ Replaced(size).selected_db = -1
                                 /\ Replaced(size).size = size /\ Replaced(size).buf = <<>>
                                 /\ Replaced(size).state = IF aof.state = "WAIT_REWRITE" THEN "ON" ELSE aof.state
<1> DEFINE s == IF aof.state = "WAIT_REWRITE" THEN "ON" ELSE aof.state
<1>1. s \in {"OFF", "ON", "WAIT_REWRITE"} /\ <<>> \in Seq(CmdPieces) /\ -1 \in Nat \cup {-1}
  BY DEF AofTypes
<1>2. CASE aof.fd = "none"
  <2>1. Replaced(size) = aof
    BY <1>2 DEF Replaced
  <2> QED  BY <1>2, <2>1
<1>3. CASE aof.fd # "none"
  <2>1. Replaced(size) = [aof EXCEPT !.fd = "file", !.selected_db = -1, !.size = size, !.buf = <<>>, !.state = s]
    BY <1>3 DEF Replaced
  <2> HIDE DEF s
  <2>2. /\ Replaced(size) \in AofTypes /\ Replaced(size).rwbuf = aof.rwbuf
        /\ Replaced(size).fd = "file" /\ Replaced(size).selected_db = -1
        /\ Replaced(size).size = size /\ Replaced(size).buf = <<>> /\ Replaced(size).state = s
        /\ Replaced(size).write_ok = aof.write_ok /\ Replaced(size).postponed = aof.postponed
    BY <1>1, <2>1, ZenonT(60) DEF AofTypes
  <2> QED  BY <1>3, <2>2 DEF s
<1> QED  BY <1>2, <1>3

\* The rewritten file is put in place.
LEMMA DoneStep ==
    ASSUME AofInv, RewriteDone
    PROVE  Holds2 /\ (aof'.state = aof.state \/ aof'.state = "ON")
<1> DEFINE c == Cat(child.out, aof.rwbuf)
           size == Len(c)
           r == Replaced(size)
<1>1. child # None /\ child.phase = "exited" /\ child' = None /\ data' = data
  BY DEF RewriteDone
<1>2. aof \in AofTypes /\ child \in Children /\ setup.preamble \in BOOLEAN
  BY <1>1, InvParts
<1>3. child.out \in Contents /\ aof.rwbuf \in Contents
  BY <1>2, CmdsAreContents DEF AofTypes, Children
<1>4. c \in Contents
  BY <1>3, Assoc
<1>5. size \in Nat /\ Len(child.out) \in Nat /\ Len(child.out) <= size
  <2>1. child.out \in Seq(Pieces) /\ aof.rwbuf \in Seq(Pieces)
    BY <1>3 DEF Contents
  <2> DEFINE o == child.out
             q == aof.rwbuf
  <2>2. Len(o \o q) = Len(o) + Len(q) /\ Len(o) \in Nat /\ Len(q) \in Nat
    <3> HIDE DEF o, q
    <3> QED  BY <2>1 DEF o, q
  <2>3. size = Len(o \o q) /\ Len(child.out) = Len(o)
    BY DEF Cat
  <2> HIDE DEF o, q, size
  <2> QED  BY <2>2, <2>3
<1>6. /\ aof' = Cleaned(Replaced(size)) /\ file'.content = c
      /\ file' = [content |-> file'.content, synced |-> file'.synced]
      /\ file'.synced = size \/ file'.synced = Len(child.out)
  BY DEF RewriteDone, Cat
<1> HIDE DEF c, size
<1>7. file' \in FileTypes /\ file'.synced <= Len(file'.content)
  <2>1. file'.synced \in Nat /\ file'.synced <= size
    BY <1>5, <1>6
  <2> QED  BY <1>4, <1>6, <2>1 DEF FileTypes, size
<1>8. /\ r \in AofTypes
      /\ aof.fd = "none" => r = aof
      /\ aof.fd # "none" => /\ r.fd = "file" /\ r.selected_db = -1 /\ r.size = size /\ r.buf = <<>>
                            /\ r.state = IF aof.state = "WAIT_REWRITE" THEN "ON" ELSE aof.state
  BY <1>2, <1>5, ReplacedIs
<1> HIDE DEF r
<1>9. /\ aof' \in AofTypes /\ aof'.rwbuf = <<>> /\ aof'.state = r.state /\ aof'.fd = r.fd
      /\ aof'.size = r.size /\ aof'.buf = r.buf /\ aof'.selected_db = r.selected_db
  BY <1>6, <1>8, CleanedIs DEF r
<1>10. (aof.state = "ON" => aof.fd = "file") /\ (aof.state # "ON" => aof.buf = <<>>)
  BY DEF AofInv, Holds, OnHolds, OffEmpty
<1>11. aof'.buf = <<>>
  BY <1>8, <1>9, <1>10
<1>12. aof'.state = "ON" => /\ aof.state # "OFF" /\ aof'.fd = "file"
                            /\ aof'.size = Len(file'.content) /\ aof'.selected_db = -1
  BY <1>6, <1>8, <1>9, <1>10 DEF size
<1>13. file'.content = Cat(child.out, aof.rwbuf)
  BY <1>6 DEF c
<1>14. Holds(setup.preamble, Calm(setup), data, aof', file', None)
  BY <1>1, <1>2, <1>7, <1>9, <1>11, <1>12, <1>13, DoneHolds DEF AofInv
<1>15. aof'.state = aof.state \/ aof'.state = "ON"
  BY <1>8, <1>9
<1> QED  BY <1>1, <1>14, <1>15 DEF Holds2

\* The rewritten file is thrown away.
LEMMA FailedStep ==
    ASSUME AofInv, RewriteFailed
    PROVE  Holds2 /\ aof'.state = aof.state
<1>1. aof' = Cleaned(aof) /\ child' = None /\ UNCHANGED <<data, file>>
  BY DEF RewriteFailed
<1>2. aof \in AofTypes /\ setup.preamble \in BOOLEAN
  BY InvParts
<1>3. /\ aof' \in AofTypes /\ aof'.rwbuf = <<>> /\ aof'.state = aof.state /\ aof'.fd = aof.fd
      /\ aof'.size = aof.size /\ aof'.buf = aof.buf /\ aof'.selected_db = aof.selected_db
  BY <1>1, <1>2, CleanedIs
<1>4. Holds(setup.preamble, Calm(setup), data, aof', file, None)
  BY <1>2, <1>3, FailHolds DEF AofInv
<1> QED  BY <1>1, <1>3, <1>4 DEF Holds2

\* CONFIG SET appendonly yes.
LEMMA StartStep ==
    ASSUME AofInv, startAppendOnly
    PROVE  Holds2
<1>1. aof.state = "OFF" /\ UNCHANGED <<data, file>> /\ aof \in AofTypes /\ setup.preamble \in BOOLEAN
  BY InvParts DEF startAppendOnly
<1>2. CASE /\ ~ChildActive
           /\ aof' = [Forked EXCEPT !.state = "WAIT_REWRITE", !.fd = "file", !.elapsed = FALSE]
           /\ child' = NewChild
  BY <1>1, <1>2, RewriteStep
<1>3. CASE /\ aof.rdb_child
           /\ aof' = [aof EXCEPT !.state = "WAIT_REWRITE", !.fd = "file", !.elapsed = FALSE, !.scheduled = TRUE]
           /\ UNCHANGED child
  <2>1. /\ aof' \in AofTypes /\ aof'.state = "WAIT_REWRITE" /\ aof'.buf = aof.buf /\ aof'.rwbuf = aof.rwbuf
        /\ aof'.selected_db = aof.selected_db /\ aof'.rdb_child = aof.rdb_child
    BY <1>1, <1>3 DEF AofTypes
  <2>2. child = None
    BY <1>3 DEF AofInv, Holds, ChildHolds
  <2>3. Holds(setup.preamble, Calm(setup), data, aof', file, child)
    BY <1>1, <2>1, <2>2, StartHolds DEF AofInv
  <2> QED  BY <1>1, <1>3, <2>3 DEF Holds2
<1>4. CASE aof' = [aof EXCEPT !.fd = "closed", !.elapsed = FALSE] /\ UNCHANGED child
  <2>1. /\ aof' \in AofTypes /\ aof'.state = "OFF" /\ aof'.buf = aof.buf /\ aof'.rwbuf = aof.rwbuf
        /\ aof'.selected_db = aof.selected_db /\ aof'.rdb_child = aof.rdb_child
    BY <1>1, <1>4 DEF AofTypes
  <2>2. Holds(setup.preamble, Calm(setup), data, aof', file, child)
    BY <1>1, <2>1, StartHolds DEF AofInv
  <2> QED  BY <1>1, <1>4, <2>2 DEF Holds2
<1> QED  BY <1>2, <1>3, <1>4 DEF startAppendOnly

\* CONFIG SET appendonly no.
LEMMA StopStep ==
    ASSUME AofInv, Sane(setup), stopAppendOnly
    PROVE  Holds2
<1>1. used.toggles < Limit.toggles /\ child' = None /\ data' = data
  BY DEF stopAppendOnly
<1>2. Limit.failures = 0
  <2>1. used.toggles \in Nat /\ Limit.toggles \in Nat
    BY InvParts DEF AofInv, UsedTypes, Limit, Bounds
  <2>2. Limit.toggles # 0
    BY <1>1, <2>1
  <2> QED  BY <2>2 DEF Sane, Limit
<1>3. PICK res \in WriteResults(Len(aof.buf)) :
         LET f == IF aof.buf = <<>> THEN [aof |-> aof, file |-> file, bio |-> bio] ELSE Flushed(res)
         IN  /\ aof' = [f.aof EXCEPT !.state = "OFF", !.fd = "none", !.selected_db = -1, !.rwbuf = <<>>]
             /\ file' = [f.file EXCEPT !.synced = Len(f.file.content)]
  BY DEF stopAppendOnly
<1> DEFINE g == IF aof.buf = <<>> THEN [aof |-> aof, file |-> file, bio |-> bio] ELSE Flushed(res)
           a == g.aof
           f == g.file
           p == setup.preamble
           calm == Calm(setup)
<1>4. /\ aof' = [a EXCEPT !.state = "OFF", !.fd = "none", !.selected_db = -1, !.rwbuf = <<>>]
      /\ file' = [f EXCEPT !.synced = Len(f.content)]
  BY <1>3
<1>5. p \in BOOLEAN
  BY InvParts
<1>6. Holds(p, calm, data, a, f, child) /\ a.buf = <<>>
  <2>1. CASE aof.buf = <<>>
    BY <2>1 DEF AofInv
  <2>2. CASE aof.buf # <<>>
    <3>1. a = Flushed(res).aof /\ f = Flushed(res).file
      BY <2>2
    <3>2. aof.state = "ON" /\ WriteIs(res)
      BY <2>2, BufferOn, WriteCases
    <3>3. res.n = Len(aof.buf) /\ ~res.undone
      BY <1>2, <3>2 DEF WriteIs
    <3>4. Flushed(res).aof.buf = Unwritten(aof, res.n)
      BY <3>2, <3>3, FlushedIs DEF WriteIs
    <3>5. Unwritten(aof, res.n) = <<>>
      <4>1. aof \in AofTypes /\ file.content \in Contents /\ res.n \in 0..Len(aof.buf)
        BY <3>2, InvParts DEF WriteIs
      <4> QED  BY <3>3, <4>1, SplitBuffer
    <3>6. Holds(setup.preamble, Calm(setup), data, Flushed(res).aof, Flushed(res).file, child)
      BY <3>2, FlushedHolds
    <3> HIDE DEF a, f
    <3> QED  BY <3>1, <3>4, <3>5, <3>6
  <2> QED  BY <2>1, <2>2
<1> HIDE DEF a, f, p, calm
<1>7. a \in AofTypes /\ f \in FileTypes
  BY <1>6 DEF Holds, Typed
<1>8. /\ aof' \in AofTypes /\ aof'.state = "OFF" /\ aof'.buf = a.buf /\ aof'.rwbuf = <<>>
  <2> DEFINE nil == <<>>
             neg == -1
  <2>1. /\ nil \in Seq(CmdPieces) /\ neg \in Nat \cup {-1}
        /\ aof' = [a EXCEPT !.state = "OFF", !.fd = "none", !.selected_db = neg, !.rwbuf = nil]
    BY <1>4
  <2> HIDE DEF nil, neg
  <2>2. aof' \in AofTypes /\ aof'.state = "OFF" /\ aof'.buf = a.buf /\ aof'.rwbuf = nil
    BY <1>7, <2>1 DEF AofTypes
  <2> QED  BY <2>2 DEF nil
<1>9. f.content \in Contents
  BY <1>7 DEF FileTypes
<1>10. Len(f.content) \in Nat
  BY <1>9, WholeFile
<1>11. file' \in FileTypes /\ file'.content = f.content /\ file'.synced <= Len(file'.content)
  BY <1>4, <1>7, <1>10 DEF FileTypes
<1>12. Holds(p, calm, data, aof', f, None)
  BY <1>5, <1>6, <1>8, StopHolds
<1>13. Holds(p, calm, data, aof', file', None)
  BY <1>5, <1>11, <1>12, SyncHolds
<1> QED  BY <1>1, <1>13 DEF Holds2, p, calm

\* A save starts or ends.
LEMMA SaveStep ==
    ASSUME AofInv, bgsave
    PROVE  Holds2 /\ aof'.state = aof.state
<1>1. PICK save \in BOOLEAN : aof' = [aof EXCEPT !.rdb_child = save] /\ (child # None => ~save)
  <2>1. CASE ~ChildActive /\ aof' = [aof EXCEPT !.rdb_child = TRUE]
    BY <2>1 DEF ChildActive
  <2>2. CASE aof' = [aof EXCEPT !.rdb_child = FALSE]
    BY <2>2
  <2> QED  BY <2>1, <2>2 DEF bgsave
<1>2. UNCHANGED <<data, file, child>>
  BY DEF bgsave
<1>3. Holds(setup.preamble, Calm(setup), data, aof', file, child)
  BY <1>1, SaveHolds DEF AofInv
<1>4. aof'.state = aof.state
  BY <1>1, InvParts DEF AofTypes
<1> QED  BY <1>2, <1>3, <1>4 DEF Holds2

\* A part of a file that loads, loads.
LEMMA CutLoads ==
    ASSUME NEW p \in BOOLEAN, NEW F \in Contents, SnapshotFirst(F), ~LoadAs(p, F).bad, NEW n \in 0..Len(F)
    PROVE  LET c == SubSeq(F, 1, n)
           IN  /\ c \in Contents /\ Len(c) = n /\ SnapshotFirst(c) /\ ~LoadAs(p, c).bad
               /\ IsPrefix(LoadAs(p, c).data, LoadAs(p, F).data)
<1> DEFINE c == SubSeq(F, 1, n)
<1>1. F \in Seq(Pieces) /\ Len(F) \in Nat
  BY WholeFile DEF Contents
<1>2. n \in Nat /\ n <= Len(F)
  BY <1>1
<1>3. n \in Nat /\ \A i \in 1..n : F[i] \in Pieces
  BY <1>1, <1>2
<1>4. c \in Seq(Pieces) /\ Len(c) = n /\ \A i \in 1..n : c[i] = F[i]
  BY <1>1, <1>2, <1>3
<1>5. \A i \in 2..n : i \in 2..Len(F) /\ i \in 1..n
  BY <1>1, <1>2
<1>6. c \in Contents /\ SnapshotFirst(c)
  BY <1>4, <1>5 DEF Contents, SnapshotFirst
<1> QED  BY <1>4, <1>6, PrefixLoads

\* What may be left of the file after a crash.
LEMMA SurvivorLoads ==
    ASSUME AofInv, Sane(setup), NEW n \in Survives
    PROVE  LET c == SubSeq(file.content, 1, n)
               p == setup.preamble
           IN  /\ n \in 0..Len(file.content) /\ file.synced <= n
               /\ c \in Contents /\ Len(c) = n /\ SnapshotFirst(c) /\ ~LoadAs(p, c).bad
               /\ IsPrefix(LoadAs(p, c).data, data)
               /\ p \/ Calm(setup) => c = file.content /\ LoadAs(p, c).half = None /\ ~LoadAs(p, c).multi
<1> DEFINE F == file.content
           c == SubSeq(F, 1, n)
           p == setup.preamble
           calm == Calm(setup)
<1>1. p \in BOOLEAN /\ F \in Contents /\ file.synced \in Nat /\ data \in Data
  BY InvParts
<1>2. /\ SnapshotFirst(F) /\ ~LoadAs(p, F).bad /\ IsPrefix(LoadAs(p, F).data, data)
      /\ file.synced <= Len(F) /\ (calm => Whole(p, aof, file))
  BY DEF AofInv, Holds, FileLoads
<1>3. Len(F) \in Nat /\ SubSeq(F, 1, Len(F)) = F
  BY <1>1, WholeFile
<1>4. n \in 0..Len(F) /\ file.synced <= n /\ (~setup.powerloss => n = Len(F))
  BY <1>1, <1>2, <1>3 DEF Survives
<1> HIDE DEF F, p
<1>7. c \in Contents /\ Len(c) = n /\ SnapshotFirst(c)
  BY <1>1, <1>2, <1>4, CutLoads
<1>8. ~LoadAs(p, c).bad /\ IsPrefix(LoadAs(p, c).data, LoadAs(p, F).data)
  BY <1>1, <1>2, <1>4, CutLoads
<1>9. IsPrefix(LoadAs(p, c).data, data)
  <2>1. LoadAs(p, c).data \in Seq(Entries) /\ LoadAs(p, F).data \in Seq(Entries) /\ data \in Seq(Entries)
    BY <1>1, <1>7, LoadType DEF LoadStates, Data
  <2> DEFINE dc == LoadAs(p, c).data
             df == LoadAs(p, F).data
  <2>2. dc \in Seq(Entries) /\ df \in Seq(Entries) /\ IsPrefix(dc, df) /\ IsPrefix(df, data)
    BY <1>2, <1>8, <2>1
  <2> HIDE DEF dc, df
  <2>3. IsPrefix(dc, data)
    BY <2>1, <2>2, PrefixTrans
  <2> QED  BY <2>3 DEF dc
<1>10. p \/ calm => c = F /\ LoadAs(p, F).half = None /\ ~LoadAs(p, F).multi
  <2>1. p \/ calm => calm /\ n = Len(F)
    BY <1>4 DEF Sane, Calm, p
  <2> QED  BY <1>2, <1>3, <2>1 DEF Whole, F
<1> QED  BY <1>4, <1>7, <1>8, <1>9, <1>10 DEF F, p

\* A crash.
LEMMA CrashStep ==
    ASSUME AofInv, Sane(setup), Crash
    PROVE  Holds2 /\ aof'.state = "ON"
<1>1. PICK n \in Survives : RestartFrom(SubSeq(file.content, 1, n), file.synced)
  BY DEF Crash
<1> DEFINE c == SubSeq(file.content, 1, n)
<1>2. /\ c \in Contents /\ SnapshotFirst(c) /\ ~LoadAs(setup.preamble, c).bad
      /\ setup.preamble \/ Calm(setup) => LoadAs(setup.preamble, c).half = None /\ ~LoadAs(setup.preamble, c).multi
  BY SurvivorLoads
<1>3. file.synced \in Nat /\ RestartFrom(c, file.synced)
  BY <1>1, InvParts
<1> HIDE DEF c
<1> QED  BY <1>2, <1>3, RestartStep

\* The file of a child that has exited, with the differences added to it.
LEMMA ExitedFile ==
    ASSUME AofInv, child # None, child.phase = "exited"
    PROVE  LET F == Cat(child.out, aof.rwbuf)
               p == setup.preamble
           IN  /\ child.out \in Contents /\ aof.rwbuf \in Seq(CmdPieces) /\ F = Rewritten(aof, child)
               /\ F \in Contents /\ Len(child.out) \in 0..Len(F) /\ Len(F) \in Nat
               /\ SnapshotFirst(F) /\ ~LoadAs(p, F).bad /\ LoadAs(p, F).half = None /\ ~LoadAs(p, F).multi
               /\ aof.state # "OFF" => LoadAs(p, F).data = data
<1> DEFINE o == child.out
           q == aof.rwbuf
           F == Cat(o, q)
           p == setup.preamble
           R == Rewritten(aof, child)
<1>1. child \in Children /\ child.pipe = <<>> /\ aof \in AofTypes
  BY DEF AofInv, Holds, Typed, ChildHolds
<1>2. o \in Contents /\ q \in Seq(CmdPieces) /\ q \in Contents
  BY <1>1, CmdsAreContents DEF Children, AofTypes
<1>3. F = R
  BY <1>1, <1>2, CatEmpty DEF Rewritten
<1>4. /\ ~LoadAs(p, R).multi /\ (aof.state # "OFF" => LoadAs(p, R).data = data)
      /\ SnapshotFirst(R) /\ ~LoadAs(p, R).bad /\ LoadAs(p, R).half = None
  BY DEF AofInv, Holds, ChildHolds, Stream
<1>5. F \in Contents /\ Len(F) \in Nat
  BY <1>2, Assoc, WholeFile
<1>6. Len(o) \in 0..Len(F)
  <2> HIDE DEF o, q
  <2>1. o \in Seq(Pieces) /\ q \in Seq(Pieces)
    BY <1>2 DEF Contents
  <2>2. Len(F) = Len(o) + Len(q) /\ Len(o) \in Nat /\ Len(q) \in Nat
    BY <2>1 DEF Cat
  <2> QED  BY <2>2
<1> HIDE DEF R
<1> QED  BY <1>2, <1>3, <1>4, <1>5, <1>6 DEF R

\* What is left of it when the power fails before it is synced.
LEMMA CutIs ==
    ASSUME AofInv, Sane(setup), CrashAfterRename
    PROVE  LET F == Cat(child.out, aof.rwbuf)
               l == Len(child.out)
               p == setup.preamble
           IN  \E n \in 0..Len(F) :
                  LET c == SubSeq(F, 1, n)
                  IN  /\ RestartFrom(c, l) /\ l \in 0..n
                      /\ c \in Contents /\ Len(c) = n /\ SnapshotFirst(c) /\ ~LoadAs(p, c).bad
                      /\ p \/ Calm(setup) => c = F /\ LoadAs(p, c).half = None /\ ~LoadAs(p, c).multi
<1> DEFINE F == Cat(child.out, aof.rwbuf)
           l == Len(child.out)
           p == setup.preamble
           m == Len(F)
<1>1. child # None /\ child.phase = "exited"
  BY DEF CrashAfterRename
<1>2. PICK n \in IF setup.powerloss THEN l..m ELSE {m} : RestartFrom(SubSeq(F, 1, n), l)
  BY DEF CrashAfterRename, Cat
<1>3. /\ F \in Contents /\ l \in 0..m /\ m \in Nat /\ SubSeq(F, 1, m) = F
      /\ SnapshotFirst(F) /\ ~LoadAs(p, F).bad /\ LoadAs(p, F).half = None /\ ~LoadAs(p, F).multi
  BY <1>1, ExitedFile, WholeFile
<1>4. p \in BOOLEAN /\ (p \/ Calm(setup) => ~setup.powerloss)
  BY InvParts DEF Sane, Calm
<1> HIDE DEF F, l, m, p
<1>5. n \in 0..m /\ l \in 0..n /\ (~setup.powerloss => n = m)
  BY <1>2, <1>3
<1>6. n \in 0..Len(F)
  BY <1>5 DEF m
<1>7. LET c == SubSeq(F, 1, n)
      IN  c \in Contents /\ Len(c) = n /\ SnapshotFirst(c) /\ ~LoadAs(p, c).bad
  BY <1>3, <1>4, <1>6, CutLoads
<1>8. p \/ Calm(setup) => SubSeq(F, 1, n) = F
  BY <1>3, <1>4, <1>5
<1> QED  BY <1>2, <1>3, <1>5, <1>6, <1>7, <1>8 DEF F, l, p

\* A power failure between the rename and the fsync of the rewritten file.
LEMMA CutStep ==
    ASSUME AofInv, Sane(setup), CrashAfterRename
    PROVE  Holds2 /\ aof'.state = "ON"
<1> DEFINE F == Cat(child.out, aof.rwbuf)
           l == Len(child.out)
<1>1. PICK n \in 0..Len(F) :
         LET c == SubSeq(F, 1, n)
         IN  /\ RestartFrom(c, l) /\ l \in 0..n
             /\ c \in Contents /\ SnapshotFirst(c) /\ ~LoadAs(setup.preamble, c).bad
             /\ setup.preamble \/ Calm(setup)
                  => LoadAs(setup.preamble, c).half = None /\ ~LoadAs(setup.preamble, c).multi
  BY CutIs
<1> DEFINE c == SubSeq(F, 1, n)
<1>2. l \in Nat
  BY <1>1
<1> HIDE DEF F, l, c
<1> QED  BY <1>1, <1>2, RestartStep DEF c

\* SHUTDOWN and a start.
LEMMA ShutdownStep ==
    ASSUME AofInv, Sane(setup), prepareForShutdown
    PROVE  Holds2 /\ aof'.state = "ON"
<1>1. aof.state = "ON"
  BY DEF prepareForShutdown
<1>2. PICK res \in WriteResults(Len(aof.buf)) :
         RestartFrom(AfterWrite(res).content,
                     IF Fsync = "always" /\ res.n < Len(aof.buf) THEN file.synced ELSE Len(AfterWrite(res).content))
  BY DEF prepareForShutdown
<1> DEFINE c == AfterWrite(res).content
           n == IF Fsync = "always" /\ res.n < Len(aof.buf) THEN file.synced ELSE Len(c)
<1>3. WriteIs(res)
  BY <1>1, WriteCases
<1>4. /\ c \in Contents /\ SnapshotFirst(c) /\ ~LoadAs(setup.preamble, c).bad
      /\ setup.preamble \/ Calm(setup) => LoadAs(setup.preamble, c).half = None /\ ~LoadAs(setup.preamble, c).multi
  BY <1>1, <1>3, WriteLoads
<1>5. RestartFrom(c, n)
  BY <1>2
<1> HIDE DEF c
<1>6. Len(c) \in Nat /\ file.synced \in Nat
  BY <1>4, WholeFile, InvParts
<1>7. n \in Nat
  BY <1>6
<1> HIDE DEF n
<1> QED  BY <1>4, <1>5, <1>7, RestartStep

\* More of a bound is used.
Counts(u, v) == v \in UsedTypes /\ v.writes >= u.writes

\* Adding to one of the counts keeps the type of used.
LEMMA CountUp ==
    ASSUME NEW u \in UsedTypes, NEW n \in Nat
    PROVE  /\ [u EXCEPT !.writes = u.writes + n] \in UsedTypes
           /\ [u EXCEPT !.writes = u.writes + n].writes = u.writes + n
           /\ Counts(u, [u EXCEPT !.rewrites = u.rewrites + n]) /\ Counts(u, [u EXCEPT !.failures = u.failures + n])
           /\ Counts(u, [u EXCEPT !.saves = u.saves + n]) /\ Counts(u, [u EXCEPT !.toggles = u.toggles + n])
           /\ Counts(u, [u EXCEPT !.crashes = u.crashes + n])
<1> DEFINE w == u.writes + n
           r == u.rewrites + n
           f == u.failures + n
           t == u.toggles + n
           s == u.saves + n
           c == u.crashes + n
<1>1. w \in Nat /\ r \in Nat /\ f \in Nat /\ t \in Nat /\ s \in Nat /\ c \in Nat /\ u.writes >= u.writes
  BY DEF UsedTypes
<1> HIDE DEF w, r, f, t, s, c
<1>2. /\ [u EXCEPT !.writes = w] \in UsedTypes /\ [u EXCEPT !.rewrites = r] \in UsedTypes
      /\ [u EXCEPT !.failures = f] \in UsedTypes /\ [u EXCEPT !.saves = s] \in UsedTypes
      /\ [u EXCEPT !.toggles = t] \in UsedTypes /\ [u EXCEPT !.crashes = c] \in UsedTypes
  BY <1>1 DEF UsedTypes
<1>3. /\ [u EXCEPT !.writes = w].writes = w /\ [u EXCEPT !.rewrites = r].writes = u.writes
      /\ [u EXCEPT !.failures = f].writes = u.writes /\ [u EXCEPT !.saves = s].writes = u.writes
      /\ [u EXCEPT !.toggles = t].writes = u.writes /\ [u EXCEPT !.crashes = c].writes = u.writes
  BY DEF UsedTypes
<1>4. /\ Counts(u, [u EXCEPT !.rewrites = r]) /\ Counts(u, [u EXCEPT !.failures = f])
      /\ Counts(u, [u EXCEPT !.saves = s]) /\ Counts(u, [u EXCEPT !.toggles = t])
      /\ Counts(u, [u EXCEPT !.crashes = c])
  BY <1>1, <1>2, <1>3 DEF Counts
<1> QED  BY <1>2, <1>3, <1>4 DEF w, r, f, s, t, c

\* Every step counts.
LEMMA StepCounts ==
    ASSUME AofInv, Step
    PROVE  Counts(used, used')
<1>0. used \in UsedTypes
  BY DEF AofInv
<1>9. /\ Counts(used, used)
      /\ Counts(used, [used EXCEPT !.writes = used.writes + 1]) /\ Counts(used, [used EXCEPT !.writes = used.writes + 2])
      /\ Counts(used, [used EXCEPT !.rewrites = used.rewrites + 1]) /\ Counts(used, [used EXCEPT !.failures = used.failures + 1])
      /\ Counts(used, [used EXCEPT !.saves = used.saves + 1]) /\ Counts(used, [used EXCEPT !.toggles = used.toggles + 1])
      /\ Counts(used, [used EXCEPT !.crashes = used.crashes + 1])
  <2>1. used.writes \in Nat
    BY <1>0 DEF UsedTypes
  <2>2. /\ used.writes + 1 >= used.writes /\ used.writes + 2 >= used.writes /\ used.writes >= used.writes
    BY <2>1
  <2>3. 1 \in Nat /\ 2 \in Nat
    OBVIOUS
  <2> DEFINE A(n) == [used EXCEPT !.writes = used.writes + n]
  <2>4. A(1) \in UsedTypes /\ A(1).writes = used.writes + 1 /\ A(2) \in UsedTypes /\ A(2).writes = used.writes + 2
    BY <1>0, <2>3, CountUp
  <2> HIDE DEF A
  <2>5. Counts(used, A(1)) /\ Counts(used, A(2)) /\ Counts(used, used)
    BY <1>0, <2>2, <2>4 DEF Counts
  <2>6. /\ Counts(used, [used EXCEPT !.rewrites = used.rewrites + 1]) /\ Counts(used, [used EXCEPT !.failures = used.failures + 1])
        /\ Counts(used, [used EXCEPT !.saves = used.saves + 1]) /\ Counts(used, [used EXCEPT !.toggles = used.toggles + 1])
        /\ Counts(used, [used EXCEPT !.crashes = used.crashes + 1])
    BY <1>0, <2>3, CountUp
  <2> QED  BY <2>5, <2>6 DEF A
<1>10. ASSUME NEW w, w = used \/ w = [used EXCEPT !.failures = used.failures + 1]
       PROVE  /\ Counts(used, [w EXCEPT !.toggles = used.toggles + 1])
              /\ Counts(used, [w EXCEPT !.crashes = used.crashes + 1])
  <2> DEFINE t == used.toggles + 1
             c == used.crashes + 1
  <2>1. t \in Nat /\ c \in Nat
    BY <1>0 DEF UsedTypes
  <2>2. w \in UsedTypes /\ w.writes >= used.writes
    BY <1>9, <1>10 DEF Counts
  <2> HIDE DEF t, c
  <2>3. /\ [w EXCEPT !.toggles = t] \in UsedTypes /\ [w EXCEPT !.toggles = t].writes = w.writes
        /\ [w EXCEPT !.crashes = c] \in UsedTypes /\ [w EXCEPT !.crashes = c].writes = w.writes
    BY <2>1, <2>2 DEF UsedTypes
  <2>4. Counts(used, [w EXCEPT !.toggles = t]) /\ Counts(used, [w EXCEPT !.crashes = c])
    BY <2>2, <2>3 DEF Counts
  <2> QED  BY <2>4 DEF t, c
<1>1. \A res, n : Spent(res, n) = used \/ Spent(res, n) = [used EXCEPT !.failures = used.failures + 1]
  BY DEF Spent
<1>2. ASSUME NEW db, Write(db) \/ Exec(db) PROVE Counts(used, used')
  BY <1>2, <1>9 DEF Write, Exec
<1>3. CASE beforeSleep \/ CronFlush
  <2>1. PICK res : used' = Spent(res, Len(aof.buf))
    BY <1>3 DEF beforeSleep, CronFlush
  <2> QED  BY <1>1, <1>9, <2>1
<1>4. CASE Tick \/ BioFsync \/ bgrewriteaofCommand \/ aofChildWriteDiffData \/ ChildAsksToStop
  BY <1>4, <1>9 DEF Tick, BioFsync, bgrewriteaofCommand, Rewrite, aofChildWriteDiffData, ChildAsksToStop
<1>5. CASE aofChildPipeReadable \/ ChildExits \/ ChildFails \/ RewriteDone \/ RewriteFailed
  BY <1>5, <1>9 DEF aofChildPipeReadable, ChildExits, ChildFails, RewriteDone, RewriteFailed
<1>6. CASE startAppendOnly \/ bgsave \/ Crash \/ CrashAfterRename
  BY <1>6, <1>9 DEF startAppendOnly, bgsave, Crash, CrashAfterRename
<1>7. CASE stopAppendOnly
  <2>1. PICK res : used' = [Spent(res, Len(aof.buf)) EXCEPT !.toggles = used.toggles + 1]
    BY <1>7 DEF stopAppendOnly
  <2> DEFINE w == Spent(res, Len(aof.buf))
  <2>2. w = used \/ w = [used EXCEPT !.failures = used.failures + 1]
    BY <1>1
  <2>3. used' = [w EXCEPT !.toggles = used.toggles + 1]
    BY <2>1
  <2> HIDE DEF w
  <2> QED  BY <1>10, <2>2, <2>3
<1>8. CASE prepareForShutdown
  <2>1. PICK res : used' = [Spent(res, Len(aof.buf)) EXCEPT !.crashes = used.crashes + 1]
    BY <1>8 DEF prepareForShutdown
  <2> DEFINE w == Spent(res, Len(aof.buf))
  <2>2. w = used \/ w = [used EXCEPT !.failures = used.failures + 1]
    BY <1>1
  <2>3. used' = [w EXCEPT !.crashes = used.crashes + 1]
    BY <2>1
  <2> HIDE DEF w
  <2> QED  BY <1>10, <2>2, <2>3
<1> QED  BY <1>2, <1>3, <1>4, <1>5, <1>6, <1>7, <1>8 DEF Step

\* What clients were told keeps its type.
LEMMA StepGhost ==
    ASSUME AofInv, Step
    PROVE  ghost' \in GhostTypes
<1>1. ghost \in GhostTypes /\ used.writes \in Nat
  BY DEF AofInv, UsedTypes
<1>2. /\ ghost.replies \in SUBSET Nat /\ ghost.acked \in SUBSET Nat /\ ghost.txs \in SUBSET Nat
      /\ ghost = [replies |-> ghost.replies, acked |-> ghost.acked, txs |-> ghost.txs]
  BY <1>1 DEF GhostTypes
<1>3. \A r, a, t \in SUBSET Nat : [[[ghost EXCEPT !.replies = r] EXCEPT !.acked = a] EXCEPT !.txs = t] \in GhostTypes
  BY <1>1 DEF GhostTypes
<1>4. ASSUME NEW db, Write(db) PROVE ghost' \in GhostTypes
  <2> DEFINE v == used.writes + 1
             r == ghost.replies \cup Replies({v})
  <2>1. r \in SUBSET Nat
    BY <1>1, <1>2 DEF Replies
  <2>2. ghost' = [ghost EXCEPT !.replies = r]
    BY <1>4 DEF Write
  <2> HIDE DEF r
  <2> QED  BY <1>1, <2>1, <2>2 DEF GhostTypes
<1>5. ASSUME NEW db, Exec(db) PROVE ghost' \in GhostTypes
  <2> DEFINE v == used.writes + 1
             r == ghost.replies \cup Replies({v, v + 1})
             t == ghost.txs \cup {v}
  <2>1. r \in SUBSET Nat /\ t \in SUBSET Nat
    BY <1>1, <1>2 DEF Replies
  <2>2. ghost' = [ghost EXCEPT !.txs = t, !.replies = r]
    BY <1>5 DEF Exec
  <2> HIDE DEF r, t
  <2> QED  BY <1>1, <2>1, <2>2 DEF GhostTypes
<1>6. CASE beforeSleep
  <2>1. PICK res : ghost' = [ghost EXCEPT !.replies = {},
                                !.acked = IF aof.state = "ON" /\ res.n = Len(aof.buf)
                                          THEN ghost.acked \cup ghost.replies ELSE ghost.acked]
    BY <1>6 DEF beforeSleep
  <2> DEFINE k == IF aof.state = "ON" /\ res.n = Len(aof.buf)
                  THEN ghost.acked \cup ghost.replies ELSE ghost.acked
             r == {}
  <2>2. ghost' = [ghost EXCEPT !.replies = r, !.acked = k]
    BY <2>1
  <2>3. k \in SUBSET Nat /\ r \in SUBSET Nat
    BY <1>2
  <2> HIDE DEF k, r
  <2> QED  BY <1>1, <2>2, <2>3 DEF GhostTypes
<1>7. CASE Crash \/ prepareForShutdown \/ stopAppendOnly
  <2> DEFINE r == {}
  <2>1. ghost' = [ghost EXCEPT !.replies = r] \/ ghost' = [ghost EXCEPT !.acked = r]
    BY <1>7 DEF Crash, prepareForShutdown, stopAppendOnly, NoReplies
  <2>2. r \in SUBSET Nat
    OBVIOUS
  <2> HIDE DEF r
  <2> QED  BY <1>1, <2>1, <2>2 DEF GhostTypes
<1>10. CASE CrashAfterRename
  <2> DEFINE k == ghost.acked \ Differences
             r == {}
  <2>1. ghost' = [ghost EXCEPT !.replies = r, !.acked = k]
    BY <1>10 DEF CrashAfterRename
  <2>2. k \in SUBSET Nat /\ r \in SUBSET Nat
    BY <1>2
  <2> HIDE DEF k, r
  <2> QED  BY <1>1, <2>1, <2>2 DEF GhostTypes
<1>8. CASE UNCHANGED ghost
  BY <1>1, <1>8
<1>9. ASSUME Step, ~(\E db \in setup.dbs : Write(db) \/ Exec(db)), ~beforeSleep, ~Crash, ~CrashAfterRename,
             ~prepareForShutdown, ~stopAppendOnly
      PROVE  UNCHANGED ghost
  BY <1>9 DEF Step, CronFlush, Tick, BioFsync, bgrewriteaofCommand, Rewrite, aofChildWriteDiffData,
      ChildAsksToStop, aofChildPipeReadable, ChildExits, ChildFails, RewriteDone, RewriteFailed,
      startAppendOnly, bgsave
<1> QED  BY <1>4, <1>5, <1>6, <1>7, <1>8, <1>9, <1>10

\* Every step keeps the invariant.
LEMMA AofStep ==
    ASSUME AofInv, Sane(setup), Next
    PROVE  AofInv'
<1>1. Step /\ setup' = setup
  BY DEF Next
<1>2. used' \in UsedTypes /\ ghost' \in GhostTypes /\ setup' \in Setup
  BY <1>1, StepCounts, StepGhost DEF AofInv, Counts
<1>3. used.toggles \in Nat /\ Limit.toggles \in Nat
  BY InvParts DEF AofInv, UsedTypes, Limit, Bounds
<1>4. (startAppendOnly \/ stopAppendOnly) => Limit.toggles # 0
  <2>1. (startAppendOnly \/ stopAppendOnly) => used.toggles < Limit.toggles
    BY DEF startAppendOnly, stopAppendOnly
  <2> QED  BY <1>3, <2>1
<1>5. Holds2 /\ (aof'.state = aof.state \/ aof'.state = "ON" \/ Limit.toggles # 0)
  <2>1. ASSUME NEW db \in setup.dbs, Write(db) \/ Exec(db)
        PROVE  Holds2 /\ aof'.state = aof.state
    <3>1. Holds2
      BY <2>1, WriteStep, ExecStep
    <3>2. aof \in AofTypes
      BY InvParts
    <3>3. PICK cmds : feedAppendOnlyFile(db, cmds)
      BY <2>1 DEF Write, Exec
    <3>4. aof'.state = aof.state
      BY <3>2, <3>3 DEF feedAppendOnlyFile, AofTypes
    <3> QED  BY <3>1, <3>4
  <2>2. CASE bgrewriteaofCommand
    <3>1. CASE Rewrite
      <4>1. ~ChildActive /\ aof' = Forked /\ child' = NewChild /\ UNCHANGED <<data, file>>
        BY <3>1 DEF Rewrite
      <4>2. aof \in AofTypes
        BY InvParts
      <4>3. aof'.state = aof.state
        BY <4>1, <4>2 DEF Forked, AofTypes
      <4> QED  BY <4>1, <4>3, RewriteStep
    <3>2. CASE aof' = [aof EXCEPT !.scheduled = TRUE] /\ UNCHANGED <<data, file, child>>
      BY <3>2, TickStep
    <3> QED  BY <2>2, <3>1, <3>2 DEF bgrewriteaofCommand
  <2>3. CASE beforeSleep \/ CronFlush
    BY <2>3, SleepStep
  <2>4. CASE Tick \/ BioFsync
    BY <2>4, TickStep, BioStep
  <2>5. CASE aofChildWriteDiffData
    BY <2>5, DiffStep
  <2>6. CASE ChildAsksToStop \/ aofChildPipeReadable \/ ChildExits \/ ChildFails
    BY <2>6, ChildStep
  <2>7. CASE RewriteDone \/ RewriteFailed
    BY <2>7, DoneStep, FailedStep
  <2>8. CASE startAppendOnly \/ stopAppendOnly
    BY <1>4, <2>8, StartStep, StopStep
  <2>9. CASE bgsave
    BY <2>9, SaveStep
  <2>10. CASE Crash \/ CrashAfterRename \/ prepareForShutdown
    BY <2>10, CrashStep, CutStep, ShutdownStep
  <2> QED  BY <1>1, <2>1, <2>2, <2>3, <2>4, <2>5, <2>6, <2>7, <2>8, <2>9, <2>10 DEF Step
<1>6. Holds(setup'.preamble, Calm(setup'), data', aof', file', child')
  BY <1>1, <1>5 DEF Holds2
<1>7. Limit'.toggles = 0 => aof'.state = "ON"
  BY <1>1, <1>5 DEF AofInv, Limit
<1> QED  BY <1>2, <1>6, <1>7 DEF AofInv, Calm, Limit

\* The initial states.
LEMMA AofInit ==
    ASSUME Init
    PROVE  AofInv
<1>1. setup \in Setup
  BY AofAssumption DEF Init
<1>2. used \in UsedTypes /\ ghost \in GhostTypes
  BY DEF Init, UsedTypes, GhostTypes
<1>3. setup.preamble \in BOOLEAN /\ Calm(setup) \in BOOLEAN
  BY <1>1 DEF Setup, Calm
<1> DEFINE p == setup.preamble
           c == <<>>
           z == 0
<1>4. Stream(p, c, <<>>, -1) /\ ~LoadAs(p, c).multi
  BY <1>3, EmptyStream
<1>5. LoadAs(p, c) = LoadStart /\ c \in Contents /\ z \in Nat
  BY LoadEmpty DEF Contents
<1>6. SnapshotFirst(c) /\ ~LoadAs(p, c).bad /\ LoadAs(p, c).half = None /\ LoadAs(p, c).data = <<>>
  BY <1>4 DEF Stream
<1>7. Kept(p, c) = c /\ Len(c) = z /\ Smaller(z, z) = z
  BY <1>5, <1>6, <1>4 DEF Kept, Smaller
<1> HIDE DEF c, z
<1>8. Holds(p, Calm(setup), LoadAs(p, c).data, StartedAof(Len(Kept(p, c))),
                 [content |-> Kept(p, c), synced |-> Smaller(z, Len(Kept(p, c)))], None)
  BY <1>3, <1>4, <1>5, <1>6, RestartHolds
<1>9. data = LoadAs(p, c).data /\ aof = StartedAof(z) /\ file = [content |-> c, synced |-> z] /\ child = None
  BY <1>6 DEF Init, c, z
<1>10. Holds(p, Calm(setup), data, aof, file, child)
  BY <1>7, <1>8, <1>9
<1>11. aof.state = "ON"
  BY DEF Init, StartedAof
<1> QED  BY <1>1, <1>2, <1>10, <1>11 DEF AofInv

-----------------------------------------------------------------------------
(* The theorems. *)

\* The file of a state, and what is left of it, load as FileHoldsData says.
LEMMA InvHoldsData ==
    ASSUME AofInv, Sane(setup)
    PROVE  FileHoldsData
<1> DEFINE p == setup.preamble
<1>1. TypeOK
  <2>1. aof \in AofTypes /\ file \in FileTypes /\ (child = None \/ child \in Children)
    BY InvParts
  <2>2. file.synced \in Nat /\ file.synced <= Len(file.content)
    BY InvParts DEF AofInv, Holds, FileLoads
  <2>3. Len(file.content) \in Nat
    BY InvParts, WholeFile
  <2>4. aof.state \in {"OFF", "ON", "WAIT_REWRITE"} /\ aof.fd \in {"none", "file", "closed"} /\ aof.size \in Nat
    BY <2>1 DEF AofTypes
  <2>5. child = None \/ child.phase \in {"saving", "asked", "acked", "exited", "failed"}
    BY <2>1 DEF Children
  <2>6. file.synced \in 0..Len(file.content)
    BY <2>2, <2>3
  <2> QED  BY <2>4, <2>5, <2>6 DEF TypeOK
<1>2. LoadsPrefix
  BY SurvivorLoads DEF LoadsPrefix, Load
<1>3. NothingMissing
  <2> SUFFICES ASSUME aof.state = "ON" PROVE LoadAs(p, Cat(file.content, aof.buf)).data = data
    BY DEF NothingMissing, Load, Cat
  <2>1. Stream(p, Cat(file.content, aof.buf), data, aof.selected_db)
    BY DEF AofInv, Holds, OnHolds
  <2> QED  BY <2>1 DEF Stream
<1>4. ASSUME NEW n \in Survives
      PROVE  Load(LoadedFile(SubSeq(file.content, 1, n))).data = Load(SubSeq(file.content, 1, n)).data
  <2> DEFINE c == SubSeq(file.content, 1, n)
  <2>1. /\ c \in Contents /\ ~LoadAs(p, c).bad
        /\ p \/ Calm(setup) => LoadAs(p, c).half = None /\ ~LoadAs(p, c).multi
    BY SurvivorLoads
  <2>2. p \in BOOLEAN
    BY InvParts
  <2> HIDE DEF c, p
  <2>3. LoadAs(p, Kept(p, c)).data = LoadAs(p, c).data
    BY <2>1, <2>2, KeptIsWell DEF KeptWell
  <2> QED  BY <2>3 DEF c, p, Load, LoadedFile, Kept
<1>5. LoadStable
  BY <1>4 DEF LoadStable
<1> QED  BY <1>1, <1>2, <1>3, <1>5 DEF FileHoldsData

\* The inductive invariant holds in every state.
THEOREM AofInvariant == Spec => [](Sane(setup) => AofInv)
<1>1. Init => (Sane(setup) => AofInv)
  BY AofInit
<1>2. (Sane(setup) => AofInv) /\ [Next]_vars => (Sane(setup) => AofInv)'
  <2> SUFFICES ASSUME Sane(setup) => AofInv, [Next]_vars, Sane(setup)'
               PROVE  AofInv'
    OBVIOUS
  <2>1. setup' = setup
    BY DEF Next, vars
  <2>2. Sane(setup)
    BY <2>1 DEF Sane, Calm
  <2>3. AofInv
    BY <2>2
  <2>4. CASE Next
    BY <2>2, <2>3, <2>4, AofStep
  <2>5. CASE UNCHANGED vars
    BY <2>3, <2>5 DEF vars, AofInv, Holds, Typed, FileLoads, OnHolds, OffEmpty, ChildHolds, Whole,
                      Rewritten, Calm, Limit
  <2> QED  BY <2>4, <2>5
<1> QED  BY <1>1, <1>2, PTL DEF Spec

\* The append only file can be loaded after a crash at any time, to an earlier
\* state of the data set, and with the buffer of a server that is on it holds
\* all of it: for any number of writes, rewrites, failures, saves and crashes,
\* and any databases and policies.
THEOREM FileIsSafe == Spec => [](Sane(setup) => FileHoldsData)
<1>1. (Sane(setup) => AofInv) => (Sane(setup) => FileHoldsData)
  BY InvHoldsData
<1> QED  BY <1>1, AofInvariant, PTL

-----------------------------------------------------------------------------
(* appendfsync always: what clients were told is on disk. *)

\* The values of a data set.
Vals(d) == {d[i][2] : i \in 1..Len(d)}

\* The policy that promises something.
Strict == Fsync = "always" /\ ~setup.nofsync

\* Replies are about data the server has; the acknowledged ones about data the
\* synced part of the file has.  A file that is not synced has a buffer to
\* follow it, or there is nothing to acknowledge.
Durable(p, d, a, f, g) ==
    /\ a.write_ok = TRUE /\ a.postponed = FALSE
    /\ g.replies \subseteq Vals(d)
    /\ a.state # "ON" => g.acked = {}
    /\ g.acked \subseteq Vals(LoadAs(p, SubSeq(f.content, 1, f.synced)).data)
    /\ a.state = "ON" /\ a.buf = <<>> => g.replies = {} \/ f.synced = Len(f.content)

AckInv   == Durable(setup.preamble, data, aof, file, ghost)
Durable2 == Durable(setup.preamble, data', aof', file', ghost')

\* A prefix has no other values.
LEMMA PrefixVals ==
    ASSUME NEW s \in Data, NEW t \in Data, IsPrefix(s, t)
    PROVE  Vals(s) \subseteq Vals(t)
<1>1. s \in Seq(Entries) /\ t \in Seq(Entries)
  BY DEF Data
<1>2. Len(s) <= Len(t) /\ \A i \in 1..Len(s) : s[i] = t[i]
  BY <1>1, PrefixIs
<1>3. Len(s) \in Nat /\ Len(t) \in Nat
  BY <1>1
<1>4. \A i \in 1..Len(s) : i \in 1..Len(t)
  BY <1>2, <1>3
<1> QED  BY <1>2, <1>4 DEF Vals

\* A part of a file has no other values than the file.
LEMMA SyncedVals ==
    ASSUME NEW p \in BOOLEAN, NEW c \in Contents, SnapshotFirst(c), ~LoadAs(p, c).bad, NEW n \in 0..Len(c)
    PROVE  Vals(LoadAs(p, SubSeq(c, 1, n)).data) \subseteq Vals(LoadAs(p, c).data)
<1>1. IsPrefix(LoadAs(p, SubSeq(c, 1, n)).data, LoadAs(p, c).data)
  BY PrefixLoads
<1>2. Len(c) \in Nat /\ c \in Seq(Pieces)
  BY WholeFile DEF Contents
<1>3. SubSeq(c, 1, n) \in Seq(Pieces)
  BY <1>2
<1>4. LoadAs(p, SubSeq(c, 1, n)).data \in Data /\ LoadAs(p, c).data \in Data
  BY <1>3, LoadType DEF LoadStates, Contents
<1> QED  BY <1>1, <1>4, PrefixVals

\* With an empty buffer the file alone holds the data set.
LEMMA WholeVals ==
    ASSUME NEW p \in BOOLEAN, NEW calm, NEW d, NEW a, NEW f, NEW k, Holds(p, calm, d, a, f, k),
           a.state = "ON", a.buf = <<>>
    PROVE  LoadAs(p, f.content).data = d /\ SubSeq(f.content, 1, Len(f.content)) = f.content
<1>1. f.content \in Contents
  BY DEF Holds, Typed, FileTypes
<1>2. Stream(p, Cat(f.content, a.buf), d, a.selected_db)
  BY DEF Holds, OnHolds
<1>3. Cat(f.content, a.buf) = f.content
  BY <1>1, CatEmpty
<1> QED  BY <1>1, <1>2, <1>3, WholeFile DEF Stream

\* One more entry is one more value.
LEMMA ValsAppend ==
    ASSUME NEW d \in Data, NEW e \in Entries
    PROVE  Vals(Append(d, e)) \subseteq Vals(d) \cup {e[2]}
<1>1. d \in Seq(Entries) /\ Len(d) \in Nat
  BY DEF Data
<1>2. /\ Len(Append(d, e)) = Len(d) + 1 /\ Append(d, e)[Len(d) + 1] = e
      /\ \A i \in 1..Len(d) : Append(d, e)[i] = d[i]
  BY <1>1
<1>3. \A i \in 1..(Len(d) + 1) : i \in 1..Len(d) \/ i = Len(d) + 1
  BY <1>1
<1> QED  BY <1>2, <1>3 DEF Vals

\* A piece of a command adds no other value than its own.
LEMMA ReadAdds ==
    ASSUME NEW p \in BOOLEAN, NEW st \in LoadStates, NEW x \in CmdPieces, NEW V, Vals(st.data) \subseteq V,
           x.op = "set" => x.arg \in V
    PROVE  Vals(Read(p, st, x).data) \subseteq V
<1> DEFINE r == Read(p, st, x)
<1>1. st.data \in Data /\ <<st.db, x.arg>> \in Entries /\ <<st.db, x.arg>>[2] = x.arg
  BY DEF LoadStates, CmdPieces, Entries
<1>2. CASE st.bad
  BY <1>2, ReadBad
<1>3. CASE ~st.bad /\ x.part = 1 /\ st.half = None
  <2>1. r = AfterFirst(st, x)
    BY <1>3, ReadFirst
  <2>2. AfterFirst(st, x).data = st.data
    BY DEF AfterFirst, LoadStates
  <2> QED  BY <2>1, <2>2
<1>4. CASE ~st.bad /\ x.part = 2 /\ st.half = [op |-> x.op, arg |-> x.arg, part |-> 1]
  <2>1. r = AfterCommand(st, x)
    BY <1>4, ReadSecond
  <2>2. AfterCommand(st, x).data = IF x.op = "set" THEN Append(st.data, <<st.db, x.arg>>) ELSE st.data
    BY DEF AfterCommand, LoadStates
  <2>3. Vals(Append(st.data, <<st.db, x.arg>>)) \subseteq Vals(st.data) \cup {x.arg}
    BY <1>1, ValsAppend
  <2> QED  BY <2>1, <2>2, <2>3
<1>5. CASE ~st.bad /\ ~ReadCases(p, st, x)
  <2>1. x \in Pieces /\ x \notin SnapPieces
    BY DEF Pieces, CmdPieces, SnapPieces, Ops
  <2>2. r = [st EXCEPT !.bad = TRUE]
    BY <1>5, <2>1, ReadOther DEF ReadCases
  <2>3. r.data = st.data
    BY <2>2 DEF LoadStates
  <2> QED  BY <2>3
<1>6. x \notin SnapPieces
  BY DEF CmdPieces, SnapPieces, Ops
<1> QED  BY <1>2, <1>3, <1>4, <1>5, <1>6 DEF ReadCases

\* The values that were written into a buffer.
Sets(q) == {q[i].arg : i \in {j \in 1..Len(q) : q[j].op = "set"}}

\* Commands added to a file add no other values than theirs.
LEMMA LoadAdds ==
    ASSUME NEW p \in BOOLEAN, NEW c \in Contents, NEW q \in Seq(CmdPieces)
    PROVE  Vals(LoadAs(p, Cat(c, q)).data) \subseteq Vals(LoadAs(p, c).data) \cup Sets(q)
<1> DEFINE F == Cat(c, q)
           l == Len(c)
           m == Len(q)
           V == Vals(LoadAs(p, c).data) \cup Sets(q)
           L(i) == LoadAs(p, SubSeq(F, 1, l + i))
           S == {i \in Nat : Vals(L(i).data) \subseteq V}
<1>1. c \in Seq(Pieces) /\ q \in Seq(Pieces) /\ l \in Nat /\ m \in Nat
  BY CmdsAreContents DEF Contents
<1>2. F \in Contents /\ Len(F) = l + m /\ SubSeq(F, 1, l) = c /\ \A i \in 1..m : F[l + i] = q[i]
  BY <1>1 DEF Cat, Contents
<1>3. SubSeq(F, 1, l + m) = F
  BY <1>2, WholeFile
<1>4. \A i \in 1..m : q[i] \in CmdPieces /\ (q[i].op = "set" => q[i].arg \in V)
  BY DEF Sets
<1> HIDE DEF F, V
<1>5. 0 \in S
  <2>1. l + 0 = l
    BY <1>1
  <2> QED  BY <1>2, <2>1 DEF V
<1>6. \A i \in 0..(m - 1) : i \in S => i + 1 \in S
  <2> TAKE i \in 0..(m - 1)
  <2> HAVE i \in S
  <2> DEFINE j == l + i
  <2>1. j \in 0..(Len(F) - 1) /\ i + 1 \in 1..m /\ l + (i + 1) = j + 1
    BY <1>1, <1>2
  <2>2. SubSeq(F, 1, j) \in Contents /\ LoadAs(p, SubSeq(F, 1, j + 1)) = Read(p, LoadAs(p, SubSeq(F, 1, j)), F[j + 1])
    BY <1>2, <2>1, NextPiece
  <2>3. F[j + 1] = q[i + 1]
    BY <1>2, <2>1
  <2>4. L(i) \in LoadStates
    BY <2>2, LoadType
  <2>5. L(i + 1) = Read(p, L(i), q[i + 1])
    BY <2>1, <2>2, <2>3
  <2>6. q[i + 1] \in CmdPieces /\ (q[i + 1].op = "set" => q[i + 1].arg \in V)
    BY <1>4, <2>1
  <2>7. Vals(L(i).data) \subseteq V
    OBVIOUS
  <2> HIDE DEF L
  <2>8. Vals(L(i + 1).data) \subseteq V
    BY <2>4, <2>5, <2>6, <2>7, ReadAdds
  <2> QED  BY <2>8
<1>8. m \in Nat
  BY <1>1
<1> HIDE DEF S, m
<1>9. \A i \in 0..m : i \in S
  BY <1>5, <1>6, <1>8, Climb
<1>7. m \in S
  BY <1>8, <1>9
<1> QED  BY <1>3, <1>7 DEF S, F, V

\* A part of a part.
LEMMA CutCut ==
    ASSUME NEW F \in Contents, NEW m \in 0..Len(F), NEW n \in 0..m
    PROVE  SubSeq(SubSeq(F, 1, m), 1, n) = SubSeq(F, 1, n)
<1> DEFINE c == SubSeq(F, 1, m)
           u == SubSeq(c, 1, n)
           w == SubSeq(F, 1, n)
<1>1. F \in Seq(Pieces) /\ Len(F) \in Nat
  BY WholeFile DEF Contents
<1>2. m \in Nat /\ n \in Nat /\ n <= m /\ m <= Len(F)
  BY <1>1
<1>3. c \in Seq(Pieces) /\ Len(c) = m /\ \A i \in 1..m : c[i] = F[i]
  BY <1>1, <1>2
<1> HIDE DEF c
<1>4. u \in Seq(Pieces) /\ Len(u) = n /\ \A i \in 1..n : u[i] = c[i]
  BY <1>2, <1>3
<1>5. w \in Seq(Pieces) /\ Len(w) = n /\ \A i \in 1..n : w[i] = F[i]
  BY <1>1, <1>2
<1> HIDE DEF u, w
<1>6. \A i \in 1..n : u[i] = w[i]
  BY <1>2, <1>3, <1>4, <1>5
<1>7. u = w
  BY <1>4, <1>5, <1>6, SeqEqual
<1> QED  BY <1>7 DEF u, w, c

\* What a load cuts off does not matter to what was synced.
LEMMA KeptSynced ==
    ASSUME NEW p \in BOOLEAN, NEW c \in Contents, NEW k, KeptWell(p, c, k), NEW n \in 0..Len(c)
    PROVE  LoadAs(p, SubSeq(k, 1, Smaller(n, Len(k)))).data = LoadAs(p, SubSeq(c, 1, n)).data
<1>1. /\ k \in Contents /\ Len(k) \in {Len(c), Len(c) - 1} /\ k = SubSeq(c, 1, Len(k))
      /\ LoadAs(p, k).data = LoadAs(p, c).data
  BY DEF KeptWell
<1>2. Len(c) \in Nat /\ Len(k) \in Nat /\ SubSeq(c, 1, Len(c)) = c /\ SubSeq(k, 1, Len(k)) = k
  BY <1>1, WholeFile
<1>5. Len(c) \in Nat /\ Len(k) \in Nat
  BY <1>2
<1>6. n \in Nat /\ n <= Len(c)
  BY <1>5
<1>7. Len(k) = Len(c) \/ Len(k) = Len(c) - 1
  BY <1>1
<1>3. CASE n <= Len(k)
  <2>1. Smaller(n, Len(k)) = n
    BY <1>5, <1>6, <1>3 DEF Smaller
  <2>2. SubSeq(k, 1, n) = SubSeq(c, 1, n)
    <3>1. c \in Seq(Pieces) /\ k \in Seq(Pieces) /\ n \in Nat /\ n <= Len(c)
      BY <1>1, <1>6 DEF Contents
    <3>2. \A i \in 1..Len(k) : SubSeq(c, 1, Len(k))[i] = c[i]
      <4> DEFINE l == Len(k)
      <4>1. l \in Nat /\ l <= Len(c)
        BY <1>5, <1>7
      <4> HIDE DEF l
      <4>2. \A i \in 1..l : SubSeq(c, 1, l)[i] = c[i]
        BY <4>1, <3>1
      <4> QED  BY <4>2 DEF l
    <3>3. \A i \in 1..Len(k) : k[i] = c[i]
      BY <1>1, <3>2
    <3>4. \A i \in 1..n : k[i] = c[i] /\ k[i] \in Pieces /\ c[i] \in Pieces
      BY <1>5, <1>3, <3>1, <3>3
    <3>5. /\ SubSeq(k, 1, n) \in Seq(Pieces) /\ Len(SubSeq(k, 1, n)) = n
          /\ \A i \in 1..n : SubSeq(k, 1, n)[i] = k[i]
      BY <1>5, <1>3, <3>1
    <3>6. /\ SubSeq(c, 1, n) \in Seq(Pieces) /\ Len(SubSeq(c, 1, n)) = n
          /\ \A i \in 1..n : SubSeq(c, 1, n)[i] = c[i]
      BY <1>5, <3>1
    <3> DEFINE u == SubSeq(k, 1, n)
               w == SubSeq(c, 1, n)
    <3>7. u \in Seq(Pieces) /\ w \in Seq(Pieces) /\ Len(u) = n /\ Len(w) = n /\ \A i \in 1..n : u[i] = w[i]
      BY <3>4, <3>5, <3>6
    <3> HIDE DEF u, w
    <3>8. u = w
      BY <3>7, SeqEqual
    <3> QED  BY <3>8 DEF u, w
  <2> QED  BY <2>1, <2>2
<1>4. CASE ~(n <= Len(k))
  <2>1. n = Len(c) /\ Smaller(n, Len(k)) = Len(k)
    BY <1>4, <1>5, <1>6, <1>7 DEF Smaller
  <2> QED  BY <1>1, <1>2, <2>1
<1> QED  BY <1>3, <1>4

\* A restart.
LEMMA RestartAck ==
    ASSUME AofInv, Sane(setup), NEW c \in Contents, SnapshotFirst(c), ~LoadAs(setup.preamble, c).bad,
           setup.preamble \/ Calm(setup) => LoadAs(setup.preamble, c).half = None /\ ~LoadAs(setup.preamble, c).multi,
           NEW n \in 0..Len(c), RestartFrom(c, n), ghost'.replies = {},
           ghost'.acked \subseteq Vals(LoadAs(setup.preamble, SubSeq(c, 1, n)).data)
    PROVE  Durable2
<1> DEFINE p == setup.preamble
           k == Kept(p, c)
<1>1. LoadedFile(c) = k /\ Load(c) = LoadAs(p, c)
  BY DEF LoadedFile, Kept, Load
<1>2. /\ aof' = StartedAof(Len(k)) /\ file' = [content |-> k, synced |-> Smaller(n, Len(k))]
  BY <1>1 DEF RestartFrom
<1>3. p \in BOOLEAN
  BY InvParts
<1>4. KeptWell(p, c, k)
  BY <1>3, KeptIsWell
<1> HIDE DEF p, k
<1>5. LoadAs(p, SubSeq(k, 1, Smaller(n, Len(k)))).data = LoadAs(p, SubSeq(c, 1, n)).data
  BY <1>3, <1>4, KeptSynced
<1>6. file'.content = k /\ file'.synced = Smaller(n, Len(k))
  BY <1>2
<1>7. ghost'.acked \subseteq Vals(LoadAs(p, SubSeq(file'.content, 1, file'.synced)).data)
  BY <1>5, <1>6 DEF p
<1>8. aof'.write_ok = TRUE /\ aof'.postponed = FALSE /\ aof'.state = "ON"
  BY <1>2 DEF StartedAof
<1> QED  BY <1>7, <1>8 DEF Durable2, Durable, p

\* A step that changes nothing it is about.
LEMMA QuietAck ==
    ASSUME AckInv, UNCHANGED <<data, file, ghost>>, aof'.buf = aof.buf,
           aof'.state = aof.state \/ (aof.state # "ON" /\ aof'.state # "ON"),
           aof'.write_ok = aof.write_ok, aof'.postponed = aof.postponed
    PROVE  Durable2
<1>1. data' = data /\ file' = file /\ ghost' = ghost
  OBVIOUS
<1> QED  BY <1>1 DEF AckInv, Durable2, Durable

\* Rewrites and saves starting, going on or failing, and CONFIG SET appendonly yes.
LEMMA OtherAck ==
    ASSUME AofInv, AckInv, \/ bgrewriteaofCommand \/ aofChildWriteDiffData \/ ChildAsksToStop
                           \/ aofChildPipeReadable \/ ChildExits \/ ChildFails \/ RewriteFailed
                           \/ startAppendOnly \/ bgsave \/ Tick
    PROVE  Durable2
<1>0. aof \in AofTypes
  BY InvParts
<1>1. CASE bgrewriteaofCommand \/ bgsave \/ Tick
  <2>1. UNCHANGED <<data, file, ghost>>
    BY <1>1 DEF bgrewriteaofCommand, Rewrite, bgsave, Tick
  <2>2. \/ aof' = Forked \/ aof' = [aof EXCEPT !.scheduled = TRUE] \/ aof' = [aof EXCEPT !.rdb_child = TRUE]
        \/ aof' = [aof EXCEPT !.rdb_child = FALSE] \/ aof' = [aof EXCEPT !.elapsed = TRUE]
    BY <1>1 DEF bgrewriteaofCommand, Rewrite, bgsave, Tick
  <2>3. /\ aof'.buf = aof.buf /\ aof'.state = aof.state
        /\ aof'.write_ok = aof.write_ok /\ aof'.postponed = aof.postponed
    BY <1>0, <2>2 DEF Forked, AofTypes
  <2> QED  BY <2>1, <2>3, QuietAck
<1>2. CASE aofChildWriteDiffData
  <2>1. UNCHANGED <<data, file, ghost>>
    BY <1>2 DEF aofChildWriteDiffData
  <2>2. PICK q : aof' = [aof EXCEPT !.rwbuf = q]
    BY <1>2 DEF aofChildWriteDiffData
  <2>3. /\ aof'.buf = aof.buf /\ aof'.state = aof.state
        /\ aof'.write_ok = aof.write_ok /\ aof'.postponed = aof.postponed
    BY <1>0, <2>2 DEF AofTypes
  <2> QED  BY <2>1, <2>3, QuietAck
<1>3. CASE ChildAsksToStop \/ aofChildPipeReadable \/ ChildExits \/ ChildFails
  BY <1>3, QuietAck DEF ChildAsksToStop, aofChildPipeReadable, ChildExits, ChildFails
<1>4. CASE RewriteFailed
  <2>1. UNCHANGED <<data, file, ghost>> /\ aof' = Cleaned(aof)
    BY <1>4 DEF RewriteFailed
  <2>2. /\ aof'.buf = aof.buf /\ aof'.state = aof.state
        /\ aof'.write_ok = aof.write_ok /\ aof'.postponed = aof.postponed
    BY <1>0, <2>1, CleanedIs
  <2> QED  BY <2>1, <2>2, QuietAck
<1>5. CASE startAppendOnly
  <2>1. UNCHANGED <<data, file, ghost>> /\ aof.state = "OFF"
    BY <1>5 DEF startAppendOnly
  <2>2. \/ aof' = [aof EXCEPT !.state = "WAIT_REWRITE", !.fd = "file", !.elapsed = FALSE, !.scheduled = TRUE]
        \/ aof' = [Forked EXCEPT !.state = "WAIT_REWRITE", !.fd = "file", !.elapsed = FALSE]
        \/ aof' = [aof EXCEPT !.fd = "closed", !.elapsed = FALSE]
    BY <1>5 DEF startAppendOnly
  <2>3. /\ Forked \in AofTypes /\ Forked.buf = aof.buf
        /\ Forked.write_ok = aof.write_ok /\ Forked.postponed = aof.postponed
    BY <1>0 DEF Forked, AofTypes
  <2> DEFINE fk == Forked
  <2>4. \/ aof' = [aof EXCEPT !.state = "WAIT_REWRITE", !.fd = "file", !.elapsed = FALSE, !.scheduled = TRUE]
        \/ aof' = [fk EXCEPT !.state = "WAIT_REWRITE", !.fd = "file", !.elapsed = FALSE]
        \/ aof' = [aof EXCEPT !.fd = "closed", !.elapsed = FALSE]
    BY <2>2
  <2> HIDE DEF fk
  <2>5. /\ aof'.buf = aof.buf /\ aof'.state # "ON"
        /\ aof'.write_ok = aof.write_ok /\ aof'.postponed = aof.postponed
    BY <1>0, <2>1, <2>3, <2>4 DEF AofTypes, fk
  <2> QED  BY <2>1, <2>5, QuietAck
<1> QED  BY <1>1, <1>2, <1>3, <1>4, <1>5

\* The background thread syncs.
LEMMA BioAck ==
    ASSUME AofInv, AckInv, BioFsync
    PROVE  Durable2
<1> DEFINE p == setup.preamble
<1>1. data' = data /\ aof' = aof /\ ghost' = ghost
      /\ (file' = file \/ file' = [file EXCEPT !.synced = Len(file.content)])
  BY DEF BioFsync
<1>2. CASE file' = file
  BY <1>1, <1>2 DEF AckInv, Durable2
<1>3. CASE file' = [file EXCEPT !.synced = Len(file.content)]
  <2>1. /\ p \in BOOLEAN /\ file \in FileTypes /\ file.content \in Contents /\ file.synced \in Nat
        /\ SnapshotFirst(file.content) /\ ~LoadAs(p, file.content).bad /\ file.synced <= Len(file.content)
    BY InvParts DEF AofInv, Holds, FileLoads
  <2> DEFINE l == Len(file.content)
  <2>2. SubSeq(file.content, 1, l) = file.content /\ l \in Nat
    BY <2>1, WholeFile
  <2>3. file.synced \in 0..l
    BY <2>1, <2>2
  <2>4. Vals(LoadAs(p, SubSeq(file.content, 1, file.synced)).data) \subseteq Vals(LoadAs(p, file.content).data)
    BY <2>1, <2>3, SyncedVals
  <2>5. file' = [file EXCEPT !.synced = l]
    BY <1>3
  <2> HIDE DEF l
  <2>6. file'.content = file.content /\ file'.synced = l
    BY <2>1, <2>5 DEF FileTypes
  <2>7. ghost.acked \subseteq Vals(LoadAs(p, SubSeq(file'.content, 1, file'.synced)).data)
    BY <2>2, <2>4, <2>6 DEF AckInv, Durable
  <2> QED  BY <1>1, <2>6, <2>7 DEF AckInv, Durable2, Durable, l
<1> QED  BY <1>1, <1>2, <1>3

\* A reply to a command that was just executed.
LEMMA FeedAck ==
    ASSUME AofInv, AckInv, Holds2, NEW ents \in Data, ents # <<>>, data' = Cat(data, ents), file' = file,
           NEW db, NEW cmds, feedAppendOnlyFile(db, cmds),
           ghost'.replies \subseteq ghost.replies \cup Vals(ents), ghost'.acked = ghost.acked
    PROVE  Durable2
<1> DEFINE p == setup.preamble
           calm == Calm(setup)
<1>1. data \in Data /\ aof \in AofTypes /\ p \in BOOLEAN
  BY InvParts
<1>2. /\ aof'.write_ok = aof.write_ok /\ aof'.postponed = aof.postponed /\ aof'.state = aof.state
  BY <1>1 DEF feedAppendOnlyFile, AofTypes
<1>3. data \in Seq(Entries) /\ ents \in Seq(Entries)
  BY <1>1 DEF Data
<1>4. Vals(data) \subseteq Vals(data') /\ Vals(ents) \subseteq Vals(data') /\ Len(data') > Len(data)
  <2> DEFINE e == data \o ents
  <2>1. /\ Len(data) \in Nat /\ Len(ents) \in Nat /\ Len(ents) > 0 /\ Len(e) = Len(data) + Len(ents)
        /\ \A i \in 1..Len(data) : e[i] = data[i]
        /\ \A i \in 1..Len(ents) : e[Len(data) + i] = ents[i]
    BY <1>3
  <2>2. data' = e
    BY DEF Cat
  <2> HIDE DEF e
  <2> DEFINE m == Len(data)
             n == Len(ents)
  <2>3. /\ \A i \in 1..m : i \in 1..Len(e)
        /\ \A i \in 1..n : m + i \in 1..Len(e)
        /\ Len(e) > m
    BY <2>1
  <2>4. \A i \in 1..m : data[i][2] \in {e[j][2] : j \in 1..Len(e)}
    BY <2>1, <2>3
  <2>5. \A i \in 1..n : ents[i][2] \in {e[j][2] : j \in 1..Len(e)}
    BY <2>1, <2>3
  <2>6. Vals(data) \subseteq Vals(e) /\ Vals(ents) \subseteq Vals(e)
    BY <2>4, <2>5 DEF Vals
  <2> HIDE DEF n
  <2> QED  BY <2>2, <2>3, <2>6 DEF m
<1>5. ~(aof'.state = "ON" /\ aof'.buf = <<>>)
  <2> SUFFICES ASSUME aof'.state = "ON", aof'.buf = <<>> PROVE FALSE
    OBVIOUS
  <2>1. Holds(p, calm, data', aof', file', child')
    BY DEF Holds2
  <2>2. LoadAs(p, file'.content).data = data'
    BY <1>1, <2>1, WholeVals
  <2>3. IsPrefix(LoadAs(p, file.content).data, data)
    BY DEF AofInv, Holds, FileLoads
  <2>4. IsPrefix(data', data)
    BY <2>2, <2>3
  <2>5. Len(data') <= Len(data)
    BY <2>4 DEF IsPrefix
  <2>6. data' \in Seq(Entries)
    BY <1>3 DEF Cat
  <2>7. Len(data) \in Nat /\ Len(data') \in Nat
    BY <1>3, <2>6
  <2> QED  BY <1>4, <2>5, <2>7
<1>6. ghost'.replies \subseteq Vals(data')
  BY <1>4 DEF AckInv, Durable
<1> QED  BY <1>2, <1>5, <1>6 DEF AckInv, Durable2, Durable

\* Writes and transactions.
LEMMA WriteAck ==
    ASSUME AofInv, AckInv, Holds2, NEW db \in setup.dbs, Write(db) \/ Exec(db)
    PROVE  Durable2
<1> DEFINE v == used.writes + 1
           w == v + 1
           x == <<db, v>>
           y == <<db, w>>
<1>1. v \in Nat /\ w \in Nat /\ db \in Nat /\ data \in Data /\ ghost \in GhostTypes
  BY InvParts DEF AofInv, UsedTypes
<1>2. x \in Entries /\ y \in Entries /\ x[2] = v /\ y[2] = w
  BY <1>1 DEF Entries
<1>3. CASE Write(db)
  <2>1. /\ data' = Append(data, x) /\ feedAppendOnlyFile(db, Cmd("set", v)) /\ file' = file
        /\ ghost' = [ghost EXCEPT !.replies = ghost.replies \cup Replies({v})]
    BY <1>3 DEF Write
  <2>2. Replies({v}) \subseteq {v}
    BY DEF Replies
  <2> DEFINE r == ghost.replies \cup Replies({v})
  <2>3. ghost' = [ghost EXCEPT !.replies = r] /\ r \subseteq ghost.replies \cup {v}
    BY <2>1, <2>2
  <2> HIDE DEF r, x, v
  <2>4. ghost'.replies \subseteq ghost.replies \cup {v} /\ ghost'.acked = ghost.acked
    BY <1>1, <2>3 DEF GhostTypes
  <2> DEFINE e == <<x>>
  <2>5. e \in Data /\ e # <<>> /\ data' = Cat(data, e) /\ Len(e) = 1 /\ e[1] = x
    BY <1>1, <1>2, <2>1 DEF Data, Cat
  <2> HIDE DEF e
  <2>6. v \in Vals(e)
    BY <1>2, <2>5 DEF Vals
  <2>7. ghost'.replies \subseteq ghost.replies \cup Vals(e)
    BY <2>4, <2>6
  <2> QED  BY <2>1, <2>4, <2>5, <2>7, FeedAck
<1>4. CASE Exec(db)
  <2>1. /\ data' = data \o <<x, y>> /\ feedAppendOnlyFile(db, TxCommands(v)) /\ file' = file
        /\ ghost' = [ghost EXCEPT !.txs = ghost.txs \cup {v}, !.replies = ghost.replies \cup Replies({v, w})]
    BY <1>4 DEF Exec
  <2>2. Replies({v, w}) \subseteq {v, w}
    BY DEF Replies
  <2> DEFINE r == ghost.replies \cup Replies({v, w})
             t == ghost.txs \cup {v}
  <2>3. ghost' = [ghost EXCEPT !.txs = t, !.replies = r] /\ r \subseteq ghost.replies \cup {v, w}
    BY <2>1, <2>2
  <2> HIDE DEF r, t, x, y, v, w
  <2>4. ghost'.replies \subseteq ghost.replies \cup {v, w} /\ ghost'.acked = ghost.acked
    BY <1>1, <2>3 DEF GhostTypes
  <2> DEFINE e == <<x, y>>
  <2>5. e \in Data /\ e # <<>> /\ data' = Cat(data, e) /\ Len(e) = 2 /\ e[1] = x /\ e[2] = y
    BY <1>1, <1>2, <2>1 DEF Data, Cat
  <2> HIDE DEF e
  <2>6. v \in Vals(e) /\ w \in Vals(e)
    BY <1>2, <2>5 DEF Vals
  <2>7. ghost'.replies \subseteq ghost.replies \cup Vals(e)
    BY <2>4, <2>6
  <2> QED  BY <2>1, <2>4, <2>5, <2>7, FeedAck
<1> QED  BY <1>3, <1>4

\* What was synced stays when more is written.
LEMMA WriteKeeps ==
    ASSUME AofInv, aof.state = "ON", NEW res, WriteIs(res)
    PROVE  LET c == AfterWrite(res).content
           IN  file.synced \in 0..Len(c) /\ SubSeq(c, 1, file.synced) = SubSeq(file.content, 1, file.synced)
<1> DEFINE c == AfterWrite(res).content
           F == file.content
           s == file.synced
<1>1. aof \in AofTypes /\ F \in Contents /\ s \in Nat /\ s <= Len(F)
  BY InvParts DEF Holds, FileLoads
<1>2. Len(F) \in Nat
  BY <1>1, WholeFile
<1>3. CASE res.undone
  <2>1. c = F
    BY <1>3 DEF WriteIs
  <2> HIDE DEF c, F, s
  <2> QED  BY <1>1, <1>2, <2>1 DEF c, F, s
<1>4. CASE ~res.undone
  <2> DEFINE q == Written(aof, res.n)
  <2>1. c = Cat(F, q)
    BY <1>4 DEF WriteIs
  <2>2. res.n \in 0..Len(aof.buf)
    BY DEF WriteIs
  <2>3. q \in Seq(CmdPieces)
    BY <1>1, <2>2, SplitBuffer
  <2>4. q \in Seq(Pieces) /\ F \in Seq(Pieces)
    BY <1>1, <2>3, CmdsAreContents DEF Contents
  <2> HIDE DEF c, F, q, s
  <2>5. c = F \o q
    BY <2>1 DEF Cat
  <2>6. c \in Seq(Pieces) /\ Len(c) = Len(F) + Len(q) /\ Len(q) \in Nat /\ \A i \in 1..Len(F) : c[i] = F[i]
    BY <2>4, <2>5
  <2>7. s <= Len(c) /\ Len(c) \in Nat
    BY <1>1, <1>2, <2>6
  <2>8. SubSeq(c, 1, s) \in Seq(Pieces) /\ Len(SubSeq(c, 1, s)) = s /\ \A i \in 1..s : SubSeq(c, 1, s)[i] = c[i]
    BY <1>1, <2>6, <2>7
  <2>9. SubSeq(F, 1, s) \in Seq(Pieces) /\ Len(SubSeq(F, 1, s)) = s /\ \A i \in 1..s : SubSeq(F, 1, s)[i] = F[i]
    BY <1>1, <2>4
  <2>10. \A i \in 1..s : c[i] = F[i]
    BY <1>1, <1>2, <2>6
  <2> DEFINE u == SubSeq(c, 1, s)
             w == SubSeq(F, 1, s)
  <2>11. u \in Seq(Pieces) /\ w \in Seq(Pieces) /\ Len(u) = s /\ Len(w) = s /\ \A i \in 1..s : u[i] = w[i]
    BY <2>8, <2>9, <2>10
  <2> HIDE DEF u, w
  <2>12. u = w
    BY <2>11, SeqEqual
  <2>13. s \in 0..Len(c)
    BY <1>1, <2>7
  <2> QED  BY <2>12, <2>13 DEF u, w, c, F, s
<1>5. res.undone \in BOOLEAN
  BY DEF WriteIs
<1> QED  BY <1>3, <1>4, <1>5

\* A flush that writes the whole buffer.
LEMMA FullFlush ==
    ASSUME AofInv, aof.state = "ON", NEW res, WriteIs(res), ~(res.n < Len(aof.buf))
    PROVE  LET a == Flushed(res).aof
               f == Flushed(res).file
           IN  /\ res.n = Len(aof.buf) /\ a.buf = <<>> /\ a.state = "ON" /\ a.write_ok = TRUE /\ a.postponed = FALSE
               /\ f.content = Cat(file.content, aof.buf) /\ AfterWrite(res).content = Cat(file.content, aof.buf)
               /\ Strict => f.synced = Len(f.content)
<1>1. aof \in AofTypes /\ file.content \in Contents
  BY InvParts
<1>2. res.n \in 0..Len(aof.buf) /\ (res.undone => res.n < Len(aof.buf)) /\ res.undone \in BOOLEAN
  BY DEF WriteIs
<1>3. Len(aof.buf) \in Nat /\ (res.n = Len(aof.buf) => Written(aof, res.n) = aof.buf /\ Unwritten(aof, res.n) = <<>>)
  BY <1>1, <1>2, SplitBuffer
<1>6. Len(aof.buf) \in Nat
  BY <1>3
<1>4. res.n = Len(aof.buf) /\ ~res.undone
  BY <1>2, <1>6
<1>5. AfterWrite(res).content = Cat(file.content, aof.buf) /\ AfterWrite(res).buf = <<>>
  BY <1>3, <1>4 DEF WriteIs
<1> QED  BY <1>4, <1>5, FlushedIs DEF Strict

\* beforeSleep() writes and syncs before replies are sent.
LEMMA SleepAck ==
    ASSUME AofInv, Sane(setup), Strict, AckInv, Holds2, beforeSleep
    PROVE  Durable2
<1> DEFINE p == setup.preamble
           calm == Calm(setup)
           acks == ghost.acked \cup ghost.replies
<1>1. PICK late \in BOOLEAN, res \in WriteResults(Len(aof.buf)) :
         /\ Flush(FALSE, late, res)
         /\ ghost' = [ghost EXCEPT !.replies = {},
                                !.acked = IF aof.state = "ON" /\ res.n = Len(aof.buf)
                                          THEN ghost.acked \cup ghost.replies ELSE ghost.acked]
  BY DEF beforeSleep
<1>2. /\ p \in BOOLEAN /\ aof \in AofTypes /\ file \in FileTypes /\ data \in Data /\ ghost \in GhostTypes
      /\ file.content \in Contents /\ file.synced \in Nat /\ file.synced <= Len(file.content)
      /\ SnapshotFirst(file.content) /\ ~LoadAs(p, file.content).bad
      /\ IsPrefix(LoadAs(p, file.content).data, data)
  BY InvParts DEF AofInv, Holds, FileLoads
<1>3. /\ ghost'.replies = {}
      /\ ghost'.acked = IF aof.state = "ON" /\ res.n = Len(aof.buf) THEN acks ELSE ghost.acked
  <2> DEFINE k == IF aof.state = "ON" /\ res.n = Len(aof.buf) THEN acks ELSE ghost.acked
             r == {}
  <2>1. ghost' = [ghost EXCEPT !.replies = r, !.acked = k]
    BY <1>1
  <2> HIDE DEF k, r
  <2>2. ghost'.replies = r /\ ghost'.acked = k
    BY <1>2, <2>1 DEF GhostTypes
  <2> QED  BY <2>2 DEF k, r
<1>4. acks \subseteq Vals(data) /\ ghost.acked \subseteq Vals(LoadAs(p, file.content).data)
  <2>1. Len(file.content) \in Nat
    BY <1>2, WholeFile
  <2>2. file.synced \in 0..Len(file.content)
    BY <1>2, <2>1
  <2>3. Vals(LoadAs(p, SubSeq(file.content, 1, file.synced)).data) \subseteq Vals(LoadAs(p, file.content).data)
    BY <1>2, <2>2, SyncedVals
  <2>4. LoadAs(p, file.content).data \in Data
    BY <1>2, LoadType DEF LoadStates
  <2>5. Vals(LoadAs(p, file.content).data) \subseteq Vals(data)
    BY <1>2, <2>4, PrefixVals
  <2> QED  BY <2>3, <2>5 DEF AckInv, Durable
<1>5. CASE aof.buf = <<>>
  <2>1. data' = data /\ aof' = aof /\ file' = file
    BY <1>1, <1>5 DEF Flush
  <2>2. CASE aof.state = "ON" /\ ghost.replies # {}
    <3>1. file.synced = Len(file.content)
      BY <1>5, <2>2 DEF AckInv, Durable
    <3>2. Holds(p, calm, data, aof, file, child)
      BY DEF AofInv
    <3>3. LoadAs(p, file.content).data = data /\ SubSeq(file.content, 1, Len(file.content)) = file.content
      BY <1>2, <1>5, <2>2, <3>2, WholeVals
    <3>4. ghost'.acked \subseteq Vals(LoadAs(p, SubSeq(file.content, 1, file.synced)).data)
      BY <1>3, <1>4, <3>1, <3>3
    <3> QED  BY <1>3, <2>1, <2>2, <3>4 DEF AckInv, Durable2, Durable
  <2>3. CASE ~(aof.state = "ON" /\ ghost.replies # {})
    <3>1. ghost'.acked = ghost.acked
      BY <1>3, <2>3
    <3> QED  BY <1>3, <2>1, <3>1 DEF AckInv, Durable2, Durable
  <2> QED  BY <2>2, <2>3
<1>6. CASE aof.buf # <<>>
  <2>1. aof.state = "ON" /\ WriteIs(res)
    BY <1>1, <1>6, BufferOn, WriteCases
  <2>2. ~SyncInProgress /\ Fsync = "always"
    BY DEF Strict, SyncInProgress
  <2>3. CASE res.n < Len(aof.buf)
    <3> DEFINE c == AfterWrite(res).content
               n == file.synced
    <3>1. RestartFrom(c, n)
      BY <1>1, <1>6, <2>2, <2>3 DEF Flush, ExitOnError
    <3>2. /\ c \in Contents /\ SnapshotFirst(c) /\ ~LoadAs(p, c).bad
          /\ p \/ Calm(setup) => LoadAs(p, c).half = None /\ ~LoadAs(p, c).multi
      BY <2>1, WriteLoads
    <3>3. ghost'.acked = ghost.acked
      <4>1. Len(aof.buf) \in Nat /\ res.n \in Nat
        BY <1>2, <2>1 DEF AofTypes, WriteIs
      <4>2. res.n # Len(aof.buf)
        BY <2>3, <4>1
      <4> QED  BY <1>3, <4>2
    <3>4. n \in 0..Len(c) /\ SubSeq(c, 1, n) = SubSeq(file.content, 1, n)
      BY <2>1, WriteKeeps
    <3>5. ghost'.acked \subseteq Vals(LoadAs(p, SubSeq(c, 1, n)).data)
      BY <3>3, <3>4 DEF AckInv, Durable
    <3> HIDE DEF c, n
    <3> QED  BY <1>3, <3>1, <3>2, <3>4, <3>5, RestartAck
  <2>4. CASE ~(res.n < Len(aof.buf))
    <3>1. aof' = Flushed(res).aof /\ file' = Flushed(res).file /\ data' = data
      BY <1>1, <1>6, <2>2, <2>4 DEF Flush
    <3>3. file'.synced = Len(file'.content) /\ aof'.buf = <<>> /\ aof'.state = "ON"
          /\ aof'.write_ok = TRUE /\ aof'.postponed = FALSE
      BY <2>1, <2>4, <3>1, FullFlush
    <3>4. Holds(p, calm, data, aof', file', child')
      BY <3>1 DEF Holds2
    <3>5. LoadAs(p, file'.content).data = data /\ SubSeq(file'.content, 1, Len(file'.content)) = file'.content
      BY <1>2, <3>3, <3>4, WholeVals
    <3>6. ghost'.acked \subseteq Vals(data)
      BY <1>3, <1>4
    <3>7. ghost'.acked \subseteq Vals(LoadAs(p, SubSeq(file'.content, 1, file'.synced)).data)
      BY <3>3, <3>5, <3>6
    <3> QED  BY <1>3, <3>1, <3>3, <3>7 DEF Durable2, Durable
  <2> QED  BY <2>3, <2>4
<1> QED  BY <1>5, <1>6

\* What was acknowledged is in the data set.
LEMMA AckedVals ==
    ASSUME AofInv, AckInv
    PROVE  ghost.acked \subseteq Vals(data)
<1> DEFINE p == setup.preamble
<1>1. /\ p \in BOOLEAN /\ data \in Data /\ file.content \in Contents /\ file.synced \in Nat
      /\ file.synced <= Len(file.content) /\ SnapshotFirst(file.content) /\ ~LoadAs(p, file.content).bad
      /\ IsPrefix(LoadAs(p, file.content).data, data)
  BY InvParts DEF AofInv, Holds, FileLoads
<1>2. Len(file.content) \in Nat
  BY <1>1, WholeFile
<1>3. file.synced \in 0..Len(file.content)
  BY <1>1, <1>2
<1>4. Vals(LoadAs(p, SubSeq(file.content, 1, file.synced)).data) \subseteq Vals(LoadAs(p, file.content).data)
  BY <1>1, <1>3, SyncedVals
<1>5. LoadAs(p, file.content).data \in Data
  BY <1>1, LoadType DEF LoadStates
<1>6. Vals(LoadAs(p, file.content).data) \subseteq Vals(data)
  BY <1>1, <1>5, PrefixVals
<1> QED  BY <1>4, <1>6 DEF AckInv, Durable

\* A rewrite ends: the new file is synced before it replaces the old one.
LEMMA DoneAck ==
    ASSUME AofInv, Strict, AckInv, Holds2, RewriteDone
    PROVE  Durable2
<1> DEFINE p == setup.preamble
           calm == Calm(setup)
<1>1. /\ p \in BOOLEAN /\ aof \in AofTypes /\ data \in Data /\ file.content \in Contents /\ file.synced \in Nat
      /\ file.synced <= Len(file.content) /\ SnapshotFirst(file.content) /\ ~LoadAs(p, file.content).bad
      /\ IsPrefix(LoadAs(p, file.content).data, data)
      /\ (aof.state = "ON" => aof.fd = "file") /\ (aof.state # "ON" => aof.buf = <<>>)
  BY InvParts DEF AofInv, Holds, FileLoads, OnHolds, OffEmpty
<1>2. /\ aof' = Cleaned(Replaced(Len(file'.content))) /\ data' = data /\ ghost' = ghost
      /\ aof.fd # "none" => file'.synced = Len(file'.content)
  BY DEF RewriteDone, Strict
<1>3. file'.content \in Contents
  BY DEF Holds2, Holds, Typed, FileTypes
<1>4. Len(file'.content) \in Nat
  BY <1>3, WholeFile
<1> DEFINE r == Replaced(Len(file'.content))
<1>5. /\ r \in AofTypes /\ r.write_ok = aof.write_ok /\ r.postponed = aof.postponed
      /\ aof.fd = "none" => r = aof
      /\ aof.fd # "none" => r.buf = <<>> /\ r.state = IF aof.state = "WAIT_REWRITE" THEN "ON" ELSE aof.state
  BY <1>1, <1>4, ReplacedIs
<1> HIDE DEF r
<1>6. /\ aof'.state = r.state /\ aof'.buf = r.buf /\ aof'.write_ok = r.write_ok /\ aof'.postponed = r.postponed
  BY <1>2, <1>5, CleanedIs DEF r
<1>7. aof'.state = "ON" => aof'.buf = <<>> /\ file'.synced = Len(file'.content)
  BY <1>1, <1>2, <1>5, <1>6
<1>8. ghost.acked \subseteq Vals(data)
  BY AckedVals
<1>9. aof.state # "ON" => ghost.acked = {}
  BY DEF AckInv, Durable
<1>10. ghost.acked \subseteq Vals(LoadAs(p, SubSeq(file'.content, 1, file'.synced)).data)
  <2>1. CASE aof'.state = "ON"
    <3>1. Holds(p, calm, data, aof', file', child')
      BY <1>2 DEF Holds2
    <3>2. LoadAs(p, file'.content).data = data /\ SubSeq(file'.content, 1, Len(file'.content)) = file'.content
      BY <1>1, <1>7, <2>1, <3>1, WholeVals
    <3> QED  BY <1>7, <1>8, <2>1, <3>2
  <2>2. CASE aof'.state # "ON"
    <3>1. aof.state # "ON"
      BY <1>1, <1>5, <1>6, <2>2
    <3> QED  BY <1>9, <3>1
  <2> QED  BY <2>1, <2>2
<1>11. aof'.state # "ON" => aof.state # "ON"
  BY <1>1, <1>5, <1>6
<1> QED  BY <1>2, <1>5, <1>6, <1>7, <1>9, <1>10, <1>11 DEF AckInv, Durable2, Durable

\* CONFIG SET appendonly no: nothing is promised any more.
LEMMA StopAck ==
    ASSUME AofInv, Strict, AckInv, stopAppendOnly
    PROVE  Durable2
<1>1. PICK res \in WriteResults(Len(aof.buf)) :
         /\ Fsync = "always" => res.n = Len(aof.buf)
         /\ aof' = [(IF aof.buf = <<>> THEN [aof |-> aof, file |-> file, bio |-> bio] ELSE Flushed(res)).aof
                      EXCEPT !.state = "OFF", !.fd = "none", !.selected_db = -1, !.rwbuf = <<>>]
  BY DEF stopAppendOnly
<1> DEFINE a == IF aof.buf = <<>> THEN aof ELSE Flushed(res).aof
           nil == <<>>
           neg == -1
<1>2. aof' = [a EXCEPT !.state = "OFF", !.fd = "none", !.selected_db = neg, !.rwbuf = nil]
  BY <1>1
<1>3. a \in AofTypes /\ a.write_ok = TRUE /\ a.postponed = FALSE
  <2>1. CASE aof.buf = <<>>
    BY <2>1, InvParts DEF AckInv, Durable
  <2>2. CASE aof.buf # <<>>
    <3>1. aof.state = "ON" /\ WriteIs(res)
      BY <1>1, <2>2, BufferOn, WriteCases
    <3>2. res.n = Len(aof.buf)
      BY <1>1 DEF Strict
    <3> QED  BY <2>2, <3>1, <3>2, FlushedIs
  <2> QED  BY <2>1, <2>2
<1> HIDE DEF a, nil, neg
<1>4. aof'.write_ok = TRUE /\ aof'.postponed = FALSE /\ aof'.state = "OFF"
  BY <1>2, <1>3 DEF AofTypes
<1>5. data' = data /\ ghost' = [ghost EXCEPT !.acked = {}] /\ ghost \in GhostTypes
  BY DEF stopAppendOnly, AofInv
<1>6. ghost'.acked = {} /\ ghost'.replies = ghost.replies
  <2> DEFINE no == {}
  <2>1. ghost' = [ghost EXCEPT !.acked = no]
    BY <1>5
  <2> HIDE DEF no
  <2>2. ghost'.acked = no /\ ghost'.replies = ghost.replies
    BY <1>5, <2>1 DEF GhostTypes
  <2> QED  BY <2>2 DEF no
<1> QED  BY <1>4, <1>5, <1>6 DEF AckInv, Durable2, Durable

\* Replies that were not sent are lost in a restart.
LEMMA NoMoreReplies ==
    ASSUME AofInv, ghost' = NoReplies
    PROVE  ghost'.replies = {} /\ ghost'.acked = ghost.acked
<1> DEFINE no == {}
<1>1. ghost' = [ghost EXCEPT !.replies = no] /\ ghost \in GhostTypes
  BY DEF NoReplies, AofInv
<1> HIDE DEF no
<1>2. ghost'.replies = no /\ ghost'.acked = ghost.acked
  BY <1>1 DEF GhostTypes
<1> QED  BY <1>2 DEF no

\* A crash keeps what was synced.
LEMMA CrashAck ==
    ASSUME AofInv, Sane(setup), AckInv, Crash
    PROVE  Durable2
<1>1. PICK m \in Survives : RestartFrom(SubSeq(file.content, 1, m), file.synced)
  BY DEF Crash
<1> DEFINE F == file.content
           c == SubSeq(F, 1, m)
           n == file.synced
           p == setup.preamble
<1>2. /\ m \in 0..Len(F) /\ n <= m /\ c \in Contents /\ Len(c) = m /\ SnapshotFirst(c) /\ ~LoadAs(p, c).bad
      /\ p \/ Calm(setup) => LoadAs(p, c).half = None /\ ~LoadAs(p, c).multi
  BY SurvivorLoads
<1>3. n \in Nat /\ F \in Contents
  BY InvParts
<1>4. Len(F) \in Nat /\ F \in Seq(Pieces)
  BY <1>3, WholeFile DEF Contents
<1>8. m \in 0..Len(F) /\ n <= m /\ Len(c) = m /\ Len(F) \in Nat
  BY <1>2, <1>4
<1>5. n \in 0..Len(c) /\ SubSeq(c, 1, n) = SubSeq(F, 1, n)
  <2> HIDE DEF F, n
  <2>1. n \in 0..m
    BY <1>3, <1>8
  <2> QED  BY <1>3, <1>8, <2>1, CutCut
<1>6. ghost'.replies = {} /\ ghost'.acked = ghost.acked
  BY NoMoreReplies DEF Crash
<1>7. ghost'.acked \subseteq Vals(LoadAs(p, SubSeq(c, 1, n)).data)
  BY <1>5, <1>6 DEF AckInv, Durable
<1>9. RestartFrom(c, n)
  BY <1>1
<1> HIDE DEF F, c, n
<1> QED  BY <1>2, <1>5, <1>6, <1>7, <1>9, RestartAck

\* A rewritten file that was not synced keeps what the child wrote.
LEMMA CutAck ==
    ASSUME AofInv, Sane(setup), AckInv, CrashAfterRename
    PROVE  Durable2
<1> DEFINE o == child.out
           F == Cat(o, aof.rwbuf)
           l == Len(o)
           p == setup.preamble
<1>1. PICK n \in 0..Len(F) :
         LET c == SubSeq(F, 1, n)
         IN  /\ RestartFrom(c, l) /\ l \in 0..n
             /\ c \in Contents /\ Len(c) = n /\ SnapshotFirst(c) /\ ~LoadAs(p, c).bad
             /\ p \/ Calm(setup) => LoadAs(p, c).half = None /\ ~LoadAs(p, c).multi
  BY CutIs
<1> DEFINE c == SubSeq(F, 1, n)
<1>2. child # None /\ child.phase = "exited"
  BY DEF CrashAfterRename
<1>3. /\ o \in Contents /\ aof.rwbuf \in Seq(CmdPieces) /\ F \in Contents
      /\ aof.state # "OFF" => LoadAs(p, F).data = data
  BY <1>2, ExitedFile
<1>4. p \in BOOLEAN
  BY InvParts
<1>5. SubSeq(c, 1, l) = o
  <2>1. SubSeq(c, 1, l) = SubSeq(F, 1, l)
    BY <1>1, <1>3, CutCut
  <2>2. o \in Seq(Pieces) /\ aof.rwbuf \in Seq(Pieces)
    BY <1>3, CmdsAreContents DEF Contents
  <2>3. \A s, t \in Seq(Pieces) : SubSeq(s \o t, 1, Len(s)) = s
    OBVIOUS
  <2>4. SubSeq(F, 1, l) = o
    BY <2>2, <2>3 DEF Cat
  <2> QED  BY <2>1, <2>4
<1>6. ghost'.replies = {} /\ ghost'.acked = ghost.acked \ Differences
  <2> DEFINE no == {}
             a == ghost.acked \ Differences
  <2>1. ghost' = [ghost EXCEPT !.replies = no, !.acked = a] /\ ghost \in GhostTypes
    BY DEF CrashAfterRename, AofInv
  <2> HIDE DEF no, a
  <2>2. ghost'.replies = no /\ ghost'.acked = a
    BY <2>1 DEF GhostTypes
  <2> QED  BY <2>2 DEF no, a
<1>7. ghost'.acked \subseteq Vals(LoadAs(p, o).data)
  <2>1. CASE aof.state # "ON"
    BY <1>6, <2>1 DEF AckInv, Durable
  <2>2. CASE aof.state = "ON"
    <3>1. ghost.acked \subseteq Vals(LoadAs(p, F).data)
      BY <1>3, <2>2, AckedVals
    <3>2. Vals(LoadAs(p, F).data) \subseteq Vals(LoadAs(p, o).data) \cup Differences
      <4> HIDE DEF o, p
      <4>1. Vals(LoadAs(p, F).data) \subseteq Vals(LoadAs(p, o).data) \cup Sets(aof.rwbuf)
        BY <1>3, <1>4, LoadAdds
      <4> QED  BY <4>1 DEF Sets, Differences
    <3> QED  BY <1>6, <3>1, <3>2
  <2> QED  BY <2>1, <2>2
<1>8. l \in 0..Len(c) /\ RestartFrom(c, l) /\ ghost'.acked \subseteq Vals(LoadAs(p, SubSeq(c, 1, l)).data)
  BY <1>1, <1>5, <1>7
<1> HIDE DEF l, F, o
<1> QED  BY <1>1, <1>6, <1>8, RestartAck

\* So does SHUTDOWN, which syncs what it could write.
LEMMA ShutdownAck ==
    ASSUME AofInv, Sane(setup), AckInv, prepareForShutdown
    PROVE  Durable2
<1> DEFINE p == setup.preamble
<1>1. aof.state = "ON" /\ ghost'.replies = {} /\ ghost'.acked = ghost.acked
  BY NoMoreReplies DEF prepareForShutdown
<1>2. PICK res \in WriteResults(Len(aof.buf)) :
         RestartFrom(AfterWrite(res).content,
                     IF Fsync = "always" /\ res.n < Len(aof.buf) THEN file.synced ELSE Len(AfterWrite(res).content))
  BY DEF prepareForShutdown
<1> DEFINE c == AfterWrite(res).content
           n == IF Fsync = "always" /\ res.n < Len(aof.buf) THEN file.synced ELSE Len(c)
<1>3. WriteIs(res)
  BY <1>1, WriteCases
<1>4. /\ c \in Contents /\ SnapshotFirst(c) /\ ~LoadAs(p, c).bad
      /\ p \/ Calm(setup) => LoadAs(p, c).half = None /\ ~LoadAs(p, c).multi
  BY <1>1, <1>3, WriteLoads
<1>5. file.synced \in 0..Len(c) /\ SubSeq(c, 1, file.synced) = SubSeq(file.content, 1, file.synced)
  BY <1>1, <1>3, WriteKeeps
<1>6. RestartFrom(c, n) /\ p \in BOOLEAN
  BY <1>2, InvParts
<1> HIDE DEF c
<1>7. Len(c) \in Nat /\ SubSeq(c, 1, Len(c)) = c
  BY <1>4, WholeFile
<1>8. Vals(LoadAs(p, SubSeq(c, 1, file.synced)).data) \subseteq Vals(LoadAs(p, c).data)
  BY <1>4, <1>5, <1>6, SyncedVals
<1>9. ghost.acked \subseteq Vals(LoadAs(p, SubSeq(c, 1, file.synced)).data)
  BY <1>5 DEF AckInv, Durable
<1>10. n \in 0..Len(c) /\ ghost.acked \subseteq Vals(LoadAs(p, SubSeq(c, 1, n)).data)
  <2>1. CASE n = file.synced
    BY <1>5, <1>9, <2>1
  <2>2. CASE n = Len(c)
    <3>1. Len(c) \in Nat
      BY <1>7
    <3>2. n \in 0..Len(c)
      BY <2>2, <3>1
    <3>3. SubSeq(c, 1, n) = c
      BY <1>7, <2>2
    <3> QED  BY <1>8, <1>9, <3>2, <3>3
  <2> QED  BY <2>1, <2>2
<1> HIDE DEF n
<1> QED  BY <1>1, <1>4, <1>6, <1>10, RestartAck

\* Every step keeps what was acknowledged.
LEMMA AckStep ==
    ASSUME AofInv, AofInv', Sane(setup), Strict, AckInv, Next
    PROVE  AckInv'
<1>1. Step /\ setup' = setup
  BY DEF Next
<1>2. Holds2
  BY <1>1 DEF AofInv, Holds2, Calm
<1>3. Durable2
  <2>1. ASSUME NEW db \in setup.dbs, Write(db) \/ Exec(db) PROVE Durable2
    BY <1>2, <2>1, WriteAck
  <2>2. CASE beforeSleep
    BY <1>2, <2>2, SleepAck
  <2>3. CASE CronFlush
    <3>1. aof.postponed \/ ~aof.write_ok
      BY <2>3 DEF CronFlush
    <3>2. aof.write_ok = TRUE /\ aof.postponed = FALSE
      BY DEF AckInv, Durable
    <3> QED  BY <3>1, <3>2
  <2>4. CASE BioFsync
    BY <2>4, BioAck
  <2>5. CASE \/ bgrewriteaofCommand \/ aofChildWriteDiffData \/ ChildAsksToStop
             \/ aofChildPipeReadable \/ ChildExits \/ ChildFails \/ RewriteFailed
             \/ startAppendOnly \/ bgsave \/ Tick
    BY <2>5, OtherAck
  <2>6. CASE RewriteDone
    BY <1>2, <2>6, DoneAck
  <2>7. CASE stopAppendOnly
    BY <2>7, StopAck
  <2>8. CASE Crash \/ CrashAfterRename \/ prepareForShutdown
    BY <2>8, CrashAck, CutAck, ShutdownAck
  <2> QED  BY <1>1, <2>1, <2>2, <2>3, <2>4, <2>5, <2>6, <2>7, <2>8 DEF Step
<1> QED  BY <1>1, <1>3 DEF AckInv, Durable2

\* Both invariants, and what is promised of acknowledged writes.
LEMMA AckedStays == Spec => [](Sane(setup) => AofInv /\ (Strict => AckInv))
<1>1. Init => (Sane(setup) => AofInv /\ (Strict => AckInv))
  <2> SUFFICES ASSUME Init, Strict PROVE AckInv
    BY AofInit
  <2>1. /\ aof.write_ok = TRUE /\ aof.postponed = FALSE /\ aof.state = "ON"
        /\ ghost.replies = {} /\ ghost.acked = {}
    BY DEF Init, StartedAof
  <2> QED  BY <2>1 DEF AckInv, Durable
<1>2. (Sane(setup) => AofInv /\ (Strict => AckInv)) /\ [Next]_vars
        => (Sane(setup) => AofInv /\ (Strict => AckInv))'
  <2> SUFFICES ASSUME Sane(setup) => AofInv /\ (Strict => AckInv), [Next]_vars, Sane(setup)'
               PROVE  AofInv' /\ (Strict' => AckInv')
    OBVIOUS
  <2>1. setup' = setup
    BY DEF Next, vars
  <2>2. Sane(setup) /\ (Strict' => Strict)
    BY <2>1 DEF Sane, Calm, Strict, Fsync
  <2>3. AofInv /\ (Strict => AckInv)
    BY <2>2
  <2>4. CASE Next
    <3>1. AofInv'
      BY <2>2, <2>3, <2>4, AofStep
    <3> QED  BY <2>2, <2>3, <2>4, <3>1, AckStep
  <2>5. CASE UNCHANGED vars
    <3>1. AofInv'
      BY <2>3, <2>5 DEF vars, AofInv, Holds, Typed, FileLoads, OnHolds, OffEmpty, ChildHolds, Whole,
                        Rewritten, Calm, Limit
    <3>2. AckInv => AckInv'
      BY <2>5 DEF vars, AckInv, Durable
    <3> QED  BY <2>2, <2>3, <3>1, <3>2
  <2> QED  BY <2>4, <2>5
<1> QED  BY <1>1, <1>2, PTL DEF Spec

\* With appendfsync always (and no-appendfsync-on-rewrite off) a write that a
\* client was told of is never lost, whatever fails and however often, but for
\* the differences of a rewrite when the power fails between the rename and the
\* fsync of the new file: of that file, all the child has written is kept.
THEOREM AckedIsSafe == Spec => [](Sane(setup) => AckedIsDurable)
<1>1. (Sane(setup) => AofInv /\ (Strict => AckInv)) => (Sane(setup) => AckedIsDurable)
  <2> SUFFICES ASSUME Strict, AckInv PROVE AckedIsDurable
    BY DEF AckedIsDurable, Strict
  <2>1. ghost.acked \subseteq Vals(LoadAs(setup.preamble, SubSeq(file.content, 1, file.synced)).data)
    BY DEF AckInv, Durable
  <2> QED  BY <2>1 DEF AckedIsDurable, Load, Vals
<1> QED  BY <1>1, AckedStays, PTL

-----------------------------------------------------------------------------
(* Transactions. *)

\* V has both or none of the values of every transaction.
Closed(V, txs) == \A v \in txs : v \in V <=> v + 1 \in V

\* Values are never used again, and whatever can be loaded, now or after the
\* rewrite, has whole transactions only.
TxHolds(p, d, a, f, k, u, txs) ==
    /\ \A x \in Vals(d) : x <= u.writes
    /\ \A v \in txs : v + 1 <= u.writes
    /\ Closed(Vals(d), txs)
    /\ Closed(Vals(LoadAs(p, f.content).data), txs)
    /\ k # None /\ a.state = "OFF" => Closed(Vals(LoadAs(p, Rewritten(a, k)).data), txs)

TxInv == TxHolds(setup.preamble, data, aof, file, child, used, ghost.txs)
Tx2   == TxHolds(setup.preamble, data', aof', file', child', used', ghost'.txs)

\* The configurations without torn writes are sane.
LEMMA CalmIsSane ==
    ASSUME Calm(setup)
    PROVE  Sane(setup)
BY DEF Calm, Sane

\* What the invariants say of the values.
LEMMA TxParts ==
    ASSUME AofInv, TxInv
    PROVE  /\ ghost.txs \subseteq Nat /\ used \in UsedTypes /\ used.writes \in Nat
           /\ Vals(data) \subseteq Nat
           /\ Vals(LoadAs(setup.preamble, file.content).data) \subseteq Vals(data)
           /\ child # None => Vals(LoadAs(setup.preamble, Rewritten(aof, child)).data) \subseteq Vals(data)
<1>1. ghost.txs \subseteq Nat /\ used \in UsedTypes /\ used.writes \in Nat
  BY DEF AofInv, GhostTypes, UsedTypes
<1>2. data \in Data /\ setup.preamble \in BOOLEAN /\ file.content \in Contents
  BY InvParts
<1>3. Vals(data) \subseteq Nat
  BY <1>2 DEF Vals, Data, Entries
<1>4. LoadAs(setup.preamble, file.content).data \in Data /\ IsPrefix(LoadAs(setup.preamble, file.content).data, data)
  BY <1>2, LoadType DEF LoadStates, AofInv, Holds, FileLoads
<1>5. ASSUME child # None
      PROVE  Vals(LoadAs(setup.preamble, Rewritten(aof, child)).data) \subseteq Vals(data)
  <2> DEFINE c == Rewritten(aof, child)
             p == setup.preamble
  <2>1. \/ Stream(p, c, data, aof.selected_db)
        \/ Stream(p, c, LoadAs(p, c).data, -1) /\ IsPrefix(LoadAs(p, c).data, data)
    BY <1>5 DEF AofInv, Holds, ChildHolds
  <2> HIDE DEF c, p
  <2>2. CASE Stream(p, c, data, aof.selected_db)
    BY <2>2 DEF Stream, c, p
  <2>3. CASE Stream(p, c, LoadAs(p, c).data, -1) /\ IsPrefix(LoadAs(p, c).data, data)
    <3>1. c \in Contents
      BY <2>3 DEF Stream
    <3>2. LoadAs(p, c).data \in Data
      BY <1>2, <3>1, LoadType DEF LoadStates, p
    <3> QED  BY <1>2, <2>3, <3>2, PrefixVals DEF c, p
  <2> QED  BY <2>1, <2>2, <2>3
<1> QED  BY <1>1, <1>2, <1>3, <1>4, <1>5, PrefixVals

\* A step that is not an EXEC leaves the transactions alone.
LEMMA TxsStay ==
    ASSUME AofInv, Step, \A db \in setup.dbs : ~Exec(db)
    PROVE  ghost'.txs = ghost.txs
<1>1. ghost \in GhostTypes
  BY DEF AofInv
<1>2. ASSUME NEW db, Write(db) PROVE ghost'.txs = ghost.txs
  <2>1. PICK r : ghost' = [ghost EXCEPT !.replies = r]
    BY <1>2 DEF Write
  <2> QED  BY <1>1, <2>1 DEF GhostTypes
<1>3. CASE beforeSleep
  <2>1. PICK r, k : ghost' = [ghost EXCEPT !.replies = r, !.acked = k]
    BY <1>3 DEF beforeSleep
  <2> QED  BY <1>1, <2>1 DEF GhostTypes
<1>4. CASE Crash \/ prepareForShutdown \/ stopAppendOnly
  <2>1. PICK r : ghost' = [ghost EXCEPT !.replies = r] \/ ghost' = [ghost EXCEPT !.acked = r]
    BY <1>4 DEF Crash, prepareForShutdown, stopAppendOnly, NoReplies
  <2> QED  BY <1>1, <2>1 DEF GhostTypes
<1>7. CASE CrashAfterRename
  <2>1. PICK r, k : ghost' = [ghost EXCEPT !.replies = r, !.acked = k]
    BY <1>7 DEF CrashAfterRename
  <2> QED  BY <1>1, <2>1 DEF GhostTypes
<1>5. CASE \/ CronFlush \/ Tick \/ BioFsync \/ bgrewriteaofCommand \/ aofChildWriteDiffData
           \/ ChildAsksToStop \/ aofChildPipeReadable \/ ChildExits \/ ChildFails
  BY <1>5 DEF CronFlush, Tick, BioFsync, bgrewriteaofCommand, Rewrite, aofChildWriteDiffData,
      ChildAsksToStop, aofChildPipeReadable, ChildExits, ChildFails
<1>6. CASE RewriteDone \/ RewriteFailed \/ startAppendOnly \/ bgsave
  BY <1>6 DEF RewriteDone, RewriteFailed, startAppendOnly, bgsave
<1> QED  BY <1>2, <1>3, <1>4, <1>5, <1>6, <1>7 DEF Step

\* A step without new values.
LEMMA TxKept ==
    ASSUME AofInv, TxInv, Step, \A db \in setup.dbs : ~Exec(db), Vals(data') \subseteq Vals(data),
           Closed(Vals(data'), ghost.txs), Closed(Vals(LoadAs(setup.preamble, file'.content).data), ghost.txs),
           child' # None /\ aof'.state = "OFF"
              => Closed(Vals(LoadAs(setup.preamble, Rewritten(aof', child')).data), ghost.txs)
    PROVE  Tx2
<1>1. used' \in UsedTypes /\ used'.writes >= used.writes
  BY StepCounts DEF Counts
<1>2. used'.writes \in Nat /\ used.writes \in Nat
  BY <1>1, TxParts DEF UsedTypes
<1>3. Vals(data) \subseteq Nat /\ ghost.txs \subseteq Nat
  BY TxParts
<1>4. \A x \in Vals(data) : x <= used'.writes
  BY <1>1, <1>2, <1>3 DEF TxInv, TxHolds
<1>5. \A v \in ghost.txs : v + 1 <= used'.writes
  BY <1>1, <1>2, <1>3 DEF TxInv, TxHolds
<1>6. ghost'.txs = ghost.txs
  BY TxsStay
<1> QED  BY <1>4, <1>5, <1>6 DEF Tx2, TxHolds

\* New values are in no transaction that was known, nor in any file.
LEMMA FreshValues ==
    ASSUME NEW w \in Nat, NEW txs, txs \subseteq Nat, \A v \in txs : v + 1 <= w,
           NEW V, V \subseteq Nat, \A x \in V : x <= w, Closed(V, txs)
    PROVE  /\ Closed(V \cup {w + 1}, txs)
           /\ Closed(V, txs \cup {w + 1})
           /\ Closed(V \cup {w + 1, w + 2}, txs \cup {w + 1})
<1>1. \A v \in txs : v # w + 1 /\ v # w + 2 /\ v + 1 # w + 1 /\ v + 1 # w + 2
  OBVIOUS
<1>2. w + 1 \notin V /\ w + 2 \notin V /\ w + 1 + 1 = w + 2
  OBVIOUS
<1>3. \A v \in txs : v \in V <=> v + 1 \in V
  BY DEF Closed
<1>4. Closed(V \cup {w + 1}, txs)
  BY <1>1, <1>3 DEF Closed
<1>5. Closed(V, txs \cup {w + 1})
  BY <1>2, <1>3 DEF Closed
<1>6. Closed(V \cup {w + 1, w + 2}, txs \cup {w + 1})
  <2> SUFFICES ASSUME NEW v \in txs \cup {w + 1}
               PROVE  v \in V \cup {w + 1, w + 2} <=> v + 1 \in V \cup {w + 1, w + 2}
    BY DEF Closed
  <2>1. CASE v \in txs
    BY <1>1, <1>3, <2>1
  <2>2. CASE v = w + 1
    BY <1>2, <2>2
  <2> QED  BY <2>1, <2>2
<1> QED  BY <1>4, <1>5, <1>6

\* The values of two data sets in a row.
LEMMA ValsCat ==
    ASSUME NEW d \in Data, NEW e \in Data
    PROVE  Vals(Cat(d, e)) = Vals(d) \cup Vals(e)
<1>1. d \in Seq(Entries) /\ e \in Seq(Entries)
  BY DEF Data
<1> DEFINE s == d \o e
           m == Len(d)
           n == Len(e)
<1>2. /\ m \in Nat /\ n \in Nat /\ Len(s) = m + n
      /\ \A i \in 1..m : s[i] = d[i]
      /\ \A i \in 1..n : s[m + i] = e[i]
  BY <1>1
<1>3. Vals(Cat(d, e)) = {s[i][2] : i \in 1..Len(s)}
  BY DEF Vals, Cat
<1>4. Vals(d) = {d[i][2] : i \in 1..m} /\ Vals(e) = {e[i][2] : i \in 1..n}
  BY DEF Vals
<1> HIDE DEF s, m, n
<1>5. \A i \in 1..m : i \in 1..Len(s) /\ \A j \in 1..n : m + j \in 1..Len(s)
  BY <1>2
<1>6. \A j \in 1..n : m + j \in 1..Len(s)
  BY <1>2
<1>7. \A i \in 1..Len(s) : i \in 1..m \/ (i - m \in 1..n /\ m + (i - m) = i)
  BY <1>2
<1>8. \A i \in 1..Len(s) : s[i][2] \in Vals(d) \cup Vals(e)
  <2> SUFFICES ASSUME NEW i \in 1..Len(s) PROVE s[i][2] \in Vals(d) \cup Vals(e)
    OBVIOUS
  <2>1. CASE i \in 1..m
    BY <1>2, <1>4, <2>1
  <2>2. CASE i - m \in 1..n /\ m + (i - m) = i
    <3> DEFINE j == i - m
    <3>1. j \in 1..n /\ m + j = i
      BY <2>2
    <3> HIDE DEF j
    <3>2. s[m + j] = e[j]
      BY <1>2, <3>1
    <3>3. e[j][2] \in Vals(e)
      BY <1>4, <3>1
    <3> QED  BY <3>1, <3>2, <3>3
  <2> QED  BY <1>7, <2>1, <2>2
<1>9. Vals(d) \subseteq {s[i][2] : i \in 1..Len(s)}
  BY <1>2, <1>4, <1>5
<1>10. Vals(e) \subseteq {s[i][2] : i \in 1..Len(s)}
  <2> SUFFICES ASSUME NEW j \in 1..n PROVE e[j][2] \in {s[i][2] : i \in 1..Len(s)}
    BY <1>4
  <2>1. s[m + j] = e[j] /\ m + j \in 1..Len(s)
    BY <1>2, <1>6
  <2> QED  BY <2>1
<1> QED  BY <1>3, <1>8, <1>9, <1>10

\* A step that writes the values V, with a transaction for every member of T.
Adds(V, T) ==
    /\ file' = file /\ child' = child
    /\ aof'.state = aof.state
    /\ aof.state = "OFF" => aof' = aof
    /\ Vals(data') = Vals(data) \cup V
    /\ ghost'.txs = ghost.txs \cup T
    /\ \/ V = {used.writes + 1} /\ T = {} /\ used'.writes = used.writes + 1
       \/ V = {used.writes + 1, used.writes + 2} /\ T = {used.writes + 1} /\ used'.writes = used.writes + 2

\* New values, and perhaps a new transaction.
LEMMA NewValues ==
    ASSUME AofInv, TxInv, NEW V, NEW T, Adds(V, T)
    PROVE  Tx2
<1> DEFINE w == used.writes
           txs == ghost.txs
           p == setup.preamble
           L == Vals(LoadAs(p, file.content).data)
           R == Vals(LoadAs(p, Rewritten(aof, child)).data)
<1>1. w \in Nat /\ txs \subseteq Nat /\ Vals(data) \subseteq Nat /\ L \subseteq Vals(data)
      /\ (child # None => R \subseteq Vals(data))
  BY TxParts
<1>2. /\ \A x \in Vals(data) : x <= w
      /\ \A v \in txs : v + 1 <= w
      /\ Closed(Vals(data), txs) /\ Closed(L, txs)
      /\ (child # None /\ aof.state = "OFF" => Closed(R, txs))
  BY DEF TxInv, TxHolds
<1>0. /\ file' = file /\ child' = child /\ aof'.state = aof.state /\ (aof.state = "OFF" => aof' = aof)
      /\ Vals(data') = Vals(data) \cup V /\ ghost'.txs = txs \cup T
      /\ \/ V = {w + 1} /\ T = {} /\ used'.writes = w + 1
         \/ V = {w + 1, w + 2} /\ T = {w + 1} /\ used'.writes = w + 2
  BY DEF Adds
<1> HIDE DEF w, txs, L, R
<1>3. \A U : U \subseteq Vals(data) => U \subseteq Nat /\ \A x \in U : x <= w
  BY <1>1, <1>2
<1>4. ASSUME NEW U, U \subseteq Vals(data), Closed(U, txs)
      PROVE  /\ Closed(U \cup {w + 1}, txs) /\ Closed(U, txs \cup {w + 1})
             /\ Closed(U \cup {w + 1, w + 2}, txs \cup {w + 1})
  <2>1. U \subseteq Nat /\ \A x \in U : x <= w
    BY <1>3, <1>4
  <2> QED  BY <1>1, <1>2, <1>4, <2>1, FreshValues
<1>5. Closed(Vals(data'), ghost'.txs)
  <2>1. CASE V = {w + 1} /\ T = {}
    <3>1. Vals(data') = Vals(data) \cup {w + 1} /\ ghost'.txs = txs
      BY <1>0, <2>1
    <3> QED  BY <1>2, <1>4, <3>1
  <2>2. CASE V = {w + 1, w + 2} /\ T = {w + 1}
    <3>1. Vals(data') = Vals(data) \cup {w + 1, w + 2} /\ ghost'.txs = txs \cup {w + 1}
      BY <1>0, <2>2
    <3> QED  BY <1>2, <1>4, <3>1
  <2> QED  BY <1>0, <2>1, <2>2
<1>6. ghost'.txs = txs \/ ghost'.txs = txs \cup {w + 1}
  BY <1>0
<1>7. Closed(L, ghost'.txs)
  BY <1>1, <1>2, <1>4, <1>6
<1>8. child # None /\ aof.state = "OFF" => Closed(R, ghost'.txs)
  BY <1>1, <1>2, <1>4, <1>6
<1>9. used'.writes \in Nat /\ used'.writes >= w /\ \A x \in V : x <= used'.writes
  BY <1>0, <1>1
<1>10. \A x \in Vals(data') : x <= used'.writes
  BY <1>0, <1>1, <1>2, <1>9
<1>11. \A v \in ghost'.txs : v + 1 <= used'.writes
  <2>1. CASE ghost'.txs = txs
    <3> SUFFICES ASSUME NEW v \in txs PROVE v + 1 <= used'.writes
      BY <2>1
    <3>1. v \in Nat /\ v + 1 <= w
      BY <1>1, <1>2
    <3> QED  BY <1>1, <1>9, <3>1
  <2>2. CASE T = {w + 1} /\ used'.writes = w + 2
    <3>1. ghost'.txs = txs \cup {w + 1}
      BY <1>0, <2>2
    <3>2. w + 1 + 1 <= w + 2 /\ \A v \in txs : v + 1 <= w + 2
      BY <1>1, <1>2
    <3> QED  BY <2>2, <3>1, <3>2
  <2> QED  BY <1>0, <2>1, <2>2
<1>13. child' # None /\ aof'.state = "OFF" => Closed(Vals(LoadAs(p, Rewritten(aof', child')).data), ghost'.txs)
  BY <1>0, <1>8 DEF R
<1>14. Closed(Vals(LoadAs(p, file'.content).data), ghost'.txs)
  BY <1>0, <1>7 DEF L
<1> QED  BY <1>5, <1>10, <1>11, <1>13, <1>14 DEF Tx2, TxHolds

\* Writes and transactions.
LEMMA WriteTx ==
    ASSUME AofInv, TxInv, Holds2, Step, NEW db \in setup.dbs, Write(db) \/ Exec(db)
    PROVE  Tx2
<1> DEFINE v == used.writes + 1
           w == used.writes + 2
           x == <<db, v>>
           y == <<db, w>>
<1>1. /\ used.writes \in Nat /\ v \in Nat /\ w \in Nat /\ v + 1 = w /\ db \in Nat /\ data \in Data
      /\ ghost \in GhostTypes /\ used \in UsedTypes /\ aof \in AofTypes
  BY InvParts DEF AofInv, UsedTypes
<1>2. x \in Entries /\ y \in Entries /\ x[2] = v /\ y[2] = w
  BY <1>1 DEF Entries
<1>3. /\ file' = file /\ child' = child /\ aof'.state = aof.state /\ (aof.state = "OFF" => aof' = aof)
  <2>1. PICK cmds : feedAppendOnlyFile(db, cmds)
    BY DEF Write, Exec
  <2>2. UNCHANGED <<file, child>>
    BY DEF Write, Exec
  <2> QED  BY <1>1, <2>1, <2>2 DEF feedAppendOnlyFile, AofTypes
<1>4. CASE Write(db)
  <2>1. /\ data' = Append(data, x) /\ used' = [used EXCEPT !.writes = v]
        /\ \E r : ghost' = [ghost EXCEPT !.replies = r]
    BY <1>4 DEF Write
  <2> DEFINE e == <<x>>
             V == {v}
             T == {}
  <2> HIDE DEF x, v, w
  <2>2. e \in Data /\ data' = Cat(data, e) /\ Len(e) = 1 /\ e[1] = x
    BY <1>1, <1>2, <2>1 DEF Data, Cat
  <2> HIDE DEF e
  <2>3. Vals(e) = V
    BY <1>2, <2>2 DEF Vals
  <2>4. Vals(data') = Vals(data) \cup V
    BY <1>1, <2>2, <2>3, ValsCat
  <2>5. ghost'.txs = ghost.txs \cup T
    BY <1>1, <2>1 DEF GhostTypes
  <2>6. used'.writes = v
    BY <1>1, <2>1 DEF UsedTypes
  <2>7. V \in SUBSET Nat /\ T \in SUBSET V /\ V = {used.writes + 1} /\ T = {} /\ used'.writes = used.writes + 1
    BY <1>1, <2>6 DEF v
  <2> HIDE DEF V, T
  <2>9. Adds(V, T)
    BY <1>3, <2>4, <2>5, <2>7 DEF Adds
  <2> QED  BY <2>9, NewValues
<1>5. CASE Exec(db)
  <2>1. /\ data' = data \o << <<db, used.writes + 1>>, <<db, used.writes + 1 + 1>> >> /\ used' = [used EXCEPT !.writes = w]
        /\ \E r : ghost' = [ghost EXCEPT !.txs = ghost.txs \cup {v}, !.replies = r]
    BY <1>5 DEF Exec
  <2> DEFINE e == <<x, y>>
             V == {v, w}
             T == {v}
             t == ghost.txs \cup T
  <2>8. data' = data \o e
    BY <1>1, <2>1
  <2> HIDE DEF x, y, v, w
  <2>2. e \in Data /\ data' = Cat(data, e) /\ Len(e) = 2 /\ e[1] = x /\ e[2] = y
    BY <1>1, <1>2, <2>8 DEF Data, Cat
  <2> HIDE DEF e
  <2>3. Vals(e) = V
    <3>1. \A i : i \in 1..2 <=> i = 1 \/ i = 2
      OBVIOUS
    <3> QED  BY <1>2, <2>2, <3>1 DEF Vals
  <2>4. Vals(data') = Vals(data) \cup V
    BY <1>1, <2>2, <2>3, ValsCat
  <2>5. ghost'.txs = ghost.txs \cup T
    <3>1. \E r : ghost' = [ghost EXCEPT !.txs = t, !.replies = r]
      BY <2>1
    <3> HIDE DEF t
    <3>2. ghost'.txs = t
      BY <1>1, <3>1 DEF GhostTypes
    <3> QED  BY <3>2 DEF t
  <2>6. used'.writes = w
    BY <1>1, <2>1 DEF UsedTypes
  <2>7. /\ V \in SUBSET Nat /\ T \in SUBSET V /\ V = {used.writes + 1, used.writes + 2} /\ T = {used.writes + 1}
        /\ used'.writes = used.writes + 2
    BY <1>1, <2>6 DEF v, w
  <2> HIDE DEF V, T
  <2>9. Adds(V, T)
    BY <1>3, <2>4, <2>5, <2>7 DEF Adds
  <2> QED  BY <2>9, NewValues
<1> QED  BY <1>4, <1>5


\* A step that is not an EXEC.
Plain == Step /\ \A db \in setup.dbs : ~Exec(db)

\* A step that changes neither the data set, nor the file, nor a rewrite of a
\* file that is switched off.
LEMMA SameTx ==
    ASSUME AofInv, TxInv, Plain, data' = data, file'.content = file.content,
           child' # None /\ aof'.state = "OFF"
              => child # None /\ aof.state = "OFF" /\ Rewritten(aof', child') = Rewritten(aof, child)
    PROVE  Tx2
<1> DEFINE p == setup.preamble
<1>1. /\ Vals(data') \subseteq Vals(data) /\ Closed(Vals(data'), ghost.txs)
      /\ Closed(Vals(LoadAs(p, file'.content).data), ghost.txs)
  BY DEF TxInv, TxHolds
<1>2. child' # None /\ aof'.state = "OFF" => Closed(Vals(LoadAs(p, Rewritten(aof', child')).data), ghost.txs)
  BY DEF TxInv, TxHolds
<1> QED  BY <1>1, <1>2, TxKept DEF Plain

\* A step after which the file holds the data set, and no rewrite goes on or it
\* is fed.
LEMMA HoldingTx ==
    ASSUME AofInv, TxInv, Plain, data' = data, LoadAs(setup.preamble, file'.content).data = data,
           child' = None \/ aof'.state # "OFF"
    PROVE  Tx2
<1>1. /\ Vals(data') \subseteq Vals(data) /\ Closed(Vals(data'), ghost.txs)
      /\ Closed(Vals(LoadAs(setup.preamble, file'.content).data), ghost.txs)
  BY DEF TxInv, TxHolds
<1> QED  BY <1>1, TxKept DEF Plain

\* With no write failing, all of the buffer is written.
LEMMA CalmWrites ==
    ASSUME AofInv, Calm(setup), aof.state = "ON", NEW res \in WriteResults(Len(aof.buf))
    PROVE  /\ WriteIs(res) /\ ~(res.n < Len(aof.buf))
           /\ AfterWrite(res).content = Cat(file.content, aof.buf)
           /\ LoadAs(setup.preamble, Cat(file.content, aof.buf)).data = data
<1>1. WriteIs(res)
  BY WriteCases
<1>2. res.n = Len(aof.buf)
  BY <1>1 DEF WriteIs, Calm, Limit
<1>3. Len(aof.buf) \in Nat
  <2>1. aof.buf \in Seq(CmdPieces)
    BY InvParts DEF AofTypes
  <2> QED  BY <2>1
<1>4. ~(res.n < Len(aof.buf))
  BY <1>2, <1>3
<1>5. Stream(setup.preamble, Cat(file.content, aof.buf), data, aof.selected_db)
  BY DEF AofInv, Holds, OnHolds
<1> QED  BY <1>1, <1>4, <1>5, FullFlush DEF Stream

\* A flush writes whole transactions.
LEMMA FlushTx ==
    ASSUME AofInv, Calm(setup), TxInv, Plain, beforeSleep \/ CronFlush
    PROVE  Tx2
<1>1. PICK late \in BOOLEAN, res \in WriteResults(Len(aof.buf)) : Flush(FALSE, late, res)
  BY DEF beforeSleep, CronFlush
<1>2. CASE aof.buf = <<>>
  <2>1. data' = data /\ aof' = aof /\ file' = file /\ child' = child
    BY <1>1, <1>2 DEF Flush
  <2> QED  BY <2>1, SameTx
<1>3. CASE aof.buf # <<>>
  <2>1. aof.state = "ON"
    BY <1>3, BufferOn
  <2>2. /\ WriteIs(res) /\ ~(res.n < Len(aof.buf))
        /\ AfterWrite(res).content = Cat(file.content, aof.buf)
        /\ LoadAs(setup.preamble, Cat(file.content, aof.buf)).data = data
    BY <1>1, <2>1, CalmWrites
  <2>3. CASE aof' = [aof EXCEPT !.postponed = TRUE] /\ UNCHANGED <<data, file, child>>
    <3>1. aof'.state = "ON"
      BY <2>1, <2>3, InvParts DEF AofTypes
    <3> QED  BY <2>3, <3>1, SameTx
  <2>4. CASE aof' = Flushed(res).aof /\ file' = Flushed(res).file /\ data' = data
    <3>1. aof'.state = "ON" /\ file'.content = Cat(file.content, aof.buf)
      BY <2>1, <2>2, <2>4, FullFlush
    <3> QED  BY <2>2, <2>4, <3>1, HoldingTx
  <2> QED  BY <1>1, <1>3, <2>2, <2>3, <2>4 DEF Flush
<1> QED  BY <1>2, <1>3

\* The fork of a rewrite.
LEMMA ForkTx ==
    ASSUME AofInv, TxInv, Plain, child = None, child' = NewChild, UNCHANGED <<data, file>>,
           aof'.rwbuf = aof.rwbuf
    PROVE  Tx2
<1> DEFINE p == setup.preamble
           s == Snapshot(data)
<1>1. p \in BOOLEAN /\ data \in Data /\ aof.rwbuf = <<>>
  BY InvParts DEF AofInv, Holds, ChildHolds
<1>2. Stream(p, s, data, -1)
  BY <1>1, SnapshotStream
<1>3. s \in Contents /\ LoadAs(p, s).data = data
  BY <1>2 DEF Stream
<1>4. child'.out = s /\ child'.pipe = <<>>
  BY DEF NewChild
<1> HIDE DEF s
<1>5. Cat(s, <<>>) = s /\ Cat(<<>>, <<>>) = <<>>
  BY <1>3, CatEmpty DEF Cat
<1>6. Rewritten(aof', child') = s
  BY <1>1, <1>4, <1>5 DEF Rewritten
<1>7. /\ Vals(data') \subseteq Vals(data) /\ Closed(Vals(data'), ghost.txs)
      /\ Closed(Vals(LoadAs(p, file'.content).data), ghost.txs)
      /\ Closed(Vals(LoadAs(p, Rewritten(aof', child')).data), ghost.txs)
  BY <1>3, <1>6 DEF TxInv, TxHolds
<1> QED  BY <1>7, TxKept DEF Plain

\* The rewritten file replaces the old one.
LEMMA DoneTx ==
    ASSUME AofInv, TxInv, Plain, RewriteDone
    PROVE  Tx2
<1> DEFINE p == setup.preamble
           c == Rewritten(aof, child)
<1>1. child # None /\ child.phase = "exited" /\ child' = None /\ data' = data
  BY DEF RewriteDone
<1>2. aof.rwbuf \in Contents /\ child.pipe = <<>> /\ (aof.state # "OFF" => Stream(p, c, data, aof.selected_db))
      /\ aof \in AofTypes
  BY <1>1, InvParts, CmdsAreContents DEF AofInv, Holds, ChildHolds, AofTypes
<1>3. file'.content = Cat(child.out, aof.rwbuf)
  BY DEF RewriteDone, Cat
<1>4. c = file'.content
  BY <1>2, <1>3, CatEmpty DEF Rewritten
<1>5. Closed(Vals(data), ghost.txs) /\ (aof.state = "OFF" => Closed(Vals(LoadAs(p, c).data), ghost.txs))
  BY <1>1 DEF TxInv, TxHolds
<1>6. aof.state # "OFF" => LoadAs(p, c).data = data
  BY <1>2 DEF Stream
<1> HIDE DEF c
<1>7. /\ Vals(data') \subseteq Vals(data) /\ Closed(Vals(data'), ghost.txs)
      /\ Closed(Vals(LoadAs(p, file'.content).data), ghost.txs)
  BY <1>1, <1>4, <1>5, <1>6
<1> QED  BY <1>1, <1>7, TxKept DEF Plain

\* CONFIG SET appendonly no writes the buffer first.
LEMMA StopTx ==
    ASSUME AofInv, Calm(setup), TxInv, Plain, stopAppendOnly
    PROVE  Tx2
<1>1. child' = None /\ data' = data
  BY DEF stopAppendOnly
<1>2. PICK res \in WriteResults(Len(aof.buf)) :
         file' = [(IF aof.buf = <<>> THEN [aof |-> aof, file |-> file, bio |-> bio] ELSE Flushed(res)).file
                    EXCEPT !.synced = Len((IF aof.buf = <<>> THEN [aof |-> aof, file |-> file, bio |-> bio]
                                           ELSE Flushed(res)).file.content)]
  BY DEF stopAppendOnly
<1> DEFINE f == IF aof.buf = <<>> THEN file ELSE Flushed(res).file
           n == Len(f.content)
<1>3. file' = [f EXCEPT !.synced = n]
  BY <1>2
<1>4. f \in FileTypes /\ (aof.buf # <<>> => aof.state = "ON" /\ f.content = Cat(file.content, aof.buf))
  <2>1. CASE aof.buf = <<>>
    BY <2>1, InvParts
  <2>2. CASE aof.buf # <<>>
    <3>1. aof.state = "ON"
      BY <2>2, BufferOn
    <3>2. WriteIs(res) /\ ~(res.n < Len(aof.buf))
      BY <1>2, <3>1, CalmWrites
    <3> QED  BY <2>2, <3>1, <3>2, FullFlush, FlushedIs
  <2> QED  BY <2>1, <2>2
<1>5. aof.buf = <<>> => f = file
  OBVIOUS
<1> HIDE DEF f, n
<1>6. file'.content = f.content
  BY <1>3, <1>4 DEF FileTypes
<1>7. CASE aof.buf = <<>>
  BY <1>1, <1>5, <1>6, <1>7, SameTx
<1>8. CASE aof.buf # <<>>
  <2>1. LoadAs(setup.preamble, Cat(file.content, aof.buf)).data = data
    BY <1>2, <1>4, <1>8, CalmWrites
  <2> QED  BY <1>1, <1>4, <1>6, <1>8, <2>1, HoldingTx
<1> QED  BY <1>7, <1>8

\* A restart from a file without torn commands.
LEMMA RestartTx ==
    ASSUME AofInv, TxInv, Plain, NEW c, NEW n, RestartFrom(c, n),
           LoadAs(setup.preamble, c).half = None, ~LoadAs(setup.preamble, c).multi,
           Closed(Vals(LoadAs(setup.preamble, c).data), ghost.txs),
           Vals(LoadAs(setup.preamble, c).data) \subseteq Vals(data)
    PROVE  Tx2
<1>1. LoadedFile(c) = c
  BY DEF LoadedFile, Load
<1>2. data' = LoadAs(setup.preamble, c).data /\ file'.content = c /\ child' = None
  BY <1>1 DEF RestartFrom, Load
<1> QED  BY <1>2, TxKept DEF Plain

\* The process dies.
LEMMA CrashTx ==
    ASSUME AofInv, Calm(setup), TxInv, Plain, Crash
    PROVE  Tx2
<1> DEFINE p == setup.preamble
           F == file.content
           n == file.synced
<1>1. PICK m \in Survives : RestartFrom(SubSeq(F, 1, m), n)
  BY DEF Crash
<1>2. SubSeq(F, 1, m) = F /\ LoadAs(p, F).half = None /\ ~LoadAs(p, F).multi
  BY CalmIsSane, SurvivorLoads
<1>3. Closed(Vals(LoadAs(p, F).data), ghost.txs) /\ Vals(LoadAs(p, F).data) \subseteq Vals(data)
  BY TxParts DEF TxInv, TxHolds
<1>4. RestartFrom(F, n)
  BY <1>1, <1>2
<1> HIDE DEF F, n
<1> QED  BY <1>2, <1>3, <1>4, RestartTx

\* The process dies when the rewritten file has just got its name.
LEMMA CutTx ==
    ASSUME AofInv, Calm(setup), TxInv, Plain, CrashAfterRename
    PROVE  Tx2
<1> DEFINE p == setup.preamble
           F == Cat(child.out, aof.rwbuf)
           l == Len(child.out)
<1>1. PICK n \in 0..Len(F) :
         RestartFrom(SubSeq(F, 1, n), l) /\ SubSeq(F, 1, n) = F /\ LoadAs(p, F).half = None /\ ~LoadAs(p, F).multi
  BY CalmIsSane, CutIs
<1>2. child # None /\ child.phase = "exited"
  BY DEF CrashAfterRename
<1>3. F = Rewritten(aof, child) /\ (aof.state # "OFF" => LoadAs(p, F).data = data)
  BY <1>2, ExitedFile
<1>4. RestartFrom(F, l) /\ LoadAs(p, F).half = None /\ ~LoadAs(p, F).multi
  BY <1>1
<1> HIDE DEF F, l
<1>5. Closed(Vals(LoadAs(p, F).data), ghost.txs) /\ Vals(LoadAs(p, F).data) \subseteq Vals(data)
  BY <1>2, <1>3, TxParts DEF TxInv, TxHolds
<1> QED  BY <1>4, <1>5, RestartTx

\* SHUTDOWN writes the buffer.
LEMMA ShutdownTx ==
    ASSUME AofInv, Calm(setup), TxInv, Plain, prepareForShutdown
    PROVE  Tx2
<1> DEFINE p == setup.preamble
<1>1. aof.state = "ON"
  BY DEF prepareForShutdown
<1>2. PICK res \in WriteResults(Len(aof.buf)) :
         RestartFrom(AfterWrite(res).content,
                     IF Fsync = "always" /\ res.n < Len(aof.buf) THEN file.synced ELSE Len(AfterWrite(res).content))
  BY DEF prepareForShutdown
<1> DEFINE c == AfterWrite(res).content
           n == IF Fsync = "always" /\ res.n < Len(aof.buf) THEN file.synced ELSE Len(c)
<1>3. WriteIs(res) /\ LoadAs(p, c).data = data
  BY <1>1, <1>2, CalmWrites
<1>4. LoadAs(p, c).half = None /\ ~LoadAs(p, c).multi
  BY <1>1, <1>3, CalmIsSane, WriteLoads
<1>5. RestartFrom(c, n)
  BY <1>2
<1>6. Closed(Vals(data), ghost.txs)
  BY DEF TxInv, TxHolds
<1> HIDE DEF c, n
<1> QED  BY <1>3, <1>4, <1>5, <1>6, RestartTx

\* The other steps.
LEMMA OtherTx ==
    ASSUME AofInv, TxInv, Plain,
           \/ Tick \/ BioFsync \/ bgrewriteaofCommand \/ aofChildWriteDiffData \/ ChildAsksToStop
           \/ aofChildPipeReadable \/ ChildExits \/ ChildFails \/ RewriteFailed \/ startAppendOnly \/ bgsave
    PROVE  Tx2
<1>1. aof \in AofTypes /\ file \in FileTypes
  BY InvParts
<1>2. ASSUME data' = data, file' = file, child' = child, aof'.rwbuf = aof.rwbuf,
             aof'.state = aof.state \/ aof'.state = "WAIT_REWRITE"
      PROVE  Tx2
  <2>1. aof'.state = "OFF" => aof.state = "OFF"
    BY <1>2
  <2>2. Rewritten(aof', child') = Rewritten(aof, child)
    BY <1>2 DEF Rewritten
  <2> QED  BY <1>2, <2>1, <2>2, SameTx
<1>3. CASE Tick
  <2>1. aof'.rwbuf = aof.rwbuf /\ aof'.state = aof.state
    BY <1>1, <1>3 DEF Tick, AofTypes
  <2> QED  BY <1>2, <1>3, <2>1 DEF Tick
<1>4. CASE BioFsync
  <2>1. file'.content = file.content /\ UNCHANGED <<data, aof, child>>
    BY <1>1, <1>4 DEF BioFsync, FileTypes
  <2> QED  BY <2>1, SameTx
<1>5. CASE bgsave
  <2>1. aof'.rwbuf = aof.rwbuf /\ aof'.state = aof.state
    BY <1>1, <1>5 DEF bgsave, AofTypes
  <2> QED  BY <1>2, <1>5, <2>1 DEF bgsave
<1>6. CASE aofChildWriteDiffData
  <2>1. aof'.state = aof.state /\ Rewritten(aof', child') = Rewritten(aof, child) /\ UNCHANGED <<data, file>> /\ child # None
    BY <1>6, DiffStep DEF aofChildWriteDiffData
  <2> QED  BY <2>1, SameTx
<1>7. CASE ChildAsksToStop \/ aofChildPipeReadable \/ ChildExits \/ ChildFails
  <2>1. aof'.state = aof.state /\ Rewritten(aof', child') = Rewritten(aof, child)
    BY <1>7, ChildStep
  <2>2. UNCHANGED <<data, file>> /\ child # None
    BY <1>7 DEF ChildAsksToStop, aofChildPipeReadable, ChildExits, ChildFails
  <2> QED  BY <2>1, <2>2, SameTx
<1>8. CASE RewriteFailed
  BY <1>8, SameTx DEF RewriteFailed
<1>9. CASE bgrewriteaofCommand
  <2>1. CASE Rewrite
    <3>1. aof' = Forked /\ child' = NewChild /\ UNCHANGED <<data, file>> /\ child = None
      BY <2>1 DEF Rewrite, ChildActive
    <3>2. aof'.rwbuf = aof.rwbuf
      BY <1>1, <3>1 DEF Forked, AofTypes
    <3> QED  BY <3>1, <3>2, ForkTx
  <2>2. CASE aof' = [aof EXCEPT !.scheduled = TRUE] /\ UNCHANGED <<data, file, child>>
    <3>1. aof'.rwbuf = aof.rwbuf /\ aof'.state = aof.state
      BY <1>1, <2>2 DEF AofTypes
    <3> QED  BY <1>2, <2>2, <3>1
  <2> QED  BY <1>9, <2>1, <2>2 DEF bgrewriteaofCommand
<1>10. CASE startAppendOnly
  <2>1. UNCHANGED <<data, file>>
    BY <1>10 DEF startAppendOnly
  <2>2. CASE /\ ~ChildActive
             /\ aof' = [Forked EXCEPT !.state = "WAIT_REWRITE", !.fd = "file", !.elapsed = FALSE]
             /\ child' = NewChild
    <3>1. aof'.rwbuf = aof.rwbuf
      BY <1>1, <2>2 DEF Forked, AofTypes
    <3>2. child = None
      BY <2>2 DEF ChildActive
    <3> QED  BY <2>1, <2>2, <3>1, <3>2, ForkTx
  <2>3. CASE /\ UNCHANGED child
             /\ \/ aof' = [aof EXCEPT !.fd = "closed", !.elapsed = FALSE]
                \/ aof' = [aof EXCEPT !.state = "WAIT_REWRITE", !.fd = "file", !.elapsed = FALSE, !.scheduled = TRUE]
    <3>1. aof'.rwbuf = aof.rwbuf /\ (aof'.state = aof.state \/ aof'.state = "WAIT_REWRITE")
      BY <1>1, <2>3 DEF AofTypes
    <3> QED  BY <1>2, <2>1, <2>3, <3>1
  <2> QED  BY <1>10, <2>2, <2>3 DEF startAppendOnly
<1> QED  BY <1>3, <1>4, <1>5, <1>6, <1>7, <1>8, <1>9, <1>10

\* Every step keeps transactions whole.
LEMMA TxStep ==
    ASSUME AofInv, AofInv', Calm(setup), TxInv, Next
    PROVE  TxInv'
<1>1. Step /\ setup' = setup
  BY DEF Next
<1>2. Holds2
  BY <1>1 DEF AofInv, Holds2, Calm
<1>3. Tx2
  <2>1. ASSUME NEW db \in setup.dbs, Write(db) \/ Exec(db) PROVE Tx2
    BY <1>1, <1>2, <2>1, WriteTx
  <2>2. ASSUME ~ \E db \in setup.dbs : Write(db) \/ Exec(db) PROVE Tx2
    <3>1. Plain
      BY <1>1, <2>2 DEF Plain
    <3>2. CASE beforeSleep \/ CronFlush
      BY <3>1, <3>2, FlushTx
    <3>3. CASE RewriteDone
      BY <3>1, <3>3, DoneTx
    <3>4. CASE stopAppendOnly
      BY <3>1, <3>4, StopTx
    <3>5. CASE Crash \/ CrashAfterRename \/ prepareForShutdown
      BY <3>1, <3>5, CrashTx, CutTx, ShutdownTx
    <3>6. CASE \/ Tick \/ BioFsync \/ bgrewriteaofCommand \/ aofChildWriteDiffData \/ ChildAsksToStop
               \/ aofChildPipeReadable \/ ChildExits \/ ChildFails \/ RewriteFailed \/ startAppendOnly \/ bgsave
      BY <3>1, <3>6, OtherTx
    <3> QED  BY <1>1, <2>2, <3>2, <3>3, <3>4, <3>5, <3>6 DEF Step
  <2> QED  BY <2>1, <2>2
<1> QED  BY <1>1, <1>3 DEF TxInv, Tx2

\* Both invariants hold.
LEMMA TxsHold == Spec => [](Calm(setup) => AofInv /\ TxInv)
<1>1. Init => (Calm(setup) => AofInv /\ TxInv)
  <2> SUFFICES ASSUME Init PROVE TxInv
    BY AofInit
  <2>1. data = <<>> /\ file.content = <<>> /\ ghost.txs = {} /\ child = None
    BY DEF Init
  <2>2. Vals(data) = {}
    BY <2>1 DEF Vals
  <2> QED  BY <2>1, <2>2 DEF TxInv, TxHolds, Closed
<1>2. (Calm(setup) => AofInv /\ TxInv) /\ [Next]_vars => (Calm(setup) => AofInv /\ TxInv)'
  <2> SUFFICES ASSUME Calm(setup) => AofInv /\ TxInv, [Next]_vars, Calm(setup)'
               PROVE  AofInv' /\ TxInv'
    OBVIOUS
  <2>1. setup' = setup
    BY DEF Next, vars
  <2>2. Calm(setup) /\ Sane(setup)
    BY <2>1, CalmIsSane DEF Calm
  <2>3. AofInv /\ TxInv
    BY <2>2
  <2>4. CASE Next
    <3>1. AofInv'
      BY <2>2, <2>3, <2>4, AofStep
    <3> QED  BY <2>2, <2>3, <2>4, <3>1, TxStep
  <2>5. CASE UNCHANGED vars
    <3>1. AofInv'
      BY <2>3, <2>5 DEF vars, AofInv, Holds, Typed, FileLoads, OnHolds, OffEmpty, ChildHolds, Whole,
                        Rewritten, Calm, Limit
    <3>2. TxInv'
      BY <2>3, <2>5 DEF vars, TxInv, TxHolds, Rewritten
    <3> QED  BY <3>1, <3>2
  <2> QED  BY <2>4, <2>5
<1> QED  BY <1>1, <1>2, PTL DEF Spec

\* If only the process dies and no write fails, a file that is loaded has whole
\* transactions only: whatever is rewritten, switched off and on, and restarted.
THEOREM TransactionsAreAtomic == Spec => []TransactionsAtomic
<1>1. (Calm(setup) => AofInv /\ TxInv) => TransactionsAtomic
  <2> SUFFICES ASSUME Calm(setup), AofInv, TxInv, NEW n \in Survives
               PROVE  Closed(Vals(LoadAs(setup.preamble, SubSeq(file.content, 1, n)).data), ghost.txs)
    BY DEF TransactionsAtomic, Calm, Limit, Load, Vals, Closed
  <2>1. SubSeq(file.content, 1, n) = file.content
    BY CalmIsSane, SurvivorLoads
  <2> QED  BY <2>1 DEF TxInv, TxHolds
<1> QED  BY <1>1, TxsHold, PTL
=============================================================================
