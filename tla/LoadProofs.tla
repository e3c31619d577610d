----------------------------- MODULE LoadProofs -----------------------------
(***************************************************************************)
(* RESP sessions and the chaos load over them, for any connections,         *)
(* engines, scripts of hand-driven clients, caps, losses and timeouts, and  *)
(* loads of up to nine writes (their names have one digit).                 *)
(***************************************************************************)
EXTENDS ChaosLoad, FiniteSetTheorems, WellFoundedInduction, SequenceTheorems, TLAPS

-----------------------------------------------------------------------------
(* The streams of writes as folds *)

\* A set of numbers has a least one.
LEMMA LeastNat ==
  ASSUME NEW T \in SUBSET Nat, T # {}
  PROVE  \E m \in T : \A k \in T : m <= k
<1>1. PICK m \in T : \A k \in T : ~(<<k, m>> \in OpToRel(<, Nat))
  BY NatLessThanWellFounded, WFMin, Zenon
<1>2. \A k \in T : ~(k < m)
  BY <1>1 DEF OpToRel
<1>3. QED
  BY <1>2

\* Max of the library, where the greatest element is known.
LEMMA MaxOf ==
  ASSUME NEW S, NEW m \in S, S \subseteq Int, \A x \in S : x <= m
  PROVE  Max(S) = m
<1>1. \A x \in S : (\A y \in S : x >= y) => x = m
  OBVIOUS
<1> QED
  BY <1>1 DEF Max

LEMMA MaxIsIn ==
  ASSUME NEW n \in Nat, NEW s \in SUBSET (1 .. n), s # {}
  PROVE  Max(s) \in s
<1> DEFINE T == {n - x : x \in s}
<1>1. T \in SUBSET Nat /\ T # {}
  OBVIOUS
<1>2. PICK m \in T : \A k \in T : m <= k
  <2> HIDE DEF T
  <2> QED
    BY <1>1, LeastNat
<1>3. n - m \in s /\ s \subseteq Int /\ \A x \in s : x <= n - m
  <2>1. PICK y \in s : m = n - y
    OBVIOUS
  <2>2. \A x \in s : m <= n - x
    BY <1>2
  <2> HIDE DEF T
  <2> QED
    BY <2>1, <2>2
<1> HIDE DEF T
<1> QED
  BY <1>3, MaxOf

\* What an engine holds that has applied the first n writes of q (Deliver's store).
History(q, n) == FoldLeft(LAMBDA s, w : ApplyTo(s, w.argv), <<>>, SubSeq(q, 1, n))

\* g is the recursive function that FoldLeft is built from, on the sets of positions of
\* the first n writes.
IsFold(g, q, n) ==
  g = [s \in SUBSET (1 .. n) |->
         IF s = {} THEN <<>> ELSE ApplyTo(g[s \ {Max(s)}], q[Max(s)].argv)]

\* Such a function for one write more.
LEMMA FoldGoesOn ==
  ASSUME NEW q, NEW m \in Nat \ {0}, NEW g, IsFold(g, q, m - 1)
  PROVE  \E h : IsFold(h, q, m) /\ h[1 .. m] = ApplyTo(g[1 .. m - 1], q[m].argv)
<1> DEFINE h == [s \in SUBSET (1 .. m) |->
                   IF m \in s THEN ApplyTo(g[s \ {m}], q[m].argv) ELSE g[s]]
<1>1. ASSUME NEW s \in SUBSET (1 .. m)
      PROVE  h[s] = IF s = {} THEN <<>> ELSE ApplyTo(h[s \ {Max(s)}], q[Max(s)].argv)
  <2>1. CASE m \in s
    <3>1. Max(s) = m
      <4>1. s \subseteq Int /\ \A x \in s : x <= m
        OBVIOUS
      <4> HIDE DEF h
      <4> QED
        BY <2>1, <4>1, MaxOf
    <3>2. s \ {m} \in SUBSET (1 .. m) /\ m \notin s \ {m}
      OBVIOUS
    <3>3. h[s] = ApplyTo(g[s \ {m}], q[m].argv)
      BY <2>1
    <3>4. h[s \ {m}] = g[s \ {m}]
      BY <3>2
    <3> HIDE DEF h
    <3> QED
      BY <2>1, <3>1, <3>3, <3>4
  <2>2. CASE m \notin s
    <3>1. s \in SUBSET (1 .. m - 1) /\ s \ {Max(s)} \in SUBSET (1 .. m) /\ m \notin s \ {Max(s)}
      <4>1. \A i \in s : i \in 1 .. m - 1
        BY <2>2
      <4> HIDE DEF h
      <4> QED
        BY <2>2, <4>1
    <3>2. h[s] = g[s] /\ h[s \ {Max(s)}] = g[s \ {Max(s)}]
      BY <2>2, <3>1
    <3>3. g[s] = IF s = {} THEN <<>> ELSE ApplyTo(g[s \ {Max(s)}], q[Max(s)].argv)
      BY <3>1 DEF IsFold
    <3> HIDE DEF h
    <3> QED
      BY <3>2, <3>3
  <2> QED
    BY <2>1, <2>2
<1>2. h = [s \in SUBSET (1 .. m) |-> h[s]]
  OBVIOUS
<1>3. h[1 .. m] = ApplyTo(g[(1 .. m) \ {m}], q[m].argv)
  OBVIOUS
<1>4. (1 .. m) \ {m} = 1 .. m - 1
  OBVIOUS
<1> HIDE DEF h
<1>5. IsFold(h, q, m)
  BY <1>1, <1>2 DEF IsFold
<1> QED
  BY <1>3, <1>4, <1>5

\* There is such a function for every number of writes (the fold is a CHOOSE).
LEMMA FoldIsDefined ==
  ASSUME NEW q, NEW n \in Nat
  PROVE  \E g : IsFold(g, q, n)
<1> DEFINE Bad == {m \in Nat : ~ \E g : IsFold(g, q, m)}
<1> SUFFICES ASSUME Bad # {} PROVE FALSE
  OBVIOUS
<1>1. Bad \in SUBSET Nat
  OBVIOUS
<1>2. PICK m \in Bad : \A k \in Bad : m <= k
  <2> HIDE DEF Bad
  <2> QED
    BY <1>1, LeastNat
<1>3. \E g : IsFold(g, q, 0)
  <2> DEFINE g == [s \in SUBSET (1 .. 0) |-> <<>>]
  <2>1. \A s \in SUBSET (1 .. 0) : s = {}
    OBVIOUS
  <2>2. \A s \in SUBSET (1 .. 0) : g[s] = IF s = {} THEN <<>> ELSE ApplyTo(g[s \ {Max(s)}], q[Max(s)].argv)
    BY <2>1
  <2>3. g = [s \in SUBSET (1 .. 0) |-> g[s]]
    OBVIOUS
  <2> HIDE DEF g
  <2>4. IsFold(g, q, 0)
    BY <2>2, <2>3 DEF IsFold
  <2> QED
    BY <2>4
<1>4. m # 0 /\ m - 1 \in Nat /\ m \in Nat
  BY <1>3
<1>5. m - 1 \notin Bad
  <2> HIDE DEF Bad
  <2> QED
    BY <1>2, <1>4
<1>6. PICK g : IsFold(g, q, m - 1)
  BY <1>4, <1>5
<1>7. \E h : IsFold(h, q, m)
  BY <1>4, <1>6, FoldGoesOn
<1> QED
  BY <1>2, <1>7

\* Any two agree on the first n writes.
LEMMA FoldIsUnique ==
  ASSUME NEW q, NEW n \in Nat, NEW f, NEW g, IsFold(f, q, n), IsFold(g, q, n)
  PROVE  f[1 .. n] = g[1 .. n]
<1> DEFINE Bad == {m \in 0 .. n : f[1 .. m] # g[1 .. m]}
<1> SUFFICES ASSUME Bad # {} PROVE FALSE
  OBVIOUS
<1>1. Bad \in SUBSET Nat
  OBVIOUS
<1>2. PICK m \in Bad : \A k \in Bad : m <= k
  <2> HIDE DEF Bad
  <2> QED
    BY <1>1, LeastNat
<1>3. f[1 .. 0] = <<>> /\ g[1 .. 0] = <<>>
  <2>1. 1 .. 0 = {} /\ {} \in SUBSET (1 .. n)
    OBVIOUS
  <2> QED
    BY <2>1 DEF IsFold
<1>4. m \in 1 .. n
  BY <1>2, <1>3
<1>5. f[1 .. m - 1] = g[1 .. m - 1]
  <2>1. m - 1 \notin Bad
    <3> HIDE DEF Bad
    <3> QED
      BY <1>2, <1>4
  <2> QED
    BY <2>1, <1>4
<1>6. 1 .. m \in SUBSET (1 .. n) /\ 1 .. m # {} /\ Max(1 .. m) = m /\ (1 .. m) \ {m} = 1 .. m - 1
  <2>1. 1 .. m \subseteq Int /\ m \in 1 .. m /\ \A x \in 1 .. m : x <= m
    BY <1>4
  <2>2. Max(1 .. m) = m
    BY <2>1, MaxOf
  <2> HIDE DEF Bad
  <2> QED
    BY <1>4, <2>2
<1>7. f[1 .. m] = ApplyTo(f[1 .. m - 1], q[m].argv) /\ g[1 .. m] = ApplyTo(g[1 .. m - 1], q[m].argv)
  <2> HIDE DEF Bad
  <2>1. PICK a : a = 1 .. m
    OBVIOUS
  <2>2. a \in SUBSET (1 .. n) /\ a # {} /\ Max(a) = m /\ a \ {m} = 1 .. m - 1
    BY <1>6, <2>1
  <2>3. f[a] = ApplyTo(f[a \ {m}], q[m].argv) /\ g[a] = ApplyTo(g[a \ {m}], q[m].argv)
    BY <2>2 DEF IsFold
  <2> QED
    BY <2>1, <2>2, <2>3
<1> QED
  BY <1>2, <1>5, <1>7

\* History is what that function says.
LEMMA HistoryIsFold ==
  ASSUME NEW S, NEW q \in Seq(S), NEW n \in 0 .. Len(q)
  PROVE  \E g : IsFold(g, q, n) /\ History(q, n) = g[1 .. n]
<1>0. n \in Nat
  OBVIOUS
<1> DEFINE p == SubSeq(q, 1, n)
           iter[s \in SUBSET (DOMAIN p)] ==
             IF s = {} THEN <<>> ELSE ApplyTo(iter[s \ {Max(s)}], p[Max(s)].argv)
<1>1. DOMAIN p = 1 .. n /\ \A i \in 1 .. n : p[i] = q[i]
  OBVIOUS
<1>2. History(q, n) = iter[DOMAIN p]
  BY DEF History, FoldLeft, MapThenFoldSet
<1>3. ASSUME NEW g, IsFold(g, q, n) 
      PROVE  g = [s \in SUBSET (DOMAIN p) |->
                    IF s = {} THEN <<>> ELSE ApplyTo(g[s \ {Max(s)}], p[Max(s)].argv)]
  <2> HIDE DEF p
  <2>1. \A s \in SUBSET (1 .. n) : s # {} => Max(s) \in 1 .. n
    BY <1>0, MaxIsIn
  <2>2. \A s \in SUBSET (1 .. n) : 
          (IF s = {} THEN <<>> ELSE ApplyTo(g[s \ {Max(s)}], q[Max(s)].argv))
            = (IF s = {} THEN <<>> ELSE ApplyTo(g[s \ {Max(s)}], p[Max(s)].argv))
    BY <1>1, <2>1
  <2> QED
    BY <1>1, <1>3, <2>2 DEF IsFold
<1> DEFINE Rec(g) == g = [s \in SUBSET (DOMAIN p) |->
                    IF s = {} THEN <<>> ELSE ApplyTo(g[s \ {Max(s)}], p[Max(s)].argv)]
<1>4. PICK g : IsFold(g, q, n)
  BY <1>0, FoldIsDefined
<1>5. Rec(g)
  BY <1>3, <1>4
<1>6. iter = CHOOSE f : Rec(f)
  OBVIOUS
<1> HIDE DEF iter, p
<1>7. Rec(iter)
  <2> HIDE DEF Rec
  <2> QED
    BY <1>5, <1>6
<1>8. IsFold(iter, q, n)
  <2>1. \A s \in SUBSET (1 .. n) : s # {} => Max(s) \in 1 .. n
    BY <1>0, MaxIsIn
  <2>2. \A s \in SUBSET (1 .. n) : 
          (IF s = {} THEN <<>> ELSE ApplyTo(iter[s \ {Max(s)}], q[Max(s)].argv))
            = (IF s = {} THEN <<>> ELSE ApplyTo(iter[s \ {Max(s)}], p[Max(s)].argv))
    BY <1>1, <2>1
  <2> QED
    BY <1>1, <1>7, <2>2 DEF IsFold
<1> QED
  BY <1>1, <1>2, <1>8

\* An engine starts empty.
LEMMA HistoryStarts ==
  ASSUME NEW S, NEW q \in Seq(S)
  PROVE  History(q, 0) = <<>>
<1>1. PICK g : IsFold(g, q, 0) /\ History(q, 0) = g[1 .. 0]
  BY HistoryIsFold
<1>2. 1 .. 0 = {} /\ {} \in SUBSET (1 .. 0)
  OBVIOUS
<1> QED
  BY <1>1, <1>2 DEF IsFold

\* One write more is one ApplyTo more.
LEMMA HistoryGoesOn ==
  ASSUME NEW S, NEW q \in Seq(S), NEW n \in 0 .. Len(q) - 1
  PROVE  History(q, n + 1) = ApplyTo(History(q, n), q[n + 1].argv)
<1>0. n + 1 \in 0 .. Len(q) /\ n \in 0 .. Len(q) /\ n + 1 \in Nat \ {0} /\ n + 1 \in Nat
  OBVIOUS
<1>1. PICK g : IsFold(g, q, n) /\ History(q, n) = g[1 .. n]
  BY <1>0, HistoryIsFold
<1>2. PICK f : IsFold(f, q, n + 1) /\ History(q, n + 1) = f[1 .. n + 1]
  BY <1>0, HistoryIsFold
<1>3. (n + 1) - 1 = n
  OBVIOUS
<1>4. PICK h : IsFold(h, q, n + 1) /\ h[1 .. n + 1] = ApplyTo(g[1 .. n], q[n + 1].argv)
  BY <1>0, <1>1, <1>3, FoldGoesOn
<1>5. f[1 .. n + 1] = h[1 .. n + 1]
  BY <1>0, <1>2, <1>4, FoldIsUnique
<1> QED
  BY <1>1, <1>2, <1>4, <1>5

\* What was applied does not depend on the writes that come later.
LEMMA HistoryStays ==
  ASSUME NEW S, NEW q \in Seq(S), NEW w \in S, NEW n \in 0 .. Len(q)
  PROVE  History(Append(q, w), n) = History(q, n)
<1>1. SubSeq(Append(q, w), 1, n) = SubSeq(q, 1, n)
  OBVIOUS
<1> QED
  BY <1>1 DEF History

-----------------------------------------------------------------------------
(* Sessions: the inductive invariant *)

\* Commands, replies and writes are of any kind: S is a set that holds those so far.
Over(S) ==
  /\ queue \in Seq(S) /\ stream \in Seq(S)
  /\ argvs \in [Conns -> Seq(S)] /\ meant \in [Conns -> Seq(S)]
  /\ slot \in [Conns -> {<<>>} \cup {<<r>> : r \in S}]

Types ==
  /\ \E S : Over(S)
  /\ client \in [Conns -> {"unused", "new", "open", "gone"}]
  /\ server \in [Conns -> {"none", "read", "decode", "wait", "closed"}]
  /\ hand \subseteq Conns /\ driver \in BOOLEAN
  /\ DOMAIN down = Conns /\ DOMAIN store = Engines
  /\ at \in [Engines -> 0 .. Len(stream)]

\* The two ends of a connection: a client that is gone reads nothing, and a task exists
\* from the moment the connection was accepted.
Ends ==
  \A c \in Conns :
    /\ client[c] = "gone" => down[c] = <<>>
    /\ server[c] = "none" <=> client[c] \in {"unused", "new"}

\* A write that the driver holds: its session waits for it with an empty oneshot, and it
\* is the last command that this session decoded.
IsWrite(w) == w.conn \in Conns /\ w = [conn |-> w.conn, argv |-> w.argv]
Pends(w) ==
  /\ IsWrite(w)
  /\ server[w.conn] = "wait" /\ slot[w.conn] = <<>>
  /\ w.argv = argvs[w.conn][Len(argvs[w.conn])]

\* Every session that waits has at most one write with the driver, in the channel or
\* between broadcast and delivery, and only while the driver runs.
Pending ==
  /\ \A i \in 1 .. Len(queue) : Pends(queue[i])
  /\ \A i, j \in 1 .. Len(queue) : queue[i].conn = queue[j].conn => i = j
  /\ ~driver => queue = <<>>
  /\ \A p \in 1 .. Len(stream) : IsWrite(stream[p])
  /\ driver => \A p \in at[Local] + 1 .. Len(stream) :
       /\ Pends(stream[p])
       /\ \A r \in at[Local] + 1 .. Len(stream) : stream[p].conn = stream[r].conn => p = r
       /\ \A i \in 1 .. Len(queue) : stream[p].conn # queue[i].conn
  /\ \A c \in Conns : slot[c] # <<>> => server[c] = "wait"

\* The k-th command of c was applied by the local engine.
Own(c, k) == \E p \in 1 .. at[Local] : stream[p] = [conn |-> c, argv |-> argvs[c][k]]

\* Commands and replies go in step, and OK is said of nothing but an applied write.
AnswersTo(c) ==
  /\ server[c] = "none" => argvs[c] = <<>> /\ meant[c] = <<>>
  /\ server[c] \in {"read", "decode"} => Len(meant[c]) = Len(argvs[c])
  /\ server[c] = "wait" =>
       Len(argvs[c]) = Len(meant[c]) + 1 /\ Name(argvs[c][Len(argvs[c])]) # <<"G">>
  /\ slot[c] = <<OK>> => Own(c, Len(argvs[c]))
  /\ \A i \in 1 .. Len(meant[c]) : i <= Len(argvs[c]) /\ meant[c][i] = OK => Own(c, i)
Answers == \A c \in Conns : AnswersTo(c)

\* Every engine holds what its prefix of the stream makes.
Stores == \A e \in Engines : store[e] = History(stream, at[e])

\* ReadsOwnWrites, over History.
OwnReads ==
  \A c \in Conns : \A i, j \in 1 .. Len(meant[c]) :
    i < j /\ j <= Len(argvs[c]) /\ meant[c][i] = OK /\ Name(argvs[c][j]) = <<"G">> =>
      \E p \in 1 .. Len(stream) : \E n \in p .. Len(stream) :
        /\ stream[p] = [conn |-> c, argv |-> argvs[c][i]]
        /\ meant[c][j] = Lookup(History(stream, n), argvs[c][j][2])

Session == Types /\ Ends /\ Pending /\ Answers /\ Stores /\ OwnReads

\* A sequence over a set is one over any larger set.
LEMMA Widen ==
  ASSUME NEW S, NEW T, S \subseteq T, NEW q \in Seq(S)
  PROVE  q \in Seq(T)
OBVIOUS

LEMMA SessionInitially == SessionInit => Session
<1> SUFFICES ASSUME SessionInit PROVE Session
  OBVIOUS
<1>1. Types
  <2>1. Over({})
    BY DEF SessionInit, Over
  <2> QED
    BY <2>1, SessionAssumption DEF SessionInit, Types
<1>2. Ends /\ Pending /\ Answers /\ OwnReads
  BY SessionAssumption DEF SessionInit, Ends, Pending, Answers, AnswersTo, OwnReads
<1>3. Stores
  <2>1. stream \in Seq({}) 
    BY DEF SessionInit
  <2>2. History(stream, 0) = <<>>
    BY <2>1, HistoryStarts
  <2> QED
    BY <2>2 DEF SessionInit, Stores
<1> QED
  BY <1>1, <1>2, <1>3 DEF Session

\* Steps that move bytes, or close an end, and leave the tasks and the driver alone.
LEMMA WiresKeepSession ==
  ASSUME Session, UNCHANGED <<hand, server, argvs, meant, slot, driver, queue, stream, store, at>>,
         client' \in [Conns -> {"unused", "new", "open", "gone"}], DOMAIN down' = Conns,
         \A c \in Conns : client'[c] = "gone" => down'[c] = <<>>,
         \A c \in Conns : client'[c] \in {"unused", "new"} <=> client[c] \in {"unused", "new"}
  PROVE  Session'
<1>1. Types'
  <2>1. PICK S : Over(S)
    BY DEF Session, Types
  <2>2. Over(S)'
    BY <2>1 DEF Over
  <2> QED
    BY <2>2 DEF Session, Types
<1>2. Ends'
  BY DEF Session, Ends
<1>3. Pending'
  BY DEF Session, Pending, Pends, IsWrite
<1>4. Answers'
  BY DEF Session, Answers, AnswersTo, Own
<1>5. Stores' /\ OwnReads'
  BY DEF Session, Stores, OwnReads
<1> QED
  BY <1>1, <1>2, <1>3, <1>4, <1>5 DEF Session

\* Steps of a task that neither decode a command nor reply.
LEMMA TaskMovesKeepsSession ==
  ASSUME Session, NEW c \in Conns, server[c] \in {"read", "decode"},
         NEW s \in {"read", "decode", "closed"}, server' = [server EXCEPT ![c] = s],
         UNCHANGED <<clientVars, argvs, meant, down, slot, driverVars>>
  PROVE  Session'
<1> USE DEF clientVars, driverVars
<1>1. Types'
  <2>1. PICK S : Over(S)
    BY DEF Session, Types
  <2>2. Over(S)'
    BY <2>1 DEF Over
  <2> QED
    BY <2>2 DEF Session, Types
<1>2. Ends'
  BY DEF Session, Types, Ends
<1>3. Pending'
  <2>1. ASSUME NEW w, Pends(w) PROVE Pends(w)'
    BY <2>1 DEF Session, Types, Pends, IsWrite
  <2>2. \A d \in Conns : slot'[d] # <<>> => server'[d] = "wait"
    BY DEF Session, Types, Pending
  <2>3. \A p \in 1 .. Len(stream) : IsWrite(stream[p])'
    BY DEF Session, Pending, IsWrite
  <2> QED
    BY <2>1, <2>2, <2>3 DEF Session, Pending
<1>4. Answers'
  BY DEF Session, Types, Answers, AnswersTo, Own
<1>5. Stores' /\ OwnReads'
  BY DEF Session, Stores, OwnReads
<1> QED
  BY <1>1, <1>2, <1>3, <1>4, <1>5 DEF Session

\* Streams, commands and replies are only appended to, and the local engine only goes on.
Grows ==
  /\ Len(stream) <= Len(stream') /\ at[Local] <= at'[Local]
  /\ \A p \in 1 .. Len(stream) : stream'[p] = stream[p]
  /\ \A n \in 0 .. Len(stream) : History(stream', n) = History(stream, n)
  /\ \A c \in Conns :
       /\ Len(argvs[c]) <= Len(argvs'[c])
       /\ \A i \in 1 .. Len(argvs[c]) : argvs'[c][i] = argvs[c][i]
       /\ Len(meant[c]) <= Len(meant'[c])
       /\ \A i \in 1 .. Len(meant[c]) : meant'[c][i] = meant[c][i]

\* What was applied stays applied.
LEMMA OwnStays ==
  ASSUME Types, Types', Grows, NEW c \in Conns, NEW k \in 1 .. Len(argvs[c]), Own(c, k)
  PROVE  Own(c, k)'
<1>1. PICK p \in 1 .. at[Local] : stream[p] = [conn |-> c, argv |-> argvs[c][k]]
  BY DEF Own
<1>2. at[Local] \in 0 .. Len(stream) /\ at'[Local] \in Nat /\ Len(stream) \in Nat
  BY SessionAssumption DEF Types, Over
<1>3. p \in 1 .. Len(stream) /\ p \in 1 .. at'[Local]
  BY <1>1, <1>2 DEF Grows
<1>4. stream'[p] = [conn |-> c, argv |-> argvs'[c][k]]
  BY <1>1, <1>3 DEF Grows
<1> QED
  BY <1>3, <1>4 DEF Own

\* ReadsOwnWrites survives a step that adds no read, or one answered from the local
\* engine as it is: an earlier OK was for a write that it has applied.
LEMMA ReadsKept ==
  ASSUME Session, Types', Answers', Grows,
         \A c \in Conns : \A j \in 1 .. Len(meant'[c]) :
           j <= Len(argvs'[c]) /\ Name(argvs'[c][j]) = <<"G">> =>
             \/ j <= Len(meant[c]) /\ j <= Len(argvs[c])
             \/ meant'[c][j] = Lookup(History(stream', at'[Local]), argvs'[c][j][2])
  PROVE  OwnReads'
<1> SUFFICES ASSUME NEW c \in Conns, NEW i \in 1 .. Len(meant'[c]), NEW j \in 1 .. Len(meant'[c]),
                    i < j, j <= Len(argvs'[c]), meant'[c][i] = OK, Name(argvs'[c][j]) = <<"G">>
             PROVE  \E p \in 1 .. Len(stream') : \E n \in p .. Len(stream') :
                      /\ stream'[p] = [conn |-> c, argv |-> argvs'[c][i]]
                      /\ meant'[c][j] = Lookup(History(stream', n), argvs'[c][j][2])
  BY DEF OwnReads
<1>0. /\ Len(meant[c]) \in Nat /\ Len(argvs[c]) \in Nat /\ Len(stream) \in Nat
      /\ Len(meant'[c]) \in Nat /\ Len(argvs'[c]) \in Nat /\ Len(stream') \in Nat
      /\ at'[Local] \in 0 .. Len(stream')
  BY SessionAssumption DEF Session, Types, Over
<1>1. CASE j <= Len(meant[c]) /\ j <= Len(argvs[c])
  <2>1. /\ i \in 1 .. Len(meant[c]) /\ j \in 1 .. Len(meant[c])
        /\ i \in 1 .. Len(argvs[c]) /\ j \in 1 .. Len(argvs[c])
    BY <1>0, <1>1
  <2>2. /\ meant'[c][i] = meant[c][i] /\ meant'[c][j] = meant[c][j]
        /\ argvs'[c][i] = argvs[c][i] /\ argvs'[c][j] = argvs[c][j]
    BY <2>1 DEF Grows
  <2>3. PICK p \in 1 .. Len(stream) : \E n \in p .. Len(stream) :
               /\ stream[p] = [conn |-> c, argv |-> argvs[c][i]]
               /\ meant[c][j] = Lookup(History(stream, n), argvs[c][j][2])
    BY <1>1, <2>1, <2>2 DEF Session, OwnReads
  <2>6. PICK n \in p .. Len(stream) :
               /\ stream[p] = [conn |-> c, argv |-> argvs[c][i]]
               /\ meant[c][j] = Lookup(History(stream, n), argvs[c][j][2])
    BY <2>3
  <2>4. /\ p \in 1 .. Len(stream') /\ n \in p .. Len(stream') /\ n \in 0 .. Len(stream)
        /\ stream'[p] = stream[p] 
    BY <1>0, <2>6 DEF Grows
  <2>5. History(stream', n) = History(stream, n)
    BY <2>4 DEF Grows
  <2> QED
    BY <2>2, <2>6, <2>4, <2>5
<1>2. CASE ~(j <= Len(meant[c]) /\ j <= Len(argvs[c]))
  <2>1. meant'[c][j] = Lookup(History(stream', at'[Local]), argvs'[c][j][2])
    BY <1>2
  <2>2. i <= Len(argvs'[c])
    BY <1>0
  <2>3. PICK p \in 1 .. at'[Local] : stream'[p] = [conn |-> c, argv |-> argvs'[c][i]]
    BY <2>2 DEF Answers, AnswersTo, Own
  <2>4. p \in 1 .. Len(stream') /\ at'[Local] \in p .. Len(stream')
    BY <1>0
  <2> QED
    BY <2>1, <2>3, <2>4
<1> QED
  BY <1>1, <1>2

LEMMA AppendedTo ==
  ASSUME NEW S, NEW q \in Seq(S), NEW x
  PROVE  /\ Append(q, x) \in Seq(S \cup {x}) /\ Len(Append(q, x)) = Len(q) + 1
         /\ \A i \in 1 .. Len(q) : Append(q, x)[i] = q[i]
         /\ Append(q, x)[Len(q) + 1] = x
<1>1. q \in Seq(S \cup {x})
  BY Widen
<1> QED
  BY <1>1

\* What write_all changes.
LEMMA Replying ==
  ASSUME Types, Ends, NEW c \in Conns, NEW r, NEW then \in {"read", "decode", "closed"},
         server[c] # "none", WriteReply(c, r, then), client' = client
  PROVE  /\ DOMAIN down' = Conns /\ Ends'
         /\ \E s \in {then, "closed"} : server' = [server EXCEPT ![c] = s]
         /\ meant' = [meant EXCEPT ![c] = Append(@, r)]
BY DEF Types, Ends, WriteReply

\* listener_loop: a connection is admitted, or told that the proxy is busy.
LEMMA AcceptKeepsSession ==
  ASSUME Session, NEW c \in Conns, client[c] \in {"unused", "new"}, Accept(c),
         UNCHANGED <<hand, argvs, slot, driverVars>>
  PROVE  Session'
<1> USE DEF driverVars
<1>1. PICK s \in {"read", "closed"} : server' = [server EXCEPT ![c] = s]
  BY DEF Accept, Session, Types
<1>2. server[c] = "none" /\ meant[c] = <<>> /\ argvs[c] = <<>>
  BY DEF Session, Ends, Answers, AnswersTo
<1>3. meant' = meant \/ meant' = [meant EXCEPT ![c] = <<Busy>>]
  <2>1. PICK S : Over(S)
    BY DEF Session, Types
  <2> QED
    BY <2>1 DEF Accept, Over
<1>4. Types'
  <2>1. PICK S : Over(S)
    BY DEF Session, Types
  <2>2. Over(S \cup {Busy})'
    <3>1. \A q \in Seq(S) : q \in Seq(S \cup {Busy})
      BY Widen
    <3>2. <<Busy>> \in Seq(S \cup {Busy})
      OBVIOUS
    <3>3. meant' \in [Conns -> Seq(S \cup {Busy})]
      BY <1>3, <2>1, <3>1, <3>2 DEF Over
    <3> QED
      BY <2>1, <3>1, <3>3 DEF Over
  <2> QED
    BY <1>1, <2>2 DEF Session, Types, Accept
<1>5. Ends'
  BY <1>1 DEF Session, Types, Ends, Accept
<1>6. Pending'
  <2>1. ASSUME NEW w, Pends(w) PROVE Pends(w)'
    BY <1>1, <1>2, <2>1 DEF Session, Types, Pends, IsWrite
  <2>2. \A d \in Conns : slot'[d] # <<>> => server'[d] = "wait"
    BY <1>1, <1>2 DEF Session, Types, Pending
  <2>3. \A p \in 1 .. Len(stream) : IsWrite(stream[p])'
    BY DEF Session, Pending, IsWrite
  <2> QED
    BY <2>1, <2>2, <2>3 DEF Session, Pending
<1>7. Len(argvs[c]) = 0 /\ \A d \in Conns : d # c => meant'[d] = meant[d] /\ server'[d] = server[d]
  <2>1. PICK S : Over(S)
    BY DEF Session, Types
  <2> QED
    BY <1>1, <1>2, <1>3, <2>1 DEF Session, Types, Over
<1>8. Answers'
  <2>1. ASSUME NEW d \in Conns, d # c PROVE AnswersTo(d)'
    <3>1. \A k : Own(d, k)' <=> Own(d, k)
      BY DEF Own
    <3> QED
      BY <1>7, <2>1, <3>1 DEF Session, Answers, AnswersTo
  <2>2. AnswersTo(c)'
    <3>1. slot[c] = <<>>
      BY <1>2 DEF Session, Pending
    <3>2. \A i \in 1 .. Len(meant'[c]) : ~ (i <= Len(argvs[c]))
      BY <1>7
    <3>3. server'[c] \in {"read", "closed"}
      BY <1>1 DEF Session, Types
    <3>4. server'[c] = "read" => meant'[c] = <<>>
      BY <1>1, <1>2 DEF Session, Types, Accept
    <3> QED
      BY <1>2, <1>7, <3>1, <3>2, <3>3, <3>4 DEF AnswersTo
  <2> QED
    BY <2>1, <2>2 DEF Answers
<1>9. Stores'
  BY DEF Session, Stores
<1>10. OwnReads'
  <2> SUFFICES ASSUME NEW d \in Conns, NEW i \in 1 .. Len(meant'[d]), NEW j \in 1 .. Len(meant'[d]),
                      i < j, j <= Len(argvs[d]), meant'[d][i] = OK, Name(argvs[d][j]) = <<"G">>
               PROVE  \E p \in 1 .. Len(stream) : \E n \in p .. Len(stream) :
                        /\ stream[p] = [conn |-> d, argv |-> argvs[d][i]]
                        /\ meant'[d][j] = Lookup(History(stream, n), argvs[d][j][2])
    BY DEF OwnReads
  <2>1. d # c
    BY <1>7
  <2>2. meant'[d] = meant[d] /\ i \in 1 .. Len(meant[d]) /\ j \in 1 .. Len(meant[d])
    BY <1>7, <2>1
  <2>3. meant[d][i] = OK
    BY <2>2
  <2>4. \E p \in 1 .. Len(stream) : \E n \in p .. Len(stream) :
          /\ stream[p] = [conn |-> d, argv |-> argvs[d][i]]
          /\ meant[d][j] = Lookup(History(stream, n), argvs[d][j][2])
    BY <2>2, <2>3 DEF Session, OwnReads
  <2> QED
    BY <2>2, <2>4
<1> QED
  BY <1>4, <1>5, <1>6, <1>8, <1>9, <1>10 DEF Session

\* A task replies: OK only for its own write and only when that was applied, and a GET
\* only with what the local engine holds.
LEMMA ReplyKeepsSession ==
  ASSUME Session, NEW c \in Conns, server[c] \in {"decode", "wait"},
         NEW r, NEW then \in {"decode", "closed"}, WriteReply(c, r, then),
         slot' = [slot EXCEPT ![c] = <<>>],
         server[c] = "wait" => slot[c] # <<>> \/ ~driver,
         \/ argvs' = argvs
         \/ server[c] = "decode" /\ \E a : argvs' = [argvs EXCEPT ![c] = Append(@, a)],
         then = "decode" => Len(argvs'[c]) = Len(meant[c]) + 1,
         r = OK => server[c] = "wait" /\ Own(c, Len(argvs[c])),
         Len(meant[c]) + 1 <= Len(argvs'[c]) /\ Name(argvs'[c][Len(meant[c]) + 1]) = <<"G">> =>
           r = Lookup(store[Local], argvs'[c][Len(meant[c]) + 1][2]),
         UNCHANGED <<clientVars, driverVars>>
  PROVE  Session'
<1> USE DEF driverVars, clientVars
<1>1. PICK s \in {then, "closed"} : server' = [server EXCEPT ![c] = s]
  BY Replying DEF Session
<1>2. meant' = [meant EXCEPT ![c] = Append(@, r)] /\ DOMAIN down' = Conns /\ Ends'
  BY Replying DEF Session
<1>3. PICK S : Over(S)
  BY DEF Session, Types
<1>4. PICK a : argvs' = argvs \/ argvs' = [argvs EXCEPT ![c] = Append(@, a)]
  OBVIOUS
<1>5. Types'
  <2>1. \A q \in Seq(S) : /\ q \in Seq(S \cup {r, a})
                          /\ Append(q, r) \in Seq(S \cup {r, a})
                          /\ Append(q, a) \in Seq(S \cup {r, a})
    BY Widen
  <2>2. Over(S \cup {r, a})'
    <3>1. meant' \in [Conns -> Seq(S \cup {r, a})]
      BY <1>2, <1>3, <2>1 DEF Over
    <3>2. argvs' \in [Conns -> Seq(S \cup {r, a})]
      <4>1. argvs \in [Conns -> Seq(S)] /\ argvs[c] \in Seq(S)
        BY <1>3 DEF Over
      <4>2. argvs \in [Conns -> Seq(S \cup {r, a})] /\ Append(argvs[c], a) \in Seq(S \cup {r, a})
        BY <2>1, <4>1
      <4> QED
        BY <1>4, <4>2
    <3>3. slot' \in [Conns -> {<<>>} \cup {<<x>> : x \in S \cup {r, a}}]
      BY <1>3 DEF Over
    <3> QED
      BY <1>3, <2>1, <3>1, <3>2, <3>3 DEF Over
  <2> QED
    BY <1>1, <1>2, <2>2 DEF Session, Types
<1>6. /\ Len(meant[c]) \in Nat /\ Len(argvs[c]) \in Nat
      /\ Len(meant'[c]) = Len(meant[c]) + 1 /\ meant'[c][Len(meant[c]) + 1] = r
      /\ Len(argvs[c]) <= Len(argvs'[c])
      /\ \A i \in 1 .. Len(meant[c]) : meant'[c][i] = meant[c][i]
      /\ \A i \in 1 .. Len(argvs[c]) : argvs'[c][i] = argvs[c][i]
  <2>1. meant[c] \in Seq(S) /\ meant'[c] = Append(meant[c], r)
    BY <1>2, <1>3 DEF Over
  <2>2. argvs[c] \in Seq(S) /\ (argvs'[c] = argvs[c] \/ argvs'[c] = Append(argvs[c], a))
    BY <1>3, <1>4 DEF Over
  <2>3. /\ Len(meant'[c]) = Len(meant[c]) + 1 /\ meant'[c][Len(meant[c]) + 1] = r
        /\ \A i \in 1 .. Len(meant[c]) : meant'[c][i] = meant[c][i]
    BY <2>1, AppendedTo
  <2>4. /\ Len(argvs[c]) <= Len(argvs'[c])
        /\ \A i \in 1 .. Len(argvs[c]) : argvs'[c][i] = argvs[c][i]
    <3>1. Len(argvs[c]) \in Nat
      BY <2>2
    <3>2. CASE argvs'[c] = argvs[c]
      BY <3>1, <3>2
    <3>3. CASE argvs'[c] = Append(argvs[c], a)
      <4>1. /\ Len(Append(argvs[c], a)) = Len(argvs[c]) + 1
            /\ \A i \in 1 .. Len(argvs[c]) : Append(argvs[c], a)[i] = argvs[c][i]
        BY <2>2, AppendedTo
      <4> QED
        BY <3>1, <3>3, <4>1
    <3> QED
      BY <2>2, <3>2, <3>3
  <2> QED
    BY <2>1, <2>2, <2>3, <2>4
<1>7. ASSUME NEW d \in Conns, d # c
      PROVE  argvs'[d] = argvs[d] /\ meant'[d] = meant[d] /\ server'[d] = server[d] /\ slot'[d] = slot[d]
  BY <1>1, <1>2, <1>3, <1>4, <1>7 DEF Over, Session, Types
<1>8. slot'[c] = <<>> /\ server'[c] \in {then, "closed"}
  BY <1>1, <1>3 DEF Over, Session, Types
<1>9. Grows
  <2>1. Len(stream) \in Nat /\ at[Local] \in Nat
    BY <1>3, SessionAssumption DEF Over, Session, Types
  <2>2. \A d \in Conns : Len(argvs[d]) \in Nat /\ Len(meant[d]) \in Nat
    BY <1>3 DEF Over
  <2>3. \A d \in Conns :
          /\ Len(argvs[d]) <= Len(argvs'[d]) /\ Len(meant[d]) <= Len(meant'[d])
          /\ \A i \in 1 .. Len(argvs[d]) : argvs'[d][i] = argvs[d][i]
          /\ \A i \in 1 .. Len(meant[d]) : meant'[d][i] = meant[d][i]
    <3>1. ASSUME NEW d \in Conns, d # c
          PROVE  argvs'[d] = argvs[d] /\ meant'[d] = meant[d]
      BY <1>7, <3>1
    <3> TAKE d \in Conns
    <3>2. CASE d = c
      BY <1>6, <3>2
    <3>3. CASE d # c
      BY <2>2, <3>1, <3>3
    <3> QED
      BY <3>2, <3>3
  <2> QED
    BY <2>1, <2>3 DEF Grows
<1>10. Pending'
  <2>1. ASSUME NEW w, Pends(w), server[c] = "wait" => w.conn # c PROVE Pends(w)'
    BY <1>7, <2>1 DEF Pends, IsWrite
  <2>2. \A d \in Conns : slot'[d] # <<>> => server'[d] = "wait"
    BY <1>7, <1>8 DEF Session, Pending
  <2>3. \A q \in 1 .. Len(stream) : IsWrite(stream[q])'
    BY DEF Session, Pending, IsWrite
  <2>4. driver /\ server[c] = "wait" => \A w : Pends(w) => w.conn # c
    BY DEF Pends
  <2>5. ~driver => queue' = <<>>
    BY DEF Session, Pending
  <2>6. CASE driver
    BY <2>1, <2>2, <2>3, <2>4, <2>6 DEF Session, Pending
  <2>7. CASE ~driver
    BY <2>2, <2>3, <2>5, <2>7 DEF Session, Pending
  <2> QED
    BY <2>6, <2>7
<1>11. Answers'
  <2>1. ASSUME NEW d \in Conns, d # c PROVE AnswersTo(d)'
    <3>1. \A k : [conn |-> d, argv |-> argvs'[d][k]] = [conn |-> d, argv |-> argvs[d][k]]
      BY <1>7, <2>1
    <3>2. \A k : Own(d, k)' <=> Own(d, k)
      BY <3>1 DEF Own
    <3> QED
      BY <1>7, <2>1, <3>2 DEF Session, Answers, AnswersTo
  <2>2. AnswersTo(c)'
    <3>1. ASSUME NEW i \in 1 .. Len(meant'[c]), i <= Len(argvs'[c]), meant'[c][i] = OK
          PROVE  Own(c, i)'
      <4>1. i \in 1 .. Len(argvs[c]) /\ Own(c, i)
        <5>1. CASE i <= Len(meant[c])
          <6>1. i \in 1 .. Len(meant[c]) /\ meant[c][i] = OK
            BY <1>6, <3>1, <5>1
          <6>2. i <= Len(argvs[c])
            BY <1>6, <6>1 DEF Session, Answers, AnswersTo
          <6> QED
            BY <1>6, <6>1, <6>2 DEF Session, Answers, AnswersTo
        <5>2. CASE i = Len(meant[c]) + 1
          <6>1. r = OK
            BY <1>6, <3>1, <5>2
          <6>2. Len(argvs[c]) = i /\ Own(c, Len(argvs[c]))
            BY <5>2, <6>1 DEF Session, Answers, AnswersTo
          <6> QED
            BY <1>6, <6>2
        <5> QED
          BY <1>6, <5>1, <5>2
      <4> QED
        BY <1>5, <1>9, <4>1, OwnStays DEF Session
    <3>2. slot'[c] # <<OK>>
      BY <1>8
    <3>3. server'[c] \in {"read", "decode"} => Len(meant'[c]) = Len(argvs'[c])
      BY <1>6, <1>8
    <3>4. server'[c] \notin {"none", "wait"}
      BY <1>8
    <3> QED
      BY <3>1, <3>2, <3>3, <3>4 DEF AnswersTo
  <2> QED
    BY <2>1, <2>2 DEF Answers
<1>12. Stores'
  BY DEF Session, Stores
<1>13. OwnReads'
  <2>1. \A d \in Conns : \A j \in 1 .. Len(meant'[d]) :
           j <= Len(argvs'[d]) /\ Name(argvs'[d][j]) = <<"G">> =>
             \/ j <= Len(meant[d]) /\ j <= Len(argvs[d])
             \/ meant'[d][j] = Lookup(History(stream', at'[Local]), argvs'[d][j][2])
    <3> SUFFICES ASSUME NEW d \in Conns, NEW j \in 1 .. Len(meant'[d]),
                        j <= Len(argvs'[d]), Name(argvs'[d][j]) = <<"G">>,
                        ~ (j <= Len(meant[d]) /\ j <= Len(argvs[d]))
                 PROVE  meant'[d][j] = Lookup(History(stream', at'[Local]), argvs'[d][j][2])
      OBVIOUS
    <3>1. d = c
      <4>1. d # c => j <= Len(meant[d]) /\ j <= Len(argvs[d])
        <5>1. Len(meant[d]) \in Nat
          BY <1>3 DEF Over
        <5> QED
          BY <1>7, <5>1
      <4> QED
        BY <4>1
    <3>2. j = Len(meant[c]) + 1
      <4>1. j <= Len(meant[c]) => j <= Len(argvs[c])
        BY <1>6, <3>1 DEF Session, Answers, AnswersTo
      <4> QED
        BY <1>6, <3>1, <4>1
    <3>3. meant'[d][j] = Lookup(store[Local], argvs'[d][j][2])
      BY <1>6, <3>1, <3>2
    <3>4. store[Local] = History(stream, at[Local])
      BY SessionAssumption DEF Session, Stores
    <3> QED
      BY <3>3, <3>4
  <2> QED
    BY <1>5, <1>9, <1>11, <2>1, ReadsKept
<1> QED
  BY <1>2, <1>5, <1>10, <1>11, <1>12, <1>13 DEF Session

\* No reply other than that of an applied SET is OK.
LEMMA NeverOK ==
  ASSUME NEW s, NEW argv
  PROVE  /\ Query(s, argv) # OK /\ Unknown(argv) # OK /\ Unavailable # OK
         /\ Dropped # OK /\ Desync # OK /\ Nil # OK /\ Busy # OK
BY DEF Query, Lookup, Unknown, Unavailable, Dropped, Desync, Busy, OK, Nil, Bulk, Array, Error, Simple, Reply

LEMMA DesyncsKeepsSession ==
  ASSUME Session, NEW c \in Conns, server[c] = "decode", NEW p, Desyncs(c, p)
  PROVE  Session'
<1>1. slot' = [slot EXCEPT ![c] = <<>>] /\ Len(meant[c]) = Len(argvs[c]) /\ Len(argvs[c]) \in Nat
  BY DEF Desyncs, Session, Types, Over, Pending, Answers, AnswersTo
<1>2. WriteReply(c, Desync, "closed") /\ UNCHANGED <<clientVars, driverVars>> /\ argvs' = argvs
  BY DEF Desyncs
<1>3. Desync # OK /\ ~ (Len(meant[c]) + 1 <= Len(argvs'[c]))
  BY <1>1, <1>2, NeverOK
<1> QED
  BY <1>1, <1>2, <1>3, ReplyKeepsSession

LEMMA AnswersAtOnceKeepsSession ==
  ASSUME Session, NEW c \in Conns, server[c] = "decode", NEW p, AnswersAtOnce(c, p)
  PROVE  Session'
<1> DEFINE r == AnswerAtOnce(p.argv, Classify(p.argv))
<1>1. slot' = [slot EXCEPT ![c] = <<>>] /\ Len(meant[c]) = Len(argvs[c]) /\ Len(argvs[c]) \in Nat
  BY DEF AnswersAtOnce, Session, Types, Over, Pending, Answers, AnswersTo
<1>2. argvs' = [argvs EXCEPT ![c] = Append(@, p.argv)]
  BY DEF AnswersAtOnce, Decoded
<1>3. /\ Len(argvs'[c]) = Len(meant[c]) + 1
      /\ argvs'[c][Len(meant[c]) + 1] = p.argv
  <2>1. PICK S : Over(S)
    BY DEF Session, Types
  <2>2. argvs[c] \in Seq(S) /\ argvs'[c] = Append(argvs[c], p.argv)
    BY <1>2, <2>1 DEF Over
  <2> QED
    BY <1>1, <2>2, AppendedTo
<1>4. r # OK
  BY NeverOK DEF AnswerAtOnce
<1>5. Name(p.argv) = <<"G">> => r = Lookup(store[Local], p.argv[2])
  <2>1. Name(p.argv) = <<"G">> => Classify(p.argv) = "Read"
    BY DEF Classify
  <2> QED
    BY <2>1 DEF AnswerAtOnce, Query
<1>6. WriteReply(c, r, "decode") /\ UNCHANGED <<clientVars, driverVars>>
  BY DEF AnswersAtOnce, AfterCommand
<1> HIDE DEF r
<1> QED
  BY <1>1, <1>2, <1>3, <1>4, <1>5, <1>6, ReplyKeepsSession

LEMMA HearsDriverKeepsSession ==
  ASSUME Session, NEW c \in Conns, HearsDriver(c)
  PROVE  Session'
<1> DEFINE r == IF slot[c] # <<>> THEN slot[c][1] ELSE Dropped
<1>1. server[c] = "wait" /\ argvs' = argvs /\ Len(argvs'[c]) = Len(meant[c]) + 1 /\ Len(meant[c]) \in Nat
  BY DEF HearsDriver, Session, Types, Over, Answers, AnswersTo
<1>2. r = OK => slot[c] = <<OK>>
  <2>1. PICK S : Over(S)
    BY DEF Session, Types
  <2>2. slot[c] # <<>> => slot[c] = <<slot[c][1]>>
    BY <2>1 DEF Over
  <2> QED
    BY <2>2, NeverOK
<1>3. r = OK => Own(c, Len(argvs[c]))
  BY <1>2 DEF Session, Answers, AnswersTo
<1>4. Name(argvs'[c][Len(meant[c]) + 1]) # <<"G">>
  BY <1>1 DEF Session, Answers, AnswersTo
<1>5. WriteReply(c, r, "decode") /\ UNCHANGED <<clientVars, driverVars>>
      /\ slot' = [slot EXCEPT ![c] = <<>>] /\ (slot[c] # <<>> \/ ~driver)
  BY DEF HearsDriver, AfterCommand
<1> HIDE DEF r
<1> QED
  BY <1>1, <1>3, <1>4, <1>5, ReplyKeepsSession

LEMMA AsksDriverKeepsSession ==
  ASSUME Session, NEW c \in Conns, server[c] = "decode", NEW p, AsksDriver(c, p)
  PROVE  Session'
<1> DEFINE w == [conn |-> c, argv |-> p.argv]
<1>1. PICK S : Over(S)
  BY DEF Session, Types
<1>2. /\ argvs' = [argvs EXCEPT ![c] = Append(@, p.argv)] /\ queue' = Append(queue, w)
      /\ server' = [server EXCEPT ![c] = "wait"] /\ driver
      /\ UNCHANGED <<clientVars, driver, stream, store, at, meant, down, slot>>
  BY DEF AsksDriver, Decoded
<1>3. /\ slot[c] = <<>> /\ Len(meant[c]) = Len(argvs[c])
      /\ Len(meant[c]) \in Nat /\ Len(argvs[c]) \in Nat /\ Len(queue) \in Nat /\ Len(stream) \in Nat
      /\ at[Local] \in 0 .. Len(stream)
  BY <1>1, SessionAssumption DEF AsksDriver, Session, Types, Over, Pending, Answers, AnswersTo
<1>4. Types'
  <2>1. /\ argvs[c] \in Seq(S) /\ queue \in Seq(S)
        /\ \A q \in Seq(S) : q \in Seq(S \cup {w, p.argv})
    BY <1>1, Widen DEF Over
  <2>2. Append(argvs[c], p.argv) \in Seq(S \cup {w, p.argv}) /\ queue' \in Seq(S \cup {w, p.argv})
    BY <1>2, <2>1
  <2>3. argvs' \in [Conns -> Seq(S \cup {w, p.argv})]
    BY <1>1, <1>2, <2>1, <2>2 DEF Over
  <2>4. Over(S \cup {w, p.argv})'
    <3>1. slot' \in [Conns -> {<<>>} \cup {<<r>> : r \in S \cup {w, p.argv}}]
      BY <1>1, <1>2 DEF Over
    <3> QED
      BY <1>1, <1>2, <2>1, <2>2, <2>3, <3>1 DEF Over
  <2> QED
    BY <1>2, <2>4 DEF Session, Types, clientVars
<1>5. /\ Len(argvs'[c]) = Len(argvs[c]) + 1 /\ argvs'[c][Len(argvs[c]) + 1] = p.argv
      /\ \A i \in 1 .. Len(argvs[c]) : argvs'[c][i] = argvs[c][i]
      /\ Len(queue') = Len(queue) + 1 /\ queue'[Len(queue) + 1] = w
      /\ \A i \in 1 .. Len(queue) : queue'[i] = queue[i]
  <2>1. argvs[c] \in Seq(S) /\ argvs'[c] = Append(argvs[c], p.argv) /\ queue \in Seq(S)
    BY <1>1, <1>2 DEF Over
  <2> QED
    BY <1>2, <2>1, AppendedTo
<1>6. /\ server'[c] = "wait"
      /\ \A d \in Conns : d # c => argvs'[d] = argvs[d] /\ server'[d] = server[d]
  BY <1>1, <1>2 DEF Over, Session, Types
<1>7. Ends'
  BY <1>2, <1>6 DEF Session, Ends, AsksDriver, clientVars
<1>8. Pending'
  <2>1. ASSUME NEW x, Pends(x) PROVE Pends(x)' /\ x.conn # c
    <3>1. x.conn # c
      BY <2>1 DEF Pends, AsksDriver
    <3> QED
      BY <1>2, <1>6, <2>1, <3>1 DEF Pends, IsWrite
  <2>2. \A d \in Conns : slot'[d] # <<>> => server'[d] = "wait"
    BY <1>2, <1>6 DEF Session, Pending
  <2>3. \A q \in 1 .. Len(stream') : IsWrite(stream'[q])
    BY <1>2 DEF Session, Pending
  <2>4. Pends(w)' /\ w.conn = c
    BY <1>2, <1>3, <1>5, <1>6 DEF Pends, IsWrite
  <2> HIDE DEF w
  <2>5. \A i \in 1 .. Len(queue') : i = Len(queue) + 1 \/ i \in 1 .. Len(queue)
    BY <1>3, <1>5
  <2>6. \A i \in 1 .. Len(queue) : Pends(queue[i]) /\ queue[i].conn # c
    BY <2>1 DEF Session, Pending
  <2>7. ASSUME NEW i \in 1 .. Len(queue') PROVE Pends(queue[i])'
    <3>1. \A x : Pends(x) => Pends(x)'
      BY <2>1
    <3>2. PICK x : queue'[i] = x /\ (x = w \/ Pends(x))
      BY <1>5, <2>5, <2>6
    <3>3. Pends(x)'
      BY <2>4, <3>1, <3>2
    <3> QED
      BY <3>2, <3>3 DEF Pends, IsWrite
  <2>8. \A i, j \in 1 .. Len(queue') : queue'[i].conn = queue'[j].conn => i = j
    BY <1>5, <2>4, <2>5, <2>6 DEF Session, Pending
  <2>9. \A q \in at[Local] + 1 .. Len(stream) :
          /\ Pends(stream[q])' /\ stream[q].conn # c
          /\ \A r \in at[Local] + 1 .. Len(stream) : stream[q].conn = stream[r].conn => q = r
          /\ \A i \in 1 .. Len(queue) : stream[q].conn # queue[i].conn
    BY <1>2, <2>1 DEF Session, Pending
  <2>10. \A q \in at[Local] + 1 .. Len(stream) : \A i \in 1 .. Len(queue') : stream[q].conn # queue'[i].conn
    BY <1>5, <2>4, <2>5, <2>9
  <2> QED
    BY <1>2, <2>2, <2>3, <2>7, <2>8, <2>9, <2>10 DEF Pending
<1>9. Grows
  <2>1. \A d \in Conns : Len(argvs[d]) \in Nat /\ Len(meant[d]) \in Nat
    BY <1>1 DEF Over
  <2>2. \A d \in Conns : /\ Len(argvs[d]) <= Len(argvs'[d])
                         /\ \A i \in 1 .. Len(argvs[d]) : argvs'[d][i] = argvs[d][i]
    <3> TAKE d \in Conns
    <3>1. CASE d = c
      BY <1>5, <2>1, <3>1
    <3>2. CASE d # c
      BY <1>6, <2>1, <3>2
    <3> QED
      BY <3>1, <3>2
  <2> QED
    BY <1>2, <1>3, <2>1, <2>2 DEF Grows
<1>10. Answers'
  <2>1. ASSUME NEW d \in Conns, d # c PROVE AnswersTo(d)'
    <3>1. \A k : [conn |-> d, argv |-> argvs'[d][k]] = [conn |-> d, argv |-> argvs[d][k]]
      BY <1>6, <2>1
    <3>2. \A k : Own(d, k)' <=> Own(d, k)
      BY <1>2, <3>1 DEF Own
    <3> QED
      BY <1>2, <1>6, <2>1, <3>2 DEF Session, Answers, AnswersTo
  <2>2. AnswersTo(c)'
    <3>1. ASSUME NEW i \in 1 .. Len(meant[c]), meant[c][i] = OK PROVE Own(c, i)'
      <4>1. i \in 1 .. Len(argvs[c]) /\ Own(c, i)
        BY <1>3, <3>1 DEF Session, Answers, AnswersTo
      <4> QED
        BY <1>4, <1>9, <4>1, OwnStays DEF Session
    <3>2. Name(p.argv) # <<"G">>
      BY DEF AsksDriver, Classify
    <3> QED
      BY <1>2, <1>3, <1>5, <1>6, <3>1, <3>2 DEF AnswersTo
  <2> QED
    BY <2>1, <2>2 DEF Answers
<1>11. Stores'
  BY <1>2 DEF Session, Stores
<1>12. OwnReads'
  <2>1. \A d \in Conns : \A j \in 1 .. Len(meant'[d]) :
          j <= Len(argvs'[d]) /\ Name(argvs'[d][j]) = <<"G">> =>
            j <= Len(meant[d]) /\ j <= Len(argvs[d])
    <3>1. \A d \in Conns : \A j \in 1 .. Len(meant'[d]) : j <= Len(meant[d])
      <4>1. \A d \in Conns : Len(meant[d]) \in Nat
        BY <1>1 DEF Over
      <4> QED
        BY <1>2, <4>1
    <3> QED
      BY <1>2, <1>3, <1>6, <3>1
  <2> QED
    BY <1>4, <1>9, <1>10, <2>1, ReadsKept
<1> QED
  BY <1>4, <1>7, <1>8, <1>10, <1>11, <1>12 DEF Session

LEMMA DriverEndsKeepsSession ==
  ASSUME Session, DriverEnds
  PROVE  Session'
<1> USE DEF DriverEnds, clientVars, serverVars
<1>1. Types'
  <2>1. PICK S : Over(S)
    BY DEF Session, Types
  <2>2. Over(S)'
    BY <2>1 DEF Over
  <2> QED
    BY <2>2 DEF Session, Types
<1>2. Ends' /\ Stores' /\ OwnReads'
  BY DEF Session, Ends, Stores, OwnReads
<1>3. Pending'
  <2>1. queue' = <<>> /\ ~driver' /\ Len(queue') = 0
    OBVIOUS
  <2> QED
    BY <2>1 DEF Session, Pending, IsWrite
<1>4. Answers'
  BY DEF Session, Answers, AnswersTo, Own
<1> QED
  BY <1>1, <1>2, <1>3, <1>4 DEF Session

LEMMA TailOf ==
  ASSUME NEW S, NEW q \in Seq(S), q # <<>>
  PROVE  /\ Tail(q) \in Seq(S) /\ Len(Tail(q)) = Len(q) - 1 /\ Len(q) \in Nat \ {0}
         /\ \A i \in 1 .. Len(q) - 1 : Tail(q)[i] = q[i + 1]
         /\ Head(q) = q[1] /\ Head(q) \in S
OBVIOUS

\* A write goes from the channel into the stream, or is lost; a no-op is answered.
LEMMA HandlesRequestKeepsSession ==
  ASSUME Session, HandleWriteRequest
  PROVE  Session'
<1> DEFINE w == Head(queue)
<1>1. PICK S : Over(S)
  BY DEF Session, Types
<1>2. /\ driver /\ queue # <<>> /\ queue' = Tail(queue)
      /\ UNCHANGED <<hand, client, server, argvs, meant, driver, store, at, down>>
  BY DEF HandleWriteRequest, clientVars, serverVars
<1>3. /\ queue' \in Seq(S) /\ Len(queue') = Len(queue) - 1 /\ Len(queue) \in Nat \ {0}
      /\ \A i \in 1 .. Len(queue') : i + 1 \in 1 .. Len(queue) /\ queue'[i] = queue[i + 1]
      /\ w = queue[1] /\ w \in S /\ 1 \in 1 .. Len(queue)
  <2>1. queue \in Seq(S)
    BY <1>1 DEF Over
  <2>2. /\ Tail(queue) \in Seq(S) /\ Len(Tail(queue)) = Len(queue) - 1 /\ Len(queue) \in Nat \ {0}
        /\ \A i \in 1 .. Len(queue) - 1 : Tail(queue)[i] = queue[i + 1]
        /\ w = queue[1] /\ w \in S
    BY <1>2, <2>1, TailOf
  <2> QED
    BY <1>2, <2>2
<1>4. Pends(w) /\ w.conn \in Conns
  <2>1. Pends(queue[1])
    BY <1>3 DEF Session, Pending
  <2> HIDE DEF w
  <2> QED
    BY <1>3, <2>1 DEF Pends, IsWrite
<1>5. \/ stream' = stream /\ slot' = [slot EXCEPT ![w.conn] = <<Nil>>]
      \/ stream' = Append(stream, w) /\ slot' = slot
      \/ stream' = stream /\ slot' = slot
  BY DEF HandleWriteRequest
<1> HIDE DEF w
<1>6. /\ Len(stream) \in Nat /\ Len(stream') \in Nat /\ Len(stream) <= Len(stream')
      /\ at[Local] \in 0 .. Len(stream)
      /\ \A q \in 1 .. Len(stream) : stream'[q] = stream[q]
      /\ \A q \in 1 .. Len(stream') :
           \/ q \in 1 .. Len(stream)
           \/ stream'[q] = w /\ q = Len(stream) + 1 /\ slot' = slot
      /\ stream' \in Seq(S)
  <2>1. Len(stream) \in Nat /\ at[Local] \in 0 .. Len(stream) /\ stream \in Seq(S)
    BY <1>1, SessionAssumption DEF Session, Types, Over
  <2>2. CASE stream' = Append(stream, w) /\ slot' = slot
    <3>1. stream' \in Seq(S) /\ Len(stream') = Len(stream) + 1 /\ stream'[Len(stream) + 1] = w
          /\ \A q \in 1 .. Len(stream) : stream'[q] = stream[q]
      <4>1. w \in S
        BY <1>3
      <4> QED
        BY <2>1, <2>2, <4>1
    <3>2. \A q \in 1 .. Len(stream') : q \in 1 .. Len(stream) \/ q = Len(stream) + 1
      BY <2>1, <3>1
    <3> QED
      BY <2>1, <2>2, <3>1, <3>2
  <2>3. CASE stream' = stream
    BY <2>1, <2>3
  <2> QED
    BY <1>5, <2>2, <2>3
<1>7. Types'
  <2>1. \A q \in Seq(S) : q \in Seq(S \cup {Nil})
    BY Widen
  <2>2. slot' \in [Conns -> {<<>>} \cup {<<r>> : r \in S \cup {Nil}}]
    <3>1. slot \in [Conns -> {<<>>} \cup {<<r>> : r \in S \cup {Nil}}]
      <4>1. \A d \in Conns : slot[d] \in {<<>>} \cup {<<r>> : r \in S \cup {Nil}}
        BY <1>1 DEF Over
      <4> QED
        BY <1>1, <4>1 DEF Over
    <3>2. <<Nil>> \in {<<>>} \cup {<<r>> : r \in S \cup {Nil}}
      OBVIOUS
    <3> QED
      BY <1>5, <3>1, <3>2
  <2>3. Over(S \cup {Nil})'
    BY <1>1, <1>2, <1>3, <1>6, <2>1, <2>2 DEF Over
  <2>4. at' \in [Engines -> 0 .. Len(stream')]
    BY <1>2, <1>6 DEF Session, Types
  <2> QED
    BY <1>2, <2>3, <2>4 DEF Session, Types
<1>8. Ends'
  BY <1>2 DEF Session, Ends
<1>9. /\ \A d \in Conns : slot'[d] = slot[d] \/ (d = w.conn /\ slot'[d] = <<Nil>>)
      /\ slot' # slot => stream' = stream
  BY <1>1, <1>4, <1>5 DEF Over
<1>10. Pending'
  <2>1. ASSUME NEW x, Pends(x), x.conn # w.conn \/ slot' = slot PROVE Pends(x)'
    BY <1>2, <1>9, <2>1 DEF Pends, IsWrite
  <2>2. \A d \in Conns : slot'[d] # <<>> => server'[d] = "wait"
    <3>1. server[w.conn] = "wait"
      BY <1>4 DEF Pends
    <3> QED
      BY <1>2, <1>9, <3>1 DEF Session, Pending
  <2>3. \A q \in 1 .. Len(stream') : IsWrite(stream'[q])
    <3>1. IsWrite(w)
      BY <1>4 DEF Pends
    <3> QED
      BY <1>6, <3>1 DEF Session, Pending
  <2>4. ASSUME NEW i \in 1 .. Len(queue') PROVE Pends(queue[i])' /\ queue'[i].conn # w.conn
    <3>1. Pends(queue[i + 1]) /\ queue'[i] = queue[i + 1]
      BY <1>3 DEF Session, Pending
    <3>2. queue'[i].conn # w.conn
      <4>1. i + 1 # 1 /\ i + 1 \in 1 .. Len(queue) /\ 1 \in 1 .. Len(queue)
        BY <1>3
      <4> QED
        BY <1>3, <3>1, <4>1 DEF Session, Pending
    <3>3. PICK x : x = queue[i + 1]
      OBVIOUS
    <3>4. Pends(x)'
      BY <2>1, <3>1, <3>2, <3>3
    <3> QED
      BY <3>1, <3>2, <3>3, <3>4 DEF Pends, IsWrite
  <2>5. \A i, j \in 1 .. Len(queue') : queue'[i].conn = queue'[j].conn => i = j
    <3> SUFFICES ASSUME NEW i \in 1 .. Len(queue'), NEW j \in 1 .. Len(queue'),
                        queue'[i].conn = queue'[j].conn
                 PROVE  i = j
      OBVIOUS
    <3>1. i + 1 \in 1 .. Len(queue) /\ j + 1 \in 1 .. Len(queue)
          /\ queue[i + 1].conn = queue[j + 1].conn
      BY <1>3
    <3>2. i + 1 = j + 1
      BY <3>1 DEF Session, Pending
    <3> QED
      BY <3>2
  <2>6. ASSUME NEW q \in at[Local] + 1 .. Len(stream) PROVE Pends(stream[q])' /\ stream[q].conn # w.conn
    <3>1. Pends(stream[q]) /\ stream[q].conn # w.conn
      BY <1>2, <1>3 DEF Session, Pending
    <3>2. q \in 1 .. Len(stream) /\ stream'[q] = stream[q]
      BY <1>6
    <3>3. PICK x : x = stream[q]
      OBVIOUS
    <3>4. Pends(x)'
      BY <2>1, <3>1, <3>3
    <3> QED
      BY <3>1, <3>2, <3>3, <3>4 DEF Pends, IsWrite
  <2>7. ASSUME NEW q \in at[Local] + 1 .. Len(stream')
        PROVE  /\ Pends(stream[q])'
               /\ \A r \in at[Local] + 1 .. Len(stream') : stream'[q].conn = stream'[r].conn => q = r
               /\ \A i \in 1 .. Len(queue') : stream'[q].conn # queue'[i].conn
    <3>1. \A r \in at[Local] + 1 .. Len(stream') :
            \/ r \in at[Local] + 1 .. Len(stream) /\ stream'[r] = stream[r]
            \/ stream'[r] = w /\ r = Len(stream) + 1 /\ slot' = slot
      BY <1>6
    <3>2. CASE q \in at[Local] + 1 .. Len(stream)
      <4>1. stream'[q] = stream[q] /\ stream[q].conn # w.conn /\ Pends(stream[q])'
        BY <1>6, <2>6, <3>2
      <4>2. \A r \in at[Local] + 1 .. Len(stream') : stream'[q].conn = stream'[r].conn => q = r
        BY <1>2, <3>1, <3>2, <4>1 DEF Session, Pending
      <4>3. \A i \in 1 .. Len(queue') : stream'[q].conn # queue'[i].conn
        BY <1>2, <1>3, <3>2, <4>1 DEF Session, Pending
      <4> QED
        BY <4>1, <4>2, <4>3
    <3>3. CASE stream'[q] = w /\ q = Len(stream) + 1 /\ slot' = slot
      <4>1. \A r \in at[Local] + 1 .. Len(stream') : stream'[q].conn = stream'[r].conn => q = r
        BY <2>6, <3>1, <3>3
      <4>2. \A i \in 1 .. Len(queue') : stream'[q].conn # queue'[i].conn
        BY <2>4, <3>3
      <4>3. PICK x : x = w
        OBVIOUS
      <4>4. Pends(x)'
        BY <1>4, <2>1, <3>3, <4>3
      <4>5. Pends(stream[q])'
        BY <3>3, <4>3, <4>4 DEF Pends, IsWrite
      <4> QED
        BY <4>1, <4>2, <4>5
    <3> QED
      BY <3>1, <3>2, <3>3
  <2> QED
    BY <1>2, <2>2, <2>3, <2>4, <2>5, <2>7 DEF Pending
<1>11. Grows
  <2>1. \A d \in Conns : Len(argvs[d]) \in Nat /\ Len(meant[d]) \in Nat
    BY <1>1 DEF Over
  <2>2. \A n \in 0 .. Len(stream) : History(stream', n) = History(stream, n)
    <3>1. stream \in Seq(S) /\ w \in S
      BY <1>1, <1>3 DEF Over
    <3> TAKE n \in 0 .. Len(stream)
    <3>2. History(Append(stream, w), n) = History(stream, n)
      BY <3>1, HistoryStays
    <3> QED
      BY <1>5, <3>1, <3>2
  <2> QED
    BY <1>2, <1>6, <2>1, <2>2 DEF Grows
<1>12. Answers'
  <2> SUFFICES ASSUME NEW c \in Conns PROVE AnswersTo(c)'
    BY DEF Answers
  <2>0. Len(argvs[c]) \in Nat /\ Len(meant[c]) \in Nat
    BY <1>1 DEF Over
  <2>1. slot'[c] = <<OK>> => Own(c, Len(argvs[c]))'
    <3> SUFFICES ASSUME slot'[c] = <<OK>> PROVE Own(c, Len(argvs[c]))'
      OBVIOUS
    <3>1. slot[c] = <<OK>>
      <4>1. <<Nil>>[1] # <<OK>>[1]
        BY NeverOK
      <4> QED
        BY <1>9, <4>1
    <3>2. Own(c, Len(argvs[c])) /\ Len(argvs[c]) = Len(meant[c]) + 1
      <4>1. server[c] = "wait"
        BY <3>1 DEF Session, Pending
      <4> QED
        BY <3>1, <4>1 DEF Session, Answers, AnswersTo
    <3>3. PICK k \in 1 .. Len(argvs[c]) : k = Len(argvs[c])
      BY <2>0, <3>2
    <3>4. Own(c, k)'
      BY <1>7, <1>11, <3>2, <3>3, OwnStays DEF Session
    <3> QED
      BY <1>2, <3>3, <3>4 DEF Own
  <2>2. ASSUME NEW i \in 1 .. Len(meant[c]), i <= Len(argvs[c]), meant[c][i] = OK
        PROVE  Own(c, i)'
    <3>1. i \in 1 .. Len(argvs[c]) /\ Own(c, i)
      BY <2>0, <2>2 DEF Session, Answers, AnswersTo
    <3> QED
      BY <1>7, <1>11, <3>1, OwnStays DEF Session
  <2> QED
    BY <1>2, <2>1, <2>2 DEF Session, Answers, AnswersTo
<1>13. Stores'
  <2>1. \A e \in Engines : at[e] \in 0 .. Len(stream)
    BY DEF Session, Types
  <2> QED
    BY <1>2, <1>11, <2>1 DEF Session, Stores, Grows
<1>14. OwnReads'
  <2>1. \A d \in Conns : \A j \in 1 .. Len(meant'[d]) :
          j <= Len(argvs'[d]) => j <= Len(meant[d]) /\ j <= Len(argvs[d])
    <3>1. \A d \in Conns : Len(meant[d]) \in Nat
      BY <1>1 DEF Over
    <3> QED
      BY <1>2, <3>1
  <2> QED
    BY <1>7, <1>11, <1>12, <2>1, ReadsKept
<1> QED
  BY <1>7, <1>8, <1>10, <1>12, <1>13, <1>14 DEF Session

\* An engine applies its next write, and the local one answers the session it came from:
\* the one session that waits for it.
LEMMA DeliverKeepsSession ==
  ASSUME Session, NEW e \in Engines, Deliver(e)
  PROVE  Session'
<1> DEFINE w == stream[at[e] + 1]
<1>0. PICK r : r = ApplyReply(store[e], w.argv)
  OBVIOUS
<1>1. PICK S : Over(S)
  BY DEF Session, Types
<1>2. /\ e = Local => driver
      /\ at' = [at EXCEPT ![e] = @ + 1] /\ store' = [store EXCEPT ![e] = ApplyTo(@, w.argv)]
      /\ slot' = IF e = Local THEN [slot EXCEPT ![w.conn] = <<r>>] ELSE slot
      /\ UNCHANGED <<hand, client, server, argvs, meant, driver, queue, stream, down>>
  BY <1>0 DEF Deliver, Releases, clientVars, serverVars
<1>3. /\ Len(stream) \in Nat /\ \A d \in Engines : at[d] \in 0 .. Len(stream)
      /\ at[e] < Len(stream) /\ at[e] + 1 \in 1 .. Len(stream) /\ stream \in Seq(S)
      /\ Local \in Engines
  BY <1>1, SessionAssumption DEF Session, Types, Over, Deliver
<1>4. /\ at'[e] = at[e] + 1 /\ \A d \in Engines \ {e} : at'[d] = at[d] /\ store'[d] = store[d]
      /\ at' \in [Engines -> 0 .. Len(stream)]
      /\ store'[e] = ApplyTo(store[e], w.argv) /\ DOMAIN store' = Engines
  BY <1>2, <1>3 DEF Session, Types
<1>5. e = Local => Pends(w) /\ w.conn \in Conns
  <2>1. e = Local => at[e] + 1 \in at[Local] + 1 .. Len(stream)
    BY <1>3
  <2>2. e = Local => Pends(stream[at[e] + 1])
    BY <1>2, <2>1 DEF Session, Pending
  <2> QED
    BY <2>2 DEF Pends, IsWrite
<1>6. /\ \A d \in Conns : slot'[d] = slot[d] \/ (e = Local /\ d = w.conn /\ slot'[d] = <<r>>)
      /\ slot' # slot => e = Local
  BY <1>1, <1>2, <1>5 DEF Over
<1>7. stream[at[e] + 1] = w
  OBVIOUS
<1> HIDE DEF w
<1>8. Types'
  <2>1. \A q \in Seq(S) : q \in Seq(S \cup {r})
    BY Widen
  <2>2. slot' \in [Conns -> {<<>>} \cup {<<x>> : x \in S \cup {r}}]
    <3>1. slot \in [Conns -> {<<>>} \cup {<<x>> : x \in S \cup {r}}]
      <4>1. \A d \in Conns : slot[d] \in {<<>>} \cup {<<x>> : x \in S \cup {r}}
        BY <1>1 DEF Over
      <4> QED
        BY <1>1, <4>1 DEF Over
    <3>2. <<r>> \in {<<>>} \cup {<<x>> : x \in S \cup {r}}
      OBVIOUS
    <3> QED
      BY <1>2, <3>1, <3>2
  <2>3. Over(S \cup {r})'
    <3>1. queue' \in Seq(S \cup {r}) /\ stream' \in Seq(S \cup {r})
      BY <1>1, <1>2, <2>1 DEF Over
    <3>2. argvs' \in [Conns -> Seq(S \cup {r})] /\ meant' \in [Conns -> Seq(S \cup {r})]
      <4>1. argvs \in [Conns -> Seq(S)] /\ meant \in [Conns -> Seq(S)]
        BY <1>1 DEF Over
      <4> QED
        BY <1>2, <2>1, <4>1
    <3> QED
      BY <2>2, <3>1, <3>2 DEF Over
  <2> QED
    BY <1>2, <1>4, <2>3 DEF Session, Types
<1>9. Ends'
  BY <1>2 DEF Session, Ends
<1>10. /\ at[Local] <= at'[Local] /\ at'[Local] \in 0 .. Len(stream)
       /\ e = Local => at'[Local] = at[Local] + 1
       /\ \A q \in at'[Local] + 1 .. Len(stream) :
            q \in at[Local] + 1 .. Len(stream) /\ (e = Local => q # at[Local] + 1)
  <2>1. at'[Local] = at[Local] \/ (e = Local /\ at'[Local] = at[Local] + 1)
    BY <1>3, <1>4
  <2>2. at[Local] \in 0 .. Len(stream) /\ at'[Local] \in 0 .. Len(stream)
    BY <1>3, <1>4
  <2>3. e = Local => at'[Local] = at[Local] + 1
    BY <1>4
  <2> QED
    BY <1>3, <2>1, <2>2, <2>3
<1>11. Pending'
  <2>1. ASSUME NEW x, Pends(x), e = Local => x.conn # w.conn PROVE Pends(x)'
    BY <1>2, <1>6, <2>1 DEF Pends, IsWrite
  <2>2. \A d \in Conns : slot'[d] # <<>> => server'[d] = "wait"
    <3>1. e = Local => server[w.conn] = "wait"
      BY <1>5 DEF Pends
    <3> QED
      BY <1>2, <1>6, <3>1 DEF Session, Pending
  <2>3. ASSUME NEW i \in 1 .. Len(queue) PROVE Pends(queue[i])'
    <3>1. Pends(queue[i]) /\ (e = Local => queue[i].conn # w.conn)
      <4>1. e = Local => driver /\ at[Local] + 1 \in at[Local] + 1 .. Len(stream)
        BY <1>2, <1>3
      <4> QED
        BY <1>7, <4>1 DEF Session, Pending
    <3>2. PICK x : x = queue[i]
      OBVIOUS
    <3>3. Pends(x)'
      BY <2>1, <3>1, <3>2
    <3> QED
      BY <1>2, <3>2, <3>3 DEF Pends, IsWrite
  <2>4. ASSUME driver, NEW q \in at'[Local] + 1 .. Len(stream) PROVE Pends(stream[q])'
    <3>1. Pends(stream[q]) /\ (e = Local => stream[q].conn # w.conn)
      <4>1. e = Local => at[Local] + 1 \in at[Local] + 1 .. Len(stream)
        BY <1>3
      <4> QED
        BY <1>7, <1>10, <2>4, <4>1 DEF Session, Pending
    <3>2. PICK x : x = stream[q]
      OBVIOUS
    <3>3. Pends(x)'
      BY <2>1, <3>1, <3>2
    <3> QED
      BY <1>2, <3>2, <3>3 DEF Pends, IsWrite
  <2>5. driver => \A q \in at'[Local] + 1 .. Len(stream) :
          /\ \A p \in at'[Local] + 1 .. Len(stream) : stream[q].conn = stream[p].conn => q = p
          /\ \A i \in 1 .. Len(queue) : stream[q].conn # queue[i].conn
    BY <1>10 DEF Session, Pending
  <2>6. /\ \A p \in 1 .. Len(stream) : IsWrite(stream[p])
        /\ \A i, j \in 1 .. Len(queue) : queue[i].conn = queue[j].conn => i = j
        /\ ~driver => queue = <<>>
    BY DEF Session, Pending
  <2>7. \A p \in 1 .. Len(stream) : IsWrite(stream[p])'
    BY <1>2, <2>6 DEF IsWrite
  <2> QED
    BY <1>2, <2>2, <2>3, <2>4, <2>5, <2>6, <2>7 DEF Pending
<1>12. Grows
  <2>1. \A d \in Conns : Len(argvs[d]) \in Nat /\ Len(meant[d]) \in Nat
    BY <1>1 DEF Over
  <2> QED
    BY <1>2, <1>3, <1>10, <2>1 DEF Grows
<1>13. Answers'
  <2> SUFFICES ASSUME NEW c \in Conns PROVE AnswersTo(c)'
    BY DEF Answers
  <2>0. Len(argvs[c]) \in Nat /\ Len(meant[c]) \in Nat
    BY <1>1 DEF Over
  <2>1. slot'[c] = <<OK>> => Own(c, Len(argvs[c]))'
    <3>1. CASE slot[c] = <<OK>>
      <4>1. Own(c, Len(argvs[c])) /\ Len(argvs[c]) = Len(meant[c]) + 1
        <5>1. server[c] = "wait"
          BY <3>1 DEF Session, Pending
        <5> QED
          BY <3>1, <5>1 DEF Session, Answers, AnswersTo
      <4>2. PICK k \in 1 .. Len(argvs[c]) : k = Len(argvs[c])
        BY <2>0, <4>1
      <4>3. Own(c, k)'
        BY <1>8, <1>12, <4>1, <4>2, OwnStays DEF Session
      <4> QED
        BY <1>2, <4>2, <4>3 DEF Own
    <3>2. CASE e = Local /\ c = w.conn
      <4>1. stream[at[Local] + 1] = [conn |-> c, argv |-> argvs[c][Len(argvs[c])]]
        BY <1>5, <1>7, <3>2 DEF Pends, IsWrite
      <4>2. at[Local] + 1 \in 1 .. at'[Local]
        BY <1>3, <1>10, <3>2
      <4> QED
        BY <1>2, <4>1, <4>2 DEF Own
    <3> QED
      BY <1>6, <3>1, <3>2
  <2>2. ASSUME NEW i \in 1 .. Len(meant[c]), i <= Len(argvs[c]), meant[c][i] = OK
        PROVE  Own(c, i)'
    <3>1. i \in 1 .. Len(argvs[c]) /\ Own(c, i)
      BY <2>0, <2>2 DEF Session, Answers, AnswersTo
    <3> QED
      BY <1>8, <1>12, <3>1, OwnStays DEF Session
  <2> QED
    BY <1>2, <2>1, <2>2 DEF Session, Answers, AnswersTo
<1>14. Stores'
  <2>1. ASSUME NEW d \in Engines PROVE store'[d] = History(stream, at'[d])
    <3>1. CASE d = e
      <4>1. History(stream, at[e] + 1) = ApplyTo(History(stream, at[e]), stream[at[e] + 1].argv)
        <5>1. at[e] \in 0 .. Len(stream) - 1
          BY <1>3
        <5> QED
          BY <1>3, <5>1, HistoryGoesOn
      <4> QED
        BY <1>4, <1>7, <3>1, <4>1 DEF Session, Stores
    <3>2. CASE d # e
      BY <1>4, <3>2 DEF Session, Stores
    <3> QED
      BY <3>1, <3>2
  <2> QED
    BY <1>2, <2>1 DEF Stores
<1>15. OwnReads'
  <2>1. \A d \in Conns : \A j \in 1 .. Len(meant'[d]) :
          j <= Len(argvs'[d]) => j <= Len(meant[d]) /\ j <= Len(argvs[d])
    <3>1. \A d \in Conns : Len(meant[d]) \in Nat
      BY <1>1 DEF Over
    <3> QED
      BY <1>2, <3>1
  <2> QED
    BY <1>8, <1>12, <1>13, <2>1, ReadsKept
<1> QED
  BY <1>8, <1>9, <1>11, <1>13, <1>14, <1>15 DEF Session

\* Every step of a task.
LEMMA ProxyStepKeepsSession ==
  ASSUME Session, NEW c \in Conns,
         ReadChunk(c) \/ ReadEnds(c) \/ NextCommand(c) \/ HearsDriver(c)
  PROVE  Session'
<1>1. CASE ReadChunk(c)
  BY <1>1, TaskMovesKeepsSession DEF ReadChunk
<1>2. CASE ReadEnds(c)
  BY <1>2, TaskMovesKeepsSession DEF ReadEnds
<1>3. CASE HearsDriver(c)
  BY <1>3, HearsDriverKeepsSession
<1>4. CASE NextCommand(c)
  <2>1. server[c] = "decode"
    BY <1>4 DEF NextCommand
  <2>2. PICK p : \/ NeedsMore(c, p) \/ Desyncs(c, p) \/ SkipsNoOp(c, p)
                 \/ AnswersAtOnce(c, p) \/ AsksDriver(c, p)
    BY <1>4 DEF NextCommand
  <2>3. CASE NeedsMore(c, p)
    BY <2>1, <2>3, TaskMovesKeepsSession DEF NeedsMore
  <2>4. CASE SkipsNoOp(c, p)
    <3>1. server' = [server EXCEPT ![c] = "decode"] /\ argvs' = argvs
      <4>1. PICK S : Over(S)
        BY DEF Session, Types
      <4> QED
        BY <2>1, <2>4, <4>1 DEF SkipsNoOp, Decoded, Session, Types, Over
    <3> QED
      BY <2>1, <2>4, <3>1, TaskMovesKeepsSession DEF SkipsNoOp
  <2> QED
    BY <2>1, <2>2, <2>3, <2>4, DesyncsKeepsSession, AnswersAtOnceKeepsSession, AsksDriverKeepsSession
<1> QED
  BY <1>1, <1>2, <1>3, <1>4

\* Every step of a hand-driven client.
LEMMA HandStepKeepsSession ==
  ASSUME Session, NEW c \in Conns,
         HandConnects(c) \/ HandWrites(c) \/ HandReads(c) \/ HandHangsUp(c)
  PROVE  Session'
<1> USE DEF driverVars, serverVars
<1>1. CASE HandConnects(c)
  BY <1>1, AcceptKeepsSession DEF HandConnects
<1>2. CASE HandWrites(c)
  BY <1>2, WiresKeepSession DEF HandWrites, Put, Session, Types, Ends
<1>3. CASE HandReads(c)
  <2>1. client' = client /\ client[c] = "open" /\ DOMAIN down' = Conns
        /\ \A d \in Conns : d # c => down'[d] = down[d]
    BY <1>3 DEF HandReads, Take, Session, Types
  <2> QED
    BY <1>3, <2>1, WiresKeepSession DEF HandReads, Session, Types, Ends
<1>4. CASE HandHangsUp(c)
  <2>1. /\ client' \in [Conns -> {"unused", "new", "open", "gone"}] /\ DOMAIN down' = Conns
        /\ \A d \in Conns : client'[d] = "gone" => down'[d] = <<>>
        /\ \A d \in Conns : client'[d] \in {"unused", "new"} <=> client[d] \in {"unused", "new"}
    BY <1>4 DEF HandHangsUp, Session, Types, Ends
  <2> QED
    BY <1>4, <2>1, WiresKeepSession DEF HandHangsUp
<1> QED
  BY <1>1, <1>2, <1>3, <1>4

-----------------------------------------------------------------------------
(* What a client writes *)

\* The harness's i-th command, and its bytes.
Argv(i) == << <<"S">>, Key(i), Key(i) >>
Wire(i) == EncodeRequest(Argv(i))

\* Min of the library, where the least element is known.
LEMMA MinOf ==
  ASSUME NEW S, NEW m \in S, S \subseteq Int, \A x \in S : m <= x
  PROVE  Min(S) = m
<1>1. \A x \in S : (\A y \in S : x <= y) => x = m
  OBVIOUS
<1> QED
  BY <1>1 DEF Min

\* One round of encode_request's fold, and bytes enough for the harness: framing, digits,
\* and the letters of its commands and of the replies to them.
AddBulk(out, a) == out \o <<"$">> \o Decimal(Len(a)) \o CRLF \o a \o CRLF

Byte == {"*", "$", "+", "-", "CR", "LF", "S", "O", "K", "b", "u", "d",
         "0", "1", "2", "3", "4", "5", "6", "7", "8", "9"}

\* One byte, and a line end, at the end of what is written.
LEMMA PutsOne ==
  ASSUME NEW p \in Seq(Byte), NEW x \in Byte
  PROVE  /\ p \o <<x>> \in Seq(Byte) /\ Len(p \o <<x>>) = Len(p) + 1
         /\ (p \o <<x>>)[Len(p) + 1] = x /\ \A i \in 1 .. Len(p) : (p \o <<x>>)[i] = p[i]
<1>1. <<x>> \in Seq(Byte) /\ Len(<<x>>) = 1 /\ <<x>>[1] = x
  OBVIOUS
<1>2. Len(p) \in Nat
  OBVIOUS
<1>3. /\ p \o <<x>> \in Seq(Byte) /\ Len(p \o <<x>>) = Len(p) + 1
      /\ \A i \in 1 .. Len(p) + 1 : (p \o <<x>>)[i] = IF i <= Len(p) THEN p[i] ELSE <<x>>[i - Len(p)]
  BY <1>1, ConcatProperties
<1>4. Len(p) + 1 \in 1 .. Len(p) + 1 /\ ~(Len(p) + 1 <= Len(p)) /\ Len(p) + 1 - Len(p) = 1
      /\ \A i \in 1 .. Len(p) : i \in 1 .. Len(p) + 1 /\ i <= Len(p)
  BY <1>2
<1> QED
  BY <1>1, <1>3, <1>4

LEMMA PutsEnd ==
  ASSUME NEW p \in Seq(Byte)
  PROVE  /\ p \o CRLF \in Seq(Byte) /\ Len(p \o CRLF) = Len(p) + 2
         /\ (p \o CRLF)[Len(p) + 1] = "CR" /\ (p \o CRLF)[Len(p) + 2] = "LF"
         /\ \A i \in 1 .. Len(p) : (p \o CRLF)[i] = p[i]
<1>1. CRLF \in Seq(Byte) /\ Len(CRLF) = 2 /\ CRLF[1] = "CR" /\ CRLF[2] = "LF"
  BY DEF CRLF, Byte
<1>2. Len(p) \in Nat
  OBVIOUS
<1>3. /\ p \o CRLF \in Seq(Byte) /\ Len(p \o CRLF) = Len(p) + 2
      /\ \A i \in 1 .. Len(p) + 2 : (p \o CRLF)[i] = IF i <= Len(p) THEN p[i] ELSE CRLF[i - Len(p)]
  <2>1. /\ p \o CRLF \in Seq(Byte) /\ Len(p \o CRLF) = Len(p) + Len(CRLF)
        /\ \A i \in 1 .. Len(p) + Len(CRLF) : (p \o CRLF)[i] = IF i <= Len(p) THEN p[i] ELSE CRLF[i - Len(p)]
    BY <1>1, ConcatProperties
  <2> QED
    BY <1>1, <2>1
<1>4. /\ Len(p) + 1 \in 1 .. Len(p) + 2 /\ ~(Len(p) + 1 <= Len(p)) /\ Len(p) + 1 - Len(p) = 1
      /\ Len(p) + 2 \in 1 .. Len(p) + 2 /\ ~(Len(p) + 2 <= Len(p)) /\ Len(p) + 2 - Len(p) = 2
      /\ \A i \in 1 .. Len(p) : i \in 1 .. Len(p) + 2 /\ i <= Len(p)
  BY <1>2
<1> QED
  BY <1>1, <1>3, <1>4

\* b holds the bulk string of the one byte x from f on.
BulkAt(b, f, x) ==
  /\ b[f] = "$" /\ b[f + 1] = "1" /\ b[f + 2] = "CR" /\ b[f + 3] = "LF"
  /\ b[f + 4] = x /\ b[f + 5] = "CR" /\ b[f + 6] = "LF"

\* encode_request puts a bulk string behind what it has.
LEMMA BulkAdded ==
  ASSUME NEW out \in Seq(Byte), NEW x \in Byte, NEW r, r = AddBulk(out, <<x>>)
  PROVE  /\ r \in Seq(Byte) /\ Len(r) = Len(out) + 7 /\ BulkAt(r, Len(out) + 1, x)
         /\ \A i \in 1 .. Len(out) : r[i] = out[i]
<1>1. Decimal(Len(<<x>>)) = <<"1">>
  <2>1. Len(<<x>>) = 1 /\ ~(1 < 0) /\ Digits[1 + 1] = "1"
    BY DEF Digits
  <2> QED
    BY <2>1 DEF Decimal
<1>2. PICK a : a = out \o <<"$">>
  OBVIOUS
<1>3. PICK b : b = a \o <<"1">>
  OBVIOUS
<1>4. PICK c : c = b \o CRLF
  OBVIOUS
<1>5. PICK d : d = c \o <<x>>
  OBVIOUS
<1>6. AddBulk(out, <<x>>) = d \o CRLF
  BY <1>1, <1>2, <1>3, <1>4, <1>5 DEF AddBulk
<1>7. PICK e : e = d \o CRLF
  OBVIOUS
<1>8. /\ a \in Seq(Byte) /\ Len(a) = Len(out) + 1 /\ a[Len(out) + 1] = "$"
      /\ \A i \in 1 .. Len(out) : a[i] = out[i]
  BY <1>2, PutsOne DEF Byte
<1>9. /\ b \in Seq(Byte) /\ Len(b) = Len(a) + 1 /\ b[Len(a) + 1] = "1"
      /\ \A i \in 1 .. Len(a) : b[i] = a[i]
  BY <1>3, <1>8, PutsOne DEF Byte
<1>10. /\ c \in Seq(Byte) /\ Len(c) = Len(b) + 2 /\ c[Len(b) + 1] = "CR" /\ c[Len(b) + 2] = "LF"
       /\ \A i \in 1 .. Len(b) : c[i] = b[i]
  BY <1>4, <1>9, PutsEnd
<1>11. /\ d \in Seq(Byte) /\ Len(d) = Len(c) + 1 /\ d[Len(c) + 1] = x
       /\ \A i \in 1 .. Len(c) : d[i] = c[i]
  BY <1>5, <1>10, PutsOne
<1>12. /\ e \in Seq(Byte) /\ Len(e) = Len(d) + 2 /\ e[Len(d) + 1] = "CR" /\ e[Len(d) + 2] = "LF"
       /\ \A i \in 1 .. Len(d) : e[i] = d[i]
  BY <1>7, <1>11, PutsEnd
<1>13. Len(out) \in Nat
  OBVIOUS
<1>14. \A i \in 1 .. Len(out) :
         i \in 1 .. Len(a) /\ i \in 1 .. Len(b) /\ i \in 1 .. Len(c) /\ i \in 1 .. Len(d)
  BY <1>8, <1>9, <1>10, <1>11, <1>13
<1>15. \A i \in 1 .. Len(out) : e[i] = out[i]
  BY <1>8, <1>9, <1>10, <1>11, <1>12, <1>14
<1>16. /\ Len(a) = Len(out) + 1 /\ Len(b) = Len(out) + 2 /\ Len(c) = Len(out) + 4
       /\ Len(d) = Len(out) + 5 /\ Len(e) = Len(out) + 7
  BY <1>8, <1>9, <1>10, <1>11, <1>12, <1>13
<1>17. e[Len(out) + 1] = "$" /\ e[Len(out) + 2] = "1"
  <2>1. \A i \in {Len(out) + 1, Len(out) + 2} : i \in 1 .. Len(b) /\ i \in 1 .. Len(c) /\ i \in 1 .. Len(d)
    BY <1>13, <1>16
  <2>2. \A i \in {Len(out) + 1, Len(out) + 2} : e[i] = b[i]
    BY <1>10, <1>11, <1>12, <2>1
  <2>3. Len(out) + 1 \in 1 .. Len(a) /\ Len(a) + 1 = Len(out) + 2
    BY <1>13, <1>16
  <2>4. b[Len(out) + 1] = "$" /\ b[Len(out) + 2] = "1"
    BY <1>8, <1>9, <2>3
  <2> QED
    BY <2>2, <2>4
<1>18. e[Len(out) + 3] = "CR" /\ e[Len(out) + 4] = "LF" /\ e[Len(out) + 5] = x
  <2>1. \A i \in {Len(out) + 3, Len(out) + 4} : i \in 1 .. Len(c) /\ i \in 1 .. Len(d)
    BY <1>13, <1>16
  <2>2. \A i \in {Len(out) + 3, Len(out) + 4} : e[i] = c[i]
    BY <1>11, <1>12, <2>1
  <2>3. Len(b) + 1 = Len(out) + 3 /\ Len(b) + 2 = Len(out) + 4 /\ Len(c) + 1 = Len(out) + 5
        /\ Len(out) + 5 \in 1 .. Len(d)
    BY <1>13, <1>16
  <2> QED
    BY <1>10, <1>11, <1>12, <2>2, <2>3
<1>19. e[Len(out) + 6] = "CR" /\ e[Len(out) + 7] = "LF"
  BY <1>12, <1>13, <1>16
<1>20. BulkAt(e, Len(out) + 1, x)
  <2>1. PICK n \in Nat : n = Len(out)
    BY <1>13
  <2>2. /\ (n + 1) + 1 = n + 2 /\ (n + 1) + 2 = n + 3 /\ (n + 1) + 3 = n + 4
        /\ (n + 1) + 4 = n + 5 /\ (n + 1) + 5 = n + 6 /\ (n + 1) + 6 = n + 7
    OBVIOUS
  <2>3. BulkAt(e, n + 1, x)
    BY <1>17, <1>18, <1>19, <2>1, <2>2 DEF BulkAt
  <2> QED
    BY <2>1, <2>3
<1> QED
  BY <1>6, <1>7, <1>12, <1>15, <1>16, <1>20

\* encode_request of three arguments, its fold unrolled.
LEMMA EncodesThree ==
  ASSUME NEW x, NEW y, NEW z
  PROVE  EncodeRequest(<<x, y, z>>) = AddBulk(AddBulk(AddBulk(<<"*">> \o <<"3">> \o CRLF, x), y), z)
<1> DEFINE t == <<x, y, z>>
           base == <<"*">> \o <<"3">> \o CRLF
           One(s) == IF 1 \in s THEN AddBulk(base, x) ELSE base
           Two(s) == IF 2 \in s THEN AddBulk(One(s), y) ELSE One(s)
           Three(s) == IF 3 \in s THEN AddBulk(Two(s), z) ELSE Two(s)
           g == [s \in SUBSET (1 .. 3) |-> Three(s)]
           Rec(f) == f = [s \in SUBSET (DOMAIN t) |->
                          IF s = {} THEN base ELSE AddBulk(f[s \ {Max(s)}], t[Max(s)])]
           iter == CHOOSE f : Rec(f)
<1>1. /\ Len(t) = 3 /\ DOMAIN t = 1 .. 3 /\ t[1] = x /\ t[2] = y /\ t[3] = z
  OBVIOUS
<1>2. Decimal(Len(t)) = <<"3">>
  <2>1. ~(3 < 0) /\ Digits[3 + 1] = "3"
    BY DEF Digits
  <2> QED
    BY <1>1, <2>1 DEF Decimal
<1>3. EncodeRequest(t) = iter[DOMAIN t]
  BY <1>2 DEF EncodeRequest, FoldLeft, MapThenFoldSet, AddBulk
<1> HIDE DEF t, base
<1>4. ASSUME NEW s \in SUBSET (1 .. 3), s # {}
      PROVE  g[s] = AddBulk(g[s \ {Max(s)}], t[Max(s)])
  <2>1. s \subseteq Int
    OBVIOUS
  <2>2. CASE 3 \in s
    <3>1. Max(s) = 3
      <4>1. \A k \in s : k <= 3
        OBVIOUS
      <4> HIDE DEF g
      <4> QED
        BY <2>1, <2>2, <4>1, MaxOf
    <3>2. g[s \ {3}] = Two(s)
      BY <2>2
    <3> QED
      BY <1>1, <2>2, <3>1, <3>2
  <2>3. CASE 3 \notin s /\ 2 \in s
    <3>1. Max(s) = 2
      <4>1. \A k \in s : k <= 2
        BY <2>3
      <4> HIDE DEF g
      <4> QED
        BY <2>1, <2>3, <4>1, MaxOf
    <3>2. g[s \ {2}] = One(s)
      BY <2>3
    <3> QED
      BY <1>1, <2>3, <3>1, <3>2
  <2>4. CASE s = {1}
    <3>1. Max(s) = 1
      BY <2>1, <2>4, MaxOf
    <3>2. g[s \ {1}] = base
      BY <2>4
    <3> QED
      BY <1>1, <2>4, <3>1, <3>2
  <2>5. 3 \notin s /\ 2 \notin s => s = {1}
    <3> SUFFICES ASSUME 3 \notin s, 2 \notin s PROVE s = {1}
      OBVIOUS
    <3>1. \A k \in s : k = 1
      OBVIOUS
    <3> HIDE DEF g
    <3> QED
      BY <1>4, <3>1
  <2> QED
    BY <2>2, <2>3, <2>4, <2>5
<1>5. g[{}] = base /\ g = [s \in SUBSET (1 .. 3) |-> g[s]]
  OBVIOUS
<1>6. Rec(g)
  <2> HIDE DEF g
  <2> QED
    BY <1>1, <1>4, <1>5
<1>7. Rec(iter)
  <2> HIDE DEF Rec, g
  <2> QED
    BY <1>6
<1> HIDE DEF g, iter
<1>8. Max(1 .. 3) = 3 /\ Max(1 .. 2) = 2 /\ Max(1 .. 1) = 1
  <2>1. 1 .. 3 \subseteq Int /\ 3 \in 1 .. 3 /\ \A k \in 1 .. 3 : k <= 3
    OBVIOUS
  <2>2. 1 .. 2 \subseteq Int /\ 2 \in 1 .. 2 /\ \A k \in 1 .. 2 : k <= 2
    OBVIOUS
  <2>3. 1 .. 1 \subseteq Int /\ 1 \in 1 .. 1 /\ \A k \in 1 .. 1 : k <= 1
    OBVIOUS
  <2> QED
    BY <2>1, <2>2, <2>3, MaxOf
<1>9. /\ (1 .. 3) \ {3} = 1 .. 2 /\ (1 .. 2) \ {2} = 1 .. 1 /\ (1 .. 1) \ {1} = {}
      /\ 1 .. 3 # {} /\ 1 .. 2 # {} /\ 1 .. 1 # {}
      /\ 1 .. 3 \in SUBSET (1 .. 3) /\ 1 .. 2 \in SUBSET (1 .. 3)
      /\ 1 .. 1 \in SUBSET (1 .. 3) /\ {} \in SUBSET (1 .. 3)
  OBVIOUS
<1>10. /\ iter[{}] = base /\ iter[1 .. 1] = AddBulk(iter[{}], x)
       /\ iter[1 .. 2] = AddBulk(iter[1 .. 1], y) /\ iter[1 .. 3] = AddBulk(iter[1 .. 2], z)
  <2>1. \A s \in SUBSET (1 .. 3) :
          iter[s] = IF s = {} THEN base ELSE AddBulk(iter[s \ {Max(s)}], t[Max(s)])
    BY <1>1, <1>7
  <2>2. iter[1 .. 3] = AddBulk(iter[1 .. 2], z)
    BY <1>1, <1>8, <1>9, <2>1
  <2>3. iter[1 .. 2] = AddBulk(iter[1 .. 1], y)
    BY <1>1, <1>8, <1>9, <2>1
  <2>4. iter[1 .. 1] = AddBulk(iter[{}], x)
    BY <1>1, <1>8, <1>9, <2>1
  <2> QED
    BY <1>9, <2>1, <2>2, <2>3, <2>4
<1>11. EncodeRequest(t) = AddBulk(AddBulk(AddBulk(base, x), y), z)
  BY <1>1, <1>3, <1>10
<1> QED
  BY <1>11 DEF t, base

-----------------------------------------------------------------------------
(* What the decoder makes of it *)

\* The 25 bytes of a request of three arguments of one byte.
IsRequest(b, x, y, z) ==
  /\ b \in Seq(Byte) /\ Len(b) = 25
  /\ b[1] = "*" /\ b[2] = "3" /\ b[3] = "CR" /\ b[4] = "LF"
  /\ BulkAt(b, 5, x) /\ BulkAt(b, 12, y) /\ BulkAt(b, 19, z)

\* encode_request makes such bytes.
LEMMA RequestOfThree ==
  ASSUME NEW x \in Byte, NEW y \in Byte, NEW z \in Byte
  PROVE  IsRequest(EncodeRequest(<< <<x>>, <<y>>, <<z>> >>), x, y, z)
<1>1. PICK a : a = <<"*">> \o <<"3">> \o CRLF
  OBVIOUS
<1>2. /\ a \in Seq(Byte) /\ Len(a) = 4
      /\ a[1] = "*" /\ a[2] = "3" /\ a[3] = "CR" /\ a[4] = "LF"
  <2>1. PICK h : h = <<"*">> \o <<"3">>
    OBVIOUS
  <2>2. <<"*">> \in Seq(Byte) /\ Len(<<"*">>) = 1 /\ <<"*">>[1] = "*" /\ "3" \in Byte
    BY DEF Byte
  <2>3. h \in Seq(Byte) /\ Len(h) = 1 + 1 /\ h[1 + 1] = "3" /\ \A i \in 1 .. 1 : h[i] = <<"*">>[i]
    BY <2>1, <2>2, PutsOne
  <2>4. a = h \o CRLF
    BY <1>1, <2>1
  <2>5. a \in Seq(Byte) /\ Len(a) = Len(h) + 2 /\ a[Len(h) + 1] = "CR" /\ a[Len(h) + 2] = "LF"
        /\ \A i \in 1 .. Len(h) : a[i] = h[i]
    BY <2>3, <2>4, PutsEnd
  <2> QED
    BY <2>2, <2>3, <2>5
<1>3. PICK b : b = AddBulk(a, <<x>>)
  OBVIOUS
<1>4. PICK c : c = AddBulk(b, <<y>>)
  OBVIOUS
<1>5. PICK d : d = AddBulk(c, <<z>>)
  OBVIOUS
<1>6. /\ b \in Seq(Byte) /\ Len(b) = 11 /\ BulkAt(b, 5, x)
      /\ \A i \in 1 .. 4 : b[i] = a[i]
  <2>1. /\ b \in Seq(Byte) /\ Len(b) = Len(a) + 7 /\ BulkAt(b, Len(a) + 1, x)
        /\ \A i \in 1 .. Len(a) : b[i] = a[i]
    BY <1>2, <1>3, BulkAdded
  <2> QED
    BY <1>2, <1>3, <2>1
<1>7. /\ c \in Seq(Byte) /\ Len(c) = 18 /\ BulkAt(c, 12, y)
      /\ \A i \in 1 .. 11 : c[i] = b[i]
  <2>1. /\ c \in Seq(Byte) /\ Len(c) = Len(b) + 7 /\ BulkAt(c, Len(b) + 1, y)
        /\ \A i \in 1 .. Len(b) : c[i] = b[i]
    <3>1. b \in Seq(Byte)
      BY <1>6
    <3> QED
      BY <1>4, <3>1, BulkAdded
  <2> QED
    BY <1>4, <1>6, <2>1
<1>8. /\ d \in Seq(Byte) /\ Len(d) = 25 /\ BulkAt(d, 19, z)
      /\ \A i \in 1 .. 18 : d[i] = c[i]
  <2>1. /\ d \in Seq(Byte) /\ Len(d) = Len(c) + 7 /\ BulkAt(d, Len(c) + 1, z)
        /\ \A i \in 1 .. Len(c) : d[i] = c[i]
    <3>1. c \in Seq(Byte)
      BY <1>7
    <3> QED
      BY <1>5, <3>1, BulkAdded
  <2> QED
    BY <1>5, <1>7, <2>1
<1>9. /\ 5 + 1 = 6 /\ 5 + 2 = 7 /\ 5 + 3 = 8 /\ 5 + 4 = 9 /\ 5 + 5 = 10 /\ 5 + 6 = 11
      /\ 12 + 1 = 13 /\ 12 + 2 = 14 /\ 12 + 3 = 15 /\ 12 + 4 = 16 /\ 12 + 5 = 17 /\ 12 + 6 = 18
  OBVIOUS
<1>10. BulkAt(d, 5, x) /\ BulkAt(d, 12, y)
  <2>1. \A i \in {5, 6, 7, 8, 9, 10, 11} : d[i] = b[i]
    BY <1>7, <1>8
  <2>2. \A i \in {12, 13, 14, 15, 16, 17, 18} : d[i] = c[i]
    BY <1>8
  <2>3. BulkAt(d, 5, x)
    BY <1>6, <1>9, <2>1 DEF BulkAt
  <2>4. BulkAt(d, 12, y)
    BY <1>7, <1>9, <2>2 DEF BulkAt
  <2> QED
    BY <2>3, <2>4
<1>11. d[1] = "*" /\ d[2] = "3" /\ d[3] = "CR" /\ d[4] = "LF"
  BY <1>2, <1>6, <1>7, <1>8
<1>12. EncodeRequest(<< <<x>>, <<y>>, <<z>> >>) = d
  BY <1>1, <1>3, <1>4, <1>5, EncodesThree
<1> QED
  BY <1>8, <1>10, <1>11, <1>12 DEF IsRequest

\* Number's fold for one digit, and parse::<i64> of it.
LEMMA FoldOfDigit ==
  ASSUME NEW c \in DOMAIN DigitAt, DigitAt[c] \in Int
  PROVE  Number(1, <<c>>) = [ok |-> TRUE, n |-> 1 * (DigitAt[c] - 1)]
<1> DEFINE t == <<c>>
           g == [s \in SUBSET {1} |-> IF s = {} THEN 0 ELSE 10 * 0 + DigitAt[c] - 1]
           Rec(f) == f = [s \in SUBSET (DOMAIN t) |->
                            IF s = {} THEN 0 ELSE 10 * f[s \ {Max(s)}] + DigitAt[t[Max(s)]] - 1]
           iter == CHOOSE f : Rec(f)
<1>1. DOMAIN t = {1} /\ t[1] = c
  OBVIOUS
<1>2. Number(1, t) = [ok |-> TRUE, n |-> 1 * iter[DOMAIN t]]
  <2>1. t # <<>> /\ ToSet(t) \subseteq DOMAIN DigitAt
    BY DEF ToSet
  <2> QED
    BY <2>1 DEF Number, FoldLeft, MapThenFoldSet
<1> HIDE DEF t
<1>3. Max({1}) = 1
  BY MaxOf
<1>4. \A s \in SUBSET {1} : s = {} \/ s = {1}
  OBVIOUS
<1>5. \A s \in SUBSET {1} : g[s] = IF s = {} THEN 0 ELSE 10 * g[s \ {Max(s)}] + DigitAt[t[Max(s)]] - 1
  <2>1. g[{}] = 0 /\ g[{1}] = 10 * 0 + DigitAt[c] - 1 /\ {1} \ {1} = {}
    OBVIOUS
  <2> HIDE DEF g
  <2>2. g[{1}] = 10 * g[{1} \ {Max({1})}] + DigitAt[t[Max({1})]] - 1
    BY <1>1, <1>3, <2>1
  <2>3. {1} # {}
    OBVIOUS
  <2>4. ASSUME NEW s \in SUBSET {1}, s # {}
        PROVE  g[s] = 10 * g[s \ {Max(s)}] + DigitAt[t[Max(s)]] - 1
    <3>1. s = {1}
      BY <2>4
    <3> QED
      BY <2>2, <3>1
  <2> QED
    BY <2>1, <2>4
<1>6. g = [s \in SUBSET {1} |-> g[s]]
  OBVIOUS
<1>7. Rec(g)
  <2> HIDE DEF g
  <2> QED
    BY <1>1, <1>5, <1>6
<1>8. Rec(iter)
  <2> HIDE DEF Rec, g
  <2> QED
    BY <1>7
<1> HIDE DEF g, iter
<1>9. \A s \in SUBSET {1} : iter[s] = IF s = {} THEN 0 ELSE 10 * iter[s \ {Max(s)}] + DigitAt[t[Max(s)]] - 1
  BY <1>1, <1>8
<1>10. iter[{}] = 0 /\ iter[{1}] = 10 * iter[{}] + DigitAt[c] - 1
  <2>1. {} \in SUBSET {1} /\ {1} \in SUBSET {1} /\ {1} # {} /\ {1} \ {1} = {}
    OBVIOUS
  <2> QED
    BY <1>1, <1>3, <1>9, <2>1
<1>11. iter[DOMAIN t] = DigitAt[c] - 1
  <2>1. DigitAt[t[1]] = DigitAt[c]
    BY <1>1
  <2> QED
    BY <1>1, <1>10, <2>1
<1>12. Number(1, t) = [ok |-> TRUE, n |-> 1 * (DigitAt[c] - 1)]
  BY <1>2, <1>11
<1> QED
  BY <1>12 DEF t

LEMMA NumberOfDigit ==
  ASSUME NEW c \in {"1", "3"}
  PROVE  ParseInt(<<c>>) = [ok |-> TRUE, n |-> IF c = "1" THEN 1 ELSE 3]
<1>1. Trim(<<c>>) = <<c>>
  <2> DEFINE b == <<c>>
             inner == {i \in 1 .. Len(b) : b[i] \notin Blank \cup {"CR", "LF"}}
  <2>1. inner = {1} /\ Len(b) = 1
    BY DEF Blank
  <2>2. Min({1}) = 1 /\ Max({1}) = 1
    BY MinOf, MaxOf
  <2>3. SubSeq(b, 1, 1) = b
    <3>1. b \in Seq({c}) /\ Len(b) = 1
      OBVIOUS
    <3> HIDE DEF b
    <3> QED
      BY <3>1, SubSeqFull
  <2> HIDE DEF b
  <2> QED
    BY <2>1, <2>2, <2>3 DEF Trim, b
<1>2. Signed(<<c>>) = Number(1, <<c>>)
  BY DEF Signed
<1>3. c \in DOMAIN DigitAt /\ DigitAt[c] = IF c = "1" THEN 2 ELSE 4
  <2>1. /\ Digits[2] = "1" /\ Digits[4] = "3"
        /\ \A i \in 1 .. 10 : (Digits[i] = "1" => i = 2) /\ (Digits[i] = "3" => i = 4)
    BY DEF Digits
  <2>2. c \in ToSet(Digits)
    BY DEF ToSet, Digits
  <2>3. (CHOOSE i \in 1 .. 10 : Digits[i] = c) = IF c = "1" THEN 2 ELSE 4
    BY <2>1
  <2> QED
    BY <2>2, <2>3 DEF DigitAt
<1>5. 1 * (DigitAt[c] - 1) = IF c = "1" THEN 1 ELSE 3
  BY <1>3
<1>6. Number(1, <<c>>) = [ok |-> TRUE, n |-> IF c = "1" THEN 1 ELSE 3]
  <2>1. DigitAt[c] \in Int
    BY <1>3
  <2> QED
    BY <1>3, <1>5, <2>1, FoldOfDigit
<1> QED
  BY <1>1, <1>2, <1>6 DEF ParseInt

\* Slices of one and of two bytes.
LEMMA OneByte ==
  ASSUME NEW b \in Seq(Byte), NEW m \in 1 .. Len(b)
  PROVE  SubSeq(b, m, m) = <<b[m]>>
<1>1. m \in Int /\ b[m] \in Byte
  BY LenProperties
<1>2. /\ SubSeq(b, m, m) \in Seq(Byte) /\ Len(SubSeq(b, m, m)) = 1
      /\ SubSeq(b, m, m)[1] = b[m]
  BY <1>1
<1>3. <<b[m]>> \in Seq(Byte) /\ Len(<<b[m]>>) = 1 /\ <<b[m]>>[1] = b[m]
  BY <1>1
<1>4. \A i \in 1 .. 1 : SubSeq(b, m, m)[i] = <<b[m]>>[i]
  BY <1>2, <1>3
<1> QED
  BY <1>2, <1>3, <1>4, SeqEqual

LEMMA TwoBytes ==
  ASSUME NEW b \in Seq(Byte), NEW m \in 1 .. Len(b) - 1
  PROVE  SubSeq(b, m, m + 1) = <<b[m], b[m + 1]>>
<1>1. m \in 1 .. Len(b) /\ m + 1 \in 1 .. Len(b) /\ m \in Int /\ b[m] \in Byte /\ b[m + 1] \in Byte
  BY LenProperties
<1>2. /\ SubSeq(b, m, m + 1) \in Seq(Byte) /\ Len(SubSeq(b, m, m + 1)) = 2
      /\ SubSeq(b, m, m + 1)[1] = b[m] /\ SubSeq(b, m, m + 1)[2] = b[m + 1]
  BY <1>1
<1>3. /\ <<b[m], b[m + 1]>> \in Seq(Byte) /\ Len(<<b[m], b[m + 1]>>) = 2
      /\ <<b[m], b[m + 1]>>[1] = b[m] /\ <<b[m], b[m + 1]>>[2] = b[m + 1]
  BY <1>1
<1>4. \A i \in 1 .. 2 : SubSeq(b, m, m + 1)[i] = <<b[m], b[m + 1]>>[i]
  BY <1>2, <1>3
<1> QED
  BY <1>2, <1>3, <1>4, SeqEqual

\* parse_crlf_line finds the end of the header line, and no CR LF before it.
LEMMA EndOfHeader ==
  ASSUME NEW b \in Seq(Byte), NEW f \in Nat \ {0}, f + 6 <= Len(b), NEW x, BulkAt(b, f, x)
  PROVE  CrLfFrom(b, f) = f + 2
<1> DEFINE ends == {i \in f .. Len(b) - 1 : b[i] = "CR" /\ b[i + 1] = "LF"}
<1>1. Len(b) \in Nat
  OBVIOUS
<1>2. f + 2 \in ends /\ ends \subseteq Int
  <2>1. (f + 2) + 1 = f + 3
    OBVIOUS
  <2> QED
    BY <1>1, <2>1 DEF BulkAt
<1>3. \A i \in ends : f + 2 <= i
  <2>1. f \notin ends /\ f + 1 \notin ends
    BY DEF BulkAt
  <2>2. \A i \in f .. Len(b) - 1 : i = f \/ i = f + 1 \/ f + 2 <= i
    BY <1>1
  <2> QED
    BY <2>1, <2>2
<1> HIDE DEF ends
<1>4. Min(ends) = f + 2 /\ ends # {}
  BY <1>2, <1>3, MinOf
<1> QED
  BY <1>4 DEF CrLfFrom, ends

\* parse_command reads one bulk string, whatever its byte is.
LEMMA ElementDecoded ==
  ASSUME NEW b \in Seq(Byte), NEW f \in Nat \ {0}, f + 6 <= Len(b), NEW x, BulkAt(b, f, x),
         NEW argv
  PROVE  ParseBulk(b, Parsed("ok", argv, f - 1)) = Parsed("ok", Append(argv, <<x>>), f + 6)
<1> DEFINE acc == Parsed("ok", argv, f - 1)
           len == ParseInt(SubSeq(b, f + 1, (f + 2) - 1))
<1>1. /\ acc.kind = "ok" /\ acc.used + 1 = f /\ acc.argv = argv
  BY DEF Parsed
<1>2. CrLfFrom(b, f) = f + 2 /\ f + 2 # 0 /\ f + 2 # f /\ b[f] = "$" /\ (f + 2) + 2 = f + 4
  BY EndOfHeader DEF BulkAt
<1>3. len = [ok |-> TRUE, n |-> 1]
  <2>1. SubSeq(b, f + 1, (f + 2) - 1) = <<"1">>
    <3>1. b[f + 1] = "1"
      BY DEF BulkAt
    <3>2. (f + 2) - 1 = f + 1
      OBVIOUS
    <3>3. SubSeq(b, f + 1, f + 1) = <<b[f + 1]>>
      BY OneByte
    <3> QED
      BY <3>1, <3>2, <3>3
  <2> QED
    BY <2>1, NumberOfDigit
<1>4. ParseBulk(b, acc) = Payload(b, acc, f + 4, len)
  <2>1. ParseBulk(b, acc) = Element(b, acc, f, f + 2)
    BY <1>1, <1>2 DEF ParseBulk
  <2> QED
    BY <1>2, <2>1 DEF Element
<1> HIDE DEF acc, len
<1>5. Payload(b, acc, f + 4, len) = Parsed("ok", Append(argv, SubSeq(b, f + 4, f + 4 + 1 - 1)), f + 4 + 1 + 1)
  <2>1. PayloadComplete(b, f + 4, 1)
    BY DEF PayloadComplete
  <2>2. SubSeq(b, f + 4 + 1, f + 4 + 1 + 1) = CRLF
    <3>1. b[f + 5] = "CR" /\ b[f + 6] = "LF"
      BY DEF BulkAt
    <3>2. f + 4 + 1 = f + 5 /\ f + 4 + 1 + 1 = f + 6
      OBVIOUS
    <3>3. f + 5 \in 1 .. Len(b) - 1 /\ (f + 5) + 1 = f + 6
      OBVIOUS
    <3>4. SubSeq(b, f + 5, f + 6) = <<b[f + 5], b[f + 6]>>
      BY <3>3, TwoBytes
    <3> QED
      BY <3>1, <3>2, <3>4 DEF CRLF
  <2> QED
    BY <1>1, <1>3, <2>1, <2>2 DEF Payload
<1>6. SubSeq(b, f + 4, f + 4 + 1 - 1) = <<x>> /\ f + 4 + 1 + 1 = f + 6
  <2>1. b[f + 4] = x
    BY DEF BulkAt
  <2>2. f + 4 + 1 - 1 = f + 4
    OBVIOUS
  <2>3. SubSeq(b, f + 4, f + 4) = <<b[f + 4]>>
    BY OneByte
  <2> QED
    BY <2>1, <2>2, <2>3
<1> QED
  BY <1>4, <1>5, <1>6 DEF acc

\* parse_command's loop over three elements, its fold unrolled.
LEMMA ElementsOfThree ==
  ASSUME NEW b, NEW used
  PROVE  Elements(b, used, [ok |-> TRUE, n |-> 3])
           = ParseBulk(b, ParseBulk(b, ParseBulk(b, Parsed("ok", <<>>, used))))
<1> DEFINE base == Parsed("ok", <<>>, used)
           t == [i \in 1 .. 3 |-> i]
           One(s) == IF 1 \in s THEN ParseBulk(b, base) ELSE base
           Two(s) == IF 2 \in s THEN ParseBulk(b, One(s)) ELSE One(s)
           Three(s) == IF 3 \in s THEN ParseBulk(b, Two(s)) ELSE Two(s)
           g == [s \in SUBSET (1 .. 3) |-> Three(s)]
           Rec(f) == f = [s \in SUBSET (DOMAIN t) |-> IF s = {} THEN base ELSE ParseBulk(b, f[s \ {Max(s)}])]
           iter == CHOOSE f : Rec(f)
<1>1. DOMAIN t = 1 .. 3
  OBVIOUS
<1>2. Elements(b, used, [ok |-> TRUE, n |-> 3]) = iter[DOMAIN t]
  BY DEF Elements, FoldLeft, MapThenFoldSet
<1> HIDE DEF t, base
<1>3. ASSUME NEW s \in SUBSET (1 .. 3), s # {}
      PROVE  g[s] = ParseBulk(b, g[s \ {Max(s)}])
  <2>1. s \subseteq Int
    OBVIOUS
  <2>2. CASE 3 \in s
    <3>1. Max(s) = 3
      <4>1. \A k \in s : k <= 3
        OBVIOUS
      <4> HIDE DEF g
      <4> QED
        BY <2>1, <2>2, <4>1, MaxOf
    <3>2. g[s \ {3}] = Two(s)
      BY <2>2
    <3> QED
      BY <2>2, <3>1, <3>2
  <2>3. CASE 3 \notin s /\ 2 \in s
    <3>1. Max(s) = 2
      <4>1. \A k \in s : k <= 2
        BY <2>3
      <4> HIDE DEF g
      <4> QED
        BY <2>1, <2>3, <4>1, MaxOf
    <3>2. g[s \ {2}] = One(s)
      BY <2>3
    <3> QED
      BY <2>3, <3>1, <3>2
  <2>4. CASE s = {1}
    <3>1. Max(s) = 1
      BY <2>1, <2>4, MaxOf
    <3>2. g[s \ {1}] = base
      BY <2>4
    <3> QED
      BY <2>4, <3>1, <3>2
  <2>5. 3 \notin s /\ 2 \notin s => s = {1}
    <3> SUFFICES ASSUME 3 \notin s, 2 \notin s PROVE s = {1}
      OBVIOUS
    <3>1. \A k \in s : k = 1
      OBVIOUS
    <3> HIDE DEF g
    <3> QED
      BY <1>3, <3>1
  <2> QED
    BY <2>2, <2>3, <2>4, <2>5
<1>4. g[{}] = base /\ g = [s \in SUBSET (1 .. 3) |-> g[s]]
  OBVIOUS
<1>5. Rec(g)
  <2> HIDE DEF g
  <2> QED
    BY <1>1, <1>3, <1>4
<1>6. Rec(iter)
  <2> HIDE DEF Rec, g
  <2> QED
    BY <1>5
<1> HIDE DEF g, iter
<1>7. Max(1 .. 3) = 3 /\ Max(1 .. 2) = 2 /\ Max(1 .. 1) = 1
  <2>1. 1 .. 3 \subseteq Int /\ 3 \in 1 .. 3 /\ \A k \in 1 .. 3 : k <= 3
    OBVIOUS
  <2>2. 1 .. 2 \subseteq Int /\ 2 \in 1 .. 2 /\ \A k \in 1 .. 2 : k <= 2
    OBVIOUS
  <2>3. 1 .. 1 \subseteq Int /\ 1 \in 1 .. 1 /\ \A k \in 1 .. 1 : k <= 1
    OBVIOUS
  <2> QED
    BY <2>1, <2>2, <2>3, MaxOf
<1>8. /\ (1 .. 3) \ {3} = 1 .. 2 /\ (1 .. 2) \ {2} = 1 .. 1 /\ (1 .. 1) \ {1} = {}
      /\ 1 .. 3 # {} /\ 1 .. 2 # {} /\ 1 .. 1 # {}
      /\ 1 .. 3 \in SUBSET (1 .. 3) /\ 1 .. 2 \in SUBSET (1 .. 3)
      /\ 1 .. 1 \in SUBSET (1 .. 3) /\ {} \in SUBSET (1 .. 3)
  OBVIOUS
<1>9. \A s \in SUBSET (1 .. 3) :
        iter[s] = IF s = {} THEN base ELSE ParseBulk(b, iter[s \ {Max(s)}])
  BY <1>1, <1>6
<1>10. iter[{}] = base /\ iter[1 .. 1] = ParseBulk(b, iter[{}])
  BY <1>7, <1>8, <1>9
<1>11. iter[1 .. 2] = ParseBulk(b, iter[1 .. 1])
  BY <1>7, <1>8, <1>9
<1>12. iter[1 .. 3] = ParseBulk(b, iter[1 .. 2])
  BY <1>7, <1>8, <1>9
<1> QED
  BY <1>1, <1>2, <1>10, <1>11, <1>12 DEF base

LEMMA RequestDecoded ==
  ASSUME NEW b, NEW x, NEW y, NEW z, IsRequest(b, x, y, z)
  PROVE  ParseCommand(b) = Parsed("ok", << <<x>>, <<y>>, <<z>> >>, 25)
<1>1. b \in Seq(Byte) /\ Len(b) = 25 /\ b # <<>> /\ b[1] = "*" /\ b[2] = "3" /\ b[3] = "CR" /\ b[4] = "LF"
  BY DEF IsRequest
<1>2. CrLfFrom(b, 1) = 3
  <2> DEFINE ends == {i \in 1 .. Len(b) - 1 : b[i] = "CR" /\ b[i + 1] = "LF"}
  <2>1. 3 \in ends /\ ends \subseteq Int /\ 1 \notin ends /\ 2 \notin ends
    BY <1>1
  <2>2. \A i \in ends : i \in Nat /\ i >= 1 /\ i # 1 /\ i # 2
    BY <1>1, <2>1
  <2>3. \A i \in ends : 3 <= i
    BY <2>2
  <2> HIDE DEF ends
  <2>4. Min(ends) = 3 /\ ends # {}
    BY <2>1, <2>3, MinOf
  <2> QED
    BY <2>4 DEF CrLfFrom, ends
<1>3. ParseInt(SubSeq(b, 2, 3 - 1)) = [ok |-> TRUE, n |-> 3]
  <2>1. SubSeq(b, 2, 2) = <<b[2]>> /\ 3 - 1 = 2
    <3>1. 2 \in 1 .. Len(b)
      BY <1>1
    <3> QED
      BY <1>1, <3>1, OneByte
  <2>2. SubSeq(b, 2, 3 - 1) = <<"3">>
    BY <1>1, <2>1
  <2>3. (IF "3" = "1" THEN 1 ELSE 3) = 3
    OBVIOUS
  <2> QED
    BY <2>2, <2>3, NumberOfDigit
<1>4. ParseCommand(b) = Elements(b, 4, [ok |-> TRUE, n |-> 3])
  BY <1>1, <1>2, <1>3 DEF ParseCommand, ArrayFrom
<1>5. ParseBulk(b, Parsed("ok", <<>>, 4)) = Parsed("ok", Append(<<>>, <<x>>), 11)
  <2>1. 5 \in Nat \ {0} /\ 5 + 6 <= Len(b) /\ BulkAt(b, 5, x) /\ 5 - 1 = 4 /\ 5 + 6 = 11
    BY <1>1 DEF IsRequest
  <2> QED
    BY <1>1, <2>1, ElementDecoded
<1>6. ParseBulk(b, Parsed("ok", << <<x>> >>, 11)) = Parsed("ok", Append(<< <<x>> >>, <<y>>), 18)
  <2>1. 12 \in Nat \ {0} /\ 12 + 6 <= Len(b) /\ BulkAt(b, 12, y) /\ 12 - 1 = 11 /\ 12 + 6 = 18
    BY <1>1 DEF IsRequest
  <2> QED
    BY <1>1, <2>1, ElementDecoded
<1>7. ParseBulk(b, Parsed("ok", << <<x>>, <<y>> >>, 18)) = Parsed("ok", Append(<< <<x>>, <<y>> >>, <<z>>), 25)
  <2>1. 19 \in Nat \ {0} /\ 19 + 6 <= Len(b) /\ BulkAt(b, 19, z) /\ 19 - 1 = 18 /\ 19 + 6 = 25
    BY <1>1 DEF IsRequest
  <2> QED
    BY <1>1, <2>1, ElementDecoded
<1>8. /\ Append(<<>>, <<x>>) = << <<x>> >> /\ Append(<< <<x>> >>, <<y>>) = << <<x>>, <<y>> >>
      /\ Append(<< <<x>>, <<y>> >>, <<z>>) = << <<x>>, <<y>>, <<z>> >>
  <2>1. \A p : Append(<<>>, p) = <<p>>
    OBVIOUS
  <2>2. ASSUME NEW p, NEW q PROVE Append(<<p>>, q) = <<p, q>>
    <3>1. /\ Append(<<p>>, q) \in Seq({p, q}) /\ <<p, q>> \in Seq({p, q})
          /\ Len(Append(<<p>>, q)) = 2 /\ Len(<<p, q>>) = 2
          /\ Append(<<p>>, q)[1] = p /\ Append(<<p>>, q)[2] = q
          /\ <<p, q>>[1] = p /\ <<p, q>>[2] = q
      OBVIOUS
    <3>2. \A i \in 1 .. 2 : Append(<<p>>, q)[i] = <<p, q>>[i]
      BY <3>1
    <3> QED
      BY <3>1, <3>2, SeqEqual
  <2>3. ASSUME NEW p, NEW q, NEW r PROVE Append(<<p, q>>, r) = <<p, q, r>>
    <3>1. /\ Append(<<p, q>>, r) \in Seq({p, q, r}) /\ <<p, q, r>> \in Seq({p, q, r})
          /\ Len(Append(<<p, q>>, r)) = 3 /\ Len(<<p, q, r>>) = 3
          /\ Append(<<p, q>>, r)[1] = p /\ Append(<<p, q>>, r)[2] = q /\ Append(<<p, q>>, r)[3] = r
          /\ <<p, q, r>>[1] = p /\ <<p, q, r>>[2] = q /\ <<p, q, r>>[3] = r
      OBVIOUS
    <3>2. \A i \in 1 .. 3 : Append(<<p, q>>, r)[i] = <<p, q, r>>[i]
      BY <3>1
    <3> QED
      BY <3>1, <3>2, SeqEqual
  <2> QED
    BY <2>1, <2>2, <2>3
<1> QED
  BY <1>4, <1>5, <1>6, <1>7, <1>8, ElementsOfThree

\* A request of three arguments of one byte, those that frame it included, comes out of
\* the decoder as it went in, and is used up (encode_request, parse_command).
THEOREM RequestsSurviveTheWire ==
  \A x, y, z \in Byte :
    ParseCommand(EncodeRequest(<< <<x>>, <<y>>, <<z>> >>)) = Parsed("ok", << <<x>>, <<y>>, <<z>> >>, 25)
<1> SUFFICES ASSUME NEW x \in Byte, NEW y \in Byte, NEW z \in Byte
             PROVE  ParseCommand(EncodeRequest(<< <<x>>, <<y>>, <<z>> >>))
                      = Parsed("ok", << <<x>>, <<y>>, <<z>> >>, 25)
  OBVIOUS
<1>1. PICK b : b = EncodeRequest(<< <<x>>, <<y>>, <<z>> >>)
  OBVIOUS
<1>2. IsRequest(b, x, y, z)
  BY <1>1, RequestOfThree
<1>3. ParseCommand(b) = Parsed("ok", << <<x>>, <<y>>, <<z>> >>, 25)
  BY <1>2, RequestDecoded
<1> QED
  BY <1>1, <1>3

-----------------------------------------------------------------------------
(* The load: types, and reads of own writes *)

\* The types of the load: it waits on an open connection for a write of its range, and
\* nothing goes on beside a hand-driven client.
LoadTypes ==
  /\ phase \in {"off", "first", "second", "verify", "done"}
  /\ next \in 0 .. Count /\ conn \in Conns \cup {NoConn} /\ waiting \in BOOLEAN
  /\ waiting => conn # NoConn /\ next < Count
  /\ conn # NoConn => client[conn] = "open"
  /\ phase # "off" \/ conn # NoConn => hand = {}
  /\ acked \in Seq(Nat) /\ \A i \in 1 .. Len(acked) : acked[i] < next
  /\ \A i \in 1 .. Len(acked) - 1 : acked[i] < acked[i + 1]
  /\ pos \in [Engines -> 1 .. Len(acked) + 2]
  /\ missing \in [Engines -> SUBSET ToSet(acked)]

LEMMA InitTyped == Init => Session /\ LoadTypes
<1> SUFFICES ASSUME Init PROVE Session /\ LoadTypes
  OBVIOUS
<1>1. Session
  BY SessionInitially DEF Init
<1>2. acked \in Seq(Nat) /\ Len(acked) = 0
  BY DEF Init
<1>3. NoConn \in {NoConn} /\ 0 \in 0 .. Count
  BY LoadAssumption
<1>4. phase \in {"off", "first"} /\ (phase # "off" => hand = {})
  BY DEF Init
<1>5. pos \in [Engines -> 1 .. Len(acked) + 2] /\ missing \in [Engines -> SUBSET ToSet(acked)]
  BY <1>2 DEF Init
<1>6. \A i \in 1 .. Len(acked) : acked[i] < next
  BY <1>2
<1>7. \A i \in 1 .. Len(acked) - 1 : acked[i] < acked[i + 1]
  BY <1>2
<1>8. waiting = FALSE /\ conn = NoConn /\ next = 0
  BY DEF Init
<1> QED
  BY <1>1, <1>2, <1>3, <1>4, <1>5, <1>6, <1>7, <1>8 DEF LoadTypes

LEMMA StutterKeepsSession ==
  ASSUME Session, UNCHANGED sessionVars
  PROVE  Session'
<1> USE DEF sessionVars, clientVars, serverVars, driverVars
<1> QED
  BY WiresKeepSession DEF Session, Types, Ends

\* LoadConn::connect takes a connection that was not used.
LEMMA FirstUnused ==
  ASSUME NEW c, c = Min({d \in Conns : client[d] = "unused"}), \E d \in Conns : client[d] = "unused"
  PROVE  c \in Conns /\ client[c] = "unused"
<1> DEFINE S == {d \in Conns : client[d] = "unused"}
<1>1. S \in SUBSET Nat /\ S # {}
  BY LoadAssumption
<1>2. PICK m \in S : \A k \in S : m <= k
  <2> HIDE DEF S
  <2> QED
    BY <1>1, LeastNat
<1>3. Min(S) = m
  <2> HIDE DEF S
  <2>1. S \subseteq Int /\ \A x \in S : m <= x
    BY <1>1, <1>2
  <2> QED
    BY <1>2, <2>1, MinOf
<1> QED
  BY <1>2, <1>3

\* The steps of drive_load, one by one.
LEMMA ConnectsTyped ==
  ASSUME Session, LoadTypes, Connects
  PROVE  Session' /\ LoadTypes'
<1>1. PICK c : c = Min({d \in Conns : client[d] = "unused"})
  OBVIOUS
<1>2. c \in Conns /\ client[c] = "unused" 
  BY <1>1, FirstUnused DEF Connects
<1>3. Accept(c) /\ conn' = c /\ UNCHANGED <<hand, argvs, slot, driverVars>>
      /\ UNCHANGED <<phase, next, waiting, acked, pos, missing>> /\ phase # "off"
  BY <1>1 DEF Connects, verifyVars, Loading
<1>4. Session'
  BY <1>2, <1>3, AcceptKeepsSession
<1>5. client'[c] = "open"
  BY <1>2, <1>3 DEF Accept, Session, Types
<1>6. c # NoConn
  BY <1>2, LoadAssumption
<1> QED
  BY <1>2, <1>3, <1>4, <1>5, <1>6 DEF LoadTypes

LEMMA SetsTyped ==
  ASSUME Session, LoadTypes, Sets
  PROVE  Session' /\ LoadTypes'
<1>1. next < Count /\ conn # NoConn
  <2>1. End <= Count /\ Count \in Nat /\ End \in Int
    BY LoadAssumption DEF End
  <2> QED
    BY <2>1 DEF Sets, LoadTypes
<1>2. /\ UNCHANGED <<hand, client, server, argvs, meant, slot, driver, queue, stream, store, at, down>>
      /\ UNCHANGED <<phase, next, conn, acked, pos, missing>> /\ waiting' = TRUE
  BY DEF Sets, verifyVars, serverVars, driverVars
<1>3. Session'
  BY <1>2, WiresKeepSession DEF Session, Types, Ends
<1> QED
  BY <1>1, <1>2, <1>3 DEF LoadTypes

\* A write is taken down behind those before it.
LEMMA ReadsTyped ==
  ASSUME Session, LoadTypes, Reads
  PROVE  Session' /\ LoadTypes'
<1>1. waiting /\ conn \in Conns /\ client[conn] = "open" /\ next < Count /\ next \in Nat
  BY LoadAssumption DEF Reads, LoadTypes
<1>2. PICK r : Take(conn, r) /\ acked' = IF r.reply = OK THEN Append(acked, next) ELSE acked
  BY DEF Reads
<1>3. /\ UNCHANGED <<hand, client, server, argvs, meant, slot, driver, queue, stream, store, at>>
      /\ UNCHANGED <<phase, conn, pos, missing>> /\ waiting' = FALSE /\ next' = next + 1
  BY DEF Reads, verifyVars, serverVars, driverVars
<1>4. Session'
  <2>1. DOMAIN down' = Conns /\ \A d \in Conns : d # conn => down'[d] = down[d]
    BY <1>2 DEF Take, Session, Types
  <2> QED
    BY <1>1, <1>3, <2>1, WiresKeepSession DEF Session, Types, Ends
<1>5. acked \in Seq(Nat) /\ Len(acked) \in Nat
  BY DEF LoadTypes
<1>6. /\ acked' \in Seq(Nat) /\ Len(acked') \in Len(acked) .. Len(acked) + 1
      /\ \A i \in 1 .. Len(acked) : acked'[i] = acked[i]
      /\ \A i \in 1 .. Len(acked') : i \in 1 .. Len(acked) \/ (i = Len(acked) + 1 /\ acked'[i] = next)
  BY <1>1, <1>2, <1>5
<1>7. /\ \A i \in 1 .. Len(acked') : acked'[i] < next'
      /\ \A i \in 1 .. Len(acked') - 1 : acked'[i] < acked'[i + 1]
  <2>1. \A i \in 1 .. Len(acked) : acked[i] < next /\ acked[i] \in Nat
    BY <1>5 DEF LoadTypes
  <2>2. \A i \in 1 .. Len(acked') : acked'[i] < next'
    <3>1. \A i \in 1 .. Len(acked') : acked'[i] <= next /\ acked'[i] \in Nat
      BY <1>1, <1>6, <2>1
    <3>2. next < next' /\ next' \in Nat
      BY <1>1, <1>3
    <3> QED
      BY <1>1, <3>1, <3>2
  <2>3. ASSUME NEW i \in 1 .. Len(acked') - 1 PROVE acked'[i] < acked'[i + 1]
    <3>1. i \in 1 .. Len(acked) /\ i + 1 \in 1 .. Len(acked')
      BY <1>5, <1>6
    <3>2. CASE i + 1 \in 1 .. Len(acked)
      <4>1. i \in 1 .. Len(acked) - 1
        BY <1>5, <3>1, <3>2
      <4> QED
        BY <1>6, <3>1, <3>2, <4>1 DEF LoadTypes
    <3>3. CASE i + 1 \notin 1 .. Len(acked)
      BY <1>6, <2>1, <3>1, <3>3
    <3> QED
      BY <3>2, <3>3
  <2> QED
    BY <2>2, <2>3
<1>8. pos' \in [Engines -> 1 .. Len(acked') + 2]
  <2>1. \A e \in Engines : pos[e] \in 1 .. Len(acked') + 2
    BY <1>5, <1>6 DEF LoadTypes
  <2> QED
    BY <1>3, <2>1 DEF LoadTypes
<1>9. missing' \in [Engines -> SUBSET ToSet(acked')]
  <2>1. ToSet(acked) \subseteq ToSet(acked')
    <3>1. \A i \in DOMAIN acked : i \in DOMAIN acked' /\ acked'[i] = acked[i]
      <4>1. DOMAIN acked = 1 .. Len(acked) /\ DOMAIN acked' = 1 .. Len(acked') /\ Len(acked') \in Nat
        BY <1>5, <1>6
      <4> QED
        BY <1>5, <1>6, <4>1
    <3> QED
      BY <3>1 DEF ToSet
  <2>2. \A e \in Engines : missing[e] \in SUBSET ToSet(acked')
    BY <2>1 DEF LoadTypes
  <2> QED
    BY <1>3, <2>2 DEF LoadTypes
<1>10. next' \in 0 .. Count
  BY <1>1, <1>3, LoadAssumption
<1> QED
  BY <1>1, <1>3, <1>4, <1>6, <1>7, <1>8, <1>9, <1>10 DEF LoadTypes

\* The load drops its connection.
LEMMA ClosesKeepsSession ==
  ASSUME Session, NEW c \in Conns, client[c] = "open", Closes(c),
         UNCHANGED <<hand, server, argvs, meant, slot, driver, queue, stream, store, at>>
  PROVE  Session'
<1>1. c # NoConn
  BY LoadAssumption
<1>2. client' = [client EXCEPT ![c] = "gone"] /\ down' = [down EXCEPT ![c] = <<>>]
  BY <1>1 DEF Closes
<1>3. /\ client' \in [Conns -> {"unused", "new", "open", "gone"}] /\ DOMAIN down' = Conns
      /\ \A d \in Conns : client'[d] = "gone" => down'[d] = <<>>
      /\ \A d \in Conns : client'[d] \in {"unused", "new"} <=> client[d] \in {"unused", "new"}
  BY <1>2 DEF Session, Types, Ends
<1> QED
  BY <1>3, WiresKeepSession

LEMMA AbandonsTyped ==
  ASSUME Session, LoadTypes, Abandons
  PROVE  Session' /\ LoadTypes'
<1>1. waiting /\ conn \in Conns /\ client[conn] = "open" /\ next < Count /\ next \in Nat
  BY LoadAssumption DEF Abandons, LoadTypes
<1>2. /\ UNCHANGED <<hand, server, argvs, meant, slot, driver, queue, stream, store, at>>
      /\ UNCHANGED <<phase, acked, pos, missing>> /\ waiting' = FALSE /\ next' = next + 1
      /\ conn' = NoConn /\ Closes(conn)
  BY DEF Abandons, AfterAbandon, verifyVars, serverVars, driverVars
<1>3. Session'
  BY <1>1, <1>2, ClosesKeepsSession
<1>4. next' \in 0 .. Count /\ conn' \in Conns \cup {NoConn}
  BY <1>1, <1>2, LoadAssumption
<1>5. \A i \in 1 .. Len(acked) : acked[i] < next + 1
  <2>1. \A i \in 1 .. Len(acked) : acked[i] \in Nat /\ acked[i] < next
    BY DEF LoadTypes
  <2> QED
    BY <1>1, <2>1
<1> QED
  BY <1>1, <1>2, <1>3, <1>4, <1>5 DEF LoadTypes

LEMMA RunEndsTyped ==
  ASSUME Session, LoadTypes, RunEnds
  PROVE  Session' /\ LoadTypes'
<1>1. conn \in Conns /\ client[conn] = "open" /\ waiting = FALSE
  BY DEF RunEnds, LoadTypes
<1>2. /\ UNCHANGED <<hand, server, argvs, meant, slot, driver, queue, stream, store, at>>
      /\ UNCHANGED <<acked, pos, missing, waiting, next>>
      /\ conn' = NoConn /\ Closes(conn) /\ phase # "off" /\ phase' \in {"second", "verify"}
  BY DEF RunEnds, Loading, serverVars, driverVars
<1>3. Session'
  BY <1>1, <1>2, ClosesKeepsSession
<1> QED
  BY <1>1, <1>2, <1>3 DEF LoadTypes

\* The steps of verify.
LEMMA AsksTyped ==
  ASSUME Session, LoadTypes, NEW e \in Engines, AsksKey(e) \/ AsksSize(e)
  PROVE  Session' /\ LoadTypes'
<1>1. UNCHANGED <<sessionVars, next, conn, waiting, acked>> /\ phase # "off"
      /\ phase' \in {phase, "done"}
  BY DEF AsksKey, AsksSize, loadVars
<1>2. Session' /\ UNCHANGED <<client, hand>>
  BY <1>1, StutterKeepsSession DEF sessionVars, clientVars
<1>3. Len(acked) \in Nat /\ pos[e] \in 1 .. Len(acked) + 2
  BY DEF LoadTypes
<1>4. pos' \in [Engines -> 1 .. Len(acked) + 2]
  <2>1. pos[e] + 1 \in 1 .. Len(acked) + 2
    BY <1>3 DEF AsksKey, AsksSize
  <2> QED
    BY <2>1 DEF AsksKey, AsksSize, LoadTypes
<1>5. missing' \in [Engines -> SUBSET ToSet(acked)]
  <2>1. CASE AsksSize(e)
    BY <2>1 DEF AsksSize, LoadTypes
  <2>2. CASE AsksKey(e)
    <3>1. pos[e] \in DOMAIN acked
      BY <1>3, <2>2 DEF AsksKey, LoadTypes
    <3>2. acked[pos[e]] \in ToSet(acked)
      BY <3>1 DEF ToSet
    <3> QED
      BY <2>2, <3>2 DEF AsksKey, LoadTypes
  <2> QED
    BY <2>1, <2>2
<1> QED
  BY <1>1, <1>2, <1>4, <1>5 DEF LoadTypes

\* Steps of the sessions: no hand-driven client closes the connection of the load.
LEMMA SessionStepTyped ==
  ASSUME Session, LoadTypes, SessionNext, UNCHANGED <<loadVars, verifyVars>>
  PROVE  Session' /\ LoadTypes'
<1>1. Session'
  BY ProxyStepKeepsSession, HandStepKeepsSession, HandlesRequestKeepsSession,
     DriverEndsKeepsSession, DeliverKeepsSession DEF SessionNext
<1>2. hand' = hand
  BY DEF SessionNext, HandConnects, HandWrites, HandReads, HandHangsUp, ReadChunk, ReadEnds, NextCommand,
    NeedsMore, Desyncs, SkipsNoOp, AnswersAtOnce, AsksDriver, HearsDriver, HandleWriteRequest, DriverEnds,
    Deliver, clientVars
<1>3. ASSUME conn # NoConn PROVE client'[conn] = "open"
  <2>1. conn \in Conns /\ client[conn] = "open" /\ hand = {}
    BY <1>3 DEF LoadTypes
  <2>2. \A c \in Conns : HandConnects(c) => client'[conn] = "open"
    BY <2>1 DEF HandConnects, Accept, Session, Types
  <2>3. \A c \in Conns : ~HandHangsUp(c)
    BY <2>1 DEF HandHangsUp
  <2> QED
    BY <2>1, <2>2, <2>3 DEF SessionNext, HandWrites, HandReads, ReadChunk, ReadEnds, NextCommand,
    NeedsMore, Desyncs, SkipsNoOp, AnswersAtOnce, AsksDriver, HearsDriver, HandleWriteRequest, DriverEnds,
    Deliver, clientVars
<1> QED
  BY <1>1, <1>2, <1>3 DEF LoadTypes, loadVars, verifyVars

LEMMA NextTyped == Session /\ LoadTypes /\ [Next]_vars => Session' /\ LoadTypes'
<1> SUFFICES ASSUME Session, LoadTypes, [Next]_vars PROVE Session' /\ LoadTypes'
  OBVIOUS
<1>1. CASE UNCHANGED vars
  BY <1>1, StutterKeepsSession DEF vars, sessionVars, clientVars, loadVars, verifyVars, LoadTypes
<1>2. CASE Next
  BY <1>2, SessionStepTyped, ConnectsTyped, SetsTyped, ReadsTyped, AbandonsTyped, RunEndsTyped,
     AsksTyped DEF Next
<1> QED
  BY <1>1, <1>2

\* Every state of a load and of hand-driven sessions is typed: at most one reply in a
\* oneshot and only while its session waits, every request in the channel has a session
\* that waits for it, acked writes ascend (client_loop, handle_write_request, run_load).
THEOREM LoadIsTyped == Spec => []TypeOK
<1>1. Session /\ LoadTypes => TypeOK
  <2> SUFFICES ASSUME Session, LoadTypes PROVE TypeOK
    OBVIOUS
  <2>1. SessionTypeOK
    <3>1. PICK S : Over(S)
      BY DEF Session, Types
    <3>2. \A c \in Conns : Len(slot[c]) <= 1
      <4>1. \A c \in Conns : slot[c] = <<>> \/ \E r \in S : slot[c] = <<r>>
        BY <3>1 DEF Over
      <4>2. \A r : Len(<<r>>) <= 1
        OBVIOUS
      <4>3. Len(<<>>) <= 1
        OBVIOUS
      <4>4. ASSUME NEW c \in Conns, NEW r, slot[c] = <<r>> PROVE Len(slot[c]) <= 1
        BY <4>2, <4>4, Zenon
      <4>5. ASSUME NEW c \in Conns, slot[c] = <<>> PROVE Len(slot[c]) <= 1
        BY <4>3, <4>5, Zenon
      <4> QED
        BY <4>1, <4>4, <4>5
    <3>3. \A i \in 1 .. Len(queue) : server[queue[i].conn] = "wait"
      BY DEF Session, Pending, Pends
    <3> QED
      BY <3>2, <3>3 DEF Session, Types, Ends, Pending, SessionTypeOK
  <2> QED
    BY <2>1 DEF LoadTypes, TypeOK
<1> QED
  BY <1>1, InitTyped, NextTyped, PTL DEF Spec

\* A client that was told OK for a write reads, on that connection, this write or one
\* delivered after it, for any commands, connections, losses and an end of the driver,
\* although reads do not go through the ring (client_loop, DriverState::apply).
THEOREM OwnWritesAreRead == Spec => []ReadsOwnWrites
<1>1. Session => ReadsOwnWrites
  <2> SUFFICES ASSUME Session, NEW c \in Conns, NEW i \in 1 .. Len(meant[c]), NEW j \in 1 .. Len(meant[c]),
                      i < j /\ j <= Len(argvs[c]) /\ meant[c][i] = OK /\ Name(argvs[c][j]) = <<"G">>
               PROVE  LET own == {p \in 1 .. Len(stream) : stream[p] = [conn |-> c, argv |-> argvs[c][i]]}
                          After(n) == FoldLeft(LAMBDA s, w : ApplyTo(s, w.argv), <<>>, SubSeq(stream, 1, n))
                      IN  \E p \in own : \E n \in p .. Len(stream) :
                            meant[c][j] = Lookup(After(n), argvs[c][j][2])
    BY DEF ReadsOwnWrites
  <2>1. PICK p \in 1 .. Len(stream) : \E n \in p .. Len(stream) :
        /\ stream[p] = [conn |-> c, argv |-> argvs[c][i]]
        /\ meant[c][j] = Lookup(History(stream, n), argvs[c][j][2])
    BY DEF Session, OwnReads
  <2> QED
    BY <2>1 DEF History
<1> QED
  BY <1>1, InitTyped, NextTyped, PTL DEF Spec

-----------------------------------------------------------------------------
(* What the harness sends, and what it reads back *)

\* The harness's writes, their commands and their bytes.
Writes == 0 .. Count - 1
Argvs == {Argv(i) : i \in Writes}
Wires == {Wire(i) : i \in Writes}

\* next_command waits for bytes.
LEMMA EmptyNeedsMore == ParseCommand(<<>>) = NeedMore
BY DEF ParseCommand

\* A command of the harness is a write, its answer is OK, and it puts its key under
\* itself.
LEMMA ArgvIs ==
  ASSUME NEW i \in Writes
  PROVE  /\ Argv(i) # <<>> /\ Argv(i)[2] = Key(i) /\ Name(Argv(i)) = <<"S">>
         /\ Classify(Argv(i)) = "Write"
         /\ \A s : /\ ApplyReply(s, Argv(i)) = OK
                   /\ ApplyTo(s, Argv(i)) =
                        [k \in DOMAIN s \cup {Key(i)} |-> IF k = Key(i) THEN Key(i) ELSE s[k]]
<1>1. Argv(i) # <<>> /\ Argv(i)[1] = <<"S">> /\ Argv(i)[2] = Key(i) /\ Argv(i)[3] = Key(i)
  BY DEF Argv
<1>2. Name(Argv(i)) = <<"S">>
  <2>1. Len(Argv(i)[1]) = 1 /\ Argv(i)[1][1] = "S"
    BY <1>1
  <2>2. "S" \notin DOMAIN Capital
    BY DEF Capital
  <2>3. Name(Argv(i)) = [k \in 1 .. 1 |-> "S"]
    <3>1. \A k \in 1 .. 1 : k = 1
      OBVIOUS
    <3> QED
      BY <2>1, <2>2, <3>1 DEF Name
  <2>4. [k \in 1 .. 1 |-> "S"] = <<"S">>
    OBVIOUS
  <2> QED
    BY <2>3, <2>4
<1>3. Classify(Argv(i)) = "Write"
  <2>1. <<"S">> # <<"G">> /\ <<"S">> # <<"M">>
    <3>1. <<"S">>[1] = "S" /\ <<"G">>[1] = "G" /\ <<"M">>[1] = "M"
      OBVIOUS
    <3> QED
      BY <3>1
  <2> QED
    BY <1>2, <2>1 DEF Classify
<1> QED
  BY <1>1, <1>2, <1>3 DEF ApplyTo, ApplyReply

\* What the decoder gets out of the bytes of one is this command, and it uses them all.
LEMMA WireIs ==
  ASSUME NEW i \in Writes
  PROVE  /\ Wire(i) \in Seq(Byte) /\ Len(Wire(i)) = 25 /\ Wire(i) # <<>>
         /\ ParseCommand(Wire(i)) = Parsed("ok", Argv(i), 25)
<1>1. Digits[i + 1] \in Byte /\ "S" \in Byte
  <2>1. \A j \in 1 .. 10 : Digits[j] \in Byte
    BY DEF Digits, Byte
  <2>2. i + 1 \in 1 .. 10
    BY LoadAssumption DEF Writes
  <2> QED
    BY <2>1, <2>2 DEF Byte
<1>2. IsRequest(Wire(i), "S", Digits[i + 1], Digits[i + 1])
  <2>1. IsRequest(EncodeRequest(<< <<"S">>, <<Digits[i + 1]>>, <<Digits[i + 1]>> >>),
                  "S", Digits[i + 1], Digits[i + 1])
    BY <1>1, RequestOfThree
  <2> QED
    BY <2>1 DEF Wire, Argv, Key
<1>3. ParseCommand(Wire(i)) = Parsed("ok", << <<"S">>, <<Digits[i + 1]>>, <<Digits[i + 1]>> >>, 25)
  BY <1>2, RequestDecoded
<1>4. Wire(i) \in Seq(Byte) /\ Len(Wire(i)) = 25
  BY <1>2 DEF IsRequest
<1>5. Wire(i) # <<>>
  BY <1>4
<1> QED
  BY <1>3, <1>4, <1>5 DEF Argv, Key

\* A read and a decode take these bytes as a whole.
LEMMA WireTaken ==
  ASSUME NEW i \in Writes, NEW b, b = Wire(i)
  PROVE  /\ SubSeq(b, 1, Len(b)) = b /\ SubSeq(b, Len(b) + 1, Len(b)) = <<>>
         /\ SubSeq(b, 25 + 1, Len(b)) = <<>> /\ <<>> \o b = b
<1>1. b \in Seq(Byte) /\ Len(b) = 25
  BY WireIs
<1>2. SubSeq(b, 1, Len(b)) = b
  BY <1>1, SubSeqFull
<1>3. SubSeq(b, 25 + 1, 25) = <<>>
  BY <1>1
<1>4. <<>> \o b = b
  BY <1>1
<1> QED
  BY <1>1, <1>2, <1>3, <1>4

\* read_reply of what is no array.
LEMMA ReadsNoItems ==
  ASSUME NEW b, NEW r, r.kind # "ok" \/ r.reply.t # "array"
  PROVE  ReadItems(b, r) = r
BY Zenon DEF ReadItems

LEMMA NothingArrives == ReadReply(<<>>).kind = "more"
<1>1. LfFrom(<<>>, 1) = 0
  <2>1. {i \in 1 .. Len(<<>>) : <<>>[i] = "LF"} = {}
    OBVIOUS
  <2> QED
    BY <2>1 DEF LfFrom
<1>2. ReadScalar(<<>>, 1) = ReadMore
  BY <1>1 DEF ReadScalar, ReadAt
<1>3. ReadMore.kind = "more"
  BY DEF ReadMore
<1>4. ReadItems(<<>>, ReadMore) = ReadMore
  <2>1. ReadMore.kind # "ok"
    BY <1>3
  <2> QED
    BY <2>1, ReadsNoItems
<1> QED
  BY <1>2, <1>3, <1>4, Zenon DEF ReadReply

\* read_reply of one line: it is used up to its end, and an error is never OK.
LEMMA LineArrives ==
  ASSUME NEW b \in Seq(Byte), NEW n \in Nat, n >= 2, Len(b) = n, b[n] = "LF", b[1] \in {"+", "-"},
         \A i \in 1 .. n - 1 : b[i] # "LF"
  PROVE  /\ ReadReply(b).kind = "ok" /\ ReadReply(b).used = n
         /\ b[1] = "-" => ReadReply(b).reply # OK
<1>1. LfFrom(b, 1) = n
  <2> DEFINE ends == {i \in 1 .. Len(b) : b[i] = "LF"}
  <2>1. ends = {n}
    <3>1. n \in ends
      OBVIOUS
    <3>2. ASSUME NEW i \in ends PROVE i = n
      <4>1. i \in 1 .. n /\ i \notin 1 .. n - 1
        BY <3>2
      <4> HIDE DEF ends
      <4> QED
        BY <4>1
    <3> HIDE DEF ends
    <3> QED
      BY <3>1, <3>2
  <2>2. Min({n}) = n
    <3>1. n \in {n} /\ {n} \subseteq Int /\ \A k \in {n} : n <= k
      OBVIOUS
    <3> HIDE DEF ends
    <3> QED
      BY <3>1, MinOf
  <2> HIDE DEF ends
  <2>3. Min(ends) = n /\ ends # {}
    BY <2>1, <2>2
  <2> QED
    BY <2>3 DEF LfFrom, ends
<1> DEFINE text == {i \in 1 .. n : b[i] \notin {"CR", "LF"}}
<1>2. text \in SUBSET (1 .. n) /\ 1 \in text
  OBVIOUS
<1>3. PICK m \in 1 .. n : m = Max(text)
  <2> HIDE DEF text
  <2> QED
    BY <1>2, MaxIsIn
<1>4. LineOf(b, 1, n) = SubSeq(b, 1, m)
  <2> HIDE DEF text
  <2>1. text # {}
    BY <1>2
  <2> QED
    BY <1>3, <2>1 DEF LineOf, text
<1>5. PICK line : line = SubSeq(b, 1, m)
  OBVIOUS
<1>6. line # <<>> /\ Head(line) = b[1]
  <2>1. line \in Seq(Byte) /\ Len(line) = m /\ line[1] = b[1]
    BY <1>5
  <2> QED
    BY <2>1
<1>7. ReadScalar(b, 1) = IF b[1] = "+" THEN ReadOk(Simple(Tail(line)), n) ELSE ReadOk(Error(Tail(line)), n)
  <2>1. ReadScalar(b, 1) = ReadLine(b, n, line)
    <3>1. n # 0
      OBVIOUS
    <3>2. ReadScalar(b, 1) = ReadAt(b, 1, n)
      BY <1>1 DEF ReadScalar
    <3> QED
      BY <1>4, <1>5, <3>1, <3>2, Zenon DEF ReadAt
  <2> QED
    BY <1>6, <2>1 DEF ReadLine
<1>8. \E r : ReadScalar(b, 1) = ReadOk(r, n) /\ r.t # "array" /\ (b[1] = "-" => r.t = "error")
  BY <1>7 DEF Simple, Error, Reply
<1>9. PICK r : ReadScalar(b, 1) = ReadOk(r, n) /\ r.t # "array" /\ (b[1] = "-" => r.t = "error")
  BY <1>8
<1>10. ReadReply(b) = ReadOk(r, n)
  <2>1. PICK q : q = ReadOk(r, n)
    OBVIOUS
  <2>2. q.reply.t # "array"
    BY <1>9, <2>1 DEF ReadOk
  <2>3. ReadItems(b, q) = q
    BY <2>2, ReadsNoItems
  <2> QED
    BY <1>9, <2>1, <2>3, Zenon DEF ReadReply
<1>11. OK.t = "simple"
  BY DEF OK, Simple, Reply
<1> QED
  BY <1>9, <1>10, <1>11 DEF ReadOk

\* The replies that a session may write to a SET are lines.
LEMMA Framed ==
  ASSUME NEW x \in {"+", "-"}, NEW y \in {"b", "u", "d"}
  PROVE  /\ (<<x>> \o <<y>> \o CRLF) \in Seq(Byte) /\ Len(<<x>> \o <<y>> \o CRLF) = 4
         /\ (<<x>> \o <<y>> \o CRLF)[1] = x /\ (<<x>> \o <<y>> \o CRLF)[4] = "LF"
         /\ \A i \in 1 .. 3 : (<<x>> \o <<y>> \o CRLF)[i] # "LF"
<1>1. <<x>> \in Seq(Byte) /\ Len(<<x>>) = 1 /\ <<x>>[1] = x /\ y \in Byte /\ x \in Byte
  BY DEF Byte
<1>2. PICK p : p = <<x>> \o <<y>>
  OBVIOUS
<1>3. /\ p \in Seq(Byte) /\ Len(p) = 1 + 1 /\ p[1 + 1] = y /\ \A i \in 1 .. 1 : p[i] = <<x>>[i]
  BY <1>1, <1>2, PutsOne
<1>4. PICK q : q = p \o CRLF
  OBVIOUS
<1>5. /\ q \in Seq(Byte) /\ Len(q) = Len(p) + 2
      /\ q[Len(p) + 1] = "CR" /\ q[Len(p) + 2] = "LF" /\ \A i \in 1 .. Len(p) : q[i] = p[i]
  BY <1>3, <1>4, PutsEnd
<1>6. q[1] = x /\ q[2] = y /\ q[3] = "CR" /\ q[4] = "LF" /\ Len(q) = 4
  BY <1>1, <1>3, <1>5
<1>7. \A i \in 1 .. 3 : i = 1 \/ i = 2 \/ i = 3
  OBVIOUS
<1>8. \A i \in 1 .. 3 : q[i] # "LF"
  BY <1>6, <1>7
<1> QED
  BY <1>2, <1>4, <1>5, <1>6, <1>8

LEMMA FramedOK ==
  /\ Encode(OK) \in Seq(Byte) /\ Len(Encode(OK)) = 5 /\ Encode(OK)[1] = "+" /\ Encode(OK)[5] = "LF"
  /\ \A i \in 1 .. 4 : Encode(OK)[i] # "LF"
<1>1. PICK p : p = <<"+">> \o <<"O", "K">>
  OBVIOUS
<1>2. Encode(OK) = p \o CRLF
  BY <1>1 DEF Encode, EncodeScalar, OK, Simple, Reply
<1>3. /\ <<"+">> \in Seq(Byte) /\ <<"O", "K">> \in Seq(Byte) /\ Len(<<"+">>) = 1 /\ Len(<<"O", "K">>) = 2
      /\ <<"+">>[1] = "+" /\ <<"O", "K">>[1] = "O" /\ <<"O", "K">>[2] = "K"
  BY DEF Byte
<1>4. /\ p \in Seq(Byte) /\ Len(p) = 1 + 2
      /\ \A i \in 1 .. 1 + 2 : p[i] = IF i <= 1 THEN <<"+">>[i] ELSE <<"O", "K">>[i - 1]
  <2>1. /\ p \in Seq(Byte) /\ Len(p) = Len(<<"+">>) + Len(<<"O", "K">>)
        /\ \A i \in 1 .. Len(<<"+">>) + Len(<<"O", "K">>) :
             p[i] = IF i <= Len(<<"+">>) THEN <<"+">>[i] ELSE <<"O", "K">>[i - Len(<<"+">>)]
    BY <1>1, <1>3, ConcatProperties
  <2> QED
    BY <1>3, <2>1
<1>5. p[1] = "+" /\ p[2] = "O" /\ p[3] = "K" /\ Len(p) = 3
  BY <1>3, <1>4
<1>6. PICK q : q = p \o CRLF
  OBVIOUS
<1>7. /\ q \in Seq(Byte) /\ Len(q) = Len(p) + 2
      /\ q[Len(p) + 1] = "CR" /\ q[Len(p) + 2] = "LF" /\ \A i \in 1 .. Len(p) : q[i] = p[i]
  BY <1>4, <1>6, PutsEnd
<1>8. q[1] = "+" /\ q[2] = "O" /\ q[3] = "K" /\ q[4] = "CR" /\ q[5] = "LF" /\ Len(q) = 5
  BY <1>5, <1>7
<1>9. \A i \in 1 .. 4 : i = 1 \/ i = 2 \/ i = 3 \/ i = 4
  OBVIOUS
<1>10. \A i \in 1 .. 4 : q[i] # "LF"
  BY <1>8, <1>9
<1> QED
  BY <1>2, <1>6, <1>7, <1>8, <1>10

\* The client reads back what the proxy encoded, OK as nothing else.
LEMMA ReplyArrives ==
  ASSUME NEW r \in {OK, Busy, Dropped, Unavailable}
  PROVE  /\ ReadReply(Encode(r)).kind = "ok" /\ ReadReply(Encode(r)).used = Len(Encode(r))
         /\ r # OK => ReadReply(Encode(r)).reply # OK
         /\ Encode(r) \in Seq(Byte)
<1>1. CASE r = OK
  <2>1. PICK b : b = Encode(OK)
    OBVIOUS
  <2>2. /\ b \in Seq(Byte) /\ Len(b) = 5 /\ b[1] \in {"+", "-"} /\ b[5] = "LF"
        /\ \A i \in 1 .. 5 - 1 : b[i] # "LF"
    BY <2>1, FramedOK
  <2>3. ReadReply(b).kind = "ok" /\ ReadReply(b).used = 5
    <3>1. PICK n \in Nat : n = 5
      OBVIOUS
    <3>2. n >= 2 /\ Len(b) = n /\ b[n] = "LF" /\ \A i \in 1 .. n - 1 : b[i] # "LF"
      BY <2>2, <3>1
    <3>3. ReadReply(b).kind = "ok" /\ ReadReply(b).used = n
      BY <2>2, <3>2, LineArrives
    <3> QED
      BY <3>1, <3>3
  <2> QED
    BY <1>1, <2>1, <2>2, <2>3
<1>2. CASE r # OK
  <2>1. PICK y \in {"b", "u", "d"} : r = Error(<<y>>)
    BY <1>2 DEF Busy, Dropped, Unavailable
  <2>2. Encode(r) = <<"-">> \o <<y>> \o CRLF
    BY <2>1 DEF Encode, EncodeScalar, Error, Reply
  <2>3. PICK b : b = Encode(r)
    OBVIOUS
  <2>4. /\ b \in Seq(Byte) /\ Len(b) = 4 /\ b[1] = "-" /\ b[4] = "LF"
        /\ \A i \in 1 .. 4 - 1 : b[i] # "LF"
    BY <2>2, <2>3, Framed
  <2>5. ReadReply(b).kind = "ok" /\ ReadReply(b).used = 4 /\ ReadReply(b).reply # OK
    <3>1. PICK n \in Nat : n = 4
      OBVIOUS
    <3>2. n >= 2 /\ Len(b) = n /\ b[n] = "LF" /\ b[1] \in {"+", "-"} /\ \A i \in 1 .. n - 1 : b[i] # "LF"
      BY <2>4, <3>1
    <3>3. ReadReply(b).kind = "ok" /\ ReadReply(b).used = n /\ (b[1] = "-" => ReadReply(b).reply # OK)
      BY <2>4, <3>2, LineArrives
    <3> QED
      BY <2>4, <3>1, <3>3
  <2> QED
    BY <2>3, <2>4, <2>5
<1> QED
  BY <1>1, <1>2

-----------------------------------------------------------------------------
(* The harness: the inductive invariant *)

\* A connection under a load: whole requests of the harness and nothing else are on the
\* wire or in the decoder's buffer, at most one of them, none while its task waits for the
\* driver; the oneshot can hold nothing but OK; only the connection in use is open.
Line(c) ==
  /\ up[c] \in {<<>>} \cup Wires /\ buf[c] \in {<<>>} \cup Wires
  /\ server[c] = "read" => buf[c] = <<>>
  /\ server[c] \in {"none", "wait"} => up[c] = <<>> /\ buf[c] = <<>>
  /\ server[c] = "none" => down[c] = <<>>
  /\ buf[c] # <<>> => up[c] = <<>>
  /\ slot[c] \in {<<>>, <<OK>>}
  /\ client[c] # "new" /\ (c # conn => client[c] # "open")
Lines == DOMAIN up = Conns /\ DOMAIN buf = Conns /\ \A c \in Conns : Line(c)

\* The driver has writes of the harness and no others.
Written ==
  /\ \A i \in 1 .. Len(queue) : queue[i].argv \in Argvs
  /\ \A p \in 1 .. Len(stream) : stream[p].argv \in Argvs

\* Engines hold what was delivered to them, each key under itself.
Held ==
  \A e \in Engines :
    /\ \A k \in DOMAIN store[e] : store[e][k] = k
    /\ \A p \in 1 .. at[e] : stream[p].argv[2] \in DOMAIN store[e]

\* The task of c has nothing to do.
Idle(c) == server[c] \in {"read", "decode", "closed"} /\ up[c] = <<>> /\ buf[c] = <<>>

\* The answer to the load's question, or the notice that the proxy is busy, is all that
\* is to be read; OK says that the local engine holds the write asked about.
Answered(c) ==
  /\ Idle(c)
  /\ waiting \/ server[c] = "closed"
  /\ Arrived(c).kind = "ok" /\ Arrived(c).used = Len(down[c])
  /\ Arrived(c).reply = OK => waiting /\ Holds(Local, next)

\* The connection in use: what is under way on it is about the write waited for.
Dialogue(c) ==
  /\ Loading
  /\ ~waiting => Idle(c)
  /\ waiting => up[c] \in {<<>>, Wire(next)} /\ buf[c] \in {<<>>, Wire(next)}
  /\ server[c] = "wait" => argvs[c][Len(argvs[c])] = Argv(next)
  /\ down[c] # <<>> => Answered(c)

Harness ==
  /\ hand # {} => acked = <<>>
  /\ hand = {} =>
       Lines /\ Written /\ Held /\ (conn # NoConn => Dialogue(conn)) /\ AckedIsApplied

LEMMA HarnessInitially == Init => Harness
<1> SUFFICES ASSUME Init PROVE Harness
  OBVIOUS
<1>1. acked = <<>> /\ conn = NoConn
  BY DEF Init
<1>2. AckedIsApplied
  BY <1>1 DEF AckedIsApplied
<1>3. Written
  BY DEF Init, SessionInit, Written
<1>4. Held
  <2>1. \A e \in Engines : at[e] = 0 /\ store[e] = <<>>
    BY DEF Init, SessionInit
  <2> QED
    BY <2>1 DEF Held
<1>5. ASSUME hand = {} PROVE Lines
  <2>1. DOMAIN up = Conns /\ DOMAIN buf = Conns
    BY DEF Init, SessionInit
  <2>2. ASSUME NEW c \in Conns PROVE Line(c)
    <3>1. /\ up[c] = <<>> /\ buf[c] = <<>> /\ down[c] = <<>> /\ slot[c] = <<>> /\ server[c] = "none"
          /\ client[c] = IF script[c] = <<>> THEN "unused" ELSE "new"
      BY DEF Init, SessionInit
    <3>2. script[c] = <<>>
      BY <1>5 DEF Init, SessionInit
    <3> QED
      BY <3>1, <3>2 DEF Line
  <2> QED
    BY <2>1, <2>2 DEF Lines
<1> QED
  BY <1>1, <1>2, <1>3, <1>4, <1>5 DEF Harness

\* What is left to show for a step of one task: its own connection.
LEMMA TaskKeepsHarness ==
  ASSUME Harness, hand = {}, NEW c \in Conns,
         UNCHANGED <<clientVars, stream, store, at, loadVars>>,
         DOMAIN up' = Conns /\ DOMAIN buf' = Conns,
         \A d \in Conns \ {c} : 
            /\ up'[d] = up[d] /\ down'[d] = down[d] /\ buf'[d] = buf[d]
            /\ server'[d] = server[d] /\ slot'[d] = slot[d] /\ argvs'[d] = argvs[d],
         Line(c)', \A i \in 1 .. Len(queue') : queue'[i].argv \in Argvs,
         conn = c => Dialogue(c)',
         conn \in Conns \cup {NoConn}
  PROVE  Harness'
<1> USE DEF clientVars, loadVars
<1>1. Lines'
  <2>1. ASSUME NEW d \in Conns \ {c} PROVE Line(d)'
    BY DEF Harness, Lines, Line
  <2> QED
    BY <2>1 DEF Lines
<1>2. Written'
  BY DEF Harness, Written
<1>3. Held'
  BY DEF Harness, Held
<1>4. ASSUME conn # NoConn PROVE Dialogue(conn)'
  <2>1. PICK d \in Conns : d = conn
    BY <1>4
  <2>2. CASE d = c
    BY <2>1, <2>2 DEF Dialogue, Loading, Idle, Answered, Arrived, Holds
  <2>3. CASE d # c
    <3>1. Dialogue(d)
      BY <1>4, <2>1 DEF Harness
    <3>2. Dialogue(d)'
      BY <2>3, <3>1 DEF Dialogue, Loading, Idle, Answered, Arrived, Holds
    <3> QED
      BY <2>1, <3>2 DEF Dialogue, Loading, Idle, Answered, Arrived, Holds
  <2> QED
    BY <2>2, <2>3
<1>5. AckedIsApplied'
  BY DEF Harness, AckedIsApplied, Holds
<1> QED
  BY <1>1, <1>2, <1>3, <1>4, <1>5 DEF Harness

\* An engine keeps what it holds.
LEMMA HoldsOn ==
  ASSUME Held', NEW e \in Engines, DOMAIN store[e] \subseteq DOMAIN store'[e], NEW i, Holds(e, i)
  PROVE  Holds(e, i)'
BY DEF Held, Holds, Key

\* What is left to show for a step of the driver or of an engine: the stream, the stores
\* and the oneshots.
LEMMA DriverKeepsHarness ==
  ASSUME Harness, hand = {}, UNCHANGED <<clientVars, serverVars, up, down, loadVars>>,
         Written', Held', \A e \in Engines : DOMAIN store[e] \subseteq DOMAIN store'[e],
         \A c \in Conns : slot'[c] \in {slot[c], <<OK>>},
         conn \in Conns \cup {NoConn}
  PROVE  Harness'
<1> USE DEF clientVars, serverVars, loadVars
<1>0. \A i : Holds(Local, i) => Holds(Local, i)'
  BY HoldsOn, SessionAssumption
<1>1. Lines'
  <2>1. ASSUME NEW d \in Conns PROVE Line(d)'
    BY DEF Harness, Lines, Line
  <2> QED
    BY <2>1 DEF Harness, Lines
<1>2. ASSUME conn # NoConn PROVE Dialogue(conn)'
  <2>1. Dialogue(conn)
    BY <1>2 DEF Harness
  <2>2. Answered(conn) => Answered(conn)'
    <3>1. Holds(Local, next) => Holds(Local, next)'
      <4>1. PICK i : i = next
        OBVIOUS
      <4>2. Holds(Local, i) => Holds(Local, i)'
        BY <1>0
      <4> QED
        BY <4>1, <4>2 DEF Holds
    <3> QED
      BY <3>1 DEF Answered, Idle, Arrived
  <2> QED
    BY <2>1, <2>2 DEF Dialogue, Loading, Idle
<1>3. AckedIsApplied'
  <2>1. ASSUME NEW k \in 1 .. Len(acked) PROVE Holds(Local, acked[k])'
    <3>1. PICK i : i = acked[k]
      OBVIOUS
    <3>2. Holds(Local, i)
      BY <3>1 DEF Harness, AckedIsApplied
    <3>3. Holds(Local, i)'
      BY <1>0, <3>2
    <3> QED
      BY <3>1, <3>3 DEF Holds
  <2> QED
    BY <2>1 DEF AckedIsApplied
<1> QED
  BY <1>1, <1>2, <1>3 DEF Harness

-----------------------------------------------------------------------------
(* The tasks under a load *)

LEMMA BytesOnWire ==
  ASSUME NEW b \in {<<>>} \cup Wires, b # <<>>
  PROVE  \E i \in Writes : b = Wire(i)
BY DEF Wires

\* A task of the connection in use that has something to do has the question of the load,
\* and nothing to be read was written before.
LEMMA BusyTask ==
  ASSUME LoadTypes, Harness, hand = {}, NEW c \in Conns, conn = c, ~Idle(c)
  PROVE  Dialogue(c) /\ waiting /\ down[c] = <<>> /\ next \in Writes /\ client[c] = "open"
<1>1. Dialogue(c) /\ client[c] = "open"
  BY LoadAssumption DEF Harness, LoadTypes
<1>2. waiting /\ down[c] = <<>>
  BY <1>1 DEF Dialogue, Answered
<1>3. next \in Writes
  BY <1>2, LoadAssumption DEF LoadTypes, Writes
<1> QED
  BY <1>1, <1>2, <1>3

LEMMA ReadChunkKeepsHarness ==
  ASSUME Session, LoadTypes, Harness, hand = {}, UNCHANGED loadVars, NEW c \in Conns, ReadChunk(c)
  PROVE  Harness'
<1> USE DEF loadVars, clientVars, driverVars
<1>1. server[c] = "read" /\ up[c] # <<>> /\ Line(c) /\ Lines /\ conn \in Conns \cup {NoConn}
  BY DEF ReadChunk, Harness, Lines, LoadTypes
<1>2. PICK i \in Writes : up[c] = Wire(i)
  BY <1>1, BytesOnWire DEF Line
<1>3. /\ buf' = [buf EXCEPT ![c] = @ \o SubSeq(up[c], 1, Len(up[c]))]
      /\ up' = [up EXCEPT ![c] = SubSeq(@, Len(up[c]) + 1, Len(@))]
      /\ server' = [server EXCEPT ![c] = "decode"]
      /\ UNCHANGED <<clientVars, driverVars, argvs, meant, down, slot>>
  BY DEF ReadChunk
<1>4. buf[c] = <<>>
  BY <1>1 DEF Line
<1>5. buf'[c] = up[c] /\ up'[c] = <<>> /\ server'[c] = "decode"
  <2>1. <<>> \o SubSeq(up[c], 1, Len(up[c])) = up[c] /\ SubSeq(up[c], Len(up[c]) + 1, Len(up[c])) = <<>>
    BY <1>2, WireTaken
  <2> QED
    BY <1>1, <1>3, <1>4, <2>1 DEF Lines, Session, Types
<1>6. Line(c)'
  BY <1>1, <1>3, <1>5 DEF Line
<1>7. conn = c => Dialogue(c)'
  <2>1. ~Idle(c)
    BY <1>1 DEF Idle
  <2> QED
    BY <1>3, <1>5, <2>1, BusyTask DEF Dialogue, Loading
<1>8. \A k_1 \in 1 .. Len(queue') : queue'[k_1].argv \in Argvs
  BY <1>3 DEF Harness, Written
<1>9. /\ DOMAIN up' = Conns /\ DOMAIN buf' = Conns
      /\ \A d \in Conns \ {c} : up'[d] = up[d] /\ buf'[d] = buf[d] /\ server'[d] = server[d]
  BY <1>1, <1>3 DEF Lines, Session, Types
<1> HIDE DEF loadVars, clientVars, driverVars
<1>10. UNCHANGED <<clientVars, stream, store, at, loadVars, down, slot, argvs>>
  BY <1>3 DEF driverVars
<1> QED
  BY <1>1, <1>6, <1>7, <1>8, <1>9, <1>10, TaskKeepsHarness

\* The task of a closed connection ends; that in use is open.
LEMMA ReadEndsKeepsHarness ==
  ASSUME Session, LoadTypes, Harness, hand = {}, UNCHANGED loadVars, NEW c \in Conns, ReadEnds(c)
  PROVE  Harness'
<1>1. /\ client[c] = "gone" /\ server' = [server EXCEPT ![c] = "closed"]
      /\ UNCHANGED <<clientVars, driverVars, buf, argvs, meant, up, down, slot, loadVars>>
  BY DEF ReadEnds
<1>2. Lines /\ Line(c) /\ conn \in Conns \cup {NoConn}
  BY DEF Harness, Lines, LoadTypes
<1>3. server'[c] = "closed" /\ \A d \in Conns \ {c} : server'[d] = server[d]
  BY <1>1 DEF Session, Types
<1>4. Line(c)'
  BY <1>1, <1>2, <1>3 DEF Line, clientVars, loadVars
<1>5. conn # c
  BY <1>1, LoadAssumption DEF LoadTypes
<1>6. \A i \in 1 .. Len(queue') : queue'[i].argv \in Argvs
  BY <1>1 DEF Harness, Written, driverVars
<1>7. UNCHANGED <<clientVars, stream, store, at, loadVars, up, buf, down, slot, argvs>>
  BY <1>1 DEF driverVars
<1> QED
  BY <1>2, <1>3, <1>4, <1>5, <1>6, <1>7, TaskKeepsHarness DEF Lines

LEMMA NeedsMoreKeepsHarness ==
  ASSUME Session, LoadTypes, Harness, hand = {}, UNCHANGED loadVars, NEW c \in Conns,
         server[c] = "decode", buf[c] = <<>>, server' = [server EXCEPT ![c] = "read"],
         UNCHANGED <<clientVars, driverVars, buf, argvs, meant, up, down, slot>>
  PROVE  Harness'
<1>2. Lines /\ Line(c) /\ conn \in Conns \cup {NoConn}
  BY DEF Harness, Lines, LoadTypes
<1>3. server'[c] = "read" /\ \A d \in Conns \ {c} : server'[d] = server[d]
  BY DEF Session, Types
<1>4. Line(c)'
  BY <1>2, <1>3 DEF Line, clientVars, loadVars
<1>5. conn = c => Dialogue(c)'
  <2> SUFFICES ASSUME conn = c PROVE Dialogue(c)'
    OBVIOUS
  <2>1. Dialogue(c)
    BY LoadAssumption DEF Harness
  <2>2. Idle(c) => Idle(c)'
    BY <1>3 DEF Idle
  <2>3. Answered(c) => Answered(c)'
    BY <1>3, <2>2 DEF Answered, Arrived, Holds, loadVars, driverVars
  <2> QED
    BY <1>3, <2>1, <2>2, <2>3 DEF Dialogue, Loading, loadVars
<1>6. \A i \in 1 .. Len(queue') : queue'[i].argv \in Argvs
  BY DEF Harness, Written, driverVars
<1>7. UNCHANGED <<clientVars, stream, store, at, loadVars, up, buf, down, slot, argvs>>
  BY DEF driverVars
<1> QED
  BY <1>2, <1>3, <1>4, <1>5, <1>6, <1>7, TaskKeepsHarness DEF Lines

\* Without a driver the answer is an error.
LEMMA AnswersAtOnceKeepsHarness ==
  ASSUME Session, LoadTypes, Harness, hand = {}, UNCHANGED loadVars, NEW c \in Conns,
         server[c] = "decode", NEW i \in Writes, buf[c] = Wire(i), AnswersAtOnce(c, ParseCommand(buf[c]))
  PROVE  Harness'
<1>1. PICK p : p = ParseCommand(buf[c])
  OBVIOUS
<1>2. p.argv = Argv(i) /\ p.used = 25 /\ Classify(p.argv) = "Write" /\ p.argv # <<>>
  <2>1. p = Parsed("ok", Argv(i), 25)
    BY <1>1, WireIs
  <2>2. p.argv = Argv(i) /\ p.used = 25
    BY <2>1 DEF Parsed
  <2> QED
    BY <2>2, ArgvIs
<1>3. AnswerAtOnce(p.argv, Classify(p.argv)) = Unavailable
  BY <1>2 DEF AnswerAtOnce
<1>4. AnswersAtOnce(c, p)
  BY <1>1
<1>5. /\ buf' = [buf EXCEPT ![c] = SubSeq(@, 25 + 1, Len(@))]
      /\ argvs' = [argvs EXCEPT ![c] = Append(@, p.argv)]
      /\ WriteReply(c, Unavailable, "decode")
      /\ UNCHANGED <<clientVars, driverVars, up, slot>>
  BY <1>2, <1>3, <1>4 DEF AnswersAtOnce, Decoded, AfterCommand
<1>6. Lines /\ Line(c) /\ conn \in Conns \cup {NoConn} /\ buf[c] # <<>>
  BY WireIs DEF Harness, Lines, LoadTypes
<1>7. buf'[c] = <<>> /\ up'[c] = <<>> /\ DOMAIN buf' = Conns
      /\ \A d \in Conns \ {c} : buf'[d] = buf[d]
  <2>1. SubSeq(buf[c], 25 + 1, Len(buf[c])) = <<>>
    BY WireTaken
  <2> QED
    BY <1>5, <1>6, <2>1 DEF Lines, Line
<1>8. /\ server'[c] \in {"decode", "closed"} /\ DOMAIN down' = Conns
      /\ \A d \in Conns \ {c} : server'[d] = server[d] /\ down'[d] = down[d]
      /\ client[c] = "open" => server'[c] = "decode" /\ down'[c] = down[c] \o Encode(Unavailable)
  BY <1>5 DEF WriteReply, Session, Types
<1>9. \A d \in Conns \ {c} : argvs'[d] = argvs[d]
  BY <1>5 DEF Session, Types, Over
<1>10. Line(c)'
  BY <1>5, <1>6, <1>7, <1>8 DEF Line, clientVars, loadVars
<1>11. conn = c => Dialogue(c)'
  <2> SUFFICES ASSUME conn = c PROVE Dialogue(c)'
    OBVIOUS
  <2>1. Dialogue(c) /\ waiting /\ down[c] = <<>> /\ next \in Writes /\ client[c] = "open"
    <3>1. ~Idle(c)
      BY <1>6 DEF Idle
    <3> QED
      BY <3>1, BusyTask
  <2>2. Idle(c)'
    BY <1>7, <1>8, <2>1 DEF Idle
  <2>3. down'[c] = Encode(Unavailable)
    <3>1. Encode(Unavailable) \in Seq(Byte)
      BY ReplyArrives
    <3>2. <<>> \o Encode(Unavailable) = Encode(Unavailable)
      BY <3>1
    <3> QED
      BY <1>8, <2>1, <3>2
  <2>4. Answered(c)'
    <3>1. Unavailable # OK
      BY NeverOK
    <3>2. /\ ReadReply(Encode(Unavailable)).kind = "ok" /\ ReadReply(Encode(Unavailable)).reply # OK
          /\ ReadReply(Encode(Unavailable)).used = Len(Encode(Unavailable))
      BY <3>1, ReplyArrives
    <3>3. waiting'
      BY <2>1 DEF loadVars
    <3> QED
      BY <2>2, <2>3, <3>2, <3>3 DEF Answered, Arrived
  <2> QED
    BY <1>7, <1>8, <2>1, <2>2, <2>4 DEF Dialogue, Loading, loadVars
<1>12. \A k \in 1 .. Len(queue') : queue'[k].argv \in Argvs
  BY <1>5 DEF Harness, Written, driverVars
<1>13. UNCHANGED <<clientVars, stream, store, at, loadVars, up, slot>>
  BY <1>5 DEF driverVars
<1> QED
  BY <1>6, <1>7, <1>8, <1>9, <1>10, <1>11, <1>12, <1>13, TaskKeepsHarness DEF Lines

\* The question of the load goes to the driver.
LEMMA AsksDriverKeepsHarness ==
  ASSUME Session, LoadTypes, Harness, hand = {}, UNCHANGED loadVars, NEW c \in Conns,
         server[c] = "decode", NEW i \in Writes, buf[c] = Wire(i), AsksDriver(c, ParseCommand(buf[c]))
  PROVE  Harness'
<1>1. PICK p : p = ParseCommand(buf[c])
  OBVIOUS
<1>2. p.argv = Argv(i) /\ p.used = 25 /\ p.argv # <<>>
  <2>1. p = Parsed("ok", Argv(i), 25)
    BY <1>1, WireIs
  <2>2. p.argv = Argv(i) /\ p.used = 25
    BY <2>1 DEF Parsed
  <2> QED
    BY <2>2, ArgvIs
<1>4. AsksDriver(c, p)
  BY <1>1
<1>5. /\ buf' = [buf EXCEPT ![c] = SubSeq(@, 25 + 1, Len(@))]
      /\ argvs' = [argvs EXCEPT ![c] = Append(@, p.argv)]
      /\ queue' = Append(queue, [conn |-> c, argv |-> p.argv])
      /\ server' = [server EXCEPT ![c] = "wait"]
      /\ UNCHANGED <<clientVars, driver, stream, store, at, lost, meant, up, down, slot>>
  BY <1>2, <1>4 DEF AsksDriver, Decoded
<1>6. Lines /\ Line(c) /\ conn \in Conns \cup {NoConn} /\ buf[c] # <<>>
  BY WireIs DEF Harness, Lines, LoadTypes
<1>7. buf'[c] = <<>> /\ up'[c] = <<>> /\ DOMAIN buf' = Conns
      /\ \A d \in Conns \ {c} : buf'[d] = buf[d]
  <2>1. SubSeq(buf[c], 25 + 1, Len(buf[c])) = <<>>
    BY WireTaken
  <2> QED
    BY <1>5, <1>6, <2>1 DEF Lines, Line
<1>8. server'[c] = "wait" /\ \A d \in Conns \ {c} : server'[d] = server[d]
  BY <1>5 DEF Session, Types
<1>9. PICK S : Over(S)
  BY DEF Session, Types
<1>10. /\ \A d \in Conns \ {c} : argvs'[d] = argvs[d]
       /\ argvs'[c][Len(argvs'[c])] = p.argv
  <2>1. argvs'[c] = Append(argvs[c], p.argv) /\ argvs[c] \in Seq(S)
    BY <1>5, <1>9 DEF Over
  <2>2. argvs'[c][Len(argvs'[c])] = p.argv
    BY <2>1, AppendedTo
  <2> QED
    BY <1>5, <1>9, <2>2 DEF Over
<1>11. Line(c)'
  BY <1>5, <1>6, <1>7, <1>8 DEF Line, clientVars, loadVars
<1>12. conn = c => Dialogue(c)'
  <2> SUFFICES ASSUME conn = c PROVE Dialogue(c)'
    OBVIOUS
  <2>1. Dialogue(c) /\ waiting /\ down[c] = <<>> /\ next \in Writes
    <3>1. ~Idle(c)
      BY <1>6 DEF Idle
    <3> QED
      BY <3>1, BusyTask
  <2>2. p.argv = Argv(next)
    <3>1. buf[c] = Wire(next)
      BY <1>6, <2>1 DEF Dialogue
    <3>2. p = Parsed("ok", Argv(next), 25)
      BY <1>1, <2>1, <3>1, WireIs
    <3> QED
      BY <3>2 DEF Parsed
  <2>3. argvs'[c][Len(argvs'[c])] = Argv(next')
    BY <1>10, <2>2 DEF loadVars
  <2>4. down'[c] = <<>> /\ waiting' /\ Loading'
    BY <1>5, <2>1 DEF loadVars, Dialogue, Loading
  <2> QED
    BY <1>7, <2>3, <2>4 DEF Dialogue
<1>13. \A k \in 1 .. Len(queue') : queue'[k].argv \in Argvs
  <2>1. queue \in Seq(S) /\ p.argv \in Argvs
    BY <1>2, <1>9 DEF Over, Argvs
  <2>2. PICK w : w = [conn |-> c, argv |-> p.argv]
    OBVIOUS
  <2>3. queue' = Append(queue, w) /\ w.argv \in Argvs
    BY <1>5, <2>1, <2>2
  <2>4. /\ Len(queue') = Len(queue) + 1 /\ queue'[Len(queue) + 1] = w /\ Len(queue) \in Nat
        /\ \A k \in 1 .. Len(queue) : queue'[k] = queue[k]
    BY <2>1, <2>3, AppendedTo
  <2>5. \A k \in 1 .. Len(queue) : queue[k].argv \in Argvs
    BY DEF Harness, Written
  <2> QED
    BY <2>3, <2>4, <2>5
<1>14. UNCHANGED <<clientVars, stream, store, at, loadVars, up, down, slot>>
  BY <1>5
<1> QED
  BY <1>6, <1>7, <1>8, <1>10, <1>11, <1>12, <1>13, <1>14, TaskKeepsHarness DEF Lines

\* Nothing that is decoded is malformed or a no-op.
LEMMA NextCommandKeepsHarness ==
  ASSUME Session, LoadTypes, Harness, hand = {}, UNCHANGED loadVars, NEW c \in Conns, NextCommand(c)
  PROVE  Harness'
<1>1. PICK p : p = ParseCommand(buf[c])
  OBVIOUS
<1>2. /\ server[c] = "decode"
      /\ NeedsMore(c, p) \/ Desyncs(c, p) \/ SkipsNoOp(c, p) \/ AnswersAtOnce(c, p) \/ AsksDriver(c, p)
  BY <1>1 DEF NextCommand
<1>3. buf[c] \in {<<>>} \cup Wires
  BY DEF Harness, Lines, Line
<1>4. CASE buf[c] = <<>>
  <2>1. p.kind = "more"
    BY <1>1, <1>4, EmptyNeedsMore DEF NeedMore, Parsed
  <2>2. NeedsMore(c, p)
    BY <1>2, <2>1 DEF Desyncs, SkipsNoOp, AnswersAtOnce, AsksDriver
  <2> QED
    BY <1>2, <1>4, <2>2, NeedsMoreKeepsHarness DEF NeedsMore
<1>5. CASE buf[c] # <<>>
  <2>1. PICK i \in Writes : buf[c] = Wire(i)
    BY <1>3, <1>5, BytesOnWire
  <2>2. p.kind = "ok" /\ p.argv # <<>>
    <3>1. p = Parsed("ok", Argv(i), 25)
      BY <1>1, <2>1, WireIs
    <3>2. p.kind = "ok" /\ p.argv = Argv(i)
      BY <3>1 DEF Parsed
    <3> QED
      BY <3>2, ArgvIs
  <2>3. AnswersAtOnce(c, p) \/ AsksDriver(c, p)
    BY <1>2, <2>2 DEF NeedsMore, Desyncs, SkipsNoOp
  <2> QED
    BY <1>1, <1>2, <2>1, <2>3, AnswersAtOnceKeepsHarness, AsksDriverKeepsHarness
<1> QED
  BY <1>4, <1>5

\* The driver's OK is about the write waited for, and comes when the local engine has it.
LEMMA HearsDriverKeepsHarness ==
  ASSUME Session, LoadTypes, Harness, hand = {}, UNCHANGED loadVars, NEW c \in Conns, HearsDriver(c)
  PROVE  Harness'
<1>1. Lines /\ Line(c) /\ conn \in Conns \cup {NoConn} /\ server[c] = "wait"
  BY DEF Harness, Lines, LoadTypes, HearsDriver
<1>2. up[c] = <<>> /\ buf[c] = <<>> /\ slot[c] \in {<<>>, <<OK>>}
  BY <1>1 DEF Line
<1>3. PICK r \in {OK, Dropped} : WriteReply(c, r, "decode") /\ (r = OK => slot[c] = <<OK>>)
  <2>1. WriteReply(c, IF slot[c] # <<>> THEN slot[c][1] ELSE Dropped, "decode")
    BY DEF HearsDriver, AfterCommand
  <2>2. CASE slot[c] = <<OK>>
    <3>1. slot[c] # <<>> /\ slot[c][1] = OK
      BY <2>2
    <3> QED
      BY <2>1, <2>2, <3>1
  <2>3. CASE slot[c] = <<>>
    <3>1. Dropped # OK
      BY NeverOK
    <3> QED
      BY <2>1, <2>3, <3>1
  <2> QED
    BY <1>2, <2>2, <2>3
<1>4. slot' = [slot EXCEPT ![c] = <<>>] /\ UNCHANGED <<clientVars, driverVars, buf, argvs, up>>
  BY DEF HearsDriver
<1>5. /\ server'[c] \in {"decode", "closed"} /\ DOMAIN down' = Conns
      /\ \A d \in Conns \ {c} : server'[d] = server[d] /\ down'[d] = down[d]
      /\ client[c] = "open" => server'[c] = "decode" /\ down'[c] = down[c] \o Encode(r)
  BY <1>3 DEF WriteReply, Session, Types
<1>6. slot'[c] = <<>> /\ \A d \in Conns \ {c} : slot'[d] = slot[d]
  <2>1. PICK S : Over(S)
    BY DEF Session, Types
  <2> QED
    BY <1>4, <2>1 DEF Over
<1>7. Line(c)'
  BY <1>1, <1>2, <1>4, <1>5, <1>6 DEF Line, clientVars, loadVars
<1>8. conn = c => Dialogue(c)'
  <2> SUFFICES ASSUME conn = c PROVE Dialogue(c)'
    OBVIOUS
  <2>1. Dialogue(c) /\ waiting /\ down[c] = <<>> /\ next \in Writes /\ client[c] = "open"
    <3>1. ~Idle(c)
      BY <1>1 DEF Idle
    <3> QED
      BY <3>1, BusyTask
  <2>2. Idle(c)'
    BY <1>2, <1>4, <1>5 DEF Idle
  <2>3. down'[c] = Encode(r)
    <3>1. Encode(r) \in Seq(Byte)
      BY ReplyArrives
    <3>2. <<>> \o Encode(r) = Encode(r)
      BY <3>1
    <3> QED
      BY <1>5, <2>1, <3>2
  <2>4. r = OK => Holds(Local, next)
    <3> SUFFICES ASSUME r = OK PROVE Holds(Local, next)
      OBVIOUS
    <3>1. Own(c, Len(argvs[c]))
      BY <1>3 DEF Session, Answers, AnswersTo
    <3>2. PICK k \in 1 .. at[Local] : stream[k] = [conn |-> c, argv |-> argvs[c][Len(argvs[c])]]
      BY <3>1 DEF Own
    <3>3. stream[k].argv = Argv(next)
      BY <1>1, <2>1, <3>2 DEF Dialogue
    <3>4. Key(next) \in DOMAIN store[Local]
      <4>1. stream[k].argv[2] \in DOMAIN store[Local]
        BY SessionAssumption DEF Harness, Held
      <4> QED
        BY <2>1, <3>3, <4>1, ArgvIs
    <3>5. \A key \in DOMAIN store[Local] : store[Local][key] = key
      BY SessionAssumption DEF Harness, Held
    <3> QED
      BY <3>4, <3>5 DEF Holds
  <2>5. Answered(c)'
    <3>1. /\ ReadReply(Encode(r)).kind = "ok" /\ (r # OK => ReadReply(Encode(r)).reply # OK)
          /\ ReadReply(Encode(r)).used = Len(Encode(r))
      BY ReplyArrives
    <3>2. waiting' /\ (r = OK => Holds(Local, next)')
      BY <1>4, <2>1, <2>4 DEF loadVars, driverVars, Holds
    <3> QED
      BY <2>2, <2>3, <3>1, <3>2 DEF Answered, Arrived
  <2> QED
    BY <1>2, <1>4, <1>5, <2>1, <2>2, <2>5 DEF Dialogue, Loading, loadVars
<1>9. \A k \in 1 .. Len(queue') : queue'[k].argv \in Argvs
  BY <1>4 DEF Harness, Written, driverVars
<1>10. UNCHANGED <<clientVars, stream, store, at, loadVars, up, buf, argvs>>
  BY <1>4 DEF driverVars
<1> QED
  BY <1>1, <1>5, <1>6, <1>7, <1>8, <1>9, <1>10, TaskKeepsHarness DEF Lines

-----------------------------------------------------------------------------
(* The driver and the load *)

\* A write of the harness is never answered before it is delivered.
LEMMA HandlesRequestKeepsHarness ==
  ASSUME Session, LoadTypes, Harness, hand = {}, UNCHANGED loadVars, HandleWriteRequest
  PROVE  Harness'
<1> DEFINE w == Head(queue)
<1>1. PICK S : Over(S)
  BY DEF Session, Types
<1>2. queue # <<>> /\ queue \in Seq(S) /\ stream \in Seq(S)
  BY <1>1 DEF Over, HandleWriteRequest
<1>3. w \in S /\ w.argv \in Argvs
  <2>1. 1 \in 1 .. Len(queue) /\ w = queue[1] /\ w \in S
    BY <1>2, TailOf
  <2> QED
    BY <2>1 DEF Harness, Written
<1>4. Classify(w.argv) # "NonDeterministic"
  <2>1. PICK i \in Writes : w.argv = Argv(i)
    BY <1>3 DEF Argvs
  <2> QED
    BY <2>1, ArgvIs
<1>5. /\ stream' = stream \/ stream' = Append(stream, w)
      /\ queue' = Tail(queue) /\ slot' = slot
      /\ UNCHANGED <<clientVars, serverVars, driver, store, at, up, down>>
  BY <1>4 DEF HandleWriteRequest
<1> HIDE DEF w
<1>6. /\ Len(stream) \in Nat /\ Len(stream') \in Len(stream) .. Len(stream) + 1
      /\ \A p \in 1 .. Len(stream) : stream'[p] = stream[p]
      /\ \A p \in 1 .. Len(stream') : p \in 1 .. Len(stream) \/ stream'[p] = w
  BY <1>2, <1>3, <1>5
<1>7. Written'
  <2>1. \A i \in 1 .. Len(queue') : i + 1 \in 1 .. Len(queue) /\ queue'[i] = queue[i + 1]
    BY <1>2, <1>5, TailOf
  <2>2. \A i \in 1 .. Len(queue') : queue'[i].argv \in Argvs
    BY <2>1 DEF Harness, Written
  <2>3. \A p \in 1 .. Len(stream') : stream'[p].argv \in Argvs
    BY <1>3, <1>6 DEF Harness, Written
  <2> QED
    BY <2>2, <2>3 DEF Written
<1>8. Held'
  <2>1. \A e \in Engines : \A p \in 1 .. at[e] : p \in 1 .. Len(stream) /\ stream'[p] = stream[p]
    <3>1. \A e \in Engines : at[e] \in 0 .. Len(stream)
      BY DEF Session, Types
    <3> QED
      BY <1>6, <3>1
  <2> QED
    BY <1>5, <2>1 DEF Harness, Held
<1>9. UNCHANGED <<clientVars, serverVars, up, down, loadVars>> /\ conn \in Conns \cup {NoConn}
  BY <1>5 DEF LoadTypes
<1>10. /\ \A e \in Engines : DOMAIN store[e] \subseteq DOMAIN store'[e]
       /\ \A c \in Conns : slot'[c] \in {slot[c], <<OK>>}
  BY <1>5
<1> QED
  BY <1>7, <1>8, <1>9, <1>10, DriverKeepsHarness

LEMMA DriverEndsKeepsHarness ==
  ASSUME Session, LoadTypes, Harness, hand = {}, UNCHANGED loadVars, DriverEnds
  PROVE  Harness'
<1>1. /\ queue' = <<>> /\ UNCHANGED <<clientVars, serverVars, stream, store, at, lost, up, down, slot>>
      /\ conn \in Conns \cup {NoConn}
  BY DEF DriverEnds, LoadTypes
<1>2. Written' /\ Held'
  BY <1>1 DEF Harness, Written, Held
<1>3. /\ \A e \in Engines : DOMAIN store[e] \subseteq DOMAIN store'[e]
      /\ \A c \in Conns : slot'[c] \in {slot[c], <<OK>>}
  BY <1>1
<1> QED
  BY <1>1, <1>2, <1>3, DriverKeepsHarness

\* An engine comes to hold the write that is delivered to it, and loses nothing.
LEMMA DeliverKeepsHarness ==
  ASSUME Session, LoadTypes, Harness, hand = {}, UNCHANGED loadVars, NEW e \in Engines, Deliver(e)
  PROVE  Harness'
<1>1. PICK w : w = stream[at[e] + 1]
  OBVIOUS
<1>2. /\ at[e] < Len(stream) /\ at[e] \in 0 .. Len(stream) /\ Len(stream) \in Nat
      /\ at[e] + 1 \in 1 .. Len(stream)
  <2>1. PICK S : Over(S)
    BY DEF Session, Types
  <2>2. Len(stream) \in Nat
    BY <2>1 DEF Over
  <2>3. at[e] < Len(stream) /\ at[e] \in 0 .. Len(stream)
    BY DEF Deliver, Session, Types
  <2> QED
    BY <2>2, <2>3
<1>3. PICK i \in Writes : w.argv = Argv(i)
  <2>1. w.argv \in Argvs
    BY <1>1, <1>2 DEF Harness, Written
  <2> QED
    BY <2>1 DEF Argvs
<1>4. /\ store' = [store EXCEPT ![e] = ApplyTo(@, Argv(i))]
      /\ slot' = slot \/ slot' = [slot EXCEPT ![w.conn] = <<OK>>]
      /\ at' = [at EXCEPT ![e] = @ + 1]
      /\ UNCHANGED <<clientVars, serverVars, driver, queue, stream, lost, up, down>>
  <2>1. ApplyReply(store[e], w.argv) = OK
    BY <1>3, ArgvIs
  <2> QED
    BY <1>1, <1>3, <2>1 DEF Deliver
<1>5. store'[e] = [k \in DOMAIN store[e] \cup {Key(i)} |-> IF k = Key(i) THEN Key(i) ELSE store[e][k]]
  <2>1. ApplyTo(store[e], Argv(i)) =
          [k \in DOMAIN store[e] \cup {Key(i)} |-> IF k = Key(i) THEN Key(i) ELSE store[e][k]]
    BY ArgvIs
  <2> QED
    BY <1>4, <2>1 DEF Session, Types
<1>6. \A d \in Engines \ {e} : store'[d] = store[d] /\ at'[d] = at[d]
  BY <1>4 DEF Session, Types
<1>7. at'[e] = at[e] + 1
  BY <1>4 DEF Session, Types
<1>8. Held'
  <2>1. \A k \in DOMAIN store'[e] : store'[e][k] = k
    BY <1>5 DEF Harness, Held
  <2>2. ASSUME NEW p \in 1 .. at'[e] PROVE stream'[p].argv[2] \in DOMAIN store'[e]
    <3>1. CASE p \in 1 .. at[e]
      BY <1>4, <1>5, <3>1 DEF Harness, Held
    <3>2. CASE p = at[e] + 1
      <4>1. stream'[p].argv[2] = Key(i)
        BY <1>1, <1>3, <1>4, <3>2, ArgvIs
      <4> QED
        BY <1>5, <4>1
    <3> QED
      BY <1>2, <1>7, <3>1, <3>2
  <2>3. ASSUME NEW d \in Engines, d # e
        PROVE  /\ \A k \in DOMAIN store'[d] : store'[d][k] = k
               /\ \A p \in 1 .. at'[d] : stream'[p].argv[2] \in DOMAIN store'[d]
    BY <1>4, <1>6, <2>3 DEF Harness, Held
  <2> QED
    BY <2>1, <2>2, <2>3 DEF Held
<1>9. Written'
  BY <1>4 DEF Harness, Written
<1>10. \A d \in Engines : DOMAIN store[d] \subseteq DOMAIN store'[d]
  BY <1>5, <1>6
<1>11. \A c \in Conns : slot'[c] \in {slot[c], <<OK>>}
  <2>1. PICK S : Over(S)
    BY DEF Session, Types
  <2> QED
    BY <1>4, <2>1 DEF Over
<1>12. UNCHANGED <<clientVars, serverVars, up, down, loadVars>> /\ conn \in Conns \cup {NoConn}
  BY <1>4 DEF LoadTypes
<1> QED
  BY <1>8, <1>9, <1>10, <1>11, <1>12, DriverKeepsHarness

LEMMA SessionStepKeepsHarness ==
  ASSUME Session, LoadTypes, Harness, hand = {}, SessionNext, UNCHANGED loadVars
  PROVE  Harness'
<1>1. \A c \in Conns : ~(HandConnects(c) \/ HandWrites(c) \/ HandReads(c) \/ HandHangsUp(c))
  BY DEF HandConnects, HandWrites, HandReads, HandHangsUp, Harness, Lines, Line
<1> QED
  BY <1>1, ReadChunkKeepsHarness, ReadEndsKeepsHarness, NextCommandKeepsHarness, HearsDriverKeepsHarness,
     HandlesRequestKeepsHarness, DriverEndsKeepsHarness, DeliverKeepsHarness DEF SessionNext

\* What is left to show for a step of the load: the connections, and the writes taken
\* down.
LEMMA LoadKeepsHarness ==
  ASSUME Harness, hand = {}, UNCHANGED <<hand, driverVars, buf, argvs, slot>>,
         DOMAIN up' = Conns, \A c \in Conns : Line(c)',
         conn' # NoConn => Dialogue(conn)', AckedIsApplied'
  PROVE  Harness'
<1>1. Lines'
  BY DEF Harness, Lines
<1>2. Written' /\ Held'
  BY DEF Harness, Written, Held, driverVars
<1> QED
  BY <1>1, <1>2 DEF Harness

\* A fresh connection has nothing on it but, at the cap, the notice that the proxy is
\* busy.
LEMMA ConnectsKeepsHarness ==
  ASSUME Session, LoadTypes, Harness, hand = {}, Connects
  PROVE  Harness'
<1>1. PICK c : c = Min({d \in Conns : client[d] = "unused"})
  OBVIOUS
<1>2. c \in Conns /\ client[c] = "unused" /\ server[c] = "none"
  BY <1>1, FirstUnused DEF Connects, Session, Ends
<1>3. /\ Accept(c) /\ conn' = c
      /\ UNCHANGED <<hand, up, buf, argvs, slot, driverVars, phase, next, waiting, acked>>
      /\ Loading /\ conn = NoConn
  BY <1>1 DEF Connects
<1>4. Lines /\ Line(c) /\ up[c] = <<>> /\ buf[c] = <<>> /\ down[c] = <<>>
  BY <1>2 DEF Harness, Lines, Line
<1>5. /\ client'[c] = "open"
      /\ \A d \in Conns \ {c} : client'[d] = client[d] /\ server'[d] = server[d] /\ down'[d] = down[d]
      /\ (server'[c] = "read" /\ down'[c] = <<>>) \/ (server'[c] = "closed" /\ down'[c] = Encode(Busy))
  BY <1>2, <1>3, <1>4 DEF Accept, Session, Types
<1>6. ASSUME NEW d \in Conns PROVE Line(d)'
  <2>1. CASE d = c
    BY <1>3, <1>4, <1>5, <2>1 DEF Line
  <2>2. CASE d # c
    <3>1. d # conn /\ Line(d)
      BY <1>3, <1>4, LoadAssumption DEF Lines
    <3> QED
      BY <1>3, <1>5, <2>2, <3>1 DEF Line
  <2> QED
    BY <2>1, <2>2
<1>7. Dialogue(c)'
  <2>1. ~waiting
    BY <1>3 DEF LoadTypes
  <2>2. Idle(c)'
    BY <1>3, <1>4, <1>5 DEF Idle
  <2>3. ASSUME down'[c] # <<>> PROVE Answered(c)'
    <3>1. Busy # OK
      BY NeverOK
    <3>2. /\ ReadReply(Encode(Busy)).kind = "ok" /\ ReadReply(Encode(Busy)).reply # OK
          /\ ReadReply(Encode(Busy)).used = Len(Encode(Busy))
      BY <3>1, ReplyArrives
    <3> QED
      BY <1>5, <2>2, <2>3, <3>2 DEF Answered, Arrived
  <2> QED
    BY <1>3, <1>5, <2>1, <2>2, <2>3 DEF Dialogue, Loading
<1>8. Dialogue(conn)'
  BY <1>3, <1>7 DEF Dialogue, Loading, Idle, Answered, Arrived, Holds
<1>9. AckedIsApplied'
  BY <1>3 DEF Harness, AckedIsApplied, Holds, driverVars
<1>10. DOMAIN up' = Conns
  BY <1>3, <1>4 DEF Lines
<1> QED
  BY <1>3, <1>6, <1>8, <1>9, <1>10, LoadKeepsHarness

LEMMA SetsKeepsHarness ==
  ASSUME Session, LoadTypes, Harness, hand = {}, Sets
  PROVE  Harness'
<1>1. PICK c \in Conns : c = conn
  BY DEF Sets, LoadTypes
<1>2. /\ Loading /\ ~waiting /\ next < End /\ waiting' = TRUE
      /\ up' = [up EXCEPT ![c] = IF server[c] = "closed" THEN @ ELSE @ \o Wire(next)]
      /\ UNCHANGED <<hand, client, serverVars, driverVars, down, slot, phase, next, conn, acked>>
  BY <1>1 DEF Sets, Put, Set, Request, Frame, Wire, Argv
<1>3. next \in Writes
  <2>1. End <= Count /\ Count \in Nat /\ End \in Int
    BY LoadAssumption DEF End
  <2> QED
    BY <1>2, <2>1, LoadAssumption DEF Writes, LoadTypes
<1>4. Lines /\ Line(c) /\ Dialogue(c) /\ Idle(c) /\ client[c] = "open"
  BY <1>1, <1>2, LoadAssumption DEF Harness, Lines, Dialogue, LoadTypes
<1>5. /\ \A d \in Conns \ {c} : up'[d] = up[d]
      /\ server[c] = "closed" => up'[c] = up[c]
      /\ server[c] # "closed" => up'[c] = Wire(next) /\ buf[c] = <<>> /\ server[c] \in {"read", "decode"}
  <2>1. <<>> \o Wire(next) = Wire(next)
    BY <1>3, WireTaken
  <2> QED
    BY <1>2, <1>4, <2>1 DEF Lines, Idle
<1>6. ASSUME NEW d \in Conns PROVE Line(d)'
  <2>0. Line(d)
    BY <1>4 DEF Lines
  <2>1. CASE d = c
    <3>1. Wire(next) \in Wires
      BY <1>3 DEF Wires
    <3>2. CASE server[c] = "closed"
      BY <1>2, <1>4, <1>5, <2>1, <3>2 DEF Line, serverVars
    <3>3. CASE server[c] # "closed"
      BY <1>2, <1>4, <1>5, <2>1, <3>1, <3>3 DEF Line, serverVars
    <3> QED
      BY <3>2, <3>3
  <2>2. CASE d # c
    BY <1>2, <1>5, <2>0, <2>2 DEF Line, serverVars
  <2> QED
    BY <2>1, <2>2
<1>7. Dialogue(c)'
  <2>1. down[c] # <<>> => server[c] = "closed" /\ Arrived(c).kind = "ok" /\ Arrived(c).used = Len(down[c])
                          /\ Arrived(c).reply # OK
    BY <1>2, <1>4 DEF Dialogue, Answered
  <2>2. down'[c] # <<>> => Answered(c)'
    <3> SUFFICES ASSUME down'[c] # <<>> PROVE Answered(c)'
      OBVIOUS
    <3>1. down'[c] = down[c] /\ server'[c] = "closed" /\ up'[c] = <<>> /\ buf'[c] = <<>> /\ waiting'
      BY <1>2, <1>4, <1>5, <2>1 DEF Idle, serverVars
    <3>2. Arrived(c)' = Arrived(c)
      BY <3>1 DEF Arrived
    <3> QED
      BY <1>2, <2>1, <3>1, <3>2 DEF Answered, Idle
  <2>3. server'[c] # "wait"
    BY <1>2, <1>4 DEF Idle, serverVars
  <2> QED
    <3>1. up'[c] \in {<<>>, Wire(next)} /\ buf'[c] = <<>>
      BY <1>2, <1>4, <1>5 DEF Idle, serverVars
    <3>2. up'[c] \in {<<>>, Wire(next)}' 
      BY <1>2, <3>1
    <3> QED
      BY <1>2, <1>4, <2>2, <2>3, <3>1, <3>2 DEF Dialogue, Loading
<1>8. Dialogue(conn)'
  BY <1>1, <1>2, <1>7 DEF Dialogue, Loading, Idle, Answered, Arrived, Holds
<1>9. AckedIsApplied'
  BY <1>2 DEF Harness, AckedIsApplied, Holds, driverVars
<1>10. DOMAIN up' = Conns
  BY <1>2, <1>4 DEF Lines
<1> QED
  BY <1>2, <1>6, <1>8, <1>9, <1>10, LoadKeepsHarness DEF serverVars

\* The one reply that is there is read as a whole, and a write is taken down that the
\* local engine holds.
LEMMA ReadsKeepsHarness ==
  ASSUME Session, LoadTypes, Harness, hand = {}, Reads
  PROVE  Harness'
<1>1. PICK c \in Conns : c = conn
  BY DEF Reads, LoadTypes
<1>2. PICK r : r = Arrived(c)
  OBVIOUS
<1>3. /\ waiting /\ r.kind = "ok" /\ Take(c, r)
      /\ acked' = IF r.reply = OK THEN Append(acked, next) ELSE acked
      /\ next' = next + 1 /\ waiting' = FALSE
      /\ UNCHANGED <<hand, client, serverVars, driverVars, up, slot, phase, conn>>
  BY <1>1, <1>2 DEF Reads
<1>4. Lines /\ Line(c) /\ Dialogue(c) /\ client[c] = "open" /\ server[c] # "none"
  BY <1>1, LoadAssumption DEF Harness, Lines, LoadTypes, Session, Ends
<1>5. down[c] # <<>>
  <2>1. down[c] = <<>> => r.kind = "more"
    BY <1>2, NothingArrives DEF Arrived
  <2> QED
    BY <1>3, <2>1
<1>6. Answered(c)
  BY <1>4, <1>5 DEF Dialogue
<1>7. down'[c] = <<>> /\ \A d \in Conns \ {c} : down'[d] = down[d]
  <2>1. down' = [down EXCEPT ![c] = SubSeq(@, Len(down[c]) + 1, Len(@))]
    BY <1>2, <1>3, <1>6 DEF Take, Answered
  <2> QED
    BY <2>1 DEF Session, Types
<1>8. ASSUME NEW d \in Conns PROVE Line(d)'
  <2>0. Line(d)
    BY <1>4 DEF Lines
  <2>1. CASE d = c
    BY <1>3, <1>4, <1>7, <2>1 DEF Line, serverVars
  <2>2. CASE d # c
    BY <1>3, <1>7, <2>0, <2>2 DEF Line, serverVars
  <2> QED
    BY <2>1, <2>2
<1>9. Dialogue(c)'
  <2>1. Idle(c)'
    BY <1>3, <1>6 DEF Answered, Idle, serverVars
  <2>2. server'[c] # "wait"
    BY <2>1 DEF Idle
  <2> QED
    BY <1>3, <1>4, <1>7, <2>1, <2>2 DEF Dialogue, Loading
<1>10. Dialogue(conn)'
  BY <1>1, <1>3, <1>9 DEF Dialogue, Loading, Idle, Answered, Arrived, Holds
<1>11. AckedIsApplied'
  <2>1. acked \in Seq(Nat) /\ next \in Nat /\ Len(acked) \in Nat
    BY LoadAssumption DEF LoadTypes
  <2>2. \A k \in 1 .. Len(acked') :
          \/ (k \in 1 .. Len(acked) /\ acked'[k] = acked[k])
          \/ (r.reply = OK /\ acked'[k] = next)
    BY <1>3, <2>1
  <2>3. r.reply = OK => Holds(Local, next)
    BY <1>2, <1>6 DEF Answered
  <2>4. \A k \in 1 .. Len(acked) : Holds(Local, acked[k])
    BY DEF Harness, AckedIsApplied
  <2>5. ASSUME NEW k \in 1 .. Len(acked') PROVE Holds(Local, acked[k])'
    <3>1. PICK i : i = acked'[k]
      OBVIOUS
    <3>2. Holds(Local, i)
      BY <2>2, <2>3, <2>4, <3>1
    <3> QED
      BY <1>3, <3>1, <3>2 DEF Holds, driverVars
  <2> QED
    BY <2>5 DEF AckedIsApplied
<1>12. DOMAIN up' = Conns
  BY <1>3, <1>4 DEF Lines
<1> QED
  BY <1>3, <1>8, <1>10, <1>11, <1>12, LoadKeepsHarness DEF serverVars

\* A late answer goes nowhere: its connection is closed with it.
LEMMA ClosesKeepsHarness ==
  ASSUME Session, LoadTypes, Harness, hand = {}, conn # NoConn, Closes(conn), conn' = NoConn,
         UNCHANGED <<hand, serverVars, driverVars, up, slot, acked>>
  PROVE  Harness'
<1>1. PICK c \in Conns : c = conn
  BY DEF LoadTypes
<1>2. client' = [client EXCEPT ![c] = "gone"] /\ down' = [down EXCEPT ![c] = <<>>]
  BY <1>1 DEF Closes
<1>3. /\ client'[c] = "gone" /\ down'[c] = <<>>
      /\ \A d \in Conns \ {c} : client'[d] = client[d] /\ down'[d] = down[d]
  BY <1>2 DEF Session, Types
<1>4. ASSUME NEW d \in Conns PROVE Line(d)'
  <2>0. Line(d)
    BY DEF Harness, Lines
  <2>1. CASE d = c
    BY <1>3, <2>0, <2>1 DEF Line, serverVars
  <2>2. CASE d # c
    BY <1>1, <1>3, <2>0, <2>2 DEF Line, serverVars
  <2> QED
    BY <2>1, <2>2
<1>5. AckedIsApplied'
  BY DEF Harness, AckedIsApplied, Holds, driverVars
<1>6. DOMAIN up' = Conns
  BY DEF Harness, Lines
<1> QED
  BY <1>4, <1>5, <1>6, LoadKeepsHarness DEF serverVars

LEMMA StutterKeepsHarness ==
  ASSUME Harness, UNCHANGED <<sessionVars, conn, next, waiting, acked>>, phase' = phase \/ conn = NoConn
  PROVE  Harness'
<1> USE DEF sessionVars, clientVars, serverVars, driverVars
<1>1. Lines => Lines'
  BY DEF Lines, Line
<1>2. (Written => Written') /\ (Held => Held')
  BY DEF Written, Held
<1>3. Dialogue(conn) /\ conn # NoConn => Dialogue(conn)'
  BY DEF Dialogue, Loading, Idle, Answered, Arrived, Holds
<1>4. AckedIsApplied => AckedIsApplied'
  BY DEF AckedIsApplied, Holds
<1> QED
  BY <1>1, <1>2, <1>3, <1>4 DEF Harness

\* verify changes nothing of the load.
LEMMA AsksKeepsHarness ==
  ASSUME LoadTypes, Harness, NEW e \in Engines, AsksKey(e) \/ AsksSize(e)
  PROVE  Harness'
<1>1. UNCHANGED <<sessionVars, conn, next, waiting, acked>> /\ phase = "verify"
  BY DEF AsksKey, AsksSize, loadVars
<1>2. CASE hand = {}
  <2>1. conn = NoConn
    BY <1>1, <1>2 DEF Harness, Dialogue, Loading
  <2> QED
    BY <1>1, <2>1, StutterKeepsHarness
<1>3. CASE hand # {}
  BY <1>1, <1>3 DEF LoadTypes
<1> QED
  BY <1>2, <1>3

LEMMA NextKeepsHarness ==
  ASSUME Session, LoadTypes, Harness, [Next]_vars
  PROVE  Harness'
<1>1. CASE UNCHANGED vars
  BY <1>1, StutterKeepsHarness DEF vars, loadVars
<1>2. ASSUME NEW e \in Engines, AsksKey(e) \/ AsksSize(e) PROVE Harness'
  BY <1>2, AsksKeepsHarness
<1>3. CASE hand # {}
  <2>1. acked = <<>> /\ conn = NoConn /\ ~waiting /\ ~Loading
    BY <1>3 DEF Harness, LoadTypes, Loading
  <2>2. CASE SessionNext /\ UNCHANGED <<loadVars, verifyVars>>
    <3>1. hand' = hand
      BY <2>2 DEF SessionNext, HandConnects, HandWrites, HandReads, HandHangsUp, ReadChunk, ReadEnds,
        NextCommand, NeedsMore, Desyncs, SkipsNoOp, AnswersAtOnce, AsksDriver, HearsDriver,
        HandleWriteRequest, DriverEnds, Deliver, clientVars
    <3> QED
      BY <1>3, <2>1, <2>2, <3>1 DEF Harness, loadVars
  <2> QED
    BY <1>1, <1>2, <2>1, <2>2 DEF Next, Connects, Sets, Reads, Abandons, RunEnds
<1>4. CASE hand = {}
  <2>1. Abandons => Harness'
    <3> SUFFICES ASSUME Abandons PROVE Harness'
      OBVIOUS
    <3>1. conn # NoConn
      BY DEF Abandons, LoadTypes
    <3>2. Closes(conn) /\ conn' = NoConn /\ UNCHANGED <<hand, serverVars, driverVars, up, slot, acked>>
      BY DEF Abandons, AfterAbandon
    <3> QED
      BY <1>4, <3>1, <3>2, ClosesKeepsHarness
  <2>2. RunEnds => Harness'
    BY <1>4, ClosesKeepsHarness DEF RunEnds
  <2>3. SessionNext /\ UNCHANGED <<loadVars, verifyVars>> => Harness'
    BY <1>4, SessionStepKeepsHarness
  <2> QED
    BY <1>1, <1>2, <1>4, <2>1, <2>2, <2>3, ConnectsKeepsHarness, SetsKeepsHarness, ReadsKeepsHarness DEF Next
<1> QED
  BY <1>3, <1>4

\* run_load takes a write down as acked only if the local engine applied it: an answer
\* that comes after the load gave up on it is never taken for that to a later write.
THEOREM AckedWritesAreApplied == Spec => []AckedIsApplied
<1>1. Harness => AckedIsApplied
  BY DEF Harness, AckedIsApplied
<1>2. Init => Session /\ LoadTypes /\ Harness
  BY InitTyped, HarnessInitially
<1>3. Session /\ LoadTypes /\ Harness /\ [Next]_vars => (Session /\ LoadTypes /\ Harness)'
  BY NextTyped, NextKeepsHarness
<1> QED
  BY <1>1, <1>2, <1>3, PTL DEF Spec

-----------------------------------------------------------------------------
(* Verify *)

\* A question that was asked of e: e held the write and holds it still, or it was reported
\* missing, for e itself where each engine is verified alone.
Asked(e, k) ==
  k < pos[e] =>
    Holds(e, acked[k]) \/ \E d \in Engines : acked[k] \in missing[d] /\ (mode = "local" => d = e)

Verifying == phase \in {"verify", "done"}

\* Nothing is on its way, every answer was yes, and every size is that of the store.
Settled ==
  /\ Verifying /\ hand = {} /\ Quiet
  /\ \A e \in Engines :
       missing[e] = {} /\ (pos[e] = Len(acked) + 2 => size[e] = Cardinality(DOMAIN store[e]))

\* The inductive invariant of verify.
Verify ==
  /\ DOMAIN size = Engines
  /\ Verifying \/ \A e \in Engines : pos[e] = 1 /\ missing[e] = {}
  /\ \A e \in Engines : \A k \in 1 .. Len(acked) : Asked(e, k)
  /\ phase = "done" => \A e \in Engines : pos[e] = Len(acked) + 2
  /\ settled => Settled

LEMMA VerifyInitially == Init => Verify
<1> SUFFICES ASSUME Init PROVE Verify
  OBVIOUS
<1>1. Len(acked) = 0 /\ phase \in {"first", "off"} /\ settled = FALSE
  BY DEF Init
<1>2. DOMAIN size = Engines /\ \A e \in Engines : pos[e] = 1 /\ missing[e] = {}
  BY DEF Init
<1> QED
  BY <1>1, <1>2 DEF Verify, Verifying

\* Before verify nothing was asked.
LEMMA LoadingKeepsVerify ==
  ASSUME Verify, LoadTypes', ~Verifying, phase' = phase, UNCHANGED verifyVars
  PROVE  Verify'
<1>1. \A e \in Engines : pos'[e] = 1 /\ missing'[e] = {}
  BY DEF Verify, verifyVars
<1>2. ASSUME NEW e \in Engines, NEW k \in 1 .. Len(acked') PROVE Asked(e, k)'
  <2>1. ~(k < pos'[e])
    BY <1>1 DEF LoadTypes
  <2> QED
    BY <2>1 DEF Asked
<1> QED
  BY <1>1, <1>2 DEF Verify, Verifying, Settled, verifyVars

\* No step takes a key of the harness from an engine.
LEMMA StoresGrow ==
  ASSUME Session, Harness, hand = {}, SessionNext
  PROVE  \A e \in Engines : DOMAIN store[e] \subseteq DOMAIN store'[e]
<1>1. ASSUME NEW e \in Engines, Deliver(e)
      PROVE  \A d \in Engines : DOMAIN store[d] \subseteq DOMAIN store'[d]
  <2>1. PICK w : w = stream[at[e] + 1]
    OBVIOUS
  <2>2. at[e] + 1 \in 1 .. Len(stream)
    <3>1. PICK S : Over(S)
      BY DEF Session, Types
    <3>2. Len(stream) \in Nat
      BY <3>1 DEF Over
    <3>3. at[e] < Len(stream) /\ at[e] \in 0 .. Len(stream)
      BY <1>1 DEF Deliver, Session, Types
    <3> QED
      BY <3>2, <3>3
  <2>3. PICK i \in Writes : w.argv = Argv(i)
    <3>1. w.argv \in Argvs
      BY <2>1, <2>2 DEF Harness, Written
    <3> QED
      BY <3>1 DEF Argvs
  <2>4. store' = [store EXCEPT ![e] = ApplyTo(@, Argv(i))]
    BY <1>1, <2>1, <2>3 DEF Deliver
  <2>5. DOMAIN ApplyTo(store[e], Argv(i)) = DOMAIN store[e] \cup {Key(i)}
    <3>1. ApplyTo(store[e], Argv(i))
            = [k \in DOMAIN store[e] \cup {Key(i)} |-> IF k = Key(i) THEN Key(i) ELSE store[e][k]]
      BY ArgvIs
    <3> QED
      BY <3>1
  <2> QED
    BY <2>4, <2>5 DEF Session, Types
<1>2. (~ \E e \in Engines : Deliver(e)) => store' = store
  BY DEF SessionNext, HandConnects, HandWrites, HandReads, HandHangsUp, ReadChunk, ReadEnds,
    NextCommand, NeedsMore, Desyncs, SkipsNoOp, AnswersAtOnce, AsksDriver, HearsDriver,
    HandleWriteRequest, DriverEnds, driverVars
<1> QED
  BY <1>1, <1>2

\* When nothing is on its way, no step of a session changes a store.
LEMMA QuietStays ==
  ASSUME Session, Harness, hand = {}, Quiet, SessionNext
  PROVE  Quiet' /\ store' = store
<1>1. \A c \in Conns : ~(HandConnects(c) \/ HandWrites(c) \/ HandReads(c) \/ HandHangsUp(c))
  BY DEF HandConnects, HandWrites, HandReads, HandHangsUp, Harness, Lines, Line
<1>2. ~HandleWriteRequest /\ \A c \in Conns : ~ReadChunk(c)
  BY DEF Quiet, HandleWriteRequest, ReadChunk
<1>3. \A e \in Engines : ~Deliver(e)
  <2>1. PICK S : Over(S)
    BY DEF Session, Types
  <2>2. \A e \in Engines : at[e] = Len(stream) /\ Len(stream) \in Nat
    BY <2>1 DEF Quiet, Over
  <2> QED
    BY <2>2 DEF Deliver
<1>4. CASE DriverEnds
  BY <1>4 DEF DriverEnds, Quiet, serverVars
<1>5. ASSUME NEW c \in Conns, ReadEnds(c) PROVE Quiet' /\ store' = store
  BY <1>5 DEF ReadEnds, Quiet, driverVars, Session, Types
<1>6. ASSUME NEW c \in Conns, HearsDriver(c) PROVE Quiet' /\ store' = store
  <2>1. up[c] = <<>> /\ buf[c] = <<>>
    BY <1>6 DEF HearsDriver, Harness, Lines, Line
  <2>2. \A d \in Conns \ {c} : server'[d] = server[d]
    BY <1>6 DEF HearsDriver, WriteReply, Session, Types
  <2> QED
    BY <1>6, <2>1, <2>2 DEF HearsDriver, Quiet, driverVars
<1>7. ASSUME NEW c \in Conns, NextCommand(c) PROVE Quiet' /\ store' = store
  <2>1. PICK p : p = ParseCommand(buf[c])
    OBVIOUS
  <2>2. server[c] = "decode"
        /\ (NeedsMore(c, p) \/ Desyncs(c, p) \/ SkipsNoOp(c, p) \/ AnswersAtOnce(c, p) \/ AsksDriver(c, p))
    BY <1>7, <2>1 DEF NextCommand
  <2>3. buf[c] = <<>> /\ up[c] = <<>>
    BY <2>2 DEF Quiet
  <2>4. p.kind = "more"
    BY <2>1, <2>3, EmptyNeedsMore DEF NeedMore, Parsed
  <2>5. NeedsMore(c, p)
    BY <2>2, <2>4 DEF Desyncs, SkipsNoOp, AnswersAtOnce, AsksDriver
  <2>6. \A d \in Conns \ {c} : server'[d] = server[d]
    BY <2>5 DEF NeedsMore, Session, Types
  <2> QED
    BY <2>3, <2>5, <2>6 DEF NeedsMore, Quiet, driverVars
<1> QED
  BY <1>1, <1>2, <1>3, <1>4, <1>5, <1>6, <1>7 DEF SessionNext

\* Engines go on applying between the questions.
LEMMA SessionStepKeepsVerify ==
  ASSUME Session, Harness, Harness', Verify, SessionNext, UNCHANGED <<loadVars, verifyVars>>, hand' = hand
  PROVE  Verify'
<1> USE DEF loadVars, verifyVars
<1>1. ASSUME NEW e \in Engines, NEW k \in 1 .. Len(acked') PROVE Asked(e, k)'
  <2>1. CASE hand = {}
    <3>1. Asked(e, k)
      BY DEF Verify
    <3>2. PICK i : i = acked[k]
      OBVIOUS
    <3>3. DOMAIN store[e] \subseteq DOMAIN store'[e] /\ Held'
      BY <2>1, StoresGrow DEF Harness
    <3>4. Holds(e, i) => Holds(e, i)'
      BY <3>3, HoldsOn
    <3> QED
      BY <3>1, <3>2, <3>4 DEF Asked, Holds
  <2>2. CASE hand # {}
    BY <2>2 DEF Harness
  <2> QED
    BY <2>1, <2>2
<1>2. settled => Settled'
  <2> SUFFICES ASSUME settled PROVE Settled'
    OBVIOUS
  <2>1. Settled
    BY DEF Verify
  <2>2. Quiet' /\ store' = store
    BY <2>1, QuietStays DEF Settled
  <2> QED
    BY <2>1, <2>2 DEF Settled, Verifying
<1> QED
  BY <1>1, <1>2 DEF Verify, Verifying

\* verify begins.
LEMMA RunEndsKeepsVerify ==
  ASSUME LoadTypes, Verify, RunEnds
  PROVE  Verify'
<1>1. /\ Loading /\ phase' \in {"second", "verify"} /\ settled' = (phase = "second" /\ Quiet)
      /\ UNCHANGED <<hand, acked, mode, pos, missing, size, serverVars, driverVars, up>>
  BY DEF RunEnds
<1>2. \A e \in Engines : pos'[e] = 1 /\ missing'[e] = {}
  BY <1>1 DEF Verify, Loading, Verifying
<1>3. Len(acked') \in Nat
  BY <1>1 DEF LoadTypes
<1>4. \A e \in Engines : \A k \in 1 .. Len(acked') : Asked(e, k)'
  BY <1>2, <1>3 DEF Asked
<1>5. settled' => Settled'
  <2> SUFFICES ASSUME settled' PROVE Settled'
    OBVIOUS
  <2>1. phase' = "verify" /\ Quiet /\ hand = {}
    BY <1>1 DEF RunEnds, LoadTypes, Loading
  <2>2. Quiet'
    BY <1>1, <2>1 DEF Quiet, serverVars, driverVars
  <2>3. \A e \in Engines : pos'[e] # Len(acked') + 2
    BY <1>2, <1>3
  <2> QED
    BY <1>1, <1>2, <2>1, <2>2, <2>3 DEF Settled, Verifying
<1> QED
  BY <1>1, <1>2, <1>4, <1>5 DEF Verify, Verifying

\* Engines that have applied the whole stream hold the same.
LEMMA SameStores ==
  ASSUME Session, Quiet, NEW d \in Engines, NEW e \in Engines
  PROVE  store[d] = store[e]
BY DEF Session, Stores, Quiet

\* A question about a key; where one engine misses it, the others are not asked about it
\* any more, which the one report covers.
LEMMA AsksKeyKeepsVerify ==
  ASSUME Session, LoadTypes, Harness, Verify, NEW e \in Engines, AsksKey(e)
  PROVE  Verify'
<1>1. PICK i : i = acked[pos[e]]
  OBVIOUS
<1>2. PICK found \in BOOLEAN : found = Holds(e, i)
  BY DEF Holds
<1>3. /\ phase = "verify" /\ Turn(e) /\ pos[e] <= Len(acked)
      /\ missing' = [missing EXCEPT ![e] = IF found THEN @ ELSE @ \cup {i}]
      /\ pos' = IF mode = "full" /\ ~found THEN [d \in Engines |-> pos[e] + 1]
                ELSE [pos EXCEPT ![e] = @ + 1]
      /\ UNCHANGED <<sessionVars, loadVars, mode, size, settled>>
  BY <1>1, <1>2 DEF AsksKey, Stops
<1>4. /\ Len(acked) \in Nat /\ \A d \in Engines : pos[d] \in 1 .. Len(acked) + 2
      /\ DOMAIN pos = Engines /\ DOMAIN missing = Engines
  BY DEF LoadTypes
<1>5. /\ pos'[e] = pos[e] + 1
      /\ \A d \in Engines : missing[d] \subseteq missing'[d]
      /\ ~found => i \in missing'[e]
      /\ found => missing' = missing
  <2>1. pos'[e] = pos[e] + 1
    BY <1>3, <1>4
  <2>2. CASE found
    <3>1. missing' = [missing EXCEPT ![e] = @]
      BY <1>3, <2>2
    <3>2. missing' = missing
      BY <3>1 DEF LoadTypes
    <3> QED
      BY <2>1, <2>2, <3>2
  <2>3. CASE ~found
    <3>1. missing' = [missing EXCEPT ![e] = @ \cup {i}]
      BY <1>3, <2>3
    <3>2. missing'[e] = missing[e] \cup {i} /\ \A d \in Engines \ {e} : missing'[d] = missing[d]
      BY <1>4, <3>1
    <3> QED
      BY <2>1, <2>3, <3>2
  <2> QED
    BY <2>2, <2>3
<1>6. \A d \in Engines : \A k \in 1 .. Len(acked) : Holds(d, acked[k])' = Holds(d, acked[k])
  BY <1>3 DEF Holds, sessionVars, driverVars, loadVars
<1>7. ASSUME NEW d \in Engines, NEW k \in 1 .. Len(acked) PROVE Asked(d, k)'
  <2>1. Asked(d, k)
    BY DEF Verify
  <2>2. acked' = acked /\ mode' = mode
    BY <1>3 DEF loadVars
  <2>3. CASE k < pos[d]
    <3>1. Holds(d, acked[k]) \/ \E x \in Engines : acked[k] \in missing[x] /\ (mode = "local" => x = d)
      BY <2>1, <2>3 DEF Asked
    <3>2. Holds(d, acked[k])' \/ \E x \in Engines : acked[k] \in missing'[x] /\ (mode = "local" => x = d)
      BY <1>5, <1>6, <3>1
    <3> QED
      BY <2>2, <3>2 DEF Asked
  <2>4. CASE ~(k < pos[d])
    <3> SUFFICES ASSUME k < pos'[d] PROVE Asked(d, k)'
      BY DEF Asked
    <3>1. d = e \/ (mode = "full" /\ ~found)
      BY <1>3, <1>4, <2>4
    <3>2. pos[e] <= pos[d]
      <4>1. CASE d = e
        BY <1>4, <4>1
      <4>2. CASE mode = "full"
        <5>1. pos[d] > pos[e] \/ pos[d] = pos[e]
          BY <1>3, <4>2 DEF Turn
        <5> QED
          BY <1>4, <5>1
      <4> QED
        BY <3>1, <4>1, <4>2
    <3>3. pos'[d] = pos[e] + 1
      BY <1>3, <1>4, <3>1
    <3>4. k = pos[e]
      BY <1>4, <2>4, <3>2, <3>3
    <3>5. acked[k] = i
      BY <1>1, <3>4
    <3>6. CASE found
      <4>1. d = e /\ Holds(d, acked[k])
        BY <1>2, <3>1, <3>5, <3>6
      <4> QED
        BY <1>6, <2>2, <4>1 DEF Asked
    <3>7. CASE ~found
      <4>1. acked[k] \in missing'[e] /\ (mode = "local" => e = d)
        BY <1>5, <3>1, <3>5, <3>7
      <4> QED
        BY <2>2, <4>1 DEF Asked
    <3> QED
      BY <3>6, <3>7
  <2> QED
    BY <2>3, <2>4
<1>8. settled => Settled'
  <2> SUFFICES ASSUME settled PROVE Settled'
    OBVIOUS
  <2>1. Settled
    BY DEF Verify
  <2>2. found
    <3>1. Holds(Local, i)
      <4>1. pos[e] \in 1 .. Len(acked)
        BY <1>3, <1>4
      <4> QED
        BY <1>1, <2>1, <4>1 DEF Harness, Settled, AckedIsApplied
    <3>2. store[e] = store[Local]
      BY <2>1, SameStores, SessionAssumption DEF Settled
    <3> QED
      BY <1>2, <3>1, <3>2 DEF Holds
  <2>3. pos' = [pos EXCEPT ![e] = @ + 1] /\ missing' = missing
    BY <1>3, <1>5, <2>2
  <2>4. pos'[e] # Len(acked) + 2 /\ \A d \in Engines \ {e} : pos'[d] = pos[d]
    BY <1>3, <1>4, <2>3
  <2>5. Quiet'
    BY <1>3, <2>1 DEF Settled, Quiet, sessionVars, serverVars, driverVars
  <2>6. UNCHANGED <<hand, store, acked, size, phase>>
    BY <1>3 DEF sessionVars, clientVars, driverVars, loadVars
  <2> QED
    BY <2>1, <2>3, <2>4, <2>5, <2>6 DEF Settled, Verifying
<1> QED
  BY <1>3, <1>7, <1>8 DEF Verify, Verifying, loadVars

\* DBSIZE; the last engine to answer ends verify.
LEMMA AsksSizeKeepsVerify ==
  ASSUME LoadTypes, Verify, NEW e \in Engines, AsksSize(e)
  PROVE  Verify'
<1>1. /\ phase = "verify" /\ pos[e] = Len(acked) + 1
      /\ size' = [size EXCEPT ![e] = Cardinality(DOMAIN store[e])]
      /\ pos' = [pos EXCEPT ![e] = @ + 1]
      /\ phase' = IF \A d \in Engines \ {e} : pos[d] = Len(acked) + 2 THEN "done" ELSE phase
      /\ UNCHANGED <<sessionVars, acked, mode, missing, settled>>
  BY DEF AsksSize
<1>2. Len(acked) \in Nat /\ DOMAIN pos = Engines
  BY DEF LoadTypes
<1>3. pos'[e] = Len(acked) + 2 /\ \A d \in Engines \ {e} : pos'[d] = pos[d]
  BY <1>1, <1>2
<1>4. ASSUME NEW d \in Engines, NEW k \in 1 .. Len(acked) PROVE Asked(d, k)'
  <2>1. Asked(d, k) /\ k < pos[e]
    BY <1>1, <1>2 DEF Verify
  <2>2. UNCHANGED <<acked, mode, missing, store>>
    BY <1>1 DEF sessionVars, driverVars
  <2> QED
    BY <1>3, <2>1, <2>2 DEF Asked, Holds
<1>5. phase' \in {"verify", "done"} /\ (phase' = "done" => \A d \in Engines : pos'[d] = Len(acked) + 2)
  BY <1>1, <1>3
<1>6. /\ DOMAIN size' = Engines /\ size'[e] = Cardinality(DOMAIN store[e])
      /\ \A d \in Engines \ {e} : size'[d] = size[d]
  BY <1>1 DEF Verify
<1>7. settled => Settled'
  <2> SUFFICES ASSUME settled PROVE Settled'
    OBVIOUS
  <2>1. Settled
    BY DEF Verify
  <2>2. Quiet'
    BY <1>1, <2>1 DEF Settled, Quiet, sessionVars, serverVars, driverVars
  <2>3. UNCHANGED <<hand, store, acked, missing>>
    BY <1>1 DEF sessionVars, clientVars, driverVars
  <2> QED
    BY <1>3, <1>5, <1>6, <2>1, <2>2, <2>3 DEF Settled, Verifying
<1> QED
  BY <1>1, <1>4, <1>5, <1>6, <1>7 DEF Verify, Verifying

LEMMA NextKeepsVerify ==
  ASSUME Session, LoadTypes, Harness, Verify, LoadTypes', Harness', [Next]_vars
  PROVE  Verify'
<1>1. CASE UNCHANGED vars
  <2>1. UNCHANGED <<phase, acked, verifyVars, hand, store, at, stream, queue, server, up, buf>>
    BY <1>1 DEF vars, loadVars, sessionVars, clientVars, serverVars, driverVars
  <2>2. Settled => Settled'
    BY <2>1 DEF Settled, Quiet, Verifying, verifyVars
  <2> QED
    BY <2>1, <2>2 DEF Verify, Verifying, Asked, Holds, verifyVars
<1>2. CASE SessionNext /\ UNCHANGED <<loadVars, verifyVars>>
  <2>1. hand' = hand
    BY <1>2 DEF SessionNext, HandConnects, HandWrites, HandReads, HandHangsUp, ReadChunk, ReadEnds,
      NextCommand, NeedsMore, Desyncs, SkipsNoOp, AnswersAtOnce, AsksDriver, HearsDriver,
      HandleWriteRequest, DriverEnds, Deliver, clientVars
  <2> QED
    BY <1>2, <2>1, SessionStepKeepsVerify
<1>3. CASE Connects \/ Sets \/ Reads \/ Abandons
  <2>1. Loading
    BY <1>3 DEF Connects, Sets, Reads, Abandons, Harness, LoadTypes, Dialogue
  <2>2. phase' = phase /\ UNCHANGED verifyVars
    BY <1>3 DEF Connects, Sets, Reads, Abandons
  <2> QED
    BY <2>1, <2>2, LoadingKeepsVerify DEF Loading, Verifying
<1>4. ASSUME NEW e \in Engines, AsksKey(e) \/ AsksSize(e) PROVE Verify'
  BY <1>4, AsksKeyKeepsVerify, AsksSizeKeepsVerify
<1> QED
  BY <1>1, <1>2, <1>3, <1>4, RunEndsKeepsVerify DEF Next

\* What verify and each verify_one report is so, although engines are asked one after the
\* other and go on applying; where nothing was on its way when verify began, it passes.
THEOREM VerdictsAreRight == Spec => []VerdictIsRight
<1>1. Session /\ LoadTypes /\ Verify => VerdictIsRight
  <2> SUFFICES ASSUME Session, LoadTypes, Verify, phase = "done" 
               PROVE  /\ (\A e \in Engines : missing[e] = {}) =>
                           \A e \in Engines : \A i \in ToSet(acked) : Holds(e, i)
                      /\ mode = "local" =>
                           \A e \in Engines : missing[e] = {} => \A i \in ToSet(acked) : Holds(e, i)
                      /\ settled => Passed
    BY DEF VerdictIsRight
  <2>1. ASSUME NEW e \in Engines, NEW i \in ToSet(acked)
        PROVE  Holds(e, i) \/ \E d \in Engines : i \in missing[d] /\ (mode = "local" => d = e)
    <3>1. PICK k \in 1 .. Len(acked) : acked[k] = i
      BY DEF ToSet, LoadTypes
    <3>2. k < pos[e]
      <4>1. pos[e] = Len(acked) + 2 /\ Len(acked) \in Nat
        BY DEF Verify, LoadTypes
      <4> QED
        BY <4>1
    <3> QED
      BY <3>1, <3>2 DEF Verify, Asked
  <2>2. settled => Passed
    <3> SUFFICES ASSUME settled PROVE Passed
      OBVIOUS
    <3>1. Settled
      BY DEF Verify
    <3>2. \A e \in Engines : size[e] = Cardinality(DOMAIN store[e])
      BY <3>1 DEF Verify, Settled
    <3>3. \A d, e \in Engines : store[d] = store[e]
      BY <3>1, SameStores DEF Settled
    <3>4. \A d, e \in Engines : size[d] = size[e]
      BY <3>2, <3>3
    <3> QED
      BY <3>1, <3>4 DEF Passed, Settled
  <2> QED
    BY <2>1, <2>2
<1>2. Init => Session /\ LoadTypes /\ Harness /\ Verify
  BY InitTyped, HarnessInitially, VerifyInitially
<1>3. Session /\ LoadTypes /\ Harness /\ Verify /\ [Next]_vars => (Session /\ LoadTypes /\ Harness /\ Verify)'
  BY NextTyped, NextKeepsHarness, NextKeepsVerify
<1> QED
  BY <1>1, <1>2, <1>3, PTL DEF Spec
=============================================================================
