-------------------------- MODULE ReplicationProofs --------------------------
(***************************************************************************)
(* Theorems of Replication, for any number of nodes, writes, crashes and    *)
(* re-broadcasts and any retention Cap.  In this order: what the operators  *)
(* compute on a prefix of the committed sequence; ReplicaInv is inductive,  *)
(* one lemma per action; so is ClientInv, given ReplicaInv; the safety      *)
(* properties that follow; the refinement of ReplicatedStore.               *)
(***************************************************************************)
EXTENDS ReplicationInv, DedupStreamProofs

-----------------------------------------------------------------------------
(* What the operators compute on a prefix of the committed sequence c. *)

\* Covers says of every (origin, id) that is_dup knows it exactly when it is
\* among the first h writes of c.
LEMMA CoversMeansDup ==
  ASSUME NEW d \in [Node -> OriginDedup], NEW c \in Seq(Op),
         NEW h \in Nat, h <= Len(c)
  PROVE  Covers(d, h, c) <=>
           \A o \in Node, i \in Nat :
             IsDup(d[o], i) <=> \E k \in 1 .. h : Key(c[k]) = <<o, i>>
<1>1. ASSUME NEW o \in Node, NEW i \in Nat
      PROVE  /\ i \in AppliedIds(d[o]) <=> IsDup(d[o], i)
             /\ (\E k \in 1 .. h : Key(c[k]) = <<o, i>>)
                  <=> i \in {c[k].rid : k \in {j \in 1 .. h : c[j].origin = o}}
  <2>1. i \in AppliedIds(d[o]) <=> IsDup(d[o], i)
    BY AppliedIdsAreDups
  <2>2. \A k \in 1 .. h : Key(c[k]) = <<o, i>> <=> c[k].origin = o /\ c[k].rid = i
    BY DEF Key
  <2> QED
    BY <2>1, <2>2
<1>2. \A o \in Node :
        /\ AppliedIds(d[o]) \in SUBSET Nat
        /\ {c[k].rid : k \in {j \in 1 .. h : c[j].origin = o}} \in SUBSET Nat
  <2>1. \A k \in 1 .. h : c[k] \in Op
    OBVIOUS
  <2> QED
    BY <2>1, AppliedIdsAreDups DEF Op
<1> QED
  BY <1>1, <1>2 DEF Covers

\* Applying the next write of c: the dedup lets it through, and then covers it.
LEMMA NextWriteIsFresh ==
  ASSUME NEW d \in [Node -> OriginDedup], WellFormed(d), NEW c \in Seq(Op),
         NEW h \in Nat, h < Len(c), Covers(d, h, c),
         \A j, k \in 1 .. Len(c) : Key(c[j]) = Key(c[k]) => j = k,
         NEW op \in Op, op = c[h + 1]
  PROVE  /\ FirstSeen(d, op.origin, op.rid)
         /\ AfterSeen(d, op.origin, op.rid) \in [Node -> OriginDedup]
         /\ WellFormed(AfterSeen(d, op.origin, op.rid))
         /\ Covers(AfterSeen(d, op.origin, op.rid), h + 1, c)
<1> DEFINE o == op.origin
           i == op.rid
           e == AfterSeen(d, o, i)
<1>1. o \in Node /\ i \in Nat /\ Key(op) = <<o, i>>
  BY DEF Op, Key
<1>2. \A p \in Node, j \in Nat :
        IsDup(d[p], j) <=> \E k \in 1 .. h : Key(c[k]) = <<p, j>>
  BY CoversMeansDup
<1>3. ~\E k \in 1 .. h : Key(c[k]) = <<o, i>>
  BY <1>1, SMTT(20)
<1>4. FirstSeen(d, o, i)
  BY <1>1, <1>2, <1>3 DEF FirstSeen
<1>5. /\ e \in [Node -> OriginDedup]
      /\ \A p \in Node : IsFiniteSet(e[p].recent) /\ Normal(e[p])
      /\ \A p \in Node, j \in Nat : IsDup(e[p], j) <=> IsDup(d[p], j) \/ (p = o /\ j = i)
  BY <1>1, AfterSeenAddsId DEF WellFormed
<1>6. \A p \in Node, j \in Nat :
        IsDup(e[p], j) <=> \E k \in 1 .. h + 1 : Key(c[k]) = <<p, j>>
  <2> SUFFICES ASSUME NEW p \in Node, NEW j \in Nat
               PROVE  IsDup(e[p], j) <=> \E k \in 1 .. h + 1 : Key(c[k]) = <<p, j>>
    OBVIOUS
  <2>1. (\E k \in 1 .. h + 1 : Key(c[k]) = <<p, j>>)
          <=> (\E k \in 1 .. h : Key(c[k]) = <<p, j>>) \/ Key(c[h + 1]) = <<p, j>>
    OBVIOUS
  <2>2. Key(c[h + 1]) = <<p, j>> <=> p = o /\ j = i
    BY <1>1
  <2> HIDE DEF e, o, i
  <2> QED
    BY <1>2, <1>5, <2>1, <2>2
<1>7. Covers(e, h + 1, c)
  <2> HIDE DEF e
  <2> QED
    BY <1>5, <1>6, CoversMeansDup
<1> QED
  BY <1>4, <1>5, <1>7 DEF WellFormed

\* A write whose key is among the first h of c is a duplicate.
LEMMA OldWriteIsDup ==
  ASSUME NEW d \in [Node -> OriginDedup], NEW c \in Seq(Op),
         NEW h \in Nat, h <= Len(c), Covers(d, h, c),
         NEW op \in Op, \E j \in 1 .. h : Key(c[j]) = Key(op)
  PROVE  /\ ~FirstSeen(d, op.origin, op.rid)
         /\ AfterSeen(d, op.origin, op.rid) = d
<1>1. op.origin \in Node /\ op.rid \in Nat /\ Key(op) = <<op.origin, op.rid>>
  BY DEF Op, Key
<1>2. \A o \in Node, i \in Nat :
        IsDup(d[o], i) <=> \E k \in 1 .. h : Key(c[k]) = <<o, i>>
  BY CoversMeansDup
<1>3. IsDup(d[op.origin], op.rid)
  BY <1>1, <1>2
<1> QED
  BY <1>3 DEF FirstSeen, AfterSeen

\* append keeps a log the last writes before its head.
LEMMA LogAppendHolds ==
  ASSUME NEW c \in Seq(Op), NEW l \in LogType, LogHolds(l, c),
         l.head < Len(c), NEW op \in Op, op = c[l.head + 1]
  PROVE  /\ LogAppend(l, op) \in LogType
         /\ LogAppend(l, op).head = l.head + 1
         /\ LogHolds(LogAppend(l, op), c)
<1> DEFINE ent == l.entries
           h == l.head
           e == [index |-> h, op |-> op]
           pushed == Append(ent, e)
           new == LogAppend(l, op)
           L == Len(ent)
<1>1. ent \in Seq(Entry) /\ h \in Nat /\ e \in Entry /\ L \in Nat /\ Cap \in Nat \ {0}
  BY CapAssumption DEF LogType, Entry
<1>2. /\ L <= Cap /\ L <= h /\ h + 1 <= Len(c) /\ Len(c) \in Nat
      /\ \A i \in 1 .. L :
           ent[i].index = h - L + i - 1 /\ ent[i].op = c[h - L + i]
  BY <1>1 DEF LogHolds, TailFrom
<1>3. /\ pushed \in Seq(Entry)
      /\ Len(pushed) = L + 1
      /\ \A i \in 1 .. L : pushed[i] = ent[i]
      /\ pushed[L + 1] = e
  BY <1>1
<1>4. \A i \in 1 .. L + 1 :
        /\ pushed[i].index = h - L + i - 1
        /\ pushed[i].op = c[h - L + i]
  <2> SUFFICES ASSUME NEW i \in 1 .. L + 1
               PROVE  /\ pushed[i].index = h - L + i - 1
                      /\ pushed[i].op = c[h - L + i]
    OBVIOUS
  <2>1. CASE i \in 1 .. L
    BY <1>2, <1>3, <2>1
  <2>2. CASE i = L + 1
    <3>1. h - L + i = h + 1 /\ h - L + i - 1 = h
      BY <1>1, <2>2
    <3> QED
      BY <1>3, <2>2, <3>1
  <2> HIDE DEF L, pushed, h
  <2>3. i \in 1 .. L \/ i = L + 1
    BY <1>1
  <2> QED
    BY <2>1, <2>2, <2>3
<1>5. \A kept : kept = (IF Len(pushed) > Cap THEN Tail(pushed) ELSE pushed)
                => new = [entries |-> kept, head |-> h + 1]
  BY DEF LogAppend
<1> HIDE DEF pushed, ent, h, e, new, L
<1>6. ASSUME NEW kept \in Seq(Entry), new = [entries |-> kept, head |-> h + 1],
             Len(kept) <= Cap, Len(kept) <= h + 1,
             \A i \in 1 .. Len(kept) :
               /\ kept[i].index = (h + 1 - Len(kept)) + i - 1
               /\ kept[i].op = c[(h + 1 - Len(kept)) + i]
      PROVE  new \in LogType /\ new.head = h + 1 /\ LogHolds(new, c)
  <2>1. new.entries = kept /\ new.head = h + 1 /\ h + 1 \in Nat
    BY <1>1, <1>6
  <2>2. new \in LogType
    BY <1>6, <2>1 DEF LogType
  <2>3. Len(kept) \in Nat /\ (h + 1 - Len(kept)) + Len(kept) <= Len(c)
    BY <1>1, <1>2, <1>6
  <2>4. TailFrom(kept, h + 1 - Len(kept), c)
    BY <1>6, <2>3 DEF TailFrom
  <2>5. LogHolds([entries |-> kept, head |-> h + 1], c)
    BY <1>1, <1>2, <1>6, <2>3 DEF LogHolds, TailFrom
  <2> QED
    BY <1>6, <2>1, <2>2, <2>5
<1>7. CASE L + 1 > Cap
  <2> DEFINE kept == Tail(pushed)
  <2>1. /\ kept \in Seq(Entry)
        /\ Len(kept) = L
        /\ \A i \in 1 .. L : kept[i] = pushed[i + 1]
    BY <1>1, <1>3
  <2>2. new = [entries |-> kept, head |-> h + 1]
    BY <1>3, <1>5, <1>7
  <2> HIDE DEF kept
  <2>3. ASSUME NEW i \in 1 .. Len(kept)
        PROVE  /\ kept[i].index = (h + 1 - Len(kept)) + i - 1
               /\ kept[i].op = c[(h + 1 - Len(kept)) + i]
    <3>1. kept[i] = pushed[i + 1] /\ i + 1 \in 1 .. L + 1
      BY <1>1, <2>1
    <3>2. /\ h - L + (i + 1) = (h + 1 - Len(kept)) + i
          /\ h - L + (i + 1) - 1 = (h + 1 - Len(kept)) + i - 1
      BY <1>1, <2>1
    <3>3. /\ kept[i].index = h - L + (i + 1) - 1
          /\ kept[i].op = c[h - L + (i + 1)]
      BY <1>4, <3>1
    <3> QED
      BY <3>2, <3>3
  <2>4. Len(kept) <= Cap /\ Len(kept) <= h + 1
    BY <1>1, <1>2, <2>1
  <2> QED
    BY <1>6, <2>1, <2>2, <2>3, <2>4 DEF new, h
<1>8. CASE ~(L + 1 > Cap)
  <2>1. new = [entries |-> pushed, head |-> h + 1]
    BY <1>3, <1>5, <1>8
  <2>2. h + 1 - Len(pushed) = h - L
    BY <1>1, <1>3
  <2>3. Len(pushed) <= Cap /\ Len(pushed) <= h + 1
    BY <1>1, <1>2, <1>3, <1>8
  <2> QED
    BY <1>3, <1>4, <1>6, <2>1, <2>2, <2>3 DEF new, h
<1> QED
  BY <1>1, <1>7, <1>8

\* entries_from at an index the log can serve is the tail from that index.
LEMMA ServedTailHolds ==
  ASSUME NEW c \in Seq(Op), NEW l \in LogType, LogHolds(l, c),
         NEW x \in Nat, CanServeFrom(l, x)
  PROVE  /\ EntriesFrom(l, x) \in Seq(Entry)
         /\ TailFrom(EntriesFrom(l, x), x, c)
         /\ x = l.head => EntriesFrom(l, x) = <<>>
<1> DEFINE ent == l.entries
           h == l.head
           L == Len(ent)
           low == LowWaterIndex(l)
           t == EntriesFrom(l, x)
<1>1. ent \in Seq(Entry) /\ h \in Nat /\ L \in Nat /\ Len(c) \in Nat
  BY DEF LogType
<1>2. /\ L <= h /\ h <= Len(c)
      /\ \A i \in 1 .. L :
           ent[i].index = h - L + i - 1 /\ ent[i].op = c[h - L + i]
  BY <1>1 DEF LogHolds, TailFrom
<1>3. low = h - L
  <2>1. CASE ent = <<>>
    BY <1>1, <2>1 DEF LowWaterIndex
  <2>2. CASE ent # <<>>
    <3>1. 1 \in 1 .. L
      BY <1>1, <2>2
    <3> QED
      BY <1>1, <1>2, <2>2, <3>1 DEF LowWaterIndex
  <2> QED
    BY <2>1, <2>2
<1>4. h - L <= x /\ x <= h
  BY <1>3 DEF CanServeFrom
<1>5. CASE x = h - L
  <2>1. t = ent
    BY <1>3, <1>5 DEF EntriesFrom
  <2>2. x = h => ent = <<>>
    BY <1>1, <1>5
  <2>3. TailFrom(ent, x, c)
    BY <1>1, <1>2, <1>5 DEF TailFrom
  <2> QED
    BY <1>1, <2>1, <2>2, <2>3
<1>6. CASE x > h - L
  <2> DEFINE d == x - (h - L)
  <2>1. t = SubSeq(ent, d + 1, L)
    <3>1. ~(x <= low)
      <4> HIDE DEF low, h, L
      <4> QED
        BY <1>1, <1>3, <1>6
    <3>2. t = SubSeq(ent, x - low + 1, L)
      BY <3>1 DEF EntriesFrom
    <3> QED
      BY <1>3, <3>2
  <2>2. d \in 1 .. L /\ h - L + d = x
    BY <1>1, <1>4, <1>6
  <2> HIDE DEF d, ent, h, L, t
  <2>3. /\ t \in Seq(Entry)
        /\ Len(t) = L - d
        /\ \A i \in 1 .. Len(t) : t[i] = ent[d + i]
    BY <1>1, <2>1, <2>2 DEF L
  <2>4. x = h => t = <<>>
    BY <1>1, <2>2, <2>3
  <2>5. x + Len(t) <= Len(c)
    BY <1>1, <1>2, <2>2, <2>3
  <2>6. ASSUME NEW i \in 1 .. Len(t)
        PROVE  t[i].index = x + i - 1 /\ t[i].op = c[x + i]
    <3>1. t[i] = ent[d + i] /\ d + i \in 1 .. L
      BY <1>1, <2>2, <2>3
    <3>2. h - L + (d + i) = x + i /\ h - L + (d + i) - 1 = x + i - 1
      BY <1>1, <2>2
    <3> QED
      BY <1>2, <3>1, <3>2
  <2>7. TailFrom(t, x, c)
    BY <2>5, <2>6 DEF TailFrom
  <2> QED
    BY <2>3, <2>4, <2>7 DEF t, h
<1> QED
  BY <1>1, <1>4, <1>5, <1>6

\* What holds of a prefix of c still holds when c is extended.
LEMMA ExtendingKeeps ==
  ASSUME NEW c \in Seq(Op), NEW op \in Op, NEW c2, c2 = Append(c, op)
  PROVE  /\ c2 \in Seq(Op) /\ Len(c2) = Len(c) + 1 /\ c2[Len(c) + 1] = op
         /\ \A k \in 1 .. Len(c) : c2[k] = c[k]
         /\ \A s \in Seq(Op) : IsPrefixOf(s, c) => IsPrefixOf(s, c2)
         /\ \A d : \A h \in Nat : h <= Len(c) /\ Covers(d, h, c) => Covers(d, h, c2)
         /\ \A t \in Seq(Entry), h \in Nat : TailFrom(t, h, c) => TailFrom(t, h, c2)
         /\ \A l \in LogType : LogHolds(l, c) => LogHolds(l, c2)
<1>1. /\ c2 \in Seq(Op) /\ Len(c2) = Len(c) + 1 /\ c2[Len(c) + 1] = op
      /\ \A k \in 1 .. Len(c) : c2[k] = c[k]
      /\ Len(c) \in Nat
  OBVIOUS
<1>2. ASSUME NEW s \in Seq(Op), IsPrefixOf(s, c)
      PROVE  IsPrefixOf(s, c2)
  BY <1>1, <1>2 DEF IsPrefixOf
<1>3. ASSUME NEW d, NEW h \in Nat, h <= Len(c), Covers(d, h, c)
      PROVE  Covers(d, h, c2)
  <2>1. \A k \in 1 .. h : c2[k] = c[k]
    BY <1>1, <1>3
  <2>2. ASSUME NEW o \in Node
        PROVE  {c[k].rid : k \in {j \in 1 .. h : c[j].origin = o}}
                 = {c2[k].rid : k \in {j \in 1 .. h : c2[j].origin = o}}
    BY <2>1
  <2> QED
    BY <1>3, <2>2, Zenon DEF Covers
<1>4. ASSUME NEW t \in Seq(Entry), NEW h \in Nat, TailFrom(t, h, c)
      PROVE  TailFrom(t, h, c2)
  <2>1. Len(t) \in Nat /\ h + Len(t) <= Len(c)
    BY <1>4 DEF TailFrom
  <2>2. \A i \in 1 .. Len(t) : h + i \in 1 .. Len(c)
    BY <1>1, <2>1
  <2> QED
    BY <1>1, <1>4, <2>1, <2>2 DEF TailFrom
<1>5. ASSUME NEW l \in LogType, LogHolds(l, c)
      PROVE  LogHolds(l, c2)
  <2>1. /\ l.entries \in Seq(Entry) /\ l.head \in Nat /\ Len(l.entries) \in Nat
        /\ Len(l.entries) <= l.head /\ l.head <= Len(c)
    BY <1>5 DEF LogHolds, LogType
  <2>2. l.head - Len(l.entries) \in Nat
    BY <2>1
  <2>3. TailFrom(l.entries, l.head - Len(l.entries), c2)
    BY <1>4, <1>5, <2>1, <2>2 DEF LogHolds
  <2> QED
    BY <1>1, <1>5, <2>1, <2>3 DEF LogHolds
<1> QED
  BY <1>1, <1>2, <1>3, <1>4, <1>5

-----------------------------------------------------------------------------
(* What a step that leaves a part alone preserves. *)

\* The ring's history is untouched by a step that orders nothing.
LEMMA RingFrame ==
  ASSUME RingInv, UNCHANGED <<order, committed, upto>>
  PROVE  RingInv'
  BY DEF RingInv, Upto, Key

\* Nothing new is broadcast and no outcome is forgotten.
LEMMA WriteFrame ==
  ASSUME WriteInv, UNCHANGED <<order, committed>>, queued' \subseteq queued,
         \A a \in queued \cup Ordered : outcome'[a.w] = outcome[a.w] \/ outcome'[a.w] # "none"
  PROVE  WriteInv'
  BY DEF WriteInv, Ordered

\* A node none of whose pieces change.
LEMMA NodeFrame ==
  ASSUME NEW n \in Node, NodeInv(n), UNCHANGED <<order, committed, upto>>,
         mode'[n] = mode[n], pos'[n] = pos[n], store'[n] = store[n],
         dedup'[n] = dedup[n], log'[n] = log[n], stage'[n] = stage[n],
         xfer'[n] = xfer[n]
  PROVE  NodeInv(n)'
<1>1. TransferInv(n) => TransferInv(n)'
  <2>1. ASSUME SnapshotHolds(xfer[n].snap) PROVE SnapshotHolds(xfer[n].snap)'
    <3>1. IsPrefixOf(xfer[n].snap.store, committed)'
      BY <2>1 DEF SnapshotHolds, IsPrefixOf
    <3>2. WellFormed(xfer[n].snap.dedup)'
      BY <2>1 DEF SnapshotHolds, WellFormed, Normal
    <3>3. Covers(xfer[n].snap.dedup, xfer[n].snap.head, committed)'
      BY <2>1 DEF SnapshotHolds, Covers
    <3>4. (/\ Len(xfer[n].snap.store) = xfer[n].snap.head
           /\ xfer[n].snap.pos <= Len(order)
           /\ xfer[n].snap.head = Upto(xfer[n].snap.pos))'
      BY <2>1 DEF SnapshotHolds, Upto
    <3> QED
      BY <3>1, <3>2, <3>3, <3>4 DEF SnapshotHolds
  <2>2. TailFrom(xfer[n].tail, log[n].head, committed)
          => TailFrom(xfer[n].tail, log[n].head, committed)'
    BY DEF TailFrom
  <2> QED
    BY <2>1, <2>2, Zenon DEF TransferInv
<1>2. IsPrefixOf(store[n], committed)' /\ WellFormed(dedup[n])'
  BY DEF NodeInv, IsPrefixOf, WellFormed, Normal
<1>3. Covers(dedup[n], log[n].head, committed)'
  BY DEF NodeInv, Covers
<1>4. LogHolds(log[n], committed)'
  BY DEF NodeInv, LogHolds, TailFrom
<1>5. (Active(n) \/ log[n].head > 0 => Len(store[n]) = log[n].head)'
  BY DEF NodeInv, Active
<1>6. (Active(n) => pos[n] <= Len(order) /\ log[n].head = Upto(pos[n]))'
  BY DEF NodeInv, Active, Upto
<1>7. (mode[n] = "passive" => TransferInv(n))'
  BY <1>1 DEF NodeInv
<1> QED
  BY <1>2, <1>3, <1>4, <1>5, <1>6, <1>7 DEF NodeInv

\* The empty dedup state stands for the empty prefix.
LEMMA NothingCovered ==
  ASSUME NEW c \in Seq(Op)
  PROVE  /\ NewDedup(Node) \in [Node -> OriginDedup]
         /\ WellFormed(NewDedup(Node))
         /\ Covers(NewDedup(Node), 0, c)
         /\ NewLog \in LogType
         /\ NewLog.head = 0
         /\ LogHolds(NewLog, c)
         /\ NoTransfer \in Transfer
<1>1. \A o \in Node : NewDedup(Node)[o].watermark = 0 /\ NewDedup(Node)[o].recent = {}
  BY DEF NewDedup, NewOrigin
<1>2. NewDedup(Node) \in [Node -> OriginDedup]
  BY DEF NewDedup, NewOrigin, OriginDedup
<1>3. WellFormed(NewDedup(Node))
  BY <1>1, FS_EmptySet DEF WellFormed, Normal
<1>4. Covers(NewDedup(Node), 0, c)
  <2>1. \A o \in Node : AppliedIds(NewDedup(Node)[o]) = {}
    BY <1>1 DEF AppliedIds
  <2>2. 1 .. 0 = {}
    OBVIOUS
  <2> QED
    BY <2>1, <2>2 DEF Covers
<1>5. NewLog = [entries |-> <<>>, head |-> 0]
  BY DEF NewLog, ResumedAt
<1>6. NewLog \in LogType /\ NewLog.head = 0 /\ LogHolds(NewLog, c)
  <2>1. NewLog.entries = <<>> /\ NewLog.head = 0 /\ Len(<<>>) = 0 /\ Len(c) \in Nat
    BY <1>5
  <2>2. <<>> \in Seq(Entry)
    OBVIOUS
  <2>3. NewLog \in LogType
    BY <1>5, <2>2 DEF LogType
  <2> QED
    BY <2>1, <2>3, CapAssumption DEF LogHolds, TailFrom
<1>7. NoTransfer \in Transfer
  BY <1>2 DEF NoTransfer, NoSnapshot, Transfer, Snapshot
<1> QED
  BY <1>2, <1>3, <1>4, <1>6, <1>7

-----------------------------------------------------------------------------
\* Every node cold-starts empty.
THEOREM InitReplicaInv == Init => ReplicaInv
<1> SUFFICES ASSUME Init PROVE ReplicaInv
  OBVIOUS
<1>1. committed = <<>> /\ committed \in Seq(Op) /\ order = <<>> /\ order \in Seq(Op)
  BY DEF Init
<1>2. TypeOK
  <2>1. /\ NewDedup(Node) \in [Node -> OriginDedup]
        /\ NewLog \in LogType
        /\ NoTransfer \in Transfer
    BY <1>1, NothingCovered
  <2>2. <<>> \in Seq(Op) /\ <<>> \in Seq(Nat)
    OBVIOUS
  <2> QED
    BY <2>1, <2>2 DEF Init, TypeOK
<1>3. RingInv
  BY DEF Init, RingInv, Upto
<1>4. WriteInv
  BY DEF Init, WriteInv, Ordered
<1>5. ASSUME NEW n \in Node PROVE NodeInv(n)
  <2>1. /\ store[n] = <<>> /\ dedup[n] = NewDedup(Node) /\ log[n] = NewLog
        /\ mode[n] = "member" /\ pos[n] = 0
    BY DEF Init
  <2>2. IsPrefixOf(store[n], committed) /\ Len(store[n]) = 0
    BY <1>1, <2>1 DEF IsPrefixOf
  <2>3. /\ WellFormed(NewDedup(Node))
        /\ Covers(NewDedup(Node), 0, committed)
        /\ NewLog.head = 0
        /\ LogHolds(NewLog, committed)
    BY <1>1, NothingCovered
  <2>4. Upto(0) = 0 /\ Len(order) = 0
    BY <1>1 DEF Upto
  <2> QED
    BY <2>1, <2>2, <2>3, <2>4 DEF NodeInv
<1> QED
  BY <1>2, <1>3, <1>4, <1>5 DEF ReplicaInv

-----------------------------------------------------------------------------
(* The two computations the actions share. *)

\* A transfer a member builds: a snapshot of one instant of it, or the tail from
\* the delivered index the peer reported.
LEMMA TransferBuilt ==
  ASSUME ReplicaInv, NEW s \in Node, Serves(s), NEW have \in Nat, NEW final \in BOOLEAN,
         NEW t, t = BuildStateTransfer(s, have, final)
  PROVE  /\ t \in Transfer
         /\ t.final = final
         /\ t.full => SnapshotHolds(t.snap) /\ t.tail = <<>>
         /\ ~t.full => have > 0 /\ TailFrom(t.tail, have, committed)
         /\ have = 0 => t.full
<1>1. /\ committed \in Seq(Op) /\ log[s] \in LogType /\ LogHolds(log[s], committed)
      /\ store[s] \in Seq(Op) /\ dedup[s] \in [Node -> OriginDedup] /\ pos[s] \in Nat
      /\ Active(s) /\ NodeInv(s)
  BY DEF ReplicaInv, TypeOK, NodeInv, Serves, Active
<1>2. log[s].head \in Nat /\ log[s].entries \in Seq(Entry)
  BY <1>1 DEF LogType
<1>3. CASE have > 0 /\ CanServeFrom(log[s], have)
  <2>1. t = [full |-> FALSE, final |-> final, snap |-> NoSnapshot,
             tail |-> EntriesFrom(log[s], have)]
    BY <1>3 DEF BuildStateTransfer, TailTransfer
  <2>2. /\ EntriesFrom(log[s], have) \in Seq(Entry)
        /\ TailFrom(EntriesFrom(log[s], have), have, committed)
    BY <1>1, <1>3, ServedTailHolds
  <2>3. NoSnapshot \in Snapshot
    BY <1>1, NothingCovered DEF NoSnapshot, Snapshot
  <2> QED
    BY <1>3, <2>1, <2>2, <2>3 DEF Transfer
<1>4. CASE ~(have > 0 /\ CanServeFrom(log[s], have))
  <2> DEFINE snap == ExportSnapshot(s)
             none == EntriesFrom(log[s], log[s].head)
  <2>1. t = [full |-> TRUE, final |-> final, snap |-> snap, tail |-> none]
    BY <1>4 DEF BuildStateTransfer, FullTransfer
  <2>2. snap = [store |-> store[s], dedup |-> dedup[s], head |-> log[s].head, pos |-> pos[s]]
    BY DEF ExportSnapshot
  <2>3. snap \in Snapshot
    BY <1>1, <1>2, <2>2 DEF Snapshot
  <2>4. SnapshotHolds(snap)
    BY <1>1, <2>2 DEF SnapshotHolds, NodeInv
  <2>5. none = <<>>
    <3>1. CanServeFrom(log[s], log[s].head)
      <4>1. CASE log[s].entries = <<>>
        BY <1>2, <4>1 DEF CanServeFrom, LowWaterIndex
      <4>2. CASE log[s].entries # <<>>
        <5>1. 1 \in 1 .. Len(log[s].entries) /\ Len(log[s].entries) \in Nat
          BY <1>2, <4>2
        <5>2. log[s].entries[1].index = log[s].head - Len(log[s].entries) + 1 - 1
          BY <1>1, <5>1 DEF LogHolds, TailFrom
        <5> QED
          BY <1>2, <4>2, <5>1, <5>2 DEF CanServeFrom, LowWaterIndex
      <4> QED
        BY <4>1, <4>2
    <3> QED
      BY <1>1, <1>2, <3>1, ServedTailHolds
  <2> HIDE DEF snap, none
  <2> QED
    BY <2>1, <2>3, <2>4, <2>5 DEF Transfer
<1> QED
  BY <1>3, <1>4

\* A replica that stands at its head applies the next committed write, and then
\* stands one further.
LEMMA NextWriteApplied ==
  ASSUME TypeOK, RingInv, NEW n \in Node, NodeInv(n),
         Len(store[n]) = log[n].head, log[n].head < Len(committed),
         NEW op \in Op, op = committed[log[n].head + 1]
  PROVE  LET d == AfterSeen(dedup[n], op.origin, op.rid)
             l == LogAppend(log[n], op)
             st == Append(store[n], op)
         IN  /\ Applies(n, op)
             /\ d \in [Node -> OriginDedup] /\ WellFormed(d)
             /\ Covers(d, log[n].head + 1, committed)
             /\ l \in LogType /\ l.head = log[n].head + 1 /\ LogHolds(l, committed)
             /\ st \in Seq(Op) /\ Len(st) = log[n].head + 1 /\ IsPrefixOf(st, committed)
<1>1. /\ committed \in Seq(Op) /\ log[n] \in LogType /\ store[n] \in Seq(Op)
      /\ dedup[n] \in [Node -> OriginDedup]
  BY DEF TypeOK
<1>2. log[n].head \in Nat
  BY <1>1 DEF LogType
<1>3. /\ IsPrefixOf(store[n], committed) /\ WellFormed(dedup[n])
      /\ Covers(dedup[n], log[n].head, committed) /\ LogHolds(log[n], committed)
  BY DEF NodeInv
<1>4. \A j, k \in 1 .. Len(committed) : Key(committed[j]) = Key(committed[k]) => j = k
  BY DEF RingInv
<1>5. /\ Applies(n, op)
      /\ AfterSeen(dedup[n], op.origin, op.rid) \in [Node -> OriginDedup]
      /\ WellFormed(AfterSeen(dedup[n], op.origin, op.rid))
      /\ Covers(AfterSeen(dedup[n], op.origin, op.rid), log[n].head + 1, committed)
  BY <1>1, <1>2, <1>3, <1>4, NextWriteIsFresh DEF Applies
<1>6. /\ LogAppend(log[n], op) \in LogType
      /\ LogAppend(log[n], op).head = log[n].head + 1
      /\ LogHolds(LogAppend(log[n], op), committed)
  BY <1>1, <1>3, LogAppendHolds
<1>7. /\ Append(store[n], op) \in Seq(Op)
      /\ Len(Append(store[n], op)) = log[n].head + 1
      /\ IsPrefixOf(Append(store[n], op), committed)
  BY <1>1, <1>2, <1>3 DEF IsPrefixOf
<1> QED
  BY <1>5, <1>6, <1>7

\* Everything the ring carries or carried is an op.
LEMMA PayloadsTyped ==
  ASSUME TypeOK
  PROVE  queued \cup Ordered \subseteq Op /\ \A a \in queued \cup Ordered : a.w \in Write
<1>1. \A k \in 1 .. Len(order) : order[k] \in Op
  BY DEF TypeOK
<1>2. queued \cup Ordered \subseteq Op
  BY <1>1 DEF Ordered, TypeOK
<1> QED
  BY <1>2 DEF Op

-----------------------------------------------------------------------------
(* One lemma per action: it preserves the invariant. *)

\* A broadcast carries a write nobody carried before.
LEMMA HandleWriteKeeps ==
  ASSUME ReplicaInv, NEW n \in Node, NEW w \in Write, HandleWrite(n, w)
  PROVE  ReplicaInv'
<1> DEFINE new == [origin |-> n, rid |-> next_rid[n], w |-> w]
<1>1. Broadcast(n, w, next_rid[n], next_rid[n]) /\ TypeOK /\ new \in Op /\ new.w = w
  BY DEF HandleWrite, ReplicaInv, TypeOK, Op
<1> HIDE DEF new
<1>2. TypeOK'
  <2>1. queued' \subseteq Op
    BY <1>1 DEF Broadcast, TypeOK, new
  <2>2. /\ next_rid' \in [Node -> Nat]
        /\ pending' \in [Node -> SUBSET [rid : Nat, w : Write]]
        /\ outcome' \in [Write -> {"none", "waiting", "acked", "rejected", "dropped"}]
    BY <1>1 DEF Broadcast, TypeOK
  <2> QED
    BY <1>1, <2>1, <2>2 DEF Broadcast, TypeOK, replica, round
<1>3. RingInv'
  BY <1>1, RingFrame DEF ReplicaInv, Broadcast
<1>4. WriteInv'
  <2>1. /\ queued' = queued \cup {new} /\ Ordered' = Ordered
        /\ UNCHANGED <<order, committed>>
    BY <1>1 DEF Broadcast, Ordered, new
  <2>2. \A a \in queued \cup Ordered : a \in Op /\ outcome[a.w] # "none"
    BY <1>1 DEF ReplicaInv, WriteInv, TypeOK, Ordered
  <2>3. outcome[w] = "none" /\ outcome' = [outcome EXCEPT ![w] = "waiting"]
    BY <1>1 DEF Broadcast
  <2>4. \A a \in queued \cup Ordered : a.w # w /\ outcome'[a.w] # "none"
    BY <1>1, <2>2, <2>3 DEF TypeOK, Op
  <2>5. outcome'[w] # "none"
    BY <1>1, <2>3 DEF TypeOK
  <2> QED
    BY <1>1, <2>1, <2>4, <2>5 DEF ReplicaInv, WriteInv
<1>5. \A m \in Node : NodeInv(m)'
  BY <1>1, NodeFrame DEF ReplicaInv, Broadcast, replica, round
<1> QED
  BY <1>2, <1>3, <1>4, <1>5 DEF ReplicaInv

\* Writes answered at once only touch the outcome.
LEMMA RejectionsKeep ==
  ASSUME ReplicaInv, NEW n \in Node, NEW w \in Write, EncodeFails(n, w) \/ PassiveRejects(n, w)
  PROVE  ReplicaInv'
<1>1. /\ TypeOK
      /\ UNCHANGED <<queued, order, lost, committed, upto, mode, pos, store, dedup, log,
                     pending, promote, idle, stage, xfer, progress, crashes>>
      /\ outcome' = [outcome EXCEPT ![w] = "rejected"]
      /\ next_rid' \in [Node -> Nat]
  BY DEF EncodeFails, AnswerAtOnce, PassiveRejects, ring, replica, driver, round, ReplicaInv, TypeOK
<1>2. TypeOK'
  BY <1>1 DEF TypeOK
<1>3. RingInv'
  BY <1>1, RingFrame DEF ReplicaInv
<1>4. WriteInv'
  BY <1>1, WriteFrame DEF ReplicaInv, TypeOK
<1>5. \A m \in Node : NodeInv(m)'
  BY <1>1, NodeFrame DEF ReplicaInv
<1> QED
  BY <1>2, <1>3, <1>4, <1>5 DEF ReplicaInv

\* A lost train takes its payload out of the ring.
LEMMA LoseTrainKeeps ==
  ASSUME ReplicaInv, NEW op \in queued, LoseTrain(op)
  PROVE  ReplicaInv'
<1>1. /\ TypeOK
      /\ UNCHANGED <<order, committed, upto, mode, pos, store, dedup, log, next_rid,
                     pending, promote, idle, stage, xfer, progress, outcome, crashes>>
      /\ queued' = queued \ {op} /\ lost' = lost \cup {op}
  BY DEF LoseTrain, replica, driver, round, ReplicaInv
<1>2. TypeOK'
  BY <1>1 DEF TypeOK
<1>3. RingInv'
  BY <1>1, RingFrame DEF ReplicaInv
<1>4. WriteInv'
  BY <1>1, WriteFrame DEF ReplicaInv
<1>5. \A m \in Node : NodeInv(m)'
  BY <1>1, NodeFrame DEF ReplicaInv
<1> QED
  BY <1>2, <1>3, <1>4, <1>5 DEF ReplicaInv

\* Ordering a payload extends the committed sequence by it, or by nothing when
\* its key was ordered before.
LEMMA OrderKeeps ==
  ASSUME ReplicaInv, NEW op \in queued, NEW again \in BOOLEAN, Order(op, again)
  PROVE  ReplicaInv'
<1> DEFINE N == Len(order)
           M == Len(committed)
           known == \E k \in 1 .. M : Key(committed[k]) = Key(op)
<1>1. /\ TypeOK /\ op \in Op /\ N \in Nat /\ M \in Nat
      /\ order \in Seq(Op) /\ committed \in Seq(Op) /\ upto \in Seq(Nat)
      /\ UNCHANGED <<lost, mode, pos, store, dedup, log, next_rid,
                     pending, promote, idle, stage, xfer, progress, outcome, crashes>>
      /\ queued' \subseteq queued
  BY DEF Order, replica, driver, round, ReplicaInv, TypeOK
<1>2. /\ order' \in Seq(Op) /\ Len(order') = N + 1 /\ order'[N + 1] = op
      /\ \A k \in 1 .. N : order'[k] = order[k]
  BY <1>1 DEF Order
<1>3. /\ known => committed' = committed
      /\ ~known => committed' = Append(committed, op)
  BY DEF Order
<1>4. /\ committed' \in Seq(Op)
      /\ known => Len(committed') = M
      /\ ~known => Len(committed') = M + 1 /\ committed'[M + 1] = op
      /\ \A k \in 1 .. M : committed'[k] = committed[k]
      /\ \A st \in Seq(Op) : IsPrefixOf(st, committed) => IsPrefixOf(st, committed')
      /\ \A d : \A h \in Nat : h <= M /\ Covers(d, h, committed) => Covers(d, h, committed')
      /\ \A t \in Seq(Entry), h \in Nat :
           TailFrom(t, h, committed) => TailFrom(t, h, committed')
      /\ \A l \in LogType : LogHolds(l, committed) => LogHolds(l, committed')
  <2>1. CASE known
    BY <1>1, <1>3, <2>1
  <2>2. CASE ~known
    <3> HIDE DEF known
    <3> QED
      BY <1>1, <1>3, <2>2, ExtendingKeeps
  <2> QED
    BY <2>1, <2>2
<1>5. /\ Len(upto) = N /\ Upto(N) = M
      /\ upto' \in Seq(Nat) /\ Len(upto') = N + 1 /\ upto'[N + 1] = Len(committed')
      /\ \A k \in 1 .. N : upto'[k] = upto[k]
  <2>1. Len(upto) = N /\ Upto(N) = M
    BY DEF ReplicaInv, RingInv
  <2>2. upto' = Append(upto, Len(committed')) /\ Len(committed') \in Nat
    BY <1>4 DEF Order
  <2> QED
    BY <1>1, <2>1, <2>2
<1>6. \A p \in 0 .. N : Upto(p)' = Upto(p)
  BY <1>1, <1>5 DEF Upto
<1>7. TypeOK'
  BY <1>1, <1>2, <1>4, <1>5 DEF TypeOK
<1>8. RingInv'
  <2>1. (Upto(Len(order)) = Len(committed))'
    BY <1>1, <1>2, <1>5 DEF Upto
  <2>2. ASSUME NEW k \in 1 .. N + 1
        PROVE  /\ upto'[k] <= Len(committed')
               /\ \/ /\ upto'[k] = Upto(k - 1)'
                     /\ \E j \in 1 .. upto'[k] : Key(committed'[j]) = Key(order'[k])
                  \/ /\ upto'[k] = Upto(k - 1)' + 1
                     /\ committed'[upto'[k]] = order'[k]
    <3>1. CASE k \in 1 .. N
      <4>1. /\ upto[k] <= M
            /\ \/ /\ upto[k] = Upto(k - 1)
                  /\ \E j \in 1 .. upto[k] : Key(committed[j]) = Key(order[k])
               \/ /\ upto[k] = Upto(k - 1) + 1
                  /\ committed[upto[k]] = order[k]
        BY <3>1 DEF ReplicaInv, RingInv
      <4>2. k - 1 \in 0 .. N /\ upto'[k] = upto[k] /\ order'[k] = order[k] /\ upto[k] \in Nat
        <5> HIDE DEF N, M, known
        <5>1. N \in Nat
          BY <1>1
        <5>2. k - 1 \in 0 .. N
          BY <3>1, <5>1
        <5>3. upto'[k] = upto[k] /\ order'[k] = order[k]
          BY <1>2, <1>5, <3>1
        <5>4. upto \in Seq(Nat) /\ Len(upto) = N
          BY <1>1, <1>5
        <5>5. upto[k] \in Nat
          BY <3>1, <5>4
        <5> QED
          BY <5>2, <5>3, <5>5
      <4>3. Upto(k - 1)' = Upto(k - 1) /\ Upto(k - 1) \in Nat
        <5>1. Upto(k - 1)' = Upto(k - 1)
          BY <1>6, <4>2
        <5>2. Upto(k - 1) \in Nat
          BY <1>1, <1>5, <3>1, SMTT(20) DEF Upto
        <5> QED
          BY <5>1, <5>2
      <4>4. \A j \in 1 .. upto[k] : committed'[j] = committed[j]
        BY <1>1, <1>4, <4>1, <4>2
      <4>5. upto[k] = Upto(k - 1) + 1 => upto[k] \in 1 .. M
        BY <1>1, <4>1, <4>2, <4>3
      <4>6. upto'[k] <= Len(committed')
        BY <1>1, <1>4, <4>1, <4>2
      <4>7. CASE upto[k] = Upto(k - 1)
        <5>1. PICK j \in 1 .. upto[k] : Key(committed[j]) = Key(order[k])
          BY <4>1, <4>3, <4>7
        <5>2. j \in 1 .. upto'[k] /\ Key(committed'[j]) = Key(order'[k])
          BY <4>2, <4>4, <5>1
        <5> QED
          BY <4>2, <4>3, <4>6, <4>7, <5>2
      <4>8. CASE upto[k] = Upto(k - 1) + 1
        <5>1. committed[upto[k]] = order[k]
          BY <4>1, <4>3, <4>8
        <5> QED
          BY <1>4, <4>2, <4>3, <4>5, <4>6, <4>8, <5>1
      <4> QED
        BY <4>1, <4>7, <4>8
    <3>2. CASE k = N + 1
      <4>1. k - 1 = N /\ N \in 0 .. N /\ Upto(k - 1)' = M
        BY <1>1, <1>5, <1>6, <3>2
      <4>2. CASE known
        BY <1>1, <1>2, <1>4, <1>5, <3>2, <4>1, <4>2
      <4>3. CASE ~known
        BY <1>1, <1>2, <1>4, <1>5, <3>2, <4>1, <4>3
      <4> QED
        BY <4>2, <4>3
    <3> QED
      BY <1>1, <3>1, <3>2
  <2>3. ASSUME NEW j \in 1 .. Len(committed'), NEW k \in 1 .. Len(committed'),
               Key(committed'[j]) = Key(committed'[k])
        PROVE  j = k
    <3>1. \A a, b \in 1 .. M : Key(committed[a]) = Key(committed[b]) => a = b
      BY DEF ReplicaInv, RingInv
    <3>2. CASE j \in 1 .. M /\ k \in 1 .. M
      BY <1>4, <2>3, <3>1, <3>2
    <3>3. CASE ~(j \in 1 .. M /\ k \in 1 .. M)
      <4>1. ~known
        BY <1>1, <1>4, <3>3
      <4>2. Len(committed') = M + 1 /\ committed'[M + 1] = op
        BY <1>4, <4>1
      <4>3. (j \in 1 .. M \/ j = M + 1) /\ (k \in 1 .. M \/ k = M + 1)
        BY <1>1, <4>2
      <4> QED
        BY <1>4, <2>3, <3>3, <4>1, <4>2, <4>3
    <3> QED
      BY <3>2, <3>3
  <2> HIDE DEF N, M, known
  <2>4. Len(upto') = Len(order') /\ N \in Nat
    BY <1>1, <1>2, <1>5
  <2>5. 1 .. Len(order') = 1 .. N + 1
    BY <1>2
  <2> QED
    BY <2>1, <2>2, <2>3, <2>4, <2>5 DEF RingInv, Key
<1>9. WriteInv'
  <2>1. Ordered' = Ordered \cup {op}
    <3> HIDE DEF N, M, known
    <3>1. /\ N \in Nat /\ Len(order') = N + 1 /\ order'[N + 1] = op
          /\ \A k \in 1 .. N : order'[k] = order[k]
      BY <1>1, <1>2
    <3>2. 1 .. N + 1 = (1 .. N) \cup {N + 1}
      BY <3>1
    <3>3. Ordered = {order[k] : k \in 1 .. N}
      BY DEF Ordered, N
    <3>4. Ordered' = {order'[k] : k \in (1 .. N) \cup {N + 1}}
      BY <3>1, <3>2 DEF Ordered
    <3> QED
      BY <3>1, <3>3, <3>4
  <2>2. (queued \cup Ordered)' \subseteq queued \cup Ordered
    BY <1>1, <2>1
  <2>3. \A k \in 1 .. Len(committed') : committed'[k] \in Ordered'
    <3> SUFFICES ASSUME NEW k \in 1 .. Len(committed') PROVE committed'[k] \in Ordered'
      OBVIOUS
    <3>1. CASE k \in 1 .. M
      BY <1>4, <2>1, <3>1 DEF ReplicaInv, WriteInv
    <3>2. CASE k \notin 1 .. M
      <4> HIDE DEF N, M, known
      <4>1. M \in Nat /\ (known => Len(committed') = M)
        BY <1>1, <1>4
      <4>2. ~known
        BY <3>2, <4>1
      <4>3. Len(committed') = M + 1 /\ committed'[M + 1] = op
        BY <1>4, <4>2
      <4>4. k = M + 1
        BY <3>2, <4>1, <4>3
      <4> QED
        BY <2>1, <4>3, <4>4
    <3> QED
      BY <3>1, <3>2
  <2> QED
    BY <1>1, <2>2, <2>3 DEF ReplicaInv, WriteInv
<1>10. ASSUME NEW m \in Node PROVE NodeInv(m)'
  <2> HIDE DEF N, M, known
  <2>1. /\ NodeInv(m) /\ store[m] \in Seq(Op) /\ log[m] \in LogType /\ pos[m] \in Nat
        /\ xfer[m] \in Transfer /\ log[m].head \in Nat /\ log[m].head <= M
    BY <1>1 DEF ReplicaInv, TypeOK, LogType, NodeInv, LogHolds, M
  <2>2. IsPrefixOf(store[m], committed)'
    BY <1>1, <1>4, <2>1 DEF NodeInv
  <2>3. WellFormed(dedup[m])'
    BY <1>1, <2>1 DEF NodeInv, WellFormed, Normal
  <2>4. Covers(dedup[m], log[m].head, committed)'
    BY <1>1, <1>4, <2>1 DEF NodeInv
  <2>5. LogHolds(log[m], committed)'
    BY <1>1, <1>4, <2>1 DEF NodeInv
  <2>6. (Active(m) \/ log[m].head > 0 => Len(store[m]) = log[m].head)'
    BY <1>1, <2>1 DEF NodeInv, Active
  <2>7. (Active(m) => pos[m] <= Len(order) /\ log[m].head = Upto(pos[m]))'
    <3>1. Active(m)' => Active(m) /\ pos[m] <= N /\ log[m].head = Upto(pos[m])
      BY <1>1, <2>1 DEF NodeInv, Active, N
    <3>2. pos[m] <= N => pos[m] \in 0 .. N /\ pos[m] <= N + 1
      BY <1>1, <2>1
    <3>3. \A p \in 0 .. N : (IF p = 0 THEN 0 ELSE upto'[p]) = Upto(p)
      BY <1>6 DEF Upto
    <3> QED
      BY <1>1, <1>2, <3>1, <3>2, <3>3 DEF Upto
  <2>8. ASSUME mode[m] = "passive" PROVE TransferInv(m)'
    <3>1. TransferInv(m)
      BY <2>1, <2>8 DEF NodeInv
    <3>2. ASSUME SnapshotHolds(xfer[m].snap) PROVE SnapshotHolds(xfer[m].snap)'
      <4> DEFINE snap == xfer[m].snap
      <4>1. snap \in Snapshot /\ snap = xfer'[m].snap
        BY <1>1, <2>1 DEF Transfer
      <4>2. /\ snap.store \in Seq(Op) /\ snap.head \in Nat /\ snap.pos \in Nat
            /\ IsPrefixOf(snap.store, committed) /\ Len(snap.store) = snap.head
            /\ WellFormed(snap.dedup) /\ Covers(snap.dedup, snap.head, committed)
            /\ snap.pos <= N /\ snap.head = Upto(snap.pos)
        BY <3>2, <4>1 DEF SnapshotHolds, Snapshot, N
      <4> HIDE DEF snap
      <4>3. snap.head <= M
        BY <4>2 DEF IsPrefixOf, M
      <4>4. IsPrefixOf(snap.store, committed') /\ Covers(snap.dedup, snap.head, committed')
        BY <1>4, <4>2, <4>3
      <4>5. snap.pos \in 0 .. N /\ snap.pos <= Len(order')
        BY <1>1, <1>2, <4>2
      <4>6. snap.head = IF snap.pos = 0 THEN 0 ELSE upto'[snap.pos]
        <5>1. \A p \in 0 .. N : (IF p = 0 THEN 0 ELSE upto'[p]) = Upto(p)
          BY <1>6 DEF Upto
        <5> QED
          BY <4>2, <4>5, <5>1
      <4> QED
        BY <4>1, <4>2, <4>4, <4>5, <4>6 DEF SnapshotHolds, Upto
    <3>3. ASSUME TailFrom(xfer[m].tail, log[m].head, committed)
          PROVE  TailFrom(xfer[m].tail, log[m].head, committed)'
      BY <1>1, <1>4, <2>1, <3>3 DEF Transfer
    <3> QED
      BY <1>1, <3>1, <3>2, <3>3, Zenon DEF TransferInv
  <2>9. mode'[m] = mode[m]
    BY <1>1
  <2> QED
    BY <2>2, <2>3, <2>4, <2>5, <2>6, <2>7, <2>8, <2>9 DEF NodeInv
<1> QED
  BY <1>7, <1>8, <1>9, <1>10 DEF ReplicaInv

\* A delivery is the next committed write or one the dedup has recorded.
LEMMA PumpOutputsKeeps ==
  ASSUME ReplicaInv, NEW n \in Node, PumpOutputs(n)
  PROVE  ReplicaInv'
<1> DEFINE k == pos[n] + 1
           op == order[k]
           h == log[n].head
<1>1. /\ TypeOK /\ RingInv /\ NodeInv(n) /\ Active(n)
      /\ order \in Seq(Op) /\ committed \in Seq(Op) /\ upto \in Seq(Nat)
      /\ pos[n] \in Nat /\ pos[n] < Len(order)
      /\ log[n] \in LogType /\ h \in Nat /\ store[n] \in Seq(Op)
      /\ dedup[n] \in [Node -> OriginDedup]
      /\ ApplyDeliveredOp(n, op) /\ WakeClient(n, op)
      /\ pos' = [pos EXCEPT ![n] = @ + 1]
      /\ UNCHANGED <<queued, order, lost, committed, upto, mode, next_rid, promote, idle,
                     stage, xfer, progress, crashes>>
  BY DEF PumpOutputs, ReplicaInv, TypeOK, LogType, ring, round
<1>2. k \in 1 .. Len(order) /\ op \in Op /\ k - 1 = pos[n] /\ Upto(k - 1) = h
  <2>1. k \in 1 .. Len(order) /\ k - 1 = pos[n]
    <3>1. pos[n] \in Nat /\ pos[n] < Len(order) /\ Len(order) \in Nat
      BY <1>1
    <3> QED
      BY <3>1
  <2>2. Upto(pos[n]) = h
    BY <1>1 DEF NodeInv
  <2> HIDE DEF k, h
  <2> QED
    BY <1>1, <2>1, <2>2
<1>3. Len(store[n]) = h /\ Covers(dedup[n], h, committed) /\ h <= Len(committed)
  BY <1>1 DEF NodeInv, LogHolds
<1>4. /\ upto[k] <= Len(committed) /\ upto[k] \in Nat
      /\ \/ /\ upto[k] = h
            /\ \E j \in 1 .. upto[k] : Key(committed[j]) = Key(op)
         \/ /\ upto[k] = h + 1
            /\ committed[upto[k]] = op
  <2> HIDE DEF k, h
  <2>1. Len(upto) = Len(order)
    BY <1>1 DEF RingInv
  <2>2. upto[k] \in Nat
    BY <1>1, <1>2, <2>1
  <2> QED
    BY <1>1, <1>2, <2>2 DEF RingInv
<1> DEFINE d == AfterSeen(dedup[n], op.origin, op.rid)
           st == IF Applies(n, op) THEN Append(store[n], op) ELSE store[n]
           l == IF Applies(n, op) THEN LogAppend(log[n], op) ELSE log[n]
<1>5. /\ dedup' = [dedup EXCEPT ![n] = d]
      /\ store' = [store EXCEPT ![n] = st]
      /\ log' = [log EXCEPT ![n] = l]
  <2> HIDE DEF k
  <2> QED
    BY <1>1 DEF ApplyDeliveredOp, ApplyIf
<1>6. /\ d \in [Node -> OriginDedup] /\ WellFormed(d) /\ Covers(d, upto[k], committed)
      /\ l \in LogType /\ l.head = upto[k] /\ LogHolds(l, committed)
      /\ st \in Seq(Op) /\ Len(st) = upto[k] /\ IsPrefixOf(st, committed)
  <2> HIDE DEF op, k, h
  <2>1. CASE upto[k] = h /\ \E j \in 1 .. upto[k] : Key(committed[j]) = Key(op)
    <3>1. ~Applies(n, op) /\ d = dedup[n]
      <4>1. \E j \in 1 .. h : Key(committed[j]) = Key(op)
        BY <2>1
      <4> QED
        BY <1>1, <1>2, <1>3, <4>1, OldWriteIsDup DEF Applies
    <3> QED
      BY <1>1, <1>3, <2>1, <3>1 DEF NodeInv, h
  <2>2. CASE upto[k] = h + 1 /\ committed[upto[k]] = op
    <3>1. h < Len(committed)
      BY <1>1, <1>4, <2>2
    <3>2. Applies(n, op)
      BY <1>1, <1>2, <1>3, <2>2, <3>1, NextWriteApplied DEF h
    <3>3. /\ d \in [Node -> OriginDedup] /\ WellFormed(d)
          /\ Covers(d, h + 1, committed)
      BY <1>1, <1>2, <1>3, <2>2, <3>1, NextWriteApplied DEF h
    <3>4. l \in LogType /\ l.head = h + 1 /\ LogHolds(l, committed)
      BY <1>1, <1>2, <1>3, <2>2, <3>1, <3>2, NextWriteApplied DEF h
    <3>5. st \in Seq(Op) /\ Len(st) = h + 1 /\ IsPrefixOf(st, committed)
      BY <1>1, <1>2, <1>3, <2>2, <3>1, <3>2, NextWriteApplied DEF h
    <3> HIDE DEF d, st, l
    <3> QED
      BY <2>2, <3>3, <3>4, <3>5
  <2> QED
    BY <1>4, <2>1, <2>2
<1> HIDE DEF d, st, l
<1>7. TypeOK'
  <2>1. /\ pos' \in [Node -> Nat] /\ store' \in [Node -> Seq(Op)]
        /\ dedup' \in [Node -> [Node -> OriginDedup]] /\ log' \in [Node -> LogType]
    <3>1. pos' \in [Node -> Nat]
      BY <1>1 DEF TypeOK
    <3>2. store' \in [Node -> Seq(Op)]
      BY <1>1, <1>5, <1>6 DEF TypeOK
    <3>3. dedup' \in [Node -> [Node -> OriginDedup]] /\ log' \in [Node -> LogType]
      BY <1>1, <1>5, <1>6 DEF TypeOK
    <3> QED
      BY <3>1, <3>2, <3>3
  <2>2. /\ pending' \in [Node -> SUBSET [rid : Nat, w : Write]]
        /\ outcome' \in [Write -> {"none", "waiting", "acked", "rejected", "dropped"}]
    BY <1>1 DEF TypeOK, WakeClient, Answer
  <2> QED
    BY <1>1, <2>1, <2>2 DEF TypeOK
<1>8. RingInv'
  BY <1>1, RingFrame
<1>9. WriteInv'
  <2>1. \A w \in Write : outcome'[w] = outcome[w] \/ outcome'[w] # "none"
    BY <1>1 DEF WakeClient, Answer
  <2>2. \A a \in queued \cup Ordered : a.w \in Write
    BY <1>1, PayloadsTyped
  <2> QED
    BY <1>1, <2>1, <2>2, WriteFrame DEF ReplicaInv
<1>10. NodeInv(n)'
  <2>1. /\ store'[n] = st /\ dedup'[n] = d /\ log'[n] = l /\ pos'[n] = k
        /\ mode'[n] = mode[n] /\ committed' = committed /\ order' = order /\ upto' = upto
    BY <1>1, <1>5 DEF TypeOK
  <2>2. IsPrefixOf(store[n], committed)' /\ LogHolds(log[n], committed)'
    BY <1>6, <2>1
  <2>3. WellFormed(dedup[n])' /\ Covers(dedup[n], log[n].head, committed)'
    BY <1>6, <2>1
  <2>4. (Len(store[n]) = log[n].head)'
    BY <1>6, <2>1
  <2>5. (pos[n] <= Len(order) /\ log[n].head = Upto(pos[n]))'
    BY <1>1, <1>2, <1>6, <2>1 DEF Upto
  <2>6. (mode[n] # "passive")'
    BY <1>1, <2>1 DEF Active
  <2> QED
    BY <2>2, <2>3, <2>4, <2>5, <2>6 DEF NodeInv
<1>11. ASSUME NEW m \in Node, m # n PROVE NodeInv(m)'
  BY <1>1, <1>5, <1>11, NodeFrame DEF ReplicaInv, TypeOK
<1> QED
  BY <1>7, <1>8, <1>9, <1>10, <1>11 DEF ReplicaInv

-----------------------------------------------------------------------------
(* The catch-up of a passive node: the ring and the writes are untouched. *)

\* Enough of a step of one passive node n: the ring and the outcomes are
\* unchanged, the other nodes too, and n satisfies its part afterwards.
LEMMA CatchUpStep ==
  ASSUME ReplicaInv, NEW n \in Node, TypeOK', NodeInv(n)',
         UNCHANGED <<queued, order, committed, upto, outcome>>,
         \A m \in Node \ {n} :
           /\ mode'[m] = mode[m] /\ pos'[m] = pos[m] /\ store'[m] = store[m]
           /\ dedup'[m] = dedup[m] /\ log'[m] = log[m] /\ stage'[m] = stage[m]
           /\ xfer'[m] = xfer[m]
  PROVE  ReplicaInv'
<1>1. RingInv'
  BY RingFrame DEF ReplicaInv
<1>2. WriteInv'
  BY WriteFrame DEF ReplicaInv
<1>3. ASSUME NEW m \in Node, m # n PROVE NodeInv(m)'
  BY <1>3, NodeFrame DEF ReplicaInv
<1> QED
  BY <1>1, <1>2, <1>3 DEF ReplicaInv

\* A step of n's round that leaves its replica alone needs only the transfer.
LEMMA RoundStep ==
  ASSUME ReplicaInv, NEW n \in Node, TypeOK', mode[n] = "passive", TransferInv(n)',
         UNCHANGED <<queued, order, committed, upto, outcome, mode, pos, store, dedup, log>>,
         \A m \in Node \ {n} : stage'[m] = stage[m] /\ xfer'[m] = xfer[m]
  PROVE  ReplicaInv'
<1>1. IsPrefixOf(store[n], committed)' /\ WellFormed(dedup[n])'
  BY DEF ReplicaInv, NodeInv, IsPrefixOf, WellFormed, Normal
<1>2. Covers(dedup[n], log[n].head, committed)'
  <2>1. Covers(dedup[n], log[n].head, committed)
    BY DEF ReplicaInv, NodeInv
  <2> QED
    BY <2>1 DEF Covers
<1>3. LogHolds(log[n], committed)'
  BY DEF ReplicaInv, NodeInv, LogHolds, TailFrom
<1>4. (Active(n) \/ log[n].head > 0 => Len(store[n]) = log[n].head)'
  BY DEF ReplicaInv, NodeInv, Active
<1>5. ~Active(n)'
  BY DEF Active
<1>6. NodeInv(n)'
  BY <1>1, <1>2, <1>3, <1>4, <1>5 DEF NodeInv
<1> QED
  BY <1>6, CatchUpStep

\* A round receives what its survivor built for the node's own head.
LEMMA FetchStateKeeps ==
  ASSUME ReplicaInv, NEW n \in Node, NEW s \in Node, FetchState(n, s)
  PROVE  ReplicaInv'
<1> DEFINE t == BuildStateTransfer(s, log[n].head, FALSE)
<1>1. /\ TypeOK /\ mode[n] = "passive" /\ log[n].head \in Nat
      /\ xfer' = [xfer EXCEPT ![n] = t] /\ stage' = [stage EXCEPT ![n] = "import"]
      /\ progress' = [progress EXCEPT ![n] = FALSE]
      /\ UNCHANGED <<queued, order, lost, committed, upto, mode, pos, store, dedup, log,
                     next_rid, pending, promote, idle, outcome, crashes>>
  BY DEF FetchState, ring, replica, driver, ReplicaInv, TypeOK, LogType
<1>2. /\ t \in Transfer /\ t.final = FALSE
      /\ t.full => SnapshotHolds(t.snap) /\ t.tail = <<>>
      /\ ~t.full => log[n].head > 0 /\ TailFrom(t.tail, log[n].head, committed)
  <2>1. Serves(s)
    BY DEF FetchState
  <2>2. log[n].head \in Nat
    BY <1>1
  <2>3. ASSUME NEW f \in BOOLEAN, NEW b, b = BuildStateTransfer(s, log[n].head, f)
        PROVE  /\ b \in Transfer /\ b.final = f
               /\ b.full => SnapshotHolds(b.snap) /\ b.tail = <<>>
               /\ ~b.full => log[n].head > 0 /\ TailFrom(b.tail, log[n].head, committed)
    BY <2>1, <2>2, <2>3, TransferBuilt
  <2> QED
    BY <2>3
<1> HIDE DEF t
<1>3. TypeOK'
  BY <1>1, <1>2 DEF TypeOK
<1>4. xfer'[n] = t /\ stage'[n] = "import" /\ log'[n].head = log[n].head
  BY <1>1 DEF TypeOK
<1>5. t.full => SnapshotHolds(xfer[n].snap)'
  BY <1>1, <1>2, <1>4 DEF SnapshotHolds, Upto
<1>6. ~t.full => TailFrom(xfer[n].tail, log[n].head, committed)'
  BY <1>1, <1>2, <1>4
<1>7. TransferInv(n)'
  BY <1>2, <1>4, <1>5, <1>6 DEF TransferInv
<1> QED
  BY <1>1, <1>3, <1>7, RoundStep DEF TypeOK

\* The final transfer is a snapshot.
LEMMA FetchFinalKeeps ==
  ASSUME ReplicaInv, NEW n \in Node, NEW s \in Node, FetchFinal(n, s)
  PROVE  ReplicaInv'
<1> DEFINE t == BuildStateTransfer(s, 0, TRUE)
<1>1. /\ TypeOK /\ mode[n] = "passive"
      /\ xfer' = [xfer EXCEPT ![n] = t] /\ stage' = [stage EXCEPT ![n] = "import"]
      /\ UNCHANGED <<queued, order, lost, committed, upto, mode, pos, store, dedup, log,
                     next_rid, pending, promote, idle, progress, outcome, crashes>>
  BY DEF FetchFinal, ring, replica, driver, ReplicaInv, TypeOK
<1>2. t \in Transfer /\ t.full /\ SnapshotHolds(t.snap) /\ t.tail = <<>>
  BY TransferBuilt DEF FetchFinal
<1> HIDE DEF t
<1>3. TypeOK'
  BY <1>1, <1>2 DEF TypeOK
<1>4. xfer'[n] = t /\ stage'[n] = "import"
  BY <1>1 DEF TypeOK
<1>5. SnapshotHolds(xfer[n].snap)'
  BY <1>1, <1>2, <1>4 DEF SnapshotHolds, Upto
<1>6. TransferInv(n)'
  BY <1>2, <1>4, <1>5 DEF TransferInv
<1> QED
  BY <1>1, <1>3, <1>6, RoundStep DEF TypeOK

\* The end of a round, served or not, drops the transfer.
LEMMA RoundEndsKeep ==
  ASSUME ReplicaInv, NEW n \in Node, EndRound(n) \/ FinalUnanswered(n)
  PROVE  ReplicaInv'
<1>1. /\ TypeOK /\ mode[n] = "passive"
      /\ stage'[n] \in {"tick", "final"}
      /\ stage' \in [Node -> {"tick", "import", "replay", "final"}]
      /\ idle' \in [Node -> Nat]
      /\ xfer' \in [Node -> Transfer]
      /\ \A m \in Node \ {n} : stage'[m] = stage[m] /\ xfer'[m] = xfer[m]
      /\ UNCHANGED <<queued, order, lost, committed, upto, mode, pos, store, dedup, log,
                     next_rid, pending, promote, progress, outcome, crashes>>
  <2>1. TypeOK /\ NoTransfer \in Transfer
    BY NothingCovered DEF ReplicaInv, TypeOK
  <2>2. CASE EndRound(n)
    BY <2>1, <2>2 DEF EndRound, CloseRound, ring, replica, driver, TypeOK
  <2>3. CASE FinalUnanswered(n)
    BY <2>1, <2>3 DEF FinalUnanswered, ring, replica, driver, TypeOK
  <2> QED
    BY <2>2, <2>3
<1>2. TypeOK'
  BY <1>1 DEF TypeOK
<1>3. TransferInv(n)'
  BY <1>1 DEF TransferInv
<1> QED
  BY <1>1, <1>2, <1>3, RoundStep

\* Importing a snapshot puts every piece of the node at the snapshot's head.
LEMMA ImportSnapshotKeeps ==
  ASSUME ReplicaInv, NEW n \in Node, ImportSnapshot(n)
  PROVE  ReplicaInv'
<1> DEFINE full == xfer[n].full
           snap == xfer[n].snap
           st == IF full THEN snap.store ELSE store[n]
           d == IF full THEN snap.dedup ELSE dedup[n]
           l == IF full THEN ResumedAt(snap.head) ELSE log[n]
<1>1. /\ TypeOK /\ NodeInv(n) /\ mode[n] = "passive" /\ stage[n] = "import"
      /\ full \in BOOLEAN /\ snap \in Snapshot /\ xfer[n].tail \in Seq(Entry)
      /\ store' = [store EXCEPT ![n] = st]
      /\ dedup' = [dedup EXCEPT ![n] = d]
      /\ log' = [log EXCEPT ![n] = l]
      /\ progress' = [progress EXCEPT ![n] = full]
      /\ stage' = [stage EXCEPT ![n] = "replay"]
      /\ UNCHANGED <<queued, order, lost, committed, upto, mode, pos, next_rid, pending,
                     promote, idle, xfer, outcome, crashes>>
  BY DEF ImportSnapshot, Import, ring, driver, ReplicaInv, TypeOK, Transfer
<1>2. TransferInv(n)
  BY <1>1 DEF NodeInv
<1>3. committed \in Seq(Op) /\ store[n] \in Seq(Op) /\ dedup[n] \in [Node -> OriginDedup]
      /\ log[n] \in LogType
  BY <1>1 DEF TypeOK
<1>4. /\ st \in Seq(Op) /\ IsPrefixOf(st, committed)
      /\ d \in [Node -> OriginDedup] /\ WellFormed(d)
      /\ l \in LogType /\ LogHolds(l, committed)
      /\ Covers(d, l.head, committed)
      /\ l.head > 0 => Len(st) = l.head
      /\ TailFrom(xfer[n].tail, l.head, committed)
      /\ xfer[n].tail # <<>> => l.head > 0
      /\ xfer[n].final =>
           xfer[n].tail = <<>> /\ SnapshotHolds(snap) /\ l.head = snap.head /\ Len(st) = l.head
  <2>1. CASE full
    <3>1. SnapshotHolds(snap) /\ xfer[n].tail = <<>>
      BY <1>1, <1>2, <2>1 DEF TransferInv
    <3>2. /\ snap.store \in Seq(Op) /\ snap.dedup \in [Node -> OriginDedup]
          /\ snap.head \in Nat
      BY <1>1 DEF Snapshot
    <3>3. /\ IsPrefixOf(snap.store, committed) /\ Len(snap.store) = snap.head
          /\ WellFormed(snap.dedup) /\ Covers(snap.dedup, snap.head, committed)
      BY <3>1 DEF SnapshotHolds
    <3>4. snap.head <= Len(committed)
      BY <3>3 DEF IsPrefixOf
    <3> HIDE DEF snap
    <3>5. l = [entries |-> <<>>, head |-> snap.head] /\ st = snap.store /\ d = snap.dedup
      BY <2>1 DEF ResumedAt
    <3> HIDE DEF l, st, d
    <3>6. l \in LogType /\ l.head = snap.head /\ l.entries = <<>>
      BY <3>2, <3>5 DEF LogType
    <3>7. Len(l.entries) = 0 /\ Len(committed) \in Nat
      BY <1>3, <3>6
    <3>8. LogHolds(l, committed) /\ TailFrom(<<>>, l.head, committed)
      BY <3>2, <3>4, <3>6, <3>7, CapAssumption DEF LogHolds, TailFrom
    <3> QED
      BY <3>1, <3>2, <3>3, <3>5, <3>6, <3>8
  <2>2. CASE ~full
    <3>1. st = store[n] /\ d = dedup[n] /\ l = log[n]
      BY <2>2
    <3>2. /\ log[n].head > 0 /\ ~xfer[n].final
          /\ TailFrom(xfer[n].tail, log[n].head, committed)
      BY <1>1, <1>2, <2>2 DEF TransferInv
    <3> QED
      BY <1>1, <1>3, <3>1, <3>2 DEF NodeInv
  <2> QED
    BY <1>1, <2>1, <2>2
<1> HIDE DEF st, d, l, full, snap
<1>5. TypeOK'
  <2>1. /\ store' \in [Node -> Seq(Op)] /\ dedup' \in [Node -> [Node -> OriginDedup]]
        /\ log' \in [Node -> LogType]
    BY <1>1, <1>4 DEF TypeOK
  <2>2. progress' \in [Node -> BOOLEAN]
    BY <1>1 DEF TypeOK
  <2> QED
    BY <1>1, <2>1, <2>2 DEF TypeOK
<1>6. /\ store'[n] = st /\ dedup'[n] = d /\ log'[n] = l /\ mode'[n] = "passive"
      /\ stage'[n] = "replay" /\ xfer' = xfer /\ committed' = committed
      /\ order' = order /\ upto' = upto
  BY <1>1 DEF TypeOK
<1>7. NodeInv(n)'
  <2>1. ~Active(n)'
    BY <1>6 DEF Active
  <2>2. SnapshotHolds(snap) => SnapshotHolds(xfer[n].snap)'
    BY <1>6 DEF SnapshotHolds, Upto, snap
  <2>3. TransferInv(n)'
    BY <1>4, <1>6, <2>2 DEF TransferInv, snap
  <2>4. IsPrefixOf(store[n], committed)' /\ WellFormed(dedup[n])'
    BY <1>4, <1>6
  <2>5. Covers(dedup[n], log[n].head, committed)' /\ LogHolds(log[n], committed)'
    BY <1>4, <1>6
  <2>6. (log[n].head > 0 => Len(store[n]) = log[n].head)'
    BY <1>4, <1>6
  <2> QED
    BY <2>1, <2>3, <2>4, <2>5, <2>6 DEF NodeInv
<1> QED
  BY <1>1, <1>5, <1>7, CatchUpStep DEF TypeOK

\* Replaying a frame of the tail applies the next committed write.
LEMMA ReplayTailKeeps ==
  ASSUME ReplicaInv, NEW n \in Node, ReplayTail(n)
  PROVE  ReplicaInv'
<1> DEFINE t == xfer[n].tail
           h == log[n].head
           op == Head(t).op
<1>1. /\ TypeOK /\ RingInv /\ NodeInv(n) /\ mode[n] = "passive" /\ stage[n] = "replay"
      /\ t \in Seq(Entry) /\ t # <<>> /\ log[n] \in LogType /\ h \in Nat
      /\ ApplyDeliveredOp(n, op)
      /\ progress' = [progress EXCEPT ![n] = @ \/ Applies(n, op)]
      /\ xfer' = [xfer EXCEPT ![n].tail = Tail(@)]
      /\ UNCHANGED <<queued, order, lost, committed, upto, mode, pos, next_rid, pending,
                     promote, idle, stage, outcome, crashes>>
  BY DEF ReplayTail, ring, driver, ReplicaInv, TypeOK, Transfer, LogType
<1>2. TailFrom(t, h, committed) /\ h > 0 /\ Len(store[n]) = h
  BY <1>1 DEF NodeInv, TransferInv
<1>3. Len(t) \in Nat /\ Len(t) >= 1 /\ committed \in Seq(Op) /\ Len(committed) \in Nat
  BY <1>1 DEF TypeOK
<1>4. Head(t) = t[1] /\ op = t[1].op
  BY <1>1
<1>5. op = committed[h + 1] /\ h < Len(committed) /\ op \in Op
  <2> HIDE DEF t, h, op
  <2>1. t[1].op = committed[h + 1] /\ h + Len(t) <= Len(committed)
    BY <1>2, <1>3 DEF TailFrom
  <2>2. h + 1 \in 1 .. Len(committed) /\ h < Len(committed)
    BY <1>1, <1>3, <2>1
  <2> QED
    BY <1>3, <1>4, <2>1, <2>2
<1>6. TailFrom(Tail(t), h + 1, committed) /\ Tail(t) \in Seq(Entry)
  <2> HIDE DEF t, h, op
  <2>1. /\ Tail(t) \in Seq(Entry) /\ Len(Tail(t)) = Len(t) - 1
        /\ \A i \in 1 .. Len(t) - 1 : Tail(t)[i] = t[i + 1]
    BY <1>1, <1>3
  <2>2. ASSUME NEW i \in 1 .. Len(t) - 1
        PROVE  Tail(t)[i].index = (h + 1) + i - 1 /\ Tail(t)[i].op = committed[(h + 1) + i]
    <3>1. i + 1 \in 1 .. Len(t) /\ h + (i + 1) = (h + 1) + i /\ h + (i + 1) - 1 = (h + 1) + i - 1
      BY <1>1, <1>3, SMTT(20)
    <3>2. t[i + 1].index = h + (i + 1) - 1 /\ t[i + 1].op = committed[h + (i + 1)]
      BY <1>2, <3>1 DEF TailFrom
    <3> QED
      BY <2>1, <3>1, <3>2
  <2>3. (h + 1) + (Len(t) - 1) <= Len(committed)
    BY <1>1, <1>2, <1>3 DEF TailFrom
  <2> QED
    BY <2>1, <2>2, <2>3 DEF TailFrom
<1> DEFINE d == AfterSeen(dedup[n], op.origin, op.rid)
           st == Append(store[n], op)
           l == LogAppend(log[n], op)
<1>7. /\ Applies(n, op)
      /\ d \in [Node -> OriginDedup] /\ WellFormed(d) /\ Covers(d, h + 1, committed)
      /\ l \in LogType /\ l.head = h + 1 /\ LogHolds(l, committed)
      /\ st \in Seq(Op) /\ Len(st) = h + 1 /\ IsPrefixOf(st, committed)
  <2> HIDE DEF op
  <2> QED
    BY <1>1, <1>2, <1>5, NextWriteApplied
<1>8. /\ dedup' = [dedup EXCEPT ![n] = d]
      /\ store' = [store EXCEPT ![n] = st]
      /\ log' = [log EXCEPT ![n] = l]
  <2> HIDE DEF op
  <2> QED
    BY <1>1, <1>7 DEF ApplyDeliveredOp, ApplyIf
<1> HIDE DEF d, st, l, op
<1>9. xfer'[n].tail = Tail(t) /\ xfer'[n].snap = xfer[n].snap
      /\ xfer'[n].final = xfer[n].final /\ xfer'[n] \in Transfer
  <2>1. xfer \in [Node -> Transfer]
    BY <1>1 DEF TypeOK
  <2>2. xfer[n] \in Transfer /\ xfer'[n] = [xfer[n] EXCEPT !.tail = Tail(t)]
    BY <1>1, <2>1
  <2> QED
    BY <1>6, <2>2 DEF Transfer
<1>10. TypeOK'
  <2>1. /\ store' \in [Node -> Seq(Op)] /\ dedup' \in [Node -> [Node -> OriginDedup]]
        /\ log' \in [Node -> LogType]
    BY <1>1, <1>7, <1>8 DEF TypeOK
  <2>2. progress' \in [Node -> BOOLEAN]
    BY <1>1, <1>7 DEF TypeOK
  <2>3. xfer' \in [Node -> Transfer]
    BY <1>1, <1>9 DEF TypeOK
  <2> QED
    BY <1>1, <2>1, <2>2, <2>3 DEF TypeOK
<1>11. NodeInv(n)'
  <2>1. /\ store'[n] = st /\ dedup'[n] = d /\ log'[n] = l /\ mode'[n] = "passive"
        /\ stage'[n] = "replay" /\ committed' = committed
    BY <1>1, <1>8 DEF TypeOK
  <2>2. ~Active(n)'
    BY <2>1 DEF Active
  <2>3. ~xfer[n].final
    BY <1>1 DEF NodeInv, TransferInv
  <2>4. TailFrom(xfer[n].tail, log[n].head, committed)' /\ (log[n].head > 0)'
    <3> HIDE DEF t, h
    <3>1. l.head > 0
      BY <1>1, <1>7
    <3> QED
      BY <1>6, <1>7, <1>9, <2>1, <3>1
  <2>5. TransferInv(n)'
    BY <1>9, <2>1, <2>3, <2>4 DEF TransferInv
  <2>6. IsPrefixOf(store[n], committed)' /\ WellFormed(dedup[n])'
    BY <1>7, <2>1
  <2>7. Covers(dedup[n], log[n].head, committed)' /\ LogHolds(log[n], committed)'
    BY <1>7, <2>1
  <2>8. (Len(store[n]) = log[n].head)'
    BY <1>7, <2>1
  <2> QED
    BY <2>2, <2>5, <2>6, <2>7, <2>8 DEF NodeInv
<1> QED
  BY <1>1, <1>8, <1>10, <1>11, CatchUpStep DEF TypeOK

-----------------------------------------------------------------------------
(* Promotion, crash and restart. *)

\* The promoted driver's core stands where the snapshot's pieces stand.
LEMMA PromoteNodeKeeps ==
  ASSUME ReplicaInv, NEW n \in Node, PromoteNode(n)
  PROVE  ReplicaInv'
<1> DEFINE snap == xfer[n].snap
<1>1. /\ TypeOK /\ NodeInv(n) /\ mode[n] = "passive" /\ stage[n] = "replay" /\ xfer[n].final
      /\ mode' = [mode EXCEPT ![n] = "promoted"]
      /\ pos' = [pos EXCEPT ![n] = snap.pos]
      /\ next_rid' = [next_rid EXCEPT ![n] = 0]
      /\ pending' = [pending EXCEPT ![n] = {}]
      /\ idle' = [idle EXCEPT ![n] = 0]
      /\ stage' = [stage EXCEPT ![n] = "tick"]
      /\ xfer' = [xfer EXCEPT ![n] = NoTransfer]
      /\ UNCHANGED <<queued, order, lost, committed, upto, store, dedup, log, promote,
                     progress, outcome, crashes>>
  BY DEF PromoteNode, StartDriver, FinalTaken, ring, ReplicaInv
<1>2. /\ snap \in Snapshot /\ snap.pos \in Nat /\ snap.pos <= Len(order)
      /\ log[n].head = Upto(snap.pos) /\ Len(store[n]) = log[n].head
  <2>1. /\ SnapshotHolds(snap) /\ log[n].head = snap.head
        /\ Len(store[n]) = log[n].head
    BY <1>1 DEF NodeInv, TransferInv
  <2>2. snap \in Snapshot
    BY <1>1 DEF TypeOK, Transfer
  <2> QED
    BY <2>1, <2>2 DEF SnapshotHolds, Snapshot
<1> HIDE DEF snap
<1>3. TypeOK'
  <2>1. NoTransfer \in Transfer
    BY <1>1, NothingCovered DEF TypeOK
  <2>2. /\ mode' \in [Node -> {"member", "promoted", "passive", "down"}]
        /\ pos' \in [Node -> Nat] /\ next_rid' \in [Node -> Nat] /\ idle' \in [Node -> Nat]
    BY <1>1, <1>2 DEF TypeOK
  <2>3. /\ pending' \in [Node -> SUBSET [rid : Nat, w : Write]]
        /\ stage' \in [Node -> {"tick", "import", "replay", "final"}]
        /\ xfer' \in [Node -> Transfer]
    BY <1>1, <2>1 DEF TypeOK
  <2> QED
    BY <1>1, <2>2, <2>3 DEF TypeOK
<1>4. NodeInv(n)'
  <2>1. mode'[n] = "promoted" /\ pos'[n] = snap.pos
    BY <1>1 DEF TypeOK
  <2>2. IsPrefixOf(store[n], committed)' /\ WellFormed(dedup[n])'
    BY <1>1 DEF NodeInv, IsPrefixOf, WellFormed, Normal
  <2>3. Covers(dedup[n], log[n].head, committed)' /\ LogHolds(log[n], committed)'
    BY <1>1 DEF NodeInv, Covers, LogHolds, TailFrom
  <2>4. (Len(store[n]) = log[n].head)'
    BY <1>1, <1>2
  <2>5. (pos[n] <= Len(order) /\ log[n].head = Upto(pos[n]))'
    BY <1>1, <1>2, <2>1 DEF Upto
  <2> QED
    BY <2>1, <2>2, <2>3, <2>4, <2>5 DEF NodeInv
<1> QED
  BY <1>1, <1>3, <1>4, CatchUpStep DEF TypeOK

\* A fresh catch-up starts from an empty dedup and log over a store that is
\* empty or holds a prefix of the committed writes.
LEMMA StartCatchUpKeeps ==
  ASSUME ReplicaInv, NEW n \in Node, NEW p \in BOOLEAN, NEW effects \in {<<>>, store[n]},
         StartCatchUp(n, p, effects),
         UNCHANGED <<ring, pos, driver, outcome, crashes>>
  PROVE  ReplicaInv'
<1>1. /\ TypeOK /\ NodeInv(n) /\ committed \in Seq(Op)
      /\ mode' = [mode EXCEPT ![n] = "passive"]
      /\ store' = [store EXCEPT ![n] = effects]
      /\ dedup' = [dedup EXCEPT ![n] = NewDedup(Node)]
      /\ log' = [log EXCEPT ![n] = NewLog]
      /\ promote' = [promote EXCEPT ![n] = p]
      /\ idle' = [idle EXCEPT ![n] = 0]
      /\ stage' = [stage EXCEPT ![n] = "tick"]
      /\ xfer' = [xfer EXCEPT ![n] = NoTransfer]
      /\ progress' = [progress EXCEPT ![n] = FALSE]
      /\ UNCHANGED <<queued, order, lost, committed, upto, pos, next_rid, pending, outcome,
                     crashes>>
  BY DEF StartCatchUp, ring, driver, ReplicaInv, TypeOK
<1>2. effects \in Seq(Op) /\ IsPrefixOf(effects, committed)
  <2>1. CASE effects = <<>>
    BY <1>1, <2>1 DEF IsPrefixOf
  <2>2. CASE effects = store[n]
    BY <1>1, <2>2 DEF TypeOK, NodeInv
  <2> QED
    BY <2>1, <2>2
<1>3. /\ NewDedup(Node) \in [Node -> OriginDedup] /\ WellFormed(NewDedup(Node))
      /\ Covers(NewDedup(Node), 0, committed)
      /\ NewLog \in LogType /\ NewLog.head = 0 /\ LogHolds(NewLog, committed)
      /\ NoTransfer \in Transfer
  BY <1>1, NothingCovered
<1>4. TypeOK'
  <2>1. /\ mode' \in [Node -> {"member", "promoted", "passive", "down"}]
        /\ store' \in [Node -> Seq(Op)] /\ dedup' \in [Node -> [Node -> OriginDedup]]
        /\ log' \in [Node -> LogType]
    BY <1>1, <1>2, <1>3 DEF TypeOK
  <2>2. /\ promote' \in [Node -> BOOLEAN] /\ idle' \in [Node -> Nat]
        /\ progress' \in [Node -> BOOLEAN]
    BY <1>1 DEF TypeOK
  <2>3. /\ stage' \in [Node -> {"tick", "import", "replay", "final"}]
        /\ xfer' \in [Node -> Transfer]
    BY <1>1, <1>3 DEF TypeOK
  <2> QED
    BY <1>1, <2>1, <2>2, <2>3 DEF TypeOK
<1>5. NodeInv(n)'
  <2>1. /\ mode'[n] = "passive" /\ store'[n] = effects /\ dedup'[n] = NewDedup(Node)
        /\ log'[n] = NewLog /\ stage'[n] = "tick" /\ committed' = committed
    BY <1>1 DEF TypeOK
  <2>2. ~Active(n)' /\ TransferInv(n)'
    BY <2>1 DEF Active, TransferInv
  <2>3. IsPrefixOf(store[n], committed)' /\ WellFormed(dedup[n])'
    BY <1>2, <1>3, <2>1
  <2>4. Covers(dedup[n], log[n].head, committed)' /\ LogHolds(log[n], committed)'
    BY <1>3, <2>1
  <2>5. ~(log[n].head > 0)'
    BY <1>3, <2>1
  <2> QED
    BY <2>2, <2>3, <2>4, <2>5 DEF NodeInv
<1> QED
  BY <1>1, <1>4, <1>5, CatchUpStep DEF TypeOK

\* A crash leaves the store, and nothing else of the node.
LEMMA CrashKeeps ==
  ASSUME ReplicaInv, NEW n \in Node, Crash(n)
  PROVE  ReplicaInv'
<1>1. /\ TypeOK /\ NodeInv(n) /\ committed \in Seq(Op)
      /\ mode' = [mode EXCEPT ![n] = "down"]
      /\ pos' = [pos EXCEPT ![n] = 0]
      /\ dedup' = [dedup EXCEPT ![n] = NewDedup(Node)]
      /\ log' = [log EXCEPT ![n] = NewLog]
      /\ next_rid' = [next_rid EXCEPT ![n] = 0]
      /\ pending' = [pending EXCEPT ![n] = {}]
      /\ idle' = [idle EXCEPT ![n] = 0]
      /\ stage' = [stage EXCEPT ![n] = "tick"]
      /\ xfer' = [xfer EXCEPT ![n] = NoTransfer]
      /\ progress' = [progress EXCEPT ![n] = FALSE]
      /\ outcome' = [w \in Write |->
                       IF \E p \in pending[n] : p.w = w THEN "dropped" ELSE outcome[w]]
      /\ crashes' = crashes + 1
      /\ UNCHANGED <<queued, order, lost, committed, upto, store, promote>>
  BY DEF Crash, ring, ReplicaInv, TypeOK
<1>2. /\ NewDedup(Node) \in [Node -> OriginDedup] /\ WellFormed(NewDedup(Node))
      /\ Covers(NewDedup(Node), 0, committed)
      /\ NewLog \in LogType /\ NewLog.head = 0 /\ LogHolds(NewLog, committed)
      /\ NoTransfer \in Transfer
  BY <1>1, NothingCovered
<1>3. TypeOK'
  <2>1. /\ mode' \in [Node -> {"member", "promoted", "passive", "down"}]
        /\ pos' \in [Node -> Nat] /\ dedup' \in [Node -> [Node -> OriginDedup]]
        /\ log' \in [Node -> LogType]
    BY <1>1, <1>2 DEF TypeOK
  <2>2. /\ next_rid' \in [Node -> Nat] /\ idle' \in [Node -> Nat]
        /\ pending' \in [Node -> SUBSET [rid : Nat, w : Write]]
        /\ progress' \in [Node -> BOOLEAN]
    BY <1>1 DEF TypeOK
  <2>3. /\ stage' \in [Node -> {"tick", "import", "replay", "final"}]
        /\ xfer' \in [Node -> Transfer] /\ crashes' \in Nat
        /\ outcome' \in [Write -> {"none", "waiting", "acked", "rejected", "dropped"}]
    BY <1>1, <1>2 DEF TypeOK
  <2> QED
    BY <1>1, <2>1, <2>2, <2>3 DEF TypeOK
<1>4. RingInv'
  BY <1>1, RingFrame DEF ReplicaInv
<1>5. WriteInv'
  <2>1. \A w \in Write : outcome'[w] = outcome[w] \/ outcome'[w] # "none"
    BY <1>1
  <2>2. \A a \in queued \cup Ordered : a.w \in Write
    BY <1>1, PayloadsTyped
  <2> QED
    BY <1>1, <2>1, <2>2, WriteFrame DEF ReplicaInv
<1>6. NodeInv(n)'
  <2>1. /\ mode'[n] = "down" /\ store'[n] = store[n] /\ dedup'[n] = NewDedup(Node)
        /\ log'[n] = NewLog /\ committed' = committed
    BY <1>1 DEF TypeOK
  <2>2. ~Active(n)'
    BY <2>1 DEF Active
  <2>3. IsPrefixOf(store[n], committed)' /\ WellFormed(dedup[n])'
    BY <1>1, <1>2, <2>1 DEF NodeInv
  <2>4. Covers(dedup[n], log[n].head, committed)' /\ LogHolds(log[n], committed)'
    BY <1>2, <2>1
  <2>5. ~(log[n].head > 0)'
    BY <1>2, <2>1
  <2> QED
    BY <2>1, <2>2, <2>3, <2>4, <2>5 DEF NodeInv
<1>7. ASSUME NEW m \in Node, m # n PROVE NodeInv(m)'
  BY <1>1, <1>7, NodeFrame DEF ReplicaInv, TypeOK
<1> QED
  BY <1>3, <1>4, <1>5, <1>6, <1>7 DEF ReplicaInv

-----------------------------------------------------------------------------
\* Every step of the system preserves the invariant.
THEOREM NextReplicaInv == ReplicaInv /\ [Next]_vars => ReplicaInv'
<1> SUFFICES ASSUME ReplicaInv, [Next]_vars PROVE ReplicaInv'
  OBVIOUS
<1>1. ASSUME NEW n \in Node, NEW w \in Write,
             HandleWrite(n, w) \/ EncodeFails(n, w) \/ PassiveRejects(n, w)
      PROVE  ReplicaInv'
  BY <1>1, HandleWriteKeeps, RejectionsKeep
<1>2. ASSUME NEW op \in queued,
             LoseTrain(op) \/ \E again \in BOOLEAN : Order(op, again)
      PROVE  ReplicaInv'
  BY <1>2, LoseTrainKeeps, OrderKeeps
<1>3. ASSUME NEW n \in Node, NEW s \in Node, FetchState(n, s) \/ FetchFinal(n, s)
      PROVE  ReplicaInv'
  BY <1>3, FetchStateKeeps, FetchFinalKeeps
<1>4. ASSUME NEW n \in Node,
             \/ PumpOutputs(n) \/ ImportSnapshot(n) \/ ReplayTail(n) \/ EndRound(n)
             \/ FinalUnanswered(n) \/ PromoteNode(n) \/ Crash(n)
      PROVE  ReplicaInv'
  BY <1>4, PumpOutputsKeeps, ImportSnapshotKeeps, ReplayTailKeeps, RoundEndsKeep,
     PromoteNodeKeeps, CrashKeeps
<1>5. ASSUME NEW n \in Node, PromotionFails(n) PROVE ReplicaInv'
  BY <1>5, StartCatchUpKeeps DEF PromotionFails
<1>6. ASSUME NEW n \in Node, Restart(n) PROVE ReplicaInv'
  BY <1>6, StartCatchUpKeeps, PromoteAssumption DEF Restart
<1>7. CASE UNCHANGED vars
  <2>1. /\ UNCHANGED <<queued, order, lost, committed, upto, mode, pos, store, dedup, log>>
        /\ UNCHANGED <<next_rid, pending, promote, idle, stage, xfer, progress, outcome,
                       crashes>>
    BY <1>7 DEF vars, ring, replica, driver, round
  <2>2. TypeOK'
    BY <2>1 DEF ReplicaInv, TypeOK
  <2>3. RingInv'
    BY <2>1, RingFrame DEF ReplicaInv
  <2>4. WriteInv'
    BY <2>1, WriteFrame DEF ReplicaInv
  <2>5. \A m \in Node : NodeInv(m)'
    BY <2>1, NodeFrame DEF ReplicaInv
  <2> QED
    BY <2>2, <2>3, <2>4, <2>5 DEF ReplicaInv
<1> QED
  BY <1>1, <1>2, <1>3, <1>4, <1>5, <1>6, <1>7 DEF Next

\* The replica's part of the invariant holds throughout.
THEOREM ReplicaInvariance == Spec => []ReplicaInv
  BY InitReplicaInv, NextReplicaInv, PTL DEF Spec

-----------------------------------------------------------------------------
(* ClientInv is inductive, given ReplicaInv. *)

\* An id that two writes share stays shared.
LEMMA ReuseStays ==
  ASSUME Carried \subseteq Carried', NEW w
  PROVE  IdReused(w) => IdReused(w)'
  BY DEF IdReused, Carried, Key

\* A step that broadcasts and orders nothing and answers no client.
LEMMA ClientFrame ==
  ASSUME ClientInv, UNCHANGED <<order, upto>>, Carried' = Carried,
         \A n \in Node : next_rid'[n] = next_rid[n] \/ next_rid'[n] = 0,
         \A n \in Node : pending'[n] \subseteq pending[n],
         \A w \in Write : outcome'[w] = "acked" => outcome[w] = "acked"
  PROVE  ClientInv'
<1>1. UptoGrows'
  BY DEF ClientInv, UptoGrows
<1>2. PendingCarried'
  BY DEF ClientInv, PendingCarried
<1>3. AckedOrdered'
  BY ReuseStays DEF ClientInv, AckedOrdered
<1>4. \A n, i : Used(n, i)' <=> Used(n, i)
  BY DEF Used, Key
<1>5. IdsDense'
  <2>1. \A n \in Node : \A i \in 0 .. next_rid'[n] - 1 : Used(n, i)
    BY DEF ClientInv, IdsDense
  <2> QED
    BY <1>4, <2>1 DEF ClientInv, IdsDense
<1> QED
  BY <1>1, <1>2, <1>3, <1>5 DEF ClientInv

\* A driver's counter names the next id of its own; its client is filed under it.
LEMMA HandleWriteKeepsClients ==
  ASSUME TypeOK, ClientInv, NEW n \in Node, NEW w \in Write, HandleWrite(n, w)
  PROVE  ClientInv'
<1>0. PICK i : i = next_rid[n]
  OBVIOUS
<1> DEFINE new == [origin |-> n, rid |-> i, w |-> w]
<1>1. /\ i \in Nat /\ queued' = queued \cup {new} /\ UNCHANGED <<order, lost, upto>>
      /\ next_rid' = [next_rid EXCEPT ![n] = i + 1]
      /\ pending' = [pending EXCEPT ![n] = @ \cup {[rid |-> i, w |-> w]}]
      /\ outcome' = [outcome EXCEPT ![w] = "waiting"]
  BY <1>0 DEF TypeOK, HandleWrite, Broadcast
<1>2. Carried' = Carried \cup {new} /\ Key(new) = <<n, i>>
  BY <1>1 DEF Carried, Ordered, Key
<1>3. UptoGrows'
  BY <1>1 DEF ClientInv, UptoGrows
<1>4. PendingCarried'
  <2> SUFFICES ASSUME NEW m \in Node, NEW p \in pending'[m]
               PROVE  [origin |-> m, rid |-> p.rid, w |-> p.w] \in Carried'
    BY DEF PendingCarried
  <2>1. CASE p \in pending[m]
    BY <1>2, <2>1 DEF ClientInv, PendingCarried
  <2>2. CASE p \notin pending[m]
    <3>1. m = n /\ p = [rid |-> i, w |-> w]
      BY <1>1, <2>2 DEF TypeOK
    <3> QED
      BY <1>2, <3>1
  <2> QED
    BY <2>1, <2>2
<1>5. AckedOrdered'
  <2>1. \A v \in Write : outcome'[v] = "acked" => outcome[v] = "acked"
    BY <1>1 DEF TypeOK
  <2>2. Carried \subseteq Carried'
    BY <1>2
  <2> QED
    BY <1>1, <2>1, <2>2, ReuseStays DEF ClientInv, AckedOrdered
<1>6. IdsDense'
  <2>1. \A m, j : Used(m, j) => Used(m, j)'
    BY <1>2 DEF Used, Key
  <2>2. Used(n, i)'
    BY <1>2 DEF Used, Key
  <2>3. ASSUME NEW m \in Node, NEW j \in 0 .. next_rid'[m] - 1
        PROVE  Used(m, j)'
    <3>1. CASE m = n /\ j = i
      BY <2>2, <3>1
    <3>2. CASE ~(m = n /\ j = i)
      <4>1. j \in 0 .. next_rid[m] - 1
        BY <1>0, <1>1, <3>2 DEF TypeOK
      <4> QED
        BY <2>1, <4>1 DEF ClientInv, IdsDense
    <3> QED
      BY <3>1, <3>2
  <2>4. ASSUME NEW op \in Carried', NEW j \in 0 .. op.rid - 1
        PROVE  Used(op.origin, j)'
    <3>1. CASE op \in Carried
      BY <2>1, <3>1 DEF ClientInv, IdsDense
    <3>2. CASE op = new
      <4>1. op.origin = n /\ j \in 0 .. next_rid[n] - 1
        BY <1>0, <3>2
      <4> QED
        BY <2>1, <4>1 DEF ClientInv, IdsDense
    <3> QED
      BY <1>2, <3>1, <3>2
  <2> QED
    BY <2>3, <2>4 DEF IdsDense
<1> QED
  BY <1>3, <1>4, <1>5, <1>6 DEF ClientInv

\* An ordered payload stays among those carried.
LEMMA OrderKeepsClients ==
  ASSUME TypeOK, RingInv, ClientInv, NEW op \in queued, NEW again \in BOOLEAN, Order(op, again)
  PROVE  ClientInv'
<1> DEFINE N == Len(order)
           M == Len(committed')
<1>1. /\ order \in Seq(Op) /\ upto \in Seq(Nat) /\ N \in Nat /\ Len(upto) = N
      /\ order' = Append(order, op) /\ upto' = Append(upto, M)
      /\ UNCHANGED <<lost, next_rid, pending, outcome>>
  BY DEF TypeOK, RingInv, Order, driver
<1>2. committed \in Seq(Op) /\ M \in Nat /\ Len(committed) <= M
  <2>1. committed' = committed \/ committed' = Append(committed, op)
    BY DEF Order
  <2>2. committed \in Seq(Op)
    BY DEF TypeOK
  <2> QED
    BY <2>1, <2>2
<1>3. /\ Len(order') = N + 1 /\ order'[N + 1] = op /\ \A k \in 1 .. N : order'[k] = order[k]
      /\ upto'[N + 1] = M /\ \A k \in 1 .. N : upto'[k] = upto[k]
  BY <1>1
<1> HIDE DEF N, M
<1>4. Carried' = Carried
  <2>1. Ordered' = Ordered \cup {op}
    <3>1. \A k \in 1 .. N + 1 : k \in 1 .. N \/ k = N + 1
      BY <1>1
    <3>2. Ordered' = {order'[k] : k \in 1 .. N + 1} /\ Ordered = {order[k] : k \in 1 .. N}
      BY <1>3 DEF Ordered, N
    <3>3. N + 1 \in 1 .. N + 1 /\ 1 .. N \subseteq 1 .. N + 1
      BY <1>1
    <3> QED
      BY <1>3, <3>1, <3>2, <3>3
  <2>2. queued' = queued \/ queued' = queued \ {op}
    BY DEF Order
  <2> QED
    BY <1>1, <2>1, <2>2 DEF Carried
<1>5. UptoGrows'
  <2> SUFFICES ASSUME NEW j \in 1 .. N + 1, NEW k \in 1 .. N + 1, j <= k
               PROVE  upto'[j] <= upto'[k]
    BY <1>3 DEF UptoGrows
  <2>1. CASE k \in 1 .. N
    <3>1. j \in 1 .. N
      BY <1>1, <2>1
    <3>2. upto[j] <= upto[k]
      BY <2>1, <3>1 DEF ClientInv, UptoGrows, N
    <3> QED
      BY <1>3, <2>1, <3>1, <3>2
  <2>2. CASE k = N + 1
    <3>1. CASE j \in 1 .. N
      <4>1. upto[j] <= Len(committed) /\ upto[j] \in Nat /\ Len(committed) \in Nat
        BY <1>1, <1>2, <3>1 DEF RingInv, N
      <4> QED
        BY <1>2, <1>3, <2>2, <3>1, <4>1
    <3>2. CASE j = N + 1
      BY <1>2, <1>3, <2>2, <3>2
    <3> QED
      BY <1>1, <3>1, <3>2
  <2> QED
    BY <1>1, <2>1, <2>2
<1>6. PendingCarried'
  BY <1>1, <1>4 DEF ClientInv, PendingCarried
<1>7. AckedOrdered'
  <2> SUFFICES ASSUME NEW w \in Write, outcome'[w] = "acked", ~IdReused(w)'
               PROVE  \E k \in 1 .. Len(order') : order'[k].w = w
    BY DEF AckedOrdered
  <2>1. ~IdReused(w)
    BY <1>4, ReuseStays
  <2>2. PICK k \in 1 .. N : order[k].w = w
    BY <1>1, <2>1 DEF ClientInv, AckedOrdered, N
  <2>3. k \in 1 .. N + 1
    BY <1>1
  <2> QED
    BY <1>3, <2>2, <2>3
<1>8. IdsDense'
  <2>1. \A m, j : Used(m, j)' <=> Used(m, j)
    BY <1>4 DEF Used, Key
  <2> QED
    BY <1>1, <1>4, <2>1 DEF ClientInv, IdsDense
<1> QED
  BY <1>5, <1>6, <1>7, <1>8 DEF ClientInv

\* The client that is answered waits for the op delivered, or for another op of
\* the same id.
LEMMA PumpOutputsKeepsClients ==
  ASSUME TypeOK, ClientInv, NEW n \in Node, PumpOutputs(n)
  PROVE  ClientInv'
<1> DEFINE at == pos[n] + 1
           op == order[at]
           woken == {p \in pending[n] : (Applies(n, op) /\ op.origin = n) /\ p.rid = op.rid}
<1>1. /\ pos[n] \in Nat /\ pos[n] < Len(order) /\ order \in Seq(Op)
      /\ UNCHANGED <<queued, order, lost, upto, next_rid>>
      /\ pending' = [pending EXCEPT ![n] = @ \ woken]
      /\ outcome' = [w \in Write |-> IF \E p \in woken : p.w = w THEN "acked" ELSE outcome[w]]
  BY DEF TypeOK, PumpOutputs, WakeClient, Answer, ring
<1>2. at \in 1 .. Len(order) /\ op \in Op /\ op \in Carried /\ Carried' = Carried
  BY <1>1 DEF Carried, Ordered
<1> HIDE DEF at, op
<1>3. UptoGrows' /\ PendingCarried'
  <2>1. \A m \in Node : pending'[m] \subseteq pending[m]
    BY <1>1 DEF TypeOK
  <2> QED
    BY <1>1, <1>2, <2>1 DEF ClientInv, UptoGrows, PendingCarried
<1>4. AckedOrdered'
  <2> SUFFICES ASSUME NEW w \in Write, outcome'[w] = "acked", ~IdReused(w)
               PROVE  \E k \in 1 .. Len(order) : order[k].w = w
    BY <1>1, <1>2, ReuseStays DEF AckedOrdered
  <2>1. CASE outcome[w] = "acked"
    BY <2>1 DEF ClientInv, AckedOrdered
  <2>2. CASE \E p \in woken : p.w = w
    <3>1. PICK p \in woken : p.w = w
      BY <2>2
    <3> DEFINE mine == [origin |-> n, rid |-> p.rid, w |-> w]
    <3>2. mine \in Carried /\ Key(mine) = Key(op) /\ mine.w = w
      BY <3>1 DEF ClientInv, PendingCarried, Key
    <3>3. op.w = w
      BY <1>2, <3>2 DEF IdReused, Carried
    <3> QED
      BY <1>2, <3>3 DEF op
  <2> QED
    BY <1>1, <2>1, <2>2
<1>5. IdsDense'
  <2>1. \A m, j : Used(m, j)' <=> Used(m, j)
    BY <1>2 DEF Used, Key
  <2> QED
    BY <1>1, <1>2, <2>1 DEF ClientInv, IdsDense
<1> QED
  BY <1>3, <1>4, <1>5 DEF ClientInv

\* Every step preserves that no id is left out below one that was broadcast, that
\* a client waits for an op that was, and that an answered write is ordered.
THEOREM NextClientInv == ReplicaInv /\ ClientInv /\ [Next]_vars => ClientInv'
<1> SUFFICES ASSUME ReplicaInv, ClientInv, [Next]_vars PROVE ClientInv'
  OBVIOUS
<1>0. TypeOK /\ RingInv
  BY DEF ReplicaInv
<1>1. ASSUME NEW n \in Node, NEW w \in Write, HandleWrite(n, w) PROVE ClientInv'
  BY <1>0, <1>1, HandleWriteKeepsClients
<1>2. ASSUME NEW n \in Node, NEW w \in Write, EncodeFails(n, w) \/ PassiveRejects(n, w)
      PROVE  ClientInv'
  <2>1. /\ UNCHANGED <<queued, order, lost, upto, pending>>
        /\ next_rid' = next_rid \/ next_rid' = [next_rid EXCEPT ![n] = next_rid[n]]
        /\ outcome' = [outcome EXCEPT ![w] = "rejected"]
    BY <1>2 DEF EncodeFails, AnswerAtOnce, PassiveRejects, ring, driver
  <2>2. Carried' = Carried
    BY <2>1 DEF Carried, Ordered
  <2> QED
    BY <1>0, <2>1, <2>2, ClientFrame DEF TypeOK
<1>3. ASSUME NEW op \in queued, NEW again \in BOOLEAN, Order(op, again) PROVE ClientInv'
  BY <1>0, <1>3, OrderKeepsClients
<1>4. ASSUME NEW op \in queued, LoseTrain(op) PROVE ClientInv'
  <2>1. /\ UNCHANGED <<order, upto, pending, next_rid, outcome>>
        /\ queued' = queued \ {op} /\ lost' = lost \cup {op}
    BY <1>4 DEF LoseTrain, driver
  <2>2. Carried' = Carried
    BY <2>1 DEF Carried, Ordered
  <2> QED
    BY <2>1, <2>2, ClientFrame
<1>5. ASSUME NEW n \in Node, PumpOutputs(n) PROVE ClientInv'
  BY <1>0, <1>5, PumpOutputsKeepsClients
<1>6. ASSUME UNCHANGED <<ring, driver, outcome>> PROVE ClientInv'
  <2>1. Carried' = Carried /\ UNCHANGED <<order, upto, next_rid, pending, outcome>>
    BY <1>6 DEF Carried, Ordered, ring, driver
  <2> QED
    BY <2>1, ClientFrame
<1>7. ASSUME NEW n \in Node, NEW s \in Node, FetchState(n, s) \/ FetchFinal(n, s)
      PROVE  ClientInv'
  BY <1>6, <1>7 DEF FetchState, FetchFinal
<1>8. ASSUME NEW n \in Node,
             \/ ImportSnapshot(n) \/ ReplayTail(n) \/ EndRound(n) \/ FinalUnanswered(n)
             \/ PromotionFails(n) \/ Restart(n)
      PROVE  ClientInv'
  BY <1>6, <1>8 DEF ImportSnapshot, Import, ReplayTail, EndRound, CloseRound,
     FinalUnanswered, PromotionFails, Restart
<1>9. ASSUME NEW n \in Node, PromoteNode(n) \/ Crash(n) PROVE ClientInv'
  <2>1. /\ UNCHANGED <<queued, order, lost, upto>>
        /\ next_rid' = [next_rid EXCEPT ![n] = 0]
        /\ pending' = [pending EXCEPT ![n] = {}]
        /\ \A w \in Write : outcome'[w] = "acked" => outcome[w] = "acked"
    BY <1>9 DEF PromoteNode, StartDriver, Crash, ring
  <2>2. Carried' = Carried
    BY <2>1 DEF Carried, Ordered
  <2> QED
    BY <1>0, <2>1, <2>2, ClientFrame DEF TypeOK
<1>10. CASE UNCHANGED vars
  BY <1>6, <1>10 DEF vars
<1> QED
  BY <1>1, <1>2, <1>3, <1>4, <1>5, <1>7, <1>8, <1>9, <1>10 DEF Next

\* The inductive invariant holds throughout.
THEOREM Invariance == Spec => []IInv
<1>1. Init => ClientInv
  BY DEF Init, ClientInv, UptoGrows, PendingCarried, AckedOrdered, IdsDense, Carried, Ordered
<1> QED
  BY <1>1, InitReplicaInv, NextReplicaInv, NextClientInv, PTL DEF Spec, IInv

-----------------------------------------------------------------------------
(* Safety *)

\* What an active node's core has delivered is in its store, under its id.
LEMMA DeliveredIsStored ==
  ASSUME IInv, NEW n \in Node, Active(n), NEW k \in 1 .. pos[n]
  PROVE  \E j \in 1 .. Len(store[n]) :
           /\ store[n][j] = committed[j] /\ committed[j] \in Ordered
           /\ j \in 1 .. log[n].head
           /\ Key(committed[j]) = Key(order[k])
<1>1. /\ TypeOK /\ RingInv /\ WriteInv /\ NodeInv(n) /\ UptoGrows
  BY DEF IInv, ReplicaInv, ClientInv
<1>2. /\ pos[n] \in Nat /\ pos[n] <= Len(order) /\ Len(order) \in Nat
      /\ upto \in Seq(Nat) /\ Len(upto) = Len(order)
      /\ Len(store[n]) = log[n].head /\ log[n].head = Upto(pos[n])
      /\ IsPrefixOf(store[n], committed)
  BY <1>1 DEF TypeOK, RingInv, NodeInv
<1>3. /\ k \in 1 .. Len(order) /\ pos[n] \in 1 .. Len(order)
      /\ Upto(pos[n]) = upto[pos[n]] /\ upto[k] <= upto[pos[n]]
      /\ upto[k] \in Nat /\ upto[pos[n]] \in Nat
  BY <1>1, <1>2 DEF Upto, UptoGrows
<1>4. PICK j \in 1 .. upto[k] : Key(committed[j]) = Key(order[k])
  <2>1. CASE \E j \in 1 .. upto[k] : Key(committed[j]) = Key(order[k])
    BY <2>1
  <2>2. CASE upto[k] = Upto(k - 1) + 1 /\ committed[upto[k]] = order[k]
    <3>1. Upto(k - 1) \in Nat
      BY <1>2, <1>3 DEF Upto
    <3>2. upto[k] \in 1 .. upto[k]
      BY <1>3, <2>2, <3>1
    <3> QED
      BY <2>2, <3>2
  <2> QED
    BY <1>1, <1>3, <2>1, <2>2 DEF RingInv
<1>5. j \in 1 .. Len(store[n]) /\ j \in 1 .. log[n].head /\ j \in 1 .. Len(committed)
  BY <1>2, <1>3 DEF IsPrefixOf
<1> QED
  BY <1>1, <1>2, <1>4, <1>5 DEF IsPrefixOf, WriteInv

\* An acknowledged write is on every active node or on its way there: whatever
\* crashes, is promoted or is re-broadcast, unless its id was used twice.
THEOREM AcksAreKept == Spec => []AckedNotLost
<1>1. ASSUME IInv, NEW w \in Write, outcome[w] = "acked", ~IdReused(w),
             NEW n \in Node, Active(n)
      PROVE  \/ \E k \in 1 .. Len(store[n]) : store[n][k].w = w
             \/ \E k \in pos[n] + 1 .. Len(order) : order[k].w = w
  <2>1. PICK k \in 1 .. Len(order) : order[k].w = w
    BY <1>1 DEF IInv, ClientInv, AckedOrdered
  <2>2. CASE k \in 1 .. pos[n]
    <3>1. PICK j \in 1 .. Len(store[n]) :
            /\ store[n][j] = committed[j] /\ committed[j] \in Ordered
            /\ Key(committed[j]) = Key(order[k])
      BY <1>1, <2>2, DeliveredIsStored
    <3>2. order[k] \in Ordered
      BY DEF Ordered
    <3>3. store[n][j].w = w
      BY <1>1, <2>1, <3>1, <3>2 DEF IdReused
    <3> QED
      BY <3>3
  <2>3. CASE k \notin 1 .. pos[n]
    <3>1. pos[n] \in Nat /\ Len(order) \in Nat
      BY <1>1 DEF IInv, ReplicaInv, TypeOK
    <3>2. k \in pos[n] + 1 .. Len(order)
      BY <2>3, <3>1
    <3> QED
      BY <2>1, <3>2
  <2> QED
    BY <2>2, <2>3
<1>2. IInv => AckedNotLost
  BY <1>1 DEF AckedNotLost
<1> QED
  BY <1>2, Invariance, PTL

\* The id at which a watermark waits was broadcast: a gap is a write on its way
\* or a lost one, and never an id that a code path threw away.
THEOREM GapsAreWrites == Spec => []GapIsAWrite
<1>1. ASSUME IInv, NEW n \in Node, NEW o \in Node, Active(n), dedup[n][o].recent # {}
      PROVE  LET key == <<o, dedup[n][o].watermark>>
             IN  InFlight(n, key) \/ \E op \in lost : Key(op) = key
  <2> DEFINE d == dedup[n][o]
             key == <<o, d.watermark>>
  <2>1. /\ TypeOK /\ NodeInv(n) /\ IdsDense /\ WriteInv /\ RingInv
        /\ d \in OriginDedup /\ committed \in Seq(Op) /\ log[n] \in LogType
        /\ d.watermark \in Nat /\ d.recent \subseteq Nat
    BY <1>1, SMTT(60) DEF IInv, ReplicaInv, ClientInv, TypeOK, OriginDedup
  <2>2. PICK i \in d.recent : i \in Nat /\ i > d.watermark
    BY <1>1, <2>1 DEF NodeInv, WellFormed, Normal
  <2>3. log[n].head \in Nat /\ log[n].head <= Len(committed)
    BY <2>1 DEF LogType, NodeInv, LogHolds
  <2>4. \A j \in Nat : IsDup(d, j) <=> \E k \in 1 .. log[n].head : Key(committed[k]) = <<o, j>>
    BY <2>1, <2>3, CoversMeansDup DEF TypeOK, NodeInv
  <2>5. IsDup(d, i) /\ ~IsDup(d, d.watermark)
    BY <2>1, <2>2 DEF IsDup, NodeInv, WellFormed, Normal
  <2> HIDE DEF d
  <2>6. PICK c \in Ordered : Key(c) = <<o, i>>
    <3>1. PICK k \in 1 .. log[n].head : Key(committed[k]) = <<o, i>>
      BY <2>2, <2>4, <2>5
    <3>2. k \in 1 .. Len(committed)
      BY <2>1, <2>3
    <3> QED
      BY <2>1, <3>1, <3>2 DEF WriteInv
  <2>7. c \in Carried /\ c.origin = o /\ c.rid = i
    BY <2>6 DEF Carried, Key
  <2>8. Used(o, d.watermark)
    <3>1. d.watermark \in 0 .. c.rid - 1
      BY <2>1, <2>2, <2>7
    <3> QED
      BY <2>1, <2>7, <3>1 DEF IdsDense
  <2>9. PICK op \in Carried : Key(op) = key
    BY <2>8 DEF Used
  <2>10. CASE op \in Ordered
    <3>1. PICK k \in 1 .. Len(order) : op = order[k]
      BY <2>10 DEF Ordered
    <3>2. k \notin 1 .. pos[n]
      <4>1. SUFFICES ASSUME k \in 1 .. pos[n] PROVE FALSE
        OBVIOUS
      <4>2. \E j \in 1 .. log[n].head : Key(committed[j]) = key
        BY <1>1, <2>9, <3>1, <4>1, DeliveredIsStored
      <4> QED
        BY <2>1, <2>4, <2>5, <4>2
    <3>3. pos[n] \in Nat /\ Len(order) \in Nat
      BY <2>1 DEF TypeOK
    <3>4. k \in pos[n] + 1 .. Len(order)
      BY <3>2, <3>3
    <3> QED
      BY <2>9, <3>1, <3>4 DEF InFlight, d
  <2>11. CASE op \in queued \/ op \in lost
    BY <2>9, <2>11 DEF InFlight, d
  <2> QED
    BY <2>9, <2>10, <2>11 DEF Carried
<1>2. IInv => GapIsAWrite
  BY <1>1 DEF GapIsAWrite
<1> QED
  BY <1>2, Invariance, PTL

\* Every variable keeps its type: no handler indexes past what it was given,
\* and no request id, index or position goes below zero.
THEOREM TypeCorrect == Spec => []TypeOK
<1>1. ReplicaInv => TypeOK
  BY DEF ReplicaInv
<1> QED
  BY <1>1, ReplicaInvariance, PTL

\* Two prefixes of one sequence are prefixes of one another.
LEMMA PrefixesCompare ==
  ASSUME NEW c \in Seq(Op), NEW a \in Seq(Op), NEW b \in Seq(Op),
         IsPrefixOf(a, c), IsPrefixOf(b, c)
  PROVE  IsPrefixOf(a, b) \/ IsPrefixOf(b, a)
  BY DEF IsPrefixOf

\* The stores of any two nodes never conflict, through crashes, restarts over a
\* surviving Redis, catch-up from different survivors, and promotion.
THEOREM StoresNeverConflict == Spec => []StoresAgree
<1>1. ReplicaInv => StoresAgree
  BY PrefixesCompare DEF ReplicaInv, TypeOK, NodeInv, StoresAgree
<1> QED
  BY <1>1, ReplicaInvariance, PTL

\* No store ever holds the effect of a write twice.
THEOREM WritesApplyOnce == Spec => []ExactlyOnce
<1>1. ASSUME ReplicaInv, NEW n \in Node, NEW j \in 1 .. Len(store[n]), NEW k \in 1 .. Len(store[n]),
             store[n][j].w = store[n][k].w
      PROVE  j = k
  <2>1. /\ committed \in Seq(Op) /\ store[n] \in Seq(Op) /\ IsPrefixOf(store[n], committed)
    BY <1>1 DEF ReplicaInv, TypeOK, NodeInv
  <2>2. /\ j \in 1 .. Len(committed) /\ store[n][j] = committed[j]
        /\ k \in 1 .. Len(committed) /\ store[n][k] = committed[k]
    BY <2>1 DEF IsPrefixOf
  <2>3. committed[j] \in Ordered /\ committed[k] \in Ordered
    BY <1>1, <2>2 DEF ReplicaInv, WriteInv
  <2>4. committed[j] = committed[k]
    BY <1>1, <2>2, <2>3 DEF ReplicaInv, WriteInv
  <2> QED
    BY <1>1, <2>2, <2>4 DEF ReplicaInv, RingInv
<1>2. ReplicaInv => ExactlyOnce
  BY <1>1 DEF ExactlyOnce
<1> QED
  BY <1>2, ReplicaInvariance, PTL

\* An active node's store is what the total order up to its core's position
\* amounts to: the promotion of a standby seeds a driver that is in step.
THEOREM ActiveNodesInStep == Spec => []InStepWithRing
<1>1. ReplicaInv => InStepWithRing
  BY DEF ReplicaInv, NodeInv, InStepWithRing
<1> QED
  BY <1>1, ReplicaInvariance, PTL

\* The delivered index a standby reports is the number of effects it holds.
THEOREM HeadsMatchStores == Spec => []HeadMatchesStore
<1>1. ReplicaInv => HeadMatchesStore
  BY DEF ReplicaInv, NodeInv, HeadMatchesStore
<1> QED
  BY <1>1, ReplicaInvariance, PTL

\* The retained tails of any two nodes agree where they overlap, are contiguous
\* up to the head and bounded by the capacity.
THEOREM AnySurvivorMayServe == Spec => []TailsInterchangeable
<1>1. ASSUME ReplicaInv, NEW n \in Node, NEW i \in 1 .. Len(log[n].entries)
      PROVE  LET x == log[n].entries[i].index IN
             /\ Len(log[n].entries) <= Cap
             /\ x + Len(log[n].entries) + 1 = log[n].head + i
             /\ x \in Nat
             /\ log[n].entries[i].op = committed[x + 1]
  <2> DEFINE ent == log[n].entries
             h == log[n].head
             x == ent[i].index
  <2>1. ent \in Seq(Entry) /\ h \in Nat /\ Len(ent) \in Nat /\ i \in 1 .. Len(ent)
    BY <1>1 DEF ReplicaInv, TypeOK, LogType
  <2>2. /\ Len(ent) <= Cap /\ Len(ent) <= h
        /\ x = h - Len(ent) + i - 1 /\ ent[i].op = committed[h - Len(ent) + i]
    BY <1>1 DEF ReplicaInv, NodeInv, LogHolds, TailFrom
  <2> HIDE DEF ent, h, x
  <2>3. x + Len(ent) + 1 = h + i /\ x \in Nat /\ x + 1 = h - Len(ent) + i
    BY <2>1, <2>2
  <2> QED
    BY <2>2, <2>3 DEF ent, h, x
<1>2. ReplicaInv => TailsInterchangeable
  <2> SUFFICES ASSUME ReplicaInv PROVE TailsInterchangeable
    OBVIOUS
  <2>1. \A n \in Node : Len(log[n].entries) <= Cap
    BY DEF ReplicaInv, NodeInv, LogHolds
  <2>2. ASSUME NEW m \in Node, NEW n \in Node,
               NEW i \in 1 .. Len(log[m].entries), NEW j \in 1 .. Len(log[n].entries),
               log[m].entries[i].index = log[n].entries[j].index
        PROVE  log[m].entries[i].op = log[n].entries[j].op
    <3>1. log[m].entries[i].op = committed[log[m].entries[i].index + 1]
      BY <1>1
    <3>2. log[n].entries[j].op = committed[log[n].entries[j].index + 1]
      BY <1>1
    <3> QED
      BY <2>2, <3>1, <3>2
  <2>3. \A n \in Node : \A i \in 1 .. Len(log[n].entries) :
          log[n].entries[i].index + Len(log[n].entries) + 1 = log[n].head + i
    BY <1>1
  <2> QED
    BY <2>1, <2>2, <2>3 DEF TailsInterchangeable
<1> QED
  BY <1>2, ReplicaInvariance, PTL

-----------------------------------------------------------------------------
(* Refinement *)

Live == {n \in Node : Active(n)}

\* A prefix is the subsequence from 1 to its own length.
LEMMA PrefixIsSubSeq ==
  ASSUME NEW c \in Seq(Op), NEW s \in Seq(Op), IsPrefixOf(s, c)
  PROVE  Len(s) \in 0 .. Len(c) /\ s = SubSeq(c, 1, Len(s))
<1>1. Len(s) \in Nat /\ Len(c) \in Nat /\ Len(s) <= Len(c) /\ \A k \in 1 .. Len(s) : s[k] = c[k]
  BY DEF IsPrefixOf
<1> DEFINE u == SubSeq(c, 1, Len(s))
<1>2. u \in Seq(Op) /\ Len(u) = Len(s) /\ \A k \in 1 .. Len(s) : u[k] = c[k]
  BY <1>1
<1> HIDE DEF u
<1>3. u = s
  BY <1>1, <1>2
<1> QED
  BY <1>1, <1>3 DEF u

\* A step that places the store of one node that is not live.
LEMMA PlacesStore ==
  ASSUME ReplicaInv', NEW n \in Node, ~Active(n), NEW x, store' = [store EXCEPT ![n] = x],
         store \in [Node -> Seq(Op)], committed' = committed, Live' = Live
  PROVE  StateMachine!Rejoin(n)
<1>1. committed' \in Seq(Op) /\ store'[n] \in Seq(Op) /\ IsPrefixOf(store'[n], committed')
  BY DEF ReplicaInv, TypeOK, NodeInv, IsPrefixOf
<1>2. store'[n] = x
  OBVIOUS
<1>3. Len(x) \in 0 .. Len(committed) /\ x = SubSeq(committed, 1, Len(x))
  BY <1>1, <1>2, PrefixIsSubSeq
<1>4. n \notin Live
  BY DEF Live
<1> QED
  BY <1>3, <1>4 DEF StateMachine!Rejoin, Live

\* A step of the detailed system is one of the replicated store, or none.
LEMMA StepSimulation ==
  ASSUME ReplicaInv, ReplicaInv', [Next]_vars
  PROVE  [StateMachine!Next]_<<committed, store, Live>>
<1> DEFINE Goal == StateMachine!Next \/ UNCHANGED <<committed, store, Live>>
<1> SUFFICES Goal
  OBVIOUS
<1>0. TypeOK
  BY DEF ReplicaInv
<1>1. ASSUME UNCHANGED <<committed, store, mode>> PROVE Goal
  BY <1>1 DEF Live, Active
<1> HIDE DEF Goal
<1>2. ASSUME NEW n \in Node, NEW w \in Write,
             HandleWrite(n, w) \/ EncodeFails(n, w) \/ PassiveRejects(n, w)
      PROVE  Goal
  BY <1>1, <1>2 DEF HandleWrite, Broadcast, EncodeFails, AnswerAtOnce, PassiveRejects,
                    ring, replica
<1>3. ASSUME NEW op \in queued, LoseTrain(op) PROVE Goal
  BY <1>1, <1>3 DEF LoseTrain, replica
<1>4. ASSUME NEW op \in queued, NEW again \in BOOLEAN, Order(op, again) PROVE Goal
  <2>1. UNCHANGED <<store, mode>> /\ Live' = Live
    BY <1>4 DEF Order, replica, Live, Active
  <2>2. CASE \E k \in 1 .. Len(committed) : Key(committed[k]) = Key(op)
    BY <1>1, <1>4, <2>1, <2>2 DEF Order
  <2>3. CASE ~\E k \in 1 .. Len(committed) : Key(committed[k]) = Key(op)
    <3>1. committed' = Append(committed, op) /\ committed \in Seq(Op) /\ op \in Op
      BY <1>0, <1>4, <2>3 DEF Order, TypeOK
    <3>2. Len(committed') = Len(committed) + 1 /\ committed'[Len(committed')] = op
      BY <3>1
    <3>3. StateMachine!Commit
      BY <2>1, <2>3, <3>1, <3>2 DEF StateMachine!Commit, Live
    <3> QED
      BY <3>3 DEF Goal, StateMachine!Next
  <2> QED
    BY <2>2, <2>3
<1>5. ASSUME NEW n \in Node, NEW s \in Node, FetchState(n, s) \/ FetchFinal(n, s)
      PROVE  Goal
  BY <1>1, <1>5 DEF FetchState, FetchFinal, ring, replica
<1>6. ASSUME NEW n \in Node, EndRound(n) \/ FinalUnanswered(n)
      PROVE  Goal
  BY <1>1, <1>6 DEF EndRound, CloseRound, FinalUnanswered, ring, replica
<1>7. ASSUME NEW n \in Node, PumpOutputs(n)
      PROVE  Goal
  <2> DEFINE op == order[pos[n] + 1]
  <2>1. /\ UNCHANGED <<committed, mode>> /\ Live' = Live
        /\ store' = [store EXCEPT ![n] =
                       IF Applies(n, op) THEN Append(store[n], op) ELSE store[n]]
    BY <1>7 DEF PumpOutputs, ApplyDeliveredOp, ApplyIf, ring, Live, Active
  <2> HIDE DEF op
  <2>2. CASE Applies(n, op)
    <3>1. /\ store[n] \in Seq(Op) /\ store'[n] = Append(store[n], op)
          /\ store'[n] \in Seq(Op) /\ IsPrefixOf(store'[n], committed)
      BY <1>0, <2>1, <2>2, SMTT(60) DEF ReplicaInv, TypeOK, NodeInv, IsPrefixOf
    <3>2. /\ Len(store[n]) < Len(committed) /\ op = committed[Len(store[n]) + 1]
      <4>1. Len(store'[n]) = Len(store[n]) + 1 /\ store'[n][Len(store[n]) + 1] = op
            /\ Len(store[n]) \in Nat
        BY <3>1
      <4>2. Len(committed) \in Nat
        BY <1>0 DEF TypeOK
      <4> QED
        BY <3>1, <4>1, <4>2 DEF IsPrefixOf
    <3>3. StateMachine!Apply(n)
      BY <1>0, <2>1, <2>2, <3>2 DEF StateMachine!Apply, Live, TypeOK
    <3> QED
      BY <3>3 DEF Goal, StateMachine!Next
  <2>3. CASE ~Applies(n, op)
    <3>1. store' = store
      BY <1>0, <2>1, <2>3 DEF TypeOK
    <3> QED
      BY <1>1, <2>1, <3>1
  <2> QED
    BY <2>2, <2>3
<1>8. ASSUME NEW n \in Node, ImportSnapshot(n) \/ ReplayTail(n) \/ PromotionFails(n) \/ Restart(n)
      PROVE  Goal
  <2>1. /\ ~Active(n) /\ committed' = committed
        /\ \E x : store' = [store EXCEPT ![n] = x]
        /\ \A m \in Node : (m # n => mode'[m] = mode[m]) /\ mode'[n] = "passive"
    BY <1>0, <1>8 DEF ImportSnapshot, Import, ReplayTail, ApplyDeliveredOp, ApplyIf,
       PromotionFails, FinalTaken, Restart, StartCatchUp, Active, ring, TypeOK
  <2>2. Live' = Live
    BY <2>1 DEF Live, Active
  <2>3. StateMachine!Rejoin(n)
    BY <1>0, <2>1, <2>2, PlacesStore DEF TypeOK
  <2> QED
    BY <2>3 DEF Goal, StateMachine!Next
<1>9. ASSUME NEW n \in Node, PromoteNode(n) PROVE Goal
  <2>1. /\ ~Active(n) /\ UNCHANGED <<committed, store>>
        /\ mode' = [mode EXCEPT ![n] = "promoted"]
    BY <1>9 DEF PromoteNode, StartDriver, FinalTaken, Active, ring
  <2>2. n \notin Live /\ Live' = Live \cup {n}
    BY <1>0, <2>1 DEF Live, Active, TypeOK
  <2>3. StateMachine!GoLive(n)
    BY <2>1, <2>2 DEF StateMachine!GoLive, Live
  <2> QED
    BY <2>3 DEF Goal, StateMachine!Next
<1>10. ASSUME NEW n \in Node, Crash(n) PROVE Goal
  <2>1. UNCHANGED <<committed, store>> /\ mode' = [mode EXCEPT ![n] = "down"]
    BY <1>10 DEF Crash, ring
  <2>2. Live' = Live \ {n}
    BY <1>0, <2>1 DEF Live, Active, TypeOK
  <2>3. CASE n \in Live
    <3>1. StateMachine!Leave(n)
      BY <2>1, <2>2, <2>3 DEF StateMachine!Leave, Live
    <3> QED
      BY <3>1 DEF Goal, StateMachine!Next
  <2>4. CASE n \notin Live
    BY <2>1, <2>2, <2>4 DEF Goal
  <2> QED
    BY <2>3, <2>4
<1>11. CASE UNCHANGED vars
  BY <1>1, <1>11 DEF vars, ring, replica
<1> QED
  BY <1>2, <1>3, <1>4, <1>5, <1>6, <1>7, <1>8, <1>9, <1>10, <1>11 DEF Next

\* The replication implements the replicated store: clients read prefixes of
\* one sequence of distinct writes, and an active node advances along it one
\* write at a time and never goes back.
THEOREM ImplementsReplicatedStore == Spec => RefinesReplicatedStore
<1>1. Init => StateMachine!Init
  BY DEF Init, StateMachine!Init, Active
<1>2. ReplicaInv /\ ReplicaInv' /\ [Next]_vars
        => [StateMachine!Next]_<<committed, store, {n \in Node : Active(n)}>>
  BY StepSimulation DEF Live
<1> QED
  BY <1>1, <1>2, ReplicaInvariance, PTL DEF Spec, RefinesReplicatedStore, StateMachine!Spec
=============================================================================
