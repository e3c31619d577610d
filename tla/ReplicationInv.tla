--------------------------- MODULE ReplicationInv ---------------------------
(***************************************************************************)
(* The inductive invariant of Replication.  Every piece of a replica (its   *)
(* store, dedup state and delivered log, a snapshot or tail in flight) is   *)
(* tied to a prefix of the one committed sequence.                          *)
(***************************************************************************)
EXTENDS Replication

\* The dedup state d has applied exactly the first h writes of c.
Covers(d, h, c) ==
  \A o \in Node :
    AppliedIds(d[o]) = {c[k].rid : k \in {j \in 1 .. h : c[j].origin = o}}

WellFormed(d) == \A o \in Node : IsFiniteSet(d[o].recent) /\ Normal(d[o])

\* The entries t are the writes of c from delivered index h on.
TailFrom(t, h, c) ==
  /\ h + Len(t) <= Len(c)
  /\ \A i \in 1 .. Len(t) : t[i].index = h + i - 1 /\ t[i].op = c[h + i]

\* The delivered log l retains the last writes before its head.
LogHolds(l, c) ==
  /\ Len(l.entries) <= Cap
  /\ Len(l.entries) <= l.head
  /\ l.head <= Len(c)
  /\ TailFrom(l.entries, l.head - Len(l.entries), c)

\* The history variables say what the order amounts to without duplicates.
RingInv ==
  /\ Len(upto) = Len(order)
  /\ Upto(Len(order)) = Len(committed)
  /\ \A k \in 1 .. Len(order) :
       /\ upto[k] <= Len(committed)
       /\ \/ /\ upto[k] = Upto(k - 1)
             /\ \E j \in 1 .. upto[k] : Key(committed[j]) = Key(order[k])
          \/ /\ upto[k] = Upto(k - 1) + 1
             /\ committed[upto[k]] = order[k]
  /\ \A j, k \in 1 .. Len(committed) : Key(committed[j]) = Key(committed[k]) => j = k

\* A write is broadcast once: its op is the only one that carries it.
WriteInv ==
  LET ops == queued \cup Ordered
  IN  /\ \A k \in 1 .. Len(committed) : committed[k] \in Ordered
      /\ \A a, b \in ops : a.w = b.w => a = b
      /\ \A a \in ops : outcome[a.w] # "none"

SnapshotHolds(snap) ==
  /\ IsPrefixOf(snap.store, committed)
  /\ Len(snap.store) = snap.head
  /\ WellFormed(snap.dedup)
  /\ Covers(snap.dedup, snap.head, committed)
  /\ snap.pos <= Len(order)
  /\ snap.head = Upto(snap.pos)

\* The transfer a passive node holds closes its gap: a snapshot of a member, or
\* the tail that starts at its head.
TransferInv(n) ==
  /\ stage[n] = "import" /\ xfer[n].full =>
       SnapshotHolds(xfer[n].snap) /\ xfer[n].tail = <<>>
  /\ stage[n] = "import" /\ ~xfer[n].full =>
       /\ log[n].head > 0
       /\ ~xfer[n].final
       /\ TailFrom(xfer[n].tail, log[n].head, committed)
  /\ stage[n] = "replay" =>
       /\ TailFrom(xfer[n].tail, log[n].head, committed)
       /\ xfer[n].tail # <<>> => log[n].head > 0
  /\ stage[n] = "replay" /\ xfer[n].final =>
       /\ xfer[n].tail = <<>>
       /\ SnapshotHolds(xfer[n].snap)
       /\ log[n].head = xfer[n].snap.head
       /\ Len(store[n]) = log[n].head

NodeInv(n) ==
  /\ IsPrefixOf(store[n], committed)
  /\ WellFormed(dedup[n])
  /\ Covers(dedup[n], log[n].head, committed)
  /\ LogHolds(log[n], committed)
  /\ Active(n) \/ log[n].head > 0 => Len(store[n]) = log[n].head
  /\ Active(n) => pos[n] <= Len(order) /\ log[n].head = Upto(pos[n])
  /\ mode[n] = "passive" => TransferInv(n)

\* The replica's part of the invariant.
ReplicaInv ==
  /\ TypeOK
  /\ RingInv
  /\ WriteInv
  /\ \A n \in Node : NodeInv(n)

-----------------------------------------------------------------------------
(* The client's part: what became of the ops that were broadcast. *)

Carried == queued \cup lost \cup Ordered

Used(n, i) == \E op \in Carried : Key(op) = <<n, i>>

\* What the order amounts to never shrinks.
UptoGrows == \A j, k \in 1 .. Len(order) : j <= k => upto[j] <= upto[k]

\* A client that waits in a pending map waits for an op that was broadcast.
PendingCarried ==
  \A n \in Node : \A p \in pending[n] : [origin |-> n, rid |-> p.rid, w |-> p.w] \in Carried

\* An answered write was ordered, or took the answer of one with the same id.
AckedOrdered ==
  \A w \in Write : outcome[w] = "acked" /\ ~IdReused(w) =>
    \E k \in 1 .. Len(order) : order[k].w = w

\* Below a driver's counter, and below any id ever broadcast, no id is left out.
IdsDense ==
  /\ \A n \in Node : \A i \in 0 .. next_rid[n] - 1 : Used(n, i)
  /\ \A op \in Carried : \A i \in 0 .. op.rid - 1 : Used(op.origin, i)

ClientInv == UptoGrows /\ PendingCarried /\ AckedOrdered /\ IdsDense

\* The inductive invariant.
IInv == ReplicaInv /\ ClientInv
=============================================================================
