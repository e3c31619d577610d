----------------------------- MODULE WriteDedup -----------------------------
(***************************************************************************)
(* The apply-side write dedup of replica.rs: for every origin a contiguous  *)
(* watermark and a window of request ids applied ahead of it.  This module  *)
(* holds the pure operators; DedupStream drives them with a stream of       *)
(* deliveries, and Replication uses them in every apply path.               *)
(***************************************************************************)
EXTENDS Naturals, FiniteSets

OriginDedup == [watermark : Nat, recent : SUBSET Nat]

\* The derived Default of OriginDedup: nothing applied.
NewOrigin == [watermark |-> 0, recent |-> {}]

\* A map from origins to OriginDedup.  `entry(..).or_default()` makes an absent
\* origin indistinguishable from one with the default state.
NewDedup(Origins) == [o \in Origins |-> NewOrigin]

IsDup(od, id) == id < od.watermark \/ id \in od.recent

\* Slip: the loop stops one short.
SweptShort(S, w) ==
  (CHOOSE v \in w .. (w + Cardinality(S)) : v \notin S /\ w .. (v - 1) \subseteq S) - 1

\* Where `while recent.remove(&watermark) { watermark += 1 }` stops.
Swept(S, w) ==
  CHOOSE v \in w .. (w + Cardinality(S)) : v \notin S /\ w .. (v - 1) \subseteq S

\* Slips a change to record() could make: the sweep left out, done once instead
\* of in a loop, or jumping over the gap below the id.
RecordNoSweep(od, id) == [od EXCEPT !.recent = @ \cup {id}]
RecordSweepOnce(od, id) ==
  LET S == od.recent \cup {id}
  IN  IF od.watermark \in S
      THEN [watermark |-> od.watermark + 1, recent |-> S \ {od.watermark}]
      ELSE [watermark |-> od.watermark, recent |-> S]
RecordJump(od, id) ==
  LET S == od.recent \cup {id}
  IN  [watermark |-> id + 1, recent |-> {i \in S : i > id + 1}]

Record(od, id) ==
  LET S == od.recent \cup {id}
      v == Swept(S, od.watermark)
  IN  [watermark |-> v, recent |-> S \ (od.watermark .. (v - 1))]

\* first_seen: its answer, and the map it leaves behind.
FirstSeen(d, o, id) == ~IsDup(d[o], id)

AfterSeen(d, o, id) ==
  IF FirstSeen(d, o, id) THEN [d EXCEPT ![o] = Record(d[o], id)] ELSE d

\* The ids an OriginDedup stands for: what the flat set it replaced would hold.
AppliedIds(od) == 0 .. (od.watermark - 1) \cup od.recent

\* Normal form kept by Record: the watermark is the least id not applied and
\* the window lies strictly above it.
Normal(od) == \A i \in od.recent : i > od.watermark
=============================================================================
