---------------------------- MODULE DeliveredLog ----------------------------
(***************************************************************************)
(* The bounded delivered-effect log of delivered_log.rs: the most recent    *)
(* effects a replica applied, each under its delivered index (the number    *)
(* of effects applied before it), oldest first.                             *)
(***************************************************************************)
EXTENDS Integers, Sequences

CONSTANT Cap    \* retention: DEFAULT_CAP in the code, clamped to at least 1

ASSUME CapAssumption == Cap \in Nat \ {0}

ResumedAt(index) == [entries |-> <<>>, head |-> index]

NewLog == ResumedAt(0)

\* Slip in append: no eviction at the capacity.
LogAppendNoEvict(log, op) ==
  [entries |-> Append(log.entries, [index |-> log.head, op |-> op]),
   head    |-> log.head + 1]

\* append: push at the back under head_index, then evict from the front while
\* the ring is above capacity (it holds at most Cap entries before the push).
LogAppend(log, op) ==
  LET pushed == Append(log.entries, [index |-> log.head, op |-> op])
  IN  [entries |-> IF Len(pushed) > Cap THEN Tail(pushed) ELSE pushed,
       head    |-> log.head + 1]

LowWaterIndex(log) ==
  IF log.entries = <<>> THEN log.head ELSE log.entries[1].index

CanServeFrom(log, x) == x >= LowWaterIndex(log) /\ x <= log.head

\* Slip: index > x.
EntriesAfter(log, x) ==
  IF x < LowWaterIndex(log)
  THEN log.entries
  ELSE SubSeq(log.entries, x - LowWaterIndex(log) + 2, Len(log.entries))

\* The retained entries with index >= x.  Indices are contiguous from the low
\* water mark, so the filter of the code is a suffix.
EntriesFrom(log, x) ==
  IF x <= LowWaterIndex(log)
  THEN log.entries
  ELSE SubSeq(log.entries, x - LowWaterIndex(log) + 1, Len(log.entries))
=============================================================================
