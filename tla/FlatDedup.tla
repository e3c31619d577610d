------------------------------ MODULE FlatDedup ------------------------------
(***************************************************************************)
(* What the write dedup promises: the flat set of applied (origin, id)      *)
(* pairs it replaced.  The comment on OriginDedup states that "the dedup    *)
(* decision is exactly equivalent to membership in the old unbounded set".  *)
(***************************************************************************)
EXTENDS Naturals

CONSTANTS Replica, Origin, Id

VARIABLES applied,   \* applied[r]: the pairs replica r has applied so far
          verdict    \* verdict[r]: the last answer of first_seen at r

Init ==
  /\ applied = [r \in Replica |-> {}]
  /\ verdict = [r \in Replica |-> FALSE]

\* BTreeSet::insert: TRUE exactly when the pair is new.
Deliver(r, o, i) ==
  /\ verdict' = [verdict EXCEPT ![r] = <<o, i>> \notin applied[r]]
  /\ applied' = [applied EXCEPT ![r] = @ \cup {<<o, i>>}]

Next == \E r \in Replica, o \in Origin, i \in Id : Deliver(r, o, i)

Spec == Init /\ [][Next]_<<applied, verdict>>
==============================================================================
