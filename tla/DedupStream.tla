----------------------------- MODULE DedupStream -----------------------------
(***************************************************************************)
(* Two replicas feed deliveries to their WriteDedup.  Ids arrive in any     *)
(* order and any number of times: re-broadcasts carry an id that was        *)
(* applied before, and nothing here assumes that an origin's ids are        *)
(* delivered first-in first-out.                                            *)
(***************************************************************************)
EXTENDS WriteDedup

CONSTANTS Replica,   \* the replicas
          Origin,    \* the nodes whose writes are delivered
          Id         \* the request ids used by the stream

ASSUME IdAssumption == Id \subseteq Nat

VARIABLES applied_ops,  \* applied_ops[r]: the WriteDedup of replica r
          verdict       \* verdict[r]: what first_seen last answered at r

StreamTypeOK ==
  /\ applied_ops \in [Replica -> [Origin -> OriginDedup]]
  /\ \A r \in Replica, o \in Origin : IsFiniteSet(applied_ops[r][o].recent)
  /\ verdict \in [Replica -> BOOLEAN]

StreamInit ==
  /\ applied_ops = [r \in Replica |-> NewDedup(Origin)]
  /\ verdict = [r \in Replica |-> FALSE]

\* One call of first_seen at replica r.
Deliver(r, o, i) ==
  /\ verdict' = [verdict EXCEPT ![r] = FirstSeen(applied_ops[r], o, i)]
  /\ applied_ops' = [applied_ops EXCEPT ![r] = AfterSeen(applied_ops[r], o, i)]

StreamNext == \E r \in Replica, o \in Origin, i \in Id : Deliver(r, o, i)

StreamSpec == StreamInit /\ [][StreamNext]_<<applied_ops, verdict>>

-----------------------------------------------------------------------------
\* The pairs each replica has applied.
AppliedPairs ==
  [r \in Replica |-> UNION {{<<o, i>> : i \in AppliedIds(applied_ops[r][o])} : o \in Origin}]

Flat == INSTANCE FlatDedup WITH applied <- AppliedPairs

\* Each replica's watermark and window decide exactly as the unbounded set did
\* (the comment on OriginDedup): no id is applied twice, none is dropped unseen.
RefinesFlatSet == Flat!Spec

\* The watermark is the least id not applied: first_seen's sweep leaves no id
\* in the window that it could have absorbed.
WindowNormal == \A r \in Replica, o \in Origin : Normal(applied_ops[r][o])

\* Replicas that applied the same writes hold the same dedup state, whatever
\* the order they saw them in; snapshots taken at either are interchangeable.
Canonical ==
  \A r, s \in Replica :
    (\A o \in Origin : AppliedIds(applied_ops[r][o]) = AppliedIds(applied_ops[s][o]))
      => applied_ops[r] = applied_ops[s]

==============================================================================
