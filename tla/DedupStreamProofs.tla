-------------------------- MODULE DedupStreamProofs --------------------------
(***************************************************************************)
(* What the operators of WriteDedup compute, for every watermark, every     *)
(* finite window and every id; and that DedupStream keeps its windows in    *)
(* normal form, makes equal histories equal states, and implements the flat *)
(* set it replaced, for any sets of replicas, origins and request ids.      *)
(***************************************************************************)
EXTENDS DedupStream, FiniteSetTheorems, WellFoundedInduction, TLAPS

-----------------------------------------------------------------------------
(* The operators *)

\* A nonempty set of naturals has a least element.
LEMMA LeastNat ==
  ASSUME NEW T \in SUBSET Nat, T # {}
  PROVE  \E m \in T : \A k \in T : m <= k
<1>1. PICK m \in T : \A k \in T : ~(<<k, m>> \in OpToRel(<, Nat))
  BY NatLessThanWellFounded, WFMin, Zenon
<1>2. \A k \in T : ~(k < m)
  BY <1>1 DEF OpToRel
<1>3. QED
  BY <1>2

\* The sweep loop of record() terminates, after at most as many rounds as the
\* window has ids, at the least id from the watermark on that was not applied.
LEMMA SweptIsLeastGap ==
  ASSUME NEW S \in SUBSET Nat, IsFiniteSet(S), NEW w \in Nat
  PROVE  /\ Swept(S, w) \in Nat
         /\ Swept(S, w) >= w
         /\ Swept(S, w) \notin S
         /\ \A k \in Nat : w <= k /\ k < Swept(S, w) => k \in S
<1> DEFINE top == w + Cardinality(S)
           T == {k \in w .. top : k \notin S}
<1>1. Cardinality(S) \in Nat
  BY FS_CardinalityType
<1>2. top \in Nat /\ T \in SUBSET Nat
  BY <1>1
<1>3. T # {}
  <2> SUFFICES ASSUME T = {} PROVE FALSE
    OBVIOUS
  <2>1. w .. top \in SUBSET S
    OBVIOUS
  <2>2. Cardinality(w .. top) <= Cardinality(S)
    BY <2>1, FS_Subset, Zenon
  <2>3. Cardinality(w .. top) = Cardinality(S) + 1
    BY <1>1, FS_Interval
  <2>4. QED
    BY <1>1, <2>2, <2>3
<1>4. PICK m \in T : \A k \in T : m <= k
  BY <1>2, <1>3, LeastNat
<1>5. /\ m \in w .. (w + Cardinality(S))
      /\ m \notin S
      /\ w .. (m - 1) \subseteq S
  BY <1>1, <1>2, <1>4
<1> DEFINE P(v) == v \notin S /\ w .. (v - 1) \subseteq S
<1>6. \E v \in w .. (w + Cardinality(S)) : P(v)
  BY <1>5
<1>7. /\ Swept(S, w) \in w .. (w + Cardinality(S))
      /\ P(Swept(S, w))
  <2> HIDE DEF P
  <2>1. Swept(S, w) = CHOOSE v \in w .. (w + Cardinality(S)) : P(v)
    BY DEF Swept, P
  <2> QED
    BY <1>6, <2>1
<1>8. QED
  BY <1>1, <1>7

\* record() adds exactly the id it is given to the applied ids, and leaves the
\* state in normal form with a finite window.
THEOREM RecordAddsExactlyId ==
  ASSUME NEW od \in OriginDedup, IsFiniteSet(od.recent), Normal(od),
         NEW id \in Nat, ~IsDup(od, id)
  PROVE  /\ Record(od, id) \in OriginDedup
         /\ IsFiniteSet(Record(od, id).recent)
         /\ Normal(Record(od, id))
         /\ \A j \in Nat : IsDup(Record(od, id), j) <=> IsDup(od, j) \/ j = id
<1> DEFINE S == od.recent \cup {id}
           w == od.watermark
           v == Swept(S, w)
           new == Record(od, id)
<1>1. w \in Nat /\ od.recent \in SUBSET Nat /\ S \in SUBSET Nat
  BY DEF OriginDedup
<1>2. IsFiniteSet(S)
  BY FS_AddElement
<1>3. /\ v \in Nat
      /\ v >= w
      /\ v \notin S
      /\ \A k \in Nat : w <= k /\ k < v => k \in S
  <2> HIDE DEF S, w
  <2> QED
    BY <1>1, <1>2, SweptIsLeastGap
<1>4. new = [watermark |-> v, recent |-> S \ (w .. (v - 1))]
  BY DEF Record
<1>5. new.watermark = v /\ new.recent = S \ (w .. (v - 1))
  BY <1>4
<1>6. \A k \in S : k >= w
  BY <1>1 DEF Normal, IsDup
<1>7. new \in OriginDedup
  BY <1>1, <1>3, <1>4 DEF OriginDedup
<1>8. IsFiniteSet(new.recent)
  BY <1>2, <1>5, FS_Subset
<1>9. Normal(new)
  <2> SUFFICES ASSUME NEW i \in new.recent PROVE i > v
    BY <1>5 DEF Normal
  <2>1. i \in S /\ i \in Nat /\ i \notin w .. (v - 1) /\ i >= w
    BY <1>1, <1>5, <1>6
  <2> QED
    BY <1>1, <1>3, <2>1
<1>10. ASSUME NEW j \in Nat
       PROVE  IsDup(new, j) <=> IsDup(od, j) \/ j = id
  <2>1. IsDup(new, j) <=> j < v \/ (j \in S /\ j \notin w .. (v - 1))
    BY <1>5 DEF IsDup
  <2>2. IsDup(od, j) \/ j = id <=> j < w \/ j \in S
    BY DEF IsDup
  <2> HIDE DEF S, w, v, new
  <2> QED
    BY <1>1, <1>3, <1>6, <2>1, <2>2
<1>11. QED
  BY <1>7, <1>8, <1>9, <1>10

\* The ids below the watermark together with the window are the ids for which
\* is_dup answers TRUE.
LEMMA AppliedIdsAreDups ==
  ASSUME NEW od \in OriginDedup
  PROVE  /\ AppliedIds(od) \in SUBSET Nat
         /\ \A j \in Nat : j \in AppliedIds(od) <=> IsDup(od, j)
  BY DEF AppliedIds, IsDup, OriginDedup

\* One call of first_seen, for one origin: the state it leaves is well formed
\* and stands for the applied ids plus the one delivered.
LEMMA AfterSeenAddsId ==
  ASSUME NEW Origins,
         NEW d \in [Origins -> OriginDedup],
         \A o \in Origins : IsFiniteSet(d[o].recent) /\ Normal(d[o]),
         NEW o \in Origins, NEW i \in Nat
  PROVE  /\ AfterSeen(d, o, i) \in [Origins -> OriginDedup]
         /\ \A p \in Origins : /\ IsFiniteSet(AfterSeen(d, o, i)[p].recent)
                              /\ Normal(AfterSeen(d, o, i)[p])
         /\ \A p \in Origins, j \in Nat :
              IsDup(AfterSeen(d, o, i)[p], j) <=> IsDup(d[p], j) \/ (p = o /\ j = i)
<1>1. CASE IsDup(d[o], i)
  BY <1>1 DEF AfterSeen, FirstSeen
<1>2. CASE ~IsDup(d[o], i)
  <2> DEFINE new == Record(d[o], i)
  <2>1. AfterSeen(d, o, i) = [d EXCEPT ![o] = new]
    BY <1>2 DEF AfterSeen, FirstSeen
  <2>2. /\ new \in OriginDedup
        /\ IsFiniteSet(new.recent)
        /\ Normal(new)
        /\ \A j \in Nat : IsDup(new, j) <=> IsDup(d[o], j) \/ j = i
    BY <1>2, RecordAddsExactlyId
  <2> HIDE DEF new
  <2> QED
    BY <2>1, <2>2
<1> QED
  BY <1>1, <1>2

\* Two states in normal form with the same applied ids are equal: the pair
\* (watermark, window) is a function of the set it stands for.
THEOREM NormalFormUnique ==
  ASSUME NEW a \in OriginDedup, NEW b \in OriginDedup, Normal(a), Normal(b),
         \A j \in Nat : IsDup(a, j) <=> IsDup(b, j)
  PROVE  a = b
<1>1. /\ a.watermark \in Nat /\ a.recent \in SUBSET Nat
      /\ b.watermark \in Nat /\ b.recent \in SUBSET Nat
      /\ a = [watermark |-> a.watermark, recent |-> a.recent]
      /\ b = [watermark |-> b.watermark, recent |-> b.recent]
  BY DEF OriginDedup
<1>2. ~IsDup(a, a.watermark) /\ ~IsDup(b, b.watermark)
  BY <1>1 DEF IsDup, Normal
<1>3. a.watermark = b.watermark
  BY <1>1, <1>2 DEF IsDup
<1>4. a.recent = b.recent
  BY <1>1, <1>3 DEF IsDup, Normal
<1>5. QED
  BY <1>1, <1>3, <1>4

-----------------------------------------------------------------------------
(* The stream *)

\* The inductive invariant: types, finite windows and the normal form.
StreamInv == StreamTypeOK /\ WindowNormal

LEMMA StreamInvInit == StreamInit => StreamInv
<1>1. IsFiniteSet({})
  BY FS_EmptySet
<1>2. NewOrigin \in OriginDedup /\ NewOrigin.recent = {}
  BY DEF NewOrigin, OriginDedup
<1> QED
  BY <1>1, <1>2 DEF StreamInit, StreamInv, StreamTypeOK, WindowNormal, Normal, NewDedup

LEMMA StreamInvKept == StreamInv /\ [StreamNext]_<<applied_ops, verdict>> => StreamInv'
<1> SUFFICES ASSUME StreamInv, [StreamNext]_<<applied_ops, verdict>> PROVE StreamInv'
  OBVIOUS
<1>1. CASE UNCHANGED <<applied_ops, verdict>>
  BY <1>1 DEF StreamInv, StreamTypeOK, WindowNormal
<1>2. ASSUME NEW r \in Replica, NEW o \in Origin, NEW i \in Id, Deliver(r, o, i)
      PROVE  StreamInv'
  <2> DEFINE new == AfterSeen(applied_ops[r], o, i)
  <2>1. i \in Nat
    BY IdAssumption
  <2>2. /\ applied_ops \in [Replica -> [Origin -> OriginDedup]]
        /\ verdict \in [Replica -> BOOLEAN]
        /\ \A s \in Replica, p \in Origin :
             IsFiniteSet(applied_ops[s][p].recent) /\ Normal(applied_ops[s][p])
    BY DEF StreamInv, StreamTypeOK, WindowNormal
  <2>3. /\ new \in [Origin -> OriginDedup]
        /\ \A p \in Origin : IsFiniteSet(new[p].recent) /\ Normal(new[p])
    BY <2>1, <2>2, AfterSeenAddsId
  <2>4. applied_ops' = [applied_ops EXCEPT ![r] = new]
    BY <1>2 DEF Deliver
  <2>5. verdict' \in [Replica -> BOOLEAN]
    BY <1>2, <2>2 DEF Deliver, FirstSeen, IsDup
  <2> HIDE DEF new
  <2> QED
    BY <2>2, <2>3, <2>4, <2>5 DEF StreamInv, StreamTypeOK, WindowNormal
<1> QED
  BY <1>1, <1>2 DEF StreamNext

\* Every replica's dedup state is well typed, with a finite window.
THEOREM StreamTypeCorrect == StreamSpec => []StreamTypeOK
<1>1. StreamInv => StreamTypeOK
  BY DEF StreamInv
<1> QED
  BY <1>1, StreamInvInit, StreamInvKept, PTL DEF StreamSpec

\* Whatever the ids delivered and in whatever order, the sweep of record()
\* leaves no id in the window that the watermark could have absorbed.
THEOREM WindowsStayNormal == StreamSpec => []WindowNormal
<1>1. StreamInv => WindowNormal
  BY DEF StreamInv
<1> QED
  BY <1>1, StreamInvInit, StreamInvKept, PTL DEF StreamSpec

\* Replicas that applied the same writes hold equal dedup states, so a
\* snapshot of either carries the same decisions.
THEOREM EqualHistoriesEqualStates == StreamSpec => []Canonical
<1>1. StreamInv => Canonical
  <2> SUFFICES ASSUME StreamInv, NEW r \in Replica, NEW s \in Replica,
                      \A o \in Origin : AppliedIds(applied_ops[r][o]) = AppliedIds(applied_ops[s][o])
               PROVE  applied_ops[r] = applied_ops[s]
    BY DEF Canonical
  <2>1. applied_ops[r] \in [Origin -> OriginDedup] /\ applied_ops[s] \in [Origin -> OriginDedup]
    BY DEF StreamInv, StreamTypeOK
  <2>2. ASSUME NEW o \in Origin PROVE applied_ops[r][o] = applied_ops[s][o]
    <3>1. \A j \in Nat : IsDup(applied_ops[r][o], j) <=> IsDup(applied_ops[s][o], j)
      BY <2>1, AppliedIdsAreDups
    <3> QED
      BY <2>1, <3>1, NormalFormUnique DEF StreamInv, WindowNormal
  <2> QED
    BY <2>1, <2>2
<1> QED
  BY <1>1, StreamInvInit, StreamInvKept, PTL DEF StreamSpec

\* Membership in the mapped flat set is is_dup.
LEMMA AppliedPairsMembership ==
  ASSUME StreamInv, NEW r \in Replica, NEW o \in Origin, NEW j \in Nat
  PROVE  <<o, j>> \in AppliedPairs[r] <=> IsDup(applied_ops[r][o], j)
<1>1. <<o, j>> \in AppliedPairs[r] <=> j \in AppliedIds(applied_ops[r][o])
  BY DEF AppliedPairs
<1>2. applied_ops[r][o] \in OriginDedup
  BY DEF StreamInv, StreamTypeOK
<1> QED
  BY <1>1, <1>2, AppliedIdsAreDups

\* The watermark and window implement the unbounded set of applied pairs: the
\* dedup decision of every delivery is the one that set would have given.
THEOREM ImplementsFlatSet == StreamSpec => RefinesFlatSet
<1>1. StreamInit => Flat!Init
  <2> SUFFICES ASSUME StreamInit PROVE Flat!Init
    OBVIOUS
  <2>1. \A r \in Replica, o \in Origin : AppliedIds(applied_ops[r][o]) = {}
    BY DEF StreamInit, NewDedup, NewOrigin, AppliedIds
  <2>2. AppliedPairs = [r \in Replica |-> {}]
    BY <2>1 DEF AppliedPairs
  <2> QED
    BY <2>2 DEF StreamInit, Flat!Init
<1>2. StreamInv /\ StreamInv' /\ [StreamNext]_<<applied_ops, verdict>>
        => [Flat!Next]_<<AppliedPairs, verdict>>
  <2> SUFFICES ASSUME StreamInv, StreamInv', [StreamNext]_<<applied_ops, verdict>>
               PROVE  [Flat!Next]_<<AppliedPairs, verdict>>
    OBVIOUS
  <2>1. CASE UNCHANGED <<applied_ops, verdict>>
    BY <2>1 DEF AppliedPairs
  <2>2. ASSUME NEW r \in Replica, NEW o \in Origin, NEW i \in Id, Deliver(r, o, i)
        PROVE  Flat!Deliver(r, o, i)
    <3>1. i \in Nat
      BY IdAssumption
    <3>2. /\ applied_ops \in [Replica -> [Origin -> OriginDedup]]
          /\ applied_ops' \in [Replica -> [Origin -> OriginDedup]]
          /\ verdict \in [Replica -> BOOLEAN]
          /\ applied_ops' = [applied_ops EXCEPT ![r] = AfterSeen(applied_ops[r], o, i)]
      BY <2>2 DEF StreamInv, StreamTypeOK, Deliver
    <3>3. \A p \in Origin, j \in Nat :
            IsDup(applied_ops'[r][p], j) <=> IsDup(applied_ops[r][p], j) \/ (p = o /\ j = i)
      <4>1. \A p \in Origin : IsFiniteSet(applied_ops[r][p].recent) /\ Normal(applied_ops[r][p])
        BY DEF StreamInv, StreamTypeOK, WindowNormal
      <4>2. applied_ops'[r] = AfterSeen(applied_ops[r], o, i) /\ applied_ops[r] \in [Origin -> OriginDedup]
        BY <3>2
      <4> QED
        BY <3>1, <4>1, <4>2, AfterSeenAddsId
    <3>4. \A s \in Replica : s # r => applied_ops'[s] = applied_ops[s]
      BY <3>2
    <3>5. \A s \in Replica, p \in Origin :
            /\ AppliedIds(applied_ops[s][p]) \in SUBSET Nat
            /\ AppliedIds(applied_ops'[s][p]) \in SUBSET Nat
      BY <3>2, AppliedIdsAreDups
    <3>6. AppliedPairs'[r] = AppliedPairs[r] \cup {<<o, i>>}
      <4>1. \A p \in Origin, j \in Nat :
              j \in AppliedIds(applied_ops'[r][p])
                <=> j \in AppliedIds(applied_ops[r][p]) \/ (p = o /\ j = i)
        BY <3>2, <3>3, AppliedIdsAreDups
      <4>2. /\ AppliedPairs[r] = UNION {{<<p, j>> : j \in AppliedIds(applied_ops[r][p])} : p \in Origin}
            /\ AppliedPairs'[r] = UNION {{<<p, j>> : j \in AppliedIds(applied_ops'[r][p])} : p \in Origin}
        BY DEF AppliedPairs
      <4> QED
        BY <3>1, <3>5, <4>1, <4>2
    <3>7. \A s \in Replica : s # r => AppliedPairs'[s] = AppliedPairs[s]
      BY <3>4 DEF AppliedPairs
    <3>8. AppliedPairs' = [AppliedPairs EXCEPT ![r] = @ \cup {<<o, i>>}]
      BY <3>6, <3>7 DEF AppliedPairs
    <3>9. verdict' = [verdict EXCEPT ![r] = <<o, i>> \notin AppliedPairs[r]]
      BY <2>2, <3>1, AppliedPairsMembership DEF Deliver, FirstSeen
    <3> QED
      BY <3>8, <3>9 DEF Flat!Deliver
  <2> QED
    BY <2>1, <2>2 DEF StreamNext, Flat!Next
<1> QED
  BY <1>1, <1>2, StreamInvInit, StreamInvKept, PTL DEF StreamSpec, RefinesFlatSet, Flat!Spec
==============================================================================
