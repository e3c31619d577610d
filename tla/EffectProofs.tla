---------------------------- MODULE EffectProofs ----------------------------
(***************************************************************************)
(* Effect replication for any replicas, clients, keys and commands.  The    *)
(* states that the order goes through are a history of their own: every     *)
(* replica is at one of them, and every effect was resolved at an earlier   *)
(* one.  What lies between is the op's window.                              *)
(***************************************************************************)
EXTENDS EffectReplication, MemStoreProofs

-----------------------------------------------------------------------------
(* The first members of a set *)

\* A set of naturals that is not empty has a least element.
LEMMA Least ==
  ASSUME NEW T \in SUBSET Nat, T # {}
  PROVE  \E m \in T : \A k \in T : m <= k
<1>1. PICK m \in T : \A k \in T : ~(<<k, m>> \in OpToRel(<, Nat))
  BY NatLessThanWellFounded, WFMin, Zenon
<1>2. \A k \in T : ~(k < m)
  BY <1>1 DEF OpToRel
<1> QED
  BY <1>2

Rank(s, m) == Cardinality({x \in s : x < m})

LEMMA Ranks ==
  ASSUME NEW s \in SUBSET Int, IsFiniteSet(s)
  PROVE  /\ \A m \in Int : Rank(s, m) \in Nat
         /\ \A x, y \in s : x < y => Rank(s, x) < Rank(s, y)
<1>1. \A m : IsFiniteSet({x \in s : x < m}) /\ Rank(s, m) \in Nat
  BY FS_Subset, FS_CardinalityType DEF Rank
<1>2. \A z \in s : z \in Int
  OBVIOUS
<1>3. ASSUME NEW x \in s, NEW y \in s, x < y
      PROVE  Rank(s, x) < Rank(s, y)
  <2> DEFINE A == {z \in s : z < x}
             B == {z \in s : z < y}
  <2>1. A \in SUBSET B
    <3>1. \A z \in s : z < x => z < y
      BY <1>2, <1>3
    <3> QED
      BY <3>1
  <2>2. x \in B /\ x \notin A
    BY <1>2, <1>3
  <2>3. Rank(s, x) = Cardinality(A) /\ Rank(s, y) = Cardinality(B)
    BY DEF Rank
  <2>4. IsFiniteSet(B) /\ Rank(s, x) \in Nat /\ Rank(s, y) \in Nat
    BY <1>1
  <2> HIDE DEF A, B
  <2>5. Cardinality(A) <= Cardinality(B) /\ Cardinality(A) # Cardinality(B)
    BY <2>1, <2>2, <2>4, FS_Subset
  <2> QED
    BY <2>3, <2>4, <2>5
<1> QED
  BY <1>1, <1>3

LEMMA SomeOf ==
  ASSUME NEW s \in SUBSET Int, IsFiniteSet(s), NEW n \in Int
  PROVE  /\ FirstOf(s, n) \in SUBSET s /\ IsFiniteSet(FirstOf(s, n))
         /\ FirstOf(s, n) = {m \in s : Rank(s, m) < n}
         /\ n <= 0 => FirstOf(s, n) = {}
<1>1. FirstOf(s, n) = {m \in s : Rank(s, m) < n}
  BY DEF FirstOf, Rank
<1>2. FirstOf(s, n) \in SUBSET s
  BY <1>1
<1>3. n <= 0 => FirstOf(s, n) = {}
  <2>1. \A m \in s : m \in Int
    OBVIOUS
  <2>2. \A m \in s : Rank(s, m) \in Nat
    BY <2>1, Ranks
  <2>3. n <= 0 => \A m \in s : ~(Rank(s, m) < n)
    BY <2>2
  <2> QED
    BY <1>1, <2>3
<1> QED
  BY <1>1, <1>2, <1>3, FS_Subset

\* One more: the least of those left, if any is left.
LEMMA OneMore ==
  ASSUME NEW s \in SUBSET Int, IsFiniteSet(s), NEW n \in Nat, FirstOf(s, n) # s,
         Cardinality(FirstOf(s, n)) = n
  PROVE  \E m \in s \ FirstOf(s, n) : FirstOf(s, n + 1) = FirstOf(s, n) \cup {m}
<1> DEFINE A == FirstOf(s, n)
           T == {Rank(s, x) : x \in s \ A}
<1>1. A \in SUBSET s /\ IsFiniteSet(A) /\ A = {m \in s : Rank(s, m) < n}
  BY SomeOf
<1>2. T \in SUBSET Nat /\ T # {}
  BY <1>1, Ranks
<1> HIDE DEF A
<1>3. PICK m \in s \ A : \A x \in s \ A : Rank(s, m) <= Rank(s, x)
  <2>1. PICK r \in T : \A k \in T : r <= k
    BY <1>2, Least
  <2> QED
    BY <2>1
<1>4. \A x \in s : x < m => x \in A
  BY <1>3, Ranks
<1>5. Rank(s, m) = n
  <2>1. {x \in s : x < m} \in SUBSET A
    BY <1>4
  <2>2. Rank(s, m) <= Cardinality(A)
    BY <1>1, <2>1, FS_Subset DEF Rank
  <2>3. Rank(s, m) \in Nat /\ ~(Rank(s, m) < n)
    BY <1>1, <1>3, Ranks
  <2> QED
    BY <2>2, <2>3 DEF A
<1>6. FirstOf(s, n + 1) = {x \in s : Rank(s, x) < n + 1}
  BY SomeOf
<1>7. \A x \in s : Rank(s, x) < n + 1 <=> Rank(s, x) < n \/ x = m
  <2>1. \A x \in s : Rank(s, x) \in Nat /\ (x < m \/ x = m \/ m < x)
    BY Ranks
  <2>2. \A x \in s : m < x => n < Rank(s, x)
    BY <1>3, <1>5, Ranks
  <2>3. \A x \in s : x < m => Rank(s, x) < n
    BY <1>3, <1>5, Ranks
  <2> QED
    BY <1>5, <2>1, <2>2, <2>3
<1>8. FirstOf(s, n + 1) = A \cup {m}
  BY <1>1, <1>3, <1>6, <1>7
<1> QED
  BY <1>3, <1>8 DEF A

\* The first n members are n of them, or all.
LEMMA FirstAreSome ==
  ASSUME NEW s \in SUBSET Int, IsFiniteSet(s), NEW n \in Nat
  PROVE  /\ Cardinality(FirstOf(s, n)) = IF n <= Cardinality(s) THEN n ELSE Cardinality(s)
         /\ Cardinality(s) \in Nat
<1> DEFINE Q(i) == Cardinality(FirstOf(s, i)) = IF i <= Cardinality(s) THEN i ELSE Cardinality(s)
           T == {i \in Nat : ~Q(i)}
<1>1. Cardinality(s) \in Nat
  BY FS_CardinalityType
<1>2. ASSUME T # {}
      PROVE  FALSE
  <2>1. PICK i \in T : \A j \in T : i <= j
    <3>1. T \in SUBSET Nat
      OBVIOUS
    <3> QED
      BY <1>2, <3>1, Least
  <2>2. i \in Nat /\ ~Q(i)
    BY <2>1
  <2>3. i # 0
    <3>1. FirstOf(s, 0) = {}
      BY SomeOf
    <3> QED
      BY <1>1, <2>2, <3>1, FS_EmptySet
  <2>4. i - 1 \in Nat /\ Q(i - 1)
    <3>1. i - 1 \in Nat
      BY <2>2, <2>3
    <3> QED
      BY <2>1, <3>1
  <2> DEFINE A == FirstOf(s, i - 1)
  <2>5. A \in SUBSET s /\ IsFiniteSet(A) /\ FirstOf(s, i) \in SUBSET s
    BY <2>2, <2>4, SomeOf
  <2>6. CASE A = s
    <3>1. \A x \in s : Rank(s, x) \in Nat /\ Rank(s, x) < i - 1
      BY <2>4, <2>6, SomeOf, Ranks
    <3>2. FirstOf(s, i) = s
      <4>1. FirstOf(s, i) = {x \in s : Rank(s, x) < i}
        BY <2>2, SomeOf
      <4> HIDE DEF Q, A, T
      <4>2. \A x \in s : Rank(s, x) < i
        BY <2>2, <3>1
      <4> QED
        BY <4>1, <4>2
    <3>3. Cardinality(s) <= i - 1
      BY <1>1, <2>4, <2>6
    <3> QED
      BY <1>1, <2>2, <3>2, <3>3
  <2>7. CASE A # s
    <3>1. Cardinality(A) <= Cardinality(s) /\ Cardinality(A) # Cardinality(s)
      BY <2>5, <2>7, FS_Subset
    <3>2. Cardinality(A) = i - 1 /\ i <= Cardinality(s)
      BY <1>1, <2>2, <2>4, <3>1
    <3>3. PICK m \in s \ A : FirstOf(s, i - 1 + 1) = A \cup {m}
      BY <2>4, <2>7, <3>2, OneMore
    <3>4. FirstOf(s, i) = A \cup {m}
      BY <2>2, <3>3
    <3>5. Cardinality(FirstOf(s, i)) = i
      BY <2>2, <2>5, <3>2, <3>3, <3>4, FS_AddElement, SMTT(20)
    <3> QED
      BY <2>2, <3>2, <3>5
  <2> QED
    BY <2>6, <2>7
<1> QED
  BY <1>1, <1>2

-----------------------------------------------------------------------------
(* Resolution *)

Issued == UNION {MayIssue[c] : c \in Client}

\* The commands that are broadcast, and the replies that are resolved with them.
Effect ==
  Issued \cup {Srem(k, ms) : k \in Key, ms \in SUBSET Member}
    \cup {SetTo(k, v) : k \in Key, v \in Content}
    \cup {HsetTo(k, f, v) : k \in Key, f \in Field, v \in Content}
Told == {NoReply} \cup {Members(s) : s \in SUBSET Member} \cup {Bulk(v) : v \in Content}

LEMMA Resolutions ==
  /\ \A e, r : Broadcast(e, r).broadcast /\ Broadcast(e, r).effect = e /\ Broadcast(e, r).reply = r
  /\ \A r : ~Immediate(r).broadcast
BY DEF Broadcast, Immediate

\* What SPOP pops of a set it finds.
Count(c) == IF c.count = {} THEN 1 ELSE Max(c.count)

LEMMA SpopShape ==
  ASSUME NEW st \in SoundStore, NEW c, IsIssuable(c), c.name = "SPOP",
         Resolve(st, c).broadcast
  PROVE  LET members == SetAt(st, c.key)
             popped == FirstOf(members, Count(c))
         IN  /\ ~WrongType(st, c.key, "set") /\ c.key \in Key
             /\ members \in SUBSET Member /\ IsFiniteSet(members)
             /\ popped # {} /\ popped \in SUBSET members /\ IsFiniteSet(popped)
             /\ Count(c) \in Nat /\ Count(c) > 0
             /\ Resolve(st, c) = Broadcast(Srem(c.key, popped), Members(popped))
<1> DEFINE members == SetAt(st, c.key)
           popped == FirstOf(members, Count(c))
<1>1. c.key \in Key /\ Count(c) \in Int
  BY DEF IsIssuable, NonDeterministic, Count
<1>2. Resolve(st, c) = ResolveSpop(st, c)
  BY DEF Resolve
<1>3. ~WrongType(st, c.key, "set") /\ popped # {}
  BY <1>2, Resolutions DEF ResolveSpop, Count
<1>4. ResolveSpop(st, c) = Broadcast(Srem(c.key, popped), Members(popped))
  BY <1>3 DEF ResolveSpop, Count
<1>5. members \in SUBSET Member /\ IsFiniteSet(members) /\ members \in SUBSET Int
  BY <1>1, <1>3, SetFound, StoreAssumption
<1>6. popped \in SUBSET members /\ IsFiniteSet(popped) /\ ~(Count(c) <= 0)
  BY <1>1, <1>3, <1>5, SomeOf
<1>7. Count(c) \in Nat /\ Count(c) > 0
  BY <1>1, <1>6
<1> QED
  BY <1>1, <1>2, <1>3, <1>4, <1>5, <1>6, <1>7

LEMMA IncrbyfloatShape ==
  ASSUME NEW st, NEW c, IsIssuable(c), c.name = "INCRBYFLOAT", Resolve(st, c).broadcast
  PROVE  LET next == FloatSum(FloatAt(st, c.key), c.val)
         IN  /\ ~WrongType(st, c.key, "string") /\ c.key \in Key
             /\ IsFloat(next) /\ next \in Content
             /\ Resolve(st, c) = Broadcast(SetTo(c.key, next), Bulk(next))
<1> DEFINE next == FloatSum(FloatAt(st, c.key), c.val)
<1>1. c.key \in Key
  BY DEF IsIssuable, NonDeterministic
<1>2. Resolve(st, c) = ResolveIncrbyfloat(st, c)
  BY DEF Resolve
<1>3. ~WrongType(st, c.key, "string") /\ IsFloat(next)
  BY <1>2, Resolutions DEF ResolveIncrbyfloat
<1>4. next \in Content
  BY <1>3 DEF FloatSum, IsFloat, Num, Text, Content
<1>5. ResolveIncrbyfloat(st, c) = Broadcast(SetTo(c.key, next), Bulk(next))
  BY <1>3 DEF ResolveIncrbyfloat
<1> QED
  BY <1>1, <1>2, <1>3, <1>4, <1>5

LEMMA HincrbyfloatShape ==
  ASSUME NEW st, NEW c, IsIssuable(c), c.name = "HINCRBYFLOAT", Resolve(st, c).broadcast
  PROVE  LET next == FloatSum(FloatIn(HashAt(st, c.key), c.field), c.val)
         IN  /\ ~WrongType(st, c.key, "hash") /\ c.key \in Key /\ c.field \in Field
             /\ IsFloat(next) /\ next \in Content
             /\ Resolve(st, c) = Broadcast(HsetTo(c.key, c.field, next), Bulk(next))
<1> DEFINE next == FloatSum(FloatIn(HashAt(st, c.key), c.field), c.val)
<1>1. c.key \in Key /\ c.field \in Field
  BY DEF IsIssuable, NonDeterministic
<1>2. Resolve(st, c) = ResolveHincrbyfloat(st, c)
  BY DEF Resolve
<1>3. ~WrongType(st, c.key, "hash") /\ IsFloat(next)
  BY <1>2, Resolutions DEF ResolveHincrbyfloat
<1>4. next \in Content
  BY <1>3 DEF FloatSum, IsFloat, Num, Text, Content
<1>5. ResolveHincrbyfloat(st, c) = Broadcast(HsetTo(c.key, c.field, next), Bulk(next))
  BY <1>3 DEF ResolveHincrbyfloat
<1> QED
  BY <1>1, <1>2, <1>3, <1>4, <1>5

LEMMA OtherShape ==
  ASSUME NEW st, NEW c, IsIssuable(c), c.name \notin NonDeterministic
  PROVE  Resolve(st, c) = Broadcast(c, NoReply) /\ IsCommand(c)
BY DEF Resolve, NonDeterministic, IsIssuable

\* An effect is a command of the store that names the keys its command names.
LEMMA EffectIsCommand ==
  ASSUME NEW st \in SoundStore, NEW c \in Issued, IsIssuable(c), Resolve(st, c).broadcast
  PROVE  LET r == Resolve(st, c)
         IN  /\ r = Broadcast(r.effect, r.reply) /\ r.effect \in Effect /\ r.reply \in Told
             /\ IsCommand(r.effect) /\ KeysOf(r.effect) = KeysOf(c)
<1> DEFINE r == Resolve(st, c)
<1> SUFFICES \E e \in Effect, t \in Told :
               r = Broadcast(e, t) /\ IsCommand(e) /\ KeysOf(e) = KeysOf(c)
  BY Resolutions
<1>1. CASE c.name = "SPOP"
  <2> DEFINE popped == FirstOf(SetAt(st, c.key), Count(c))
  <2>1. /\ c.key \in Key /\ popped \in (SUBSET Member) \ {{}} /\ IsFiniteSet(popped)
        /\ r = Broadcast(Srem(c.key, popped), Members(popped))
    BY <1>1, SpopShape
  <2> HIDE DEF popped, r
  <2>2. Srem(c.key, popped) \in Effect /\ Members(popped) \in Told
    BY <2>1 DEF Effect, Told
  <2>3. IsCommand(Srem(c.key, popped)) /\ KeysOf(Srem(c.key, popped)) = {c.key}
    BY <2>1 DEF IsCommand, Srem, KeysOf
  <2>4. KeysOf(c) = {c.key}
    BY <1>1 DEF KeysOf
  <2> QED
    BY <2>1, <2>2, <2>3, <2>4
<1>2. CASE c.name = "INCRBYFLOAT"
  <2> DEFINE next == FloatSum(FloatAt(st, c.key), c.val)
  <2>1. c.key \in Key /\ next \in Content /\ r = Broadcast(SetTo(c.key, next), Bulk(next))
    BY <1>2, IncrbyfloatShape
  <2> HIDE DEF next, r
  <2>2. SetTo(c.key, next) \in Effect /\ Bulk(next) \in Told
    BY <2>1 DEF Effect, Told
  <2>3. IsCommand(SetTo(c.key, next)) /\ KeysOf(SetTo(c.key, next)) = {c.key}
    BY <2>1 DEF IsCommand, SetTo, KeysOf
  <2>4. KeysOf(c) = {c.key}
    BY <1>2 DEF KeysOf
  <2> QED
    BY <2>1, <2>2, <2>3, <2>4
<1>3. CASE c.name = "HINCRBYFLOAT"
  <2> DEFINE next == FloatSum(FloatIn(HashAt(st, c.key), c.field), c.val)
             e == HsetTo(c.key, c.field, next)
  <2>1. /\ c.key \in Key /\ c.field \in Field /\ next \in Content
        /\ r = Broadcast(e, Bulk(next))
    BY <1>3, HincrbyfloatShape
  <2> HIDE DEF next, r
  <2>2. e \in Effect /\ Bulk(next) \in Told
    BY <2>1 DEF Effect, Told
  <2>3. {c.field} \in (SUBSET Field) \ {{}} /\ [g \in {c.field} |-> next] \in [{c.field} -> Content]
    BY <2>1, OnePair
  <2>4. IsCommand(e) /\ KeysOf(e) = {c.key}
    BY <2>1, <2>3 DEF IsCommand, HsetTo, KeysOf
  <2>5. KeysOf(c) = {c.key}
    BY <1>3 DEF KeysOf
  <2> QED
    BY <2>1, <2>2, <2>4, <2>5
<1>4. CASE c.name \notin NonDeterministic
  <2>1. c \in Effect /\ NoReply \in Told
    BY DEF Effect, Told
  <2> QED
    BY <1>4, <2>1, OtherShape
<1> QED
  BY <1>1, <1>2, <1>3, <1>4 DEF NonDeterministic

-----------------------------------------------------------------------------
(* An effect on the state it was resolved on, as far as its key goes *)

LEMMA SameKey ==
  ASSUME NEW st, NEW base, NEW k, st.data[k] = base.data[k]
  PROVE  /\ SetAt(st, k) = SetAt(base, k) /\ HashAt(st, k) = HashAt(base, k)
         /\ FloatAt(st, k) = FloatAt(base, k)
         /\ \A type : WrongType(st, k, type) <=> WrongType(base, k, type)
BY DEF SetAt, HashAt, FloatAt, WrongType, Has, IsA

\* The set of k with ms taken out of it, whoever resolved that: a legal pop if
\* ms is a pop of what is there.
LEMMA PopIsLegal ==
  ASSUME NEW st \in SoundStore, NEW op, op.cmd.name = "SPOP", IsIssuable(op.cmd),
         NEW ms \in SUBSET SetAt(st, op.cmd.key), ms # {},
         op.effect = Srem(op.cmd.key, ms), op.reply = Members(ms),
         ~WrongType(st, op.cmd.key, "set"),
         Cardinality(ms) = IF Count(op.cmd) <= Cardinality(SetAt(st, op.cmd.key))
                           THEN Count(op.cmd) ELSE Cardinality(SetAt(st, op.cmd.key)),
         Count(op.cmd) \in Nat, Count(op.cmd) > 0
  PROVE  ActsAtomically(st, op)
<1> DEFINE c == op.cmd
           members == SetAt(st, c.key)
           n == IF c.count = {} THEN 1 ELSE Max(c.count \cup {0})
           a == Outcome(ApplySrem(st, c.key, ms).st, Members(ms))
<1>1. c.key \in Key /\ (c.count # {} => Max(c.count) \in Int /\ c.count = {Max(c.count)})
  BY DEF IsIssuable, NonDeterministic
<1>2. n = Count(c)
  <2>1. CASE c.count = {}
    BY <2>1 DEF Count
  <2>2. CASE c.count # {}
    <3>1. PICK i \in Nat : i = Max(c.count) /\ c.count = {i} /\ i > 0 /\ i = Count(c)
      BY <1>1, <2>2 DEF Count
    <3>2. Max({i} \cup {0}) = i
      <4> DEFINE S == {i} \cup {0}
      <4>1. i \in S /\ \A y \in S : i >= y
        BY <3>1
      <4>2. \A x \in S : (\A y \in S : x >= y) => x = i
        BY <3>1
      <4> HIDE DEF S
      <4> QED
        BY <4>1, <4>2 DEF Max
    <3> QED
      BY <2>2, <3>1, <3>2
  <2> QED
    BY <2>1, <2>2
<1> HIDE DEF n
<1>3. IsFiniteSet(members) /\ Cardinality(members) \in Nat /\ members # {}
  BY <1>1, SetFound, FS_CardinalityType
<1>4. Cardinality(ms) = Min({n, Cardinality(members)})
  BY <1>2, <1>3 DEF Min
<1>5. a \in Pops(st, c)
  <2>1. ~(members = {} \/ n = 0)
    BY <1>2, <1>3
  <2>2. Pops(st, c) = {Outcome(ApplySrem(st, c.key, s).st, Members(s)) :
                         s \in {s \in SUBSET members : Cardinality(s) = Min({n, Cardinality(members)})}}
    BY <2>1 DEF Pops, n
  <2> QED
    BY <1>4, <2>2
<1>6. Atomically(st, c) = Pops(st, c)
  BY DEF Atomically
<1>7. Apply(st, op.effect) = ApplySrem(st, c.key, ms)
  BY DEF Apply, Srem
<1>8. ReplyTo(op, Apply(st, op.effect).reply) = Members(ms)
  BY DEF ReplyTo, Members, NoReply
<1> QED
  BY <1>5, <1>6, <1>7, <1>8 DEF ActsAtomically, Outcome

\* If the key holds what it held when the effect was resolved, the effect does
\* what the command would do.
LEMMA AtomicIfSame ==
  ASSUME NEW base \in SoundStore, NEW st \in SoundStore, NEW op, IsIssuable(op.cmd),
         Resolve(base, op.cmd) = Broadcast(op.effect, op.reply),
         op.cmd.name \in NonDeterministic => st.data[op.cmd.key] = base.data[op.cmd.key]
  PROVE  ActsAtomically(st, op)
<1> DEFINE c == op.cmd
           out == Apply(st, op.effect)
<1>1. Resolve(base, c).broadcast
  BY Resolutions
<1>2. \A e, r : Resolve(base, c) = Broadcast(e, r) => op.effect = e /\ op.reply = r
  BY DEF Broadcast
<1>3. c.name \in NonDeterministic =>
        /\ SetAt(st, c.key) = SetAt(base, c.key) /\ HashAt(st, c.key) = HashAt(base, c.key)
        /\ FloatAt(st, c.key) = FloatAt(base, c.key)
        /\ \A type : WrongType(st, c.key, type) <=> WrongType(base, c.key, type)
  BY SameKey
<1>4. CASE c.name = "SPOP"
  <2> DEFINE members == SetAt(base, c.key)
             popped == FirstOf(members, Count(c))
  <2>1. /\ ~WrongType(base, c.key, "set")
        /\ members \in SUBSET Member /\ IsFiniteSet(members)
        /\ popped # {} /\ popped \in SUBSET members
        /\ Count(c) \in Nat /\ Count(c) > 0
        /\ Resolve(base, c) = Broadcast(Srem(c.key, popped), Members(popped))
    BY <1>1, <1>4, SpopShape
  <2>2. Cardinality(popped) = IF Count(c) <= Cardinality(members)
                              THEN Count(c) ELSE Cardinality(members)
    BY <2>1, FirstAreSome, StoreAssumption
  <2>3. op.effect = Srem(c.key, popped) /\ op.reply = Members(popped)
    BY <1>2, <2>1
  <2>4. SetAt(st, c.key) = members /\ ~WrongType(st, c.key, "set")
    BY <1>3, <1>4, <2>1 DEF NonDeterministic
  <2> HIDE DEF members, popped
  <2> QED
    BY <1>4, <2>1, <2>2, <2>3, <2>4, PopIsLegal
<1>5. CASE c.name = "INCRBYFLOAT"
  <2> DEFINE next == FloatSum(FloatAt(base, c.key), c.val)
  <2>1. /\ ~WrongType(base, c.key, "string") /\ c.key \in Key
        /\ IsFloat(next) /\ next \in Content
        /\ Resolve(base, c) = Broadcast(SetTo(c.key, next), Bulk(next))
    BY <1>1, <1>5, IncrbyfloatShape
  <2>2. next = FloatSum(FloatAt(st, c.key), c.val) /\ ~WrongType(st, c.key, "string")
    BY <1>3, <1>5, <2>1 DEF NonDeterministic
  <2>3. op.effect = SetTo(c.key, next) /\ op.reply = Bulk(next)
    BY <1>2, <2>1
  <2>4. Atomically(st, c) = Adds(st, next, Put(st, c.key, Str(next)))
    BY <1>5, <2>2 DEF Atomically
  <2> HIDE DEF next
  <2>5. Outcome(Put(st, c.key, Str(next)), Bulk(next)) \in Atomically(st, c)
    BY <2>1, <2>4 DEF Adds
  <2>6. out = ApplySet(st, c.key, next)
    BY <2>3 DEF Apply, SetTo
  <2>7. out.st.data = Put(st, c.key, Str(next)).data
    BY <2>1, <2>6, SetGood
  <2>8. ReplyTo(op, out.reply) = Bulk(next)
    BY <2>3 DEF ReplyTo, Bulk, NoReply
  <2> QED
    BY <2>5, <2>7, <2>8 DEF ActsAtomically, Outcome
<1>6. CASE c.name = "HINCRBYFLOAT"
  <2> DEFINE next == FloatSum(FloatIn(HashAt(base, c.key), c.field), c.val)
             pairs == [g \in {c.field} |-> next]
  <2>1. /\ ~WrongType(base, c.key, "hash")
        /\ IsFloat(next)
        /\ Resolve(base, c) = Broadcast(HsetTo(c.key, c.field, next), Bulk(next))
    BY <1>1, <1>6, HincrbyfloatShape
  <2>2. /\ next = FloatSum(FloatIn(HashAt(st, c.key), c.field), c.val)
        /\ ~WrongType(st, c.key, "hash")
    BY <1>3, <1>6, <2>1 DEF NonDeterministic
  <2>3. op.effect = HsetTo(c.key, c.field, next) /\ op.reply = Bulk(next)
    BY <1>2, <2>1
  <2>4. Atomically(st, c) = Adds(st, next, ApplyHset(st, c.key, pairs).st)
    BY <1>6, <2>2 DEF Atomically
  <2>5. out = ApplyHset(st, c.key, pairs)
    BY <2>3 DEF Apply, HsetTo
  <2> HIDE DEF next, pairs
  <2>6. Outcome(ApplyHset(st, c.key, pairs).st, Bulk(next)) \in Atomically(st, c)
    BY <2>1, <2>4 DEF Adds
  <2>7. ReplyTo(op, out.reply) = Bulk(next)
    BY <2>3 DEF ReplyTo, Bulk, NoReply
  <2> QED
    BY <2>5, <2>6, <2>7 DEF ActsAtomically, Outcome
<1>7. CASE c.name \notin NonDeterministic
  <2>1. op.effect = c /\ op.reply = NoReply
    BY <1>2, <1>7, OtherShape
  <2>2. Atomically(st, c) = {Apply(st, c)}
    BY <1>7 DEF Atomically, NonDeterministic
  <2> QED
    BY <2>1, <2>2 DEF ActsAtomically, ReplyTo
<1> QED
  BY <1>4, <1>5, <1>6, <1>7 DEF NonDeterministic

\* Whatever became of the key, a single SPOP's effect is a legal SPOP of what is
\* there, or it takes no element from it.
LEMMA PopOrNothing ==
  ASSUME NEW base \in SoundStore, NEW st \in SoundStore, NEW op, IsIssuable(op.cmd),
         Resolve(base, op.cmd) = Broadcast(op.effect, op.reply),
         op.cmd.name = "SPOP", op.cmd.count = {}
  PROVE  ActsAtomically(st, op) \/ TakesNothing(st, op.effect)
<1> DEFINE c == op.cmd
           found == SetAt(base, c.key)
           popped == FirstOf(found, 1)
           members == SetAt(st, c.key)
<1>1. Resolve(base, c).broadcast /\ Count(c) = 1
  BY Resolutions DEF Count
<1>2. /\ c.key \in Key /\ found \in SUBSET Member /\ IsFiniteSet(found)
      /\ popped # {} /\ popped \in SUBSET found
      /\ Resolve(base, c) = Broadcast(Srem(c.key, popped), Members(popped))
  BY <1>1, SpopShape
<1>3. op.effect = Srem(c.key, popped) /\ op.reply = Members(popped)
  BY <1>2 DEF Broadcast
<1>4. IsFiniteSet(popped) /\ Cardinality(popped) = 1
  <2>1. Cardinality(popped) = IF 1 <= Cardinality(found) THEN 1 ELSE Cardinality(found)
    BY <1>2, FirstAreSome, StoreAssumption
  <2>2. Cardinality(found) \in Nat /\ Cardinality(found) # 0
    BY <1>2, FS_CardinalityType, FS_EmptySet
  <2>3. IsFiniteSet(popped)
    BY <1>2, FS_Subset
  <2> HIDE DEF popped, found
  <2> QED
    BY <2>1, <2>2, <2>3
<1>5. PICK m : popped = {m}
  BY <1>4, FS_Singleton
<1>6. Apply(st, op.effect) = ApplySrem(st, c.key, {m})
  BY <1>3, <1>5 DEF Apply, Srem
<1>7. CASE WrongType(st, c.key, "set")
  BY <1>6, <1>7 DEF ApplySrem, Outcome, TakesNothing
<1>8. CASE ~WrongType(st, c.key, "set") /\ m \in members
  <2>1. Cardinality(members) \in Nat /\ 1 <= Cardinality(members)
    <3>1. IsFiniteSet(members) /\ members # {}
      BY <1>2, <1>8, SetFound
    <3>2. Cardinality(members) \in Nat /\ Cardinality(members) # 0
      BY <3>1, FS_CardinalityType, FS_EmptySet
    <3> QED
      BY <3>2
  <2>2. ActsAtomically(st, op)
    BY <1>1, <1>3, <1>4, <1>5, <1>8, <2>1, PopIsLegal
  <2> QED
    BY <2>2
<1>9. CASE ~WrongType(st, c.key, "set") /\ m \notin members
  <2>1. members \ {m} = members
    BY <1>9
  <2>2. Apply(st, op.effect).st = Put(st, c.key, IF members = {} THEN Absent ELSE Set(members))
    BY <1>6, <1>9, <2>1 DEF ApplySrem, Outcome
  <2>3. Put(st, c.key, st.data[c.key]) = st
    BY <1>2, StoreShape DEF Put, Store
  <2>4. CASE ~Has(st, c.key)
    BY <1>2, <1>9, <2>2, <2>3, <2>4, SetFound DEF Has, TakesNothing
  <2>5. CASE Has(st, c.key)
    <3>1. st.data[c.key] = Set(members)
      BY <1>2, <1>9, <2>5, SetFound
    <3>2. op.effect.key = c.key
      BY <1>3 DEF Srem
    <3> QED
      BY <2>2, <2>3, <3>1, <3>2 DEF TakesNothing
  <2> QED
    BY <2>4, <2>5
<1> QED
  BY <1>7, <1>8, <1>9

-----------------------------------------------------------------------------
(* The invariant *)

Op == [client : Client, origin : Node, cmd : Issued, base : Nat, effect : Effect, reply : Told]

Types ==
  /\ at \in [Client -> Node]
  /\ queued \subseteq Op /\ order \in Seq(Op)
  /\ pos \in [Node -> Nat]
  /\ kv \in [Node -> SoundStore]

\* S is what a store goes through that applies the order.
Past(S) ==
  /\ S \in [0 .. Len(order) -> SoundStore]
  /\ S[0] = EmptyStore
  /\ \A k \in 1 .. Len(order) : S[k] = Apply(S[k - 1], order[k].effect).st

\* op was resolved on one of the states of S, i or an earlier one.
Resolved(S, op, i) ==
  /\ op.base \in 0 .. i
  /\ Resolve(S[op.base], op.cmd) = Broadcast(op.effect, op.reply)

History(S) ==
  /\ Past(S)
  /\ \A n \in Node : pos[n] \in 0 .. Len(order) /\ kv[n] = S[pos[n]]
  /\ \A op \in queued : Resolved(S, op, Len(order))
  /\ \A k \in 1 .. Len(order) : Resolved(S, order[k], k - 1)

IInv == Types /\ \E S : History(S)

LEMMA IssuedIsIssuable == \A c \in Issued : IsIssuable(c)
BY EffectAssumption DEF Issued

\* What was resolved on a sound store is a command of it.
LEMMA ResolvedIsCommand ==
  ASSUME NEW st \in SoundStore, NEW op \in Op,
         Resolve(st, op.cmd) = Broadcast(op.effect, op.reply)
  PROVE  IsCommand(op.effect) /\ KeysOf(op.effect) = KeysOf(op.cmd) /\ IsIssuable(op.cmd)
<1>1. op.cmd \in Issued /\ IsIssuable(op.cmd)
  BY IssuedIsIssuable DEF Op
<1>2. Resolve(st, op.cmd).broadcast /\ Resolve(st, op.cmd).effect = op.effect
  BY Resolutions
<1> QED
  BY <1>1, <1>2, EffectIsCommand

LEMMA InitIInv == Init => IInv
<1> SUFFICES ASSUME Init PROVE IInv
  OBVIOUS
<1> DEFINE S == [k \in 0 .. 0 |-> EmptyStore]
<1>1. Types
  BY EmptyIsSound, EffectAssumption DEF Init, Types
<1>2. Len(order) = 0 /\ queued = {}
  BY DEF Init
<1>3. S \in [0 .. Len(order) -> SoundStore] /\ S[0] = EmptyStore
  BY <1>2, EmptyIsSound
<1> HIDE DEF S
<1>4. Past(S)
  BY <1>2, <1>3 DEF Past
<1>5. History(S)
  BY <1>2, <1>3, <1>4 DEF History, Init
<1> QED
  BY <1>1, <1>5 DEF IInv

\* A command is resolved on the state its origin is at.
LEMMA SubmitKeeps ==
  ASSUME IInv, NEW c \in Client, NEW cmd \in MayIssue[c], Submit(c, cmd)
  PROVE  IInv'
<1> DEFINE n == at[c]
           r == Resolve(kv[n], cmd)
           op == [client |-> c, origin |-> n, cmd |-> cmd, base |-> pos[n],
                  effect |-> r.effect, reply |-> r.reply]
<1>1. Types
  BY DEF IInv
<1>2. PICK S : History(S)
  BY DEF IInv
<1>3. /\ n \in Node /\ kv[n] \in SoundStore /\ pos[n] \in 0 .. Len(order) /\ kv[n] = S[pos[n]]
      /\ UNCHANGED <<at, order, pos, kv>>
      /\ queued' = IF r.broadcast THEN queued \cup {op} ELSE queued
  BY <1>1, <1>2 DEF Types, History, Submit
<1>4. cmd \in Issued /\ IsIssuable(cmd)
  BY EffectAssumption DEF Issued
<1>5. r.broadcast => op \in Op /\ r = Broadcast(r.effect, r.reply)
  BY <1>3, <1>4, EffectIsCommand DEF Op
<1>6. r.broadcast => Resolved(S, op, Len(order))
  BY <1>3, <1>5 DEF Resolved
<1> HIDE DEF r, op
<1>7. Types'
  BY <1>1, <1>3, <1>5 DEF Types
<1>8. Past(S)'
  BY <1>2, <1>3 DEF Past, History
<1>9. History(S)'
  BY <1>2, <1>3, <1>6, <1>8 DEF History, Resolved
<1> QED
  BY <1>7, <1>9 DEF IInv

\* The order goes on with one more state.
LEMMA OrderKeeps ==
  ASSUME IInv, NEW op \in queued, OrderNext(op)
  PROVE  IInv'
<1>0. PICK N : N = Len(order)
  OBVIOUS
<1>1. Types
  BY DEF IInv
<1>2. PICK S : History(S)
  BY DEF IInv
<1>3. /\ op \in Op /\ N \in Nat /\ order' \in Seq(Op) /\ Len(order') = N + 1
      /\ order'[N + 1] = op /\ \A k \in 1 .. N : order'[k] = order[k]
      /\ queued' \subseteq queued /\ UNCHANGED <<at, pos, kv>>
  BY <1>0, <1>1 DEF Types, OrderNext
<1>4. Types'
  BY <1>1, <1>3 DEF Types
<1>5. /\ S \in [0 .. N -> SoundStore] /\ S[0] = EmptyStore
      /\ \A k \in 1 .. N : S[k] = Apply(S[k - 1], order[k].effect).st
      /\ \A n \in Node : pos[n] \in 0 .. N /\ kv[n] = S[pos[n]]
      /\ \A q \in queued : Resolved(S, q, N)
      /\ \A k \in 1 .. N : Resolved(S, order[k], k - 1)
  BY <1>0, <1>2 DEF History, Past
<1>6. IsCommand(op.effect) /\ S[N] \in SoundStore
  <2>1. op.base \in 0 .. N /\ Resolve(S[op.base], op.cmd) = Broadcast(op.effect, op.reply)
    BY <1>5 DEF Resolved
  <2>2. S[op.base] \in SoundStore /\ S[N] \in SoundStore
    BY <1>3, <1>5, <2>1
  <2> QED
    BY <1>3, <2>1, <2>2, ResolvedIsCommand
<1> DEFINE next == Apply(S[N], op.effect).st
<1>7. next \in SoundStore
  BY <1>6, ApplyGood DEF Becomes
<1>8. PICK T \in [0 .. N + 1 -> SoundStore] : T[N + 1] = next /\ \A k \in 0 .. N : T[k] = S[k]
  <2> DEFINE U == [k \in 0 .. N + 1 |-> IF k = N + 1 THEN next ELSE S[k]]
  <2> HIDE DEF next
  <2>1. U \in [0 .. N + 1 -> SoundStore]
    BY <1>3, <1>5, <1>7
  <2>2. U[N + 1] = next /\ \A k \in 0 .. N : U[k] = S[k]
    BY <1>3
  <2> QED
    BY <2>1, <2>2
<1>9. Past(T)'
  <2>1. T[0] = EmptyStore
    BY <1>3, <1>5, <1>8
  <2>2. ASSUME NEW k \in 1 .. N + 1
        PROVE  T[k] = Apply(T[k - 1], order'[k].effect).st
    <3>1. CASE k = N + 1
      <4>1. T[k - 1] = S[N] /\ T[k] = next /\ order'[k] = op
        BY <1>3, <1>8, <3>1
      <4> QED
        BY <4>1
    <3>2. CASE k \in 1 .. N
      <4>1. T[k - 1] = S[k - 1] /\ T[k] = S[k] /\ order'[k] = order[k]
        BY <1>3, <1>8, <3>2
      <4> QED
        BY <1>5, <3>2, <4>1
    <3> QED
      BY <1>3, <3>1, <3>2
  <2> QED
    BY <1>3, <1>8, <2>1, <2>2 DEF Past
<1>10. ASSUME NEW q, NEW i \in 0 .. N, Resolved(S, q, i)
       PROVE  Resolved(T, q, i) /\ Resolved(T, q, N + 1)
  BY <1>3, <1>8, <1>10 DEF Resolved
<1>11. \A q \in queued : Resolved(T, q, N) /\ Resolved(T, q, N + 1)
  BY <1>3, <1>5, <1>10
<1>12. \A k \in 1 .. N : Resolved(T, order[k], k - 1)
  BY <1>3, <1>5, <1>10
<1>13. \A n \in Node : pos'[n] \in 0 .. N + 1 /\ kv'[n] = T[pos'[n]]
  BY <1>3, <1>5, <1>8
<1>14. \A q \in queued' : Resolved(T, q, N + 1)
  BY <1>3, <1>11
<1>15. \A k \in 1 .. N + 1 : Resolved(T, order'[k], k - 1)
  <2> TAKE k \in 1 .. N + 1
  <2>1. CASE k = N + 1
    BY <1>3, <1>11, <2>1
  <2>2. CASE k \in 1 .. N
    BY <1>3, <1>12, <2>2
  <2> QED
    BY <1>3, <2>1, <2>2
<1>16. History(T)'
  <2>1. \A q, i : Resolved(T, q, i)' <=> Resolved(T, q, i)
    BY DEF Resolved
  <2> QED
    BY <1>3, <1>9, <1>13, <1>14, <1>15, <2>1 DEF History
<1> QED
  BY <1>4, <1>16 DEF IInv

\* A replica moves on to the next state.
LEMMA PumpKeeps ==
  ASSUME IInv, NEW n \in Node, PumpOutputs(n)
  PROVE  IInv'
<1> DEFINE p == pos[n] + 1
           new == Apply(kv[n], order[p].effect).st
<1>1. Types
  BY DEF IInv
<1>2. PICK S : History(S)
  BY DEF IInv
<1>3. /\ pos[n] \in 0 .. Len(order) /\ pos[n] < Len(order) /\ Len(order) \in Nat
      /\ kv' = [kv EXCEPT ![n] = new] /\ pos' = [pos EXCEPT ![n] = p]
      /\ UNCHANGED <<at, queued, order>>
  BY <1>1, <1>2 DEF Types, History, PumpOutputs
<1>4. p \in 1 .. Len(order) /\ S[p] = new
  <2>1. p \in 1 .. Len(order) /\ p - 1 = pos[n]
    BY <1>3
  <2>2. S[p] = Apply(S[p - 1], order[p].effect).st /\ kv[n] = S[pos[n]]
    BY <1>2, <2>1 DEF History, Past
  <2> QED
    BY <2>1, <2>2
<1>5. new \in SoundStore
  BY <1>2, <1>3, <1>4 DEF History, Past
<1> HIDE DEF p, new
<1>6. Types'
  BY <1>1, <1>3, <1>4, <1>5 DEF Types
<1>7. \A m \in Node : pos'[m] \in 0 .. Len(order) /\ kv'[m] = S[pos'[m]]
  BY <1>1, <1>2, <1>3, <1>4 DEF Types, History
<1>8. History(S)'
  BY <1>2, <1>3, <1>7 DEF History, Past, Resolved
<1> QED
  BY <1>6, <1>8 DEF IInv

LEMMA NextIInv == IInv /\ [Next]_vars => IInv'
<1>1. ASSUME IInv, UNCHANGED <<queued, order, pos, kv>>, at' \in [Client -> Node]
      PROVE  IInv'
  <2>1. Types'
    BY <1>1 DEF IInv, Types
  <2>2. PICK S : History(S)
    BY <1>1 DEF IInv
  <2>3. History(S)'
    BY <1>1, <2>2 DEF History, Past, Resolved
  <2> QED
    BY <2>1, <2>3 DEF IInv
<1>2. ASSUME IInv, NEW c \in Client, NEW n \in Node, Reconnect(c, n)
      PROVE  IInv'
  <2>1. at' \in [Client -> Node]
    BY <1>2 DEF IInv, Types, Reconnect
  <2> QED
    BY <1>1, <1>2, <2>1 DEF Reconnect
<1>3. ASSUME IInv, UNCHANGED vars
      PROVE  IInv'
  <2>1. at' \in [Client -> Node]
    BY <1>3 DEF IInv, Types, vars
  <2> QED
    BY <1>1, <1>3, <2>1 DEF vars
<1> QED
  BY <1>2, <1>3, SubmitKeeps, OrderKeeps, PumpKeeps DEF Next

\* Every replica is somewhere in one history, and every effect was resolved
\* earlier in it.
THEOREM Invariance == Spec => []IInv
BY InitIInv, NextIInv, PTL DEF Spec

-----------------------------------------------------------------------------
(* The window *)

\* A key that no op of a stretch of the order names holds at its end what it
\* held before.
LEMMA WindowLeavesKey ==
  ASSUME Types, NEW S, History(S), NEW b \in Nat, NEW e \in 0 .. Len(order), b <= e,
         NEW k \in Key, \A i \in b + 1 .. e : k \notin KeysOf(order[i].cmd)
  PROVE  S[e].data[k] = S[b].data[k]
<1> DEFINE T == {i \in b .. e : S[i].data[k] # S[b].data[k]}
<1>1. Len(order) \in Nat /\ e \in Nat
  BY DEF Types
<1>2. ASSUME T # {}
      PROVE  FALSE
  <2>1. PICK m \in T : \A i \in T : m <= i
    <3>1. T \in SUBSET Nat
      BY <1>1
    <3> QED
      BY <1>2, <3>1, Least
  <2>2. m \in b .. e /\ S[m].data[k] # S[b].data[k] /\ m # b
    BY <2>1
  <2>3. m \in 1 .. Len(order) /\ m \in b + 1 .. e /\ m - 1 \in b .. e /\ m - 1 \in 0 .. Len(order)
    BY <1>1, <2>2
  <2>4. S[m - 1].data[k] = S[b].data[k]
    <3>1. m - 1 \notin T
      BY <2>1, <2>3
    <3> QED
      BY <2>3, <3>1
  <2> HIDE DEF T
  <2>5. /\ S[m] = Apply(S[m - 1], order[m].effect).st
        /\ S[m - 1] \in SoundStore /\ order[m] \in Op
    <3>1. order[m] \in Op
      BY <2>3 DEF Types
    <3>2. S[m] = Apply(S[m - 1], order[m].effect).st /\ S[m - 1] \in SoundStore
      BY <2>3 DEF History, Past
    <3> QED
      BY <3>1, <3>2
  <2>6. IsCommand(order[m].effect) /\ KeysOf(order[m].effect) = KeysOf(order[m].cmd)
    <3>1. /\ order[m].base \in 0 .. m - 1
          /\ Resolve(S[order[m].base], order[m].cmd) = Broadcast(order[m].effect, order[m].reply)
      BY <2>3 DEF History, Resolved
    <3>2. S[order[m].base] \in SoundStore
      BY <1>1, <2>3, <3>1 DEF History, Past
    <3> QED
      BY <2>5, <3>1, <3>2, ResolvedIsCommand
  <2>7. S[m].data[k] = S[m - 1].data[k]
    BY <2>3, <2>5, <2>6, ApplyGood DEF Becomes
  <2> QED
    BY <2>2, <2>4, <2>7
<1>3. e \in b .. e
  BY <1>1
<1> QED
  BY <1>2, <1>3

\* What is known of an op that is due at n.
LEMMA DueOp ==
  ASSUME Types, NEW S, History(S), NEW n \in Node, NEW k \in DOMAIN order, Due(n, k)
  PROVE  /\ order[k] \in Op /\ k \in 1 .. Len(order) /\ Len(order) \in Nat
         /\ kv[n] = S[k - 1] /\ kv[n] \in SoundStore
         /\ order[k].base \in 0 .. k - 1 /\ S[order[k].base] \in SoundStore
         /\ Resolve(S[order[k].base], order[k].cmd) = Broadcast(order[k].effect, order[k].reply)
         /\ IsIssuable(order[k].cmd)
<1>1. k \in 1 .. Len(order) /\ order[k] \in Op /\ Len(order) \in Nat
  BY DEF Types
<1>2. pos[n] \in Nat /\ pos[n] = k - 1 /\ kv[n] = S[k - 1] /\ kv[n] \in SoundStore
  BY <1>1 DEF Due, Types, History
<1>3. Resolved(S, order[k], k - 1)
  BY <1>1 DEF History
<1>4. order[k].base \in 0 .. Len(order)
  BY <1>1, <1>3 DEF Resolved
<1>5. S[order[k].base] \in SoundStore
  BY <1>4 DEF History, Past
<1> QED
  BY <1>1, <1>2, <1>3, <1>5, IssuedIsIssuable DEF Resolved, Op

\* An SPOP or float increment whose window leaves its key alone is as good as
\* executed where it is applied, on every replica, and its client is told so.
THEOREM EffectsAreAtomic == Spec => []AsIfAtomic
<1>1. ASSUME IInv, NEW n \in Node, NEW k \in DOMAIN order, Due(n, k),
             \A op \in Window(k) : KeysOf(op.cmd) \cap KeysOf(order[k].cmd) = {}
      PROVE  ActsAtomically(kv[n], order[k])
  <2>1. Types
    BY <1>1 DEF IInv
  <2>2. PICK S : History(S)
    BY <1>1 DEF IInv
  <2> DEFINE op == order[k]
             b == op.base
  <2>3. /\ k \in 1 .. Len(order) /\ Len(order) \in Nat /\ op \in Op
        /\ kv[n] = S[k - 1] /\ kv[n] \in SoundStore
        /\ b \in 0 .. k - 1 /\ S[b] \in SoundStore
        /\ Resolve(S[b], op.cmd) = Broadcast(op.effect, op.reply)
        /\ IsIssuable(op.cmd)
    BY <1>1, <2>1, <2>2, DueOp
  <2>4. ASSUME op.cmd.name \in NonDeterministic
        PROVE  kv[n].data[op.cmd.key] = S[b].data[op.cmd.key]
    <3>1. op.cmd.key \in Key /\ KeysOf(op.cmd) = {op.cmd.key}
      BY <2>3, <2>4 DEF IsIssuable, NonDeterministic, KeysOf
    <3>2. \A i \in b + 1 .. k - 1 : order[i] \in Window(k)
      BY DEF Window
    <3>3. \A i \in b + 1 .. k - 1 : op.cmd.key \notin KeysOf(order[i].cmd)
      BY <1>1, <3>1, <3>2
    <3> DEFINE e == k - 1
               key == op.cmd.key
    <3>4. b \in Nat /\ e \in 0 .. Len(order) /\ b <= e
      BY <2>3
    <3>5. key \in Key /\ \A i \in b + 1 .. e : key \notin KeysOf(order[i].cmd)
      BY <3>1, <3>3
    <3> HIDE DEF op, b, e, key
    <3>6. S[e].data[key] = S[b].data[key]
      BY <2>1, <2>2, <3>4, <3>5, WindowLeavesKey
    <3> QED
      BY <2>3, <3>6 DEF e, key
  <2> HIDE DEF op, b
  <2>5. ActsAtomically(kv[n], op)
    BY <2>3, <2>4, AtomicIfSame
  <2> QED
    BY <2>5 DEF op
<1>2. IInv => AsIfAtomic
  BY <1>1 DEF AsIfAtomic
<1> QED
  BY <1>2, Invariance, PTL

\* Whatever other proxies did meanwhile, a single SPOP pops a member that is
\* there, or it takes no element from the key.
THEOREM PopsAreSafe == Spec => []PopsAtWorstNothing
<1>1. ASSUME IInv, NEW n \in Node, NEW k \in DOMAIN order, Due(n, k),
             order[k].cmd.name = "SPOP", order[k].cmd.count = {}
      PROVE  ActsAtomically(kv[n], order[k]) \/ TakesNothing(kv[n], order[k].effect)
  <2>1. Types
    BY <1>1 DEF IInv
  <2>2. PICK S : History(S)
    BY <1>1 DEF IInv
  <2>3. /\ kv[n] \in SoundStore /\ S[order[k].base] \in SoundStore
        /\ Resolve(S[order[k].base], order[k].cmd) = Broadcast(order[k].effect, order[k].reply)
        /\ IsIssuable(order[k].cmd)
    BY <1>1, <2>1, <2>2, DueOp
  <2> QED
    BY <1>1, <2>3, PopOrNothing
<1>2. IInv => PopsAtWorstNothing
  BY <1>1 DEF PopsAtWorstNothing
<1> QED
  BY <1>2, Invariance, PTL

-----------------------------------------------------------------------------
(* The clients *)

\* The k-th op has yet to be applied where its client waits.
Open(k) == k \in 1 .. Len(order) /\ pos[order[k].origin] < k

\* A client waits for one op at a time, at the proxy that broadcast it.
ClientInv ==
  /\ DOMAIN answer = Client
  /\ \A op \in queued : answer[op.client] = Waiting /\ at[op.client] = op.origin
  /\ \A k : Open(k) => answer[order[k].client] = Waiting /\ at[order[k].client] = order[k].origin
  /\ \A a, b \in queued : a.client = b.client => a = b
  /\ \A op \in queued : \A k : Open(k) => op.client # order[k].client
  /\ \A j, k : Open(j) /\ Open(k) /\ order[j].client = order[k].client => j = k

LEMMA Shapes ==
  ASSUME IInv
  PROVE  /\ order \in Seq(Op) /\ Len(order) \in Nat /\ pos \in [Node -> Nat] /\ at \in [Client -> Node]
         /\ \A k \in 1 .. Len(order) : order[k].client \in Client /\ order[k].origin \in Node
         /\ \A op \in queued : op.client \in Client /\ op.origin \in Node
<1>1. order \in Seq(Op) /\ Len(order) \in Nat /\ pos \in [Node -> Nat] /\ at \in [Client -> Node]
      /\ queued \in SUBSET Op
  BY DEF IInv, Types
<1>2. \A k \in 1 .. Len(order) : order[k] \in Op
  BY <1>1
<1>3. \A op \in Op : op.client \in Client /\ op.origin \in Node
  BY DEF Op
<1> QED
  BY <1>1, <1>2, <1>3

LEMMA InitClientInv == Init => ClientInv
BY DEF Init, ClientInv, Open

LEMMA SubmitKeepsClients ==
  ASSUME IInv, ClientInv, NEW c \in Client, NEW cmd \in MayIssue[c], Submit(c, cmd)
  PROVE  ClientInv'
<1> DEFINE r == Resolve(kv[at[c]], cmd)
           op == [client |-> c, origin |-> at[c], cmd |-> cmd, base |-> pos[at[c]],
                  effect |-> r.effect, reply |-> r.reply]
<1>1. /\ queued' = IF r.broadcast THEN queued \cup {op} ELSE queued
      /\ answer' = [answer EXCEPT ![c] = IF r.broadcast THEN Waiting ELSE r.reply]
      /\ UNCHANGED <<at, order, pos>> /\ answer[c] # Waiting
  BY DEF Submit
<1>0. op.client = c /\ op.origin = at[c]
  OBVIOUS
<1> HIDE DEF r, op
<1>2. \A q \in queued : q.client # c /\ q.client \in Client
  BY <1>1, Shapes DEF ClientInv
<1>3. \A k : Open(k) => order[k].client # c /\ order[k].client \in Client
  BY <1>1, Shapes DEF ClientInv, Open
<1>4. \A k : Open(k)' <=> Open(k)
  BY <1>1 DEF Open
<1>5. \A d \in Client : d # c => answer'[d] = answer[d]
  BY <1>1 DEF ClientInv
<1>6. r.broadcast => answer'[c] = Waiting
  BY <1>1 DEF ClientInv
<1>7. DOMAIN answer' = Client
  BY <1>1 DEF ClientInv
<1>8. at' = at /\ \A q \in queued' : q \in queued \/ (q = op /\ answer'[c] = Waiting)
  BY <1>1, <1>6
<1>9. \A k : Open(k)' => Open(k) /\ order'[k] = order[k]
  BY <1>1, <1>4
<1> QED
  BY <1>0, <1>2, <1>3, <1>5, <1>7, <1>8, <1>9 DEF ClientInv

LEMMA OrderKeepsClients ==
  ASSUME IInv, ClientInv, NEW op \in queued, OrderNext(op)
  PROVE  ClientInv'
<1>1. PICK N \in Nat : N = Len(order) /\ order \in Seq(Op) /\ pos \in [Node -> Nat]
  BY DEF IInv, Types
<1>2. /\ queued' = queued \ {op} /\ UNCHANGED <<at, pos, answer>>
      /\ Len(order') = N + 1 /\ order'[N + 1] = op /\ \A k \in 1 .. N : order'[k] = order[k]
  BY <1>1 DEF OrderNext
<1>3. \A k : Open(k)' => (Open(k) /\ order'[k] = order[k]) \/ (k = N + 1 /\ order'[k] = op)
  BY <1>1, <1>2 DEF Open
<1> QED
  BY <1>2, <1>3 DEF ClientInv

LEMMA PumpKeepsClients ==
  ASSUME IInv, ClientInv, NEW n \in Node, PumpOutputs(n)
  PROVE  ClientInv'
<1>1. PICK p : p = pos[n] + 1 /\ pos[n] < Len(order)
  BY DEF PumpOutputs
<1>2. PICK reply : /\ answer' = IF order[p].origin = n
                                THEN [answer EXCEPT ![order[p].client] = reply] ELSE answer
                   /\ pos' = [pos EXCEPT ![n] = p] /\ UNCHANGED <<at, queued, order>>
  BY <1>1 DEF PumpOutputs, Answers
<1>3. /\ order \in Seq(Op) /\ pos \in [Node -> Nat] /\ Len(order) \in Nat
      /\ p \in 1 .. Len(order) /\ order[p].client \in Client
  <2>1. order \in Seq(Op) /\ pos \in [Node -> Nat] /\ Len(order) \in Nat
    BY Shapes
  <2>2. p \in 1 .. Len(order)
    BY <1>1, <2>1
  <2> QED
    BY <2>1, <2>2, Shapes
<1>4. \A k : Open(k)' => Open(k) /\ order[k].client \in Client /\ (order[p].origin = n => k # p)
  <2> SUFFICES ASSUME NEW k, Open(k)'
               PROVE  Open(k) /\ order[k].client \in Client /\ (order[p].origin = n => k # p)
    OBVIOUS
  <2>1. k \in 1 .. Len(order) /\ pos'[order[k].origin] < k
    BY <1>2 DEF Open
  <2>2. order[k].client \in Client /\ order[k].origin \in Node
    BY <2>1, Shapes
  <2>3. pos[order[k].origin] <= pos'[order[k].origin] /\ pos'[n] = p /\ pos' \in [Node -> Nat]
    BY <1>1, <1>2, <1>3, <2>2
  <2> QED
    BY <1>3, <2>1, <2>2, <2>3 DEF Open
<1>5. order[p].origin = n => Open(p)
  BY <1>1, <1>3 DEF Open
<1>6. \A d \in Client : d # order[p].client \/ order[p].origin # n => answer'[d] = answer[d]
  BY <1>2 DEF ClientInv
<1>7. DOMAIN answer' = Client
  BY <1>2 DEF ClientInv
<1>8. \A q \in queued : q.client \in Client /\ (order[p].origin = n => q.client # order[p].client)
  BY <1>5, Shapes DEF ClientInv
<1>9. \A k : Open(k)' => /\ order[k].client \in Client
                         /\ (order[p].origin = n => order[k].client # order[p].client)
  BY <1>4, <1>5 DEF ClientInv
<1> QED
  BY <1>2, <1>4, <1>6, <1>7, <1>8, <1>9 DEF ClientInv

LEMMA NextClientInv == IInv /\ ClientInv /\ [Next]_vars => ClientInv'
<1>1. ASSUME IInv, ClientInv, NEW c \in Client, NEW n \in Node, Reconnect(c, n)
      PROVE  ClientInv'
  <2>1. /\ answer[c] # Waiting /\ UNCHANGED <<queued, order, pos, answer>>
        /\ \A d \in Client : d # c => at'[d] = at[d]
    BY <1>1, Shapes DEF Reconnect
  <2>2. \A q \in queued : q.client \in Client /\ q.client # c
    BY <1>1, <2>1, Shapes DEF ClientInv
  <2>3. \A k : Open(k) => order[k].client \in Client /\ order[k].client # c
    BY <1>1, <2>1, Shapes DEF ClientInv, Open
  <2>4. \A k : Open(k)' <=> Open(k)
    BY <2>1 DEF Open
  <2> QED
    BY <1>1, <2>1, <2>2, <2>3, <2>4 DEF ClientInv
<1>2. ASSUME ClientInv, UNCHANGED vars
      PROVE  ClientInv'
  BY <1>2 DEF ClientInv, Open, vars
<1> QED
  BY <1>1, <1>2, SubmitKeepsClients, OrderKeepsClients, PumpKeepsClients DEF Next

\* Every variable keeps its type, and an op that its origin has yet to apply has
\* its client waiting there: no reply reaches another command of the client, nor
\* a proxy the client has left.
THEOREM TypeCorrect == Spec => []TypeOK
<1>1. IInv /\ ClientInv => TypeOK
  <2> SUFFICES ASSUME IInv, ClientInv
               PROVE  TypeOK
    OBVIOUS
  <2>1. \A n \in Node : pos[n] \in 0 .. Len(order)
    BY DEF IInv, History
  <2>2. \A n \in Node : kv[n].data \in [Key -> Value]
    BY StoreShape DEF IInv, Types
  <2>3. \A op \in Unanswered : answer[op.client] = Waiting /\ at[op.client] = op.origin
    <3>1. DOMAIN order = 1 .. Len(order)
      BY DEF IInv, Types
    <3> QED
      BY <3>1 DEF ClientInv, Unanswered, Open
  <2> QED
    BY <2>1, <2>2, <2>3 DEF TypeOK, IInv, Types
<1>2. Init => IInv /\ ClientInv
  BY InitIInv, InitClientInv
<1>3. IInv /\ ClientInv /\ [Next]_vars => IInv' /\ ClientInv'
  BY NextIInv, NextClientInv
<1> QED
  BY <1>1, <1>2, <1>3, PTL DEF Spec
=============================================================================
