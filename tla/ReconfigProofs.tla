--------------------------- MODULE ReconfigProofs ---------------------------
(* Type correctness and the safety properties of Reconfig, for any number of *)
(* nodes, crashes and wrong suspicions and any threshold.                    *)
EXTENDS Reconfig, WellFoundedInduction, SequenceTheorems, TLAPS

\* A driver's part of the membership.
Membership == [dead : SUBSET Ring, succ : Ring, frozen : BOOLEAN, view : Nat]

\* The successor of n is next_alive of what it excludes.
Sane(n, m) ==
  /\ m \in Membership
  /\ m.succ = NextAlive(n, m.dead)

\* A token about a crash, not about a return.
Excludes(t) == t.kind \in {"gather", "install"}

\* No token tells n of its own crash.
AboutOthers(n, q) == \A i \in 1 .. Len(q) : Excludes(q[i]) => q[i].node # n

MembersSane == \A n \in Ring : Sane(n, Mine(n))
TokensAboutOthers == \A n \in Ring : n \in told \/ AboutOthers(n, inbox[n])
IdleInboxes == \A n \in Ring : ~Active(n) => inbox[n] = <<>>
SignalsAboutOthers == \A x \in signals : x[1] # x[2]
StrikesConfirmed ==
  \A n, v \in Ring : strikes[n][v] >= StrikeThreshold => v \in confirmed[n]

\* The inductive invariant.
IInv ==
  /\ TypeOK
  /\ MembersSane /\ NoSelfExclusion
  /\ TokensAboutOthers /\ IdleInboxes /\ SignalsAboutOthers
  /\ StrikesConfirmed

-----------------------------------------------------------------------------
(* The ring *)

\* The least of the distances to a node on the ring is one of them.
LEMMA LeastDistance ==
  ASSUME NEW T \in SUBSET Nat, T # {}
  PROVE  Min(T) \in T /\ \A k \in T : Min(T) <= k
<1>1. PICK m \in T : \A k \in T : ~(<<k, m>> \in OpToRel(<, Nat))
  BY NatLessThanWellFounded, WFMin, Zenon
<1>2. \A k \in T : ~(k < m)
  BY <1>1 DEF OpToRel
<1>3. \A k \in T : m <= k
  BY <1>2
<1> QED
  BY <1>3 DEF Min

\* A step of d from a node, and back.
LEMMA Round ==
  ASSUME NEW n \in Ring, NEW d \in 0 .. N - 1
  PROVE  /\ (n + d) % N \in Ring
         /\ (((n + d) % N) - n) % N = d
<1> N \in Nat \ {0}
  BY ReconfigAssumption
<1>1. CASE n + d < N
  <2>1. (n + d) % N = n + d
    BY <1>1 DEF Ring
  <2>2. d % N = d
    OBVIOUS
  <2> QED
    BY <2>1, <2>2, <1>1 DEF Ring
<1>2. CASE n + d >= N
  <2>1. (n + d) % N = n + d - N
    BY <1>2 DEF Ring
  <2>2. (d - N) % N = d
    OBVIOUS
  <2> QED
    BY <2>1, <2>2, <1>2 DEF Ring
<1> QED
  BY <1>1, <1>2 DEF Ring

\* next_alive returns the first node after n that is not gone, or n, gone or not.
LEMMA NextAliveIsFirst ==
  ASSUME NEW n \in Ring, NEW gone \in SUBSET Ring
  PROVE  LET r == NextAlive(n, gone)
         IN  /\ r \in Ring /\ (r \in gone => r = n)
             /\ \A d \in 1 .. N - 1 : (n + d) % N \notin gone => (r - n) % N <= d
<1> DEFINE steps == {d \in 1 .. N - 1 : (n + d) % N \notin gone}
<1> N \in Nat \ {0}
  BY ReconfigAssumption
<1>1. CASE steps = {}
  BY <1>1 DEF NextAlive
<1>2. CASE steps # {}
  <2> DEFINE m == Min(steps)
  <2>1. m \in steps /\ \A d \in steps : m <= d
    <3>1. steps \in SUBSET Nat
      OBVIOUS
    <3> QED
      BY <3>1, <1>2, LeastDistance
  <2>2. NextAlive(n, gone) = (n + m) % N
    BY <1>2 DEF NextAlive
  <2>3. (n + m) % N \in Ring /\ (((n + m) % N) - n) % N = m
    <3>1. m \in 0 .. N - 1
      BY <2>1
    <3> HIDE DEF m
    <3> QED
      BY <3>1, Round
  <2> QED
    BY <2>1, <2>2, <2>3
<1> QED
  BY <1>1, <1>2

-----------------------------------------------------------------------------
(* What the handlers make of a sane membership *)

LEMMA ExcludeSane ==
  ASSUME NEW n \in Ring, NEW m, Sane(n, m), NEW v \in Ring
  PROVE  Sane(n, Exclude(n, m, v)) /\ Exclude(n, m, v).dead = m.dead \cup {v}
<1>1. CASE v \in m.dead
  BY <1>1 DEF Exclude
<1>2. CASE v \notin m.dead
  <2> DEFINE gone == m.dead \cup {v}
  <2>1. gone \in SUBSET Ring
    BY DEF Sane, Membership
  <2>2. NextAlive(n, gone) \in Ring
    BY <2>1, NextAliveIsFirst
  <2>3. Exclude(n, m, v) = [dead |-> gone, succ |-> NextAlive(n, gone),
                            frozen |-> TRUE, view |-> m.view]
    BY <1>2 DEF Exclude, Sane, Membership
  <2> QED
    BY <2>1, <2>2, <2>3 DEF Sane, Membership
<1> QED
  BY <1>1, <1>2

LEMMA ReadmitSane ==
  ASSUME NEW n \in Ring, NEW m, Sane(n, m), NEW v \in Ring
  PROVE  Sane(n, Readmit(n, m, v)) /\ Readmit(n, m, v).dead \subseteq m.dead
<1>1. CASE v \notin m.dead
  BY <1>1 DEF Readmit
<1>2. CASE v \in m.dead
  <2> DEFINE gone == m.dead \ {v}
  <2>1. gone \in SUBSET Ring
    BY DEF Sane, Membership
  <2>2. NextAlive(n, gone) \in Ring
    BY <2>1, NextAliveIsFirst
  <2>3. Readmit(n, m, v) = [dead |-> gone, succ |-> NextAlive(n, gone),
                            frozen |-> TRUE, view |-> m.view]
    BY <1>2 DEF Readmit, Sane, Membership
  <2> QED
    BY <2>1, <2>2, <2>3 DEF Sane, Membership
<1> QED
  BY <1>1, <1>2

\* An answer of the state machine at n: the membership stays sane, and what is sent
\* about a crash is about a node that n excludes.
Proper(n, a) ==
  /\ Sane(n, a.m)
  /\ a.sent \in Seq(Token)
  /\ \A i \in 1 .. Len(a.sent) : Excludes(a.sent[i]) => a.sent[i].node \in a.m.dead

LEMMA AnswerProper ==
  ASSUME NEW n \in Ring, NEW m, Sane(n, m), NEW t \in Token,
         Excludes(t) => t.node \in m.dead
  PROVE  /\ Proper(n, Answer(m, <<>>))
         /\ Proper(n, Answer(m, <<t>>))
<1>1. <<>> \in Seq(Token) /\ Len(<<>>) = 0
  OBVIOUS
<1>2. <<t>> \in Seq(Token) /\ Len(<<t>>) = 1 /\ <<t>>[1] = t
  OBVIOUS
<1> QED
  BY <1>1, <1>2 DEF Proper, Answer

LEMMA AppliedSane ==
  ASSUME NEW n \in Ring, NEW m, Sane(n, m), NEW w \in Nat
  PROVE  Sane(n, Applied(m, w)) /\ Applied(m, w).dead = m.dead
BY DEF Sane, Membership, Applied

LEMMA NewTokenProper ==
  ASSUME NEW n \in Ring, NEW m, Sane(n, m), NEW v \in Ring, NEW kind \in {"gather", "regather"},
         kind = "gather" => v \in m.dead
  PROVE  Proper(n, Answer(m, <<NewToken(n, m, kind, v)>>))
<1> DEFINE t == NewToken(n, m, kind, v)
<1>1. t \in Token /\ (Excludes(t) => t.node \in m.dead)
  BY DEF NewToken, Token, Excludes, Sane, Membership
<1> QED
  BY <1>1, AnswerProper

LEMMA OnTokenProper ==
  ASSUME NEW n \in Ring, NEW m, Sane(n, m), NEW t \in Token,
         Excludes(t) => t.node \in m.dead
  PROVE  Proper(n, OnToken(n, m, t)) /\ OnToken(n, m, t).m.dead = m.dead
<1>1. CASE t.view <= m.view
  <2>1. OnToken(n, m, t) = Answer(m, <<>>)
    BY <1>1 DEF OnToken
  <2>2. Answer(m, <<>>).m = m
    BY DEF Answer
  <2> QED
    BY <2>1, <2>2, AnswerProper
<1>2. CASE ~(t.view <= m.view) /\ t.kind \in {"gather", "regather"}
  <2> DEFINE reports == t.reports \cup {n}
             kind == IF t.kind = "gather" THEN "install" ELSE "reinstall"
             installed == [t EXCEPT !.kind = IF @ = "gather" THEN "install" ELSE "reinstall",
                                    !.reports = reports]
             passed == [t EXCEPT !.reports = reports]
             a == OnGather(n, m, t)
  <2>1. /\ installed \in Token
        /\ Excludes(installed) => installed.node \in Applied(m, t.view).dead
    <3>1. Applied(m, t.view).dead = m.dead
      BY AppliedSane DEF Token
    <3>2. installed.node = t.node /\ (Excludes(installed) => Excludes(t))
      BY <1>2 DEF Token, Excludes
    <3>3. installed \in Token
      BY <1>2 DEF Token
    <3> QED
      BY <3>1, <3>2, <3>3
  <2>2. passed \in Token /\ (Excludes(passed) => passed.node \in m.dead)
    BY DEF Token, Excludes
  <2>3. OnToken(n, m, t) = a
    BY <1>2 DEF OnToken
  <2>4. Sane(n, Applied(m, t.view)) /\ Applied(m, t.view).dead = m.dead
    BY AppliedSane DEF Token
  <2>5. a = Answer(Applied(m, t.view), <<installed>>) \/ a = Answer(m, <<passed>>)
    BY DEF OnGather
  <2>6. Proper(n, a)
    BY <2>1, <2>2, <2>4, <2>5, AnswerProper
  <2>7. a.m.dead = m.dead
    BY <2>4, <2>5 DEF Answer
  <2> QED
    BY <2>3, <2>6, <2>7
<1>3. CASE ~(t.view <= m.view) /\ t.kind \notin {"gather", "regather"}
  <2>1. Sane(n, Applied(m, t.view)) /\ Applied(m, t.view).dead = m.dead
    BY AppliedSane DEF Token
  <2>2. OnToken(n, m, t) = Answer(Applied(m, t.view), <<t>>)
    BY <1>3 DEF OnToken, OnInstall
  <2>3. Answer(Applied(m, t.view), <<t>>).m = Applied(m, t.view)
    BY DEF Answer
  <2>4. Proper(n, Answer(Applied(m, t.view), <<t>>))
    BY <2>1, AnswerProper
  <2> QED
    BY <2>1, <2>2, <2>3, <2>4
<1> QED
  BY <1>1, <1>2, <1>3

-----------------------------------------------------------------------------
(* Steps.  What a step leaves of the invariant is split into the membership,  *)
(* with the tokens, and the detector.                                         *)

MembershipOK ==
  /\ dead \in [Ring -> SUBSET Ring]
  /\ succ \in [Ring -> Ring]
  /\ frozen \in [Ring -> BOOLEAN]
  /\ view \in [Ring -> Nat]
  /\ inbox \in [Ring -> Seq(Token)]
  /\ spoiled \in BOOLEAN
  /\ mode \in [Ring -> {"active", "down", "standby"}]
  /\ told \subseteq Ring
  /\ MembersSane /\ NoSelfExclusion
  /\ TokensAboutOthers /\ IdleInboxes

DetectorOK ==
  /\ strikes \in [Ring -> [Ring -> 0 .. StrikeThreshold]]
  /\ confirmed \in [Ring -> SUBSET Ring]
  /\ StrikesConfirmed

RestOK ==
  /\ signals \subseteq Ring \X Ring
  /\ SignalsAboutOthers
  /\ crashes \in 0 .. MaxCrashes /\ wrong \in 0 .. MaxWrong

LEMMA Parts == IInv <=> MembershipOK /\ DetectorOK /\ RestOK
BY DEF IInv, TypeOK, MembershipOK, DetectorOK, RestOK

LEMMA MineSane ==
  ASSUME MembershipOK, NEW n \in Ring
  PROVE  Sane(n, Mine(n))
BY DEF MembershipOK, MembersSane

\* A driver that changes its own part of the membership from one sane part to another.
LEMMA BecomeKeeps ==
  ASSUME MembershipOK, NEW n \in Ring, NEW m, Sane(n, m), Become(n, m)
  PROVE  /\ dead' \in [Ring -> SUBSET Ring] /\ succ' \in [Ring -> Ring]
         /\ frozen' \in [Ring -> BOOLEAN] /\ view' \in [Ring -> Nat]
         /\ MembersSane'
<1>1. /\ dead' = [dead EXCEPT ![n] = m.dead]
      /\ succ' = [succ EXCEPT ![n] = m.succ]
      /\ frozen' = [frozen EXCEPT ![n] = m.frozen]
      /\ view' = [view EXCEPT ![n] = m.view]
  BY DEF Become
<1>2. /\ dead' \in [Ring -> SUBSET Ring] /\ succ' \in [Ring -> Ring]
      /\ frozen' \in [Ring -> BOOLEAN] /\ view' \in [Ring -> Nat]
  BY <1>1 DEF MembershipOK, Sane, Membership
<1>3. \A k \in Ring : Sane(k, Mine(k))'
  <2> TAKE k \in Ring
  <2>1. CASE k = n
    <3>1. Mine(k)' = m
      BY <1>1, <2>1 DEF Mine, Sane, Membership, MembershipOK
    <3> QED
      BY <3>1, <2>1 DEF Sane
  <2>2. CASE k # n
    <3>1. Mine(k)' = Mine(k)
      BY <1>1, <2>2 DEF Mine, MembershipOK
    <3> QED
      BY <3>1, MineSane DEF Sane
  <2> QED
    BY <2>1, <2>2
<1> QED
  BY <1>2, <1>3 DEF MembersSane

\* A place in a concatenation is one in either part.
LEMMA PlaceInConcatenation ==
  ASSUME NEW q \in Seq(Token), NEW s \in Seq(Token), NEW i \in 1 .. Len(q \o s)
  PROVE  \/ i \in 1 .. Len(q) /\ (q \o s)[i] = q[i]
         \/ i - Len(q) \in 1 .. Len(s) /\ (q \o s)[i] = s[i - Len(q)]
BY ConcatProperties

\* A step of n after which it is on the ring.  It may be told something, by hand;
\* every other driver stays where it is.
StepOf(n) ==
  /\ mode' \in [Ring -> {"active", "down", "standby"}]
  /\ mode'[n] = "active" /\ \A k \in Ring \ {n} : mode'[k] = mode[k]
  /\ told \subseteq told' /\ told' \subseteq Ring

\* If n excludes itself after such a step, it has been told.
LEMMA SelfKeeps ==
  ASSUME MembershipOK, NEW n \in Ring, NEW m, Sane(n, m), Become(n, m), StepOf(n),
         n \in m.dead => n \in told'
  PROVE  NoSelfExclusion'
<1>1. dead' = [dead EXCEPT ![n] = m.dead] /\ dead \in [Ring -> SUBSET Ring]
  BY DEF Become, MembershipOK
<1> SUFFICES ASSUME NEW k \in Ring, mode'[k] = "active", k \in dead'[k] PROVE k \in told'
  BY DEF NoSelfExclusion, Active
<1>2. CASE k = n
  BY <1>1, <1>2
<1>3. CASE k # n
  <2>1. Active(k) /\ k \in dead[k]
    BY <1>1, <1>3 DEF StepOf, Active
  <2> QED
    BY <2>1 DEF MembershipOK, NoSelfExclusion, StepOf
<1> QED
  BY <1>2, <1>3

\* What n sends reaches no node that n excludes, but n itself if it is alone.
LEMMA ExecuteKeeps ==
  ASSUME MembershipOK, NEW n \in Ring, NEW a, Proper(n, a), StepOf(n),
         n \in a.m.dead => n \in told',
         NEW rest \in [Ring -> Seq(Token)],
         \A k \in Ring : k \in told' \/ AboutOthers(k, rest[k]),
         \A k \in Ring : ~Active(k) => rest[k] = <<>>,
         Execute(n, a, rest)
  PROVE  MembershipOK'
<1> DEFINE to == a.m.succ
<1>1. a.m \in Membership /\ a.sent \in Seq(Token)
  BY DEF Proper, Sane
<1>2. to \in Ring /\ (to \in a.m.dead => to = n /\ n \in told')
  BY <1>1, NextAliveIsFirst DEF Proper, Sane, Membership
<1>3. /\ Become(n, a.m)
      /\ spoiled' \in BOOLEAN
      /\ \/ inbox' = [rest EXCEPT ![to] = rest[to] \o a.sent] /\ (Active(to) \/ to = n)
         \/ inbox' = rest
  BY DEF Execute, MembershipOK
<1>4. /\ dead' \in [Ring -> SUBSET Ring] /\ succ' \in [Ring -> Ring]
      /\ frozen' \in [Ring -> BOOLEAN] /\ view' \in [Ring -> Nat]
      /\ MembersSane'
  BY <1>3, BecomeKeeps DEF Proper
<1>5. inbox' \in [Ring -> Seq(Token)] /\ TokensAboutOthers' /\ IdleInboxes'
  <2>0. \A k \in Ring : mode'[k] # "active" => ~Active(k) /\ k # n
    BY DEF StepOf, Active
  <2>1. CASE inbox' = rest
    BY <2>0, <2>1 DEF TokensAboutOthers, AboutOthers, IdleInboxes, Active
  <2>2. CASE inbox' = [rest EXCEPT ![to] = rest[to] \o a.sent] /\ (Active(to) \/ to = n)
    <3> DEFINE q == rest[to]
               r == q \o a.sent
    <3>1. q \in Seq(Token) /\ a.sent \in Seq(Token) /\ r \in Seq(Token)
      BY <1>1, <1>2
    <3>2. to \in told' \/ AboutOthers(to, r)
      <4> SUFFICES ASSUME to \notin told', NEW i \in 1 .. Len(r), Excludes(r[i])
                   PROVE  r[i].node # to
        BY DEF AboutOthers
      <4>1. CASE i \in 1 .. Len(q) /\ r[i] = q[i]
        BY <4>1, <1>2 DEF AboutOthers
      <4>2. CASE i - Len(q) \in 1 .. Len(a.sent) /\ r[i] = a.sent[i - Len(q)]
        <5>1. r[i].node \in a.m.dead
          BY <4>2 DEF Proper
        <5> QED
          BY <5>1, <1>2
      <4> QED
        BY <3>1, <4>1, <4>2, PlaceInConcatenation
    <3>3. \A k \in Ring : inbox'[k] = IF k = to THEN r ELSE rest[k]
      BY <2>2, <1>2
    <3>4. TokensAboutOthers'
      <4> SUFFICES ASSUME NEW k \in Ring PROVE k \in told' \/ AboutOthers(k, inbox'[k])
        BY DEF TokensAboutOthers, AboutOthers
      <4> HIDE DEF r
      <4> QED
        BY <3>2, <3>3
    <3>5. inbox' \in [Ring -> Seq(Token)]
      BY <2>2, <3>1, <1>2
    <3>6. IdleInboxes'
      BY <2>0, <2>2, <3>3 DEF IdleInboxes, Active
    <3> QED
      BY <3>4, <3>5, <3>6
  <2> QED
    BY <1>3, <2>1, <2>2
<1>6. NoSelfExclusion'
  BY <1>3, SelfKeeps DEF Proper
<1> QED
  BY <1>3, <1>4, <1>5, <1>6 DEF MembershipOK, StepOf

\* The next token of n, and the rest.
LEMMA NextToken ==
  ASSUME MembershipOK, NEW n \in Ring, Active(n), inbox[n] # <<>>
  PROVE  LET t == Head(inbox[n])
             rest == [inbox EXCEPT ![n] = Tail(@)]
         IN  /\ t \in Token
             /\ Excludes(t) => t.node # n \/ n \in told
             /\ rest \in [Ring -> Seq(Token)]
             /\ \A k \in Ring : k \in told \/ AboutOthers(k, rest[k])
             /\ \A k \in Ring : ~Active(k) => rest[k] = <<>>
<1> DEFINE q == inbox[n]
           rest == [inbox EXCEPT ![n] = Tail(@)]
<1>1. q \in Seq(Token) /\ q # <<>> /\ (n \in told \/ AboutOthers(n, q))
  BY DEF MembershipOK, TokensAboutOthers
<1>2. /\ Head(q) = q[1] /\ 1 \in 1 .. Len(q)
      /\ Head(q) \in Token /\ Tail(q) \in Seq(Token)
      /\ \A i \in 1 .. Len(Tail(q)) : Tail(q)[i] = q[i + 1] /\ i + 1 \in 1 .. Len(q)
  BY <1>1
<1>3. n \in told \/ AboutOthers(n, Tail(q))
  BY <1>1, <1>2 DEF AboutOthers
<1>4. rest \in [Ring -> Seq(Token)]
  BY <1>2 DEF MembershipOK
<1>5. \A k \in Ring : (k \in told \/ AboutOthers(k, rest[k])) /\ (~Active(k) => rest[k] = <<>>)
  <2> SUFFICES ASSUME NEW k \in Ring
               PROVE  (k \in told \/ AboutOthers(k, rest[k])) /\ (~Active(k) => rest[k] = <<>>)
    OBVIOUS
  <2>1. CASE k = n
    <3>1. rest[k] = Tail(q)
      BY <2>1 DEF MembershipOK
    <3> QED
      BY <3>1, <1>3, <2>1
  <2>2. CASE k # n
    <3>1. rest[k] = inbox[k]
      BY <2>2 DEF MembershipOK
    <3> QED
      BY <3>1 DEF MembershipOK, TokensAboutOthers, IdleInboxes
  <2> QED
    BY <2>1, <2>2
<1> QED
  BY <1>1, <1>2, <1>4, <1>5 DEF AboutOthers

\* A crash is confirmed, at any place that does it; its own only if n is told.
LEMMA HandleCrashConfirmedKeeps ==
  ASSUME MembershipOK, NEW n \in Ring, Active(n), NEW v \in Ring,
         UNCHANGED mode, told' = told \cup ({n} \cap {v}), HandleCrashConfirmed(n, v)
  PROVE  MembershipOK'
<1> DEFINE m == Exclude(n, Mine(n), v)
           a == Answer(m, <<NewToken(n, m, "gather", v)>>)
<1>1. Sane(n, m) /\ m.dead = dead[n] \cup {v}
  BY MineSane, ExcludeSane DEF Mine
<1>0. StepOf(n) /\ (n \in m.dead => n \in told')
  BY <1>1 DEF StepOf, MembershipOK, NoSelfExclusion, Active
<1> HIDE DEF m
<1>2. Proper(n, a)
  BY <1>1, NewTokenProper
<1>3. Execute(n, a, inbox)
  BY DEF HandleCrashConfirmed, m
<1>4. /\ inbox \in [Ring -> Seq(Token)]
      /\ \A k \in Ring : k \in told' \/ AboutOthers(k, inbox[k])
      /\ \A k \in Ring : ~Active(k) => inbox[k] = <<>>
  BY DEF MembershipOK, TokensAboutOthers, IdleInboxes
<1>5. a.m = m
  BY DEF Answer
<1> HIDE DEF a
<1> QED
  BY <1>0, <1>2, <1>3, <1>4, <1>5, ExecuteKeeps

LEMMA HandleVcKeeps ==
  ASSUME MembershipOK, NEW n \in Ring, HandleVc(n)
  PROVE  MembershipOK'
<1> DEFINE t == Head(inbox[n])
           m == Learn(n, t)
           rest == [inbox EXCEPT ![n] = Tail(@)]
<1>0. Active(n) /\ mode' = mode /\ told' = told /\ StepOf(n)
  BY DEF HandleVc, StepOf, Active, MembershipOK
<1>1. /\ t \in Token /\ (Excludes(t) => t.node # n \/ n \in told)
      /\ rest \in [Ring -> Seq(Token)]
      /\ \A k \in Ring : k \in told \/ AboutOthers(k, rest[k])
      /\ \A k \in Ring : ~Active(k) => rest[k] = <<>>
  BY NextToken DEF HandleVc
<1>2. \/ /\ Become(n, m) /\ inbox' = rest /\ spoiled' = TRUE
      \/ Execute(n, OnToken(n, m, t), rest)
  BY DEF HandleVc
<1> HIDE DEF t, rest
<1>3. /\ Sane(n, m) /\ (Excludes(t) => t.node \in m.dead)
      /\ n \in m.dead => n \in told
  <2>0. n \in dead[n] => n \in told
    BY <1>0 DEF MembershipOK, NoSelfExclusion
  <2>1. t.node \in Ring
    BY <1>1 DEF Token
  <2>2. CASE t.kind \in {"regather", "reinstall"}
    BY <1>1, <2>0, <2>1, <2>2, MineSane, ReadmitSane DEF Learn, Excludes, Mine
  <2>3. CASE t.kind \notin {"regather", "reinstall"}
    <3>1. Excludes(t)
      BY <1>1, <2>3 DEF Token, Excludes
    <3> QED
      BY <1>1, <2>0, <2>1, <2>3, <3>1, MineSane, ExcludeSane DEF Learn, Mine
  <2> QED
    BY <2>2, <2>3
<1> HIDE DEF m
<1>4. CASE Execute(n, OnToken(n, m, t), rest)
  <2> DEFINE a == OnToken(n, m, t)
  <2>1. Proper(n, a) /\ a.m.dead = m.dead
    BY <1>1, <1>3, OnTokenProper
  <2> HIDE DEF a
  <2>2. Execute(n, a, rest)
    BY <1>4 DEF a
  <2>3. \A k \in Ring : k \in told' \/ AboutOthers(k, rest[k])
    BY <1>0, <1>1
  <2> QED
    BY <1>0, <1>1, <1>3, <2>1, <2>2, <2>3, ExecuteKeeps
<1>5. CASE Become(n, m) /\ inbox' = rest /\ spoiled' = TRUE
  <2>1. MembersSane' /\ dead' \in [Ring -> SUBSET Ring] /\ succ' \in [Ring -> Ring]
        /\ frozen' \in [Ring -> BOOLEAN] /\ view' \in [Ring -> Nat]
    BY <1>3, <1>5, BecomeKeeps
  <2>2. NoSelfExclusion'
    BY <1>0, <1>3, <1>5, SelfKeeps
  <2>3. TokensAboutOthers' /\ IdleInboxes'
    BY <1>0, <1>1, <1>5 DEF TokensAboutOthers, AboutOthers, IdleInboxes, Active
  <2> QED
    BY <1>0, <1>1, <1>5, <2>1, <2>2, <2>3 DEF MembershipOK
<1> QED
  BY <1>2, <1>4, <1>5

-----------------------------------------------------------------------------
(* Every action keeps the invariant *)

LEMMA MembershipUnchanged ==
  ASSUME MembershipOK, UNCHANGED <<mode, told, members, inbox, spoiled>>
  PROVE  MembershipOK'
BY DEF MembershipOK, members, MembersSane, Sane, Mine, TokensAboutOthers, AboutOthers,
       IdleInboxes, NoSelfExclusion, Active

LEMMA DetectorUnchanged ==
  ASSUME DetectorOK, UNCHANGED detector
  PROVE  DetectorOK'
BY DEF DetectorOK, detector, StrikesConfirmed

\* The detector of n holds all it can against v and confirms it.
LEMMA ConfirmedKeeps ==
  ASSUME DetectorOK, NEW n \in Ring, NEW v \in Ring, NEW s \in 0 .. StrikeThreshold,
         strikes' = [strikes EXCEPT ![n][v] = s],
         confirmed' = [confirmed EXCEPT ![n] = @ \cup {v}]
  PROVE  DetectorOK'
<1>1. strikes' \in [Ring -> [Ring -> 0 .. StrikeThreshold]] /\ confirmed' \in [Ring -> SUBSET Ring]
  BY DEF DetectorOK
<1>2. StrikesConfirmed'
  <2> SUFFICES ASSUME NEW k \in Ring, NEW w \in Ring, strikes'[k][w] >= StrikeThreshold
               PROVE  w \in confirmed'[k]
    BY DEF StrikesConfirmed
  <2>1. CASE k = n /\ w = v
    BY <2>1 DEF DetectorOK
  <2>2. CASE ~(k = n /\ w = v)
    BY <2>2 DEF DetectorOK, StrikesConfirmed
  <2> QED
    BY <2>1, <2>2
<1> QED
  BY <1>1, <1>2 DEF DetectorOK

\* The detector of n holds less than it needs against v.
LEMMA StrikesKeep ==
  ASSUME DetectorOK, NEW n \in Ring, NEW v \in Ring, NEW s \in 0 .. StrikeThreshold - 1,
         strikes' = [strikes EXCEPT ![n][v] = s], confirmed' = confirmed
  PROVE  DetectorOK'
<1> StrikeThreshold \in Nat \ {0}
  BY ReconfigAssumption
<1>1. strikes' \in [Ring -> [Ring -> 0 .. StrikeThreshold]]
  BY DEF DetectorOK
<1>2. StrikesConfirmed'
  <2> SUFFICES ASSUME NEW k \in Ring, NEW w \in Ring, strikes'[k][w] >= StrikeThreshold
               PROVE  w \in confirmed'[k]
    BY DEF StrikesConfirmed
  <2>1. CASE k = n /\ w = v
    BY <2>1 DEF DetectorOK
  <2>2. CASE ~(k = n /\ w = v)
    BY <2>2 DEF DetectorOK, StrikesConfirmed
  <2> QED
    BY <2>1, <2>2
<1> QED
  BY <1>1, <1>2 DEF DetectorOK

LEMMA SignKeeps ==
  ASSUME wrong \in 0 .. MaxWrong, NEW v \in Ring, Sign(v)
  PROVE  wrong' \in 0 .. MaxWrong
BY ReconfigAssumption DEF Sign

LEMMA ProcessHintKeeps ==
  ASSUME IInv, NEW n \in Ring, NEW v \in Ring, ProcessHint(n, v)
  PROVE  IInv'
<1> StrikeThreshold \in Nat \ {0}
  BY ReconfigAssumption
<1>1. MembershipOK /\ DetectorOK /\ RestOK
  BY Parts
<1>2. strikes[n][v] \in 0 .. StrikeThreshold - 1
  BY <1>1 DEF DetectorOK, StrikesConfirmed, ProcessHint, Counted
<1>3. RestOK'
  BY <1>1, SignKeeps DEF RestOK, ProcessHint, SignalsAboutOthers
<1>4. CASE strikes[n][v] + 1 >= StrikeThreshold
  <2>1. MembershipOK'
    <3>1. told' = told \cup ({n} \cap {v})
      BY DEF ProcessHint
    <3> QED
      BY <1>1, <1>4, <3>1, HandleCrashConfirmedKeeps DEF ProcessHint
  <2>2. DetectorOK'
    <3>1. strikes' = [strikes EXCEPT ![n][v] = strikes[n][v] + 1]
      BY <1>1 DEF ProcessHint, DetectorOK
    <3>2. strikes[n][v] + 1 \in 0 .. StrikeThreshold
      BY <1>2
    <3>3. confirmed' = [confirmed EXCEPT ![n] = @ \cup {v}]
      BY <1>4 DEF ProcessHint
    <3> QED
      BY <1>1, <3>1, <3>2, <3>3, ConfirmedKeeps
  <2> QED
    BY <2>1, <2>2, <1>3, Parts DEF IInv, TypeOK, MembershipOK, DetectorOK, RestOK
<1>5. CASE ~(strikes[n][v] + 1 >= StrikeThreshold)
  <2>1. MembershipOK'
    BY <1>1, <1>5, MembershipUnchanged DEF ProcessHint
  <2>2. DetectorOK'
    <3>1. strikes' = [strikes EXCEPT ![n][v] = strikes[n][v] + 1]
      BY <1>1 DEF ProcessHint, DetectorOK
    <3>2. strikes[n][v] + 1 \in 0 .. StrikeThreshold - 1
      BY <1>2, <1>5
    <3>3. confirmed' = confirmed
      BY <1>5 DEF ProcessHint
    <3> QED
      BY <1>1, <3>1, <3>2, <3>3, StrikesKeep
  <2> QED
    BY <2>1, <2>2, <1>3 DEF IInv, TypeOK, MembershipOK, DetectorOK, RestOK
<1> QED
  BY <1>4, <1>5

LEMMA NoteAliveKeeps ==
  ASSUME IInv, NEW n \in Ring, NEW v \in Ring, NoteAlive(n, v)
  PROVE  IInv'
<1> StrikeThreshold \in Nat \ {0}
  BY ReconfigAssumption
<1>1. MembershipOK /\ DetectorOK /\ RestOK
  BY Parts
<1>2. MembershipOK'
  BY <1>1, MembershipUnchanged DEF NoteAlive
<1>3. DetectorOK'
  <2>1. strikes' = [strikes EXCEPT ![n][v] = 0] /\ confirmed' = confirmed
    BY DEF NoteAlive
  <2>2. 0 \in 0 .. StrikeThreshold - 1
    OBVIOUS
  <2> QED
    BY <1>1, <2>1, <2>2, StrikesKeep
<1>4. RestOK'
  BY <1>1 DEF RestOK, NoteAlive, SignalsAboutOthers
<1> QED
  BY <1>2, <1>3, <1>4 DEF IInv, TypeOK, MembershipOK, DetectorOK, RestOK

LEMMA ConnectorFailsKeeps ==
  ASSUME IInv, NEW n \in Ring, ConnectorFails(n)
  PROVE  IInv'
<1>1. MembershipOK /\ DetectorOK /\ RestOK
  BY Parts
<1>2. MembershipOK'
  BY <1>1, MembershipUnchanged DEF ConnectorFails
<1>3. DetectorOK'
  BY <1>1, DetectorUnchanged DEF ConnectorFails
<1>4. RestOK'
  <2>1. succ[n] \in Ring
    BY <1>1 DEF MembershipOK
  <2> QED
    BY <1>1, <2>1, SignKeeps DEF RestOK, ConnectorFails, SignalsAboutOthers
<1> QED
  BY <1>2, <1>3, <1>4 DEF IInv, TypeOK, MembershipOK, DetectorOK, RestOK

LEMMA UnreachableKeeps ==
  ASSUME IInv, NEW n \in Ring, NEW v \in Ring, Unreachable(n, v)
  PROVE  IInv'
<1> StrikeThreshold \in Nat \ {0}
  BY ReconfigAssumption
<1>1. MembershipOK /\ DetectorOK /\ RestOK
  BY Parts
<1>2. RestOK' /\ v # n
  BY <1>1 DEF RestOK, Unreachable, SignalsAboutOthers
<1>3. CASE UNCHANGED <<detector, members, inbox, spoiled>>
  <2>1. MembershipOK' /\ DetectorOK'
    BY <1>1, <1>3, MembershipUnchanged, DetectorUnchanged DEF Unreachable
  <2> QED
    BY <1>2, <2>1 DEF IInv, TypeOK, MembershipOK, DetectorOK, RestOK
<1>4. CASE /\ strikes' = [strikes EXCEPT ![n][v] = StrikeThreshold]
           /\ confirmed' = [confirmed EXCEPT ![n] = @ \cup {v}]
           /\ HandleCrashConfirmed(n, v)
  <2>1. MembershipOK'
    <3>1. told' = told \cup ({n} \cap {v}) /\ UNCHANGED mode /\ Active(n)
      BY <1>2 DEF Unreachable
    <3> QED
      BY <1>1, <1>4, <3>1, HandleCrashConfirmedKeeps
  <2>2. DetectorOK'
    <3>1. StrikeThreshold \in 0 .. StrikeThreshold
      OBVIOUS
    <3> QED
      BY <1>1, <1>4, <3>1, ConfirmedKeeps
  <2> QED
    BY <1>2, <2>1, <2>2 DEF IInv, TypeOK, MembershipOK, DetectorOK, RestOK
<1> QED
  BY <1>3, <1>4 DEF Unreachable

LEMMA ConfirmCrashKeeps ==
  ASSUME IInv, NEW n \in Ring, NEW v \in Ring, ConfirmCrash(n, v)
  PROVE  IInv'
<1>1. MembershipOK /\ DetectorOK /\ RestOK
  BY Parts
<1>2. MembershipOK'
  BY <1>1, HandleCrashConfirmedKeeps DEF ConfirmCrash
<1>3. DetectorOK'
  BY <1>1, DetectorUnchanged DEF ConfirmCrash
<1>4. RestOK'
  BY <1>1, ReconfigAssumption DEF RestOK, ConfirmCrash, SignalsAboutOthers
<1> QED
  BY <1>2, <1>3, <1>4 DEF IInv, TypeOK, MembershipOK, DetectorOK, RestOK

LEMMA TokenKeeps ==
  ASSUME IInv, NEW n \in Ring, HandleVc(n)
  PROVE  IInv'
<1>1. MembershipOK /\ DetectorOK /\ RestOK
  BY Parts
<1>2. MembershipOK'
  BY <1>1, HandleVcKeeps
<1>3. DetectorOK'
  BY <1>1, DetectorUnchanged DEF HandleVc
<1>4. RestOK'
  BY <1>1 DEF RestOK, HandleVc, SignalsAboutOthers
<1> QED
  BY <1>2, <1>3, <1>4 DEF IInv, TypeOK, MembershipOK, DetectorOK, RestOK

LEMMA CrashKeeps ==
  ASSUME IInv, NEW n \in Ring, Crash(n)
  PROVE  IInv'
<1>1. MembershipOK /\ DetectorOK /\ RestOK
  BY Parts
<1>2. MembershipOK'
  <2>1. MembersSane' /\ UNCHANGED <<dead, succ, frozen, view>>
    BY <1>1 DEF Crash, members, MembershipOK, MembersSane, Sane, Mine
  <2>0. /\ mode \in [Ring -> {"active", "down", "standby"}]
        /\ mode' = [mode EXCEPT ![n] = "down"] /\ told' = told \ {n}
    BY <1>1 DEF Crash, MembershipOK
  <2>2. <<>> \in Seq(Token) /\ Len(<<>>) = 0
    OBVIOUS
  <2>3. inbox \in [Ring -> Seq(Token)] /\ inbox' = [inbox EXCEPT ![n] = <<>>]
    BY <1>1 DEF Crash, MembershipOK
  <2>4. inbox' \in [Ring -> Seq(Token)]
    BY <2>2, <2>3
  <2>5. ASSUME NEW k \in Ring
        PROVE  /\ k \in told' \/ AboutOthers(k, inbox'[k])
               /\ mode'[k] # "active" => inbox'[k] = <<>>
               /\ mode'[k] = "active" /\ k \in dead[k] => k \in told'
    <3>1. CASE k = n
      <4>1. inbox'[k] = <<>> /\ mode'[k] = "down"
        BY <2>0, <2>3, <3>1
      <4> QED
        BY <2>2, <4>1 DEF AboutOthers
    <3>2. CASE k # n
      <4>1. inbox'[k] = inbox[k] /\ mode'[k] = mode[k] /\ (k \in told' <=> k \in told)
        BY <2>0, <2>3, <3>2
      <4> QED
        BY <1>1, <4>1
           DEF MembershipOK, TokensAboutOthers, IdleInboxes, NoSelfExclusion, Active
    <3> QED
      BY <3>1, <3>2
  <2>6. TokensAboutOthers' /\ IdleInboxes' /\ NoSelfExclusion'
    BY <2>1, <2>5 DEF TokensAboutOthers, AboutOthers, IdleInboxes, NoSelfExclusion, Active
  <2>7. spoiled' \in BOOLEAN
    BY <1>1 DEF Crash, MembershipOK
  <2>8. mode' \in [Ring -> {"active", "down", "standby"}] /\ told' \subseteq Ring
    BY <1>1, <2>0 DEF MembershipOK
  <2> QED
    BY <1>1, <2>1, <2>4, <2>6, <2>7, <2>8 DEF MembershipOK
<1>3. DetectorOK'
  BY <1>1, DetectorUnchanged DEF Crash
<1>4. RestOK'
  BY <1>1, ReconfigAssumption DEF RestOK, Crash, SignalsAboutOthers
<1> QED
  BY <1>2, <1>3, <1>4 DEF IInv, TypeOK, MembershipOK, DetectorOK, RestOK

LEMMA RestartKeeps ==
  ASSUME IInv, NEW n \in Ring, Restart(n)
  PROVE  IInv'
<1>1. MembershipOK /\ DetectorOK /\ RestOK
  BY Parts
<1>2. MembershipOK'
  <2>1. /\ mode \in [Ring -> {"active", "down", "standby"}] /\ mode[n] = "down"
        /\ mode' = [mode EXCEPT ![n] = "standby"]
        /\ UNCHANGED <<told, members, inbox, spoiled>>
    BY <1>1 DEF Restart, MembershipOK
  <2>2. \A k \in Ring : mode'[k] = "active" <=> Active(k)
    BY <2>1 DEF Active
  <2>3. mode' \in [Ring -> {"active", "down", "standby"}]
    BY <2>1
  <2> QED
    BY <1>1, <2>1, <2>2, <2>3
       DEF MembershipOK, members, MembersSane, Sane, Mine, TokensAboutOthers, AboutOthers,
           IdleInboxes, NoSelfExclusion, Active
<1>3. DetectorOK'
  BY <1>1, DetectorUnchanged DEF Restart
<1>4. RestOK'
  BY <1>1 DEF RestOK, Restart, SignalsAboutOthers
<1> QED
  BY <1>2, <1>3, <1>4 DEF IInv, TypeOK, MembershipOK, DetectorOK, RestOK

LEMMA PromoteKeeps ==
  ASSUME IInv, NEW n \in Ring, NEW s \in Ring, Promote(n, s)
  PROVE  IInv'
<1> DEFINE gone == SeedDead(n, s)
<1>1. MembershipOK /\ DetectorOK /\ RestOK
  BY Parts
<1>2. gone \in SUBSET Ring /\ n \notin gone
  BY <1>1 DEF SeedDead, MembershipOK
<1>3. NextAlive(n, gone) \in Ring
  BY <1>2, NextAliveIsFirst
<1> HIDE DEF gone
<1>4. PICK f \in {FALSE, frozen[s]} :
        LET m == [dead |-> gone, succ |-> NextAlive(n, gone), frozen |-> f, view |-> view[s]]
        IN  Execute(n, Answer(m, <<NewToken(n, m, "regather", n)>>), inbox)
  BY DEF Promote, gone
<1> DEFINE m == [dead |-> gone, succ |-> NextAlive(n, gone), frozen |-> f, view |-> view[s]]
           a == Answer(m, <<NewToken(n, m, "regather", n)>>)
<1>5. Sane(n, m)
  BY <1>1, <1>2, <1>3 DEF Sane, Membership, MembershipOK
<1>6. Execute(n, a, inbox)
  BY <1>4
<1> HIDE DEF m
<1>7. Proper(n, a)
  BY <1>5, NewTokenProper
<1>8. a.m.dead = gone
  BY DEF Answer, m
<1>10. /\ mode' = [mode EXCEPT ![n] = "active"]
       /\ strikes' = [strikes EXCEPT ![n] = [v \in Ring |-> 0]]
       /\ confirmed' = [confirmed EXCEPT ![n] = {}]
       /\ UNCHANGED <<signals, told, crashes, wrong>>
  BY DEF Promote
<1> HIDE DEF a
<1>9. MembershipOK'
  <2>1. StepOf(n)
    BY <1>1, <1>10 DEF StepOf, MembershipOK
  <2>2. /\ inbox \in [Ring -> Seq(Token)]
        /\ \A k \in Ring : k \in told' \/ AboutOthers(k, inbox[k])
        /\ \A k \in Ring : ~Active(k) => inbox[k] = <<>>
    BY <1>1, <1>10 DEF MembershipOK, TokensAboutOthers, IdleInboxes
  <2> QED
    BY <1>1, <1>2, <1>6, <1>7, <1>8, <2>1, <2>2, ExecuteKeeps
<1>11. DetectorOK'
  <2> StrikeThreshold \in Nat \ {0}
    BY ReconfigAssumption
  <2>1. /\ strikes' \in [Ring -> [Ring -> 0 .. StrikeThreshold]]
        /\ confirmed' \in [Ring -> SUBSET Ring]
    BY <1>1, <1>10 DEF DetectorOK
  <2>2. StrikesConfirmed'
    <3> SUFFICES ASSUME NEW k \in Ring, NEW v \in Ring, strikes'[k][v] >= StrikeThreshold
                 PROVE  v \in confirmed'[k]
      BY DEF StrikesConfirmed
    <3>1. CASE k = n
      <4>1. strikes'[k][v] = 0
        BY <1>1, <1>10, <3>1 DEF DetectorOK
      <4> QED
        BY <4>1
    <3>2. CASE k # n
      BY <1>1, <1>10, <3>2 DEF DetectorOK, StrikesConfirmed
    <3> QED
      BY <3>1, <3>2
  <2> QED
    BY <2>1, <2>2 DEF DetectorOK
<1>12. RestOK'
  BY <1>1, <1>10 DEF RestOK, SignalsAboutOthers
<1> QED
  BY <1>9, <1>11, <1>12 DEF IInv, TypeOK, MembershipOK, DetectorOK, RestOK

LEMMA InitInv ==
  ASSUME Init
  PROVE  IInv
<1> N \in Nat \ {0} /\ StrikeThreshold \in Nat \ {0} /\ MaxCrashes \in Nat /\ MaxWrong \in Nat
  BY ReconfigAssumption
<1>1. \A n \in Ring : (n + 1) % N \in Ring /\ NextAlive(n, {}) = (n + 1) % N
  <2> TAKE n \in Ring
  <2>1. CASE N = 1
    <3>1. n = 0 /\ (n + 1) % N = 0
      BY <2>1 DEF Ring
    <3>2. NextAlive(n, {}) = n
      BY <2>1 DEF NextAlive
    <3> QED
      BY <3>1, <3>2 DEF Ring
  <2>2. CASE N # 1
    <3> DEFINE steps == {d \in 1 .. N - 1 : (n + d) % N \notin {}}
    <3>1. steps = 1 .. N - 1
      OBVIOUS
    <3>2. 1 \in steps /\ steps \in SUBSET Nat
      BY <2>2, <3>1
    <3>3. Min(steps) \in steps /\ Min(steps) <= 1
      BY <3>2, LeastDistance
    <3>4. Min(steps) = 1
      BY <3>1, <3>3
    <3>5. NextAlive(n, {}) = (n + 1) % N
      BY <3>2, <3>4 DEF NextAlive
    <3>6. (n + 1) % N \in Ring
      BY <2>2, Round
    <3> QED
      BY <3>5, <3>6
  <2> QED
    BY <2>1, <2>2
<1>2. \A n \in Ring : Sane(n, Mine(n))
  BY <1>1 DEF Init, Sane, Mine, Membership
<1>3. /\ dead \in [Ring -> SUBSET Ring] /\ succ \in [Ring -> Ring]
      /\ frozen \in [Ring -> BOOLEAN] /\ view \in [Ring -> Nat] /\ spoiled \in BOOLEAN
  BY <1>1 DEF Init
<1>4. /\ inbox \in [Ring -> Seq(Token)] /\ TokensAboutOthers /\ IdleInboxes
      /\ mode \in [Ring -> {"active", "down", "standby"}] /\ told \subseteq Ring
      /\ NoSelfExclusion
  <2>1. <<>> \in Seq(Token) /\ Len(<<>>) = 0
    OBVIOUS
  <2> QED
    BY <2>1 DEF Init, TokensAboutOthers, AboutOthers, IdleInboxes, NoSelfExclusion
<1>5. DetectorOK /\ RestOK
  BY DEF Init, DetectorOK, RestOK, StrikesConfirmed, SignalsAboutOthers
<1> QED
  BY <1>2, <1>3, <1>4, <1>5, Parts DEF MembershipOK, MembersSane

-----------------------------------------------------------------------------
(* Theorems *)

\* IInv is inductive: whatever order drivers, detectors, tokens, crashes and returns
\* act in, every driver's successor is next_alive of its own dead set; no signal tells
\* a node of its own crash, and no token does, nor does a driver exclude itself, unless
\* the driver has been told so by hand.
THEOREM Invariance == Spec => []IInv
<1>1. Init => IInv
  BY InitInv
<1>2. IInv /\ [Next]_vars => IInv'
  <2> SUFFICES ASSUME IInv, [Next]_vars PROVE IInv'
    OBVIOUS
  <2>1. CASE UNCHANGED vars
    BY <2>1, Parts, MembershipUnchanged, DetectorUnchanged
       DEF vars, members, detector, IInv, TypeOK, MembershipOK, DetectorOK, RestOK,
           SignalsAboutOthers
  <2>2. ASSUME NEW n \in Ring, NEW v \in Ring, ProcessHint(n, v) PROVE IInv'
    BY <2>2, ProcessHintKeeps
  <2>3. ASSUME NEW n \in Ring, NEW v \in Ring, NoteAlive(n, v) PROVE IInv'
    BY <2>3, NoteAliveKeeps
  <2>4. ASSUME NEW n \in Ring, NEW v \in Ring, Unreachable(n, v) PROVE IInv'
    BY <2>4, UnreachableKeeps
  <2>5. ASSUME NEW n \in Ring, NEW v \in Ring, ConfirmCrash(n, v) PROVE IInv'
    BY <2>5, ConfirmCrashKeeps
  <2>6. ASSUME NEW n \in Ring, NEW v \in Ring, Promote(n, v) PROVE IInv'
    BY <2>6, PromoteKeeps
  <2>7. ASSUME NEW n \in Ring, ConnectorFails(n) PROVE IInv'
    BY <2>7, ConnectorFailsKeeps
  <2>8. ASSUME NEW n \in Ring, HandleVc(n) PROVE IInv'
    BY <2>8, TokenKeeps
  <2>9. ASSUME NEW n \in Ring, Crash(n) PROVE IInv'
    BY <2>9, CrashKeeps
  <2>10. ASSUME NEW n \in Ring, Restart(n) PROVE IInv'
    BY <2>10, RestartKeeps
  <2> QED
    BY <2>1, <2>2, <2>3, <2>4, <2>5, <2>6, <2>7, <2>8, <2>9, <2>10 DEF Next
<1> QED
  BY <1>1, <1>2, PTL DEF Spec

\* Every variable keeps its type: a strike count never passes the threshold, since
\* process_hints skips what is confirmed.
THEOREM TypeCorrect == Spec => []TypeOK
<1>1. IInv => TypeOK
  BY DEF IInv
<1> QED
  BY <1>1, Invariance, PTL

\* No driver excludes itself unless it was told by hand, for any number of nodes,
\* crashes and wrong suspicions.
THEOREM NobodyExcludesItself == Spec => []NoSelfExclusion
<1>1. IInv => NoSelfExclusion
  BY DEF IInv
<1> QED
  BY <1>1, Invariance, PTL

\* Drivers whose dead sets are the nodes off the ring send to the next node on it.
THEOREM RingCloses == Spec => []RingIsClosed
<1>1. IInv => RingIsClosed
  <2> SUFFICES ASSUME IInv, NEW n \in Ring, Active(n),
                      dead[n] = Ring \ {k \in Ring : Active(k)}
               PROVE  /\ succ[n] \in {k \in Ring : Active(k)}
                      /\ \A d \in 1 .. N - 1 :
                           (n + d) % N \in {k \in Ring : Active(k)} => (succ[n] - n) % N <= d
    BY DEF RingIsClosed
  <2>1. dead[n] \in SUBSET Ring /\ n \notin dead[n] /\ succ[n] = NextAlive(n, dead[n])
    BY DEF IInv, TypeOK, MembersSane, Sane, Mine
  <2>2. /\ succ[n] \in Ring \ dead[n]
        /\ \A d \in 1 .. N - 1 : (n + d) % N \notin dead[n] => (succ[n] - n) % N <= d
    BY <2>1, NextAliveIsFirst
  <2> QED
    BY <2>2
<1> QED
  BY <1>1, Invariance, PTL
=============================================================================
