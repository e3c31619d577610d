--------------------------- MODULE ConnGateProofs ---------------------------
(***************************************************************************)
(* The gate's accounting, for every number of connections and addresses and *)
(* all caps: type correctness and the two exact counts are inductive        *)
(* together.                                                                *)
(***************************************************************************)
EXTENDS ConnGate, FiniteSetTheorems, TLAPS

IInv == TypeOK /\ PermitsConserved /\ CountsExact

\* What one connection changing its state does to a set of connections.
LEMMA SetChange ==
  ASSUME NEW S \in SUBSET Conn, NEW c \in Conn
  PROVE  /\ IsFiniteSet(S) /\ Cardinality(S) \in Nat
         /\ c \notin S => Cardinality(S \cup {c}) = Cardinality(S) + 1
         /\ c \in S => Cardinality(S \ {c}) = Cardinality(S) - 1 /\ Cardinality(S) > 0
<1>1. IsFiniteSet(S)
  BY GateAssumption, FS_Subset
<1>2. Cardinality(S) \in Nat
  BY <1>1, FS_CardinalityType
<1>3. c \notin S => Cardinality(S \cup {c}) = Cardinality(S) + 1
  BY <1>1, FS_AddElement
<1>4. c \in S => Cardinality(S \ {c}) = Cardinality(S) - 1
  BY <1>1, FS_RemoveElement
<1>5. c \in S => Cardinality(S) > 0
  BY <1>1, <1>2, FS_EmptySet
<1> QED
  BY <1>1, <1>2, <1>3, <1>4, <1>5

\* The gate opens with every permit and an empty map.
LEMMA InitIInv == Init => IInv
<1> SUFFICES ASSUME Init PROVE IInv
  OBVIOUS
<1>1. TypeOK
  BY GateAssumption DEF Init, TypeOK, States
<1>2. Holders = {} /\ \A i \in Ip : Counted(i) = {}
  BY DEF Init, Holders, Counted
<1>3. Cardinality({}) = 0
  BY FS_EmptySet
<1>4. PermitsConserved
  BY <1>2, <1>3, GateAssumption DEF Init, PermitsConserved
<1>5. DOMAIN per_ip = {} /\ \A i \in Ip : Count(per_ip, i) = 0
  BY DEF Init, Count
<1>6. CountsExact
  <2>1. 0 <= PerIpCap
    BY GateAssumption
  <2>2. \A i \in Ip : Count(per_ip, i) = 0 /\ Cardinality(Counted(i)) = 0
    BY <1>2, <1>3, <1>5
  <2> QED
    BY <1>5, <2>1, <2>2 DEF CountsExact
<1> QED
  BY <1>1, <1>4, <1>6 DEF IInv

\* Steps of the listener and of a guard's permit: the served connections, and
\* with them the map, stay as they are.
LEMMA PermitSteps ==
  ASSUME IInv, NEW c \in Conn,
         TakePermit(c) \/ RefuseFull(c) \/ RefusePerIp(c) \/ DropPermit(c)
  PROVE  IInv'
<1>1. /\ TypeOK /\ PermitsConserved /\ CountsExact /\ MaxConns \in Nat /\ permits \in Nat
      /\ per_ip' = per_ip
  BY GateAssumption DEF IInv, TypeOK, TakePermit, Acquire, RefuseFull, RefusePerIp, RefuseFrom,
     DropPermit, DropFields
<1>2. Holders \in SUBSET Conn
  BY DEF Holders
<1>3. \A i \in Ip : Counted(i)' = Counted(i)
  BY <1>1 DEF Counted, TypeOK, TakePermit, Acquire, RefuseFull, RefusePerIp, RefuseFrom,
     DropPermit, DropFields, Goto
<1>4. CountsExact'
  BY <1>1, <1>3 DEF CountsExact, Count
<1>5. TypeOK' /\ PermitsConserved'
  <2>1. CASE TakePermit(c)
    <3>1. c \notin Holders /\ Holders' = Holders \cup {c}
      BY <1>1, <2>1 DEF TakePermit, Acquire, Goto, Holders, TypeOK
    <3>2. Cardinality(Holders') = Cardinality(Holders) + 1 /\ Cardinality(Holders) \in Nat
      BY <1>2, <3>1, SetChange
    <3> QED
      BY <1>1, <2>1, <3>2 DEF TakePermit, Acquire, Goto, PermitsConserved, TypeOK, States
  <2>2. CASE RefuseFull(c)
    <3>1. Holders' = Holders
      BY <1>1, <2>2 DEF RefuseFull, Goto, Holders, TypeOK
    <3> QED
      BY <1>1, <2>2, <3>1 DEF RefuseFull, Goto, PermitsConserved, TypeOK, States
  <2>3. CASE RefusePerIp(c) \/ DropPermit(c)
    <3>1. /\ permits' = permits + 1
          /\ \/ state[c] = "checking" /\ Goto(c, "refused")
             \/ state[c] = "dropping" /\ Goto(c, "closed")
      BY <2>3 DEF RefusePerIp, RefuseFrom, DropPermit, DropFields
    <3>2. c \in Holders /\ Holders' = Holders \ {c}
      BY <1>1, <3>1 DEF Goto, Holders, TypeOK
    <3>3. Cardinality(Holders') = Cardinality(Holders) - 1 /\ Cardinality(Holders) \in Nat
      BY <1>2, <3>2, SetChange
    <3> QED
      BY <1>1, <3>1, <3>3 DEF Goto, PermitsConserved, TypeOK, States
  <2> QED
    BY <2>1, <2>2, <2>3
<1> QED
  BY <1>4, <1>5 DEF IInv

\* Steps under the map's lock: the permits' holders stay as they are.
LEMMA CountSteps ==
  ASSUME IInv, NEW c \in Conn, Admit(c) \/ DropGuard(c)
  PROVE  IInv'
<1> DEFINE i == ip[c]
           n == Count(per_ip, i)
<1>1. /\ TypeOK /\ PermitsConserved /\ CountsExact /\ permits' = permits /\ permits \in Nat
      /\ i \in Ip /\ PerIpCap \in Nat /\ DOMAIN per_ip \subseteq Ip
  BY GateAssumption DEF IInv, TypeOK, Admit, DropGuard, Uncount
<1>2. Counted(i) \in SUBSET Conn /\ n = Cardinality(Counted(i)) /\ n <= PerIpCap
  BY <1>1 DEF Counted, CountsExact
<1>3. n \in Nat
  BY <1>2, SetChange
<1>4. \A j \in DOMAIN per_ip : j \in Ip /\ per_ip[j] \in Nat /\ per_ip[j] > 0
  BY <1>1 DEF TypeOK, CountsExact
<1>5. Holders' = Holders
  BY <1>1 DEF Admit, DropGuard, Uncount, Goto, Holders, TypeOK
<1>6. PermitsConserved'
  BY <1>1, <1>5 DEF PermitsConserved
<1>7. \A j \in Ip : j # i => Counted(j)' = Counted(j)
  BY <1>1 DEF Admit, DropGuard, Uncount, Goto, Counted, TypeOK
<1>8. state' \in [Conn -> States]
  BY <1>1 DEF Admit, DropGuard, Uncount, Goto, TypeOK, States
<1>9. CASE Admit(c)
  <2>1. n < PerIpCap /\ per_ip' = Put(per_ip, i, n + 1)
    BY <1>9 DEF Admit
  <2>2. c \notin Counted(i) /\ Counted(i)' = Counted(i) \cup {c}
    BY <1>1, <1>9 DEF Admit, Goto, Counted, TypeOK
  <2>3. Cardinality(Counted(i)') = n + 1
    BY <1>2, <2>2, SetChange
  <2> HIDE DEF i, n
  <2>4. \A j \in DOMAIN per_ip' : j \in Ip /\ per_ip'[j] \in Nat /\ per_ip'[j] > 0
    BY <1>1, <1>3, <1>4, <2>1 DEF Put
  <2>5. \A j \in Ip : Count(per_ip', j) = IF j = i THEN n + 1 ELSE Count(per_ip, j)
    BY <2>1 DEF Put, Count
  <2>6. TypeOK'
    BY <1>1, <1>8, <2>4 DEF TypeOK
  <2>7. \A j \in Ip : /\ Count(per_ip', j) = Cardinality(Counted(j)')
                      /\ Count(per_ip', j) <= PerIpCap
    BY <1>1, <1>3, <1>7, <2>1, <2>3, <2>5 DEF CountsExact
  <2>8. CountsExact'
    BY <2>4, <2>7 DEF CountsExact, Count
  <2> QED
    BY <1>6, <2>6, <2>8 DEF IInv
<1>10. CASE DropGuard(c)
  <2>1. c \in Counted(i) /\ Counted(i)' = Counted(i) \ {c}
    BY <1>1, <1>10 DEF DropGuard, Uncount, Goto, Counted, TypeOK
  <2>2. Cardinality(Counted(i)') = n - 1 /\ n > 0
    BY <1>2, <2>1, SetChange
  <2>3. i \in DOMAIN per_ip
    BY <2>2 DEF Count
  <2>4. per_ip' = IF n - 1 = 0 THEN Remove(per_ip, i) ELSE Put(per_ip, i, n - 1)
    BY <1>10, <2>2, <2>3 DEF DropGuard, Uncount
  <2> HIDE DEF i, n
  <2>5. n - 1 \in Nat /\ (n - 1 # 0 => n - 1 > 0)
    BY <1>3, <2>2
  <2>6. \A j \in DOMAIN per_ip' : j \in Ip /\ per_ip'[j] \in Nat /\ per_ip'[j] > 0
    BY <1>1, <1>4, <2>4, <2>5 DEF Put, Remove
  <2>7. \A j \in Ip : Count(per_ip', j) = IF j = i THEN n - 1 ELSE Count(per_ip, j)
    BY <2>4, <2>5 DEF Put, Remove, Count
  <2>8. TypeOK'
    BY <1>1, <1>8, <2>6 DEF TypeOK
  <2>9. \A j \in Ip : /\ Count(per_ip', j) = Cardinality(Counted(j)')
                      /\ Count(per_ip', j) <= PerIpCap
    BY <1>1, <1>2, <1>3, <1>7, <2>2, <2>7 DEF CountsExact
  <2>10. CountsExact'
    BY <2>6, <2>9 DEF CountsExact, Count
  <2> QED
    BY <1>6, <2>8, <2>10 DEF IInv
<1> QED
  BY <1>9, <1>10

\* No step disturbs the accounting.
LEMMA NextIInv == IInv /\ [Next]_vars => IInv'
<1>1. ASSUME IInv, UNCHANGED vars PROVE IInv'
  BY <1>1 DEF vars, IInv, TypeOK, PermitsConserved, CountsExact, Holders, Counted, Count
<1> QED
  BY <1>1, PermitSteps, CountSteps DEF Next

\* The strengthening: type correctness and both counts together.
THEOREM Invariance == Spec => []IInv
BY InitIInv, NextIInv, PTL DEF Spec

\* No order of accepts, refusals on either early return, and drops loses a
\* permit of the semaphore or gives one back twice.
THEOREM PermitsAreConserved == Spec => []PermitsConserved
<1>1. IInv => PermitsConserved
  BY DEF IInv
<1> QED
  BY <1>1, Invariance, PTL

\* The map counts exactly the served connections of each address: nobody is
\* admitted beyond a cap, and no entry outlives its last connection.
THEOREM GateAccounting == Spec => []CountsExact
<1>1. IInv => CountsExact
  BY DEF IInv
<1> QED
  BY <1>1, Invariance, PTL

\* A client is refused only while a cap is really reached.
THEOREM NoEarlyRefusal == Spec => RefusedOnlyAtCap
<1>1. ASSUME IInv, Next, NEW c \in Conn, state[c] # "refused", state'[c] = "refused"
      PROVE  \/ Cardinality(Holders \ {c}) = MaxConns
             \/ Cardinality(Counted(ip[c])) = PerIpCap
  <2>1. TypeOK
    BY <1>1 DEF IInv
  <2>2. RefuseFull(c) \/ RefusePerIp(c)
    BY <1>1, <2>1 DEF Next, TakePermit, Acquire, RefuseFull, Admit, RefusePerIp,
       RefuseFrom, DropGuard, Uncount, DropPermit, DropFields, Goto, TypeOK
  <2>3. CASE RefuseFull(c)
    <3>1. permits = 0 /\ Holders \ {c} = Holders
      BY <2>3 DEF RefuseFull, Holders
    <3>2. Cardinality(Holders) \in Nat
      BY SetChange DEF Holders
    <3> QED
      BY <1>1, <3>1, <3>2 DEF IInv, PermitsConserved
  <2>4. CASE RefusePerIp(c)
    <3>1. ip[c] \in Ip /\ Count(per_ip, ip[c]) >= PerIpCap
      BY <2>4, GateAssumption DEF RefusePerIp, RefuseFrom
    <3>2. Cardinality(Counted(ip[c])) \in Nat
      BY SetChange DEF Counted
    <3> QED
      BY <1>1, <3>1, <3>2, GateAssumption DEF IInv, CountsExact
  <2> QED
    BY <2>2, <2>3, <2>4
<1>2. IInv /\ [Next]_vars =>
        [\A c \in Conn : state[c] # "refused" /\ state'[c] = "refused" =>
           \/ Cardinality(Holders \ {c}) = MaxConns
           \/ Cardinality(Counted(ip[c])) = PerIpCap]_vars
  BY <1>1
<1> QED
  BY <1>2, InitIInv, NextIInv, PTL DEF Spec, RefusedOnlyAtCap
==============================================================================
