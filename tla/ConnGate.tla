------------------------------ MODULE ConnGate ------------------------------
(***************************************************************************)
(* Admission of RESP clients (ConnGate and listener_loop of proxy.rs): a    *)
(* global semaphore and a per-IP counter map, taken together by the         *)
(* listener and given back by each connection's own task when it ends.      *)
(***************************************************************************)
EXTENDS Naturals, FiniteSets

CONSTANTS
  Conn,          \* the connections clients open
  Ip,            \* source addresses
  ip,            \* ip[c]: where connection c comes from
  MaxConns,      \* MAX_CLIENT_CONNS
  PerIpCap       \* PER_IP_CONN_CAP

ASSUME GateAssumption ==
  /\ IsFiniteSet(Conn)
  /\ ip \in [Conn -> Ip]
  /\ MaxConns \in Nat
  /\ PerIpCap \in Nat \ {0}

VARIABLES
  permits,       \* permits left in the semaphore
  per_ip,        \* the counter map: a function on the addresses it has an entry for
  state          \* where each connection is

vars == <<permits, per_ip, state>>

\* "new"     not accepted yet;     "checking" listener holds its permit;
\* "serving" its task runs;        "dropping" counter released, permit not yet;
\* "closed"  ended;                "refused"  answered with BUSY_REPLY.
States == {"new", "checking", "serving", "dropping", "closed", "refused"}

TypeOK ==
  /\ permits \in Nat
  /\ DOMAIN per_ip \subseteq Ip
  /\ \A i \in DOMAIN per_ip : per_ip[i] \in Nat
  /\ state \in [Conn -> States]

Init ==
  /\ permits = MaxConns
  /\ per_ip = [i \in {} |-> 0]
  /\ state = [c \in Conn |-> "new"]

Count(m, i) == IF i \in DOMAIN m THEN m[i] ELSE 0

Put(m, i, v) == [j \in DOMAIN m \cup {i} |-> IF j = i THEN v ELSE m[j]]

Remove(m, i) == [j \in DOMAIN m \ {i} |-> m[j]]

Goto(c, s) == state' = [state EXCEPT ![c] = s]

-----------------------------------------------------------------------------
\* The listener accepts one connection at a time.
ListenerFree == \A c \in Conn : state[c] # "checking"

\* The listener takes a permit and holds it for the check.
Acquire(c, available) ==
  /\ ListenerFree
  /\ state[c] = "new"
  /\ available
  /\ permits' = permits - 1
  /\ Goto(c, "checking")
  /\ UNCHANGED per_ip

\* try_acquire_owned succeeds.
TakePermit(c) == Acquire(c, permits > 0)

\* try_acquire_owned fails.
RefuseFull(c) ==
  /\ ListenerFree
  /\ state[c] = "new"
  /\ permits = 0
  /\ Goto(c, "refused")
  /\ UNCHANGED <<permits, per_ip>>

\* Under the map's lock, below the cap: count the connection and spawn its task.
Admit(c) ==
  /\ state[c] = "checking"
  /\ Count(per_ip, ip[c]) < PerIpCap
  /\ per_ip' = Put(per_ip, ip[c], Count(per_ip, ip[c]) + 1)
  /\ Goto(c, "serving")
  /\ UNCHANGED permits

\* At the cap: the permit taken for the check goes back.
RefuseFrom(c, cap, back) ==
  /\ state[c] = "checking"
  /\ Count(per_ip, ip[c]) >= cap
  /\ permits' = permits + back
  /\ Goto(c, "refused")
  /\ UNCHANGED per_ip

\* Slips: the permit is forgotten on the early return; one refused too early.
RefusePerIpLeaks(c) == RefuseFrom(c, PerIpCap, 0)
RefusePerIpEarly(c) == RefuseFrom(c, PerIpCap - 1, 1)

RefusePerIp(c) == RefuseFrom(c, PerIpCap, 1)

\* ConnGuard::drop: the counter goes down under the lock, and an entry that
\* reaches zero is removed.
Uncount(c, removeAtZero) ==
  LET i == ip[c]
      n == IF Count(per_ip, i) > 0 THEN Count(per_ip, i) - 1 ELSE 0  \* saturating_sub
  IN  /\ state[c] = "serving"
      /\ per_ip' = IF i \notin DOMAIN per_ip THEN per_ip
                   ELSE IF n = 0 /\ removeAtZero THEN Remove(per_ip, i)
                   ELSE Put(per_ip, i, n)
      /\ Goto(c, "dropping")
      /\ UNCHANGED permits

\* Slip: entries stay in the map at zero.
DropGuardKeepsEntry(c) == Uncount(c, FALSE)

DropGuard(c) == Uncount(c, TRUE)

\* The guard's fields are dropped after its drop().
DropFields(c, back) ==
  /\ state[c] = "dropping"
  /\ permits' = permits + back
  /\ Goto(c, "closed")
  /\ UNCHANGED per_ip

\* Slip: the permit was forgotten (mem::forget), not dropped.
DropPermitForgotten(c) == DropFields(c, 0)

\* The owned permit goes back to the semaphore.
DropPermit(c) == DropFields(c, 1)

Next ==
  \E c \in Conn :
    \/ TakePermit(c) \/ RefuseFull(c) \/ Admit(c) \/ RefusePerIp(c)
    \/ DropGuard(c) \/ DropPermit(c)

Spec == Init /\ [][Next]_vars

\* The listener finishes a try_admit it has begun, and a dropped guard's fields
\* follow it; no connection is assumed to end or to be made.
FairSpec == Spec /\ \A c \in Conn :
  WF_vars(Admit(c) \/ RefusePerIp(c)) /\ WF_vars(DropPermit(c))

-----------------------------------------------------------------------------
Holders == {c \in Conn : state[c] \in {"checking", "serving", "dropping"}}
Counted(i) == {c \in Conn : state[c] = "serving" /\ ip[c] = i}

\* Permits are conserved: every one is in the semaphore or with exactly one
\* connection that still has to give it back, whatever order the listener's
\* early returns and the tasks' drops run in.
PermitsConserved == permits + Cardinality(Holders) = MaxConns

\* The map counts exactly the connections being served, per address, within
\* the cap, and keeps no entry for an address without one.
CountsExact ==
  /\ \A i \in Ip : Count(per_ip, i) = Cardinality(Counted(i)) /\ Count(per_ip, i) <= PerIpCap
  /\ \A i \in DOMAIN per_ip : per_ip[i] > 0

\* A connection is turned away only while MaxConns others hold permits, or
\* PerIpCap others of its own address are being served.
RefusedOnlyAtCap ==
  [][\A c \in Conn : state[c] # "refused" /\ state'[c] = "refused" =>
       \/ Cardinality(Holders \ {c}) = MaxConns
       \/ Cardinality(Counted(ip[c])) = PerIpCap]_vars

\* Capacity comes back: once no connection is served any more, all of it is
\* free again, unless another one arrives.
CapacityReturns ==
  (\A c \in Conn : state[c] # "serving") ~>
    permits = MaxConns \/ (\E c \in Conn : state[c] \in {"checking", "serving"})
=============================================================================
