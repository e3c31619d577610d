-------------------------- MODULE EffectReplication --------------------------
(***************************************************************************)
(* Effect replication: a command whose result depends on the state or on    *)
(* chance is resolved to a deterministic effect at its origin (effect.rs),  *)
(* ordered by the ring like any write, and applied by every replica; the    *)
(* origin's client is answered with the value resolved (proxy.rs).          *)
(* Between resolving and applying, other writes may be applied.             *)
(*                                                                          *)
(* Dedup, crashes and state transfer are in Replication; here every payload *)
(* is ordered once and every replica stays up.                              *)
(***************************************************************************)
EXTENDS MemStore, Sequences

CONSTANTS
  Node,      \* the replicas
  Client,    \* the client connections: each waits for its reply
  Home,      \* Home[c]: the proxy that client c connects to first
  MayIssue,  \* MayIssue[c]: the commands that client c issues
  MaxWrites  \* bound: writes broadcast

NonDeterministic == {"SPOP", "INCRBYFLOAT", "HINCRBYFLOAT"}

\* A command that resolution or the store finds its operands in; the count of an
\* SPOP is empty or one i64 of either sign.
IsIssuable(c) ==
  IF c.name \in NonDeterministic
  THEN /\ c.key \in Key
       /\ c.name = "SPOP" /\ c.count # {} => Max(c.count) \in Int /\ c.count = {Max(c.count)}
       /\ c.name # "SPOP" => c.val \in Content
       /\ c.name = "HINCRBYFLOAT" => c.field \in Field
  ELSE IsCommand(c)

ASSUME EffectAssumption ==
  /\ Home \in [Client -> Node]
  /\ MaxWrites \in Nat
  /\ \A c \in Client : \A cmd \in MayIssue[c] : IsIssuable(cmd)

VARIABLES
  at,      \* at[c]: the proxy that serves client c
  queued,  \* ops broadcast and not yet ordered
  order,   \* the total order
  pos,     \* how much of it a replica has applied
  kv,      \* the keyspace of a replica
  answer   \* answer[c]: the last reply of client c, or Waiting

vars == <<at, queued, order, pos, kv, answer>>

NoReply == [kind |-> "none"]
Waiting == [kind |-> "waiting"]

-----------------------------------------------------------------------------
(* Resolution *)

\* Answer at once, or broadcast an effect with the client's reply (NoReply: the
\* reply is what applying the effect returns).
Immediate(reply) == [broadcast |-> FALSE, reply |-> reply]
Broadcast(effect, reply) == [broadcast |-> TRUE, effect |-> effect, reply |-> reply]

\* Slip: one member too many.
FirstAndNext(s, n) == {m \in s : Cardinality({x \in s : x < m}) <= n}

\* The first n members in iteration order.
FirstOf(s, n) == {m \in s : Cardinality({x \in s : x < m}) < n}

Srem(k, ms) == [name |-> "SREM", key |-> k, members |-> ms]

\* resolve_spop, with c.count = {} for the form without a count.  A negative
\* count pops nothing.
ResolveSpop(st, c) ==
  LET members == SetAt(st, c.key)
      popped == FirstOf(members, IF c.count = {} THEN 1 ELSE Max(c.count))
  IN  IF WrongType(st, c.key, "set") THEN Immediate(Err)
      ELSE IF popped = {} THEN Immediate(IF c.count = {} THEN Nil ELSE Members({}))
      ELSE Broadcast(Srem(c.key, popped), Members(popped))

\* The sum of two floats; no float if one of them is none, or if it is not finite.
FloatSum(old, incr) == IF IsFloat(old) /\ IsFloat(incr) THEN Num(old.n + incr.n) ELSE Text

SetTo(k, c) == [name |-> "SET", key |-> k, val |-> c]
HsetTo(k, f, c) == [name |-> "HSET", key |-> k, pairs |-> [g \in {f} |-> c]]

\* A missing key, or field, counts as 0.
FloatAt(st, k) == IF Has(st, k) THEN st.data[k].str ELSE Num(0)
FloatIn(h, f) == IF f \in DOMAIN h THEN h[f] ELSE Num(0)

ResolveIncrbyfloat(st, c) ==
  LET next == FloatSum(FloatAt(st, c.key), c.val)
  IN  IF WrongType(st, c.key, "string") \/ ~IsFloat(next) THEN Immediate(Err)
      ELSE Broadcast(SetTo(c.key, next), Bulk(next))

ResolveHincrbyfloat(st, c) ==
  LET next == FloatSum(FloatIn(HashAt(st, c.key), c.field), c.val)
  IN  IF WrongType(st, c.key, "hash") \/ ~IsFloat(next) THEN Immediate(Err)
      ELSE Broadcast(HsetTo(c.key, c.field, next), Bulk(next))

\* classify, and the decision of handle_write_request.
Resolve(st, c) ==
  CASE c.name = "SPOP"         -> ResolveSpop(st, c)
    [] c.name = "INCRBYFLOAT"  -> ResolveIncrbyfloat(st, c)
    [] c.name = "HINCRBYFLOAT" -> ResolveHincrbyfloat(st, c)
    [] OTHER                   -> Broadcast(c, NoReply)

-----------------------------------------------------------------------------
Init ==
  /\ at = Home
  /\ queued = {} /\ order = <<>>
  /\ pos = [n \in Node |-> 0]
  /\ kv = [n \in Node |-> EmptyStore]
  /\ answer = [c \in Client |-> NoReply]

\* handle_write_request for a command of client c: resolve against the replica's
\* own store, then answer or broadcast.  An op's base records how much of the
\* order that store had applied.
Submit(c, cmd) ==
  LET r == Resolve(kv[at[c]], cmd)
  IN  /\ answer[c] # Waiting
      /\ Cardinality(queued) + Len(order) < MaxWrites
      /\ queued' = IF r.broadcast
                   THEN queued \cup {[client |-> c, origin |-> at[c], cmd |-> cmd, base |-> pos[at[c]],
                                      effect |-> r.effect, reply |-> r.reply]}
                   ELSE queued
      /\ answer' = [answer EXCEPT ![c] = IF r.broadcast THEN Waiting ELSE r.reply]
      /\ UNCHANGED <<at, order, pos, kv>>

\* The ring (external) orders a payload.
OrderNext(op) ==
  /\ op \in queued
  /\ queued' = queued \ {op}
  /\ order' = Append(order, op)
  /\ UNCHANGED <<at, pos, kv, answer>>

\* Slip: the reply resolved is forgotten.
ReplyApplied(op, applied) == applied

\* Only the origin of an op answers its client.
Answers(n, op) == op.origin = n

\* What the client of an op is told when its origin applies it.
ReplyTo(op, applied) == IF op.reply = NoReply THEN applied ELSE op.reply

\* One delivery of pump_outputs.
PumpOutputs(n) ==
  /\ pos[n] < Len(order)
  /\ LET op == order[pos[n] + 1]
         out == Apply(kv[n], op.effect)
     IN  /\ kv' = [kv EXCEPT ![n] = out.st]
         /\ answer' = IF Answers(n, op)
                      THEN [answer EXCEPT ![op.client] = ReplyTo(op, out.reply)]
                      ELSE answer
  /\ pos' = [pos EXCEPT ![n] = @ + 1]
  /\ UNCHANGED <<at, queued, order>>

\* A client that is not waiting for a reply connects to another proxy.
Reconnect(c, n) ==
  /\ answer[c] # Waiting
  /\ at' = [at EXCEPT ![c] = n]
  /\ UNCHANGED <<queued, order, pos, kv, answer>>

Next ==
  \/ \E c \in Client : \E cmd \in MayIssue[c] : Submit(c, cmd)
  \/ \E op \in queued : OrderNext(op)
  \/ \E n \in Node : PumpOutputs(n)
  \/ \E c \in Client, n \in Node : Reconnect(c, n)

Spec == Init /\ [][Next]_vars

-----------------------------------------------------------------------------
\* The ops that their origin has yet to apply.
Unanswered ==
  queued \cup {order[k] : k \in {k \in DOMAIN order : pos[order[k].origin] < k}}

TypeOK ==
  /\ at \in [Client -> Node]
  /\ pos \in [Node -> 0 .. Len(order)]
  /\ \A op \in Unanswered : answer[op.client] = Waiting /\ at[op.client] = op.origin
  /\ \A n \in Node : kv[n].data \in [Key -> Value]

\* What a resolvable command may do when it is executed at once: SPOP removes
\* any member, or any members up to its count; the float commands add.
Pops(st, c) ==
  LET members == SetAt(st, c.key)
      n == IF c.count = {} THEN 1 ELSE Max(c.count \cup {0})
  IN  IF WrongType(st, c.key, "set") THEN {Outcome(st, Err)}
      ELSE IF members = {} \/ n = 0
      THEN {Outcome(st, IF c.count = {} THEN Nil ELSE Members({}))}
      ELSE {Outcome(ApplySrem(st, c.key, s).st, Members(s)) :
              s \in {s \in SUBSET members : Cardinality(s) = Min({n, Cardinality(members)})}}

Adds(st, next, after) ==
  IF IsFloat(next) THEN {Outcome(after, Bulk(next))} ELSE {Outcome(st, Err)}

Atomically(st, c) ==
  CASE c.name = "SPOP" -> Pops(st, c)
    [] c.name = "INCRBYFLOAT" ->
         IF WrongType(st, c.key, "string") THEN {Outcome(st, Err)}
         ELSE LET next == FloatSum(FloatAt(st, c.key), c.val)
              IN  Adds(st, next, Put(st, c.key, Str(next)))
    [] c.name = "HINCRBYFLOAT" ->
         IF WrongType(st, c.key, "hash") THEN {Outcome(st, Err)}
         ELSE LET next == FloatSum(FloatIn(HashAt(st, c.key), c.field), c.val)
              IN  Adds(st, next, ApplyHset(st, c.key, [g \in {c.field} |-> next]).st)
    [] OTHER -> {Apply(st, c)}

ActsAtomically(st, op) ==
  LET out == Apply(st, op.effect)
  IN  \E a \in Atomically(st, op.cmd) :
        a.st.data = out.st.data /\ a.reply = ReplyTo(op, out.reply)

\* Some replica is about to apply the k-th op.
Due(n, k) == k \in DOMAIN order /\ k = pos[n] + 1

\* The writes ordered between what an op was resolved on and the op itself.
Window(k) == {order[j] : j \in order[k].base + 1 .. k - 1}

\* Whoever writes, and whichever proxies resolve: an op whose window holds no
\* write of its key does to the data, and tells its client, what the client's
\* command would have if it were executed when it is applied.
AsIfAtomic ==
  \A n \in Node, k \in DOMAIN order :
    Due(n, k) /\ (\A op \in Window(k) : KeysOf(op.cmd) \cap KeysOf(order[k].cmd) = {})
      => ActsAtomically(kv[n], order[k])

\* An effect takes no element from the key: the store stays as it is, or the key
\* held an empty set, which an SADD without members left there, and goes.
TakesNothing(st, effect) ==
  \/ Apply(st, effect).st = st
  \/ st.data[effect.key] = Set({}) /\ Apply(st, effect).st = Put(st, effect.key, Absent)

\* Whatever its window holds, a single SPOP takes at worst nothing: its effect is
\* a legal SPOP of the state it is applied to, or takes no element from the key.
PopsAtWorstNothing ==
  \A n \in Node, k \in DOMAIN order :
    Due(n, k) /\ order[k].cmd.name = "SPOP" /\ order[k].cmd.count = {}
      => ActsAtomically(kv[n], order[k]) \/ TakesNothing(kv[n], order[k].effect)
==============================================================================
