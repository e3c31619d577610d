------------------------------ MODULE MCEffects ------------------------------
(* EffectReplication for TLC: which client issues what. *)
EXTENDS EffectReplication, TLC

CONSTANTS n1, n2, c1, c2, k1, k2, f

Spop(k) == [name |-> "SPOP", key |-> k, count |-> {}]
SpopCount(k, n) == [name |-> "SPOP", key |-> k, count |-> {n}]
Incrbyfloat(k, c) == [name |-> "INCRBYFLOAT", key |-> k, val |-> c]
Hincrbyfloat(k, c) == [name |-> "HINCRBYFLOAT", key |-> k, field |-> f, val |-> c]
Sadd(k, ms) == [name |-> "SADD", key |-> k, members |-> ms]

\* One connection at each of two proxies, to begin with.
Apart == c1 :> n1 @@ c2 :> n2

\* The clients share k1; the second one also writes k2.
Mixed ==
  c1 :> {Sadd(k1, Member), Spop(k1), SpopCount(k1, 2), SetTo(k1, Num(2)),
         Incrbyfloat(k1, Num(1)), HsetTo(k1, f, Num(1)), Hincrbyfloat(k1, Num(1)),
         [name |-> "DEL", keys |-> {k1}]}
  @@ c2 :> {Sadd(k1, {2}), Sadd(k1, {}), Spop(k1), SpopCount(k1, -1), SetTo(k1, Text), Srem(k1, {1}),
            SetTo(k2, Num(1)), Incrbyfloat(k2, Num(1))}
==============================================================================
