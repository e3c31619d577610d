---------------------------- MODULE MCRedisBackend ----------------------------
(* RedisBackend for TLC. *)
EXTENDS RedisBackend

CONSTANTS s1, r1, k1, k2, v1, v2

MCCommand ==
  {[name |-> "SET", key |-> k, val |-> v1] : k \in Key}
    \cup {[name |-> "SETNX", key |-> k1, val |-> v2], [name |-> "DEL", key |-> k1]}
    \cup {[name |-> "EXPIRE", key |-> k1, ttl |-> 2]}
==============================================================================
