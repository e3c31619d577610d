---------------------------- MODULE MCReplication ----------------------------
(* Replication for TLC: nodes and writes are interchangeable. *)
EXTENDS ReplicationInv, TLC

Symm == Permutations(Node) \cup Permutations(Write)
==============================================================================
