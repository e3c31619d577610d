--------------------------- MODULE ReplicatedStore ---------------------------
(***************************************************************************)
(* What the replication promises its clients: there is one sequence of      *)
(* committed writes, no write is in it twice, and the store a client reads  *)
(* at any node is always the effect of a prefix of it.  A live node moves   *)
(* along the sequence one write at a time and never back; a node that left  *)
(* may come to stand at any prefix until it is live again.                  *)
(***************************************************************************)
EXTENDS Naturals, Sequences

CONSTANTS Node, Key(_)

VARIABLES committed, store, live

Init == committed = <<>> /\ store = [n \in Node |-> <<>>] /\ live = Node

Commit ==
  /\ Len(committed') = Len(committed) + 1
  /\ committed' = Append(committed, committed'[Len(committed')])
  /\ \A k \in 1 .. Len(committed) : Key(committed[k]) # Key(committed'[Len(committed')])
  /\ UNCHANGED <<store, live>>

Apply(n) ==
  /\ Len(store[n]) < Len(committed)
  /\ store' = [store EXCEPT ![n] = Append(@, committed[Len(store[n]) + 1])]
  /\ UNCHANGED <<committed, live>>

Rejoin(n) ==
  /\ n \notin live
  /\ \E k \in 0 .. Len(committed) :
       store' = [store EXCEPT ![n] = SubSeq(committed, 1, k)]
  /\ UNCHANGED <<committed, live>>

Leave(n) ==
  /\ n \in live
  /\ live' = live \ {n}
  /\ UNCHANGED <<committed, store>>

GoLive(n) ==
  /\ n \notin live
  /\ live' = live \cup {n}
  /\ UNCHANGED <<committed, store>>

Next == Commit \/ \E n \in Node : Apply(n) \/ Rejoin(n) \/ Leave(n) \/ GoLive(n)

Spec == Init /\ [][Next]_<<committed, store, live>>
==============================================================================
