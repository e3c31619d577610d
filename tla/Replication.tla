----------------------------- MODULE Replication -----------------------------
(***************************************************************************)
(* The state-machine replication of trains-valkey as the proxy runs it:     *)
(* driver tasks that broadcast client writes and apply the delivered        *)
(* stream (proxy.rs), the shared apply path and the state transfer          *)
(* (replica.rs), passive catch-up of a restarted node and its promotion to  *)
(* a full member (proxy.rs).                                                *)
(*                                                                          *)
(* The broadcast ring (crates trains-core, trains-net, trains-recovery) is  *)
(* outside this repository.  It is modelled by what the proxy relies on:    *)
(* one total order, delivered by every member without gap or reordering     *)
(* from the position its core state stands at.  A payload may be ordered    *)
(* more than once (a re-broadcast) and may be lost with a crashed node's    *)
(* train.                                                                   *)
(*                                                                          *)
(* A store is abstracted to the sequence of effects applied to it: the      *)
(* keyspace is a deterministic function of that sequence.                   *)
(***************************************************************************)
EXTENDS WriteDedup, DeliveredLog

CONSTANTS
  Node,               \* the ring positions (ProcId)
  Write,              \* the client writes, each issued at most once
  PromoteChoices,     \* the values of RejoinCfg::promote a restart may use
  PromoteIdleRounds,  \* PROMOTE_IDLE_ROUNDS
  MaxDups,            \* bound: re-broadcasts the ring orders
  MaxCrashes          \* bound: crashes of nodes

ASSUME PromoteAssumption ==
  /\ PromoteChoices \subseteq BOOLEAN
  /\ PromoteIdleRounds \in Nat \ {0}
  /\ MaxDups \in Nat
  /\ MaxCrashes \in Nat

VARIABLES
  \* -- the ring (external)
  queued,     \* ops broadcast and not yet ordered for the last time
  order,      \* the total order: every payload ordered so far
  lost,       \* ops that went down with a crashed node's train
  \* -- what the order amounts to once duplicates are ignored (history)
  committed,  \* the first occurrence of every (origin, request_id) in order
  upto,       \* upto[k]: Len(committed) when the k-th payload was ordered
  \* -- each node
  mode,       \* "member" | "promoted" | "passive" | "down"
  pos,        \* how much of the order the node's core has delivered
  store,      \* effects applied to the node's store, in order
  dedup,      \* applied_ops: the WriteDedup
  log,        \* delivered_log
  next_rid,   \* the driver's request-id counter
  pending,    \* the driver's pending map, as a set of [rid, w]
  \* -- a passive node's catch-up round
  promote,    \* RejoinCfg::promote of this incarnation
  idle,       \* idle rounds counted so far
  stage,      \* "tick" | "import" | "replay" | "final"
  xfer,       \* the state transfer being applied
  progress,   \* did this round apply anything?
  \* -- clients and environment
  outcome,    \* what became of each write, as its client saw it
  crashes     \* crashes so far

ring == <<queued, order, lost, committed, upto>>
replica == <<pos, store, dedup, log>>
driver == <<next_rid, pending>>
round == <<promote, idle, stage, xfer, progress>>
vars == <<ring, mode, replica, driver, round, outcome, crashes>>

-----------------------------------------------------------------------------
Op == [origin : Node, rid : Nat, w : Write]

Key(op) == <<op.origin, op.rid>>

Entry == [index : Nat, op : Op]

LogType == [entries : Seq(Entry), head : Nat]

\* ReplicaSnapshot: store, dedup, delivered_index, and the core position that
\* its protocol state stands for.
Snapshot == [store : Seq(Op), dedup : [Node -> OriginDedup], head : Nat, pos : Nat]

\* StateTransfer: the snapshot bytes may be empty (full = FALSE).
Transfer == [full : BOOLEAN, final : BOOLEAN, snap : Snapshot, tail : Seq(Entry)]

NoSnapshot == [store |-> <<>>, dedup |-> NewDedup(Node), head |-> 0, pos |-> 0]
NoTransfer == [full |-> FALSE, final |-> FALSE, snap |-> NoSnapshot, tail |-> <<>>]

Active(n) == mode[n] \in {"member", "promoted"}

TypeOK ==
  /\ queued \subseteq Op /\ lost \subseteq Op
  /\ order \in Seq(Op) /\ committed \in Seq(Op) /\ upto \in Seq(Nat)
  /\ mode \in [Node -> {"member", "promoted", "passive", "down"}]
  /\ pos \in [Node -> Nat]
  /\ store \in [Node -> Seq(Op)]
  /\ dedup \in [Node -> [Node -> OriginDedup]]
  /\ log \in [Node -> LogType]
  /\ next_rid \in [Node -> Nat]
  /\ pending \in [Node -> SUBSET [rid : Nat, w : Write]]
  /\ promote \in [Node -> BOOLEAN]
  /\ idle \in [Node -> Nat]
  /\ stage \in [Node -> {"tick", "import", "replay", "final"}]
  /\ xfer \in [Node -> Transfer]
  /\ progress \in [Node -> BOOLEAN]
  /\ outcome \in [Write -> {"none", "waiting", "acked", "rejected", "dropped"}]
  /\ crashes \in Nat

\* Every node cold-starts as an ordinary ring member.
Init ==
  /\ queued = {} /\ order = <<>> /\ lost = {} /\ committed = <<>> /\ upto = <<>>
  /\ mode = [n \in Node |-> "member"]
  /\ pos = [n \in Node |-> 0]
  /\ store = [n \in Node |-> <<>>]
  /\ dedup = [n \in Node |-> NewDedup(Node)]
  /\ log = [n \in Node |-> NewLog]
  /\ next_rid = [n \in Node |-> 0]
  /\ pending = [n \in Node |-> {}]
  /\ promote = [n \in Node |-> FALSE]
  /\ idle = [n \in Node |-> 0]
  /\ stage = [n \in Node |-> "tick"]
  /\ xfer = [n \in Node |-> NoTransfer]
  /\ progress = [n \in Node |-> FALSE]
  /\ outcome = [w \in Write |-> "none"]
  /\ crashes = 0

-----------------------------------------------------------------------------
(* Client writes *)

\* A driver broadcasts w under a request id and files its client under slot.
Broadcast(n, w, rid, slot) ==
  /\ Active(n)
  /\ outcome[w] = "none"
  /\ queued' = queued \cup {[origin |-> n, rid |-> rid, w |-> w]}
  /\ next_rid' = [next_rid EXCEPT ![n] = @ + 1]
  /\ pending' = [pending EXCEPT ![n] = @ \cup {[rid |-> slot, w |-> w]}]
  /\ outcome' = [outcome EXCEPT ![w] = "waiting"]
  /\ UNCHANGED <<order, lost, committed, upto, mode, replica, round, crashes>>

\* Slips: the id taken below the counter; the client filed under the counter's
\* next value.
HandleWriteOffByOne(n, w) == Broadcast(n, w, next_rid[n] - 1, next_rid[n])
HandleWritePendsLate(n, w) == Broadcast(n, w, next_rid[n], next_rid[n] + 1)

\* handle_write_request of a driver, and broadcast_write of Replica.
HandleWrite(n, w) == Broadcast(n, w, next_rid[n], next_rid[n])

\* The driver answers w at once.
AnswerAtOnce(n, w, rid) ==
  /\ Active(n)
  /\ outcome[w] = "none"
  /\ outcome' = [outcome EXCEPT ![w] = "rejected"]
  /\ next_rid' = [next_rid EXCEPT ![n] = rid]
  /\ UNCHANGED <<ring, mode, replica, pending, round, crashes>>

\* Slip: the id is consumed although nothing is broadcast under it.
EncodeFailsBurnsId(n, w) == AnswerAtOnce(n, w, next_rid[n] + 1)

\* A write that cannot be encoded, is not replicable or resolves to an immediate
\* reply does not consume a request id.
EncodeFails(n, w) == AnswerAtOnce(n, w, next_rid[n])

\* A passive replica is read-only; it answers between two catch-up rounds.
PassiveRejects(n, w) ==
  /\ mode[n] = "passive"
  /\ stage[n] = "tick"
  /\ outcome[w] = "none"
  /\ outcome' = [outcome EXCEPT ![w] = "rejected"]
  /\ UNCHANGED <<ring, mode, replica, driver, round, crashes>>

-----------------------------------------------------------------------------
(* The ring: external *)

Ordered == {order[k] : k \in 1 .. Len(order)}

\* Re-broadcasts ordered already, and those still to be.
Dups == Len(order) - Cardinality(Ordered) + Cardinality(queued \cap Ordered)

\* The ring orders a payload; again = TRUE leaves it to be ordered once more.
Order(op, again) ==
  /\ op \in queued
  /\ again => Dups < MaxDups
  /\ order' = Append(order, op)
  /\ queued' = IF again THEN queued ELSE queued \ {op}
  /\ committed' = IF \E k \in 1 .. Len(committed) : Key(committed[k]) = Key(op)
                  THEN committed
                  ELSE Append(committed, op)
  /\ upto' = Append(upto, Len(committed'))
  /\ UNCHANGED <<lost, mode, replica, driver, round, outcome, crashes>>

\* The train that carried a payload is lost in a masked crash.
LoseTrain(op) ==
  /\ op \in queued
  /\ crashes > 0
  /\ queued' = queued \ {op}
  /\ lost' = lost \cup {op}
  /\ UNCHANGED <<order, committed, upto, mode, replica, driver, round, outcome, crashes>>

-----------------------------------------------------------------------------
(* Applying an effect *)

\* Does the dedup let the op through at n?
Applies(n, op) == FirstSeen(dedup[n], op.origin, op.rid)

\* Record the op in the dedup state and, when fresh, in the store and the log.
ApplyIf(fresh, n, op) ==
  /\ dedup' = [dedup EXCEPT ![n] = AfterSeen(dedup[n], op.origin, op.rid)]
  /\ store' = [store EXCEPT ![n] = IF fresh THEN Append(store[n], op) ELSE store[n]]
  /\ log' = [log EXCEPT ![n] = IF fresh THEN LogAppend(log[n], op) ELSE log[n]]

\* Slip: the effect is applied whatever the dedup says.
ApplyWithoutDedup(n, op) == ApplyIf(TRUE, n, op)

\* apply_delivered_op_parts, and the same steps in pump_outputs: dedup, apply,
\* record in the delivered log.
ApplyDeliveredOp(n, op) == ApplyIf(Applies(n, op), n, op)

\* Answer the clients waiting at n under the op's request id.
Answer(n, op, mayWake) ==
  LET woken == {p \in pending[n] : mayWake /\ p.rid = op.rid}
  IN  /\ pending' = [pending EXCEPT ![n] = @ \ woken]
      /\ outcome' = [w \in Write |->
                       IF \E p \in woken : p.w = w THEN "acked" ELSE outcome[w]]

\* Slip: the origin of the op is not compared.
WakeAnyOrigin(n, op) == Answer(n, op, Applies(n, op))

\* The originating node answers its client when the op is applied.
WakeClient(n, op) == Answer(n, op, Applies(n, op) /\ op.origin = n)

\* The core of n delivers the next payload of the total order: pump_outputs,
\* and absorb of Replica.
PumpOutputs(n) ==
  /\ Active(n)
  /\ pos[n] < Len(order)
  /\ pos' = [pos EXCEPT ![n] = @ + 1]
  /\ LET op == order[pos[n] + 1]
     IN  ApplyDeliveredOp(n, op) /\ WakeClient(n, op)
  /\ UNCHANGED <<ring, mode, next_rid, round, crashes>>

-----------------------------------------------------------------------------
(* State transfer *)

\* export_snapshot, and the snapshot serve_state_transfer makes.
ExportSnapshot(s) ==
  [store |-> store[s], dedup |-> dedup[s], head |-> log[s].head, pos |-> pos[s]]

TailTransfer(s, have, final) ==
  [full |-> FALSE, final |-> final, snap |-> NoSnapshot, tail |-> EntriesFrom(log[s], have)]

FullTransfer(s, final) ==
  [full |-> TRUE, final |-> final, snap |-> ExportSnapshot(s),
   tail |-> EntriesFrom(log[s], log[s].head)]

\* Slips in the decision: a peer that has nothing is served incrementally; the
\* low-water check is left out.
BuildWithoutZeroCheck(s, have, final) ==
  IF CanServeFrom(log[s], have) THEN TailTransfer(s, have, final) ELSE FullTransfer(s, final)
BuildWithoutLowWater(s, have, final) ==
  IF have > 0 /\ have <= log[s].head
  THEN TailTransfer(s, have, final) ELSE FullTransfer(s, final)

\* build_state_transfer_lazy: the incremental tail when the peer is recent
\* enough, else a full snapshot at the head.
BuildStateTransfer(s, have, final) ==
  IF have > 0 /\ CanServeFrom(log[s], have)
  THEN TailTransfer(s, have, final) ELSE FullTransfer(s, final)

\* Only a cold-started member runs a state-transfer server: run_proxy_node
\* returns before starting one on the rejoin path.
Serves(s) == mode[s] = "member"

\* A tick of passive_catch_up: survivors are tried in turn and the first that
\* answers serves the round.  A round nobody answers changes nothing.
FetchState(n, s) ==
  /\ mode[n] = "passive"
  /\ stage[n] = "tick"
  /\ Serves(s)
  /\ xfer' = [xfer EXCEPT ![n] = BuildStateTransfer(s, log[n].head, FALSE)]
  /\ progress' = [progress EXCEPT ![n] = FALSE]
  /\ stage' = [stage EXCEPT ![n] = "import"]
  /\ UNCHANGED <<ring, mode, replica, driver, promote, idle, outcome, crashes>>

\* Replace the node's pieces when the transfer has a snapshot.
Import(n, newDedup) ==
  LET full == xfer[n].full
      snap == xfer[n].snap
  IN  /\ mode[n] = "passive"
      /\ stage[n] = "import"
      /\ store' = [store EXCEPT ![n] = IF full THEN snap.store ELSE store[n]]
      /\ dedup' = [dedup EXCEPT ![n] = IF full THEN newDedup ELSE dedup[n]]
      /\ log' = [log EXCEPT ![n] = IF full THEN ResumedAt(snap.head) ELSE log[n]]
      /\ progress' = [progress EXCEPT ![n] = full]
      /\ stage' = [stage EXCEPT ![n] = "replay"]
      /\ UNCHANGED <<ring, mode, pos, driver, promote, idle, xfer, outcome, crashes>>

\* Slip: the dedup state of the snapshot is not adopted.
ImportKeepsDedup(n) == Import(n, dedup[n])

\* apply_passive_transfer, first half (and import_snapshot of Replica).
ImportSnapshot(n) == Import(n, xfer[n].snap.dedup)

\* The replay of one tail frame (the store lock is taken per frame, so client
\* reads see every intermediate state).
ReplayTail(n) ==
  /\ mode[n] = "passive"
  /\ stage[n] = "replay"
  /\ xfer[n].tail # <<>>
  /\ ApplyDeliveredOp(n, Head(xfer[n].tail).op)
  /\ progress' = [progress EXCEPT ![n] = @ \/ Applies(n, Head(xfer[n].tail).op)]
  /\ xfer' = [xfer EXCEPT ![n].tail = Tail(@)]
  /\ UNCHANGED <<ring, mode, pos, driver, promote, idle, stage, outcome, crashes>>

IsIdle(n) == promote[n] /\ ~progress[n] /\ log[n].head > 0

\* Close a served round with the idle count bumped to bump if it was idle.
CloseRound(n, bump) ==
  /\ mode[n] = "passive"
  /\ stage[n] = "replay"
  /\ xfer[n].tail = <<>>
  /\ ~xfer[n].final
  /\ idle' = [idle EXCEPT ![n] =
                IF IsIdle(n) THEN bump ELSE IF progress[n] THEN 0 ELSE idle[n]]
  /\ stage' = [stage EXCEPT ![n] =
                 IF IsIdle(n) /\ bump >= PromoteIdleRounds THEN "final" ELSE "tick"]
  /\ xfer' = [xfer EXCEPT ![n] = NoTransfer]
  /\ UNCHANGED <<ring, mode, replica, driver, promote, progress, outcome, crashes>>

\* Slip: the idle counter is set instead of incremented.
EndRoundSetsIdle(n) == CloseRound(n, 1)

\* The end of a served round of passive_catch_up: count idle rounds, and ask
\* for the final snapshot once there were enough of them.
EndRound(n) == CloseRound(n, idle[n] + 1)

\* final_snapshot_for_promotion: a full transfer (have = 0) from a survivor.
FetchFinal(n, s) ==
  /\ mode[n] = "passive"
  /\ stage[n] = "final"
  /\ Serves(s)
  /\ xfer' = [xfer EXCEPT ![n] = BuildStateTransfer(s, 0, TRUE)]
  /\ stage' = [stage EXCEPT ![n] = "import"]
  /\ UNCHANGED <<ring, mode, replica, driver, promote, idle, progress, outcome, crashes>>

\* No survivor answered: stay passive and start counting again.
FinalUnanswered(n) ==
  /\ mode[n] = "passive"
  /\ stage[n] = "final"
  /\ idle' = [idle EXCEPT ![n] = 0]
  /\ stage' = [stage EXCEPT ![n] = "tick"]
  /\ UNCHANGED <<ring, mode, replica, driver, promote, xfer, progress, outcome, crashes>>

-----------------------------------------------------------------------------
(* Promotion, crash, restart *)

FinalTaken(n) ==
  /\ mode[n] = "passive"
  /\ stage[n] = "replay"
  /\ xfer[n].final
  /\ xfer[n].tail = <<>>

\* The driver starts with its core at a position of the total order.
StartDriver(n, position) ==
  /\ FinalTaken(n)
  /\ mode' = [mode EXCEPT ![n] = "promoted"]
  /\ pos' = [pos EXCEPT ![n] = position]
  /\ next_rid' = [next_rid EXCEPT ![n] = 0]
  /\ pending' = [pending EXCEPT ![n] = {}]
  /\ idle' = [idle EXCEPT ![n] = 0]
  /\ stage' = [stage EXCEPT ![n] = "tick"]
  /\ xfer' = [xfer EXCEPT ![n] = NoTransfer]
  /\ UNCHANGED <<ring, store, dedup, log, promote, progress, outcome, crashes>>

\* Slip: the core joins at the ring's present, not at the position its imported
\* protocol state stands for.
PromoteAtPresent(n) == StartDriver(n, Len(order))

\* driver_loop seeded by the final snapshot: the core imports the protocol
\* state, dedup and log are the seed's, the request-id counter starts at 0.
PromoteNode(n) == StartDriver(n, xfer[n].snap.pos)

\* A fresh run of passive_catch_up: its own dedup and log, over whatever the
\* store holds.
StartCatchUp(n, wantsPromotion, effects) ==
  /\ mode' = [mode EXCEPT ![n] = "passive"]
  /\ store' = [store EXCEPT ![n] = effects]
  /\ dedup' = [dedup EXCEPT ![n] = NewDedup(Node)]
  /\ log' = [log EXCEPT ![n] = NewLog]
  /\ promote' = [promote EXCEPT ![n] = wantsPromotion]
  /\ idle' = [idle EXCEPT ![n] = 0]
  /\ stage' = [stage EXCEPT ![n] = "tick"]
  /\ xfer' = [xfer EXCEPT ![n] = NoTransfer]
  /\ progress' = [progress EXCEPT ![n] = FALSE]

\* The ring transport could not be spawned: back to a passive standby that no
\* longer asks for promotion.
PromotionFails(n) ==
  /\ FinalTaken(n)
  /\ StartCatchUp(n, FALSE, store[n])
  /\ UNCHANGED <<ring, pos, driver, outcome, crashes>>

\* A crash ends the driver or the catch-up task and everything it kept; every
\* client still waiting there is told its request was dropped.  What was applied
\* to the store remains until the restart decides.  Some active node survives.
Crash(n) ==
  /\ mode[n] # "down"
  /\ crashes < MaxCrashes
  /\ \E m \in Node \ {n} : Active(m)
  /\ mode' = [mode EXCEPT ![n] = "down"]
  /\ pos' = [pos EXCEPT ![n] = 0]
  /\ dedup' = [dedup EXCEPT ![n] = NewDedup(Node)]
  /\ log' = [log EXCEPT ![n] = NewLog]
  /\ next_rid' = [next_rid EXCEPT ![n] = 0]
  /\ pending' = [pending EXCEPT ![n] = {}]
  /\ idle' = [idle EXCEPT ![n] = 0]
  /\ stage' = [stage EXCEPT ![n] = "tick"]
  /\ xfer' = [xfer EXCEPT ![n] = NoTransfer]
  /\ progress' = [progress EXCEPT ![n] = FALSE]
  /\ outcome' = [w \in Write |->
                   IF \E p \in pending[n] : p.w = w THEN "dropped" ELSE outcome[w]]
  /\ crashes' = crashes + 1
  /\ UNCHANGED <<ring, store, promote>>

\* A restart with a rejoin configuration.  An in-memory store is gone, an
\* external Redis still holds what had been applied to it.
Restart(n) ==
  /\ mode[n] = "down"
  /\ \E p \in PromoteChoices, effects \in {<<>>, store[n]} : StartCatchUp(n, p, effects)
  /\ UNCHANGED <<ring, pos, driver, outcome, crashes>>

-----------------------------------------------------------------------------
Next ==
  \/ \E n \in Node, w \in Write :
       HandleWrite(n, w) \/ EncodeFails(n, w) \/ PassiveRejects(n, w)
  \/ \E op \in queued : LoseTrain(op) \/ \E again \in BOOLEAN : Order(op, again)
  \/ \E n, s \in Node : FetchState(n, s) \/ FetchFinal(n, s)
  \/ \E n \in Node :
       \/ PumpOutputs(n) \/ ImportSnapshot(n) \/ ReplayTail(n) \/ EndRound(n)
       \/ FinalUnanswered(n) \/ PromoteNode(n) \/ PromotionFails(n)
       \/ Crash(n) \/ Restart(n)

Spec == Init /\ [][Next]_vars

\* Progress the code's scheduling justifies: the ring keeps turning (trains
\* circulate and a tick fires every 200 ms), a driver's select! loop serves every
\* input, a catch-up task polls on its interval and runs a round to its end once
\* it is served, and a survivor that stays up answers eventually.
Fairness ==
  /\ WF_vars(\E op \in queued : Order(op, FALSE))
  /\ \A n \in Node :
       /\ WF_vars(PumpOutputs(n))
       /\ WF_vars(\E s \in Node : FetchState(n, s))
       /\ WF_vars(ImportSnapshot(n) \/ ReplayTail(n) \/ EndRound(n))
       /\ SF_vars(\E s \in Node : FetchFinal(n, s))
       /\ WF_vars(PromoteNode(n) \/ PromotionFails(n))

FairSpec == Spec /\ Fairness

-----------------------------------------------------------------------------
(* Safety *)

Upto(p) == IF p = 0 THEN 0 ELSE upto[p]

IsPrefixOf(s, c) == Len(s) <= Len(c) /\ \A k \in 1 .. Len(s) : s[k] = c[k]

\* The stores of any two nodes, live, passive or down, are prefixes of one
\* another: no client read ever shows two replicas in conflicting states,
\* whatever crashed, was re-broadcast or was transferred.
StoresAgree ==
  \A m, n \in Node : IsPrefixOf(store[m], store[n]) \/ IsPrefixOf(store[n], store[m])

\* No write takes effect twice in a store: not through a re-broadcast, not
\* through a tail that overlaps a snapshot.
ExactlyOnce ==
  \A n \in Node : \A j, k \in 1 .. Len(store[n]) :
    store[n][j].w = store[n][k].w => j = k

\* The store of an active node is exactly what the total order up to its core's
\* position amounts to, a promoted node's included: the promotion seed pairs
\* store, dedup and protocol state of one instant.
InStepWithRing ==
  \A n \in Node : Active(n) =>
    /\ pos[n] <= Len(order)
    /\ Len(store[n]) = Upto(pos[n])
    /\ IsPrefixOf(store[n], committed)

\* Delivered-log entries with the same index hold the same effect on every
\* node, retained indices run without a gap up to the head, and a log never
\* exceeds its capacity: any survivor can serve any rejoiner.
TailsInterchangeable ==
  /\ \A m, n \in Node :
       \A i \in 1 .. Len(log[m].entries), j \in 1 .. Len(log[n].entries) :
         log[m].entries[i].index = log[n].entries[j].index
           => log[m].entries[i].op = log[n].entries[j].op
  /\ \A n \in Node :
       /\ Len(log[n].entries) <= Cap
       /\ \A i \in 1 .. Len(log[n].entries) :
            log[n].entries[i].index + Len(log[n].entries) + 1 = log[n].head + i

\* A passive node that has applied anything holds exactly as many effects as
\* its delivered index says, so that asking for "from my head" asks for what it
\* misses; a stale store from before the crash is never extended.
HeadMatchesStore ==
  \A n \in Node : mode[n] # "down" /\ log[n].head > 0 => Len(store[n]) = log[n].head

\* Two writes carry the id of w: its own, and one by the same node before or
\* after a promotion (see UniqueIds).
IdReused(w) ==
  \E a, b \in queued \cup lost \cup Ordered : Key(a) = Key(b) /\ a.w = w /\ b.w # w

\* An acknowledged write is in the store of every active node, or that node has
\* yet to deliver it, unless its id was used twice.
AckedNotLost ==
  \A w \in Write : outcome[w] = "acked" /\ ~IdReused(w) =>
    \A n \in Node : Active(n) =>
      \/ \E k \in 1 .. Len(store[n]) : store[n][k].w = w
      \/ \E k \in pos[n] + 1 .. Len(order) : order[k].w = w

InFlight(n, key) ==
  \/ \E op \in queued : Key(op) = key
  \/ \E k \in pos[n] + 1 .. Len(order) : Key(order[k]) = key

\* A gap in an origin's ids (a window that the watermark cannot absorb) is a
\* write still on its way to this node or lost with a train: no code path
\* consumes a request id without broadcasting it.  The gap of a lost write never
\* closes, and the window behind it grows with every later write of the origin,
\* although proxy.rs calls the dedup state "O(origins), not O(writes)".
GapIsAWrite ==
  \A n, o \in Node : Active(n) /\ dedup[n][o].recent # {} =>
    LET key == <<o, dedup[n][o].watermark>>
    IN  InFlight(n, key) \/ \E op \in lost : Key(op) = key

\* Every step is a step of the replicated store or leaves it alone: an active
\* node only ever applies the next committed write, one at a time, and only a
\* crashed or passive node is placed at another prefix.
StateMachine == INSTANCE ReplicatedStore WITH live <- {n \in Node : Active(n)}
RefinesReplicatedStore == StateMachine!Spec

-----------------------------------------------------------------------------
(* Liveness, under FairSpec *)

\* A standby whose survivors keep serving ends up with every committed write,
\* although survivors at different heads may answer its rounds in turn.
StandbyCatchesUp ==
  \A n \in Node :
    <>[](mode[n] = "passive" /\ \E s \in Node : Serves(s))
      => <>[](store[n] = committed)

\* A write accepted by a driver is answered, dropped with the driver, or lost
\* with a train, unless its id was used twice.
WritesAnswered ==
  \A w \in Write :
    outcome[w] = "waiting"
      ~> outcome[w] # "waiting" \/ IdReused(w) \/ \E op \in lost : op.w = w

\* A standby asked to promote does not tail its survivors for ever once there
\* is something to catch up with.
PromotionHappens ==
  \A n \in Node :
    []<>~(/\ mode[n] = "passive" /\ promote[n]
          /\ committed # <<>>
          /\ \E s \in Node : Serves(s))

-----------------------------------------------------------------------------
(* A claim of the documentation that the code does not meet *)

\* command.rs: "origin + request_id uniquely identify the write".
UniqueIds ==
  LET broadcast == queued \cup Ordered
  IN  \A a, b \in broadcast : Key(a) = Key(b) => a.w = b.w
==============================================================================
