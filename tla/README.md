# Verification of trains-valkey

`trains-valkey` replicates a Redis-compatible store by state-machine replication:
client writes are turned into deterministic effects, broadcast over a TRAINS ring
that orders them totally, and applied by every node. This directory holds TLA+
models of it, TLC configurations that check them on small instances, and TLAPS
proofs for every instance.

Paths below are relative to `src/crates/trains-valkey/src/`.

## The system

| Component | State | Operations | Interacts with |
|---|---|---|---|
| Write dedup (`replica.rs`) | per origin: watermark, window of ids ahead of it | `is_dup`, `record`, `first_seen` | called on every apply path; shipped in snapshots |
| Delivered log (`delivered_log.rs`) | bounded queue of applied effects, head index | `append`, `entries_from`, `can_serve_from`, `resumed_at` | filled by the apply path, read by state transfer |
| Replica (`replica.rs`) | store, dedup, log, core, next id | `handle`, `broadcast_write`, `absorb`, snapshot export and import | the in-process form of the driver |
| Driver (`proxy.rs`) | `DriverState`: core, store, pending clients, next id, dedup, log, detector, view | one `select!` loop: client write, train, view-change message, tick, transfer request, control | clients (oneshot replies), ring, rejoining peers |
| Passive catch-up (`proxy.rs`) | own dedup and log over the shared store, idle count | poll a survivor, import a snapshot, replay a tail, ask for promotion | transfer servers of the members |
| Promotion (`proxy.rs`) | seed: dedup, log, protocol state, view | final snapshot, ring transport, seeded driver | ring, survivors |
| Reconfiguration (`proxy.rs`) | dead set, successor, view change, strikes | `process_hints`, `handle_crash_confirmed`, `handle_vc`, `exclude`, `readmit`, `execute` | ring transport, other drivers |
| Connection gate and listener (`proxy.rs`) | semaphore, per-IP counters | `try_admit`, `ConnGuard::drop` | one task per client |
| RESP session (`resp.rs`, `proxy.rs`) | input buffer | `try_decode`, `client_loop` | store (reads), driver (writes) |
| Store (`store.rs`), effects (`effect.rs`, `classify.rs`) | keyspace with expiry | commands, effect resolution, snapshot | applied by drivers, read by clients |
| Redis backend (`backend.rs`) | a connection | apply, SCAN/DUMP snapshot, RESTORE | an external Redis |
| Chaos harness (`chaos.rs`), coordinator (`bench/`) | acknowledged writes, schedules | load, kill, verify | clients of the proxies |
| Broadcast ring | total order | order, deliver, mask a crash | other repositories (trains-core, trains-net, trains-recovery) |

What is hard here: every node numbers its writes independently and shares one
delivered stream; payloads may be ordered twice or lost with a crashed node's
train; a rejoining node mixes snapshots and tails of survivors at different
positions over a store that may or may not have survived; a promotion joins the
stream at the position of a snapshot; every driver changes its view of the ring on
its own while exclusions and re-admissions overlap; requests arrive in arbitrary
pieces and are answered from two places; connection guards are released by tasks
other than the one that took them; a non-deterministic command is resolved before
it is ordered; a snapshot of a live Redis is many commands, between which keys
expire and any of which may fail.

What makes it correct: stores never conflict; a write takes effect once; an
acknowledged write is never lost; a rejoined or promoted node is exactly in step;
standbys catch up, clients are answered and promotions conclude; the drivers' views
of the ring close it and become equal again; a session answers each command once,
in order, and a client reads its own writes; the gate's caps are exact and never
leak; resolving a command early is not observable unless its
key is written meanwhile; a transferred keyspace is the survivor's.

## Modules

| Module | Models | Composed from |
|---|---|---|
| `WriteDedup` | the dedup operators of `replica.rs` | |
| `DedupStream` | replicas fed an arbitrary stream of deliveries | `WriteDedup`; implements `FlatDedup` |
| `FlatDedup` | abstract: the unbounded set of applied pairs | |
| `DeliveredLog` | the log operators of `delivered_log.rs` | |
| `Replication` | drivers, apply path, state transfer, catch-up, promotion, crash and restart | `WriteDedup`, `DeliveredLog`; implements `ReplicatedStore` |
| `ReplicatedStore` | abstract: one committed sequence, every store a prefix of it, live nodes advance one write at a time | |
| `ReplicationInv` | the inductive invariant `IInv` of `Replication` | |
| `MCReplication` | `Replication` for TLC, symmetry | |
| `ConnGate`, `MCConnGate` | listener admission and guard drop | |
| `MemStore` | the commands of `store.rs` as operators on a keyspace with types and TTLs | |
| `MemStoreStream`, `MCMemStore` | one store fed any stream of commands | `MemStore` |
| `EffectReplication`, `MCEffects` | resolution of SPOP, INCRBYFLOAT and HINCRBYFLOAT at the origin, ordering, application, replies | `MemStore` |
| `RedisBackend`, `MCRedisBackend` | verbatim application on external engines with expiry; snapshot export and import | |
| `Reconfig` | dead set, successor, freeze, strikes and view-change tokens of the drivers; crash, restart, re-admission | |
| `RespWire` | requests and replies as bytes: encoders, the incremental decoder, the reply reader | |
| `RespSession` | the connections of one proxy and the driver's half of a write | `RespWire` |
| `ChaosLoad`, `MCLoad` | the chaos harness loading and verifying, or hand-driven clients | `RespSession` |
| `DedupStreamProofs`, `ReplicationProofs`, `ConnGateProofs`, `ReconfigProofs`, `MemStoreProofs`, `EffectProofs`, `RedisBackendProofs`, `LoadProofs` | proofs | |

### Replication and the code

A store is the sequence of effects applied to it; the keyspace is a function of
that sequence, because effects are deterministic by the time they are broadcast.
A write is an opaque value issued at most once.

* `HandleWrite` is `handle_write_request` (and `Replica::broadcast_write`): take
  `next_rid`, file the client, hand the op to the ring. `EncodeFails` is every
  path that answers at once; it consumes no id. `PassiveRejects` is the read-only
  reply of a standby.
* `PumpOutputs` is one delivery of `pump_outputs` (and `Replica::absorb`): dedup,
  apply, log, wake the client of an own op. A `step` of the core may hand over
  several deliveries at once; the model takes them one by one, so it also allows
  a transfer request or a crash between them, with core position and replica
  still of one instant.
* `FetchState`, `ImportSnapshot`, `ReplayTail` and `EndRound` are one round of
  `passive_catch_up`; a round is split where other tasks can see the store, which
  is locked for the import and for every replayed frame. `BuildStateTransfer` is
  the survivor's decision between tail and snapshot.
* `FetchFinal`, `FinalUnanswered`, `PromoteNode` and `PromotionFails` are the way
  into the ring: the final full snapshot, the seeded driver with its id counter
  at 0, and the fall-back to a standby when the transport cannot be spawned.
* `Crash` ends a driver or a catch-up task with everything it kept and drops its
  waiting clients; `Restart` starts a standby over an empty in-memory store or
  over the Redis that outlived it. `Crash` leaves at least one active node: with
  none left there is no ring to speak of.
* `Order` and `LoseTrain` are the ring: an op is ordered once or, within
  `MaxDups`, again; after a crash an op not yet ordered may be lost. `committed`
  and `upto` are history variables, the order without its duplicates.

Bounds: `Write` (each issued once), `MaxDups`, `MaxCrashes`, and `Cap`, which is
small so that eviction happens. Definitions under a comment that begins with
"Slip" are not used by any specification: each is a plausible mistake in the
definition that follows it, and the property it is paired with in `PROJECT.json`
must fail when it takes that definition's place.

### ConnGate and the code

`try_admit` is two steps, the permit and the check under the map's lock, because
connection tasks drop their guards in between; `ConnGuard::drop` is two steps as
well, the counter under the lock and then the permit, which is a field of the
guard. One listener task accepts connections one at a time.

### MemStore, EffectReplication and the code

A keyspace maps every key to a typed value and every key to a TTL, as the two maps
of `MemStore` do. Contents are texts or numbers: small integers stand for i64 and
f64, with `MaxInt` and `MaxFloat` their limits. `CheckedAdd` is `checked_add`;
the negation in DECRBY wraps, as it does in the release profile (a debug build
panics there). Nothing upstream of the store counts operands. SADD without members
creates an empty set and answers 0 (`store.rs:246`), and that is in the model, as
are SREM and HDEL that name no element and an EXPIRE whose time is no integer. All
other commands with too few operands change nothing and are left out, and so are
reads that no write uses. The operand of APPEND is a text, so that its result is
one.

`Submit` is `handle_write_request` with `resolve` on the origin's own store;
`PumpOutputs` applies the effect and answers the origin's client with the resolved
reply if there is one. `base` in an op is a history field: how much of the order
the resolving store had applied. A client waits for its reply before it sends
again, and may then connect to another proxy. Dedup, crashes and transfer are in
`Replication` and not repeated.

### RedisBackend and the code

One action per command that `export_snapshot` and `import_snapshot` send; time
passes and keys expire in between, and each may fail the way the code sees it: a
failed SCAN ends the loop, a failed DUMP skips the key, a PTTL that is no integer
counts as -1, the replies of FLUSHDB and RESTORE are ignored, a failed delivered
command is an error reply. The survivor's store is locked during an export; the
rejoiner's engine may have outlived its proxy and then holds keys of its own, with
deadlines or without (`Stale`). History variables: `failed`; `since`, the time at
which the snapshot was cut; `leftover`, the keys under which the rejoiner's engine
still holds what it held when it restarted, because neither a FLUSHDB nor a RESTORE
of the key has worked since.
The engine is external and is modelled by what the backend relies on: a key is
visible through its deadline, SCAN lists every key present throughout at least
once before it returns cursor 0, PTTL answers -1 without and -2 for no key,
RESTORE with 0 sets no TTL. All engines share one clock, which only makes them
agree more. `MaxEntries` bounds the keys SCAN may list twice.

### Reconfig and the code

One action per arm of the `select!` loop that touches the membership. `Exclude`,
`Readmit` and `NextAlive` are the functions of these names; `HandleVc` does what
`handle_vc` does in its order: learn the node the token is about, then ask the
state machine, then `execute`. What a driver sends goes to the successor it has
at that moment. `Promote` adopts the dead set of a survivor without itself and
sends the re-admission Gather; the imported core may be frozen or not, because
the survivor may be.

`trains_recovery` and `trains_net` are other repositories, modelled as the driver
uses them: strikes add up to a confirmation, a Gather collects the reports of all
survivors and its coordinator answers with an Install, a token of a view that is
installed already is dropped, the transport reports a successor it cannot reach.
Deliveries and trains are in `Replication`, so `Applied` is the end of the freeze
and the new view only. `StrikeThreshold` is 3 in the code and 2 in the run, the
least at which a strike can be forgotten; a disconnect weighs as much as the
threshold in both. That the core never hints at its own node, and the transport
never reports it, is an assumption about them. The control channel has no such
limit: `ConfirmCrash` may name the driver itself, which then excludes itself
(`proxy.rs:726`, `exclude` does not look). `spoiled` and `told`, the drivers told so
by hand since they started, are history variables.

### RespWire, RespSession and the code

A byte is a one-character string, a frame a sequence of them; values may be any
bytes, CR and LF included. The operators are the functions of `resp.rs` with the
same order of tests; `ParseInt` stands for `trim().parse::<i64>()`. Bounds:
lengths and counts have one digit (so overflow, which needs nineteen, does not
occur), arrays nest to depth one, which is all that the stores answer, and all
text is ASCII. Command names and error texts are cut to a letter or so.

`client_loop` is one action per await: `ReadChunk` takes any number of the bytes
that are there (all of them on connections of the load, which never writes a
second frame early), then each complete command of the buffer is answered before
the next read. `AsksDriver` and `HearsDriver` are the two ends of the oneshot.
`Deliver` is the order as the engines apply it, `HandleWriteRequest` may lose a
write with its train. The command channel is unbounded here: at its capacity
(256) a session waits, which only delays it. Two engines stand for the survivors.

### ChaosLoad and the code

`Sets`, `Reads` and `Abandons` are the iteration of `run_load`, `RunEnds` the end
of each of its two calls in `drive_load`; `AsksKey` and `AsksSize` are `verify`
(mode "full") or one `verify_one` per engine ("local"). Engines go on applying
between any two questions. A timeout may happen whenever no reply has arrived. The
JSON files between the processes of the split form are copied as they are. A run
of the model is either a load or hand-driven clients, chosen in `Init`.

## Runs

| Run | Configuration | Shows |
|---|---|---|
| `dedup` | 2 replicas, 2 origins, ids 0..2, any order, any repetition | window in normal form; equal histories give equal states; implements the flat set |
| `crashes` | 3 nodes, 2 writes, 2 crashes, standbys with and without promotion after 2 idle rounds | `StoresAgree`, `AckedNotLost`, `GapIsAWrite`, `InStepWithRing`, refinement of `ReplicatedStore` |
| `tails` | 2 nodes, 3 writes, `Cap` 1, 1 re-broadcast, 1 crash, with and without promotion | `ExactlyOnce`; every way to close a gap, over an evicting log; `IInv` |
| `live` | 3 nodes, 2 writes, 1 crash, with and without promotion, fair | standbys catch up, accepted writes are answered, promotion concludes |
| `conn_gate` | 5 connections from 2 addresses, 3 permits, 2 per address | exact accounting, no early refusal, capacity returns |
| `id_reuse` | 3 nodes, 2 writes, 1 crash, promotion | **violated**: ids of a promoted node are unique |
| `mem_store` | 2 keys, 2 fields, 2 members, lists that may be empty, integers -3..3, histories of any length | `EmptiedKeysVanish`: emptied collections vanish; errors change nothing, counters do not wrap |
| `effects` | 2 proxies, 2 clients that race on a key and change proxies, 3 writes | `AsIfAtomic`, `PopsAtWorstNothing` |
| `transfer` | 2 keys, 3 time units, 3 commands, any failure, an engine with older keys and deadlines | `SnapshotIsFull`, `NeverExpiresEarlier`, `SameStreamSameState` |
| `reconfig` | 3 drivers, 2 issuers, 2 strikes, 1 crash and return, 1 wrong suspicion, fair | `RingIsClosed`, `NoSelfExclusion`, `RingHeals` |
| `load` | 3 connections, 2 admitted, 2 engines; a load of 3 SETs with 1 abandoned reply, or 2 pipelined frames, malformed ones included, or 2 clients on one key; 1 lost write, a driver that may end | `DecodesWhatWasSent`, `RepliesReadBack`, `ReadsOwnWrites`, `AckedIsApplied`, `VerdictIsRight` |
| `immortal_key` | the same as `transfer`, 2 commands | **violated**: a transferred key keeps its TTL |

Three nodes are the smallest ring in which a standby meets two survivors at
different heads; two writes with `Cap = 1` give a peer that is recent enough, one
that is below the low-water mark and one that is ahead; two crashes let a node
fail again after its promotion. Symmetry (nodes, writes) is used in the safety
runs only. Three writes are enough for a set to be filled and popped twice from
different proxies, or for a key to be written between resolving and applying. In
`transfer` a key can be set, given a TTL of 2 and expire before, during and after
each command of the snapshot, with a write on either side of the cut, and a key of
the restarted engine can end at 1, before any of them.
In `reconfig` three drivers are the ring of the tests and the least for which an
excluded node has both a predecessor and a bystander. `MaxCrashes` is 1 because
a second crash of the same node depends on the external detector (see below); the
one crash may meet any wrong suspicion or word by hand, the return any token still
under way. In
`load` two frames are enough for every split of one frame and for a second one
that begins in the same read; three connections over a cap of two let an
abandoned connection, whose task still waits, stand beside its successor and a
refused one; three SETs give a write before, at and after a late reply, in two
phases.
Deadlock is not checked where writes, crashes, connections or time are bounded,
since the system may rest once they are used up; it is checked in `mem_store`.

### Fairness

`FairSpec` of `Replication` assumes weak fairness of the ring's ordering, of each
driver's delivery (the `select!` loop has a 200 ms tick and serves every arm) and
of each standby's rounds (an interval timer), and strong fairness only of the
final fetch: a survivor that is up answers sooner or later, although it may be
unavailable at some attempts. No client write, crash, restart or re-broadcast is
assumed to happen. `FairSpec` of `Reconfig` assumes weak fairness of each driver's
token and unreachable arms (its `select!` loop) and that the transport finds out
about a successor that is down, which it reconnects to; no strike, crash or
return is assumed. `FairSpec` of `ConnGate` assumes only that the
listener finishes an admission it has begun and that a dropped guard's fields are
dropped; no connection is assumed to end.

## Findings

* **Ids of a promoted node** (`id_reuse`). `driver_loop` starts every driver with
  `next_rid: 0` (`proxy.rs:617`) and a promoted one adopts a dedup state that has
  recorded its earlier ids. Its first writes are dropped as duplicates on every
  node and their clients are never answered. `command.rs:56` says the pair is
  unique. `AckedNotLost` and `WritesAnswered` except writes whose id was used
  twice for this reason (`IdReused`).
* **A key can become permanent in a transfer** (`immortal_key`). PTTL answers -2
  for a key that expired after its DUMP, and 0 in its last millisecond; both are
  restored as no TTL. `backend.rs:175` means vanished keys to be left out.

Met while modelling, part of the models, and without a run of their own:

* A standby can go back: a survivor that lags it answers with a snapshot of its
  own, lower, head, where `proxy.rs:888` says later rounds apply only the
  incremental tail. It still converges (`StandbyCatchesUp`).
* A concurrent increment can be lost: two INCRBYFLOATs of one key are resolved on
  the same value and the later SET overwrites the earlier, both acknowledged;
  `effect.rs:29` says an effect "may no-op" then. For `AsIfAtomic` the key is
  written meanwhile.
* `handle_vc` changes the membership and freezes before the state machine sees the
  token (`proxy.rs:1143`); if that drops it as one of an old view, nothing
  unfreezes the node until the next view change. `RingHeals` leaves such runs out,
  and those in which a token died with a node.
* A signal that a successor was unreachable may be taken up after that node was
  re-admitted, and excludes it again; a wrong suspicion makes the node that is
  accused and the others disagree. `RingHeals` leaves both out; `RingIsClosed` and
  `NoSelfExclusion` hold in them.
* `confirm_crash` may be called with the node's own id. The driver then excludes
  itself, confirms its own crash in its core and tells its successor
  (`proxy.rs:1155`). `NoSelfExclusion` is about every other way to come to that.
* SADD without members leaves a key that holds an empty set (`store.rs:246`), which
  no removal of elements does; RENAME carries it along, and the SREM of an SPOP that
  was resolved before removes the key. `EmptiedKeysVanish` and `PopsAtWorstNothing` name these cases.
* `readmit` does not tell the detector; if that keeps a node as confirmed, hints
  about its next crash are skipped (`proxy.rs:1086`).
* A session whose write is lost waits on its oneshot for as long as the driver
  lives and does not look at its socket, so it keeps its connection permit although
  its client is gone; `proxy.rs:81` says the caps recover when clients disconnect.
  In `ConnGate` no connection is assumed to end.
* The error for an unknown command quotes the name as it came (`proxy.rs:554`); a
  name with a line break makes one reply read as several. `RepliesReadBack` is
  about names without.
* `verify` right after a load can report a survivor that is merely behind as a
  loss; `VerdictIsRight` promises a pass only if nothing was on its way.
* The id of a write lost with a train leaves a gap that pins the origin's
  watermark, so the window grows with its later writes (`GapIsAWrite` says these
  are the only gaps); `proxy.rs:582` calls the dedup state O(origins).
* `-n` in DECRBY wraps for the least integer (`store.rs:533`), which
  `CountersAreExact` leaves out.
* HDEL and SREM leave the TTL of a key they empty (`store.rs:238`); INCRBYFLOAT
  becomes a SET, which clears a TTL (`effect.rs:138`); `snapshot_sorted` lists no
  TTLs, so convergence checks built on it do not see either.
* GETSET on a wrong type answers an error and overwrites (`store.rs:138`).
* A snapshot some of whose commands failed is imported as a full one
  (`SnapshotIsFull` is about transfers without a failure). A key, or a lock, whose
  SCAN, DUMP or RESTORE failed is absent on the rejoiner; one that the restarted
  engine held stays, with its own earlier deadline, if FLUSHDB and its RESTORE fail.
  `NeverExpiresEarlier` is about what the import delivered and leaves both out.
* A key that expires on the survivor between the cut and the end of the import may
  stay on the rejoiner, see `immortal_key`; `SnapshotIsFull` says that the rejoiner
  holds nothing but what the survivor held at the cut.
* EXPIRE is broadcast with a relative TTL; near the deadline replicas may order an
  expiry and a write differently, for good (`SameStreamSameState` leaves those
  keys out).
* A client that changes proxies may be resolved on a store that lags its own
  acknowledged writes (they are then in the window of `AsIfAtomic`).

## Proofs

All proofs hold for arbitrary constants: any number of nodes, writes, connections,
crashes and re-broadcasts, any log capacity from 1, any caps.

* `DedupStreamProofs`: the sweep of `record` ends at the least id not applied
  (a least-element argument over finite windows); `record` adds exactly its id; a
  normal state is determined by the set it stands for. Hence the type invariant,
  `WindowNormal`, `Canonical`, and the refinement of `FlatDedup`.
* `ReplicationProofs`: `IInv` is inductive. None of the safety properties is by
  itself: that two stores do not conflict depends on what is in flight to them.
  Its first half, `ReplicaInv`, ties every piece to one sequence, `committed`: a
  store is a prefix of it, a dedup state stands for exactly the first `head` writes
  of it (`Covers`), a log holds the last writes before its head (`LogHolds`), a tail
  in flight continues the receiver's head (`TailFrom`), a snapshot in flight is of
  one instant (`SnapshotHolds`), and an active node's head is what the order up to
  its core's position amounts to (`Upto`). From it follow `TypeOK`, `StoresAgree`,
  `ExactlyOnce`, `InStepWithRing`, `HeadMatchesStore`, `TailsInterchangeable`, and
  `Spec => ReplicatedStore`.
  Its second half, `ClientInv`, is about the clients and the ids: a pending entry
  belongs to an op that was broadcast, an answered write is in the order unless its
  id was used twice, below a driver's counter and below any id ever broadcast no id
  is left out, and the order commits monotonically. `AckedNotLost` and `GapIsAWrite`
  need it: the first says where in the order an answered write is, and `InStepWithRing`
  that an active node past it holds it; the second takes a watermark, which by
  `Covers` waits at an id below one that is committed, and by `IdsDense` that id is
  some write's.
* `ConnGateProofs`: permits are conserved, the map is exact, no early refusal.
* `MemStoreProofs`: every command takes a sound store to a sound store: each value
  has its type, no hash is empty, integers and TTLs are in range. One lemma per
  command also says that an error changes nothing, that a counter holds what it
  answered, that nothing but the command's own keys changes, and which keys come to
  hold an empty set. Hence `StreamTypeOK`, `EmptiedKeysVanish`, `ErrorsChangeNothing`
  and `CountersAreExact` for any stream. Values are any contents over any bounds of integers and floats;
  `CommandAssumption` says that a command comes with its operands (`IsCommand`), where
  one without them would change nothing. `EffectProofs` builds on these lemmas; the names of
  `MemStoreStream` begin with Stream for its sake.
* `EffectProofs`: `AsIfAtomic`, `PopsAtWorstNothing` and `TypeOK`. The invariant says that there is a
  history of store states, one for each prefix of the order (`History`), that every
  replica is at the state of its position, and that every op was resolved on the
  state of its base. It is existential because resolving looked at a state that no
  replica may be at any more when the effect is applied. If no write of the window
  touches the op's keys, the states at its base and at its position agree on them (a
  least counterexample along the window); resolution depends on those keys only
  and its effect does to any state that agrees on them what the command would. For
  an SPOP this needs that the members chosen are as many as were asked for or all
  there are, a cardinality argument on `FirstOf`. `PopsAtWorstNothing` has no such
  premise: a single popped member is either still there or no longer, and an effect
  that takes no member may at most find an empty set and remove the key. `TypeOK` adds
  that a client waits for one op at a time at the proxy that broadcast it.
* `ReconfigProofs`: `TypeOK`, `NoSelfExclusion` and `RingIsClosed`, for any ring size.
  That nobody excludes itself unless told by hand depends on the tokens under way: a
  token about a crash must not reach the node it is about. It cannot, because a driver
  that passes one on excludes that node and its successor is `NextAlive` of what it
  excludes, which is not excluded, or the driver itself, if it is alone
  (`NextAliveIsFirst`): then the token is about itself only if it excludes itself, and
  so was told. The invariant says this of every driver and inbox at all times, that a
  signal is never about its own node, and that a node off the ring has no tokens
  waiting, so what it was told before does not reach the one that comes back.
  Strikes stay below the threshold because what reached it is confirmed, and
  `process_hints` skips that.
* `RedisBackendProofs`: `SnapshotIsFull`, `NeverExpiresEarlier`, `SameStreamSameState`
  and `TypeOK`, for any keys, commands, TTLs and failures and any way in which SCAN
  lists the keys. No property is inductive by itself, for each speaks of the end of a
  transfer. `Deadlines`: a remaining time that was read earlier ends later, so no time
  in the snapshot, counted from the present, is before the deadline of its key at the
  survivor, and none that was restored is. `Values`: what is dumped, exported or, after
  a FLUSHDB that worked, imported is the survivor's. `Complete`: a key that is still
  there is yet to be listed, to be dumped, in hand or exported, and after the last
  cursor none is yet to be listed. These hold while the survivor is at the cut and,
  the first apart, in runs in which no command failed (`Values` needs that for the
  imported keys only). `History`: a sequence of states of the keys without a deadline,
  one for each prefix of the stream, exists such that the survivor is at the state of
  its position, the snapshot at the one of its cut, and the rejoiner, once it has
  imported, at the one of its position; a key is in it only if no EXPIRE of the stream
  is about it, because only then does an engine answer the same at any time
  (`PlainIsThere`).
* `LoadProofs`: `ReadsOwnWrites`, `AckedIsApplied`, `VerdictIsRight`, `TypeOK` of
  `ChaosLoad`, and that the requests of the harness come out of the decoder as they
  went in (`RequestsSurviveTheWire`). The inductive invariant has four layers.
  `Session`, for any connections, scripts and losses: a session that waits has at most
  one write with the driver, in the channel or between broadcast and delivery
  (`Pending`); commands and replies go in step, and OK is said of nothing but a write
  that the local engine applied (`Answers`); an engine holds what its prefix of the
  stream makes (`Stores`), and prefixes only grow. `ReadsOwnWrites` follows, whatever
  the bytes are. `LoadTypes`: the harness waits on an open connection only, for a write
  of its range. `Harness`: on a connection of the load at most one request and its reply are
  under way, whole, and the bytes are those of the write the harness waits for;
  hence an OK that it reads off the wire is of that write. An abandoned connection is
  never read again, which is what keeps a late OK from the next write. `Verify`: an
  engine asked for a write held it, and holds it still, or the write was reported
  missing, by that engine itself where each is verified alone; and if nothing was on its way when
  it began (`settled`), nothing is, nothing was missing, and each size is the store's.
  The layers above `Session` need what `EncodeRequest` writes and `ParseCommand`,
  `Decode` and `TryParseReply` make of it, proved for the frames of the harness.

Assumptions: those the modules name (`CapAssumption`, the clamp in
`DeliveredLog::new`; `PromoteAssumption`; `IdAssumption`; `GateAssumption`;
`ReconfigAssumption`, a ring of at least one node; `StoreAssumption`, integers are
fewer than floats; `CommandAssumption` and `EffectAssumption`, commands have their
operands; `BackendAssumption`, the two replicas of a transfer differ;
`SessionAssumption`, the proxy's engine is one of the engines; `LoadAssumption`, loads
of at most nine writes, for the model's keys have one digit). The type invariants of
`EffectReplication` and `RedisBackend` are proved and in no run.

Only model-checked: the liveness properties (outside the prover's reach), and
`DecodesWhatWasSent` and `RepliesReadBack` of `RespSession`. These two are about
frames of any length, cut anywhere, several in one buffer; the parser is a recursion
over bytes, and what it makes of every input would need an induction over data. What
the load needs of them is proved for the frames it sends and is sent.

## Not modelled, and plan

Planned, in this order:

1. Composition of `Reconfig` with the order of `Replication`: which trains a
   frozen node keeps back, and what a recovery plan delivers. It needs the
   recovery report and the plan, which are defined in trains-recovery.

Not modelled, with the reason:

* `main.rs`, `lib.rs`: argument parsing and wiring. No state, no concurrency.
* `serde` formats (snapshot, write op, reports) and TLS: the code only calls the
  libraries.
* The AWS scripts, the coordinator's sequencer (`bench/`) and the demo clients:
  I/O and sleeps in a fixed order, without a protocol of their own.
* The inside of the ring (trains-core, trains-net, trains-recovery): other
  repositories, modelled as this one uses them.
* Reads of the store other than those a write, a resolution or a session needs:
  they change nothing.
