---------------------------- MODULE RedisBackend ----------------------------
(***************************************************************************)
(* Replicas over real engines (backend.rs): delivered commands are          *)
(* forwarded verbatim to a local Redis, whose keys expire by its clock, and *)
(* a snapshot is a SCAN with a DUMP and a PTTL per key, imported by a       *)
(* FLUSHDB and a RESTORE per key.  Between two commands time passes, and    *)
(* any of them may fail.                                                    *)
(*                                                                          *)
(* The engine is outside this repository.  It is modelled by what the       *)
(* backend relies on: a key is there up to and including its deadline;      *)
(* SCAN lists every key that is there throughout at least once; RESTORE     *)
(* with TTL 0 sets none.  Sharing one clock only makes replicas agree more. *)
(***************************************************************************)
EXTENDS Integers, Sequences, FiniteSets

CONSTANTS
  Node, Survivor, Rejoiner,  \* the replicas; the two of the state transfer
  Key, Val,
  Command,    \* the commands that clients issue
  StaleVals, StaleTimes,  \* what the rejoiner's engine may hold when it restarts, until when
  MaxTime, MaxWrites, MaxEntries  \* bounds: time, writes, keys SCAN lists

ASSUME BackendAssumption ==
  /\ Survivor \in Node /\ Rejoiner \in Node /\ Survivor # Rejoiner
  /\ StaleVals \subseteq Val /\ StaleTimes \subseteq Nat
  /\ MaxTime \in Nat /\ MaxWrites \in Nat /\ MaxEntries \in Nat

\* Those in which an expiry makes a difference, with their operands; an EXPIRE that
\* is not in the future is a DEL.
ASSUME CommandAssumption ==
  \A c \in Command :
    /\ c.name \in {"SET", "SETNX", "DEL", "EXPIRE"} /\ c.key \in Key
    /\ c.name \in {"SET", "SETNX"} => c.val \in Val
    /\ c.name = "EXPIRE" => c.ttl \in Nat \ {0}

VARIABLES
  now,      \* the engines' clock, in ms
  order,    \* the commands delivered, in order
  pos,      \* how many a replica has applied
  db,       \* db[n][k]: empty, or the value of k and its deadline, if any
  failed,   \* has a command to an engine failed? (history)
  phase,    \* of the transfer: "idle" "scan" "pttl" "flush" "restore" "done"
  listed,   \* keys of the current SCAN reply still to be dumped
  seen,     \* keys listed so far
  last,     \* was the last cursor 0?
  dumped,   \* the key being dumped and its blob, if any
  entries,  \* the snapshot
  cut,      \* the position the snapshot stands for
  since,    \* the time at which it was cut (history)
  leftover  \* the keys under which the rejoiner's engine holds what it held when
            \* it restarted (history)

export == <<listed, seen, last, dumped, entries, cut, since>>
vars == <<now, order, pos, db, failed, phase, export, leftover>>

Never == {}
Entry(v, deadline) == {[val |-> v, exp |-> deadline]}
The(s) == CHOOSE x \in s : TRUE

Expired(e) == \E t \in e.exp : t < now

\* What the engine of n answers for k now.
At(n, k) == {e \in db[n][k] : ~Expired(e)}
Visible(n) == {k \in Key : At(n, k) # {}}

TypeOK ==
  /\ now \in Nat
  /\ pos \in [Node -> 0 .. Len(order)]
  /\ \A n \in Node, k \in Key :
       /\ Cardinality(db[n][k]) <= 1
       /\ \A e \in db[n][k] : e.val \in Val /\ e.exp \subseteq Nat /\ Cardinality(e.exp) <= 1
  /\ failed \in BOOLEAN
  /\ phase \in {"idle", "scan", "pttl", "flush", "restore", "done"}
  /\ listed \subseteq seen /\ seen \subseteq Key
  /\ \A i \in DOMAIN entries : entries[i].ttl >= -2
  /\ since \in 0 .. now /\ leftover \subseteq Key

\* What the rejoiner's engine, which outlived its proxy, may hold under a key:
\* nothing, or a value with a deadline or without one.
Stale ==
  {{}} \cup {Entry(v, d) : v \in StaleVals, d \in {Never} \cup {{t} : t \in StaleTimes}}

Init ==
  /\ now = 0
  /\ order = <<>>
  /\ pos = [n \in Node |-> 0]
  /\ \E stale \in [Key -> Stale] :
       db = [n \in Node |-> IF n = Rejoiner THEN stale ELSE [k \in Key |-> {}]]
  /\ failed = FALSE
  /\ phase = "idle"
  /\ listed = {} /\ seen = {} /\ last = FALSE /\ dumped = {} /\ entries = <<>> /\ cut = 0
  /\ since = 0 /\ leftover = Key

-----------------------------------------------------------------------------
(* Commands *)

\* Time passes while there is something for it to race with.
Tick ==
  /\ now < MaxTime
  /\ now' = now + 1
  /\ UNCHANGED <<order, pos, db, failed, phase, export, leftover>>

\* The ring delivers a client's command to everyone.
Submit(c) ==
  /\ Len(order) < MaxWrites
  /\ order' = Append(order, c)
  /\ UNCHANGED <<now, pos, db, failed, phase, export, leftover>>

Until(held, deadline) == {[e EXCEPT !.exp = {deadline}] : e \in held}

\* What the engine of n holds under the key of c once it has executed c: EXPIRE
\* counts from the engine's present.
Executed(n, c) ==
  CASE c.name = "SET"    -> Entry(c.val, Never)
    [] c.name = "SETNX"  -> IF At(n, c.key) = {} THEN Entry(c.val, Never) ELSE At(n, c.key)
    [] c.name = "DEL"    -> {}
    [] c.name = "EXPIRE" -> Until(At(n, c.key), now + c.ttl)

\* A command to an engine does what it should or it fails.
Either(Does, Fails) == \/ Does /\ UNCHANGED failed
                       \/ Fails /\ failed' = TRUE

\* The store is locked while it is exported; the rejoiner applies nothing
\* before its import.
Applying(n) ==
  /\ n = Survivor => phase \notin {"scan", "pttl"}
  /\ n = Rejoiner => phase = "done"

\* The next delivery at n: RedisBackend::apply.  A command that fails is counted
\* as applied all the same, for the caller only sees an error reply.
Apply(n) ==
  /\ Applying(n)
  /\ pos[n] < Len(order)
  /\ LET c == order[pos[n] + 1]
     IN  Either(db' = [db EXCEPT ![n][c.key] = Executed(n, c)], db' = db)
  /\ pos' = [pos EXCEPT ![n] = @ + 1]
  /\ UNCHANGED <<now, order, phase, export, leftover>>

-----------------------------------------------------------------------------
(* export_snapshot at the survivor *)

StartExport ==
  /\ phase = "idle"
  /\ phase' = "scan"
  /\ cut' = pos[Survivor]
  /\ since' = now
  /\ UNCHANGED <<now, order, pos, db, failed, listed, seen, last, dumped, entries, leftover>>

\* Slip: a batch without keys is taken for the end.
EndsOnEmptyBatch(batch, zero) == zero \/ batch = {}

\* The loop ends when the engine returns cursor 0.
Ends(batch, zero) == zero

\* The engine's reply to SCAN: some keys that are there, and cursor 0 only once
\* every key that is there has been listed.
Scan(batch, zero) ==
  /\ phase = "scan" /\ listed = {} /\ ~last
  /\ batch \subseteq Visible(Survivor)
  /\ Len(entries) + Cardinality(batch) <= MaxEntries
  /\ zero => Visible(Survivor) \subseteq seen \cup batch
  /\ listed' = batch
  /\ seen' = seen \cup batch
  /\ last' = Ends(batch, zero)
  /\ UNCHANGED <<now, order, pos, db, failed, phase, dumped, entries, cut, since, leftover>>

\* An error ends the loop.
ScanFails ==
  /\ phase = "scan" /\ listed = {} /\ ~last
  /\ last' = TRUE
  /\ failed' = TRUE
  /\ UNCHANGED <<now, order, pos, db, phase, listed, seen, dumped, entries, cut, since, leftover>>

\* DUMP of a listed key; one that vanished, or failed, is skipped.
Dump(k) ==
  /\ phase = "scan"
  /\ k \in listed
  /\ listed' = listed \ {k}
  /\ \/ /\ At(Survivor, k) # {}
        /\ dumped' = {[key |-> k, val |-> The(At(Survivor, k)).val]}
        /\ phase' = "pttl"
        /\ UNCHANGED failed
     \/ /\ failed' = (failed \/ At(Survivor, k) # {})
        /\ UNCHANGED <<dumped, phase>>
  /\ UNCHANGED <<now, order, pos, db, seen, last, entries, cut, since, leftover>>

\* PTTL: what is left, -1 without a deadline, -2 for a key that is not there.
PttlReply(k) ==
  LET e == At(Survivor, k)
  IN  IF e = {} THEN -2
      ELSE IF The(e).exp = Never THEN -1
      ELSE The(The(e).exp) - now

\* Any reply that is no integer counts as -1.
Pttl ==
  /\ phase = "pttl"
  /\ LET d == The(dumped)
         Exported(ttl) == entries' = Append(entries, [key |-> d.key, ttl |-> ttl, val |-> d.val])
     IN  Either(Exported(PttlReply(d.key)), Exported(-1))
  /\ dumped' = {}
  /\ phase' = "scan"
  /\ UNCHANGED <<now, order, pos, db, listed, seen, last, cut, since, leftover>>

EndExport ==
  /\ phase = "scan" /\ listed = {} /\ last
  /\ phase' = "flush"
  /\ UNCHANGED <<now, order, pos, db, failed, export, leftover>>

-----------------------------------------------------------------------------
(* import_snapshot at the rejoiner *)

\* FLUSHDB.
Flush ==
  /\ phase = "flush"
  /\ Either(db' = [db EXCEPT ![Rejoiner] = [k \in Key |-> {}]] /\ leftover' = {},
            UNCHANGED <<db, leftover>>)
  /\ phase' = "restore"
  /\ UNCHANGED <<now, order, pos, export>>

\* Slip: a TTL in a coarser unit.
RestoredInSeconds(ttl) == IF ttl <= 0 THEN Never ELSE {now + (ttl \div 2)}

\* The deadline that RESTORE gives a key: none for 0, and a negative TTL is
\* passed as 0.
Restored(ttl) == IF ttl <= 0 THEN Never ELSE {now + ttl}

\* RESTORE ... REPLACE of the next entry.  Its reply is not looked at.
Restore ==
  /\ phase = "restore"
  /\ entries # <<>>
  /\ LET e == Head(entries)
     IN  Either(/\ db' = [db EXCEPT ![Rejoiner][e.key] = Entry(e.val, Restored(e.ttl))]
                /\ leftover' = leftover \ {e.key},
                UNCHANGED <<db, leftover>>)
  /\ entries' = Tail(entries)
  /\ UNCHANGED <<now, order, pos, phase, listed, seen, last, dumped, cut, since>>

\* Slip: the rejoiner goes on where the ring is now.
ResumesAtTheEnd == Len(order)

\* The rejoiner goes on where the snapshot was cut.
ResumesAt == cut

EndImport ==
  /\ phase = "restore"
  /\ entries = <<>>
  /\ phase' = "done"
  /\ pos' = [pos EXCEPT ![Rejoiner] = ResumesAt]
  /\ UNCHANGED <<now, order, db, failed, export, leftover>>

Next ==
  \/ Tick
  \/ \E c \in Command : Submit(c)
  \/ \E n \in Node : Apply(n)
  \/ StartExport \/ ScanFails \/ Pttl \/ EndExport \/ Flush \/ Restore \/ EndImport
  \/ \E batch \in SUBSET Key, zero \in BOOLEAN : Scan(batch, zero)
  \/ \E k \in Key : Dump(k)

Spec == Init /\ [][Next]_vars

-----------------------------------------------------------------------------
\* The rejoiner has imported and neither side has applied anything since.
JustImported == phase = "done" /\ pos[Rejoiner] = cut /\ pos[Survivor] = cut

\* Whatever expires while the snapshot is taken, shipped and restored, and in
\* whatever batches the engine lists its keys: unless a command to an engine
\* failed, what the survivor still holds the rejoiner holds, and it holds nothing
\* but what the survivor held when the snapshot was cut.
SnapshotIsFull ==
  JustImported /\ ~failed =>
    \A k \in Key :
      /\ k \in Visible(Survivor) => k \in Visible(Rejoiner)
      /\ \A e \in db[Rejoiner][k] : \E s \in db[Survivor][k] :
           s.val = e.val /\ \A t \in s.exp : since <= t

\* Whichever commands to the engines fail, what the import delivered never expires
\* earlier on the rejoiner than on the survivor.  What it did not is excepted: a
\* key keeps what the restarted engine held if the FLUSHDB failed and no RESTORE
\* of the key succeeded, and a failed SCAN, DUMP or RESTORE may leave a key out.
NeverExpiresEarlier ==
  JustImported =>
    \A k \in Key \ leftover : \A e \in db[Rejoiner][k], s \in db[Survivor][k] :
      \A t \in e.exp : \E u \in s.exp : u <= t

\* store.rs: "feeding the same ordered command stream to two RedisStores must
\* leave them in the same state".  It does for the keys that no EXPIRE of the
\* stream gave a deadline, also through a snapshot cut anywhere in the stream;
\* replicas may disagree for good on the others, for each counts a TTL from
\* the moment it applies the command.
SameStreamSameState ==
  phase = "done" /\ ~failed /\ (\A n \in {Survivor, Rejoiner} : pos[n] = Len(order)) =>
    \A k \in Key :
      (\A i \in DOMAIN order : ~(order[i].name = "EXPIRE" /\ order[i].key = k))
        => At(Survivor, k) = At(Rejoiner, k)

-----------------------------------------------------------------------------
(* A claim of the documentation that the code does not meet *)

\* backend.rs: a "key vanished mid-scan" is not part of the snapshot, so no key
\* that had a TTL is imported without one.
TtlSurvivesTransfer ==
  JustImported /\ ~failed =>
    \A k \in Key : \A e \in db[Rejoiner][k], s \in db[Survivor][k] :
      e.exp = Never => s.exp = Never
==============================================================================
