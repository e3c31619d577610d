-------------------------- MODULE RedisBackendProofs --------------------------
(***************************************************************************)
(* Replicas over real engines, for any keys, commands, TTLs, failures and   *)
(* any way in which SCAN lists the keys.                                    *)
(***************************************************************************)
EXTENDS RedisBackend, FiniteSetTheorems, TLAPS

-----------------------------------------------------------------------------
(* The inductive invariant *)

\* What an engine holds under a key.
Deadline == {Never} \cup {{t} : t \in Nat}
Held == {{}} \cup {Entry(v, d) : v \in Val, d \in Deadline}
Plain == {{}} \cup {Entry(v, Never) : v \in Val}

Dumped == [key : Key, val : Val]
Exported == [key : Key, ttl : {t \in Int : t >= -2}, val : Val]

Types ==
  /\ now \in Nat /\ order \in Seq(Command) /\ pos \in [Node -> Nat] /\ cut \in Nat
  /\ since \in Nat /\ since <= now /\ leftover \in SUBSET Key
  /\ db \in [Node -> [Key -> Held]]
  /\ failed \in BOOLEAN /\ last \in BOOLEAN
  /\ phase \in {"idle", "scan", "pttl", "flush", "restore", "done"}
  /\ listed \subseteq seen /\ seen \subseteq Key
  /\ entries \in Seq(Exported)
  /\ phase = "pttl" => \E d \in Dumped : dumped = {d}
  /\ phase # "pttl" => dumped = {}

\* Where the two replicas of the transfer are, and for how long a restarted rejoiner
\* may hold what its engine held.
Places ==
  /\ \A n \in Node : pos[n] <= Len(order)
  /\ phase = "idle" => seen = {} /\ ~last /\ entries = <<>>
  /\ phase # "idle" => cut <= pos[Survivor]
  /\ phase \in {"scan", "pttl"} => pos[Survivor] = cut
  /\ phase = "done" => cut <= pos[Rejoiner] /\ entries = <<>>
  /\ phase \in {"idle", "scan", "pttl", "flush"} => leftover = Key
  /\ phase \in {"restore", "done"} /\ ~failed => leftover = {}

\* The survivor has applied nothing since the cut; the rejoiner, nothing but
\* the snapshot.
Still == phase # "idle" /\ pos[Survivor] = cut
Imported == phase = "restore" \/ (phase = "done" /\ pos[Rejoiner] = cut)

Items == {entries[i] : i \in 1 .. Len(entries)}
Carried(k) == \E e \in Items : e.key = k
InHand(k) == k \in listed \/ (\E d \in dumped : d.key = k) \/ Carried(k)

\* At the survivor, k goes no later than t; k is there with the value v, or was when
\* the snapshot was cut.
NoEarlier(k, t) == \A s \in db[Survivor][k] : \E u \in s.exp : u <= t
From(k, v) == \E s \in db[Survivor][k] : s.val = v /\ \A t \in s.exp : since <= t

\* A remaining time that was read earlier ends later: no deadline moves forward.
Deadlines ==
  Still =>
    /\ \A e \in Items : e.ttl > 0 => NoEarlier(e.key, now + e.ttl)
    /\ Imported => \A k \in Key \ leftover : \A e \in db[Rejoiner][k] :
                     \A t \in e.exp : NoEarlier(k, t)

Values ==
  Still =>
    /\ \A e \in Items : From(e.key, e.val)
    /\ \A d \in dumped : From(d.key, d.val)
    /\ Imported /\ ~failed => \A k \in Key : \A e \in db[Rejoiner][k] : From(k, e.val)

\* No key that the survivor still holds is passed over.
Complete ==
  Still /\ ~failed =>
    /\ phase \in {"scan", "pttl"} =>
         /\ \A k \in Visible(Survivor) : k \in seen => InHand(k)
         /\ last => Visible(Survivor) \subseteq seen
    /\ phase = "flush" => \A k \in Visible(Survivor) : Carried(k)
    /\ Imported => \A k \in Visible(Survivor) : Carried(k) \/ db[Rejoiner][k] # {}

\* What a command makes of an entry that has no deadline.
After(held, c) ==
  CASE c.name = "SET"    -> Entry(c.val, Never)
    [] c.name = "SETNX"  -> IF held = {} THEN Entry(c.val, Never) ELSE held
    [] c.name = "DEL"    -> {}
    [] c.name = "EXPIRE" -> held

\* What the keys that never get a deadline go through.
Becomes(h, c) == [h EXCEPT ![c.key] = After(h[c.key], c)]

Past(H) ==
  /\ H \in [0 .. Len(order) -> [Key -> Plain]]
  /\ H[0] = [k \in Key |-> {}]
  /\ \A i \in 1 .. Len(order) : H[i] = Becomes(H[i - 1], order[i])

Clean(k) == \A i \in 1 .. Len(order) : ~(order[i].name = "EXPIRE" /\ order[i].key = k)

\* The survivor is somewhere in that history; the snapshot is where it was cut; the
\* rejoiner is in the history once it has imported.
Follows(H, k) ==
  /\ db[Survivor][k] = H[pos[Survivor]][k]
  /\ phase = "done" => db[Rejoiner][k] = H[pos[Rejoiner]][k]
  /\ phase \in {"flush", "restore"} =>
       /\ \A e \in Items : e.key = k => e.ttl <= 0 /\ H[cut][k] = Entry(e.val, Never)
       /\ H[cut][k] # {} => Carried(k) \/ (phase = "restore" /\ db[Rejoiner][k] # {})
  /\ phase = "restore" => db[Rejoiner][k] \in {{}, H[cut][k]}

History == ~failed => \E H : Past(H) /\ \A k \in Key : Clean(k) => Follows(H, k)

IInv == Types /\ Places /\ Deadlines /\ Values /\ Complete /\ History

-----------------------------------------------------------------------------
(* What an engine holds *)

LEMMA TheOne ==
  ASSUME NEW x
  PROVE  The({x}) = x
  BY DEF The

\* Under a key there is at most one entry, and it has at most one deadline.
LEMMA Holding ==
  ASSUME NEW h \in Held, NEW e \in h
  PROVE  h = {e} /\ e.val \in Val /\ e.exp \in Deadline /\ e = [val |-> e.val, exp |-> e.exp]
  BY DEF Held, Entry

LEMMA Entries ==
  ASSUME NEW v \in Val, NEW d \in Deadline
  PROVE  Entry(v, d) \in Held /\ Entry(v, d) = {[val |-> v, exp |-> d]}
  BY DEF Held, Entry

LEMMA NothingHeld == {} \in Held
  BY DEF Held

LEMMA Deadlined ==
  ASSUME NEW d \in Deadline
  PROVE  d = Never \/ \E t \in Nat : d = {t} /\ The(d) = t
  BY TheOne DEF Deadline

\* An engine answers all or nothing.
LEMMA AllOrNothing ==
  ASSUME Types, NEW n \in Node, NEW k \in Key
  PROVE  /\ At(n, k) = {} \/ At(n, k) = db[n][k]
         /\ k \in Visible(n) <=> \E e \in db[n][k] : ~Expired(e)
         /\ \A e \in At(n, k) : At(n, k) = {e} /\ The(At(n, k)) = e /\ db[n][k] = {e} /\ ~Expired(e)
<1>1. db[n][k] \in Held
  BY DEF Types
<1>2. \A e \in db[n][k] : db[n][k] = {e}
  BY <1>1, Holding
<1>3. At(n, k) = {} \/ At(n, k) = db[n][k]
  BY <1>2 DEF At
<1>4. k \in Visible(n) <=> \E e \in db[n][k] : ~Expired(e)
  BY DEF Visible, At
<1> QED
  BY <1>2, <1>3, <1>4, TheOne DEF At

LEMMA ExecutedHeld ==
  ASSUME Types, NEW n \in Node, NEW c \in Command
  PROVE  Executed(n, c) \in Held /\ c.key \in Key
<1>1. /\ c.name \in {"SET", "SETNX", "DEL", "EXPIRE"} /\ c.key \in Key
      /\ c.name \in {"SET", "SETNX"} => c.val \in Val
      /\ c.name = "EXPIRE" => c.ttl \in Nat
  BY CommandAssumption
<1>2. db[n][c.key] \in Held /\ At(n, c.key) \in Held /\ now \in Nat
  <2>1. db[n][c.key] \in Held /\ now \in Nat
    BY <1>1 DEF Types
  <2>2. At(n, c.key) = {} \/ At(n, c.key) = db[n][c.key]
    BY <1>1, AllOrNothing
  <2> QED
    BY <2>1, <2>2, NothingHeld
<1>3. CASE c.name \in {"SET", "SETNX"}
  <2>1. Entry(c.val, Never) \in Held
    BY <1>1, <1>3, Entries DEF Deadline
  <2> QED
    BY <1>1, <1>2, <1>3, <2>1 DEF Executed
<1>4. CASE c.name = "DEL"
  BY <1>1, <1>4, NothingHeld DEF Executed
<1>5. CASE c.name = "EXPIRE"
  <2>1. now + c.ttl \in Nat
    BY <1>1, <1>2, <1>5
  <2>2. Executed(n, c) = Until(At(n, c.key), now + c.ttl)
    BY <1>5 DEF Executed
  <2>3. CASE At(n, c.key) = {}
    <3>1. Until({}, now + c.ttl) = {}
      BY DEF Until
    <3> QED
      BY <1>1, <2>2, <2>3, <3>1, NothingHeld
  <2>4. CASE At(n, c.key) # {}
    <3>1. PICK e : At(n, c.key) = {e} /\ e.val \in Val /\ e = [val |-> e.val, exp |-> e.exp]
      BY <1>2, <2>4, Holding
    <3>2. [e EXCEPT !.exp = {now + c.ttl}] = [val |-> e.val, exp |-> {now + c.ttl}]
      BY <3>1
    <3>3. Executed(n, c) = {[val |-> e.val, exp |-> {now + c.ttl}]}
      BY <2>2, <3>1, <3>2 DEF Until
    <3>4. {now + c.ttl} \in Deadline
      BY <2>1 DEF Deadline
    <3> QED
      <4>1. Entry(e.val, {now + c.ttl}) \in Held
        BY <3>1, <3>4, Entries
      <4> QED
        BY <1>1, <3>1, <3>3, <4>1 DEF Entry
  <2> QED
    BY <2>3, <2>4
<1> QED
  BY <1>1, <1>3, <1>4, <1>5

-----------------------------------------------------------------------------
(* The snapshot *)

LEMMA ItemsAppended ==
  ASSUME NEW x \in Exported, entries \in Seq(Exported), entries' = Append(entries, x)
  PROVE  Items' = Items \cup {x} /\ entries' \in Seq(Exported)
<1>1. /\ Len(entries) \in Nat /\ Len(entries') = Len(entries) + 1 /\ entries'[Len(entries) + 1] = x
      /\ \A i \in 1 .. Len(entries) : entries'[i] = entries[i]
  OBVIOUS
<1>2. 1 .. Len(entries') = 1 .. Len(entries) \cup {Len(entries) + 1}
  BY <1>1
<1> QED
  BY <1>1, <1>2 DEF Items

LEMMA ItemsRestored ==
  ASSUME entries \in Seq(Exported), entries # <<>>, entries' = Tail(entries)
  PROVE  /\ Items = Items' \cup {Head(entries)} /\ Head(entries) \in Exported
         /\ entries' \in Seq(Exported)
<1>1. /\ Len(entries) \in Nat /\ Len(entries) >= 1 /\ Len(entries') = Len(entries) - 1
      /\ Head(entries) = entries[1] /\ entries' \in Seq(Exported) /\ entries[1] \in Exported
      /\ \A i \in 1 .. Len(entries) - 1 : entries'[i] = entries[i + 1]
  OBVIOUS
<1>2. ASSUME NEW e \in Items
      PROVE  e \in Items' \/ e = Head(entries)
  <2>1. PICK i \in 1 .. Len(entries) : e = entries[i]
    BY DEF Items
  <2>2. CASE i = 1
    BY <1>1, <2>1, <2>2
  <2>3. CASE i # 1
    <3>1. i - 1 \in 1 .. Len(entries) - 1 /\ (i - 1) + 1 = i
      BY <1>1, <2>3
    <3>2. entries'[i - 1] = e
      BY <1>1, <2>1, <3>1
    <3> QED
      BY <1>1, <3>1, <3>2 DEF Items
  <2> QED
    BY <2>2, <2>3
<1>3. ASSUME NEW e \in Items'
      PROVE  e \in Items
  <2>1. PICK i \in 1 .. Len(entries) - 1 : e = entries'[i]
    BY <1>1 DEF Items
  <2>2. i + 1 \in 1 .. Len(entries) /\ e = entries[i + 1]
    BY <1>1, <2>1
  <2> QED
    BY <2>2 DEF Items
<1>4. Head(entries) \in Items
  BY <1>1 DEF Items
<1> QED
  BY <1>1, <1>2, <1>3, <1>4

LEMMA ItemShape ==
  ASSUME Types, NEW e \in Items
  PROVE  e.key \in Key /\ e.val \in Val /\ e.ttl \in Int /\ e.ttl >= -2
<1>1. e \in Exported
  BY DEF Items, Types
<1> QED
  BY <1>1 DEF Exported

LEMMA Times ==
  ASSUME Types, NEW n \in Node, NEW k \in Key, NEW e \in db[n][k]
  PROVE  /\ db[n][k] = {e} /\ e = [val |-> e.val, exp |-> e.exp]
         /\ e.val \in Val /\ e.exp \in Deadline /\ \A t \in e.exp : t \in Nat
<1>1. db[n][k] \in Held
  BY DEF Types
<1>2. db[n][k] = {e} /\ e = [val |-> e.val, exp |-> e.exp] /\ e.val \in Val /\ e.exp \in Deadline
  BY <1>1, Holding
<1> QED
  BY <1>2 DEF Deadline, Never

LEMMA Replicas == Survivor \in Node /\ Rejoiner \in Node /\ Survivor # Rejoiner
  BY BackendAssumption

LEMMA LaterStill ==
  ASSUME Types, NEW k \in Key, NEW t \in Int, NEW u \in Int, t <= u, NoEarlier(k, t)
  PROVE  NoEarlier(k, u)
<1>1. \A s \in db[Survivor][k] : \A v \in s.exp : v \in Nat
  BY Replicas, Times
<1> QED
  BY <1>1 DEF NoEarlier

-----------------------------------------------------------------------------
(* The clock, and the stream *)

LEMMA InitIInv == Init => IInv
<1> SUFFICES ASSUME Init PROVE IInv
  OBVIOUS
<1>1. PICK stale \in [Key -> Stale] :
        db = [n \in Node |-> IF n = Rejoiner THEN stale ELSE [k \in Key |-> {}]]
  BY DEF Init
<1>2. /\ now = 0 /\ order = <<>> /\ pos = [n \in Node |-> 0] /\ failed = FALSE /\ phase = "idle"
      /\ listed = {} /\ seen = {} /\ last = FALSE /\ dumped = {} /\ entries = <<>> /\ cut = 0
      /\ since = 0 /\ leftover = Key
  BY DEF Init
<1>4. Types
  <2>1. \A k \in Key : stale[k] \in Held
    <3>1. StaleVals \subseteq Val /\ {Never} \cup {{t} : t \in StaleTimes} \subseteq Deadline
      BY BackendAssumption DEF Deadline
    <3>2. Stale \subseteq Held
      BY <3>1 DEF Stale, Held
    <3> QED
      BY <1>1, <3>2
  <2>2. stale \in [Key -> Held] /\ [k \in Key |-> {}] \in [Key -> Held]
    BY <2>1, NothingHeld
  <2>3. db \in [Node -> [Key -> Held]]
    BY <1>1, <2>2
  <2>4. <<>> \in Seq(Command) /\ <<>> \in Seq(Exported) /\ pos \in [Node -> Nat]
    BY <1>2
  <2>5. /\ now \in Nat /\ cut \in Nat /\ failed \in BOOLEAN /\ last \in BOOLEAN
        /\ phase \in {"idle", "scan", "pttl", "flush", "restore", "done"} /\ phase # "pttl"
        /\ listed \subseteq seen /\ seen \subseteq Key /\ dumped = {}
    BY <1>2
  <2>6. leftover \in SUBSET Key /\ since = 0 /\ now = 0
    BY <1>2
  <2> QED
    BY <1>2, <2>3, <2>4, <2>5, <2>6 DEF Types
<1>5. Places
  BY <1>2 DEF Places
<1>6. Deadlines /\ Values /\ Complete
  BY <1>2 DEF Deadlines, Values, Complete, Still
<1>7. History
  <2> DEFINE H == [i \in 0 .. 0 |-> [k \in Key |-> {}]]
  <2>1. Len(order) = 0
    BY <1>2
  <2>2. [k \in Key |-> {}] \in [Key -> Plain]
    BY DEF Plain
  <2>3. Past(H)
    <3>1. H \in [0 .. Len(order) -> [Key -> Plain]]
      BY <2>1, <2>2
    <3>2. H[0] = [k \in Key |-> {}]
      OBVIOUS
    <3> QED
      BY <2>1, <3>1, <3>2 DEF Past
  <2>4. \A k \in Key : Follows(H, k)
    <3>1. pos[Survivor] = 0 /\ \A k \in Key : db[Survivor][k] = {} /\ H[0][k] = {}
      BY <1>1, <1>2, Replicas
    <3> HIDE DEF H
    <3> QED
      BY <1>2, <3>1 DEF Follows
  <2> HIDE DEF H
  <2> QED
    BY <2>3, <2>4 DEF History
<1> QED
  BY <1>4, <1>5, <1>6, <1>7 DEF IInv

\* A step that delivers nothing leaves the history as it is.
LEMMA HistoryKept ==
  ASSUME History, UNCHANGED order, failed => failed',
         ~failed' => \A H : \A k \in Key :
                       (Past(H) /\ Clean(k) /\ Follows(H, k)) => Follows(H, k)'
  PROVE  History'
<1> SUFFICES ASSUME ~failed' PROVE \E H : Past(H)' /\ \A k \in Key : Clean(k)' => Follows(H, k)'
  BY DEF History
<1>1. PICK H : Past(H) /\ \A k \in Key : Clean(k) => Follows(H, k)
  BY DEF History
<1>2. Past(H)' /\ \A k \in Key : Clean(k)' => Clean(k)
  BY <1>1 DEF Past, Clean
<1>3. \A k \in Key : Clean(k)' => Follows(H, k)'
  BY <1>1, <1>2
<1> QED
  BY <1>2, <1>3

LEMMA TickKeeps ==
  ASSUME IInv, Tick
  PROVE  IInv'
<1>1. /\ now' = now + 1 /\ now \in Nat /\ Types
      /\ UNCHANGED <<order, pos, db, failed, phase, listed, seen, last, dumped, entries, cut, since, leftover>>
  BY DEF Tick, export, IInv, Types
<1>2. Items' = Items /\ Still' = Still /\ Imported' = Imported
  BY <1>1 DEF Items, Still, Imported
<1>3. Visible(Survivor)' \subseteq Visible(Survivor)
  <2> SUFFICES ASSUME NEW k \in Key, k \in Visible(Survivor)'
               PROVE  k \in Visible(Survivor)
    BY DEF Visible
  <2>1. PICK e \in db[Survivor][k] : \A t \in e.exp : ~(t < now + 1)
    BY <1>1 DEF Visible, At, Expired
  <2>2. \A t \in e.exp : t \in Nat
    BY <1>1, Replicas, Times
  <2> QED
    BY <1>1, <2>1, <2>2 DEF Visible, At, Expired
<1>4. Types' /\ Places' /\ Values' /\ History'
  <2>1. Types' /\ Places'
    BY <1>1 DEF IInv, Types, Places
  <2>2. Values'
    BY <1>1, <1>2 DEF IInv, Values, From
  <2>3. History'
    <3>1. \A H : \A k \in Key : Follows(H, k) => Follows(H, k)'
      BY <1>1, <1>2 DEF Follows, Carried
    <3> QED
      BY <1>1, <3>1, HistoryKept DEF IInv
  <2> QED
    BY <2>1, <2>2, <2>3
<1>5. Deadlines'
  <2>1. \A k, t : NoEarlier(k, t)' <=> NoEarlier(k, t)
    BY <1>1 DEF NoEarlier
  <2>2. ASSUME Still, NEW e \in Items, e.ttl > 0
        PROVE  NoEarlier(e.key, now' + e.ttl)
    <3>1. NoEarlier(e.key, now + e.ttl) /\ e.key \in Key /\ e.ttl \in Int
      BY <1>1, <2>2, ItemShape DEF IInv, Deadlines
    <3>2. now + e.ttl \in Int /\ now' + e.ttl \in Int /\ now + e.ttl <= now' + e.ttl
      BY <1>1, <3>1
    <3> QED
      BY <1>1, <3>1, <3>2, LaterStill
  <2> QED
    BY <1>1, <1>2, <2>1, <2>2 DEF IInv, Deadlines
<1>6. Complete'
  BY <1>1, <1>2, <1>3 DEF IInv, Complete, InHand, Carried
<1> QED
  BY <1>4, <1>5, <1>6 DEF IInv

LEMMA BecomesPlain ==
  ASSUME NEW h \in [Key -> Plain], NEW c \in Command
  PROVE  /\ Becomes(h, c) \in [Key -> Plain]
         /\ \A k \in Key : k # c.key => Becomes(h, c)[k] = h[k]
<1>1. /\ c.name \in {"SET", "SETNX", "DEL", "EXPIRE"} /\ c.key \in Key
      /\ c.name \in {"SET", "SETNX"} => c.val \in Val
  BY CommandAssumption
<1>2. {} \in Plain /\ (c.name \in {"SET", "SETNX"} => Entry(c.val, Never) \in Plain)
  BY <1>1 DEF Plain
<1>3. h[c.key] \in Plain
  BY <1>1
<1>4. After(h[c.key], c) \in Plain
  BY <1>1, <1>2, <1>3 DEF After
<1> QED
  BY <1>1, <1>4 DEF Becomes
\* Nothing but the stream changes, and the stream only grows.
LEMMA SubmitKeeps ==
  ASSUME IInv, NEW c \in Command, Submit(c)
  PROVE  IInv'
<1>1. /\ order' = Append(order, c) /\ order \in Seq(Command) /\ Types
      /\ UNCHANGED <<now, pos, db, failed, phase, listed, seen, last, dumped, entries, cut, since, leftover>>
  BY DEF Submit, export, IInv, Types
<1>2. /\ Len(order) \in Nat /\ Len(order') = Len(order) + 1 /\ order' \in Seq(Command)
      /\ order'[Len(order) + 1] = c /\ \A i \in 1 .. Len(order) : order'[i] = order[i]
  BY <1>1
<1>3. /\ Items' = Items /\ Still' = Still /\ Imported' = Imported
      /\ Visible(Survivor)' = Visible(Survivor)
  BY <1>1 DEF Items, Still, Imported, Visible, At, Expired
<1>4. Types'
  BY <1>1, <1>2 DEF Types
<1>5. Places'
  <2>1. \A n \in Node : pos[n] <= Len(order')
    BY <1>1, <1>2 DEF IInv, Types, Places
  <2> QED
    BY <1>1, <2>1 DEF IInv, Places
<1>6. Deadlines' /\ Values'
  BY <1>1, <1>3 DEF IInv, Deadlines, Values, NoEarlier, From
<1>7. Complete'
  BY <1>1, <1>3 DEF IInv, Complete, InHand, Carried
<1>8. History'
  <2> SUFFICES ASSUME ~failed
               PROVE  \E H : Past(H)' /\ \A k \in Key : Clean(k)' => Follows(H, k)'
    BY <1>1 DEF History
  <2>1. PICK H : Past(H) /\ \A k \in Key : Clean(k) => Follows(H, k)
    BY DEF IInv, History
  <2>0. PICK N : N = Len(order)
    OBVIOUS
  <2>2. H \in [0 .. N -> [Key -> Plain]] /\ Becomes(H[N], c) \in [Key -> Plain]
    <3>1. H \in [0 .. N -> [Key -> Plain]] /\ N \in 0 .. N
      BY <1>2, <2>0, <2>1 DEF Past
    <3>2. H[N] \in [Key -> Plain]
      BY <3>1
    <3> QED
      BY <3>1, <3>2, BecomesPlain
  <2>3. PICK G : /\ G \in [0 .. N + 1 -> [Key -> Plain]] /\ G[N + 1] = Becomes(H[N], c)
                 /\ \A i \in 0 .. N : G[i] = H[i]
    <3> DEFINE F == [i \in 0 .. N + 1 |-> IF i = N + 1 THEN Becomes(H[N], c) ELSE H[i]]
    <3>1. /\ F \in [0 .. N + 1 -> [Key -> Plain]] /\ F[N + 1] = Becomes(H[N], c)
          /\ \A i \in 0 .. N : F[i] = H[i]
      BY <1>2, <2>0, <2>2
    <3> QED
      BY <3>1
  <2>4. Past(G)'
    <3>1. G[0] = [k \in Key |-> {}]
      BY <1>2, <2>0, <2>1, <2>3 DEF Past
    <3>2. ASSUME NEW i \in 1 .. N + 1
          PROVE  G[i] = Becomes(G[i - 1], order'[i])
      <4>1. CASE i = N + 1
        BY <1>2, <2>0, <2>3, <4>1
      <4>2. CASE i # N + 1
        <5>1. i \in 1 .. N /\ i \in 0 .. N /\ i - 1 \in 0 .. N
          BY <1>2, <2>0, <4>2
        <5> QED
          BY <1>2, <2>0, <2>1, <2>3, <5>1 DEF Past
      <4> QED
        BY <4>1, <4>2
    <3>3. 0 .. Len(order') = 0 .. N + 1 /\ 1 .. Len(order') = 1 .. N + 1
      BY <1>2, <2>0
    <3> QED
      BY <2>3, <3>1, <3>2, <3>3 DEF Past, Becomes
  <2>5. pos[Survivor] \in 0 .. N /\ pos[Rejoiner] \in 0 .. N /\ (phase # "idle" => cut \in 0 .. N)
    BY <1>2, <2>0, Replicas DEF IInv, Types, Places
  <2>6. ASSUME NEW k \in Key, Clean(k)'
        PROVE  Follows(G, k)'
    <3>1. Clean(k)
      BY <1>2, <2>6 DEF Clean
    <3>2. Follows(H, k)
      BY <2>1, <3>1
    <3>3. /\ G[pos[Survivor]] = H[pos[Survivor]] /\ G[pos[Rejoiner]] = H[pos[Rejoiner]]
          /\ phase # "idle" => G[cut] = H[cut]
      BY <2>3, <2>5
    <3>4. Carried(k)' <=> Carried(k)
      BY <1>3 DEF Carried
    <3> QED
      <4>1. /\ db[Survivor][k] = G[pos[Survivor]][k]
            /\ phase = "done" => db[Rejoiner][k] = G[pos[Rejoiner]][k]
        BY <3>2, <3>3 DEF Follows
      <4>2. /\ phase \in {"flush", "restore"} =>
                 /\ \A e \in Items : e.key = k => e.ttl <= 0 /\ G[cut][k] = Entry(e.val, Never)
                 /\ G[cut][k] # {} => Carried(k) \/ (phase = "restore" /\ db[Rejoiner][k] # {})
            /\ phase = "restore" => db[Rejoiner][k] \in {{}, G[cut][k]}
        BY <3>2, <3>3 DEF Follows
      <4> QED
        BY <1>1, <1>3, <3>4, <4>1, <4>2 DEF Follows
  <2> QED
    BY <2>4, <2>6
<1> QED
  BY <1>4, <1>5, <1>6, <1>7, <1>8 DEF IInv

-----------------------------------------------------------------------------
(* Applying a delivery *)

\* An entry without a deadline is there whatever the time.
LEMMA PlainIsThere ==
  ASSUME NEW n \in Node, NEW k \in Key, db[n][k] \in Plain
  PROVE  At(n, k) = db[n][k]
<1>1. \A e \in db[n][k] : e.exp = Never
  BY DEF Plain, Entry
<1> QED
  BY <1>1 DEF At, Expired, Never

\* What an engine makes of a command does not depend on its clock, unless a deadline
\* is involved.
LEMMA ExecutesPlain ==
  ASSUME NEW n \in Node, NEW c \in Command, c.name # "EXPIRE", db[n][c.key] \in Plain
  PROVE  Executed(n, c) = After(db[n][c.key], c)
<1>1. c.name \in {"SET", "SETNX", "DEL"} /\ c.key \in Key
  BY CommandAssumption
<1>2. At(n, c.key) = db[n][c.key]
  BY <1>1, PlainIsThere
<1> QED
  BY <1>1, <1>2 DEF Executed, After

\* A replica that is in the history for k, and whose engine does as it is told, is
\* there one command later too.
LEMMA StaysInThePast ==
  ASSUME Types, NEW n \in Node, NEW H, Past(H), NEW k \in Key, Clean(k),
         pos[n] < Len(order), db[n][k] = H[pos[n]][k]
  PROVE  LET c == order[pos[n] + 1]
         IN  H[pos[n] + 1][k] = IF k = c.key THEN Executed(n, c) ELSE db[n][k]
<1> DEFINE p == pos[n]
           c == order[p + 1]
<1>1. p \in Nat /\ p \in 0 .. Len(order) /\ p + 1 \in 1 .. Len(order) /\ (p + 1) - 1 = p
  BY DEF Types
<1>2. c \in Command
  BY <1>1 DEF Types
<1>3. H[p] \in [Key -> Plain] /\ H[p + 1] = Becomes(H[p], c)
  <2>1. H[p + 1] = Becomes(H[(p + 1) - 1], order[p + 1])
    BY <1>1 DEF Past
  <2> QED
    BY <1>1, <2>1 DEF Past
<1>4. CASE k = c.key
  <2>1. c.name # "EXPIRE"
    BY <1>1, <1>4 DEF Clean
  <2>2. db[n][c.key] \in Plain /\ db[n][c.key] = H[p][c.key]
    BY <1>3, <1>4
  <2>3. Executed(n, c) = After(H[p][c.key], c)
    BY <1>2, <2>1, <2>2, ExecutesPlain
  <2>4. Becomes(H[p], c)[c.key] = After(H[p][c.key], c)
    BY <1>3, <1>4 DEF Becomes
  <2> QED
    BY <1>3, <1>4, <2>3, <2>4
<1>5. CASE k # c.key
  BY <1>2, <1>3, <1>5, BecomesPlain
<1> QED
  BY <1>4, <1>5
LEMMA ApplyKeeps ==
  ASSUME IInv, NEW n \in Node, Apply(n)
  PROVE  IInv'
<1> DEFINE c == order[pos[n] + 1]
<1>1. /\ Types /\ Applying(n) /\ pos[n] < Len(order) /\ pos[n] \in Nat /\ Len(order) \in Nat
      /\ pos' = [pos EXCEPT ![n] = @ + 1]
      /\ UNCHANGED <<now, order, phase, listed, seen, last, dumped, entries, cut, since, leftover>>
  BY DEF Apply, export, IInv, Types
<1>2. c \in Command /\ Executed(n, c) \in Held /\ c.key \in Key
  <2>1. c \in Command
    BY <1>1 DEF Types
  <2> QED
    BY <1>1, <2>1, ExecutedHeld
<1>3. \/ db' = [db EXCEPT ![n][c.key] = Executed(n, c)] /\ failed' = failed
      \/ db' = db /\ failed' = TRUE
  BY DEF Apply, Either
<1>4. /\ \A m \in Node \ {n} : db'[m] = db[m] /\ pos'[m] = pos[m]
      /\ pos'[n] = pos[n] + 1
      /\ ~failed' => ~failed /\ \A k \in Key :
                       db'[n][k] = IF k = c.key THEN Executed(n, c) ELSE db[n][k]
  BY <1>1, <1>2, <1>3 DEF Types
<1>5. Types'
  <2>1. db' \in [Node -> [Key -> Held]] /\ failed' \in BOOLEAN
    <3> HIDE DEF c
    <3>1. ASSUME NEW x \in Held PROVE [db EXCEPT ![n][c.key] = x] \in [Node -> [Key -> Held]]
      BY <1>1, <1>2 DEF Types
    <3> QED
      BY <1>1, <1>2, <1>3, <3>1 DEF Types
  <2>2. pos' \in [Node -> Nat]
    BY <1>1 DEF Types
  <2> QED
    BY <1>1, <2>1, <2>2 DEF Types
<1>6. Places'
  <2>1. \A m \in Node : pos'[m] <= Len(order')
    BY <1>1, <1>4 DEF IInv, Types, Places
  <2>2. CASE n = Survivor
    BY <1>1, <1>4, <2>1, <2>2, Replicas DEF IInv, Types, Places, Applying
  <2>3. CASE n = Rejoiner
    BY <1>1, <1>4, <2>1, <2>3, Replicas DEF IInv, Types, Places, Applying
  <2>4. CASE n # Survivor /\ n # Rejoiner
    BY <1>1, <1>4, <2>1, <2>4, Replicas DEF IInv, Types, Places
  <2> QED
    BY <2>2, <2>3, <2>4
<1>7. Items' = Items
  BY <1>1 DEF Items
<1>8. Deadlines' /\ Values' /\ Complete'
  <2>1. CASE n = Survivor
    <3>1. ~Still'
      BY <1>1, <1>4, <2>1 DEF IInv, Types, Places, Still
    <3> QED
      BY <3>1 DEF Deadlines, Values, Complete
  <2>2. CASE n = Rejoiner
    <3>1. phase = "done" /\ phase' = "done" /\ ~Imported' /\ Items' = {} /\ dumped' = {}
      BY <1>1, <1>4, <2>2, Replicas DEF IInv, Types, Places, Applying, Imported, Items
    <3> QED
      BY <3>1 DEF Deadlines, Values, Complete
  <2>3. CASE n # Survivor /\ n # Rejoiner
    <3>1. /\ db'[Survivor] = db[Survivor] /\ db'[Rejoiner] = db[Rejoiner]
          /\ pos'[Survivor] = pos[Survivor] /\ pos'[Rejoiner] = pos[Rejoiner]
      BY <1>4, <2>3, Replicas
    <3>2. /\ Still' = Still /\ Imported' = Imported /\ Visible(Survivor)' = Visible(Survivor)
          /\ (~failed' => ~failed)
      BY <1>1, <1>4, <3>1 DEF Still, Imported, Visible, At, Expired
    <3>3. Deadlines'
      BY <1>1, <1>7, <3>1, <3>2 DEF IInv, Deadlines, NoEarlier
    <3>4. Values'
      BY <1>1, <1>7, <3>1, <3>2 DEF IInv, Values, From
    <3>5. Complete'
      BY <1>1, <1>7, <3>1, <3>2 DEF IInv, Complete, InHand, Carried
    <3> QED
      BY <3>3, <3>4, <3>5
  <2> QED
    BY <2>1, <2>2, <2>3
<1>9. History'
  <2>1. ASSUME ~failed', NEW H, NEW k \in Key, Past(H), Clean(k), Follows(H, k)
        PROVE  Follows(H, k)'
    <3>1. db[n][k] = H[pos[n]][k] => db'[n][k] = H[pos[n] + 1][k]
      BY <1>1, <1>4, <2>1, StaysInThePast
    <3>2. Carried(k)' <=> Carried(k)
      BY <1>7 DEF Carried
    <3>3. CASE n = Survivor
      BY <1>1, <1>4, <1>7, <2>1, <3>1, <3>2, <3>3, Replicas DEF Follows
    <3>4. CASE n = Rejoiner
      <4>1. phase = "done" /\ db'[Survivor] = db[Survivor] /\ pos'[Survivor] = pos[Survivor]
        BY <1>1, <1>4, <3>4, Replicas DEF Applying
      <4> QED
        BY <1>1, <1>4, <2>1, <3>1, <3>4, <4>1 DEF Follows
    <3>5. CASE n # Survivor /\ n # Rejoiner
      <4>1. /\ db'[Survivor] = db[Survivor] /\ db'[Rejoiner] = db[Rejoiner]
            /\ pos'[Survivor] = pos[Survivor] /\ pos'[Rejoiner] = pos[Rejoiner]
        BY <1>4, <3>5, Replicas
      <4> QED
        BY <1>1, <1>7, <2>1, <3>2, <4>1 DEF Follows
    <3> QED
      BY <3>3, <3>4, <3>5
  <2>2. History /\ UNCHANGED order /\ (failed => failed')
    BY <1>1, <1>3 DEF IInv
  <2> QED
    BY <2>1, <2>2, HistoryKept
<1> QED
  BY <1>5, <1>6, <1>8, <1>9 DEF IInv
-----------------------------------------------------------------------------
(* The export *)

LEMMA StartExportKeeps ==
  ASSUME IInv, StartExport
  PROVE  IInv'
<1>1. /\ Types /\ phase = "idle" /\ phase' = "scan" /\ cut' = pos[Survivor] /\ since' = now
      /\ UNCHANGED <<now, order, pos, db, failed, listed, seen, last, dumped, entries, leftover>>
  BY DEF StartExport, IInv
<1>2. seen = {} /\ listed = {} /\ ~last /\ entries = <<>> /\ dumped = {} /\ Items' = {}
  BY <1>1 DEF IInv, Types, Places, Items
<1>3. Types'
  BY <1>1, <1>2, Replicas DEF Types
<1>4. Places'
  BY <1>1, <1>2, Replicas DEF Types, IInv, Places
<1>5. Deadlines' /\ Values' /\ Complete'
  <2>1. ~Imported'
    BY <1>1 DEF Imported
  <2> QED
    BY <1>1, <1>2, <2>1 DEF Deadlines, Values, Complete
<1>6. History'
  <2>1. \A H : \A k \in Key : Follows(H, k) => Follows(H, k)'
    BY <1>1 DEF Follows
  <2> QED
    BY <1>1, <2>1, HistoryKept DEF IInv
<1> QED
  BY <1>3, <1>4, <1>5, <1>6 DEF IInv

\* A step of the loop: it touches no engine, exports nothing and drops no key that
\* is still there.
LEMMA LoopKeeps ==
  ASSUME IInv, phase = "scan", phase' = "scan", dumped' = dumped, failed => failed',
         UNCHANGED <<now, order, pos, db, entries, cut, since, leftover>>,
         failed' \in BOOLEAN, last' \in BOOLEAN, listed' \subseteq seen', seen' \subseteq Key,
         ~failed' => \A k \in Visible(Survivor) :
                       /\ k \in seen' => InHand(k)'
                       /\ last' => k \in seen'
  PROVE  IInv'
<1>1. Types /\ Items' = Items /\ Still' = Still /\ ~Imported' /\ Visible(Survivor)' = Visible(Survivor)
  BY DEF IInv, Items, Still, Imported, Visible, At, Expired
<1>2. Types' /\ Places'
  BY <1>1 DEF IInv, Types, Places
<1>3. Deadlines' /\ Values'
  BY <1>1 DEF IInv, Deadlines, Values, NoEarlier, From
<1>4. Complete'
  <2> SUFFICES ASSUME ~failed'
               PROVE  /\ \A k \in Visible(Survivor)' : k \in seen' => InHand(k)'
                      /\ last' => Visible(Survivor)' \subseteq seen'
    BY <1>1 DEF Complete
  <2> QED
    BY <1>1
<1>5. History'
  <2>1. \A H : \A k \in Key : Follows(H, k) => Follows(H, k)'
    BY DEF Follows
  <2> QED
    BY <2>1, HistoryKept DEF IInv
<1> QED
  BY <1>2, <1>3, <1>4, <1>5 DEF IInv

\* Of the keys listed before, those that are still there are in hand; those of this
\* reply are yet to be dumped.
LEMMA ScanKeeps ==
  ASSUME IInv, NEW batch \in SUBSET Key, NEW zero \in BOOLEAN, Scan(batch, zero)
  PROVE  IInv'
<1>1. /\ Types /\ phase = "scan" /\ phase' = "scan" /\ listed = {}
      /\ zero => Visible(Survivor) \subseteq (seen \cup batch)
      /\ listed' = batch /\ seen' = seen \cup batch /\ last' = zero
      /\ UNCHANGED <<now, order, pos, db, failed, dumped, entries, cut, since, leftover>>
  BY DEF Scan, IInv, Ends
<1>2. Still
  BY <1>1 DEF IInv, Places, Still
<1>3. Items' = Items
  BY <1>1 DEF Items
<1>4. ASSUME ~failed', NEW k \in Visible(Survivor)
      PROVE  (k \in seen' => InHand(k)') /\ (last' => k \in seen')
  <2>1. k \in seen => InHand(k)
    BY <1>1, <1>2, <1>4 DEF IInv, Complete
  <2>2. InHand(k) => InHand(k)'
    BY <1>1, <1>3 DEF InHand, Carried
  <2>3. k \in batch => InHand(k)'
    BY <1>1 DEF InHand
  <2> QED
    BY <1>1, <2>1, <2>2, <2>3
<1>5. failed' \in BOOLEAN /\ seen' \subseteq Key /\ listed' \subseteq seen'
  BY <1>1 DEF Types
<1> QED
  BY <1>1, <1>4, <1>5, LoopKeeps

LEMMA ScanFailsKeeps ==
  ASSUME IInv, ScanFails
  PROVE  IInv'
  BY LoopKeeps DEF ScanFails, IInv, Types

\* A key that is skipped is gone, or the engine failed.
LEMMA DumpKeeps ==
  ASSUME IInv, NEW k \in Key, Dump(k)
  PROVE  IInv'
<1>1. /\ Types /\ phase = "scan" /\ k \in listed /\ listed' = listed \ {k}
      /\ UNCHANGED <<now, order, pos, db, seen, last, entries, cut, since, leftover>>
  BY DEF Dump, IInv
<1>2. Still /\ dumped = {}
  BY <1>1 DEF IInv, Types, Places, Still
<1>3. Items' = Items /\ Still' = Still /\ Visible(Survivor)' = Visible(Survivor)
  BY <1>1 DEF Items, Visible, At, Expired, IInv, Places, Still, Dump
<1>4. CASE /\ At(Survivor, k) # {}
           /\ dumped' = {[key |-> k, val |-> The(At(Survivor, k)).val]}
           /\ phase' = "pttl"
           /\ UNCHANGED failed
  <2>1. PICK e \in db[Survivor][k] : The(At(Survivor, k)) = e /\ ~Expired(e)
    BY <1>1, <1>4, Replicas, AllOrNothing DEF At
  <2>2. PICK d : d \in Dumped /\ d.key = k /\ d.val = e.val /\ dumped' = {d}
    <3>1. e.val \in Val
      BY <1>1, <2>1, Replicas, Times
    <3> QED
      BY <1>4, <2>1, <3>1 DEF Dumped
  <2>3. Types'
    BY <1>1, <1>4, <2>2 DEF Types
  <2>4. Places'
    BY <1>1, <1>4 DEF IInv, Places
  <2>5. ~Imported'
    BY <1>4 DEF Imported
  <2>6. Deadlines'
    BY <1>1, <1>2, <1>3, <2>5 DEF IInv, Deadlines, NoEarlier
  <2>7. Values'
    <3>1. \A x \in Items : From(x.key, x.val)
      BY <1>2 DEF IInv, Values
    <3>2. From(d.key, d.val)
      <4>1. now \in Nat /\ since \in Nat /\ since <= now /\ \A t \in e.exp : t \in Nat
        BY <1>1, <2>1, Replicas, Times DEF Types
      <4>2. \A t \in e.exp : since <= t
        BY <2>1, <4>1 DEF Expired
      <4> QED
        BY <2>1, <2>2, <4>2 DEF From
    <3>3. \A j, v : From(j, v)' <=> From(j, v)
      BY <1>1 DEF From
    <3> QED
      BY <1>3, <2>2, <2>5, <3>1, <3>2, <3>3 DEF Values
  <2>8. Complete'
    <3>1. ASSUME NEW j, InHand(j) PROVE InHand(j)'
      BY <1>1, <1>2, <1>3, <2>2, <3>1 DEF InHand, Carried
    <3> QED
      BY <1>1, <1>2, <1>3, <1>4, <2>5, <3>1 DEF IInv, Complete
  <2>9. History'
    <3>1. \A H : \A j \in Key : Follows(H, j) => Follows(H, j)'
      BY <1>1, <1>4 DEF Follows
    <3> QED
      BY <1>1, <1>4, <3>1, HistoryKept DEF IInv
  <2> QED
    BY <2>3, <2>4, <2>6, <2>7, <2>8, <2>9 DEF IInv
<1>5. CASE failed' = (failed \/ At(Survivor, k) # {}) /\ UNCHANGED <<dumped, phase>>
  <2>1. ASSUME ~failed', NEW j \in Visible(Survivor)
        PROVE  (j \in seen' => InHand(j)') /\ (last' => j \in seen')
    <3>1. ~failed /\ j # k
      BY <1>5, <2>1 DEF Visible
    <3>2. (j \in seen => InHand(j)) /\ (last => j \in seen)
      BY <1>1, <1>2, <2>1, <3>1 DEF IInv, Complete
    <3>3. InHand(j) => InHand(j)'
      BY <1>1, <1>3, <1>5, <3>1 DEF InHand, Carried
    <3> QED
      BY <1>1, <3>2, <3>3
  <2>2. failed' \in BOOLEAN /\ last' \in BOOLEAN /\ listed' \subseteq seen' /\ seen' \subseteq Key
    BY <1>1, <1>5 DEF Types
  <2> QED
    BY <1>1, <1>5, <2>1, <2>2, LoopKeeps
<1> QED
  BY <1>4, <1>5 DEF Dump
\* What is left to a key that is there is never negative; whatever is reported as a
\* remaining time ends at the deadline.
LEMMA Reply ==
  ASSUME Types, NEW k \in Key
  PROVE  /\ PttlReply(k) \in Int /\ PttlReply(k) >= -2
         /\ PttlReply(k) > 0 => NoEarlier(k, now + PttlReply(k))
<1>1. CASE At(Survivor, k) = {}
  BY <1>1 DEF PttlReply
<1>2. CASE At(Survivor, k) # {}
  <2>1. PICK e \in db[Survivor][k] : /\ The(At(Survivor, k)) = e /\ db[Survivor][k] = {e}
                                     /\ ~Expired(e)
    BY <1>2, Replicas, AllOrNothing DEF At
  <2>2. e.exp \in Deadline /\ now \in Nat
    BY <2>1, Replicas, Times DEF Types
  <2>3. CASE e.exp = Never
    BY <1>2, <2>1, <2>3 DEF PttlReply
  <2>4. CASE e.exp # Never
    <3>1. PICK t \in Nat : e.exp = {t} /\ The(e.exp) = t
      BY <2>2, <2>4, Deadlined
    <3>2. PttlReply(k) = t - now
      BY <1>2, <2>1, <2>4, <3>1 DEF PttlReply
    <3>3. t >= now
      BY <2>1, <2>2, <3>1 DEF Expired
    <3>4. NoEarlier(k, t)
      BY <2>1, <3>1 DEF NoEarlier
    <3>5. now + (t - now) = t
      BY <2>2
    <3> QED
      BY <2>2, <3>2, <3>3, <3>4, <3>5
  <2> QED
    BY <2>3, <2>4
<1> QED
  BY <1>1, <1>2

LEMMA PttlKeeps ==
  ASSUME IInv, Pttl
  PROVE  IInv'
<1>1. /\ Types /\ phase = "pttl" /\ phase' = "scan" /\ dumped' = {}
      /\ UNCHANGED <<now, order, pos, db, listed, seen, last, cut, since, leftover>>
  BY DEF Pttl, IInv
<1>2. PICK d \in Dumped : dumped = {d} /\ The(dumped) = d /\ d.key \in Key /\ d.val \in Val
  BY <1>1, TheOne DEF Types, Dumped
<1>3. PICK ttl : /\ ttl \in {PttlReply(d.key), -1}
                 /\ entries' = Append(entries, [key |-> d.key, ttl |-> ttl, val |-> d.val])
                 /\ failed' = failed \/ failed' = TRUE
  BY <1>2 DEF Pttl, Either
<1> DEFINE x == [key |-> d.key, ttl |-> ttl, val |-> d.val]
<1>4. /\ ttl \in Int /\ ttl >= -2 /\ x \in Exported
      /\ ttl > 0 => NoEarlier(d.key, now + ttl)
  <2>1. ttl \in Int /\ ttl >= -2 /\ (ttl > 0 => NoEarlier(d.key, now + ttl))
    BY <1>1, <1>2, <1>3, Reply
  <2> QED
    BY <1>2, <2>1 DEF Exported
<1>5. Items' = Items \cup {x} /\ entries' \in Seq(Exported)
  BY <1>1, <1>3, <1>4, ItemsAppended DEF Types
<1>6. x.key = d.key /\ x.val = d.val /\ x.ttl = ttl
  OBVIOUS
<1> HIDE DEF x
<1>7. /\ Still /\ Still' /\ ~Imported' /\ Visible(Survivor)' = Visible(Survivor)
      /\ failed' \in BOOLEAN /\ (failed => failed')
  <2>1. Still /\ Still' /\ ~Imported' /\ Visible(Survivor)' = Visible(Survivor)
    BY <1>1 DEF IInv, Places, Still, Imported, Visible, At, Expired
  <2>2. failed \in BOOLEAN
    BY <1>1 DEF Types
  <2>3. failed' \in BOOLEAN /\ (failed => failed')
    <3>1. failed' = failed \/ failed' = TRUE
      BY <1>3
    <3> QED
      BY <2>2, <3>1
  <2> QED
    BY <2>1, <2>3
<1>8. Types' /\ Places'
  <2>1. Types'
    BY <1>1, <1>5, <1>7 DEF Types
  <2> QED
    BY <1>1, <2>1 DEF IInv, Places
<1>9. Deadlines'
  <2>1. \A k, t : NoEarlier(k, t)' <=> NoEarlier(k, t)
    BY <1>1 DEF NoEarlier
  <2>2. \A e \in Items : e.ttl > 0 => NoEarlier(e.key, now + e.ttl)
    BY <1>7 DEF IInv, Deadlines
  <2> QED
    BY <1>1, <1>4, <1>5, <1>6, <1>7, <2>1, <2>2 DEF Deadlines
<1>10. Values'
  <2>1. \A k, v : From(k, v)' <=> From(k, v)
    BY <1>1 DEF From
  <2>2. From(d.key, d.val) /\ \A e \in Items : From(e.key, e.val)
    BY <1>2, <1>7 DEF IInv, Values
  <2> QED
    BY <1>1, <1>5, <1>6, <1>7, <2>1, <2>2 DEF Values
<1>11. Complete'
  <2>1. ASSUME NEW k, InHand(k) PROVE InHand(k)'
    BY <1>1, <1>2, <1>5, <1>6, <2>1 DEF InHand, Carried
  <2> QED
    BY <1>1, <1>7, <2>1 DEF IInv, Complete
<1>12. History'
  <2>1. \A H : \A k \in Key : Follows(H, k) => Follows(H, k)'
    BY <1>1 DEF Follows
  <2> QED
    BY <1>1, <1>7, <2>1, HistoryKept DEF IInv
<1> QED
  BY <1>8, <1>9, <1>10, <1>11, <1>12 DEF IInv

\* What was exported under a key that never gets a deadline is what the history has
\* there.
LEMMA CutIsInThePast ==
  ASSUME IInv, ~failed, phase = "scan", listed = {}, last,
         NEW H, Past(H), NEW k \in Key, Follows(H, k)
  PROVE  /\ \A e \in Items : e.key = k => e.ttl <= 0 /\ H[cut][k] = Entry(e.val, Never)
         /\ H[cut][k] # {} => Carried(k)
<1>1. /\ Types /\ Still /\ pos[Survivor] = cut /\ dumped = {} /\ cut \in 0 .. Len(order)
  BY Replicas DEF IInv, Types, Places, Still
<1>2. db[Survivor][k] = H[cut][k] /\ H[cut][k] \in Plain
  BY <1>1 DEF Past, Follows
<1>3. \A s \in db[Survivor][k] : s.exp = Never /\ db[Survivor][k] = {s} /\ s = [val |-> s.val, exp |-> Never]
  BY <1>2 DEF Plain, Entry
<1>4. ASSUME NEW e \in Items, e.key = k
      PROVE  e.ttl <= 0 /\ H[cut][k] = Entry(e.val, Never)
  <2>1. PICK s \in db[Survivor][k] : s.val = e.val
    BY <1>1, <1>4 DEF IInv, Values, From
  <2>2. ~(e.ttl > 0)
    BY <1>1, <1>3, <1>4, <2>1 DEF IInv, Deadlines, NoEarlier, Never
  <2>3. e.ttl <= 0
    BY <1>1, <2>2, ItemShape
  <2>4. H[cut][k] = Entry(e.val, Never)
    BY <1>2, <1>3, <2>1 DEF Entry
  <2> QED
    BY <2>3, <2>4
<1>5. ASSUME H[cut][k] # {}
      PROVE  Carried(k)
  <2>1. k \in Visible(Survivor)
    BY <1>2, <1>5, Replicas, PlainIsThere DEF Visible
  <2>2. InHand(k)
    BY <1>1, <2>1 DEF IInv, Complete
  <2> QED
    BY <1>1, <2>2 DEF InHand
<1> QED
  BY <1>4, <1>5

LEMMA EndExportKeeps ==
  ASSUME IInv, EndExport
  PROVE  IInv'
<1>1. /\ Types /\ phase = "scan" /\ phase' = "flush" /\ listed = {} /\ last
      /\ UNCHANGED <<now, order, pos, db, failed, listed, seen, last, dumped, entries, cut, since, leftover>>
  BY DEF EndExport, IInv, export
<1>2. /\ Still /\ Still' /\ ~Imported' /\ Visible(Survivor)' = Visible(Survivor) /\ Items' = Items
      /\ dumped = {}
  BY <1>1 DEF IInv, Types, Places, Still, Imported, Visible, At, Expired, Items
<1>3. Types' /\ Places'
  BY <1>1 DEF IInv, Types, Places
<1>4. Deadlines' /\ Values'
  BY <1>1, <1>2 DEF IInv, Deadlines, Values, NoEarlier, From
<1>5. \A k : Carried(k)' <=> Carried(k)
  BY <1>2 DEF Carried
<1>6. Complete'
  BY <1>1, <1>2, <1>5 DEF IInv, Complete, InHand
<1>7. History'
  <2>1. ASSUME ~failed', NEW H, NEW k \in Key, Past(H), Clean(k), Follows(H, k)
        PROVE  Follows(H, k)'
    <3>1. /\ \A e \in Items : e.key = k => e.ttl <= 0 /\ H[cut][k] = Entry(e.val, Never)
          /\ H[cut][k] # {} => Carried(k)
      BY <1>1, <2>1, CutIsInThePast
    <3> QED
      BY <1>1, <1>2, <1>5, <2>1, <3>1 DEF Follows
  <2> QED
    BY <1>1, <2>1, HistoryKept DEF IInv
<1> QED
  BY <1>3, <1>4, <1>6, <1>7 DEF IInv
-----------------------------------------------------------------------------
(* The import *)

LEMMA FlushKeeps ==
  ASSUME IInv, Flush
  PROVE  IInv'
<1>1. /\ Types /\ phase = "flush" /\ phase' = "restore" /\ dumped = {}
      /\ UNCHANGED <<now, order, pos, listed, seen, last, dumped, entries, cut, since>>
      /\ \/ db' = [db EXCEPT ![Rejoiner] = [k \in Key |-> {}]] /\ leftover' = {} /\ failed' = failed
         \/ db' = db /\ leftover' = leftover /\ failed' = TRUE
  BY DEF Flush, Either, IInv, Types, export
<1>2. /\ db'[Survivor] = db[Survivor] /\ failed' \in BOOLEAN /\ (failed => failed')
      /\ ~failed' => leftover' = {} /\ \A k \in Key : db'[Rejoiner][k] = {}
      /\ \A k \in Key \ leftover' : db'[Rejoiner][k] = {}
      /\ leftover' \in SUBSET Key
  <2>1. failed \in BOOLEAN /\ leftover = Key
    BY <1>1 DEF IInv, Types, Places
  <2>2. CASE db' = [db EXCEPT ![Rejoiner] = [k \in Key |-> {}]] /\ leftover' = {} /\ failed' = failed
    <3>1. db'[Survivor] = db[Survivor] /\ db'[Rejoiner] = [k \in Key |-> {}]
      BY <1>1, <2>2, Replicas DEF Types
    <3>2. \A k \in Key : db'[Rejoiner][k] = {}
      BY <3>1
    <3> QED
      BY <2>1, <2>2, <3>1, <3>2
  <2>3. CASE db' = db /\ leftover' = leftover /\ failed' = TRUE
    BY <2>1, <2>3
  <2> QED
    BY <1>1, <2>2, <2>3
<1>3. Types'
  <2>1. [k \in Key |-> {}] \in [Key -> Held]
    BY NothingHeld
  <2>2. db' \in [Node -> [Key -> Held]]
    BY <1>1, <2>1 DEF Types
  <2> QED
    BY <1>1, <1>2, <2>2 DEF Types
<1>4. Places'
  BY <1>1, <1>2 DEF IInv, Places
<1>5. /\ Still' = Still /\ Items' = Items /\ Visible(Survivor)' = Visible(Survivor)
      /\ \A k : Carried(k)' <=> Carried(k)
  BY <1>1, <1>2 DEF Still, Items, Visible, At, Expired, Carried
<1>6. Deadlines'
  <2>1. \A k \in Key \ leftover' : \A e \in db'[Rejoiner][k] : FALSE
    BY <1>2
  <2>2. \A k, t : NoEarlier(k, t)' <=> NoEarlier(k, t)
    BY <1>2 DEF NoEarlier
  <2>3. Still => \A e \in Items : e.ttl > 0 => NoEarlier(e.key, now + e.ttl)
    BY DEF IInv, Deadlines
  <2> QED
    BY <1>1, <1>5, <2>1, <2>2, <2>3 DEF Deadlines
<1>7. Values'
  <2>1. \A k, v : From(k, v)' <=> From(k, v)
    BY <1>1, <1>2 DEF From
  <2> QED
    BY <1>1, <1>2, <1>5, <2>1 DEF IInv, Values
<1>8. Complete'
  BY <1>1, <1>2, <1>5 DEF IInv, Complete
<1>9. History'
  <2>1. ASSUME ~failed', NEW H, NEW k \in Key, Past(H), Clean(k), Follows(H, k)
        PROVE  Follows(H, k)'
    BY <1>1, <1>2, <1>5, <2>1 DEF Follows
  <2> QED
    BY <1>1, <1>2, <2>1, HistoryKept DEF IInv
<1> QED
  BY <1>3, <1>4, <1>6, <1>7, <1>8, <1>9 DEF IInv

\* The remaining time counts from the rejoiner's present, which is not before the
\* moment it was read.
LEMMA RestoreKeeps ==
  ASSUME IInv, Restore
  PROVE  IInv'
<1>1. /\ Types /\ phase = "restore" /\ dumped = {} /\ now \in Nat
      /\ entries \in Seq(Exported) /\ entries # <<>> /\ entries' = Tail(entries)
      /\ UNCHANGED <<now, order, pos, phase, listed, seen, last, dumped, cut, since>>
  BY DEF Restore, IInv, Types
<1> DEFINE x == Head(entries)
           restored == Entry(x.val, Restored(x.ttl))
<1>2. /\ Items = Items' \cup {x} /\ x \in Exported /\ entries' \in Seq(Exported)
      /\ x.key \in Key /\ x.val \in Val /\ x.ttl \in Int
  <2>1. Items = Items' \cup {x} /\ x \in Exported /\ entries' \in Seq(Exported)
    BY <1>1, ItemsRestored
  <2> QED
    BY <2>1 DEF Exported
<1>3. /\ restored \in Held /\ restored = {[val |-> x.val, exp |-> Restored(x.ttl)]}
      /\ x.ttl <= 0 => Restored(x.ttl) = Never
      /\ ~(x.ttl <= 0) => Restored(x.ttl) = {now + x.ttl} /\ x.ttl > 0
  <2>1. CASE x.ttl <= 0
    BY <1>2, <2>1, Entries DEF Restored, Deadline
  <2>2. CASE ~(x.ttl <= 0)
    <3>1. Restored(x.ttl) = {now + x.ttl} /\ now + x.ttl \in Nat /\ x.ttl > 0
      BY <1>1, <1>2, <2>2 DEF Restored
    <3>2. Restored(x.ttl) \in Deadline
      BY <3>1 DEF Deadline
    <3> QED
      BY <1>2, <2>2, <3>1, <3>2, Entries
  <2> QED
    BY <2>1, <2>2
<1>4. \/ /\ db' = [db EXCEPT ![Rejoiner][x.key] = restored]
         /\ leftover' = leftover \ {x.key} /\ failed' = failed
      \/ db' = db /\ leftover' = leftover /\ failed' = TRUE
  BY DEF Restore, Either
<1> HIDE DEF x, restored
<1>5. /\ db'[Survivor] = db[Survivor] /\ failed' \in BOOLEAN /\ (failed => failed')
      /\ db' \in [Node -> [Key -> Held]]
      /\ \A k \in Key : db'[Rejoiner][k] \in {db[Rejoiner][k], restored}
      /\ \A k \in Key : k # x.key => db'[Rejoiner][k] = db[Rejoiner][k]
      /\ ~failed' => ~failed /\ db'[Rejoiner][x.key] = restored
      /\ leftover' \in SUBSET Key /\ (leftover = {} => leftover' = {})
      /\ \A k \in Key \ leftover' : k \in leftover => db'[Rejoiner][k] = restored /\ k = x.key
  <2>1. failed \in BOOLEAN /\ leftover \in SUBSET Key /\ db \in [Node -> [Key -> Held]]
    BY <1>1 DEF Types
  <2>2. [db EXCEPT ![Rejoiner][x.key] = restored] \in [Node -> [Key -> Held]]
    BY <1>2, <1>3, <2>1
  <2>3. CASE /\ db' = [db EXCEPT ![Rejoiner][x.key] = restored]
             /\ leftover' = leftover \ {x.key} /\ failed' = failed
    <3>1. db'[Survivor] = db[Survivor] /\ db'[Rejoiner] = [db[Rejoiner] EXCEPT ![x.key] = restored]
      BY <2>1, <2>3, Replicas
    <3>2. \A k \in Key : db'[Rejoiner][k] = IF k = x.key THEN restored ELSE db[Rejoiner][k]
      BY <2>1, <3>1, Replicas
    <3>3. leftover' \in SUBSET Key /\ \A k \in Key \ leftover' : k \in leftover => k = x.key
      BY <2>1, <2>3
    <3>4. leftover = {} => leftover' = {}
      BY <2>3
    <3> QED
      BY <1>2, <2>1, <2>2, <2>3, <3>1, <3>2, <3>3, <3>4
  <2>4. CASE db' = db /\ leftover' = leftover /\ failed' = TRUE
    BY <2>1, <2>4
  <2> QED
    BY <1>4, <2>3, <2>4
<1>6. Types' /\ Places'
  <2>1. Types'
    BY <1>1, <1>2, <1>5 DEF Types
  <2> QED
    BY <1>1, <1>5, <2>1 DEF IInv, Places
<1>7. /\ Still' = Still /\ Imported /\ Imported' /\ Visible(Survivor)' = Visible(Survivor)
      /\ \A k : Carried(k) => Carried(k)' \/ k = x.key
      /\ \A k, t : NoEarlier(k, t)' <=> NoEarlier(k, t)
      /\ \A k, v : From(k, v)' <=> From(k, v)
  BY <1>1, <1>2, <1>5 DEF Still, Imported, Visible, At, Expired, Carried, NoEarlier, From
<1>8. Deadlines'
  <2> SUFFICES ASSUME Still
               PROVE  /\ \A e \in Items' : e.ttl > 0 => NoEarlier(e.key, now + e.ttl)
                      /\ \A k \in Key \ leftover' : \A e \in db'[Rejoiner][k] :
                           \A t \in e.exp : NoEarlier(k, t)
    BY <1>1, <1>7 DEF Deadlines
  <2>1. \A e \in Items : e.ttl > 0 => NoEarlier(e.key, now + e.ttl)
    BY DEF IInv, Deadlines
  <2>2. \A k \in Key \ leftover : \A e \in db[Rejoiner][k] : \A t \in e.exp : NoEarlier(k, t)
    BY <1>7 DEF IInv, Deadlines
  <2>3. \A e \in restored : \A t \in e.exp : NoEarlier(x.key, t)
    BY <1>2, <1>3, <2>1 DEF Never
  <2>4. ASSUME NEW k \in Key \ leftover', NEW e \in db'[Rejoiner][k], NEW t \in e.exp
        PROVE  NoEarlier(k, t)
    <3>1. CASE k \notin leftover /\ db'[Rejoiner][k] = db[Rejoiner][k]
      BY <2>2, <2>4, <3>1
    <3>2. CASE k \in leftover \/ db'[Rejoiner][k] # db[Rejoiner][k]
      <4>1. k = x.key /\ db'[Rejoiner][k] = restored
        BY <1>5, <3>2
      <4> QED
        BY <2>3, <2>4, <4>1
    <3> QED
      BY <3>1, <3>2
  <2> QED
    BY <1>2, <2>1, <2>4
<1>9. Values'
  <2> SUFFICES ASSUME Still
               PROVE  /\ \A e \in Items' : From(e.key, e.val)
                      /\ ~failed' => \A k \in Key : \A e \in db'[Rejoiner][k] : From(k, e.val)
    BY <1>1, <1>7 DEF Values
  <2>1. \A e \in Items : From(e.key, e.val)
    BY DEF IInv, Values
  <2>2. ASSUME ~failed', NEW k \in Key, NEW e \in db'[Rejoiner][k]
        PROVE  From(k, e.val)
    <3>1. ~failed /\ \A e1 \in db[Rejoiner][k] : From(k, e1.val)
      BY <1>5, <1>7, <2>2 DEF IInv, Values
    <3>2. CASE k = x.key
      <4>1. e = [val |-> x.val, exp |-> Restored(x.ttl)]
        BY <1>3, <1>5, <2>2, <3>2
      <4> QED
        BY <1>2, <2>1, <3>2, <4>1
    <3>3. CASE k # x.key
      BY <1>5, <2>2, <3>1, <3>3
    <3> QED
      BY <3>2, <3>3
  <2> QED
    BY <1>2, <2>1, <2>2
<1>10. Complete'
  <2> SUFFICES ASSUME Still, ~failed', NEW k \in Visible(Survivor)
               PROVE  Carried(k)' \/ db'[Rejoiner][k] # {}
    BY <1>1, <1>7 DEF Complete
  <2>1. ~failed /\ k \in Key /\ (Carried(k) \/ db[Rejoiner][k] # {})
    BY <1>5, <1>7 DEF IInv, Complete, Visible
  <2>2. CASE k = x.key
    BY <1>3, <1>5, <2>2
  <2>3. CASE k # x.key
    BY <1>5, <1>7, <2>1, <2>3
  <2> QED
    BY <2>2, <2>3
<1>11. History'
  <2>1. ASSUME ~failed', NEW H, NEW k \in Key, Past(H), Clean(k), Follows(H, k)
        PROVE  Follows(H, k)'
    <3>1. /\ db[Survivor][k] = H[pos[Survivor]][k]
          /\ \A e \in Items : e.key = k => e.ttl <= 0 /\ H[cut][k] = Entry(e.val, Never)
          /\ H[cut][k] # {} => Carried(k) \/ db[Rejoiner][k] # {}
          /\ db[Rejoiner][k] \in {{}, H[cut][k]}
      BY <1>1, <2>1 DEF Follows
    <3>2. CASE k = x.key
      <4>1. x.ttl <= 0 /\ H[cut][k] = Entry(x.val, Never)
        BY <1>2, <3>1, <3>2
      <4>2. restored = H[cut][k] /\ restored # {}
        BY <1>3, <4>1 DEF Entry
      <4>3. db'[Rejoiner][k] = H[cut][k] /\ db'[Rejoiner][k] # {}
        BY <1>5, <2>1, <3>2, <4>2
      <4> QED
        BY <1>1, <1>2, <1>5, <3>1, <4>3 DEF Follows
    <3>3. CASE k # x.key
      <4>1. db'[Rejoiner][k] = db[Rejoiner][k] /\ (Carried(k) => Carried(k)')
        BY <1>5, <1>7, <3>3
      <4> QED
        BY <1>1, <1>2, <1>5, <3>1, <4>1 DEF Follows
    <3> QED
      BY <3>2, <3>3
  <2> QED
    BY <1>1, <1>5, <2>1, HistoryKept DEF IInv
<1> QED
  BY <1>6, <1>8, <1>9, <1>10, <1>11 DEF IInv

\* With all of the snapshot restored, the rejoiner is where it was cut.
LEMMA EndImportKeeps ==
  ASSUME IInv, EndImport
  PROVE  IInv'
<1>1. /\ Types /\ phase = "restore" /\ phase' = "done" /\ entries = <<>> /\ dumped = {}
      /\ pos' = [pos EXCEPT ![Rejoiner] = cut]
      /\ UNCHANGED <<now, order, db, failed, listed, seen, last, dumped, entries, cut, since, leftover>>
  BY DEF EndImport, ResumesAt, IInv, Types, export
<1>2. /\ pos'[Survivor] = pos[Survivor] /\ pos'[Rejoiner] = cut /\ pos' \in [Node -> Nat]
      /\ cut <= Len(order)
  BY <1>1, Replicas DEF IInv, Types, Places
<1>3. Types'
  BY <1>1, <1>2 DEF Types
<1>4. Places'
  <2>1. \A n \in Node : pos'[n] <= Len(order)
    BY <1>1, <1>2, Replicas DEF IInv, Types, Places
  <2>2. cut <= pos'[Rejoiner] /\ cut <= pos'[Survivor]
    BY <1>1, <1>2 DEF IInv, Types, Places
  <2>3. ~failed' => leftover' = {}
    BY <1>1 DEF IInv, Places
  <2> QED
    BY <1>1, <2>1, <2>2, <2>3 DEF Places
<1>5. /\ Still' = Still /\ Imported /\ Imported' /\ Items' = Items /\ Items = {}
      /\ Visible(Survivor)' = Visible(Survivor)
      /\ \A k : ~Carried(k) /\ ~Carried(k)'
  BY <1>1, <1>2 DEF Still, Imported, Items, Visible, At, Expired, Carried
<1>6. Deadlines' /\ Values'
  BY <1>1, <1>5 DEF IInv, Deadlines, Values, NoEarlier, From
<1>7. Complete'
  BY <1>1, <1>5 DEF IInv, Complete
<1>8. History'
  <2>1. ASSUME ~failed', NEW H, NEW k \in Key, Past(H), Clean(k), Follows(H, k)
        PROVE  Follows(H, k)'
    <3>1. db[Rejoiner][k] = H[cut][k]
      BY <1>1, <1>5, <2>1 DEF Follows
    <3> QED
      BY <1>1, <1>2, <2>1, <3>1 DEF Follows
  <2> QED
    BY <1>1, <2>1, HistoryKept DEF IInv
<1> QED
  BY <1>3, <1>4, <1>6, <1>7, <1>8 DEF IInv
-----------------------------------------------------------------------------
(* The theorems *)

LEMMA NextKeeps == IInv /\ [Next]_vars => IInv'
<1> SUFFICES ASSUME IInv, [Next]_vars PROVE IInv'
  OBVIOUS
<1>1. CASE UNCHANGED vars
  <2>1. UNCHANGED <<now, order, pos, db, failed, phase, listed, seen, last, dumped, entries, cut, since, leftover>>
    BY <1>1 DEF vars, export
  <2>2. /\ Items' = Items /\ Still' = Still /\ Imported' = Imported
        /\ Visible(Survivor)' = Visible(Survivor)
    BY <2>1 DEF Items, Still, Imported, Visible, At, Expired
  <2>3. Types' /\ Places'
    BY <2>1 DEF IInv, Types, Places
  <2>4. Deadlines' /\ Values'
    BY <2>1, <2>2 DEF IInv, Deadlines, Values, NoEarlier, From
  <2>5. Complete'
    BY <2>1, <2>2 DEF IInv, Complete, InHand, Carried
  <2>6. History'
    <3>1. \A H : \A k \in Key : Follows(H, k) => Follows(H, k)'
      BY <2>1, <2>2 DEF Follows, Carried
    <3> QED
      BY <2>1, <3>1, HistoryKept DEF IInv
  <2> QED
    BY <2>3, <2>4, <2>5, <2>6 DEF IInv
<1>2. CASE Tick
  BY <1>2, TickKeeps
<1>3. CASE \E c \in Command : Submit(c)
  BY <1>3, SubmitKeeps
<1>4. CASE \E n \in Node : Apply(n)
  BY <1>4, ApplyKeeps
<1>5. CASE StartExport \/ ScanFails \/ Pttl \/ EndExport
  BY <1>5, StartExportKeeps, ScanFailsKeeps, PttlKeeps, EndExportKeeps
<1>6. CASE Flush \/ Restore \/ EndImport
  BY <1>6, FlushKeeps, RestoreKeeps, EndImportKeeps
<1>7. CASE \E batch \in SUBSET Key, zero \in BOOLEAN : Scan(batch, zero)
  BY <1>7, ScanKeeps
<1>8. CASE \E k \in Key : Dump(k)
  BY <1>8, DumpKeeps
<1> QED
  BY <1>1, <1>2, <1>3, <1>4, <1>5, <1>6, <1>7, <1>8 DEF Next

\* Whatever the engines list, drop, lose or fail to do, and whenever: the deadlines,
\* the values and the completeness of the snapshot, and the history that the keys
\* without a deadline share, are kept by every step of apply, export_snapshot and
\* import_snapshot.
THEOREM Invariance == Spec => []IInv
<1>1. Init => IInv
  BY InitIInv
<1>2. IInv /\ [Next]_vars => IInv'
  BY NextKeeps
<1> QED
  BY <1>1, <1>2, PTL DEF Spec

\* A key never holds two entries, nor an entry two deadlines, no replica applies what
\* was not delivered, and no PTTL that is exported is below -2.
THEOREM TypeCorrect == Spec => []TypeOK
<1>1. IInv => TypeOK
  <2> SUFFICES ASSUME IInv PROVE TypeOK
    OBVIOUS
  <2>1. Types /\ Places
    BY DEF IInv
  <2>2. pos \in [Node -> 0 .. Len(order)]
    BY <2>1 DEF Types, Places
  <2>3. ASSUME NEW d \in Deadline PROVE d \subseteq Nat /\ Cardinality(d) <= 1
    <3>1. CASE d = {}
      BY <3>1, FS_EmptySet
    <3>2. CASE d # {}
      <4>1. PICK t \in Nat : d = {t}
        BY <3>2 DEF Deadline, Never
      <4>2. Cardinality(d) = 1
        BY <4>1, FS_Singleton
      <4> QED
        BY <4>1, <4>2
    <3> QED
      BY <3>1, <3>2
  <2>4. ASSUME NEW n \in Node, NEW k \in Key
        PROVE  /\ Cardinality(db[n][k]) <= 1
               /\ \A e \in db[n][k] : e.val \in Val /\ e.exp \subseteq Nat /\ Cardinality(e.exp) <= 1
    <3>1. \A e \in db[n][k] : db[n][k] = {e} /\ e.val \in Val /\ e.exp \in Deadline
      BY <2>1, Times
    <3>2. Cardinality(db[n][k]) <= 1
      <4>1. CASE db[n][k] = {}
        BY <4>1, FS_EmptySet
      <4>2. CASE db[n][k] # {}
        BY <3>1, <4>2, FS_Singleton
      <4> QED
        BY <4>1, <4>2
    <3> QED
      BY <2>3, <3>1, <3>2
  <2>5. \A i \in DOMAIN entries : entries[i].ttl >= -2
    <3>1. \A i \in DOMAIN entries : entries[i] \in Exported
      BY <2>1 DEF Types
    <3> QED
      BY <3>1 DEF Exported
  <2>6. /\ now \in Nat /\ since \in 0 .. now /\ leftover \subseteq Key /\ failed \in BOOLEAN /\ listed \subseteq seen /\ seen \subseteq Key
        /\ phase \in {"idle", "scan", "pttl", "flush", "restore", "done"}
    BY <2>1 DEF Types
  <2> QED
    BY <2>2, <2>4, <2>5, <2>6 DEF TypeOK
<1> QED
  BY <1>1, Invariance, PTL

\* export_snapshot followed by import_snapshot transfers everything: unless a command
\* to an engine failed, what the survivor still holds the rejoiner holds, and nothing
\* but what the survivor held when the snapshot was cut, for any batches of SCAN and
\* any keys that expire on the way.
THEOREM SnapshotsAreFull == Spec => []SnapshotIsFull
<1>1. IInv => SnapshotIsFull
  <2> SUFFICES ASSUME IInv, JustImported, ~failed, NEW k \in Key
               PROVE  /\ k \in Visible(Survivor) => k \in Visible(Rejoiner)
                      /\ \A e \in db[Rejoiner][k] : From(k, e.val)
    BY DEF SnapshotIsFull, From
  <2>1. /\ Types /\ phase = "done" /\ Still /\ Imported /\ ~Carried(k) /\ now \in Nat
        /\ k \notin leftover
    BY DEF IInv, Types, Places, JustImported, Still, Imported, Carried, Items
  <2>2. \A e \in db[Rejoiner][k] : From(k, e.val)
    BY <2>1 DEF IInv, Values
  <2>3. ASSUME k \in Visible(Survivor)
        PROVE  k \in Visible(Rejoiner)
    <3>1. PICK e \in db[Rejoiner][k] : TRUE
      BY <2>1, <2>3 DEF IInv, Complete
    <3>2. PICK s \in db[Survivor][k] : ~Expired(s)
      BY <2>1, <2>3, Replicas, AllOrNothing
    <3>3. ASSUME NEW t \in e.exp
          PROVE  ~(t < now)
      <4>1. NoEarlier(k, t)
        BY <2>1, <3>3 DEF IInv, Deadlines
      <4>2. PICK u \in s.exp : u <= t
        BY <4>1 DEF NoEarlier
      <4>3. t \in Nat /\ u \in Nat /\ ~(u < now)
        BY <2>1, <3>2, Replicas, Times DEF Expired
      <4> QED
        BY <2>1, <4>2, <4>3
    <3>4. ~Expired(e)
      BY <3>3 DEF Expired
    <3> QED
      BY <2>1, <3>4, Replicas, AllOrNothing
  <2> QED
    BY <2>2, <2>3
<1> QED
  BY <1>1, Invariance, PTL

\* Whichever commands fail, no key that the import delivered expires before it does
\* at the survivor: a PTTL is read before the RESTORE that counts from it.
THEOREM NothingExpiresEarlier == Spec => []NeverExpiresEarlier
<1>1. IInv => NeverExpiresEarlier
  <2> SUFFICES ASSUME IInv, JustImported, NEW k \in Key \ leftover,
                      NEW e \in db[Rejoiner][k], NEW s \in db[Survivor][k], NEW t \in e.exp
               PROVE  \E u \in s.exp : u <= t
    BY DEF NeverExpiresEarlier
  <2>1. Still /\ Imported
    BY DEF JustImported, Still, Imported
  <2>2. NoEarlier(k, t)
    BY <2>1 DEF IInv, Deadlines
  <2> QED
    BY <2>2 DEF NoEarlier
<1> QED
  BY <1>1, Invariance, PTL

\* The claim of store.rs for the keys that no EXPIRE gives a deadline, for every
\* stream and every cut: two engines that applied the same stream answer the same.
THEOREM SameStreamsSameStates == Spec => []SameStreamSameState
<1>1. IInv => SameStreamSameState
  <2> SUFFICES ASSUME IInv, phase = "done", ~failed,
                      \A n \in {Survivor, Rejoiner} : pos[n] = Len(order), NEW k \in Key,
                      \A i \in DOMAIN order : ~(order[i].name = "EXPIRE" /\ order[i].key = k)
               PROVE  At(Survivor, k) = At(Rejoiner, k)
    BY DEF SameStreamSameState
  <2>1. Types /\ Clean(k)
    BY DEF IInv, Types, Clean
  <2>2. PICK H : Past(H) /\ Follows(H, k)
    BY <2>1 DEF IInv, History
  <2>3. H[Len(order)][k] \in Plain
    <3>1. H \in [0 .. Len(order) -> [Key -> Plain]] /\ Len(order) \in 0 .. Len(order)
      BY <2>1, <2>2 DEF Past, Types
    <3> QED
      BY <3>1
  <2>4. db[Survivor][k] = H[Len(order)][k] /\ db[Rejoiner][k] = H[Len(order)][k]
    BY <2>2 DEF Follows
  <2> QED
    BY <2>3, <2>4, Replicas, PlainIsThere
<1> QED
  BY <1>1, Invariance, PTL
=============================================================================
