------------------------------ MODULE MemStore ------------------------------
(***************************************************************************)
(* The in-memory store of a replica (store.rs, MemStore): what every write  *)
(* command does to the keyspace and what it replies.  Values are strings,   *)
(* hashes and sets.  A string is a number or some text that is none; the    *)
(* bytes of a text are not told apart.  A command with too few operands     *)
(* changes nothing and is left out, with three exceptions: an SADD without  *)
(* members, an SREM or HDEL that names no element, and an EXPIRE without a  *)
(* time, which is one whose time is no integer.                             *)
(***************************************************************************)
EXTENDS Integers, FiniteSets, FiniteSetsExt

CONSTANTS
  Key,       \* the keys
  Field,     \* the fields of hashes
  Member,    \* the members of sets: numbers, for their iteration order
  MaxInt,    \* i64::MAX
  MaxFloat   \* f64::MAX

ASSUME StoreAssumption ==
  /\ Member \subseteq Int
  /\ MaxInt \in Nat /\ MaxFloat \in Nat /\ MaxInt < MaxFloat

MinInt == -(MaxInt + 1)
I64 == MinInt .. MaxInt
F64 == -MaxFloat .. MaxFloat

Num(n) == [num |-> TRUE, n |-> n]
Text == [num |-> FALSE, n |-> 0]
Content == {Text} \cup {Num(n) : n \in F64}

\* as_int, and parse_f64 of effect.rs.
IsInt(c) == c.num /\ c.n \in I64
IsFloat(c) == c.num /\ c.n \in F64

Absent == [type |-> "none"]
Str(c) == [type |-> "string", str |-> c]
Hash(h) == [type |-> "hash", hash |-> h]
Set(s) == [type |-> "set", set |-> s]

Value ==
  {Absent} \cup {Str(c) : c \in Content}
    \cup {Hash(h) : h \in UNION {[fs -> Content] : fs \in SUBSET Field}}
    \cup {Set(s) : s \in {s \in SUBSET Member : IsFiniteSet(s)}}

\* data is the map of values; ttl[k] is empty or holds the recorded TTL.
Ttl == {{}} \cup {{n} : n \in I64}
Store == [data : [Key -> Value], ttl : [Key -> Ttl]]

EmptyStore == [data |-> [k \in Key |-> Absent], ttl |-> [k \in Key |-> {}]]

Has(st, k) == st.data[k] # Absent
IsA(st, k, type) == st.data[k].type = type
Put(st, k, v) == [st EXCEPT !.data[k] = v]
ClearTtl(st, k) == [st EXCEPT !.ttl[k] = {}]

\* What a command leaves behind, and its reply.
Outcome(st, reply) == [st |-> st, reply |-> reply]

Ok == [kind |-> "ok"]
Nil == [kind |-> "nil"]
Err == [kind |-> "error"]
Integer(n) == [kind |-> "integer", n |-> n]
Bulk(c) == [kind |-> "bulk", c |-> c]
Members(s) == [kind |-> "members", set |-> s]

-----------------------------------------------------------------------------
(* Strings *)

ApplySet(st, k, c) == Outcome(ClearTtl(Put(st, k, Str(c)), k), Ok)

ApplySetnx(st, k, c) ==
  IF Has(st, k) THEN Outcome(st, Integer(0)) ELSE Outcome(Put(st, k, Str(c)), Integer(1))

\* GETSET stores the new value before it looks at the type of the old one; on a
\* wrong type it reports the error and keeps the TTL.
ApplyGetset(st, k, c) ==
  LET new == Put(st, k, Str(c))
  IN  CASE IsA(st, k, "string") -> Outcome(ClearTtl(new, k), Bulk(st.data[k].str))
        [] ~Has(st, k)          -> Outcome(ClearTtl(new, k), Nil)
        [] OTHER                -> Outcome(new, Err)

\* The operand is a text that no string becomes a number by.
ApplyAppend(st, k) ==
  IF Has(st, k) /\ ~IsA(st, k, "string") THEN Outcome(st, Err)
  ELSE Outcome(Put(st, k, Str(Text)), Ok)

\* Negation of an i64 as the release profile compiles it: it wraps.
Negated(n) == IF n = MinInt THEN n ELSE -n

\* Slips: the sum is not checked; it saturates.
AddUnchecked(cur, delta) == {cur + delta}
AddSaturating(cur, delta) == {Max({MinInt, Min({MaxInt, cur + delta})})}

\* checked_add: the sum, or nothing.
CheckedAdd(cur, delta) == {cur + delta} \cap I64

\* apply_incr.  down: DECRBY instead of INCRBY; INCR and DECR are by 1.
ApplyIncr(st, k, by, down) ==
  LET old == IF Has(st, k) THEN st.data[k] ELSE Str(Num(0))
      delta == IF down THEN Negated(by.n) ELSE by.n
      sum == CheckedAdd(old.str.n, delta)
  IN  IF IsInt(by) /\ old.type = "string" /\ IsInt(old.str) /\ sum # {}
      THEN Outcome(Put(st, k, Str(Num(Min(sum)))), Integer(Min(sum)))
      ELSE Outcome(st, Err)

-----------------------------------------------------------------------------
(* Keys *)

ApplyDel(st, ks) ==
  Outcome([data |-> [k \in Key |-> IF k \in ks THEN Absent ELSE st.data[k]],
           ttl  |-> [k \in Key |-> IF k \in ks THEN {} ELSE st.ttl[k]]],
          Integer(Cardinality({k \in ks : Has(st, k)})))

\* A TTL that is no integer is recorded as 0; none is ever acted upon.
ApplyExpire(st, k, c) ==
  IF Has(st, k)
  THEN Outcome([st EXCEPT !.ttl[k] = {IF IsInt(c) THEN c.n ELSE 0}], Integer(1))
  ELSE Outcome(st, Integer(0))

ApplyPersist(st, k) ==
  Outcome(ClearTtl(st, k), Integer(IF st.ttl[k] = {} THEN 0 ELSE 1))

\* The value moves with its TTL; what dst held is gone, its TTL included.
ApplyRename(st, src, dst) ==
  IF Has(st, src)
  THEN Outcome([data |-> [st.data EXCEPT ![src] = Absent, ![dst] = st.data[src]],
                ttl  |-> [st.ttl EXCEPT ![src] = {}, ![dst] = st.ttl[src]]], Ok)
  ELSE Outcome(st, Err)

ApplyFlush(st) == Outcome(EmptyStore, Ok)

-----------------------------------------------------------------------------
(* Hashes and sets: a missing key is created on the way, a wrong type is an
   error, and a removal that leaves nothing removes the key from data. *)

HashAt(st, k) == IF Has(st, k) THEN st.data[k].hash ELSE [f \in {} |-> Text]
SetAt(st, k) == IF Has(st, k) THEN st.data[k].set ELSE {}
WrongType(st, k, type) == Has(st, k) /\ ~IsA(st, k, type)

\* apply_hset: pairs is the last value given for each field.
ApplyHset(st, k, pairs) ==
  IF WrongType(st, k, "hash") THEN Outcome(st, Err)
  ELSE LET h == HashAt(st, k)
       IN  Outcome(Put(st, k, Hash([f \in DOMAIN h \cup DOMAIN pairs |->
                                      IF f \in DOMAIN pairs THEN pairs[f] ELSE h[f]])),
                   Integer(Cardinality(DOMAIN pairs \ DOMAIN h)))

ApplyHsetnx(st, k, f, c) ==
  IF ~WrongType(st, k, "hash") /\ f \in DOMAIN HashAt(st, k)
  THEN Outcome(st, Integer(0))
  ELSE ApplyHset(st, k, [g \in {f} |-> c])

\* Slip: the emptied hash stays.
HdelKeepsEmpty(st, k, fs) ==
  IF WrongType(st, k, "hash") THEN Outcome(st, Err)
  ELSE LET h == HashAt(st, k)
       IN  Outcome(IF Has(st, k) THEN Put(st, k, Hash([f \in DOMAIN h \ fs |-> h[f]])) ELSE st,
                   Integer(Cardinality(DOMAIN h \cap fs)))

ApplyHdel(st, k, fs) ==
  IF WrongType(st, k, "hash") THEN Outcome(st, Err)
  ELSE LET h == HashAt(st, k)
           left == [f \in DOMAIN h \ fs |-> h[f]]
       IN  Outcome(Put(st, k, IF DOMAIN left = {} THEN Absent ELSE Hash(left)),
                   Integer(Cardinality(DOMAIN h \cap fs)))

\* Add to a field of a hash, missing ones counting as 0.
AddToField(st, k, f, by) ==
  LET h == HashAt(st, k)
      old == IF f \in DOMAIN h THEN h[f] ELSE Num(0)
      sum == CheckedAdd(old.n, by.n)
  IN  IF IsInt(old) /\ sum # {}
      THEN Outcome(ApplyHset(st, k, [g \in {f} |-> Num(Min(sum))]).st, Integer(Min(sum)))
      ELSE Outcome(st, Err)

\* Slip: the key is created before the operand is parsed.
HincrbyCreatesFirst(st, k, f, by) ==
  IF WrongType(st, k, "hash") THEN Outcome(st, Err)
  ELSE IF IsInt(by) THEN AddToField(st, k, f, by)
  ELSE Outcome(Put(st, k, Hash(HashAt(st, k))), Err)

\* apply_hincrby; the operand is parsed before the key is created.
ApplyHincrby(st, k, f, by) ==
  IF ~IsInt(by) \/ WrongType(st, k, "hash") THEN Outcome(st, Err)
  ELSE AddToField(st, k, f, by)

\* An SADD that names no member still creates the key: an empty set.
ApplySadd(st, k, ms) ==
  IF WrongType(st, k, "set") THEN Outcome(st, Err)
  ELSE Outcome(Put(st, k, Set(SetAt(st, k) \cup ms)), Integer(Cardinality(ms \ SetAt(st, k))))

ApplySrem(st, k, ms) ==
  IF WrongType(st, k, "set") THEN Outcome(st, Err)
  ELSE LET left == SetAt(st, k) \ ms
       IN  Outcome(Put(st, k, IF left = {} THEN Absent ELSE Set(left)),
                   Integer(Cardinality(SetAt(st, k) \cap ms)))

-----------------------------------------------------------------------------
\* The commands that execute hands to the store: the operands it takes from the
\* arguments.  An HSET has at least one pair; the other lists may be empty.
\* MemStore implements no other writes.
IsCommand(c) ==
  /\ c.name \in {"SET", "SETNX", "GETSET", "INCRBY", "DECRBY", "EXPIRE"} =>
       c.key \in Key /\ c.val \in Content
  /\ c.name \in {"APPEND", "PERSIST"} => c.key \in Key
  /\ c.name = "RENAME" => c.key \in Key /\ c.to \in Key
  /\ c.name = "DEL" => c.keys \subseteq Key
  /\ c.name \in {"HSETNX", "HINCRBY"} => c.key \in Key /\ c.field \in Field /\ c.val \in Content
  /\ c.name = "HSET" =>
       c.key \in Key /\ \E fs \in (SUBSET Field) \ {{}} : c.pairs \in [fs -> Content]
  /\ c.name = "HDEL" => c.key \in Key
  /\ c.name \in {"SADD", "SREM"} =>
       c.key \in Key /\ c.members \in SUBSET Member /\ IsFiniteSet(c.members)

\* The keys that a command may change.
KeysOf(c) ==
  CASE c.name = "DEL"    -> c.keys
    [] c.name = "RENAME" -> {c.key, c.to}
    [] c.name = "FLUSH"  -> Key
    [] OTHER             -> {c.key}

\* MemStore::apply: the dispatch on the command's name.  A write MemStore does
\* not implement is an error that changes nothing.
Apply(st, c) ==
  CASE c.name = "SET"     -> ApplySet(st, c.key, c.val)
    [] c.name = "SETNX"   -> ApplySetnx(st, c.key, c.val)
    [] c.name = "GETSET"  -> ApplyGetset(st, c.key, c.val)
    [] c.name = "APPEND"  -> ApplyAppend(st, c.key)
    [] c.name = "INCRBY"  -> ApplyIncr(st, c.key, c.val, FALSE)
    [] c.name = "DECRBY"  -> ApplyIncr(st, c.key, c.val, TRUE)
    [] c.name = "DEL"     -> ApplyDel(st, c.keys)
    [] c.name = "EXPIRE"  -> ApplyExpire(st, c.key, c.val)
    [] c.name = "PERSIST" -> ApplyPersist(st, c.key)
    [] c.name = "RENAME"  -> ApplyRename(st, c.key, c.to)
    [] c.name = "FLUSH"   -> ApplyFlush(st)
    [] c.name = "HSET"    -> ApplyHset(st, c.key, c.pairs)
    [] c.name = "HSETNX"  -> ApplyHsetnx(st, c.key, c.field, c.val)
    [] c.name = "HDEL"    -> ApplyHdel(st, c.key, c.fields)
    [] c.name = "HINCRBY" -> ApplyHincrby(st, c.key, c.field, c.val)
    [] c.name = "SADD"    -> ApplySadd(st, c.key, c.members)
    [] c.name = "SREM"    -> ApplySrem(st, c.key, c.members)
    [] OTHER              -> Outcome(st, Err)
==============================================================================
