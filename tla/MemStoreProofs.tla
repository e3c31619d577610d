--------------------------- MODULE MemStoreProofs ---------------------------
(***************************************************************************)
(* What every command of MemStore does, whatever the keys, fields, members  *)
(* and number widths: it keeps a store well typed and free of empty hashes, *)
(* leaves alone the data of the keys it does not name, makes no empty set   *)
(* unless it is an SADD without members, and changes nothing when it        *)
(* answers with an error.  Hence the properties of MemStoreStream, for      *)
(* streams of any length.                                                   *)
(***************************************************************************)
EXTENDS MemStoreStream, FiniteSetTheorems, TLAPS

\* A value that is in use: a hash has something in it.
SoundValue == {v \in Value : v.type = "hash" => DOMAIN v.hash # {}}

SoundStore == {st \in Store : \A k \in Key : st.data[k] \in SoundValue}

\* What became of a store st: it is sound, and the keys outside ks hold what
\* they held.
Becomes(st, new, ks) ==
  new \in SoundStore /\ \A j \in Key \ ks : new.data[j] = st.data[j]

-----------------------------------------------------------------------------
(* Values *)

LEMMA Contents ==
  /\ Text \in Content /\ ~Text.num
  /\ \A n \in F64 : Num(n) \in Content /\ Num(n).num /\ Num(n).n = n
  /\ \A n \in I64 : n \in F64 /\ n \in Int
  /\ \A c \in Content : c.num => c.n \in F64 /\ c = Num(c.n)
<1>1. \A n \in I64 : n \in F64 /\ n \in Int
  BY StoreAssumption DEF F64, I64, MinInt
<1>2. /\ Text \in Content /\ ~Text.num
      /\ \A n \in F64 : Num(n) \in Content /\ Num(n).num /\ Num(n).n = n
  BY DEF Text, Num, Content
<1>3. \A c \in Content : c.num => c.n \in F64 /\ c = Num(c.n)
  BY DEF Text, Num, Content
<1> QED
  BY <1>1, <1>2, <1>3

LEMMA Kinds ==
  ASSUME NEW v \in Value
  PROVE  \/ v = Absent /\ v.type = "none"
         \/ v.type = "string" /\ v.str \in Content
         \/ v.type = "hash" /\ \E fs \in SUBSET Field : v.hash \in [fs -> Content]
         \/ v.type = "set" /\ v.set \in SUBSET Member /\ IsFiniteSet(v.set) /\ v = Set(v.set)
BY DEF Value, Absent, Str, Hash, Set

LEMMA SoundValues ==
  /\ Absent \in SoundValue
  /\ \A c \in Content : Str(c) \in SoundValue
  /\ \A fs \in (SUBSET Field) \ {{}} : \A h \in [fs -> Content] : Hash(h) \in SoundValue
  /\ \A s \in SUBSET Member : IsFiniteSet(s) => Set(s) \in SoundValue
<1>1. Absent \in SoundValue
  BY DEF SoundValue, Value, Absent
<1>2. \A c \in Content : Str(c) \in SoundValue
  BY DEF SoundValue, Value, Str
<1>3. ASSUME NEW fs \in (SUBSET Field) \ {{}}, NEW h \in [fs -> Content]
      PROVE  Hash(h) \in SoundValue
  <2>1. h \in UNION {[gs -> Content] : gs \in SUBSET Field}
    OBVIOUS
  <2>2. Hash(h) \in Value
    BY <2>1 DEF Value
  <2>3. DOMAIN h # {}
    OBVIOUS
  <2> QED
    BY <2>2, <2>3 DEF SoundValue, Hash
<1>4. \A s \in SUBSET Member : IsFiniteSet(s) => Set(s) \in SoundValue
  BY DEF SoundValue, Value, Set
<1> QED
  BY <1>1, <1>2, <1>3, <1>4

\* Replies of different kinds differ.
LEMMA Replies ==
  /\ Ok # Err /\ Nil # Err
  /\ \A n : Integer(n) # Err
  /\ \A c : Bulk(c) # Err
  /\ \A s : Members(s) # Err
BY DEF Ok, Nil, Err, Integer, Bulk, Members

-----------------------------------------------------------------------------
(* Stores *)

LEMMA StoreShape ==
  ASSUME NEW st \in SoundStore
  PROVE  /\ st \in Store /\ st.data \in [Key -> Value] /\ st.ttl \in [Key -> Ttl]
         /\ \A k \in Key : st.data[k] \in SoundValue
BY DEF SoundStore, Store

LEMMA MakeStore ==
  ASSUME NEW data \in [Key -> SoundValue], NEW ttl \in [Key -> Ttl]
  PROVE  [data |-> data, ttl |-> ttl] \in SoundStore
<1>1. data \in [Key -> Value]
  BY DEF SoundValue
<1> QED
  BY <1>1 DEF SoundStore, Store

LEMMA EmptyIsSound == EmptyStore \in SoundStore
BY MakeStore, SoundValues DEF EmptyStore, Ttl

LEMMA PutSound ==
  ASSUME NEW st \in SoundStore, NEW k \in Key, NEW v \in SoundValue
  PROVE  /\ Becomes(st, Put(st, k, v), {k})
         /\ Put(st, k, v).data[k] = v /\ Put(st, k, v).ttl = st.ttl
<1>1. Put(st, k, v) = [data |-> [st.data EXCEPT ![k] = v], ttl |-> st.ttl]
  BY StoreShape DEF Put, Store
<1>2. [st.data EXCEPT ![k] = v] \in [Key -> SoundValue]
  BY StoreShape
<1>3. Put(st, k, v) \in SoundStore
  BY <1>1, <1>2, StoreShape, MakeStore
<1> QED
  BY <1>1, <1>3, StoreShape DEF Becomes

LEMMA TtlSound ==
  ASSUME NEW st \in SoundStore, NEW k \in Key, NEW t \in Ttl
  PROVE  LET new == [st EXCEPT !.ttl[k] = t]
         IN  new \in SoundStore /\ new.data = st.data
<1> DEFINE new == [st EXCEPT !.ttl[k] = t]
<1>1. new = [data |-> st.data, ttl |-> [st.ttl EXCEPT ![k] = t]]
  BY StoreShape DEF Store
<1>2. st.data \in [Key -> SoundValue] /\ [st.ttl EXCEPT ![k] = t] \in [Key -> Ttl]
  BY StoreShape
<1> QED
  BY <1>1, <1>2, MakeStore

LEMMA ClearSound ==
  ASSUME NEW st \in SoundStore, NEW k \in Key
  PROVE  ClearTtl(st, k) \in SoundStore /\ ClearTtl(st, k).data = st.data
BY TtlSound DEF ClearTtl, Ttl

-----------------------------------------------------------------------------
(* Commands on strings and keys *)

\* What every command but GETSET does: it touches the data of ks at most, and
\* nothing when it answers with an error.
Good(st, out, ks) ==
  /\ Becomes(st, out.st, ks)
  /\ out.reply = Err => out.st = st

LEMMA NothingDone ==
  ASSUME NEW st \in SoundStore, NEW reply, NEW ks
  PROVE  Good(st, Outcome(st, reply), ks)
BY DEF Good, Becomes, Outcome

LEMMA Written ==
  ASSUME NEW st \in SoundStore, NEW k \in Key, NEW v \in SoundValue, NEW reply, reply # Err
  PROVE  Good(st, Outcome(Put(st, k, v), reply), {k})
BY PutSound DEF Good, Outcome

LEMMA Lookup ==
  ASSUME NEW st \in SoundStore, NEW k \in Key
  PROVE  /\ Has(st, k) <=> st.data[k].type # "none"
         /\ IsA(st, k, "string") => Has(st, k) /\ st.data[k].str \in Content
BY StoreShape, Kinds DEF Has, IsA, Absent

LEMMA SetGood ==
  ASSUME NEW st \in SoundStore, NEW k \in Key, NEW c \in Content
  PROVE  /\ Good(st, ApplySet(st, k, c), {k})
         /\ ApplySet(st, k, c).st.data = Put(st, k, Str(c)).data
         /\ ApplySet(st, k, c).reply = Ok
<1>1. Becomes(st, Put(st, k, Str(c)), {k})
  BY PutSound, SoundValues
<1> QED
  BY <1>1, ClearSound, Replies DEF Becomes, Good, ApplySet, Outcome

LEMMA SetnxGood ==
  ASSUME NEW st \in SoundStore, NEW k \in Key, NEW c \in Content
  PROVE  Good(st, ApplySetnx(st, k, c), {k})
BY NothingDone, Written, SoundValues, Replies DEF ApplySetnx

LEMMA GetsetBecomes ==
  ASSUME NEW st \in SoundStore, NEW k \in Key, NEW c \in Content
  PROVE  Becomes(st, ApplyGetset(st, k, c).st, {k})
<1>1. Becomes(st, Put(st, k, Str(c)), {k})
  BY PutSound, SoundValues
<1>2. Becomes(st, ClearTtl(Put(st, k, Str(c)), k), {k})
  BY <1>1, ClearSound DEF Becomes
<1> QED
  BY <1>1, <1>2 DEF ApplyGetset, Outcome

LEMMA AppendGood ==
  ASSUME NEW st \in SoundStore, NEW k \in Key
  PROVE  Good(st, ApplyAppend(st, k), {k})
BY NothingDone, Written, SoundValues, Contents, Replies DEF ApplyAppend

\* checked_add returns the exact sum or nothing.
LEMMA SumIsExact ==
  ASSUME NEW cur \in Int, NEW delta \in Int, CheckedAdd(cur, delta) # {}
  PROVE  cur + delta \in I64 /\ Min(CheckedAdd(cur, delta)) = cur + delta
<1>1. cur + delta \in I64 /\ CheckedAdd(cur, delta) = {cur + delta}
  BY DEF CheckedAdd
<1>2. Min({cur + delta}) = cur + delta
  BY DEF Min
<1> QED
  BY <1>1, <1>2

\* INCRBY and DECRBY: an error changes nothing, and otherwise the key holds the
\* sum of the operand, negated if it is to be subtracted, and what it held.
LEMMA IncrGood ==
  ASSUME NEW st \in SoundStore, NEW k \in Key, NEW by \in Content, NEW down \in BOOLEAN
  PROVE  LET out == ApplyIncr(st, k, by, down)
             before == IF Has(st, k) THEN st.data[k].str.n ELSE 0
             delta == IF down THEN Negated(by.n) ELSE by.n
         IN  /\ Good(st, out, {k})
             /\ out.reply # Err =>
                  /\ by.n \in I64 /\ before \in I64
                  /\ out.reply.n = before + delta
                  /\ out.st.data[k] = Str(Num(out.reply.n))
<1> DEFINE old == IF Has(st, k) THEN st.data[k] ELSE Str(Num(0))
           before == IF Has(st, k) THEN st.data[k].str.n ELSE 0
           delta == IF down THEN Negated(by.n) ELSE by.n
           out == ApplyIncr(st, k, by, down)
<1>1. old.str.n = before
  BY DEF Str, Num
<1>2. CASE IsInt(by) /\ old.type = "string" /\ IsInt(old.str) /\ CheckedAdd(before, delta) # {}
  <2>1. by.n \in I64 /\ before \in I64
    BY <1>1, <1>2 DEF IsInt
  <2>2. before \in Int /\ delta \in Int
    BY <2>1, Contents DEF Negated
  <2> HIDE DEF before, delta
  <2>3. before + delta \in I64 /\ Min(CheckedAdd(before, delta)) = before + delta
    BY <1>2, <2>2, SumIsExact
  <2>4. out = Outcome(Put(st, k, Str(Num(before + delta))), Integer(before + delta))
    BY <1>1, <1>2, <2>3 DEF ApplyIncr, before, delta
  <2>5. Str(Num(before + delta)) \in SoundValue
    BY <2>3, Contents, SoundValues
  <2>6. Good(st, out, {k})
    BY <2>4, <2>5, Written, Replies
  <2>7. out.reply.n = before + delta /\ out.st = Put(st, k, Str(Num(before + delta)))
    BY <2>4 DEF Outcome, Integer
  <2>8. out.st.data[k] = Str(Num(before + delta))
    <3> DEFINE v == Str(Num(before + delta))
    <3>1. v \in SoundValue
      BY <2>5
    <3> HIDE DEF v
    <3>2. Put(st, k, v).data[k] = v
      BY <3>1, PutSound
    <3> QED
      BY <2>7, <3>2 DEF v
  <2> QED
    BY <2>1, <2>6, <2>7, <2>8 DEF before, delta
<1>3. CASE ~(IsInt(by) /\ old.type = "string" /\ IsInt(old.str) /\ CheckedAdd(before, delta) # {})
  <2>1. out = Outcome(st, Err)
    BY <1>1, <1>3 DEF ApplyIncr
  <2> QED
    BY <2>1, NothingDone DEF Outcome
<1> QED
  BY <1>2, <1>3

LEMMA DelGood ==
  ASSUME NEW st \in SoundStore, NEW ks \in SUBSET Key
  PROVE  Good(st, ApplyDel(st, ks), ks)
<1> DEFINE data == [k \in Key |-> IF k \in ks THEN Absent ELSE st.data[k]]
           ttl == [k \in Key |-> IF k \in ks THEN {} ELSE st.ttl[k]]
<1>1. data \in [Key -> SoundValue] /\ ttl \in [Key -> Ttl]
  BY StoreShape, SoundValues DEF Ttl
<1>2. [data |-> data, ttl |-> ttl] \in SoundStore
  BY <1>1, MakeStore
<1> QED
  BY <1>2, Replies DEF Good, Becomes, ApplyDel, Outcome

LEMMA ExpireGood ==
  ASSUME NEW st \in SoundStore, NEW k \in Key, NEW c \in Content
  PROVE  Good(st, ApplyExpire(st, k, c), {k})
<1> DEFINE t == {IF IsInt(c) THEN c.n ELSE 0}
<1>1. 0 \in I64
  BY StoreAssumption DEF I64, MinInt
<1>2. t \in Ttl
  BY <1>1 DEF Ttl, IsInt
<1> HIDE DEF t
<1>3. [st EXCEPT !.ttl[k] = t] \in SoundStore /\ [st EXCEPT !.ttl[k] = t].data = st.data
  BY <1>2, TtlSound
<1>4. ApplyExpire(st, k, c) = IF Has(st, k) THEN Outcome([st EXCEPT !.ttl[k] = t], Integer(1))
                              ELSE Outcome(st, Integer(0))
  BY DEF ApplyExpire, t
<1> QED
  BY <1>3, <1>4, Replies DEF Good, Becomes, Outcome

LEMMA PersistGood ==
  ASSUME NEW st \in SoundStore, NEW k \in Key
  PROVE  Good(st, ApplyPersist(st, k), {k})
BY ClearSound, Replies DEF Good, Becomes, ApplyPersist, Outcome

LEMMA RenameGood ==
  ASSUME NEW st \in SoundStore, NEW src \in Key, NEW dst \in Key
  PROVE  Good(st, ApplyRename(st, src, dst), {src, dst})
<1> DEFINE data == [st.data EXCEPT ![src] = Absent, ![dst] = st.data[src]]
           ttl == [st.ttl EXCEPT ![src] = {}, ![dst] = st.ttl[src]]
<1>1. data \in [Key -> SoundValue] /\ ttl \in [Key -> Ttl]
  BY StoreShape, SoundValues DEF Ttl
<1>2. \A j \in Key \ {src, dst} : data[j] = st.data[j]
  BY StoreShape
<1>3. [data |-> data, ttl |-> ttl] \in SoundStore
  BY <1>1, MakeStore
<1> QED
  BY <1>2, <1>3, NothingDone, Replies DEF Good, Becomes, ApplyRename, Outcome

LEMMA FlushGood ==
  ASSUME NEW st \in SoundStore
  PROVE  Good(st, ApplyFlush(st), Key)
BY EmptyIsSound, Replies DEF Good, Becomes, ApplyFlush, Outcome

-----------------------------------------------------------------------------
(* Commands on hashes and sets *)

\* The hash that a command finds: none is as good as an empty one.
LEMMA HashFound ==
  ASSUME NEW st \in SoundStore, NEW k \in Key, ~WrongType(st, k, "hash")
  PROVE  \E fs \in SUBSET Field :
           /\ HashAt(st, k) \in [fs -> Content]
           /\ fs = {} <=> ~Has(st, k)
<1>1. CASE ~Has(st, k)
  BY <1>1 DEF HashAt
<1>2. CASE Has(st, k)
  <2>1. st.data[k].type = "hash" /\ HashAt(st, k) = st.data[k].hash
    BY <1>2 DEF WrongType, IsA, HashAt
  <2>2. PICK fs \in SUBSET Field : st.data[k].hash \in [fs -> Content]
    BY <2>1, StoreShape, Kinds
  <2>3. fs # {}
    BY <2>1, <2>2, StoreShape DEF SoundValue
  <2> QED
    BY <1>2, <2>1, <2>2, <2>3
<1> QED
  BY <1>1, <1>2

LEMMA SetFound ==
  ASSUME NEW st \in SoundStore, NEW k \in Key, ~WrongType(st, k, "set")
  PROVE  /\ SetAt(st, k) \in SUBSET Member /\ IsFiniteSet(SetAt(st, k))
         /\ ~Has(st, k) => SetAt(st, k) = {}
         /\ Has(st, k) => st.data[k] = Set(SetAt(st, k))
<1>1. CASE ~Has(st, k)
  BY <1>1, FS_EmptySet DEF SetAt
<1>2. CASE Has(st, k)
  <2>1. st.data[k].type = "set" /\ SetAt(st, k) = st.data[k].set
    BY <1>2 DEF WrongType, IsA, SetAt
  <2>2. /\ st.data[k].set \in SUBSET Member /\ IsFiniteSet(st.data[k].set)
        /\ st.data[k] = Set(st.data[k].set)
    BY <2>1, StoreShape, Kinds
  <2> QED
    BY <1>2, <2>1, <2>2
<1> QED
  BY <1>1, <1>2

\* Putting back nothing where nothing was changes nothing.
LEMMA PutAbsent ==
  ASSUME NEW st \in SoundStore, NEW k \in Key, ~Has(st, k)
  PROVE  Put(st, k, Absent) = st
BY StoreShape DEF Has, Put, Store

LEMMA HsetGood ==
  ASSUME NEW st \in SoundStore, NEW k \in Key,
         NEW fs \in (SUBSET Field) \ {{}}, NEW pairs \in [fs -> Content]
  PROVE  Good(st, ApplyHset(st, k, pairs), {k})
<1>1. CASE WrongType(st, k, "hash")
  BY <1>1, NothingDone DEF ApplyHset
<1>2. CASE ~WrongType(st, k, "hash")
  <2> DEFINE h == HashAt(st, k)
             g == [f \in DOMAIN h \cup DOMAIN pairs |->
                     IF f \in DOMAIN pairs THEN pairs[f] ELSE h[f]]
  <2>1. PICK gs \in SUBSET Field : h \in [gs -> Content]
    BY <1>2, HashFound
  <2>2. g \in [gs \cup fs -> Content] /\ gs \cup fs \in (SUBSET Field) \ {{}}
    BY <2>1
  <2>3. Hash(g) \in SoundValue
    BY <2>2, SoundValues
  <2> QED
    BY <1>2, <2>3, Written, Replies DEF ApplyHset
<1> QED
  BY <1>1, <1>2

\* A function on one field.
LEMMA OnePair ==
  ASSUME NEW f \in Field, NEW c \in Content
  PROVE  {f} \in (SUBSET Field) \ {{}} /\ [g \in {f} |-> c] \in [{f} -> Content]
OBVIOUS

LEMMA HsetnxGood ==
  ASSUME NEW st \in SoundStore, NEW k \in Key, NEW f \in Field, NEW c \in Content
  PROVE  Good(st, ApplyHsetnx(st, k, f, c), {k})
BY NothingDone, HsetGood, OnePair DEF ApplyHsetnx

LEMMA HdelGood ==
  ASSUME NEW st \in SoundStore, NEW k \in Key, NEW fs
  PROVE  Good(st, ApplyHdel(st, k, fs), {k})
<1>1. CASE WrongType(st, k, "hash")
  BY <1>1, NothingDone DEF ApplyHdel
<1>2. CASE ~WrongType(st, k, "hash")
  <2> DEFINE h == HashAt(st, k)
             left == [f \in DOMAIN h \ fs |-> h[f]]
             v == IF DOMAIN left = {} THEN Absent ELSE Hash(left)
  <2>1. PICK gs \in SUBSET Field : h \in [gs -> Content]
    BY <1>2, HashFound
  <2>2. left \in [gs \ fs -> Content] /\ gs \ fs \in SUBSET Field /\ DOMAIN left = gs \ fs
    BY <2>1
  <2>3. v \in SoundValue
    BY <2>2, SoundValues
  <2> QED
    BY <1>2, <2>3, Written, Replies DEF ApplyHdel
<1> QED
  BY <1>1, <1>2

LEMMA HincrbyGood ==
  ASSUME NEW st \in SoundStore, NEW k \in Key, NEW f \in Field, NEW by \in Content
  PROVE  Good(st, ApplyHincrby(st, k, f, by), {k})
<1> DEFINE h == HashAt(st, k)
           old == IF f \in DOMAIN h THEN h[f] ELSE Num(0)
           sum == CheckedAdd(old.n, by.n)
           out == ApplyHincrby(st, k, f, by)
<1>1. CASE IsInt(by) /\ ~WrongType(st, k, "hash") /\ IsInt(old) /\ sum # {}
  <2>1. by.n \in Int /\ old.n \in Int
    BY <1>1, Contents DEF IsInt
  <2>2. Min(sum) \in I64
    BY <1>1, <2>1, SumIsExact
  <2> DEFINE new == ApplyHset(st, k, [g \in {f} |-> Num(Min(sum))])
  <2>3. Num(Min(sum)) \in Content
    BY <2>2, Contents
  <2>4. out = Outcome(new.st, Integer(Min(sum)))
    BY <1>1 DEF ApplyHincrby, AddToField
  <2> HIDE DEF sum
  <2>5. Good(st, new, {k})
    BY <2>3, HsetGood, OnePair
  <2> QED
    BY <2>4, <2>5, Replies DEF Good, Outcome
<1>2. CASE ~(IsInt(by) /\ ~WrongType(st, k, "hash") /\ IsInt(old) /\ sum # {})
  <2>1. out = Outcome(st, Err)
    BY <1>2 DEF ApplyHincrby, AddToField
  <2> QED
    BY <2>1, NothingDone
<1> QED
  BY <1>1, <1>2

LEMMA SaddGood ==
  ASSUME NEW st \in SoundStore, NEW k \in Key,
         NEW ms \in SUBSET Member, IsFiniteSet(ms)
  PROVE  Good(st, ApplySadd(st, k, ms), {k})
<1>1. CASE WrongType(st, k, "set")
  BY <1>1, NothingDone DEF ApplySadd
<1>2. CASE ~WrongType(st, k, "set")
  <2>1. SetAt(st, k) \cup ms \in SUBSET Member /\ IsFiniteSet(SetAt(st, k) \cup ms)
    BY <1>2, SetFound, FS_Union
  <2>2. Set(SetAt(st, k) \cup ms) \in SoundValue
    BY <2>1, SoundValues
  <2> QED
    BY <1>2, <2>2, Written, Replies DEF ApplySadd
<1> QED
  BY <1>1, <1>2

LEMMA SremGood ==
  ASSUME NEW st \in SoundStore, NEW k \in Key, NEW ms
  PROVE  Good(st, ApplySrem(st, k, ms), {k})
<1>1. CASE WrongType(st, k, "set")
  BY <1>1, NothingDone DEF ApplySrem
<1>2. CASE ~WrongType(st, k, "set")
  <2> DEFINE left == SetAt(st, k) \ ms
             v == IF left = {} THEN Absent ELSE Set(left)
  <2>1. left \in SUBSET Member /\ IsFiniteSet(left)
    BY <1>2, SetFound, FS_Subset
  <2>2. v \in SoundValue
    BY <2>1, SoundValues
  <2> QED
    BY <1>2, <2>2, Written, Replies DEF ApplySrem
<1> QED
  BY <1>1, <1>2

-----------------------------------------------------------------------------
(* Every command *)

\* The dispatch: whatever the command, the store stays sound and the keys it
\* does not name keep their data; GETSET alone may answer with an error and have
\* changed something.
LEMMA ApplyGood ==
  ASSUME NEW st \in SoundStore, NEW c, IsCommand(c)
  PROVE  /\ Becomes(st, Apply(st, c).st, KeysOf(c))
         /\ c.name # "GETSET" /\ Apply(st, c).reply = Err => Apply(st, c).st = st
<1> DEFINE out == Apply(st, c)
<1>1. CASE c.name = "GETSET"
  <2>1. c.key \in Key /\ c.val \in Content
    BY <1>1 DEF IsCommand
  <2>2. out = ApplyGetset(st, c.key, c.val) /\ KeysOf(c) = {c.key}
    BY <1>1 DEF Apply, KeysOf
  <2> QED
    BY <1>1, <2>1, <2>2, GetsetBecomes
<1>2. CASE c.name # "GETSET"
  <2> SUFFICES Good(st, out, KeysOf(c))
    BY <1>2 DEF Good
  <2>1. CASE c.name \in {"SET", "SETNX", "INCRBY", "DECRBY", "EXPIRE"}
    <3>1. c.key \in Key /\ c.val \in Content
      BY <2>1 DEF IsCommand
    <3>2. KeysOf(c) = {c.key}
      BY <2>1 DEF KeysOf
    <3>3. \/ out = ApplySet(st, c.key, c.val)
          \/ out = ApplySetnx(st, c.key, c.val)
          \/ out = ApplyIncr(st, c.key, c.val, FALSE)
          \/ out = ApplyIncr(st, c.key, c.val, TRUE)
          \/ out = ApplyExpire(st, c.key, c.val)
      BY <2>1 DEF Apply
    <3>4. \A down \in BOOLEAN : Good(st, ApplyIncr(st, c.key, c.val, down), {c.key})
      BY <3>1, IncrGood
    <3>5. Good(st, ApplySet(st, c.key, c.val), {c.key})
      BY <3>1, SetGood
    <3> QED
      BY <3>1, <3>2, <3>3, <3>4, <3>5, SetnxGood, ExpireGood
  <2>2. CASE c.name \in {"APPEND", "PERSIST", "RENAME", "DEL", "FLUSH"}
    <3>1. /\ c.name \in {"APPEND", "PERSIST"} => c.key \in Key /\ KeysOf(c) = {c.key}
          /\ c.name = "RENAME" => c.key \in Key /\ c.to \in Key /\ KeysOf(c) = {c.key, c.to}
          /\ c.name = "DEL" => c.keys \in SUBSET Key /\ KeysOf(c) = c.keys
          /\ c.name = "FLUSH" => KeysOf(c) = Key
      BY DEF IsCommand, KeysOf
    <3>2. /\ c.name = "APPEND" => out = ApplyAppend(st, c.key)
          /\ c.name = "PERSIST" => out = ApplyPersist(st, c.key)
          /\ c.name = "RENAME" => out = ApplyRename(st, c.key, c.to)
          /\ c.name = "DEL" => out = ApplyDel(st, c.keys)
          /\ c.name = "FLUSH" => out = ApplyFlush(st)
      BY DEF Apply
    <3> QED
      BY <2>2, <3>1, <3>2, AppendGood, PersistGood, RenameGood, DelGood, FlushGood
  <2>3. CASE c.name \in {"HSET", "HSETNX", "HDEL", "HINCRBY"}
    <3>1. /\ c.key \in Key /\ KeysOf(c) = {c.key}
          /\ c.name \in {"HSETNX", "HINCRBY"} => c.field \in Field /\ c.val \in Content
          /\ c.name = "HSET" => \E fs \in (SUBSET Field) \ {{}} : c.pairs \in [fs -> Content]
      BY <2>3 DEF IsCommand, KeysOf
    <3>2. /\ c.name = "HSET" => out = ApplyHset(st, c.key, c.pairs)
          /\ c.name = "HSETNX" => out = ApplyHsetnx(st, c.key, c.field, c.val)
          /\ c.name = "HDEL" => out = ApplyHdel(st, c.key, c.fields)
          /\ c.name = "HINCRBY" => out = ApplyHincrby(st, c.key, c.field, c.val)
      BY DEF Apply
    <3> QED
      BY <2>3, <3>1, <3>2, HsetGood, HsetnxGood, HdelGood, HincrbyGood
  <2>4. CASE c.name \in {"SADD", "SREM"}
    <3>1. /\ c.key \in Key /\ KeysOf(c) = {c.key}
          /\ c.members \in SUBSET Member /\ IsFiniteSet(c.members)
      BY <2>4 DEF IsCommand, KeysOf
    <3>2. /\ c.name = "SADD" => out = ApplySadd(st, c.key, c.members)
          /\ c.name = "SREM" => out = ApplySrem(st, c.key, c.members)
      BY DEF Apply
    <3> QED
      BY <2>4, <3>1, <3>2, SaddGood, SremGood
  <2>5. CASE c.name \notin {"SET", "SETNX", "INCRBY", "DECRBY", "EXPIRE", "APPEND", "PERSIST",
                            "RENAME", "DEL", "FLUSH", "HSET", "HSETNX", "HDEL", "HINCRBY",
                            "SADD", "SREM"}
    <3>1. out = Outcome(st, Err)
      BY <1>2, <2>5 DEF Apply
    <3> QED
      BY <3>1, NothingDone
  <2> QED
    BY <2>1, <2>2, <2>3, <2>4, <2>5
<1> QED
  BY <1>1, <1>2

-----------------------------------------------------------------------------
(* Empty sets *)

\* What becomes of the keys: none newly holds an empty set.
NoneHollowed(st, new) == HollowKeys(new) \subseteq HollowKeys(st)

LEMMA Solid ==
  /\ Absent # Set({})
  /\ \A c : Str(c) # Set({})
  /\ \A h : Hash(h) # Set({})
  /\ \A s : s # {} => Set(s) # Set({})
BY DEF Absent, Str, Hash, Set

LEMMA SameData ==
  ASSUME NEW st, NEW new, new.data = st.data
  PROVE  HollowKeys(new) = HollowKeys(st)
BY DEF HollowKeys

LEMMA PutSolid ==
  ASSUME NEW st \in SoundStore, NEW k \in Key, NEW v, v # Set({})
  PROVE  NoneHollowed(st, Put(st, k, v))
<1>1. Put(st, k, v).data = [st.data EXCEPT ![k] = v]
  BY StoreShape DEF Put, Store
<1>2. \A j \in Key : Put(st, k, v).data[j] = IF j = k THEN v ELSE st.data[j]
  BY <1>1, StoreShape
<1> QED
  BY <1>2 DEF NoneHollowed, HollowKeys

LEMMA ClearSolid ==
  ASSUME NEW st, NEW new, NEW k, NoneHollowed(st, new), new \in SoundStore, k \in Key
  PROVE  NoneHollowed(st, ClearTtl(new, k))
BY ClearSound, SameData DEF NoneHollowed

LEMMA HsetSolid ==
  ASSUME NEW st \in SoundStore, NEW k \in Key, NEW pairs
  PROVE  NoneHollowed(st, ApplyHset(st, k, pairs).st)
<1>1. \A h : NoneHollowed(st, Put(st, k, Hash(h)))
  BY PutSolid, Solid
<1>2. NoneHollowed(st, st)
  BY DEF NoneHollowed
<1>3. \/ ApplyHset(st, k, pairs).st = st
      \/ \E h : ApplyHset(st, k, pairs).st = Put(st, k, Hash(h))
  BY DEF ApplyHset, Outcome
<1> QED
  BY <1>1, <1>2, <1>3

\* Commands on strings.
LEMMA StringSolid ==
  ASSUME NEW st \in SoundStore, NEW k \in Key, NEW c \in Content, NEW down \in BOOLEAN
  PROVE  /\ NoneHollowed(st, ApplySet(st, k, c).st)
         /\ NoneHollowed(st, ApplySetnx(st, k, c).st)
         /\ NoneHollowed(st, ApplyGetset(st, k, c).st)
         /\ NoneHollowed(st, ApplyAppend(st, k).st)
         /\ NoneHollowed(st, ApplyIncr(st, k, c, down).st)
         /\ NoneHollowed(st, ApplyExpire(st, k, c).st)
<1>1. \A d : NoneHollowed(st, Put(st, k, Str(d)))
  BY PutSolid, Solid
<1>2. NoneHollowed(st, ClearTtl(Put(st, k, Str(c)), k))
  BY <1>1, ClearSolid, PutSound, SoundValues DEF Becomes
<1>3. NoneHollowed(st, st)
  BY DEF NoneHollowed
<1>4. ApplySet(st, k, c).st = ClearTtl(Put(st, k, Str(c)), k)
  BY DEF ApplySet, Outcome
<1>5. ApplySetnx(st, k, c).st \in {st, Put(st, k, Str(c))}
  BY DEF ApplySetnx, Outcome
<1>6. ApplyGetset(st, k, c).st \in {Put(st, k, Str(c)), ClearTtl(Put(st, k, Str(c)), k)}
  BY DEF ApplyGetset, Outcome
<1>7. ApplyAppend(st, k).st \in {st, Put(st, k, Str(Text))}
  BY DEF ApplyAppend, Outcome
<1>8. ApplyIncr(st, k, c, down).st = st \/ \E d : ApplyIncr(st, k, c, down).st = Put(st, k, Str(d))
  BY DEF ApplyIncr, Outcome
<1>9. ApplyExpire(st, k, c).st.data = st.data
  BY StoreShape DEF ApplyExpire, Outcome, Store
<1>10. NoneHollowed(st, ApplyExpire(st, k, c).st)
  BY <1>9, SameData DEF NoneHollowed
<1> QED
  BY <1>1, <1>2, <1>3, <1>4, <1>5, <1>6, <1>7, <1>8, <1>10

\* Commands that take away.
LEMMA RemovalSolid ==
  ASSUME NEW st \in SoundStore, NEW k \in Key, NEW ks, NEW fs
  PROVE  /\ NoneHollowed(st, ApplyDel(st, ks).st)
         /\ NoneHollowed(st, ApplyPersist(st, k).st)
         /\ NoneHollowed(st, ApplyFlush(st).st)
         /\ NoneHollowed(st, ApplyHdel(st, k, fs).st)
         /\ NoneHollowed(st, ApplySrem(st, k, fs).st)
<1>1. \A h : NoneHollowed(st, Put(st, k, Hash(h)))
  BY PutSolid, Solid
<1>2. NoneHollowed(st, Put(st, k, Absent))
  BY PutSolid, Solid
<1>3. \A s : s # {} => NoneHollowed(st, Put(st, k, Set(s)))
  BY PutSolid, Solid
<1>4. NoneHollowed(st, st)
  BY DEF NoneHollowed
<1>5. NoneHollowed(st, ApplyDel(st, ks).st)
  BY Solid DEF NoneHollowed, HollowKeys, ApplyDel, Outcome
<1>6. NoneHollowed(st, ApplyPersist(st, k).st)
  BY <1>4, ClearSolid DEF ApplyPersist, Outcome
<1>7. NoneHollowed(st, ApplyFlush(st).st)
  BY Solid DEF NoneHollowed, HollowKeys, ApplyFlush, Outcome, EmptyStore
<1>8. \/ ApplyHdel(st, k, fs).st \in {st, Put(st, k, Absent)}
      \/ \E h : ApplyHdel(st, k, fs).st = Put(st, k, Hash(h))
  BY DEF ApplyHdel, Outcome
<1>9. \/ ApplySrem(st, k, fs).st \in {st, Put(st, k, Absent)}
      \/ \E s : s # {} /\ ApplySrem(st, k, fs).st = Put(st, k, Set(s))
  BY DEF ApplySrem, Outcome
<1> QED
  BY <1>1, <1>2, <1>3, <1>4, <1>5, <1>6, <1>7, <1>8, <1>9

\* Commands that add to a collection.
LEMMA AdditionSolid ==
  ASSUME NEW st \in SoundStore, NEW k \in Key, NEW f \in Field, NEW c \in Content
  PROVE  /\ NoneHollowed(st, ApplyHsetnx(st, k, f, c).st)
         /\ NoneHollowed(st, ApplyHincrby(st, k, f, c).st)
<1>1. NoneHollowed(st, st)
  BY DEF NoneHollowed
<1>2. ApplyHsetnx(st, k, f, c).st \in {st, ApplyHset(st, k, [g \in {f} |-> c]).st}
  BY DEF ApplyHsetnx, Outcome
<1>3. \/ ApplyHincrby(st, k, f, c).st = st
      \/ \E pairs : ApplyHincrby(st, k, f, c).st = ApplyHset(st, k, pairs).st
  BY DEF ApplyHincrby, AddToField, Outcome
<1> QED
  BY <1>1, <1>2, <1>3, HsetSolid

LEMMA SaddSolid ==
  ASSUME NEW st \in SoundStore, NEW k \in Key, NEW ms, ms # {}
  PROVE  NoneHollowed(st, ApplySadd(st, k, ms).st)
<1>1. NoneHollowed(st, st)
  BY DEF NoneHollowed
<1>2. \A s : s # {} => NoneHollowed(st, Put(st, k, Set(s)))
  BY PutSolid, Solid
<1>3. SetAt(st, k) \cup ms # {}
  OBVIOUS
<1>4. ApplySadd(st, k, ms).st \in {st, Put(st, k, Set(SetAt(st, k) \cup ms))}
  BY DEF ApplySadd, Outcome
<1> QED
  BY <1>1, <1>2, <1>3, <1>4

\* The two exceptions: an SADD without members makes a key that was not there an
\* empty set, and a RENAME moves one.
LEMMA BareSadd ==
  ASSUME NEW st \in SoundStore, NEW k \in Key,
         NEW j \in HollowKeys(ApplySadd(st, k, {}).st), j \notin HollowKeys(st)
  PROVE  j = k /\ ~Has(st, k)
<1>1. ~WrongType(st, k, "set") /\ ApplySadd(st, k, {}).st = Put(st, k, Set(SetAt(st, k)))
  BY DEF ApplySadd, Outcome
<1>2. Put(st, k, Set(SetAt(st, k))).data = [st.data EXCEPT ![k] = Set(SetAt(st, k))]
  BY StoreShape DEF Put, Store
<1>3. j \in Key /\ j = k /\ Set(SetAt(st, k)) = Set({})
  BY <1>1, <1>2, StoreShape DEF HollowKeys
<1>4. Has(st, k) => st.data[k] = Set(SetAt(st, k))
  BY <1>1, SetFound
<1> QED
  BY <1>3, <1>4 DEF HollowKeys

LEMMA RenameMoves ==
  ASSUME NEW st \in SoundStore, NEW src \in Key, NEW dst \in Key,
         NEW j \in HollowKeys(ApplyRename(st, src, dst).st), j \notin HollowKeys(st)
  PROVE  j = dst /\ src \in HollowKeys(st)
<1>1. ApplyRename(st, src, dst).st.data = [st.data EXCEPT ![src] = Absent, ![dst] = st.data[src]]
  BY DEF ApplyRename, Outcome
<1> QED
  BY <1>1, StoreShape, Solid DEF HollowKeys

\* Every command: a key that newly holds an empty set is one of the exceptions.
LEMMA ApplyHollows ==
  ASSUME NEW st \in SoundStore, NEW c, IsCommand(c),
         NEW k \in HollowKeys(Apply(st, c).st), k \notin HollowKeys(st)
  PROVE  \/ c.name = "SADD" /\ c.key = k /\ c.members = {} /\ ~Has(st, k)
         \/ c.name = "RENAME" /\ c.to = k /\ c.key \in HollowKeys(st)
<1> DEFINE out == Apply(st, c)
<1> SUFFICES ASSUME c.name # "RENAME", ~(c.name = "SADD" /\ c.members = {})
             PROVE  NoneHollowed(st, out.st)
  <2>1. CASE c.name = "RENAME"
    <3>1. c.key \in Key /\ c.to \in Key /\ out = ApplyRename(st, c.key, c.to)
      BY <2>1 DEF IsCommand, Apply
    <3> QED
      BY <2>1, <3>1, RenameMoves
  <2>2. CASE c.name = "SADD" /\ c.members = {}
    <3>1. c.key \in Key /\ out = ApplySadd(st, c.key, {})
      BY <2>2 DEF IsCommand, Apply
    <3> QED
      BY <2>2, <3>1, BareSadd
  <2> QED
    BY <2>1, <2>2 DEF NoneHollowed
<1>1. CASE c.name \in {"SET", "SETNX", "GETSET", "INCRBY", "DECRBY", "EXPIRE"}
  <2>1. c.key \in Key /\ c.val \in Content
    BY <1>1 DEF IsCommand
  <2>2. \/ out = ApplySet(st, c.key, c.val) \/ out = ApplySetnx(st, c.key, c.val)
        \/ out = ApplyGetset(st, c.key, c.val) \/ out = ApplyExpire(st, c.key, c.val)
        \/ \E down \in BOOLEAN : out = ApplyIncr(st, c.key, c.val, down)
    BY <1>1 DEF Apply
  <2> QED
    BY <2>1, <2>2, StringSolid
<1>2. CASE c.name = "APPEND"
  <2>1. c.key \in Key /\ out = ApplyAppend(st, c.key)
    BY <1>2 DEF IsCommand, Apply
  <2> QED
    BY <2>1, StringSolid, Contents
<1>3. CASE c.name \in {"PERSIST", "DEL", "FLUSH", "HDEL", "SREM"}
  <2>1. c.name \in {"PERSIST", "HDEL", "SREM"} => c.key \in Key
    BY DEF IsCommand
  <2>2. /\ c.name = "PERSIST" => out = ApplyPersist(st, c.key)
        /\ c.name = "DEL" => out = ApplyDel(st, c.keys)
        /\ c.name = "FLUSH" => out = ApplyFlush(st)
        /\ c.name = "HDEL" => out = ApplyHdel(st, c.key, c.fields)
        /\ c.name = "SREM" => out = ApplySrem(st, c.key, c.members)
    BY DEF Apply
  <2>3. k \in Key
    BY DEF HollowKeys
  <2> QED
    BY <1>3, <2>1, <2>2, <2>3, RemovalSolid
<1>4. CASE c.name \in {"HSET", "HSETNX", "HINCRBY", "SADD"}
  <2>1. /\ c.key \in Key
        /\ c.name \in {"HSETNX", "HINCRBY"} => c.field \in Field /\ c.val \in Content
    BY <1>4 DEF IsCommand
  <2>2. /\ c.name = "HSET" => out = ApplyHset(st, c.key, c.pairs)
        /\ c.name = "HSETNX" => out = ApplyHsetnx(st, c.key, c.field, c.val)
        /\ c.name = "HINCRBY" => out = ApplyHincrby(st, c.key, c.field, c.val)
        /\ c.name = "SADD" => out = ApplySadd(st, c.key, c.members)
    BY DEF Apply
  <2>3. CASE c.name \in {"HSETNX", "HINCRBY"}
    BY <2>1, <2>2, <2>3, AdditionSolid
  <2>4. CASE c.name = "HSET"
    BY <2>1, <2>2, <2>4, HsetSolid
  <2>5. CASE c.name = "SADD"
    BY <2>1, <2>2, <2>5, SaddSolid
  <2> QED
    BY <1>4, <2>3, <2>4, <2>5
<1>5. CASE c.name \notin {"SET", "SETNX", "GETSET", "INCRBY", "DECRBY", "EXPIRE", "APPEND",
                           "PERSIST", "DEL", "FLUSH", "HDEL", "SREM", "HSET", "HSETNX",
                           "HINCRBY", "SADD"}
  <2>1. out = Outcome(st, Err)
    BY <1>5 DEF Apply
  <2> QED
    BY <2>1 DEF NoneHollowed, Outcome
<1> QED
  BY <1>1, <1>2, <1>3, <1>4, <1>5

-----------------------------------------------------------------------------
(* Streams *)

StreamInv == keyspace \in SoundStore

\* Whatever the stream, the store is sound.
THEOREM StreamInvariance == StreamSpec => []StreamInv
<1>1. StreamInit => StreamInv
  BY EmptyIsSound DEF StreamInit, StreamInv
<1>2. StreamInv /\ [StreamNext]_keyspace => StreamInv'
  BY ApplyGood, CommandAssumption DEF StreamNext, Deliver, Becomes, StreamInv
<1> QED
  BY <1>1, <1>2, PTL DEF StreamSpec

\* Every value has its type, and every TTL fits an i64.
THEOREM StreamTypeCorrect == StreamSpec => []StreamTypeOK
<1>1. StreamInv => StreamTypeOK
  BY StoreShape DEF StreamInv, StreamTypeOK
<1> QED
  BY <1>1, StreamInvariance, PTL

\* No stream of commands leaves an empty hash, and none leaves an empty set but by
\* an SADD that names no member and the RENAMEs of what it made.
THEOREM HollowKeysAreMadeBare == StreamSpec => []EmptiedKeysVanish
<1>1. StreamInv => EmptiedKeysVanish
  <2> SUFFICES ASSUME StreamInv PROVE EmptiedKeysVanish
    OBVIOUS
  <2>1. \A k \in Key : IsA(keyspace, k, "hash") => DOMAIN keyspace.data[k].hash # {}
    BY StoreShape DEF StreamInv, SoundValue, IsA
  <2>2. \A c \in Command : \A k \in HollowKeys(Apply(keyspace, c).st) \ HollowKeys(keyspace) :
          \/ c.name = "SADD" /\ c.key = k /\ c.members = {} /\ ~Has(keyspace, k)
          \/ c.name = "RENAME" /\ c.to = k /\ c.key \in HollowKeys(keyspace)
    BY ApplyHollows, CommandAssumption DEF StreamInv
  <2> QED
    BY <2>1, <2>2 DEF EmptiedKeysVanish
<1> QED
  BY <1>1, StreamInvariance, PTL

\* An error reply is safe to retry after, GETSET's excepted: in no state that
\* any stream leads to has the command changed anything.
THEOREM ErrorsAreHarmless == StreamSpec => []ErrorsChangeNothing
<1>1. StreamInv => ErrorsChangeNothing
  BY ApplyGood, CommandAssumption DEF ErrorsChangeNothing, StreamInv
<1> QED
  BY <1>1, StreamInvariance, PTL

\* Counters never wrap, at any width of integers, and hold what they answered.
THEOREM CountersNeverWrap == StreamSpec => []CountersAreExact
<1>1. ASSUME StreamInv, NEW c \in Command, c.name = "INCRBY"
      PROVE  CounterIsExact(c, 1)
  <2>1. c.key \in Key /\ c.val \in Content
    BY <1>1, CommandAssumption DEF IsCommand
  <2> DEFINE out == ApplyIncr(keyspace, c.key, c.val, FALSE)
             before == IF Has(keyspace, c.key) THEN keyspace.data[c.key].str.n ELSE 0
  <2>2. Apply(keyspace, c) = out
    BY <1>1 DEF Apply
  <2>3. out.reply # Err => /\ c.val.n \in I64 /\ before \in I64
                           /\ out.reply.n = before + c.val.n
                           /\ out.st.data[c.key] = Str(Num(out.reply.n))
    <3>1. \A down \in BOOLEAN :
            LET o == ApplyIncr(keyspace, c.key, c.val, down)
            IN  o.reply # Err => /\ c.val.n \in I64 /\ before \in I64
                                 /\ o.reply.n = before + (IF down THEN Negated(c.val.n) ELSE c.val.n)
                                 /\ o.st.data[c.key] = Str(Num(o.reply.n))
      BY <1>1, <2>1, IncrGood DEF StreamInv
    <3> QED
      BY <3>1
  <2> HIDE DEF out
  <2>4. out.reply # Err => out.reply.n = before + 1 * c.val.n
    BY <2>3, Contents
  <2> QED
    BY <2>2, <2>3, <2>4 DEF CounterIsExact
<1>2. ASSUME StreamInv, NEW c \in Command, c.name = "DECRBY", c.val.n # MinInt
      PROVE  CounterIsExact(c, -1)
  <2>1. c.key \in Key /\ c.val \in Content
    BY <1>2, CommandAssumption DEF IsCommand
  <2> DEFINE out == ApplyIncr(keyspace, c.key, c.val, TRUE)
             before == IF Has(keyspace, c.key) THEN keyspace.data[c.key].str.n ELSE 0
  <2>2. Apply(keyspace, c) = out
    BY <1>2 DEF Apply
  <2>3. out.reply # Err => /\ c.val.n \in I64 /\ before \in I64
                           /\ out.reply.n = before + Negated(c.val.n)
                           /\ out.st.data[c.key] = Str(Num(out.reply.n))
    <3>1. \A down \in BOOLEAN :
            LET o == ApplyIncr(keyspace, c.key, c.val, down)
            IN  o.reply # Err => /\ c.val.n \in I64 /\ before \in I64
                                 /\ o.reply.n = before + (IF down THEN Negated(c.val.n) ELSE c.val.n)
                                 /\ o.st.data[c.key] = Str(Num(o.reply.n))
      BY <1>2, <2>1, IncrGood DEF StreamInv
    <3> QED
      BY <3>1
  <2> HIDE DEF out
  <2>4. out.reply # Err => out.reply.n = before + (-1) * c.val.n
    BY <1>2, <2>3, Contents DEF Negated
  <2> QED
    BY <2>2, <2>3, <2>4 DEF CounterIsExact
<1>3. StreamInv => CountersAreExact
  BY <1>1, <1>2 DEF CountersAreExact
<1> QED
  BY <1>3, StreamInvariance, PTL
=============================================================================
