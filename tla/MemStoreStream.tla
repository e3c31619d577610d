--------------------------- MODULE MemStoreStream ---------------------------
(***************************************************************************)
(* One store fed an arbitrary stream of write commands: the keyspaces that  *)
(* histories of any length lead to.                                         *)
(***************************************************************************)
EXTENDS MemStore

CONSTANT Command  \* the commands of the stream

ASSUME CommandAssumption == \A c \in Command : IsCommand(c)

VARIABLE keyspace

StreamTypeOK == keyspace \in Store

StreamInit == keyspace = EmptyStore

Deliver(c) == keyspace' = Apply(keyspace, c).st

StreamNext == \E c \in Command : Deliver(c)

StreamSpec == StreamInit /\ [][StreamNext]_keyspace

-----------------------------------------------------------------------------
\* The keys that exist and hold an empty set.
HollowKeys(st) == {k \in Key : st.data[k] = Set({})}

\* A hash or set that loses its last element is gone, whatever led there.  No
\* hash is ever empty, and a key comes to hold an empty set in two ways only: it
\* is created by an SADD that names no member, or it takes the place of such a
\* key in a RENAME.
EmptiedKeysVanish ==
  /\ \A k \in Key : IsA(keyspace, k, "hash") => DOMAIN keyspace.data[k].hash # {}
  /\ \A c \in Command : \A k \in HollowKeys(Apply(keyspace, c).st) \ HollowKeys(keyspace) :
       \/ c.name = "SADD" /\ c.key = k /\ c.members = {} /\ ~Has(keyspace, k)
       \/ c.name = "RENAME" /\ c.to = k /\ c.key \in HollowKeys(keyspace)

\* A command that is answered with an error leaves the keyspace as it was, so a
\* client may retry it or go on without it.  GETSET on a wrong type does not.
ErrorsChangeNothing ==
  \A c \in Command :
    Apply(keyspace, c).reply = Err /\ c.name # "GETSET" => Apply(keyspace, c).st = keyspace

\* A counter that was answered holds the answer, which is the sum in unbounded
\* arithmetic: nothing wraps.  The exception is DECRBY by the least integer, whose
\* operand wraps when it is negated and is then added.
CounterIsExact(c, sign) ==
  LET k == c.key
      out == Apply(keyspace, c)
      before == IF Has(keyspace, k) THEN keyspace.data[k].str.n ELSE 0
  IN  out.reply # Err =>
        out.reply.n = before + sign * c.val.n /\ out.st.data[k] = Str(Num(out.reply.n))

CountersAreExact ==
  \A c \in Command :
    /\ c.name = "INCRBY" => CounterIsExact(c, 1)
    /\ c.name = "DECRBY" /\ c.val.n # MinInt => CounterIsExact(c, -1)
=============================================================================
