----------------------------- MODULE ChaosLoad -----------------------------
(***************************************************************************)
(* The chaos harness (chaos.rs, bin/chaos.rs) against a proxy: it writes a   *)
(* stream of SETs in two runs, takes down those it was told OK for, gives up *)
(* on a reply that does not come and goes on over a fresh connection, and    *)
(* then asks the surviving engines for every write it took down.  One run    *)
(* of the model is either a load, or the hand-driven clients of RespSession. *)
(*                                                                          *)
(* Keys and values are one digit, the number of the write.  Engines go on    *)
(* applying what is delivered while they are asked.                          *)
(***************************************************************************)
EXTENDS RespSession

CONSTANTS
  Count,        \* writes
  MaxAbandons,  \* bound: replies given up on
  NoConn        \* not a connection

ASSUME LoadAssumption ==
  /\ Count \in 0 .. 9 /\ MaxAbandons \in Nat
  /\ NoConn \notin Conns /\ Conns \subseteq Nat

VARIABLES
  phase,     \* "off", "first", "second", "verify" or "done"
  next,      \* the next write
  conn,      \* the connection in use
  waiting,   \* is a reply outstanding on it?
  abandons,  \* replies given up on
  acked,     \* the writes taken down
  mode,      \* verify in one process ("full"), or one by each engine ("local")
  pos,       \* pos[e]: the next question to e: for an acked write, then its size
  missing,   \* missing[e]: acked writes that e did not hold when asked
  size,      \* size[e]: its answer to DBSIZE, -1 before that
  settled    \* was nothing on its way to an engine when verify began? (history)

loadVars == <<phase, next, conn, waiting, abandons, acked>>
verifyVars == <<mode, pos, missing, size, settled>>
vars == <<sessionVars, loadVars, verifyVars>>

TypeOK ==
  /\ SessionTypeOK
  /\ phase \in {"off", "first", "second", "verify", "done"}
  /\ next \in 0 .. Count
  /\ conn \in Conns \cup {NoConn}
  /\ waiting => conn # NoConn /\ next < Count
  /\ \A i \in 1 .. Len(acked) - 1 : acked[i] < acked[i + 1]
  /\ pos \in [Engines -> 1 .. Len(acked) + 2]
  /\ missing \in [Engines -> SUBSET ToSet(acked)]

Init ==
  /\ SessionInit
  /\ phase = IF hand = {} THEN "first" ELSE "off"
  /\ next = 0 /\ conn = NoConn /\ waiting = FALSE /\ abandons = 0 /\ acked = <<>>
  /\ mode \in IF hand = {} THEN {"full", "local"} ELSE {"full"}
  /\ pos = [e \in Engines |-> 1]
  /\ missing = [e \in Engines |-> {}]
  /\ size = [e \in Engines |-> -1]
  /\ settled = FALSE

Key(i) == <<Digits[i + 1]>>
Set(i) == Request(<< <<"S">>, Key(i), Key(i) >>)

-----------------------------------------------------------------------------
(* drive_load: two calls of run_load *)

Loading == phase \in {"first", "second"}

\* The end of the range of this run_load.
End == IF phase = "first" THEN Count \div 2 ELSE Count

\* LoadConn::connect.
Connects ==
  /\ Loading /\ conn = NoConn
  /\ \E c \in Conns : client[c] = "unused"
  /\ LET c == Min({c \in Conns : client[c] = "unused"})
     IN  /\ Accept(c)
         /\ conn' = c
  /\ UNCHANGED <<hand, script, sent, got, up, buf, argvs, slot, driverVars,
                 phase, next, waiting, abandons, acked, verifyVars>>

\* set_and_read: the SET is written ...
Sets ==
  /\ Loading /\ conn # NoConn /\ ~waiting /\ next < End
  /\ Put(conn, Set(next))
  /\ waiting' = TRUE
  /\ UNCHANGED <<hand, script, client, got, serverVars, driverVars, down, slot,
                 phase, next, conn, abandons, acked, verifyVars>>

\* ... and its reply read; a write is acked when it is OK.
Reads ==
  /\ waiting
  /\ \E r \in {Arrived(conn)} :
       /\ r.kind = "ok"
       /\ Take(conn, r)
       /\ acked' = IF r.reply = OK THEN Append(acked, next) ELSE acked
  /\ next' = next + 1 /\ waiting' = FALSE
  /\ UNCHANGED <<hand, script, client, sent, serverVars, driverVars, up, slot,
                 phase, conn, abandons, verifyVars>>

\* The connection in use is closed.
Closes(c) ==
  /\ client' = IF c = NoConn THEN client ELSE [client EXCEPT ![c] = "gone"]
  /\ down' = IF c = NoConn THEN down ELSE [down EXCEPT ![c] = <<>>]

\* Slip: the load goes on over the same connection.
KeepConn(c) == c

\* The connection to go on with after a timeout: none, there will be a fresh one.
AfterAbandon(c) == NoConn

\* The reply did not come in time, or the connection is dead.
Abandons ==
  /\ waiting /\ Arrived(conn).kind = "more"
  /\ abandons < MaxAbandons
  /\ abandons' = abandons + 1
  /\ next' = next + 1 /\ waiting' = FALSE
  /\ conn' = AfterAbandon(conn)
  /\ IF conn' = NoConn THEN Closes(conn) ELSE UNCHANGED <<client, down>>
  /\ UNCHANGED <<hand, script, sent, got, serverVars, driverVars, up, slot,
                 phase, acked, verifyVars>>

\* Is nothing on its way to an engine?
Quiet ==
  /\ \A e \in Engines : at[e] = Len(stream)
  /\ queue = <<>>
  /\ \A c \in Conns : server[c] = "closed" \/ (up[c] = <<>> /\ buf[c] = <<>>)

\* run_load returns and drops its connection; after the second one, verify.
RunEnds ==
  /\ Loading /\ conn # NoConn /\ ~waiting /\ next = End
  /\ Closes(conn)
  /\ conn' = NoConn
  /\ phase' = IF phase = "first" THEN "second" ELSE "verify"
  /\ settled' = (phase = "second" /\ Quiet)
  /\ UNCHANGED <<hand, script, sent, got, serverVars, driverVars, up, slot,
                 next, waiting, abandons, acked, mode, pos, missing, size>>

-----------------------------------------------------------------------------
(* verify, and verify_one for each engine *)

Order == SetToSeq(Engines)
Rank(e) == CHOOSE i \in 1 .. Len(Order) : Order[i] = e

\* In one process the questions are asked key by key, and within a key engine by
\* engine; each verify_one asks its engine at its own pace.
Turn(e) ==
  mode = "full" =>
    \A d \in Engines : pos[d] > pos[e] \/ (pos[d] = pos[e] /\ Rank(d) >= Rank(e))

Holds(e, i) == Key(i) \in DOMAIN store[e] /\ store[e][Key(i)] = Key(i)

\* Slip: one engine that holds the key is enough.
StopsAtHit(found) == found

\* Iterator::all stops asking about a key at the first engine that misses it.
Stops(found) == ~found

AsksKey(e) ==
  /\ phase = "verify" /\ Turn(e) /\ pos[e] <= Len(acked)
  /\ LET i == acked[pos[e]]
         found == Holds(e, i)
     IN  /\ missing' = [missing EXCEPT ![e] = IF found THEN @ ELSE @ \cup {i}]
         /\ pos' = IF mode = "full" /\ Stops(found) THEN [d \in Engines |-> pos[e] + 1]
                   ELSE [pos EXCEPT ![e] = @ + 1]
  /\ UNCHANGED <<sessionVars, loadVars, mode, size, settled>>

AsksSize(e) ==
  /\ phase = "verify" /\ Turn(e) /\ pos[e] = Len(acked) + 1
  /\ size' = [size EXCEPT ![e] = Cardinality(DOMAIN store[e])]
  /\ pos' = [pos EXCEPT ![e] = @ + 1]
  /\ phase' = IF \A d \in Engines \ {e} : pos[d] = Len(acked) + 2 THEN "done" ELSE phase
  /\ UNCHANGED <<sessionVars, next, conn, waiting, abandons, acked, mode, missing, settled>>

\* VerifyReport::ok.
Passed == (\A e \in Engines : missing[e] = {}) /\ \A d, e \in Engines : size[d] = size[e]

Next ==
  \/ SessionNext /\ UNCHANGED <<loadVars, verifyVars>>
  \/ Connects \/ Sets \/ Reads \/ Abandons \/ RunEnds
  \/ \E e \in Engines : AsksKey(e) \/ AsksSize(e)

Spec == Init /\ [][Next]_vars

-----------------------------------------------------------------------------
\* A write is taken down as acked only if it was applied: an answer that comes after
\* the load gave up on it is never taken for the answer to a later write, which may
\* be lost.
AckedIsApplied == \A i \in 1 .. Len(acked) : Holds(Local, acked[i])

\* What verify reports is so, although the engines are asked one after the other and
\* go on applying: with no loss reported, every engine holds every acked write, and
\* each verify_one without one vouches for its engine; and where nothing was on its
\* way when it began, it passes.
VerdictIsRight ==
  phase = "done" =>
    /\ (\A e \in Engines : missing[e] = {}) =>
         \A e \in Engines : \A i \in ToSet(acked) : Holds(e, i)
    /\ mode = "local" =>
         \A e \in Engines : missing[e] = {} => \A i \in ToSet(acked) : Holds(e, i)
    /\ settled => Passed
=============================================================================
