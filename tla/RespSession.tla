---------------------------- MODULE RespSession ----------------------------
(***************************************************************************)
(* RESP sessions at one proxy (proxy.rs: listener_loop, client_loop and the *)
(* driver's half of a write).  Each connection has a task that reads what   *)
(* has arrived, decodes every complete command in it, and answers one after *)
(* the other: reads from the local engine, writes by asking the driver and  *)
(* waiting for its oneshot.  The bytes are those of RespWire.               *)
(*                                                                          *)
(* The driver is cut down to what a session sees: a write it takes is put   *)
(* in the one order in which every engine applies it (Replication), or is   *)
(* lost with its train; it is answered when the local engine applies it.    *)
(***************************************************************************)
EXTENDS RespWire, FiniteSets

CONSTANTS
  Conns,     \* connections
  Engines,   \* the engines of the surviving nodes
  Local,     \* the one of this proxy
  Scripts,   \* what hand-driven clients write: frames for each connection
  Cap,       \* admitted connections at a time
  MaxLost    \* bound: writes lost with their train

ASSUME SessionAssumption ==
  /\ Local \in Engines
  /\ \A s \in Scripts : DOMAIN s = Conns
  /\ Cap \in Nat \ {0} /\ MaxLost \in Nat

VARIABLES
  hand,     \* the connections of hand-driven clients
  script,   \* what those have yet to write
  client,   \* the client's end: "unused", "new", "open" or "gone"
  up, down, \* bytes on their way to the proxy, and to the client
  sent,     \* frames written so far (history)
  got,      \* replies read so far (history)
  server,   \* the task: "none", "read", "decode", "wait" or "closed"
  buf,      \* its decoder's buffer
  argvs,    \* commands decoded so far (history)
  meant,    \* replies given so far (history)
  slot,     \* the oneshot: <<>>, or <<the reply in it>>
  driver,   \* is the driver running?
  queue,    \* the command channel
  stream,   \* the writes in delivery order
  store,    \* what each engine holds: a function from keys to values
  at,       \* how many of the stream each engine has applied
  lost      \* the writes lost with their train

clientVars == <<hand, script, client, sent, got>>
serverVars == <<server, buf, argvs, meant>>
driverVars == <<driver, queue, stream, store, at, lost>>
sessionVars == <<clientVars, serverVars, driverVars, up, down, slot>>

\* A frame: its bytes, and the command they stand for, or that they are a no-op or
\* malformed.
Frame(kind, argv, bytes) == [kind |-> kind, argv |-> argv, bytes |-> bytes]
Request(argv) == Frame("command", argv, EncodeRequest(argv))

SessionInit ==
  /\ script \in Scripts
  /\ hand = {c \in Conns : script[c] # <<>>}
  /\ client = [c \in Conns |-> IF script[c] = <<>> THEN "unused" ELSE "new"]
  /\ server = [c \in Conns |-> "none"]
  /\ up = [c \in Conns |-> <<>>] /\ down = [c \in Conns |-> <<>>]
  /\ sent = [c \in Conns |-> <<>>] /\ got = [c \in Conns |-> <<>>]
  /\ buf = [c \in Conns |-> <<>>] /\ slot = [c \in Conns |-> <<>>]
  /\ argvs = [c \in Conns |-> <<>>] /\ meant = [c \in Conns |-> <<>>]
  /\ driver = TRUE
  /\ queue = <<>> /\ stream = <<>> /\ lost = {}
  /\ store = [e \in Engines |-> <<>>] /\ at = [e \in Engines |-> 0]

-----------------------------------------------------------------------------
(* Commands.  Names have one letter: Set, Get, Mget, Del, sPop.  *)

Capital == [x \in {"s", "g", "m", "d", "p"} |->
              CASE x = "s" -> "S" [] x = "g" -> "G" [] x = "m" -> "M" [] x = "d" -> "D" [] x = "p" -> "P"]

\* Command::parse: the name in upper case.
Name(argv) == [i \in 1 .. Len(argv[1]) |->
                 IF argv[1][i] \in DOMAIN Capital THEN Capital[argv[1][i]] ELSE argv[1][i]]

Classify(argv) ==
  CASE Name(argv) \in {<<"G">>, <<"M">>} -> "Read"
    [] Name(argv) \in {<<"S">>, <<"D">>} -> "Write"
    [] Name(argv) = <<"P">>              -> "NonDeterministic"
    [] OTHER                             -> "Unsupported"

\* The engine (external to the session), for well-formed commands.
Lookup(s, k) == IF k \in DOMAIN s THEN Bulk(s[k]) ELSE Nil
Query(s, argv) ==
  IF Name(argv) = <<"G">> THEN Lookup(s, argv[2])
  ELSE Array([i \in 1 .. Len(argv) - 1 |-> Lookup(s, argv[i + 1])])
ApplyTo(s, argv) ==
  IF Name(argv) = <<"S">>
  THEN [k \in DOMAIN s \cup {argv[2]} |-> IF k = argv[2] THEN argv[3] ELSE s[k]]
  ELSE [k \in DOMAIN s \ {argv[2]} |-> s[k]]
ApplyReply(s, argv) ==
  IF Name(argv) = <<"S">> THEN OK ELSE Integer(IF argv[2] \in DOMAIN s THEN 1 ELSE 0)

\* Error texts, cut down to a letter; that of an unknown command quotes its name.
Busy == Error(<<"b">>)
Desync == Error(<<"p">>)
Unavailable == Error(<<"u">>)
Dropped == Error(<<"d">>)
Unknown(argv) == Error(<<"'">> \o Name(argv) \o <<"'">>)

-----------------------------------------------------------------------------
(* The client's end *)

\* listener_loop: a connection is admitted up to the cap, or told that the proxy is
\* busy and closed.
Admitted == Cardinality({c \in Conns : server[c] \in {"read", "decode", "wait"}}) < Cap

Accept(c) ==
  /\ client' = [client EXCEPT ![c] = "open"]
  /\ server' = [server EXCEPT ![c] = IF Admitted THEN "read" ELSE "closed"]
  /\ down' = [down EXCEPT ![c] = IF Admitted THEN @ ELSE Encode(Busy)]
  /\ meant' = [meant EXCEPT ![c] = IF Admitted THEN @ ELSE <<Busy>>]

Put(c, frame) ==
  /\ up' = [up EXCEPT ![c] = IF server[c] = "closed" THEN @ ELSE @ \o frame.bytes]
  /\ sent' = [sent EXCEPT ![c] = Append(@, frame)]

Take(c, r) ==
  /\ got' = [got EXCEPT ![c] = Append(@, r.reply)]
  /\ down' = [down EXCEPT ![c] = SubSeq(@, r.used + 1, Len(@))]

\* The reply that the client of c can read, if it has arrived.
Arrived(c) == ReadReply(down[c])

HandConnects(c) ==
  /\ client[c] = "new"
  /\ Accept(c)
  /\ UNCHANGED <<hand, script, sent, got, up, buf, argvs, slot, driverVars>>

\* A hand-driven client writes its next frame, whether or not it has the replies to
\* the ones before.
HandWrites(c) ==
  /\ c \in hand /\ client[c] = "open" /\ script[c] # <<>>
  /\ server[c] # "closed"
  /\ Put(c, Head(script[c]))
  /\ script' = [script EXCEPT ![c] = Tail(@)]
  /\ UNCHANGED <<hand, client, got, serverVars, driverVars, down, slot>>

HandReads(c) ==
  /\ c \in hand /\ client[c] = "open"
  /\ \E r \in {Arrived(c)} : r.kind = "ok" /\ Take(c, r)
  /\ UNCHANGED <<hand, script, client, sent, serverVars, driverVars, up, slot>>

HandHangsUp(c) ==
  /\ c \in hand /\ client[c] = "open" /\ script[c] = <<>>
  /\ client' = [client EXCEPT ![c] = "gone"]
  /\ down' = [down EXCEPT ![c] = <<>>]
  /\ UNCHANGED <<hand, script, sent, got, serverVars, driverVars, up, slot>>

-----------------------------------------------------------------------------
(* client_loop *)

\* sock.read: some of the bytes that are there, but (bound) all of them where no
\* hand-driven client writes.
ReadChunk(c) ==
  /\ server[c] = "read" /\ up[c] # <<>>
  /\ \E n \in IF c \in hand THEN 1 .. Len(up[c]) ELSE {Len(up[c])} :
       /\ buf' = [buf EXCEPT ![c] = @ \o SubSeq(up[c], 1, n)]
       /\ up' = [up EXCEPT ![c] = SubSeq(@, n + 1, Len(@))]
  /\ server' = [server EXCEPT ![c] = "decode"]
  /\ UNCHANGED <<clientVars, driverVars, argvs, meant, down, slot>>

\* The client closed, or reset the connection with bytes unread.
ReadEnds(c) ==
  /\ server[c] = "read" /\ client[c] = "gone"
  /\ server' = [server EXCEPT ![c] = "closed"]
  /\ UNCHANGED <<clientVars, driverVars, buf, argvs, meant, up, down, slot>>

\* write_all of a reply; it may fail once the client is gone, and the task ends.
WriteReply(c, r, then) ==
  /\ meant' = [meant EXCEPT ![c] = Append(@, r)]
  /\ \/ /\ down' = [down EXCEPT ![c] = IF client[c] = "open" THEN @ \o Encode(r) ELSE @]
        /\ server' = [server EXCEPT ![c] = then]
     \/ /\ client[c] = "gone"
        /\ server' = [server EXCEPT ![c] = "closed"]
        /\ down' = down

\* A complete command, after used bytes of the buffer.
Decoded(c, p) ==
  /\ buf' = [buf EXCEPT ![c] = SubSeq(@, p.used + 1, Len(@))]
  /\ argvs' = [argvs EXCEPT ![c] = IF p.argv = <<>> THEN @ ELSE Append(@, p.argv)]

\* Slip: one command for every read.
WaitAfterCommand == "read"

\* Where the inner loop goes on after a command: to the next one in the buffer.
AfterCommand == "decode"

\* What next_command makes of the buffer, p.  Ok(None): back to sock.read.
NeedsMore(c, p) ==
  /\ p.kind = "more"
  /\ server' = [server EXCEPT ![c] = "read"]
  /\ UNCHANGED <<clientVars, driverVars, buf, argvs, meant, up, down, slot>>

\* Err: tell the client, drop the connection.
Desyncs(c, p) ==
  /\ p.kind = "bad"
  /\ WriteReply(c, Desync, "closed")
  /\ UNCHANGED <<clientVars, driverVars, buf, argvs, up, slot>>

\* An empty argv, which is passed over.
SkipsNoOp(c, p) ==
  /\ p.kind = "ok" /\ p.argv = <<>>
  /\ Decoded(c, p)
  /\ UNCHANGED <<clientVars, driverVars, server, meant, up, down, slot>>

\* A command that is answered at once: a read, an unknown one, or a write when there
\* is no driver to take it.
AnswerAtOnce(argv, class) ==
  CASE class = "Read"        -> Query(store[Local], argv)
    [] class = "Unsupported" -> Unknown(argv)
    [] OTHER                 -> Unavailable

AnswersAtOnce(c, p) ==
  /\ p.kind = "ok" /\ p.argv # <<>>
  /\ Classify(p.argv) \in {"Write", "NonDeterministic"} => ~driver
  /\ Decoded(c, p)
  /\ WriteReply(c, AnswerAtOnce(p.argv, Classify(p.argv)), AfterCommand)
  /\ UNCHANGED <<clientVars, driverVars, up, slot>>

\* A write is handed to the driver.
AsksDriver(c, p) ==
  /\ p.kind = "ok" /\ p.argv # <<>>
  /\ Classify(p.argv) \in {"Write", "NonDeterministic"} /\ driver
  /\ Decoded(c, p)
  /\ queue' = Append(queue, [conn |-> c, argv |-> p.argv])
  /\ server' = [server EXCEPT ![c] = "wait"]
  /\ UNCHANGED <<clientVars, driver, stream, store, at, lost, meant, up, down, slot>>

NextCommand(c) ==
  /\ server[c] = "decode"
  /\ \E p \in {ParseCommand(buf[c])} :
       \/ NeedsMore(c, p) \/ Desyncs(c, p) \/ SkipsNoOp(c, p)
       \/ AnswersAtOnce(c, p) \/ AsksDriver(c, p)

\* The oneshot has the answer, or its sender was dropped with the driver.
HearsDriver(c) ==
  /\ server[c] = "wait"
  /\ slot[c] # <<>> \/ ~driver
  /\ WriteReply(c, IF slot[c] # <<>> THEN slot[c][1] ELSE Dropped, AfterCommand)
  /\ slot' = [slot EXCEPT ![c] = <<>>]
  /\ UNCHANGED <<clientVars, driverVars, buf, argvs, up>>

-----------------------------------------------------------------------------
(* The driver *)

\* handle_write_request: an effect that the origin resolves to nothing (here an SPOP
\* of a missing key) is answered, the rest broadcast.
HandleWriteRequest ==
  /\ driver /\ queue # <<>>
  /\ LET w == Head(queue)
     IN  IF Classify(w.argv) = "NonDeterministic"
         THEN /\ slot' = [slot EXCEPT ![w.conn] = <<Nil>>]
              /\ UNCHANGED <<stream, lost>>
         ELSE \/ /\ stream' = Append(stream, w)
                 /\ UNCHANGED <<lost, slot>>
              \/ /\ Cardinality(lost) < MaxLost
                 /\ lost' = lost \cup {w}
                 /\ UNCHANGED <<stream, slot>>
  /\ queue' = Tail(queue)
  /\ UNCHANGED <<clientVars, serverVars, driver, store, at, up, down>>

\* Slip: whichever engine is first answers.
AnyReleases(e) == e \in Engines

\* Only the node that the write came from has its client pending.
Releases(e) == e = Local

\* A delivered write reaches the engine of e; at the origin it then answers the
\* client.
Deliver(e) ==
  /\ at[e] < Len(stream)
  /\ e = Local => driver
  /\ LET w == stream[at[e] + 1]
     IN  /\ store' = [store EXCEPT ![e] = ApplyTo(@, w.argv)]
         /\ slot' = IF Releases(e) THEN [slot EXCEPT ![w.conn] = <<ApplyReply(store[e], w.argv)>>]
                    ELSE slot
  /\ at' = [at EXCEPT ![e] = @ + 1]
  /\ UNCHANGED <<clientVars, serverVars, driver, queue, stream, lost, up, down>>

\* The driver stops; what it holds is dropped.
DriverEnds ==
  /\ driver
  /\ driver' = FALSE /\ queue' = <<>>
  /\ UNCHANGED <<clientVars, serverVars, stream, store, at, lost, up, down, slot>>

SessionNext ==
  \/ \E c \in Conns : HandConnects(c) \/ HandWrites(c) \/ HandReads(c) \/ HandHangsUp(c)
  \/ \E c \in Conns : ReadChunk(c) \/ ReadEnds(c) \/ NextCommand(c) \/ HearsDriver(c)
  \/ HandleWriteRequest \/ DriverEnds
  \/ \E e \in Engines : Deliver(e)

-----------------------------------------------------------------------------
SessionTypeOK ==
  /\ hand \subseteq Conns
  /\ client \in [Conns -> {"unused", "new", "open", "gone"}]
  /\ server \in [Conns -> {"none", "read", "decode", "wait", "closed"}]
  /\ \A c \in Conns :
       /\ Len(slot[c]) <= 1
       /\ slot[c] # <<>> => server[c] = "wait"
       /\ client[c] = "gone" => down[c] = <<>>
       /\ server[c] = "none" <=> client[c] \in {"unused", "new"}
  /\ driver \in BOOLEAN
  /\ \A i \in 1 .. Len(queue) : server[queue[i].conn] = "wait"
  /\ at \in [Engines -> 0 .. Len(stream)]

\* The commands that the frames stand for, up to the first malformed one.
Sound(frames) == {i \in 1 .. Len(frames) : \A j \in 1 .. i : frames[j].kind # "bad"}
Commands(frames) ==
  LET ok == SubSeq(frames, 1, Cardinality(Sound(frames)))
      Is(f) == f.kind = "command"
  IN  [i \in 1 .. Len(SelectSeq(ok, Is)) |-> SelectSeq(ok, Is)[i].argv]

\* The decoder gets out of the byte stream what was put in, however the stream is
\* cut into reads: never a command that was not sent, all of them once the task is
\* back at an empty socket, and none behind a malformed frame.  A client that stays
\* is cut off only for such a frame or at the cap.
DecodesWhatWasSent ==
  \A c \in Conns :
    LET want == Commands(sent[c])
        malformed == Cardinality(Sound(sent[c])) < Len(sent[c])
    IN  /\ IsPrefix(argvs[c], want)
        /\ server[c] = "read" /\ up[c] = <<>> => argvs[c] = want /\ ~malformed
        /\ server[c] = "closed" /\ client[c] = "open" =>
             meant[c] = <<Busy>> \/ (malformed /\ argvs[c] = want)

\* The client reads back the replies that the proxy gave, one for each command and
\* in the order of the commands, whatever bytes the values hold; command names hold
\* no line break.
RepliesReadBack ==
  \A c \in Conns :
    /\ Len(meant[c]) = Len(argvs[c]) - (IF server[c] = "wait" THEN 1 ELSE 0)
                          + (IF Len(meant[c]) > 0 /\ Last(meant[c]) \in {Desync, Busy} THEN 1 ELSE 0)
    /\ IsPrefix(got[c], meant[c])
    /\ client[c] = "open" => IF down[c] = <<>> THEN got[c] = meant[c] ELSE Arrived(c).kind = "ok"

\* A client that was told OK for a write reads, on that connection, this write or
\* one delivered after it, although reads do not go through the ring.
ReadsOwnWrites ==
  \A c \in Conns : \A i, j \in 1 .. Len(meant[c]) :
    i < j /\ j <= Len(argvs[c]) /\ meant[c][i] = OK /\ Name(argvs[c][j]) = <<"G">> =>
      LET own == {p \in 1 .. Len(stream) : stream[p] = [conn |-> c, argv |-> argvs[c][i]]}
          After(n) == FoldLeft(LAMBDA s, w : ApplyTo(s, w.argv), <<>>, SubSeq(stream, 1, n))
      IN  \E p \in own : \E n \in p .. Len(stream) :
            meant[c][j] = Lookup(After(n), argvs[c][j][2])
=============================================================================
