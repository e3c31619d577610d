------------------------------ MODULE RespWire ------------------------------
(***************************************************************************)
(* The RESP2 wire format (resp.rs) as functions on sequences of bytes: what *)
(* a client writes for a request, what the proxy's decoder makes of the     *)
(* bytes it has so far, what the proxy writes for a reply and what the      *)
(* client makes of that.  A byte is a string of one character; "CR", "LF",  *)
(* "SP" and "TAB" are the bytes of that name.  Numbers on the wire are      *)
(* those of the frames in use, so i64 overflow does not occur; all bytes    *)
(* are ASCII, so the UTF-8 checks do not fail.                              *)
(***************************************************************************)
EXTENDS Integers, Sequences, SequencesExt

CRLF == <<"CR", "LF">>
Blank == {"SP", "TAB"}

Digits == <<"0", "1", "2", "3", "4", "5", "6", "7", "8", "9">>
DigitAt == [d \in ToSet(Digits) |-> CHOOSE i \in 1 .. 10 : Digits[i] = d]

\* Decimal notation, of the lengths and counts in use: they have one digit.
Decimal(n) == IF n < 0 THEN <<"-", Digits[1 - n]>> ELSE <<Digits[n + 1]>>

\* str::trim and parse::<i64>: blanks around a sign and at least one digit.
Trim(b) ==
  LET inner == {i \in 1 .. Len(b) : b[i] \notin Blank \cup {"CR", "LF"}}
  IN  IF inner = {} THEN <<>> ELSE SubSeq(b, Min(inner), Max(inner))

Number(sign, ds) ==
  IF ds = <<>> \/ ~(ToSet(ds) \subseteq DOMAIN DigitAt) THEN [ok |-> FALSE, n |-> 0]
  ELSE [ok |-> TRUE,
        n |-> sign * FoldLeft(LAMBDA acc, d : 10 * acc + DigitAt[d] - 1, 0, ds)]

Signed(t) ==
  IF t # <<>> /\ t[1] \in {"-", "+"} THEN Number(IF t[1] = "-" THEN -1 ELSE 1, Tail(t))
  ELSE Number(1, t)

ParseInt(b) == Signed(Trim(b))

-----------------------------------------------------------------------------
(* Requests *)

\* encode_request: an array of bulk strings.
EncodeRequest(argv) ==
  FoldLeft(LAMBDA out, a : out \o <<"$">> \o Decimal(Len(a)) \o CRLF \o a \o CRLF,
           <<"*">> \o Decimal(Len(argv)) \o CRLF, argv)

\* What a parser says: "ok" with the argv and the bytes used, "more" bytes are
\* needed, or "bad".
Parsed(kind, argv, used) == [kind |-> kind, argv |-> argv, used |-> used]
NeedMore == Parsed("more", <<>>, 0)
ProtocolError == Parsed("bad", <<>>, 0)

\* parse_crlf_line on b[from ..]: the position of the first CR LF, 0 if none.
CrLfFrom(b, from) ==
  LET at == {i \in from .. Len(b) - 1 : b[i] = "CR" /\ b[i + 1] = "LF"}
  IN  IF at = {} THEN 0 ELSE Min(at)

\* The position of the first LF in b[from ..], 0 if none.
LfFrom(b, from) ==
  LET at == {i \in from .. Len(b) : b[i] = "LF"}
  IN  IF at = {} THEN 0 ELSE Min(at)

\* parse_inline: a line up to LF, split at blanks; empty parts are left out.
Words(line) ==
  LET starts == {i \in 1 .. Len(line) : line[i] \notin Blank /\ (i = 1 \/ line[i - 1] \in Blank)}
      LastOf(i) == Min({j \in i .. Len(line) : j = Len(line) \/ line[j + 1] \in Blank})
      WordAt(i) == SubSeq(line, i, LastOf(i))
      order == SetToSortSeq(starts, <)
  IN  [w \in 1 .. Len(order) |-> WordAt(order[w])]

InlineUpTo(b, nl) ==
  IF nl = 0 THEN NeedMore
  ELSE Parsed("ok", Words(SubSeq(b, 1, IF nl > 1 /\ b[nl - 1] = "CR" THEN nl - 2 ELSE nl - 1)), nl)

ParseInline(b) == InlineUpTo(b, LfFrom(b, 1))

\* Are the len bytes of a payload from first on, and the CR LF after it, there?
PayloadComplete(b, first, len) == Len(b) - first + 1 >= len + 2

\* One element of the array, after acc.used bytes: its payload of len.n bytes, from
\* body on ...
Payload(b, acc, body, len) ==
  IF ~len.ok THEN ProtocolError
  ELSE IF len.n < 0 THEN Parsed("ok", Append(acc.argv, <<>>), body - 1)
  ELSE IF ~PayloadComplete(b, body, len.n) THEN NeedMore
  ELSE IF SubSeq(b, body + len.n, body + len.n + 1) # CRLF THEN ProtocolError
  ELSE Parsed("ok", Append(acc.argv, SubSeq(b, body, body + len.n - 1)), body + len.n + 1)

\* ... after a header line that ends at eol.
Element(b, acc, first, eol) ==
  IF eol = 0 THEN NeedMore
  ELSE IF eol = first \/ b[first] # "$" THEN ProtocolError
  ELSE Payload(b, acc, eol + 2, ParseInt(SubSeq(b, first + 1, eol - 1)))

ParseBulk(b, acc) ==
  IF acc.kind # "ok" THEN acc
  ELSE Element(b, acc, acc.used + 1, CrLfFrom(b, acc.used + 1))

\* parse_command: an array, a no-op if its count is not positive; or a line.
Elements(b, used, count) ==
  IF ~count.ok THEN ProtocolError
  ELSE FoldLeft(LAMBDA acc, i : ParseBulk(b, acc), Parsed("ok", <<>>, used),
                [i \in 1 .. count.n |-> i])

ArrayFrom(b, eol) ==
  IF eol = 0 THEN NeedMore
  ELSE Elements(b, eol + 1, ParseInt(SubSeq(b, 2, eol - 1)))

ParseCommand(b) ==
  IF b = <<>> THEN NeedMore
  ELSE IF b[1] # "*" THEN ParseInline(b)
  ELSE ArrayFrom(b, CrLfFrom(b, 1))

-----------------------------------------------------------------------------
(* Replies: a Simple or Error text, a Bulk string, an Integer, Nil, NilArray,   *)
(* or an Array of such (the stores nest arrays no deeper).                      *)

Reply(t, bytes, n, items) == [t |-> t, bytes |-> bytes, n |-> n, items |-> items]
Simple(text) == Reply("simple", text, 0, <<>>)
Error(text) == Reply("error", text, 0, <<>>)
Integer(n) == Reply("int", <<>>, n, <<>>)
Bulk(b) == Reply("bulk", b, 0, <<>>)
Nil == Reply("nil", <<>>, 0, <<>>)
NilArray == Reply("nilarray", <<>>, 0, <<>>)
Array(items) == Reply("array", <<>>, 0, items)
OK == Simple(<<"O", "K">>)

\* Reply::encode, of what is no array.
EncodeScalar(r) ==
  CASE r.t = "simple"   -> <<"+">> \o r.bytes \o CRLF
    [] r.t = "error"    -> <<"-">> \o r.bytes \o CRLF
    [] r.t = "int"      -> <<":">> \o Decimal(r.n) \o CRLF
    [] r.t = "bulk"     -> <<"$">> \o Decimal(Len(r.bytes)) \o CRLF \o r.bytes \o CRLF
    [] r.t = "nil"      -> <<"$">> \o Decimal(-1) \o CRLF
    [] r.t = "nilarray" -> <<"*">> \o Decimal(-1) \o CRLF

Encode(r) ==
  IF r.t # "array" THEN EncodeScalar(r)
  ELSE FoldLeft(LAMBDA out, it : out \o EncodeScalar(it),
                <<"*">> \o Decimal(Len(r.items)) \o CRLF, r.items)

\* What a reader says: like Parsed, with replies for the argv.
ReadOk(r, used) == [kind |-> "ok", reply |-> r, used |-> used]
ReadMore == [kind |-> "more", reply |-> Nil, used |-> 0]
ReadBad == [kind |-> "bad", reply |-> Nil, used |-> 0]

\* Slip: a bulk reply is read without the CR LF that ends it.
BulkFrameBare(len) == len

\* The bytes that a bulk reply takes after its header.
BulkFrame(len) == len + 2

\* read_reply for one line, and the payload of a bulk string, after b[from - 1];
\* the line ends at LF and loses every CR and LF at its end.  A number n.n is what
\* the text after its first byte says.
ReadNumbered(b, lf, type, n) ==
  IF ~n.ok THEN ReadBad
  ELSE CASE type = ":" -> ReadOk(Integer(n.n), lf)
         [] type = "*" -> ReadOk(IF n.n < 0 THEN NilArray ELSE Reply("array", <<>>, n.n, <<>>), lf)
         [] type = "$" ->
              IF n.n < 0 THEN ReadOk(Nil, lf)
              ELSE IF Len(b) < lf + n.n + 2 THEN ReadMore
              ELSE ReadOk(Bulk(SubSeq(b, lf + 1, lf + n.n)), lf + BulkFrame(n.n))

ReadLine(b, lf, line) ==
  IF line = <<>> THEN ReadBad
  ELSE CASE Head(line) = "+" -> ReadOk(Simple(Tail(line)), lf)
         [] Head(line) = "-" -> ReadOk(Error(Tail(line)), lf)
         [] Head(line) \in {":", "$", "*"} -> ReadNumbered(b, lf, Head(line), ParseInt(Tail(line)))
         [] OTHER -> ReadBad

LineOf(b, from, lf) ==
  LET text == {i \in from .. lf : b[i] \notin {"CR", "LF"}}
  IN  IF text = {} THEN <<>> ELSE SubSeq(b, from, Max(text))

ReadAt(b, from, lf) == IF lf = 0 THEN ReadMore ELSE ReadLine(b, lf, LineOf(b, from, lf))
ReadScalar(b, from) == ReadAt(b, from, LfFrom(b, from))

AddItem(acc, it) ==
  IF it.kind # "ok" THEN it
  ELSE ReadOk(Array(Append(acc.reply.items, it.reply)), it.used)
ReadItem(b, acc) ==
  IF acc.kind # "ok" THEN acc ELSE AddItem(acc, ReadScalar(b, acc.used + 1))

\* read_reply.
ReadItems(b, r) ==
  IF r.kind # "ok" \/ r.reply.t # "array" THEN r
  ELSE FoldLeft(LAMBDA acc, i : ReadItem(b, acc), ReadOk(Array(<<>>), r.used),
                [i \in 1 .. r.reply.n |-> i])

ReadReply(b) == ReadItems(b, ReadScalar(b, 1))
=============================================================================
