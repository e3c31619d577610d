------------------------------- MODULE MCLoad -------------------------------
(***************************************************************************)
(* Instance of ChaosLoad: a load of three writes against two engines, or    *)
(* two pipelined frames of one hand-driven client, or two such clients.     *)
(***************************************************************************)
EXTENDS ChaosLoad

MCConns == 1 .. 3
MCEngines == {"local", "peer"}

SetK(v) == Request(<< <<"S">>, <<"k">>, v>>)
GetK == Request(<< <<"G">>, <<"k">> >>)

\* Well-formed commands: a value that looks like a line end, an empty one, both
\* inline forms, a delete, an SPOP, a null bulk for a name.
Good == {
  SetK(<<"CR", "LF">>),
  Request(<< <<"s">>, <<"k">>, <<>> >>),
  Frame("command", << <<"g">>, <<"k">> >>, <<"g", "SP", "SP", "k", "CR", "LF">>),
  Frame("command", << <<"m">>, <<"k">>, <<"j">> >>,
        <<"m", "TAB", "k", "SP", "j", "SP", "LF">>),
  Request(<< <<"D">>, <<"k">> >>),
  Request(<< <<"P">>, <<"k">> >>),
  Frame("command", << <<>> >>, <<"*", "1", "CR", "LF", "$", "-", "1", "CR", "LF">>) }

NoOps == {
  Frame("noop", <<>>, <<"*", "0", "CR", "LF">>),
  Frame("noop", <<>>, <<"CR", "LF">>) }

\* A count that is no number, an element that is no bulk string, a payload longer
\* than its length.
Malformed == {
  Frame("bad", <<>>, <<"*", "x", "CR", "LF">>),
  Frame("bad", <<>>, <<"*", "1", "CR", "LF", "+", "1", "CR", "LF">>),
  Frame("bad", <<>>, <<"*", "1", "CR", "LF", "$", "1", "CR", "LF", "G", "G", "G">>) }

\* What is pipelined behind any frame.
Second == {
  Request(<< <<"s">>, <<"k">>, <<>> >>),
  Frame("command", << <<"g">>, <<"k">> >>, <<"g", "SP", "SP", "k", "CR", "LF">>),
  Request(<< <<"D">>, <<"k">> >>) }

Script(first, second) ==
  [c \in MCConns |-> CASE c = 1 -> first [] c = 2 -> second [] OTHER -> <<>>]

MCScripts ==
  {Script(<<>>, <<>>), Script(<<SetK(<<"v">>), GetK>>, <<SetK(<<"w">>)>>)}
    \cup {Script(<<f, g>>, <<>>) : f \in Good \cup NoOps \cup Malformed, g \in Second}
    \cup {Script(<<f, g>>, <<>>) : f \in {GetK}, g \in NoOps \cup Malformed}
=============================================================================
