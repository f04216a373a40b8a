-------------------------------- MODULE MCCli --------------------------------
\* Cli with seven builder expressions and nine measurements.
EXTENDS Cli

\* Where the values below are built; they cannot depend on themselves.
B == INSTANCE Script WITH Chains <- {}
F == INSTANCE RequestFile

MCChains ==
  {B!ContentType(B!Json(B!Request("a"), "x")),
   B!ExtractHeader(B!ColdConnect(B!BodyFile(B!Request("a"))), 1),
   B!SseHold("templated", 0), B!SseHold("a", 5),
   B!TriggerUrl(B!WsFanout("b", 5)), B!SseFanout("invalid", 4)}

\* One request and one stream, for plans of more scenarios.
MCTwoChains == {B!Json(B!Request("a"), "x"), B!SseHold("a", 5)}

Eol(end) == F!Line("", end)
Block(first, request, fields, end) ==
  first \o <<F!Line(request, end)>> \o [i \in DOMAIN fields |-> F!Line(fields[i], end)]
Bodies(end) == {<<>>, <<F!Line("text", "none")>>, <<F!Line("comment", end), Eol(end), F!Line("text", end)>>,
                <<Eol("crlf"), Eol("crlf")>>}
MCFiles ==
  {<<>>} \cup
  {Block(first, request, fields, end) \o rest :
     first \in {<<>>, <<F!Line("comment", "lf")>>, <<F!Line("comment", "lf"), Eol("lf")>>},
     request \in {"GET /", "GET http://b/", "text"},
     fields \in {<<>>, <<"Host: a">>, <<"Host: b", "Header", "comment", "Host: a">>, <<"Header", "text">>},
     end \in {"lf"}, rest \in {<<>>, <<F!Line("Header", "none")>>} \cup {<<Eol("lf")>> \o body : body \in Bodies("lf")}} \cup
  {Block(first, "GET /", <<"Host: a", "Header">>, "crlf") \o <<Eol("crlf")>> \o body :
     first \in {<<>>, <<F!Line("comment", "crlf")>>}, body \in Bodies("crlf") \cup Bodies("lf")}
MCEntries ==
  {Block(<<>>, "GET /", <<"Host: a">>, "lf"), Block(<<>>, "GET http://a/", <<>>, "crlf"),
   Block(<<>>, "GET http://b/", <<>>, "lf"), Block(<<>>, "text", <<>>, "lf")}

MCLadder == <<10, 30, 90>>

Latency(p50, p99, max) == [p50 |-> p50, p99 |-> p99, max |-> max]
Measured(rate, lat, native, errors) ==
  [rate |-> rate, lat |-> lat, native |-> native, requests |-> 10, errors |-> errors]
Of(schema, whole, runs, hist) == [schema |-> schema, whole |-> whole, runs |-> runs, hist |-> hist]

Good == Measured(10, Latency(2, 4, 8), {}, 0)
Fair == Measured(10, Latency(2, 5, 8), {}, 1)
Bad  == Measured(5, Latency(4, 8, 9), {}, 2)
Sse(n) == Measured(10, Latency(0, 0, 0), {Latency(n, n, n)}, 0)

MCExports ==
  {Of(1, Good, <<>>, <<<<1, 2>>, <<3, 1>>, <<4, 1>>>>),
   Of(1, Fair, <<>>, <<<<1, 1>>, <<2, 1>>, <<4, 3>>>>),
   Of(1, Bad, <<>>, <<>>),
   Of(2, Good, <<>>, <<>>),
   Of(1, Good, <<Good, Good, Fair>>, <<<<2, 5>>>>),
   Of(1, Bad, <<Bad, Fair, Bad>>, <<>>),
   Of(1, Bad, <<Bad, Bad, Bad, Bad>>, <<>>),
   Of(1, Sse(0), <<Sse(3), Sse(3), Sse(4)>>, <<>>),
   Of(1, Sse(0), <<Sse(9), Sse(9), Sse(9)>>, <<>>)}

=============================================================================
