--------------------------- MODULE MCWireDecoders ---------------------------
EXTENDS WireDecoders, SequencesExt

CRLF == <<"CR", "LF">>

\* SSE: up to three lines of any kind, or four of data and blanks.
LineKinds == {"data", "done", "id", "note", "blank"}
TextOf(ls, nl) ==
  FlattenSeq([i \in DOMAIN ls |-> (IF ls[i] = "blank" THEN <<>> ELSE <<ls[i]>>) \o nl])
MCLines == (UNION {[1..n -> LineKinds] : n \in 1..2}) \cup [1..4 -> {"data", "blank"}]
MCTexts == {TextOf(ls, nl) : ls \in MCLines, nl \in {<<"LF">>, CRLF}}
MCChunkings == [n \in 0..12 |-> {<<>>} \cup {<<k>> : k \in {2, 3} \cap 1..(n - 1)}]

\* Lines that end with a CR alone, or one of them does.
MCBareCrTexts == {TextOf(ls, <<"CR">>) : ls \in MCLines}
                 \cup {<<"data", "CR", "data", "LF", "LF">>, <<"data", "LF", "CR", "LF">>}

\* WebSocket: up to three frames, legal or not.
Frame(op, fin, form, len) ==
  [op |-> op, fin |-> fin, rsv |-> FALSE, masked |-> FALSE, form |-> form, len |-> len]
Sound == {Frame("Text", TRUE, "long16", 1), Frame("Text", FALSE, "short", 2),
          Frame("Cont", TRUE, "short", 1), Frame("Cont", FALSE, "short", 0),
          Frame("Ping", TRUE, "short", 1), Frame("Pong", TRUE, "short", 0),
          Frame("Close", TRUE, "short", 2)}
Broken == {Frame("Binary", TRUE, "long64", 64 * 1024 * 1024 + 1),
           [Frame("Binary", TRUE, "long64", 1) EXCEPT !.rsv = TRUE],
           [Frame("Text", TRUE, "short", 1) EXCEPT !.masked = TRUE],
           Frame("Reserved", TRUE, "short", 0), Frame("Ping", FALSE, "short", 0),
           Frame("Pong", TRUE, "long16", 126)}
MCFrameSeqs == (UNION {[1..n -> Sound] : n \in 0..3})
               \cup {<<a, b>> : a \in Sound, b \in Broken}
               \cup {<<Frame("Binary", TRUE, "long64", 1), Frame("Text", TRUE, "long16", 1)>>}
HeadOf(ls) == FlattenSeq([i \in DOMAIN ls |-> <<ls[i]>> \o CRLF]) \o CRLF
Good == <<"101", "upgrade", "connection", "accept">>
LongHead == Good \o <<"more">>
BadHeads ==
  {<<"200", "upgrade", "connection", "accept">>, <<"101", "connection", "accept">>,
   <<"101", "upgrade", "accept">>, <<"101", "upgrade", "connection">>,
   <<"101", "upgrade", "accept", "connection", "other-accept">>, LongHead,
   <<"101", "malformed", "upgrade">>}
MCUpgrades ==
  [head : {HeadOf(Good)}, frames : MCFrameSeqs]
  \cup [head : {HeadOf(h) : h \in BadHeads}, frames : {<<Frame("Text", TRUE, "short", 1)>>}]
  \cup [head : {<<"101">> \o CRLF \o <<"upgrade">>, HeadOf(LongHead \o <<"more">>)}, frames : {<<>>}]

\* HTTP: bodies by length, and chunked ones with extensions and trailers.
Chunk(n) == <<<<"0", "1", "2", "3">>[n + 1]>> \o CRLF \o [i \in 1..n |-> "x"] \o CRLF
Last0 == <<"0">> \o CRLF
ChunkedBodies ==
  {FlattenSeq(cs) \o Last0 \o trailers \o CRLF :
     cs \in UNION {[1..n -> {Chunk(1), Chunk(2), <<" ", "1", ";", "1">> \o CRLF \o <<"x">> \o CRLF}]
                   : n \in 0..2},
     trailers \in {<<>>, <<"t">> \o CRLF, <<"t">> \o CRLF \o <<"t">> \o CRLF}}
BrokenBodies ==
  {Chunk(1) \o <<"g">> \o CRLF, <<"2">> \o CRLF \o <<"x">> \o CRLF \o Last0 \o CRLF, CRLF}
Head1(chunked, cl, close) ==
  [chunked |-> chunked, cl |-> cl, close |-> close, length |-> 0]
Sized(n, close) == [Head1(FALSE, "present", close) EXCEPT !.length = n]
Answer(h, b, r, s) == [head |-> h, body |-> b, rest |-> r, sound |-> s]
MCResponses ==
  {Answer(Head1(TRUE, cl, close), b, r, TRUE) :
     cl \in {"missing", "malformed"}, close \in BOOLEAN, b \in ChunkedBodies,
     r \in {<<>>, <<"1">> \o CRLF}}
  \cup {Answer(Head1(TRUE, "missing", FALSE), b, <<>>, FALSE) : b \in BrokenBodies}
  \cup {Answer(Sized(n, close), [i \in 1..n |-> "x"], <<"x">>, TRUE) :
          n \in 0..3, close \in BOOLEAN}
  \cup {Answer(Head1(FALSE, "missing", FALSE), <<"x">>, <<>>, TRUE),
        Answer(Head1(FALSE, "malformed", FALSE), <<"x">>, <<>>, FALSE)}
=============================================================================
