----------------------------- MODULE SseStream ------------------------------
(* A subscriber reading one SSE response: the end of the headers, the         *)
(* decoder of the chunked body and the framer of lines, fed with whatever a   *)
(* read returns.  The server writes one response; a read may stop at any      *)
(* byte of it, in the middle of a header, of a chunk or of a line.            *)
(*                                                                            *)
(* The response is a sequence of symbols.  What the code tells apart byte by  *)
(* byte (CR, LF, hexadecimal digits) is a symbol each; the rest of a line is  *)
(* one symbol, named for what process_line_and_emit makes of it.              *)
EXTENDS Naturals, Sequences, FiniteSets, SequencesExt

Digits == <<"0", "1", "2", "3", "4", "5", "6", "7", "8", "9",
            "a", "b", "c", "d", "e", "f">>
Readers == {"hold", "storm"}

VARIABLES
  reader,    \* which loop reads: one of Readers here
  wire,      \* the response, each symbol with a mark on those of the body's text
  pos,       \* how much of it has been read
  pre,       \* pre_body: what was read before the end of the headers
  inBody,    \* header_done, or the state ReadingBody
  decoder,   \* ChunkDecoder
  parser,    \* SseLineParser
  events     \* what the framer emitted

sseVars == <<pre, inBody, decoder, parser, events>>

-----------------------------------------------------------------------------
(* The response *)

Plain(s)  == [i \in DOMAIN s |-> [sym |-> s[i], text |-> FALSE]]
Marked(s) == [i \in DOMAIN s |-> [sym |-> s[i], text |-> TRUE]]
Symbols(w) == [i \in DOMAIN w |-> w[i].sym]

Headers == Plain(<<"status", "CR", "LF", "header", "CR", "LF", "CR", "LF">>)

\* A chunk: its size in hexadecimal (texts are shorter than 256), its data.
Chunk(s) ==
  LET high == Len(s) \div 16
      size == (IF high = 0 THEN <<>> ELSE <<Digits[high + 1]>>)
              \o <<Digits[(Len(s) % 16) + 1]>>
  IN Plain(size \o <<"CR", "LF">>) \o Marked(s) \o Plain(<<"CR", "LF">>)

LastChunk == Plain(<<"0", "CR", "LF", "CR", "LF">>)

\* The text in chunks of the lengths cs, the rest in one.
Response(t, cs) ==
  LET From(k) == FoldLeft(LAMBDA a, b : a + b, 0, SubSeq(cs, 1, k - 1))
      Piece(k) == SubSeq(t, From(k) + 1, IF k > Len(cs) THEN Len(t) ELSE From(k + 1))
      Chunks == [k \in 1..Len(cs) + 1 |-> IF Piece(k) = <<>> THEN <<>> ELSE Chunk(Piece(k))]
  IN Headers \o FlattenSeq(Chunks) \o LastChunk

-----------------------------------------------------------------------------
(* The end of the headers *)

\* find_header_end of hold.rs takes two bare LF as well; the other loops do not.
EndsAt(s, terminator) ==
  {i \in 1..Len(s) : /\ i >= Len(terminator)
                     /\ SubSeq(s, i - Len(terminator) + 1, i) = terminator}

Least(S) == CHOOSE i \in S : \A j \in S : i <= j

HeaderEnd(s) ==
  LET crlf == EndsAt(s, <<"CR", "LF", "CR", "LF">>)
      lf == IF reader = "hold" THEN EndsAt(s, <<"LF", "LF">>) ELSE {}
  IN IF crlf # {} THEN Least(crlf) ELSE IF lf # {} THEN Least(lf) ELSE 0

\* What of a read belongs to the body.  hold.rs takes the tail of pre_body, the
\* other loops take the tail of the slice they read, by the offset in it.
BodyPart(slice) ==
  LET all == pre \o slice
      end == HeaderEnd(all)
      skip == IF end > Len(pre) THEN end - Len(pre) ELSE 0
  IN CASE inBody -> slice
       [] ~inBody /\ end = 0 -> <<>>
       [] OTHER -> IF reader = "hold" THEN SubSeq(all, end + 1, Len(all))
                                      ELSE SubSeq(slice, skip + 1, Len(slice))

-----------------------------------------------------------------------------
(* ChunkDecoder::decode *)

FreshDecoder == [state |-> "Size", size |-> <<>>, remaining |-> 0]

IsDigit(b) == \E i \in DOMAIN Digits : Digits[i] = b
DigitValue(b) == (CHOOSE i \in DOMAIN Digits : Digits[i] = b) - 1

\* Stops at the first symbol that is no digit.
ParseHex(s) ==
  LET stop == {i \in DOMAIN s : ~IsDigit(s[i])}
      upto == IF stop = {} THEN Len(s) ELSE Least(stop) - 1
  IN FoldLeft(LAMBDA n, b : 16 * n + DigitValue(b), 0, SubSeq(s, 1, upto))

WithoutCR(s) == IF s # <<>> /\ Last(s) = "CR" THEN Front(s) ELSE s

\* A wrong SizeLineEnds: the size line is not cleared.
SizeLineEndsUncleared(d) ==
  LET size == ParseHex(WithoutCR(d.size))
  IN IF size = 0 THEN [d EXCEPT !.state = "Done"]
                 ELSE [d EXCEPT !.state = "Data", !.remaining = size]

SizeLineEnds(d) ==
  LET size == ParseHex(WithoutCR(d.size))
  IN IF size = 0 THEN [d EXCEPT !.state = "Done", !.size = <<>>]
                 ELSE [d EXCEPT !.state = "Data", !.size = <<>>, !.remaining = size]

RECURSIVE Decode(_, _, _)
Decode(d, input, out) ==
  LET rest == Tail(input)
      take == IF Len(input) < d.remaining THEN Len(input) ELSE d.remaining
  IN CASE input = <<>> \/ d.state = "Done" -> [decoder |-> d, out |-> out]
       [] d.state = "Size" /\ Head(input) = "LF" -> Decode(SizeLineEnds(d), rest, out)
       [] d.state = "Size" -> Decode([d EXCEPT !.size = Append(@, Head(input))], rest, out)
       [] d.state = "Data" ->
            Decode([d EXCEPT !.remaining = @ - take,
                             !.state = IF take = d.remaining THEN "TrailerCr" ELSE "Data"],
                   SubSeq(input, take + 1, Len(input)),
                   out \o SubSeq(input, 1, take))
       [] d.state = "TrailerCr" -> Decode([d EXCEPT !.state = "TrailerLf"], rest, out)
       [] d.state = "TrailerLf" -> Decode([d EXCEPT !.state = "Size"], rest, out)

-----------------------------------------------------------------------------
(* SseLineParser::feed *)

FreshParser == [line |-> <<>>, haveData |-> FALSE, ignored |-> FALSE, done |-> FALSE]

\* The event that a blank line ends, if there is one.
Finalise(p) ==
  [parser |-> FreshParser,
   emitted |-> CASE p.done -> <<"Done">>
                 [] ~p.done /\ p.haveData -> <<"Data">>
                 [] ~p.done /\ ~p.haveData /\ p.ignored -> <<"Ignored">>
                 [] OTHER -> <<>>]

ProcessLine(p) ==
  LET line == WithoutCR(p.line)
      q == [p EXCEPT !.line = <<>>]
      kind == IF line = <<>> THEN "blank" ELSE Head(line)
  IN CASE kind = "blank" -> Finalise(p)
       [] kind = "data" -> [parser |-> [q EXCEPT !.haveData = TRUE], emitted |-> <<>>]
       [] kind = "done" -> [parser |-> [q EXCEPT !.done = TRUE], emitted |-> <<>>]
       [] kind = "id"   -> [parser |-> q, emitted |-> <<"Id">>]
       [] OTHER         -> [parser |-> [q EXCEPT !.ignored = TRUE], emitted |-> <<>>]

FeedByte(acc, b) ==
  IF b # "LF" THEN [acc EXCEPT !.parser.line = Append(@, b)]
  ELSE LET r == ProcessLine(acc.parser)
       IN [parser |-> r.parser, emitted |-> acc.emitted \o r.emitted]

Feed(p, text) == FoldLeft(FeedByte, [parser |-> p, emitted |-> <<>>], text)

-----------------------------------------------------------------------------

SseInit ==
  /\ pre = <<>> /\ inBody = FALSE
  /\ decoder = FreshDecoder /\ parser = FreshParser /\ events = <<>>

\* A read returns n bytes.
Read(n) ==
  LET slice == Symbols(SubSeq(wire, pos + 1, pos + n))
      found == inBody \/ HeaderEnd(pre \o slice) # 0
      decoded == Decode(decoder, BodyPart(slice), <<>>)
      fed == Feed(parser, decoded.out)
  IN /\ reader \in Readers
     /\ pos' = pos + n
     /\ inBody' = found
     /\ pre' = IF found THEN <<>> ELSE pre \o slice
     /\ decoder' = decoded.decoder
     /\ parser' = fed.parser
     /\ events' = events \o fed.emitted
     /\ UNCHANGED <<reader, wire>>

SseNext == \E n \in 1..(Len(wire) - pos) : Read(n)

-----------------------------------------------------------------------------
(* What the stream means, without any of the above: the marked symbols are    *)
(* the text, a line ends with LF or CRLF, an event with a blank line.         *)

TextRead == Symbols(SelectSeq(SubSeq(wire, 1, pos), LAMBDA c : c.text))

LineEnds(t) == {i \in DOMAIN t : t[i] = "LF"}
LineAt(t, i) ==
  LET before == {j \in LineEnds(t) : j < i}
      start == IF before = {} THEN 1 ELSE (CHOOSE j \in before : \A k \in before : k <= j) + 1
  IN SelectSeq(SubSeq(t, start, i - 1), LAMBDA b : b # "CR")
Blanks(t) == {i \in LineEnds(t) : LineAt(t, i) = <<>>}
KindsBefore(t, i) ==
  {Head(LineAt(t, j)) : j \in {j \in LineEnds(t) \ Blanks(t) :
                                 j < i /\ ~\E k \in Blanks(t) : j < k /\ k < i}}
EventAt(t, i) ==
  LET kinds == KindsBefore(t, i)
  IN CASE i \notin Blanks(t) -> IF LineAt(t, i) = <<"id">> THEN "Id" ELSE "none"
       [] "done" \in kinds -> "Done"
       [] "done" \notin kinds /\ "data" \in kinds -> "Data"
       [] OTHER -> IF kinds \ {"id"} # {} THEN "Ignored" ELSE "none"
Meaning(t) ==
  LET ends == SetToSortSeq(LineEnds(t), <)
  IN SelectSeq([k \in DOMAIN ends |-> EventAt(t, ends[k])], LAMBDA e : e # "none")

(* However the reads cut the response up, the events emitted so far are those *)
(* of the text read so far: none lost at a boundary of a header, chunk or     *)
(* line, none invented, none out of order (hold.rs feed_body, the read loops  *)
(* of reconnect_storm.rs and fanout.rs).                                      *)
EventsMatchTheStream == reader \in Readers => events = Meaning(TextRead)

\* The text with each CR that no LF follows taken for the end of a line.
BareCrAsLf(t) ==
  [i \in DOMAIN t |-> IF t[i] = "CR" /\ (i = Len(t) \/ t[i + 1] # "LF") THEN "LF" ELSE t[i]]

(* "Each field line ends with `\n`, `\r`, or `\r\n`" (line_parser.rs:17): once *)
(* all is read, the events are those of the lines so ended.                   *)
BareCrEndsALine ==
  reader \in Readers /\ pos = Len(wire) => events = Meaning(BareCrAsLf(TextRead))

=============================================================================
