---------------------------- MODULE BodyFraming -----------------------------
(* Where one HTTP/1.1 response ends (mio_h1.rs try_read and check_headers,    *)
(* raw_h1_common.rs): the head says how the body is framed, and the decoder   *)
(* of a chunked body goes on from where it stopped as the buffer grows.       *)
(*                                                                            *)
(* The head is one symbol, with what the code looks up in it, and the blank   *)
(* line.  A wire keeps apart what the response is and what follows it.        *)
EXTENDS Naturals, Sequences, SequencesExt

CONSTANTS Responses  \* records: head, body and rest (what follows), sound

VARIABLES
  reader,   \* "h1" here
  wire,     \* head, body and rest in one
  pos,      \* how much of it has been read: read_buf
  answer,   \* the record of Responses that is sent (ghost)
  h1,       \* ConnState and the ChunkedDecoder in it
  result    \* "none", "sample" or "error"

h1Vars == <<answer, h1, result>>

HeadLength == 5
HeadOf(r) == <<r.head, "CR", "LF", "CR", "LF">>
WireOf(r) == HeadOf(r) \o r.body \o r.rest

Hex == <<"0", "1", "2", "3">>
\* A wrong Blank: nothing is trimmed.
NoBlank == {}

Blank == {" "}

\* Leading and trailing blanks are dropped; anything that is no digit is an error.
ParseHexSize(s) ==
  LET kept == {i \in DOMAIN s : s[i] \notin Blank}
      value(t) == FoldLeft(LAMBDA n, b : 16 * n + (CHOOSE k \in DOMAIN Hex : Hex[k] = b) - 1, 0, t)
      from == CHOOSE i \in kept : \A j \in kept : i <= j
      to == CHOOSE i \in kept : \A j \in kept : i >= j
      core == SubSeq(s, from, to)
  IN IF kept = {} \/ \E i \in DOMAIN core : \A k \in DOMAIN Hex : Hex[k] # core[i]
     THEN [ok |-> FALSE] ELSE [ok |-> TRUE, size |-> value(core)]

\* First place of a subsequence, 0 if there is none.
Find(s, what) ==
  LET places == {i \in 1..(Len(s) - Len(what) + 1) : SubSeq(s, i, i + Len(what) - 1) = what}
  IN IF places = {} THEN 0 ELSE CHOOSE i \in places : \A j \in places : i <= j

FreshChunks == [state |-> "Size", at |-> 0, remaining |-> 0]
Outcome(d, kind) == [decoder |-> d, kind |-> kind]

DataEnds(d) == d.at + d.remaining + 2

\* ChunkedDecoder::advance on all of the body that there is.
RECURSIVE Advance(_, _)
Advance(d, body) ==
  LET rem == SubSeq(body, d.at + 1, Len(body))
      crlf == Find(rem, <<"CR", "LF">>)
      line == SubSeq(rem, 1, crlf - 1)
      ext == Find(line, <<";">>)
      size == ParseHexSize(IF ext = 0 THEN line ELSE SubSeq(line, 1, ext - 1))
      block == Find(rem, <<"CR", "LF", "CR", "LF">>)
  IN CASE d.state = "Size" ->
            IF crlf = 0 THEN Outcome(d, "more")
            ELSE IF ~size.ok THEN Outcome(d, "error")
            ELSE Advance([state |-> IF size.size = 0 THEN "Trailers" ELSE "Data",
                          at |-> d.at + crlf + 1, remaining |-> size.size], body)
       [] d.state = "Data" ->
            IF Len(body) < DataEnds(d) THEN Outcome(d, "more")
            ELSE IF SubSeq(body, DataEnds(d) - 1, DataEnds(d)) # <<"CR", "LF">>
                 THEN Outcome(d, "error")
            ELSE Advance([state |-> "Size", at |-> DataEnds(d), remaining |-> 0], body)
       [] d.state = "Trailers" ->
            IF Len(rem) < 2 THEN Outcome(d, "more")
            ELSE IF crlf = 1 THEN Outcome([d EXCEPT !.at = @ + 2], "done")
            ELSE IF block = 0 THEN Outcome(d, "more")
            ELSE Outcome([d EXCEPT !.at = @ + block + 3], "done")

-----------------------------------------------------------------------------

FramingInit ==
  /\ h1 = [st |-> "ReadingHeaders", length |-> 0, decoder |-> FreshChunks]
  /\ result = "none"

\* What the connection is left in, and what is reported.
Ends(st, kind) == h1' = [h1 EXCEPT !.st = st] /\ result' = kind
Waits(st, length, decoder) ==
  h1' = [st |-> st, length |-> length, decoder |-> decoder] /\ UNCHANGED result

InChunks(d, body, afterwards) ==
  LET o == Advance(d, body)
  IN CASE o.kind = "done"  -> Ends(afterwards, "sample")
       [] o.kind = "more"  -> Waits("ReadingChunkedBody", 0, o.decoder)
       [] o.kind = "error" -> Ends("Dead", "error")

\* chunked overrides a length; with neither the response ends here, and the
\* connection with it.
CheckHeaders(head, body) ==
  LET after == IF head.close THEN "Dead" ELSE "Idle"
  IN CASE head.chunked -> InChunks(FreshChunks, body, after)
       [] ~head.chunked /\ head.cl = "malformed" -> Ends("Dead", "error")
       [] ~head.chunked /\ head.cl = "missing" -> Ends("Dead", "sample")
       [] OTHER -> IF Len(body) >= head.length THEN Ends(after, "sample")
                   ELSE Waits("ReadingBody", head.length, FreshChunks)

\* All that the socket has is read first.  A body that completes in a later
\* read leaves the connection Idle whatever the head said.
TryRead(n) ==
  LET body == SubSeq(wire, HeadLength + 1, pos + n)
  IN /\ reader = "h1" /\ result = "none"
     /\ pos' = pos + n
     /\ CASE h1.st = "ReadingHeaders" ->
               IF pos + n < HeadLength THEN UNCHANGED <<h1, result>>
               ELSE CheckHeaders(wire[1], body)
          [] h1.st = "ReadingBody" ->
               IF Len(body) >= h1.length THEN Ends("Idle", "sample") ELSE UNCHANGED <<h1, result>>
          [] h1.st = "ReadingChunkedBody" -> InChunks(h1.decoder, body, "Idle")
     /\ UNCHANGED <<reader, wire, answer>>

FramingNext == \E n \in 1..(Len(wire) - pos) : TryRead(n)

-----------------------------------------------------------------------------

(* However the reads cut it up, a sound response is a sample in the very read *)
(* that brings its last byte, one with no length as soon as its head is       *)
(* there; a broken one never is.  Only then may the connection be used again, *)
(* and never after a response without a length.  The decoder has consumed     *)
(* nothing of what follows (ChunkedDecoder::advance, check_headers).          *)
ResponseEndsWhereItEnds ==
  reader = "h1" =>
    LET end == HeadLength + (IF wire[1].cl = "missing" /\ ~wire[1].chunked THEN 0
                             ELSE Len(answer.body))
    IN /\ answer.sound => (result = "sample" <=> pos >= end)
       /\ ~answer.sound => result # "sample"
       /\ result = "error" => ~answer.sound /\ h1.st = "Dead"
       /\ h1.st = "Idle" => result = "sample" /\ (wire[1].cl # "missing" \/ wire[1].chunked)
       /\ h1.decoder.at <= Len(answer.body)

=============================================================================
