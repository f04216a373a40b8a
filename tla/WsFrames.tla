------------------------------ MODULE WsFrames ------------------------------
(* What a WebSocket client reads (ws/frame.rs decode_frame, ws/handshake.rs,  *)
(* ws/conn.rs connect, recv and handle_frame): the answer to the upgrade and  *)
(* right behind it the frames, which reads may cut at any byte.               *)
(*                                                                            *)
(* A frame on the wire is its two leading bytes, none, two or eight bytes of  *)
(* length, and its payload, whose bytes name the frame they belong to.        *)
EXTENDS Naturals, Sequences, SequencesExt

CONSTANT MaxHeaderBytes  \* 16 KiB

VARIABLES
  reader,    \* "ws" here
  wire,      \* the answer to the upgrade and the frames
  pos,       \* how much of it has been read
  frames,    \* the frames on the wire (ghost)
  upgraded,  \* "no", "yes" or the HandshakeError
  buf,       \* raw, then recv_buf
  fragment,  \* WsConnection.fragment: <<>> or the opcode and the bytes
  received,  \* what recv returned: kind and payload
  pongs,     \* payloads of the pongs sent
  ended      \* "no", "closed" (and answered) or "failed"

wsVars == <<frames, upgraded, buf, fragment, received, pongs, ended>>

MaxPayload == 64 * 1024 * 1024
Control == {"Ping", "Pong", "Close"}
Opcodes == {"Text", "Binary", "Cont"} \cup Control

-----------------------------------------------------------------------------
(* The server's side *)

\* The n bytes of a number, the high ones first.
BigEndian(x, n) ==
  [i \in 1..n |-> [value |-> IF n - i > 3 THEN 0 ELSE (x \div 256^(n - i)) % 256]]
LengthBytes == [short |-> 0, long16 |-> 2, long64 |-> 8]

PayloadBytes(f, k) == [i \in 1..f.len |-> [frame |-> k, index |-> i]]

\* A frame that is too long is not sent to its end.
FrameBytes(f, k) ==
  <<[fin |-> f.fin, rsv |-> f.rsv, op |-> f.op],
    [masked |-> f.masked,
     len |-> CASE f.form = "short" -> f.len [] f.form = "long16" -> 126 [] OTHER -> 127]>>
  \o BigEndian(f.len, LengthBytes[f.form])
  \o (IF f.len > 125 THEN <<>> ELSE PayloadBytes(f, k))

BytesOf(fs) == FlattenSeq([k \in DOMAIN fs |-> FrameBytes(fs[k], k)])

-----------------------------------------------------------------------------
(* The answer to the upgrade: texts, one a line, each with its CR and LF *)

AsBytes(texts) == [i \in DOMAIN texts |-> [text |-> texts[i]]]

HeadersEnd(raw) ==
  LET places == {i \in 4..Len(raw) : SubSeq(raw, i - 3, i) = AsBytes(<<"CR", "LF", "CR", "LF">>)}
  IN IF places = {} THEN 0 ELSE CHOOSE i \in places : \A j \in places : i <= j

\* The checks of validate_response, in their order; the last accept counts.
ValidateResponse(head) ==
  LET has(x) == \E i \in DOMAIN head : head[i].text = x
      accepts == SelectSeq(head, LAMBDA x : x.text \in {"accept", "other-accept"})
  IN CASE ~has("101") -> "NotSwitching"
       [] has("101") /\ ~has("upgrade") -> "MissingUpgrade"
       [] has("101") /\ has("upgrade") /\ ~has("connection") -> "MissingConnection"
       [] OTHER -> IF accepts = <<>> THEN "MissingAccept"
                   ELSE IF Last(accepts).text # "accept" THEN "AcceptMismatch" ELSE "yes"

\* httparse refuses a line that is no header, or too many of them.
Verdict(head) ==
  IF \E i \in DOMAIN head : head[i].text = "malformed" THEN "UnparseableResponse"
  ELSE ValidateResponse(head)

-----------------------------------------------------------------------------
(* decode_frame *)

Number(bytes) == FoldLeft(LAMBDA n, b : IF n > MaxPayload THEN n ELSE 256 * n + b.value, 0, bytes)

Refuse(kind) == [kind |-> kind]

DecodeFrame(b) ==
  IF Len(b) < 2 THEN Refuse("more")
  ELSE LET first == b[1]
           ext == CASE b[2].len < 126 -> 0 [] b[2].len = 126 -> 2 [] OTHER -> 8
           len == IF ext = 0 THEN b[2].len ELSE Number(SubSeq(b, 3, 2 + ext))
           total == 2 + ext + len
       IN CASE first.rsv \/ first.op \notin Opcodes \/ b[2].masked -> Refuse("error")
            [] OTHER ->
               IF Len(b) < 2 + ext THEN Refuse("more")
               ELSE IF ext = 8 /\ len > MaxPayload THEN Refuse("error")
               ELSE IF first.op \in Control /\ (~first.fin \/ len > 125) THEN Refuse("error")
               ELSE IF Len(b) < total THEN Refuse("more")
               ELSE [kind |-> "frame", op |-> first.op, fin |-> first.fin,
                     payload |-> SubSeq(b, 3 + ext, total), total |-> total]

-----------------------------------------------------------------------------
(* recv and handle_frame *)

FramesInit ==
  /\ upgraded = "no" /\ buf = <<>> /\ fragment = <<>>
  /\ received = <<>> /\ pongs = <<>> /\ ended = "no"

Open == reader = "ws" /\ upgraded = "yes" /\ ended = "no"
Waiting == DecodeFrame(buf).kind = "more"

\* connect reads until the blank line; what is behind it is left in recv_buf.
ReadUpgrade(n) ==
  /\ reader = "ws" /\ upgraded = "no"
  /\ pos' = pos + n
  /\ LET raw == buf \o SubSeq(wire, pos + 1, pos + n)
         end == HeadersEnd(raw)
     IN /\ buf' = SubSeq(raw, end + 1, Len(raw))
        /\ upgraded' = IF end # 0 THEN Verdict(SubSeq(raw, 1, end))
                       ELSE IF Len(raw) >= MaxHeaderBytes THEN "HeadersTooBig" ELSE "no"
  /\ UNCHANGED <<reader, wire, frames, fragment, received, pongs, ended>>

\* The stream ends before the blank line.
UpgradeHangsUp ==
  /\ reader = "ws" /\ upgraded = "no" /\ pos = Len(wire)
  /\ upgraded' = "UnparseableResponse"
  /\ UNCHANGED <<reader, wire, pos, frames, buf, fragment, received, pongs, ended>>

\* More is read only when no whole frame is left.
ReadFrames(n) ==
  /\ Open /\ Waiting
  /\ pos' = pos + n
  /\ buf' = buf \o SubSeq(wire, pos + 1, pos + n)
  /\ UNCHANGED <<reader, wire, frames, upgraded, fragment, received, pongs, ended>>

Fail == ended' = "failed" /\ UNCHANGED <<fragment, received, pongs>>
Return(kind, payload) ==
  /\ received' = Append(received, [kind |-> kind, payload |-> payload])
  /\ UNCHANGED <<pongs, ended>>

\* Text, Binary, or the rest of one.
HandleData(f) ==
  IF (f.op = "Cont") = (fragment = <<>>) THEN Fail
  ELSE LET kind == IF f.op = "Cont" THEN fragment[1] ELSE f.op
           bytes == (IF f.op = "Cont" THEN fragment[2] ELSE <<>>) \o f.payload
       IN IF f.fin THEN fragment' = <<>> /\ Return(kind, bytes)
          ELSE fragment' = <<kind, bytes>> /\ UNCHANGED <<received, pongs, ended>>

\* A wrong HandleControl: a control frame ends the message it comes in between.
HandleControlEndsMessage(f) ==
  /\ fragment' = <<>>
  /\ CASE f.op = "Ping"  -> pongs' = Append(pongs, f.payload) /\ UNCHANGED <<received, ended>>
       [] f.op = "Pong"  -> Return("Pong", f.payload)
       [] f.op = "Close" -> ended' = "closed" /\ UNCHANGED <<received, pongs>>

HandleControl(f) ==
  /\ UNCHANGED fragment
  /\ CASE f.op = "Ping"  -> pongs' = Append(pongs, f.payload) /\ UNCHANGED <<received, ended>>
       [] f.op = "Pong"  -> Return("Pong", f.payload)
       [] f.op = "Close" -> ended' = "closed" /\ UNCHANGED <<received, pongs>>

HandleFrame ==
  /\ Open /\ ~Waiting
  /\ LET f == DecodeFrame(buf)
     IN IF f.kind = "error" THEN Fail /\ UNCHANGED buf
        ELSE /\ buf' = SubSeq(buf, f.total + 1, Len(buf))
             /\ IF f.op \in Control THEN HandleControl(f) ELSE HandleData(f)
  /\ UNCHANGED <<reader, wire, pos, frames, upgraded>>

FramesNext ==
  \/ HandleFrame \/ UpgradeHangsUp
  \/ \E n \in 1..(Len(wire) - pos) : ReadUpgrade(n) \/ ReadFrames(n)

-----------------------------------------------------------------------------
(* What the frames mean, as frames *)

Payload(k) == PayloadBytes(frames[k], k)
IsData(k) == frames[k].op \notin Control

\* The data frame before k, 0 if there is none.
Previous(k) ==
  LET before == {j \in 1..(k - 1) : IsData(j)}
  IN IF before = {} THEN 0 ELSE CHOOSE j \in before : \A i \in before : i <= j
Unfinished(k) == Previous(k) # 0 /\ ~frames[Previous(k)].fin

Legal(k) ==
  LET f == frames[k]
  IN /\ ~f.rsv /\ ~f.masked /\ f.op \in Opcodes /\ f.len <= MaxPayload
     /\ f.op \in Control => f.fin /\ f.len <= 125
     /\ IsData(k) => (f.op = "Cont") = Unfinished(k)

\* The frames that count: up to the first illegal one or the close.
Counted == {k \in DOMAIN frames :
              Legal(k) /\ \A j \in 1..(k - 1) : Legal(j) /\ frames[j].op # "Close"}

\* A message ends in frame k; it began in the last frame that is no continuation.
MessageAt(k) ==
  LET start == CHOOSE j \in 1..k : /\ IsData(j) /\ frames[j].op # "Cont"
                                   /\ \A i \in (j + 1)..k : IsData(i) => frames[i].op = "Cont"
      own == SelectSeq([i \in 1..(k - start + 1) |-> i + start - 1], IsData)
  IN IF frames[k].op = "Pong" THEN [kind |-> "Pong", payload |-> Payload(k)]
     ELSE [kind |-> frames[start].op, payload |-> FlattenSeq([i \in DOMAIN own |-> Payload(own[i])])]

Ending == {k \in Counted : frames[k].op = "Pong" \/ (IsData(k) /\ frames[k].fin)}
Messages == LET ks == SetToSortSeq(Ending, <) IN [i \in DOMAIN ks |-> MessageAt(ks[i])]
Pings == LET ks == SetToSortSeq({k \in Counted : frames[k].op = "Ping"}, <)
         IN [i \in DOMAIN ks |-> Payload(ks[i])]

(* However the reads cut the answer and the frames up, the upgrade is decided *)
(* by the whole answer, unless that is longer than connect waits for; recv    *)
(* returns the messages of the legal frames in order, each whole, with its    *)
(* own bytes and whatever control frames came in between; each ping is        *)
(* answered with its payload; and once everything is read nothing is missing  *)
(* and the connection has ended exactly if the frames ask for it (connect,    *)
(* decode_frame, handle_frame).                                               *)
FramesMatchTheStream ==
  reader = "ws" =>
    /\ LET end == HeadersEnd(wire)
       IN CASE upgraded = "no" -> TRUE
            [] upgraded = "HeadersTooBig" -> end = 0 \/ end > MaxHeaderBytes
            [] OTHER -> upgraded = IF end = 0 THEN "UnparseableResponse"
                                   ELSE Verdict(SubSeq(wire, 1, end))
    /\ IsPrefix(received, Messages) /\ IsPrefix(pongs, Pings)
    /\ ended = "closed" => \E k \in Counted : frames[k].op = "Close"
    /\ ended = "failed" => \E k \in DOMAIN frames : ~Legal(k)
    /\ upgraded = "yes" /\ pos = Len(wire) /\ (ended # "no" \/ Waiting) =>
         /\ received = Messages /\ pongs = Pings
         /\ ended = "no" <=> \A k \in DOMAIN frames : Legal(k) /\ frames[k].op # "Close"

(* "`Pong` -> ignored (we don't issue keepalive pings)" (conn.rs:343): recv   *)
(* does not return one.                                                       *)
PongsAreIgnored ==
  reader = "ws" => \A i \in DOMAIN received : received[i].kind # "Pong"

=============================================================================
