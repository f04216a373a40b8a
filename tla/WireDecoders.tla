---------------------------- MODULE WireDecoders ----------------------------
(* The decoders that stand between a socket and the state machines of the     *)
(* backends: one connection of one kind at a time, with every way in which    *)
(* its reads can cut what the server sends.                                   *)
EXTENDS Naturals, Sequences

CONSTANTS Texts,      \* bodies of SSE responses, as sequences of symbols
          Chunkings,  \* for a length, the lengths of the chunks it is sent in
          Upgrades,   \* records: head, the answer to a WebSocket upgrade, and frames
          MaxHeaderBytes,  \* how much of that answer is read (16 KiB)
          Responses   \* HTTP/1.1 responses

VARIABLES reader, wire, pos,
          pre, inBody, decoder, parser, events,
          frames, upgraded, buf, fragment, received, pongs, ended,
          answer, h1, result

Sse  == INSTANCE SseStream
Ws   == INSTANCE WsFrames
Http == INSTANCE BodyFraming

sseVars == <<pre, inBody, decoder, parser, events>>
wsVars == <<frames, upgraded, buf, fragment, received, pongs, ended>>
h1Vars == <<answer, h1, result>>
vars == <<reader, wire, pos, sseVars, wsVars, h1Vars>>

NoAnswer == [head |-> <<>>, body |-> <<>>, rest |-> <<>>, sound |-> TRUE]

Init ==
  /\ pos = 0 /\ Sse!SseInit /\ Ws!FramesInit /\ Http!FramingInit
  /\ \/ /\ reader \in Sse!Readers
        /\ \E t \in Texts : \E cs \in Chunkings[Len(t)] : wire = Sse!Response(t, cs)
        /\ frames = <<>> /\ answer = NoAnswer
     \/ /\ reader = "ws"
        /\ \E u \in Upgrades : wire = Ws!AsBytes(u.head) \o Ws!BytesOf(u.frames) /\ frames = u.frames
        /\ answer = NoAnswer
     \/ /\ reader = "h1"
        /\ \E r \in Responses : wire = Http!WireOf(r) /\ answer = r
        /\ frames = <<>>

Next ==
  \/ Sse!SseNext /\ UNCHANGED <<wsVars, h1Vars>>
  \/ Ws!FramesNext /\ UNCHANGED <<sseVars, h1Vars>>
  \/ Http!FramingNext /\ UNCHANGED <<sseVars, wsVars>>

Spec == Init /\ [][Next]_vars

-----------------------------------------------------------------------------
(* Properties *)

(* See SseStream. *)
EventsMatchTheStream == Sse!EventsMatchTheStream

(* "Each field line ends with `\n`, `\r`, or `\r\n`" (line_parser.rs:17). *)
BareCrEndsALine == Sse!BareCrEndsALine

(* See WsFrames. *)
FramesMatchTheStream == Ws!FramesMatchTheStream

(* "`Pong` -> ignored" (conn.rs:343). *)
PongsAreIgnored == Ws!PongsAreIgnored

(* See BodyFraming. *)
ResponseEndsWhereItEnds == Http!ResponseEndsWhereItEnds

=============================================================================
