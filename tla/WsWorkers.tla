----------------------------- MODULE WsWorkers ------------------------------
(* The WebSocket scenarios that are one thread for each connection: echo_rtt  *)
(* (send, wait for the echo, time it), hold (keep it open with heartbeats)    *)
(* and server_push_rtt (time what the server sends), over WsConnection        *)
(* (ws/conn.rs).                                                              *)
(*                                                                            *)
(* The server answers a message once, late or never, in any order, and may    *)
(* send frames nobody asked for, a ping, a close frame, or just hang up.      *)
EXTENDS Naturals, Sequences, FiniteSets, FiniteSetsExt

CONSTANTS Conns,     \* connections of the scenario
          MaxSends,  \* bound: messages or heartbeats of a connection
          MaxNoise,  \* bound: frames that answer nothing, to a connection
          Looks      \* frames recv_matching looks at before it gives up (100)

VARIABLES
  backend,  \* the backend that dispatch has called: one of Kinds here
  over,     \* "no", or what ends the loops: "stop" (the flag), "deadline"
  flavour,  \* CorrelateStrategy of an echo, HeartbeatFrame of a hold
  conn,     \* the locals of a thread and its WsConnection
  peer,     \* the server's side of it: messages it may answer, frames on the way
  stat,     \* ConnStats, HoldStats or PushStats
  wsTotal   \* what the scenario reports

wsVars == <<flavour, conn, peer, stat, wsTotal>>
vars == <<backend, over, wsVars>>

Kinds == {"ws_echo", "ws_hold", "ws_push"}
Flavours == [ws_echo |-> {"PingPong", "MonotonicIdPrepend", "PayloadSubstring",
                          "FirstTextFrame"},
             ws_hold |-> {"Ping", "TextApp"}, ws_push |-> {"none"}]
Counters == {"sent", "recv", "mismatch", "connect", "read", "write", "stalled", "completed"}
NoAnswer == 0

WsInit ==
  /\ flavour = "unset"
  /\ conn = [c \in Conns |-> [pc |-> "start", seq |-> 0, looked |-> 0, closes |-> 0,
                              byPeer |-> FALSE, samples |-> <<>>, owes |-> "nothing"]]
  /\ peer = [c \in Conns |-> [asked |-> {}, inbox |-> <<>>, noise |-> 0, gone |-> FALSE]]
  /\ stat = [c \in Conns |-> [k \in Counters |-> 0]]
  /\ wsTotal = <<>>

Running == backend \in Kinds /\ wsTotal = <<>>
At(c, p) == Running /\ conn[c].pc = p /\ conn[c].owes = "nothing"
GoTo(c, p) == conn' = [conn EXCEPT ![c].pc = p]
Count(c, ks) == stat' = [stat EXCEPT ![c] = [k \in Counters |-> IF k \in ks THEN @[k] + 1 ELSE @[k]]]
Frame0 == UNCHANGED <<backend, over, flavour, wsTotal>>

-----------------------------------------------------------------------------
(* WsConnection::connect.  TCP and TLS have connect_timeout; the request and  *)
(* its answer have none (write_all_mio, read_some_mio).                       *)

Start(c) ==
  /\ At(c, "start")
  /\ IF flavour = "unset" THEN \E f \in Flavours[backend] : flavour' = f
                          ELSE UNCHANGED flavour
  /\ GoTo(c, "tcp")
  /\ UNCHANGED <<backend, over, peer, stat, wsTotal>>

Connected(c) == At(c, "tcp") /\ GoTo(c, "upgrade") /\ UNCHANGED <<peer, stat>> /\ Frame0

ConnectFails(c) ==
  /\ At(c, "tcp") /\ GoTo(c, "left") /\ Count(c, {"connect"})
  /\ UNCHANGED peer /\ Frame0

Upgraded(c) == At(c, "upgrade") /\ GoTo(c, "loop") /\ UNCHANGED <<peer, stat>> /\ Frame0

UpgradeRefused(c) ==
  /\ At(c, "upgrade") /\ GoTo(c, "left") /\ Count(c, {"connect"})
  /\ UNCHANGED peer /\ Frame0

-----------------------------------------------------------------------------
(* The loops *)

\* A message falls due, or a heartbeat.
BeginSend(c) ==
  /\ At(c, "loop") /\ over = "no" /\ backend # "ws_push"
  /\ conn[c].seq < MaxSends
  /\ conn' = [conn EXCEPT ![c].pc = "send", ![c].seq = @ + 1, ![c].looked = 0]
  /\ UNCHANGED <<peer, stat>> /\ Frame0

\* The write goes through once the peer takes the bytes.
Sent(c) ==
  /\ At(c, "send")
  /\ GoTo(c, IF backend = "ws_echo" THEN "await" ELSE "loop")
  /\ peer' = [peer EXCEPT ![c].asked = @ \cup {conn[c].seq}]
  /\ Count(c, {"sent"}) /\ Frame0

\* An echo still closes the connection, a hold drops it.
SendFails(c) ==
  /\ At(c, "send") /\ Count(c, {"write"})
  /\ GoTo(c, IF backend = "ws_echo" THEN "close" ELSE "left")
  /\ UNCHANGED peer /\ Frame0

\* The condition of the loop.  A push that got less than half of what was
\* expected is stalled.
LoopEnds(c) ==
  /\ At(c, "loop") /\ over # "no"
  /\ GoTo(c, "close")
  /\ \/ backend = "ws_hold" /\ Count(c, {"completed"})
     \/ backend = "ws_push" /\ Count(c, {"stalled"})
     \/ backend # "ws_hold" /\ UNCHANGED stat
  /\ UNCHANGED peer /\ Frame0

\* A wrong Close: it does not know that close frames were exchanged.
CloseAgain(c) ==
  /\ At(c, "close")
  /\ conn' = [conn EXCEPT ![c].pc = "left", ![c].closes = @ + 1]
  /\ UNCHANGED <<peer, stat>> /\ Frame0

\* close(): a second close frame is never sent.
Close(c) ==
  /\ At(c, "close")
  /\ conn' = [conn EXCEPT ![c].pc = "left", ![c].closes = IF @ = 0 THEN 1 ELSE @]
  /\ UNCHANGED <<peer, stat>> /\ Frame0

-----------------------------------------------------------------------------
(* try_recv and handle_frame *)

\* In recv, with a frame to write before it goes on: a pong, the reply to a close.
InRecv(c, f) == /\ Running /\ conn[c].owes = f
                /\ conn[c].pc = IF backend = "ws_echo" THEN "await" ELSE "loop"
Receiving(c) == InRecv(c, "nothing")
Next1(c) == Head(peer[c].inbox)
Consume(c) == peer' = [peer EXCEPT ![c].inbox = Tail(@)]

\* A ping is answered without the caller hearing of it, unless that fails.
HandlePing(c) ==
  /\ Receiving(c) /\ peer[c].inbox # <<>> /\ Next1(c).kind = "Ping"
  /\ conn' = [conn EXCEPT ![c].owes = "pong"]
  /\ Consume(c) /\ UNCHANGED stat /\ Frame0

PongSent(c) ==
  /\ InRecv(c, "pong")
  /\ conn' = [conn EXCEPT ![c].owes = "nothing"]
  /\ UNCHANGED <<peer, stat>> /\ Frame0

PongFails(c) ==
  /\ InRecv(c, "pong")
  /\ conn' = [conn EXCEPT ![c].owes = "nothing",
                          ![c].pc = IF backend = "ws_echo" THEN "close" ELSE "left"]
  /\ Count(c, {"read"}) /\ UNCHANGED peer /\ Frame0

\* A close frame is answered too.
HandleClose(c) ==
  /\ Receiving(c) /\ peer[c].inbox # <<>> /\ Next1(c).kind = "Close"
  /\ conn' = [conn EXCEPT ![c].owes = "close"]
  /\ Consume(c) /\ UNCHANGED stat /\ Frame0

\* Whether the reply went out or failed, a hold returns at once, a push has its
\* rate looked at, an echo gives its message up; none is an error.
CloseReplied(c) ==
  /\ InRecv(c, "close")
  /\ conn' = [conn EXCEPT ![c].pc = IF backend = "ws_hold" THEN "left" ELSE "close",
                          ![c].closes = IF @ = 0 THEN 1 ELSE @, ![c].byPeer = TRUE,
                          ![c].owes = "nothing"]
  /\ \/ backend = "ws_push" /\ Count(c, {"stalled"})
     \/ UNCHANGED stat
  /\ UNCHANGED peer /\ Frame0

\* A hold counts every frame, pongs too; a push counts the data.
CountFrame(c) ==
  /\ Receiving(c) /\ backend # "ws_echo" /\ peer[c].inbox # <<>>
  /\ Next1(c).kind \in {"Text", "Pong"}
  /\ IF backend = "ws_hold" \/ Next1(c).kind = "Text" THEN Count(c, {"recv"})
                                                      ELSE UNCHANGED stat
  /\ Consume(c) /\ UNCHANGED conn /\ Frame0

\* A wrong Matches: the id at the front is not compared.
MatchesAnyId(c, f) == f.kind = (IF flavour = "PingPong" THEN "Pong" ELSE "Text") /\ f.of # NoAnswer

\* MatchKey: a pong of the right length, the id at the front, a marker that
\* every message has, or anything.
Matches(c, f) ==
  CASE flavour = "PingPong" -> f.kind = "Pong" /\ f.of # NoAnswer
    [] flavour = "MonotonicIdPrepend" -> f.kind = "Text" /\ f.of = conn[c].seq
    [] flavour = "PayloadSubstring" -> f.kind = "Text" /\ f.of # NoAnswer
    [] OTHER -> f.kind = "Text"

EchoMatches(c) ==
  /\ Receiving(c) /\ backend = "ws_echo" /\ peer[c].inbox # <<>>
  /\ Next1(c).kind \in {"Text", "Pong"} /\ Matches(c, Next1(c))
  /\ conn' = [conn EXCEPT ![c].pc = "loop",
                ![c].samples = Append(@, [of |-> Next1(c).of, for |-> conn[c].seq])]
  /\ Count(c, {"recv"}) /\ Consume(c) /\ Frame0

\* After so many frames the message is an error, and the loop goes on.
EchoLooksOn(c) ==
  /\ Receiving(c) /\ backend = "ws_echo" /\ peer[c].inbox # <<>>
  /\ Next1(c).kind \in {"Text", "Pong"} /\ ~Matches(c, Next1(c))
  /\ LET last == conn[c].looked + 1 = Looks
     IN /\ conn' = [conn EXCEPT ![c].looked = @ + 1, ![c].pc = IF last THEN "loop" ELSE @]
        /\ IF last THEN Count(c, {"read", "mismatch"}) ELSE UNCHANGED stat
  /\ Consume(c) /\ Frame0

\* The deadline, or the flag seen between two frames: no error.
EchoTimesOut(c) ==
  /\ At(c, "await") /\ over # "no"
  /\ GoTo(c, "close") /\ UNCHANGED <<peer, stat>> /\ Frame0

\* End of stream, a reset, a bad frame.
RecvFails(c) ==
  /\ Receiving(c) /\ peer[c].inbox = <<>> /\ peer[c].gone
  /\ GoTo(c, IF backend = "ws_echo" THEN "close" ELSE "left")
  /\ Count(c, {"read"}) /\ UNCHANGED peer /\ Frame0

-----------------------------------------------------------------------------
(* The server *)

Open(c) == Running /\ conn[c].pc \in {"loop", "send", "await"} /\ ~peer[c].gone

Answer(c) ==
  /\ Open(c)
  /\ LET kind == IF flavour \in {"PingPong", "Ping"} THEN "Pong" ELSE "Text"
     IN \E m \in peer[c].asked :
          peer' = [peer EXCEPT ![c].asked = @ \ {m},
                               ![c].inbox = Append(@, [kind |-> kind, of |-> m])]
  /\ UNCHANGED <<conn, stat>> /\ Frame0

\* For a push this is all there is.
Unasked(c) ==
  /\ Open(c) /\ peer[c].noise < MaxNoise
  /\ \E kind \in {"Text", "Pong", "Ping"} :
       peer' = [peer EXCEPT ![c].noise = @ + 1,
                            ![c].inbox = Append(@, [kind |-> kind, of |-> NoAnswer])]
  /\ UNCHANGED <<conn, stat>> /\ Frame0

HangUp(c) ==
  /\ Open(c)
  /\ \E farewell \in {<<>>, <<[kind |-> "Close", of |-> NoAnswer]>>} :
       peer' = [peer EXCEPT ![c].gone = TRUE, ![c].inbox = @ \o farewell]
  /\ UNCHANGED <<conn, stat>> /\ Frame0

-----------------------------------------------------------------------------

\* The sums over the joined threads; a stalled connection is a read error.
WsReport ==
  /\ Running /\ \A c \in Conns : conn[c].pc = "left"
  /\ LET Sum(k) == MapThenSumSet(LAMBDA c : stat[c][k], Conns)
     IN wsTotal' = [requests |-> Sum(IF backend = "ws_hold" THEN "completed" ELSE "recv"),
                    connect |-> Sum("connect"), read |-> Sum("read") + Sum("stalled"),
                    write |-> Sum("write")]
  /\ UNCHANGED <<backend, over, flavour, conn, peer, stat>>

\* What a thread does without help from its peer, and what it cannot: no write has
\* a timeout (write_all_mio), nor has the answer to the upgrade.
Alone(c) ==
  \/ Start(c) \/ Connected(c) \/ ConnectFails(c) \/ BeginSend(c) \/ LoopEnds(c)
  \/ HandlePing(c) \/ HandleClose(c) \/ CountFrame(c)
  \/ EchoMatches(c) \/ EchoLooksOn(c) \/ EchoTimesOut(c) \/ RecvFails(c)
  \/ conn[c].closes > 0 /\ Close(c)
WithPeer(c) ==
  \/ Upgraded(c) \/ UpgradeRefused(c) \/ Sent(c) \/ SendFails(c)
  \/ PongSent(c) \/ PongFails(c) \/ CloseReplied(c) \/ Close(c)
Server(c) == Answer(c) \/ Unasked(c) \/ HangUp(c)

WsNext == WsReport \/ \E c \in Conns : Alone(c) \/ WithPeer(c) \/ Server(c)

WsFairness == WF_vars(WsReport) /\ \A c \in Conns : WF_vars(Alone(c))

\* Threads that wait for their peer with no timeout.
Stuck == {c \in Conns : \/ conn[c].pc \in {"upgrade", "send"} \/ conn[c].owes # "nothing"
                        \/ conn[c].pc = "close" /\ conn[c].closes = 0}

-----------------------------------------------------------------------------
(* Properties *)

(* A round trip is timed between a message and its own echo: always with an   *)
(* id in front, with the other strategies as long as the server sends nothing *)
(* but answers (recv_matching; an echo that comes after its message was given *)
(* up would be taken for the next one's).                                     *)
EchoIsOfItsMessage ==
  backend = "ws_echo" =>
    \A c \in Conns :
      flavour = "MonotonicIdPrepend" \/ peer[c].noise = 0 =>
        \A i \in DOMAIN conn[c].samples : conn[c].samples[i].of = conn[c].samples[i].for

(* Where a connection's messages and its end went: each message sent was      *)
(* answered or charged, but for the last one; each connection that is over    *)
(* completed, was closed by its peer, ran out of time, or is charged with one *)
(* error that ended it; and it never sent two close frames.                   *)
WsConnectionsAccounted ==
  \A c \in Conns :
    LET n == stat[c]
        fatal == n["connect"] + n["write"] + (n["read"] - n["mismatch"])
    IN /\ backend = "ws_echo" => n["sent"] - n["recv"] - n["mismatch"] \in {0, 1}
       /\ fatal + n["completed"] + (IF conn[c].byPeer THEN 1 ELSE 0) <= 1
       /\ fatal + n["stalled"] <= 1
       /\ conn[c].closes <= 1
       /\ conn[c].pc = "left" /\ over = "no" =>
            fatal + (IF conn[c].byPeer THEN 1 ELSE 0) = 1

=============================================================================
