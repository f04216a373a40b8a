----------------------------- MODULE Calibration ------------------------------
(* The self-check of calibrate, measure and curve (runtime/src/calibrate.rs): *)
(* the client sends requests, one at a time and over one connection of a pool *)
(* after the other, to an echo server in a thread of its own.  Both are       *)
(* driven by edge-triggered polls: a readiness is announced once, and for the *)
(* room to write only to who asked for it.  A request is two bytes here.      *)
EXTENDS Naturals, Sequences, SequencesExt, FiniteSets, Functions

CONSTANTS PoolSize,     \* persistent connections
          Room,         \* bytes a socket buffers in one direction
          MaxRequests   \* bound on the requests sent

VARIABLES
  backend,   \* what the command runs: "self_check" here
  over,      \* "deadline" once the time given is up
  client,    \* "connect", "send", "receive", "result", or the verdict
  up,        \* connections known to be established
  id,        \* req_id
  sent,      \* bytes of the request that are written
  heard,     \* bytes read for it; a byte is its request's number
  counted,   \* completed
  toEcho, toClient, \* bytes in the sockets
  thread,    \* the echo server: "on", "left", or "joined" by its owner
  accepted,  \* its connections
  queued,    \* their pending_write
  writable,  \* those whose interest includes WRITABLE
  announced  \* what its poll will report: pairs of a connection and "r" or "w"

checkVars == <<client, up, id, sent, heard, counted, toEcho, toClient,
               thread, accepted, queued, writable, announced>>

Pool == 1..PoolSize
Size == 2
Verdicts == {"Pass", "Marginal", "Refuse"}

CheckInit ==
  /\ client = "connect" /\ up = {} /\ id = 0 /\ sent = 0 /\ heard = <<>> /\ counted = 0
  /\ toEcho = [c \in Pool |-> <<>>] /\ toClient = [c \in Pool |-> <<>>]
  /\ thread = "on" /\ accepted = {} /\ queued = [c \in Pool |-> <<>>]
  /\ writable = {} /\ announced = {}

In(p) == backend = "self_check" /\ client = p
Server == UNCHANGED <<thread, accepted, queued, writable>>
Others == UNCHANGED <<backend, over>>

\* The pool goes round: request n is sent over connection n modulo its size.
Current == ((id - 1) % PoolSize) + 1

-----------------------------------------------------------------------------
(* The client *)

\* wait_connected: the kernel connects, whether or not the server has accepted.
Connected(c) ==
  /\ In("connect") /\ c \in Pool \ up /\ thread = "on"
  /\ up' = up \cup {c}
  /\ UNCHANGED <<client, id, sent, heard, counted, toEcho, toClient, announced>> /\ Server /\ Others

\* An error, or five seconds: the check as a whole fails, without a verdict.
ConnectFails ==
  /\ In("connect") /\ up # Pool
  /\ client' = "failed"
  /\ UNCHANGED <<up, id, sent, heard, counted, toEcho, toClient, announced>> /\ Server /\ Others

\* The head of the loop: the time is up, or the next request is due.
NextRequest ==
  /\ \/ In("connect") /\ up = Pool
     \/ In("next")
  /\ IF over = "deadline" \/ id = MaxRequests
     THEN client' = "result" /\ UNCHANGED <<id, sent, heard>>
     ELSE client' = "send" /\ id' = id + 1 /\ sent' = 0 /\ heard' = <<>>
  /\ UNCHANGED <<up, counted, toEcho, toClient, announced>> /\ Server /\ Others

\* nb_write_all: a byte goes where there is room.
Write ==
  /\ In("send") /\ thread = "on" /\ Len(toEcho[Current]) < Room
  /\ toEcho' = [toEcho EXCEPT ![Current] = Append(@, id)]
  /\ announced' = announced \cup ({<<Current, "r">>} \cap (accepted \X {"r"}))
  /\ sent' = sent + 1
  /\ client' = IF sent' = Size THEN "receive" ELSE "send"
  /\ UNCHANGED <<up, id, heard, counted, toClient>> /\ Server /\ Others

\* nb_read_exact: a byte is read; room for the server is announced if it asked.
ReadExact ==
  /\ In("receive") /\ toClient[Current] # <<>>
  /\ toClient' = [toClient EXCEPT ![Current] = Tail(@)]
  /\ announced' = announced \cup ({<<Current, "w">>} \cap (writable \X {"w"}))
  /\ heard' = Append(heard, Head(toClient[Current]))
  /\ IF Len(heard') = Size THEN client' = "next" /\ counted' = counted + 1
     ELSE UNCHANGED <<client, counted>>
  /\ UNCHANGED <<up, id, sent, toEcho>> /\ Server /\ Others

\* A wrong Expire: a request that is not answered in time is given up.
ExpireAndGoOn ==
  /\ In("send") \/ In("receive")
  /\ client' = "next"
  /\ UNCHANGED <<up, id, sent, heard, counted, toEcho, toClient, announced>> /\ Server /\ Others

\* wait_for_interest has 500 ms, and a socket may fail: the loop is left.
Expire ==
  /\ In("send") \/ In("receive")
  /\ client' = "result"
  /\ UNCHANGED <<up, id, sent, heard, counted, toEcho, toClient, announced>> /\ Server /\ Others

\* from_sustained, of the rate achieved in the time that the loop took: that
\* may be any, but none is reached with nothing done.  The pool is closed.
Judge ==
  /\ In("result")
  /\ client' \in IF counted = 0 THEN {"Refuse"} ELSE Verdicts
  /\ UNCHANGED <<up, id, sent, heard, counted, toEcho, toClient, announced>> /\ Server /\ Others

Over == client \in Verdicts \cup {"failed"}

\* The self-check is dropped: the stop flag is raised and the thread joined.
Join ==
  /\ backend = "self_check" /\ Over /\ thread = "left"
  /\ thread' = "joined"
  /\ UNCHANGED <<client, up, id, sent, heard, counted, toEcho, toClient,
                 accepted, queued, writable, announced>> /\ Others

-----------------------------------------------------------------------------
(* The echo server *)

On == backend = "self_check" /\ thread = "on"

\* Registering reports what is readable already.
Accept(c) ==
  /\ On /\ c \in up \ accepted
  /\ accepted' = accepted \cup {c}
  /\ announced' = announced \cup (IF toEcho[c] = <<>> THEN {} ELSE {<<c, "r">>})
  /\ UNCHANGED <<client, up, id, sent, heard, counted, toEcho, toClient, thread, queued, writable>>
  /\ Others

\* echo_write: what there is room for; WRITABLE is asked for when some is left,
\* and asking reports the room there is.
Flush(c, bytes) ==
  LET n == Len(bytes)
      free == Room - Len(toClient[c])
      now == IF n <= free THEN n ELSE free
  IN /\ toClient' = [toClient EXCEPT ![c] = @ \o SubSeq(bytes, 1, now)]
     /\ queued' = [queued EXCEPT ![c] = SubSeq(bytes, now + 1, n)]
     /\ writable' = IF now < n THEN writable \cup {c} ELSE writable \ {c}

\* echo_read drains the socket, then writes.
Readable(c) ==
  /\ On /\ <<c, "r">> \in announced
  /\ Flush(c, queued[c] \o toEcho[c])
  /\ toEcho' = [toEcho EXCEPT ![c] = <<>>]
  /\ announced' = announced \ {<<c, "r">>}
  /\ UNCHANGED <<client, up, id, sent, heard, counted, thread, accepted>> /\ Others

Writable(c) ==
  /\ On /\ <<c, "w">> \in announced
  /\ Flush(c, queued[c])
  /\ announced' = announced \ {<<c, "w">>}
  /\ UNCHANGED <<client, up, id, sent, heard, counted, toEcho, thread, accepted>> /\ Others

\* The poll fails, which nobody is told; or it times out and finds the flag.
EchoLeaves ==
  /\ On
  /\ thread' = "left"
  /\ UNCHANGED <<client, up, id, sent, heard, counted, toEcho, toClient,
                 accepted, queued, writable, announced>> /\ Others

CheckNext ==
  \/ \E c \in Pool : Connected(c) \/ Accept(c) \/ Readable(c) \/ Writable(c)
  \/ ConnectFails \/ NextRequest \/ Write \/ ReadExact \/ Expire \/ Judge \/ Join \/ EchoLeaves

\* Both threads go on as long as they can; a wait ends in 500 ms at most, that
\* for the connections in five seconds, the server's in 100 ms.
CheckFairness ==
  /\ WF_checkVars(NextRequest \/ Write \/ ReadExact \/ Expire \/ Judge \/ ConnectFails)
  /\ WF_checkVars(Over /\ EchoLeaves)
  /\ WF_checkVars(Join)

-----------------------------------------------------------------------------
(* Properties *)

(* The bytes a request is answered with are its own, though the client does   *)
(* not look at them, also when earlier ones were slow.                        *)
RepliesMatchRequests == \A k \in DOMAIN heard : heard[k] = id

(* No readiness is missed: bytes that the server has not read are announced   *)
(* to it, and for bytes that it could not write it waits for room.            *)
NoWakeupIsLost ==
  \A c \in accepted :
    /\ toEcho[c] # <<>> => <<c, "r">> \in announced
    /\ queued[c] # <<>> =>
         c \in writable /\ (Len(toClient[c]) = Room \/ <<c, "w">> \in announced)

SelfCheckIsAnswered == RepliesMatchRequests /\ NoWakeupIsLost

=============================================================================
