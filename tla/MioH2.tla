------------------------------- MODULE MioH2 --------------------------------
(* A worker of the HTTP/2 event loop (http/mio_h2.rs): one connection, a      *)
(* fixed number of stream slots, requests on demand (saturate) or by the      *)
(* clock (open loop), driven by polling.  Workers share nothing but the flag. *)
(*                                                                            *)
(* The h2 library is external: it opens streams up to the peer's limit,       *)
(* queues one more, and refuses the next (SendRequest::send_request).         *)
EXTENDS Integers, Sequences, FiniteSets, FiniteSetsExt, SequencesExt

CONSTANTS TotalStreams, \* max_streams of the run
          Threads,      \* worker threads asked for
          MaxRequests   \* bound: tokens, or requests without them

VARIABLES
  backend,   \* the backend that dispatch has called: "h2" here
  over,      \* "no", or what ended the run
  openLoop,  \* target_rps is given
  limit,     \* MAX_CONCURRENT_STREAMS of the peer
  at,        \* "tcp", "handshake", "assign", "progress", "left"
  streams,   \* H2Conn.streams: request number and stage
  idle,      \* H2Conn.idle_slots
  pending,   \* pending_tokens, as their numbers
  made,      \* tokens generated, or requests begun
  keepup,    \* tokens dropped as too late
  declined,   \* tokens popped for a request that the library declined (ghost)
  done,      \* requests recorded
  errors     \* connect and read errors recorded

h2Vars == <<openLoop, limit, at, streams, idle, pending, made, keepup, declined, done, errors>>
vars == <<backend, over, h2Vars>>

\* distribute_streams: the first total % threads workers take one more.
DistributeStreams(total, threads) ==
  LET n == Min({threads, total})
  IN [w \in 1..n |-> total \div n + (IF w <= total % n THEN 1 ELSE 0)]

\* The worker modelled is the first.
MaxStreams == DistributeStreams(TotalStreams, Threads)[1]
MaxPending == 2 * MaxStreams

H2Init ==
  /\ openLoop \in BOOLEAN /\ limit \in 0..MaxStreams
  /\ at = "tcp" /\ streams = {} /\ idle = MaxStreams /\ pending = <<>>
  /\ made = 0 /\ keepup = {} /\ declined = {} /\ done = {}
  /\ errors = [connect |-> 0, read |-> 0]

In(p) == backend = "h2" /\ at = p
Others == UNCHANGED <<backend, over, openLoop, limit>>

\* Streams the peer still counts; the ones whose body failed are closed.
Open(S) == {s \in S : s.stage # "broken"}
Queued == {s \in Open(streams) :
             Cardinality({r \in Open(streams) : r.id <= s.id}) > limit}

-----------------------------------------------------------------------------

\* With one retry at a fresh address; a TLS handshake has connect_timeout.
ConnectFails ==
  /\ In("tcp")
  /\ at' = "left" /\ errors' = [errors EXCEPT !.connect = @ + 1]
  /\ UNCHANGED <<streams, idle, pending, made, keepup, declined, done>> /\ Others

Connected ==
  /\ In("tcp") /\ at' = "handshake"
  /\ UNCHANGED <<streams, idle, pending, made, keepup, declined, done, errors>> /\ Others

\* handshake_blocking waits for the peer's SETTINGS with no limit of time.
HandshakeFails ==
  /\ In("handshake")
  /\ at' = "left" /\ errors' = [errors EXCEPT !.connect = @ + 1]
  /\ UNCHANGED <<streams, idle, pending, made, keepup, declined, done>> /\ Others

\* Requests of a saturated worker: as many as there are slots, until one is
\* declined.
Refill(free, open) ==
  LET n == Max({0, Min({free, limit + 1 - Cardinality(open), MaxRequests - made})})
  IN [begun |-> {[id |-> k, stage |-> "headers"] : k \in made + 1..made + n}, n |-> n]

Handshaken ==
  /\ In("handshake")
  /\ at' = "assign"
  /\ LET r == IF openLoop THEN [begun |-> {}, n |-> 0] ELSE Refill(idle, {})
     IN streams' = r.begun /\ idle' = idle - r.n /\ made' = made + r.n
  /\ UNCHANGED <<pending, keepup, declined, done, errors>> /\ Others

-----------------------------------------------------------------------------
(* Tokens *)

\* A wrong Assign: a token is looked at, and stays in the queue.
AssignWithoutPop(queue, free, open) ==
  LET n == Max({0, Min({Len(queue), free, limit + 1 - Cardinality(open)})})
  IN [begun |-> {[id |-> queue[k], stage |-> "headers"] : k \in 1..n}, n |-> n,
      declined |-> {}, queue |-> queue]

\* Tokens for idle slots, in order.  A declined request takes its token with it
\* and leaves the slot idle, so the rest of the queue goes the same way.
Assign(queue, free, open) ==
  LET n == Max({0, Min({Len(queue), free, limit + 1 - Cardinality(open)})})
      rest == SubSeq(queue, n + 1, Len(queue))
  IN [begun |-> {[id |-> queue[k], stage |-> "headers"] : k \in 1..n}, n |-> n,
      declined |-> IF n < free THEN {rest[k] : k \in DOMAIN rest} ELSE {},
      queue |-> IF n < free THEN <<>> ELSE rest]

\* The head of the loop: tokens that fell due, the cap, the first assignment.
AssignTokens ==
  /\ In("assign") /\ over = "no" /\ openLoop
  /\ \E n \in 0..(MaxRequests - made) :
       LET all == pending \o [k \in 1..n |-> made + k]
           excess == Max({0, Len(all) - MaxPending})
           r == Assign(SubSeq(all, excess + 1, Len(all)), idle, Open(streams))
       IN /\ made' = made + n
          /\ keepup' = keepup \cup {all[k] : k \in 1..excess}
          /\ streams' = streams \cup r.begun /\ idle' = idle - r.n
          /\ pending' = r.queue /\ declined' = declined \cup r.declined
  /\ at' = "progress"
  /\ UNCHANGED <<done, errors>> /\ Others

NoTokens ==
  /\ In("assign") /\ over = "no" /\ ~openLoop
  /\ at' = "progress"
  /\ UNCHANGED <<streams, idle, pending, made, keepup, declined, done, errors>> /\ Others

Stopped ==
  /\ In("assign") /\ over # "no"
  /\ at' = "left"
  /\ UNCHANGED <<streams, idle, pending, made, keepup, declined, done, errors>> /\ Others

-----------------------------------------------------------------------------
(* poll_progress *)

\* What a poll can find of a stream: headers lead to the body at once, and a
\* body that fails leaves the stream where it is.
Found(stage) ==
  CASE stage = "headers" -> {"headers", "failed", "body", "broken", "drained"}
    [] stage = "body" -> {"body", "broken", "drained"}
    [] stage = "broken" -> {"broken"}

\* After the poll: the completed streams free their slots, and those are used.
Progress ==
  /\ In("progress")
  /\ \E now \in [streams -> UNION {Found(s.stage) : s \in streams}] :
       LET over1 == {s \in streams : now[s] = "drained"}
           failed == {s \in streams : now[s] = "failed"}
           kept == {[id |-> s.id, stage |-> now[s]] : s \in streams \ (over1 \cup failed)}
           free == idle + Cardinality(over1 \cup failed)
           a == Assign(pending, free, Open(kept))
           f == Refill(free, Open(kept))
       IN /\ \A s \in streams : now[s] \in Found(s.stage)
          /\ \A s \in Queued : now[s] = "headers"
          /\ done' = done \cup {s.id : s \in over1}
          /\ errors' = [errors EXCEPT !.read = @ + Cardinality(failed)]
          /\ IF openLoop
             THEN /\ streams' = kept \cup a.begun /\ idle' = free - a.n
                  /\ pending' = a.queue /\ declined' = declined \cup a.declined
                  /\ UNCHANGED made
             ELSE /\ streams' = kept \cup f.begun /\ idle' = free - f.n
                  /\ made' = made + f.n
                  /\ UNCHANGED <<pending, declined>>
  /\ at' = "assign"
  /\ UNCHANGED keepup /\ Others

\* GOAWAY or an error of the connection: one error, and the worker ends.
ConnectionDies ==
  /\ In("progress")
  /\ at' = "left" /\ errors' = [errors EXCEPT !.read = @ + 1]
  /\ UNCHANGED <<streams, idle, pending, made, keepup, declined, done>> /\ Others

H2Alone == ConnectFails \/ Connected \/ AssignTokens \/ NoTokens \/ Stopped
           \/ Progress \/ ConnectionDies
H2Next == H2Alone \/ HandshakeFails \/ Handshaken

H2Fairness == WF_vars(H2Alone)

-----------------------------------------------------------------------------
(* Properties *)

(* Every token is in one place: waiting, dropped as too late (Keepup), lost   *)
(* to a refusal, in flight, recorded, or a read error; at most one more read  *)
(* error than requests failed (the connection's own).  A slot is idle or      *)
(* holds one stream, and requests are declined only while the peer allows      *)
(* fewer streams than there are slots.                                        *)
TokensInOnePlace ==
  LET flying == {s.id : s \in streams}
      waiting == {pending[k] : k \in DOMAIN pending}
      parts == <<waiting, keepup, declined, flying, done>>
      placed == UNION {parts[k] : k \in DOMAIN parts}
      failed == made - Cardinality(placed)
  IN /\ \A j, k \in DOMAIN parts : j # k => parts[j] \cap parts[k] = {}
     /\ failed \in {errors.read, errors.read - 1}
     /\ idle + Cardinality(streams) = MaxStreams
     /\ declined # {} => limit + 1 < MaxStreams
     /\ Len(pending) <= MaxPending

(* "Check if body errored - if poll_data returned Err, we handle it below"    *)
(* (mio_h2.rs:406): after a poll no stream is left whose body has failed.     *)
BodyErrorsHandled == at = "assign" => \A s \in streams : s.stage # "broken"

=============================================================================
