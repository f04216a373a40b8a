------------------------------- MODULE MioH1 --------------------------------
(***************************************************************************)
(* One worker of the HTTP/1.1 keep-alive backend                           *)
(* (zerobench-backends/src/http/mio_h1.rs, run_mio_worker): an edge-       *)
(* triggered event loop over a fixed set of connections, fed by a token    *)
(* scheduler (open loop) or by its own completions (saturate).             *)
(*                                                                         *)
(* A job is one request.  Its number stands for its intended start: jobs   *)
(* are numbered in the order in which they are scheduled.  The kernel and  *)
(* the server are the environment: they move the bytes of a connection     *)
(* between the steps of the worker and raise its readiness edges.          *)
(***************************************************************************)
EXTENDS Naturals, Sequences, FiniteSets, SequencesExt

CONSTANTS NumConns,        \* connections the worker is asked for
          Modes,           \* the values of openLoop a run may have
          ConnectMayFail,  \* a connect or a TLS handshake may fail
          Kinds,           \* the shapes of response the server uses
          MaxJobs,         \* bound: jobs scheduled
          MaxBurst         \* bound: tokens that fall due in one iteration

ASSUME MioAssumption ==
    /\ NumConns \in Nat \ {0}
    /\ Modes \subseteq BOOLEAN
    /\ ConnectMayFail \in BOOLEAN
    /\ Kinds \subseteq {"keep", "close", "nolen", "bad"}
    /\ MaxJobs \in Nat
    /\ MaxBurst \in Nat \ {0}
    /\ FALSE \in Modes => NumConns <= MaxJobs   \* a first request for each

VARIABLES openLoop, \* target_rps is Some: a scheduler feeds the worker
          phase,    \* where the worker is in run_mio_worker
          stop,     \* the shared stop flag
          dialled,  \* connect-loop iterations done
          opened,   \* opened[j]: the mio token of connections[j]
          conn,     \* conn[j]: the Conn: state, job, response bytes read
          sock,     \* sock[j]: the kernel's and the server's side of it
          idle,     \* idle_conns
          pending,  \* pending_tokens
          next,     \* the number of the next job
          events,   \* events of this batch not handled yet
          fate      \* how each job was recorded

vars == <<openLoop, phase, stop, dialled, opened, conn, sock, idle, pending,
          next, events, fate>>

Jobs == 1..MaxJobs
Live == DOMAIN conn
MaxPending == 2 * NumConns
Reading == {"ReadingHeaders", "ReadingBody"}
InFlight == Reading \cup {"Writing"}

\* Response progress: nothing, headers and a part of the body, all of it.
Partial == 1
Complete == 2

FreshConn == [st |-> "Idle", job |-> 0, got |-> 0]
FreshSock == [req |-> FALSE,     \* the whole request has been sent
              sent |-> 0,        \* response progress the server has sent
              kind |-> "keep",   \* shape of that response
              peer |-> "open",   \* or "fin" (closed), "rst" (reset)
              out |-> "clear",   \* or "full", "space": the send buffer
              edge |-> TRUE]     \* readiness not yet reported

-----------------------------------------------------------------------------
\* What a handler works on: connection j, its socket, the idle pool, the job
\* counter and the recorder.
Slot(j) == [c |-> conn[j], s |-> sock[j], idle |-> idle, next |-> next,
            fate |-> fate]

Record(x, f) == [x EXCEPT !.fate[x.c.job] = f]

Kill(x, f) == Record([x EXCEPT !.c.st = "Dead"], f)

\* prepare_request: clears the buffers and starts writing job n.
Prepare(x, n) ==
    [x EXCEPT !.c = [st |-> "Writing", job |-> n, got |-> 0],
              !.s.req = FALSE, !.s.sent = 0, !.s.out = "clear"]

\* try_write: all of the request goes out, or the socket would block half way,
\* or the connection has been reset and the write fails, the first or a later
\* one.  Writing to a peer that has closed succeeds and draws a reset.
Flushed(x) ==
    [x EXCEPT !.c.st = "ReadingHeaders", !.s.req = TRUE, !.s.out = "clear",
              !.s.peer = IF @ = "fin" THEN "rst" ELSE @,
              !.s.edge = @ \/ x.s.peer = "fin"]

Blocked(x) == [x EXCEPT !.s.out = "full"]

\* A wrong TryWrite: a request cut short is not counted.
TryWriteUncounted(x) ==
    CASE x.s.peer = "rst"  -> {[x EXCEPT !.c.st = "Dead"]}
      [] x.s.out = "clear" -> {Flushed(x), Blocked(x)}
      [] x.s.out = "full"  -> {x}
      [] x.s.out = "space" -> {Flushed(x)}

TryWrite(x) ==
    CASE x.s.peer = "rst"  -> {Kill(x, "write")}
      [] x.s.out = "clear" -> {Flushed(x), Blocked(x)}
      [] x.s.out = "full"  -> {x}
      [] x.s.out = "space" -> {Flushed(x)}

\* Saturate: the next request starts at once on the same connection.
\* Bound: none is left after MaxJobs.
NextRequest(x) ==
    IF x.next \in Jobs
    THEN TryWrite([Prepare(x, x.next) EXCEPT !.next = @ + 1])
    ELSE {x}

\* A wrong Completed: saturate mode goes back to waiting for an edge.
CompletedWithoutNext(x, st) == {Record([x EXCEPT !.c.st = st], "sample")}

\* A response is complete: record it, and let go of the connection (st is
\* the state check_headers or try_read left it in).
Completed(x, st) ==
    LET y == Record([x EXCEPT !.c.st = st], "sample")
    IN IF st # "Idle" THEN {y}
       ELSE IF openLoop THEN {y}    \* pushed to idle_conns by HandleEvent
       ELSE NextRequest(y)

\* check_headers: a malformed length or chunk is an error; without a length
\* the response ends at its headers and the connection is not reused;
\* "Connection: close" is looked at when the response completes together
\* with its headers.
CheckHeaders(x) ==
    CASE x.s.kind = "bad"   -> {Kill(x, "read")}
      [] x.s.kind = "nolen" -> Completed(x, "Dead")
      [] x.s.kind = "keep" /\ x.c.got = Complete -> Completed(x, "Idle")
      [] x.s.kind = "close" /\ x.c.got = Complete -> Completed(x, "Dead")
      [] OTHER -> {[x EXCEPT !.c.st = "ReadingBody"]}

\* A wrong TryRead: one read instead of draining the socket.
TryReadOnce(x0) ==
    LET x == [x0 EXCEPT !.c.got =
                IF x0.c.got < x0.s.sent THEN x0.c.got + 1 ELSE x0.c.got]
    IN CASE x.s.peer # "open" -> {Kill(x, "read")}
         [] x.s.peer = "open" /\ x.c.got = 0 -> {x}
         [] x.s.peer = "open" /\ x.c.got > 0 ->
              IF x.c.st = "ReadingHeaders" THEN CheckHeaders(x)
              ELSE IF x.c.got = Complete THEN Completed(x, "Idle") ELSE {x}

\* try_read: drain the socket; end of stream or a reset is an error whatever
\* was read before it.
TryRead(x0) ==
    LET x == [x0 EXCEPT !.c.got = x0.s.sent]
    IN CASE x.s.peer # "open" -> {Kill(x, "read")}
         [] x.s.peer = "open" /\ x.c.got = 0 -> {x}
         [] x.s.peer = "open" /\ x.c.got > 0 ->
              IF x.c.st = "ReadingHeaders" THEN CheckHeaders(x)
              ELSE IF x.c.got = Complete THEN Completed(x, "Idle") ELSE {x}

AfterWritable(e, x) ==
    CASE ~e.w -> {x}
      [] e.w /\ x.c.st = "Writing" -> TryWrite(x)
      [] e.w /\ x.c.st = "Idle" /\ ~openLoop -> NextRequest(x)
      [] OTHER -> {x}

AfterReadable(e, x) ==
    IF e.r /\ x.c.st \in Reading THEN TryRead(x) ELSE {x}

Store(j, x) ==
    /\ conn' = [conn EXCEPT ![j] = x.c]
    /\ sock' = [sock EXCEPT ![j] = x.s]
    /\ next' = x.next
    /\ fate' = x.fate

-----------------------------------------------------------------------------
Init ==
    /\ openLoop \in Modes
    /\ phase = "connect"
    /\ stop = FALSE
    /\ dialled = 0
    /\ opened = << >>
    /\ conn = << >>
    /\ sock = << >>
    /\ idle = << >>
    /\ pending = << >>
    /\ next = 1
    /\ events = {}
    /\ fate = [n \in Jobs |-> "none"]

\* One iteration of the connect loop.  The socket is registered under the
\* loop index; a connection that fails is counted and skipped.
Connect ==
    /\ phase = "connect"
    /\ dialled < NumConns
    /\ dialled' = dialled + 1
    /\ \/ /\ opened' = Append(opened, dialled + 1)
          /\ conn' = Append(conn, FreshConn)
          /\ sock' = Append(sock, FreshSock)
       \/ /\ ConnectMayFail
          /\ UNCHANGED <<opened, conn, sock>>
    /\ UNCHANGED <<openLoop, phase, stop, idle, pending, next, events, fate>>

\* Open loop: every connection starts in the idle pool.  Saturate: every
\* connection gets its first request, written once the socket is writable.
StartLoop ==
    /\ phase = "connect"
    /\ dialled = NumConns
    /\ IF openLoop
       THEN /\ idle' = [j \in Live |-> j]
            /\ UNCHANGED <<conn, next>>
       ELSE /\ conn' = [j \in Live |->
                          [st |-> "Writing", job |-> j, got |-> 0]]
            /\ next' = Len(conn) + 1
            /\ UNCHANGED idle
    /\ phase' = "head"
    /\ UNCHANGED <<openLoop, stop, dialled, opened, sock, pending, events,
                   fate>>

\* Head of the loop: leave on the stop flag, else queue the k tokens that
\* have fallen due and drop the oldest beyond the cap as keepup errors.
Exit ==
    /\ phase = "head"
    /\ stop
    /\ phase' = "exited"
    /\ UNCHANGED <<openLoop, stop, dialled, opened, conn, sock, idle,
                   pending, next, events, fate>>

\* A wrong Schedule: the queue has no cap.
ScheduleUncapped(k) ==
    /\ phase = "head"
    /\ ~stop
    /\ openLoop \/ k = 0
    /\ next + k <= MaxJobs + 1
    /\ pending' = pending \o [i \in 1..k |-> next + i - 1]
    /\ next' = next + k
    /\ phase' = "assign"
    /\ UNCHANGED <<openLoop, stop, dialled, opened, conn, sock, idle,
                   events, fate>>

Schedule(k) ==
    LET due == pending \o [i \in 1..k |-> next + i - 1]
        excess == IF Len(due) > MaxPending THEN Len(due) - MaxPending ELSE 0
    IN /\ phase = "head"
       /\ ~stop
       /\ openLoop \/ k = 0
       /\ next + k <= MaxJobs + 1
       /\ pending' = SubSeq(due, excess + 1, Len(due))
       /\ fate' = [n \in Jobs |-> IF \E i \in 1..excess : due[i] = n
                                  THEN "keepup" ELSE fate[n]]
       /\ next' = next + k
       /\ phase' = "assign"
       /\ UNCHANGED <<openLoop, stop, dialled, opened, conn, sock, idle,
                      events>>

\* A wrong Assign: the youngest token first.
AssignNewest ==
    /\ phase \in {"assign", "post"}
    /\ pending # << >>
    /\ idle # << >>
    /\ \E x \in TryWrite(Prepare(Slot(Last(idle)), Last(pending))) :
         Store(Last(idle), x)
    /\ idle' = Front(idle)
    /\ pending' = Front(pending)
    /\ UNCHANGED <<openLoop, phase, stop, dialled, opened, events>>

\* The assignment loop, run before the poll and again after the events: the
\* oldest token goes to the connection that went idle last.
Assign ==
    /\ phase \in {"assign", "post"}
    /\ pending # << >>
    /\ idle # << >>
    /\ \E x \in TryWrite(Prepare(Slot(Last(idle)), Head(pending))) :
         Store(Last(idle), x)
    /\ idle' = Front(idle)
    /\ pending' = Tail(pending)
    /\ UNCHANGED <<openLoop, phase, stop, dialled, opened, events>>

AssignDone ==
    /\ phase \in {"assign", "post"}
    /\ pending = << >> \/ idle = << >>
    /\ phase' = IF phase = "assign" THEN "poll" ELSE "head"
    /\ UNCHANGED <<openLoop, stop, dialled, opened, conn, sock, idle,
                   pending, next, events, fate>>

\* poll: every socket with a fresh edge is reported, with its readiness of
\* this moment; or the timeout passes with nothing to report.
Poll ==
    /\ phase = "poll"
    /\ events' = {[tok |-> opened[j],
                   r |-> sock[j].sent > conn[j].got \/ sock[j].peer # "open",
                   w |-> sock[j].out # "full" \/ sock[j].peer = "rst"] :
                      j \in {i \in Live : sock[i].edge}}
    /\ sock' = [j \in Live |-> [sock[j] EXCEPT !.edge = FALSE]]
    /\ phase' = "events"
    /\ UNCHANGED <<openLoop, stop, dialled, opened, conn, idle, pending,
                   next, fate>>

\* epoll_wait fails (EINTR): the worker leaves its loop.
PollError ==
    /\ phase = "poll"
    /\ phase' = "exited"
    /\ UNCHANGED <<openLoop, stop, dialled, opened, conn, sock, idle,
                   pending, next, events, fate>>

\* Wrong HandleEvents: a connection found idle is pushed whatever it was
\* doing before the event; a connection that becomes idle is not pushed.
HandleEventPushesTwice(e) ==
    /\ phase = "events"
    /\ e \in events
    /\ events' = events \ {e}
    /\ IF e.tok \notin Live
       THEN UNCHANGED <<conn, sock, idle, next, fate>>
       ELSE IF conn[e.tok].st = "Dead"
       THEN UNCHANGED <<conn, sock, idle, next, fate>>
       ELSE \E x \in AfterWritable(e, Slot(e.tok)) :
            \E y \in AfterReadable(e, x) :
              /\ Store(e.tok, y)
              /\ idle' = IF openLoop /\ y.c.st = "Idle"
                         THEN Append(idle, e.tok) ELSE idle
    /\ UNCHANGED <<openLoop, phase, stop, dialled, opened, pending>>

HandleEventForgets(e) ==
    /\ phase = "events"
    /\ e \in events
    /\ events' = events \ {e}
    /\ IF e.tok \notin Live
       THEN UNCHANGED <<conn, sock, next, fate>>
       ELSE IF conn[e.tok].st = "Dead"
       THEN UNCHANGED <<conn, sock, next, fate>>
       ELSE \E x \in AfterWritable(e, Slot(e.tok)) :
            \E y \in AfterReadable(e, x) : Store(e.tok, y)
    /\ UNCHANGED <<openLoop, phase, stop, dialled, opened, idle, pending>>

\* One event: the token is used as an index into connections.
HandleEvent(e) ==
    /\ phase = "events"
    /\ e \in events
    /\ events' = events \ {e}
    /\ IF e.tok \notin Live
       THEN UNCHANGED <<conn, sock, idle, next, fate>>
       ELSE IF conn[e.tok].st = "Dead"
       THEN UNCHANGED <<conn, sock, idle, next, fate>>
       ELSE \E x \in AfterWritable(e, Slot(e.tok)) :
            \E y \in AfterReadable(e, x) :
              /\ Store(e.tok, y)
              /\ idle' = IF /\ openLoop
                            /\ y.c.st = "Idle"
                            /\ x.c.st \in Reading
                         THEN Append(idle, e.tok) ELSE idle
    /\ UNCHANGED <<openLoop, phase, stop, dialled, opened, pending>>

EventsDone ==
    /\ phase = "events"
    /\ events = {}
    /\ phase' = "post"
    /\ UNCHANGED <<openLoop, stop, dialled, opened, conn, sock, idle,
                   pending, next, events, fate>>

WorkerStep ==
    \/ Connect \/ StartLoop \/ Exit \/ (\E k \in 0..MaxBurst : Schedule(k))
    \/ Assign \/ AssignDone \/ Poll \/ (\E e \in events : HandleEvent(e))
    \/ EventsDone

-----------------------------------------------------------------------------
\* The environment.
Stop ==
    /\ ~stop
    /\ stop' = TRUE
    /\ UNCHANGED <<openLoop, phase, dialled, opened, conn, sock, idle,
                   pending, next, events, fate>>

EnvUnchanged ==
    UNCHANGED <<openLoop, phase, stop, dialled, opened, conn, idle, pending,
                next, events, fate>>

\* The send buffer of a blocked connection drains.
Drain(j) ==
    /\ sock[j].out = "full"
    /\ sock[j].peer # "rst"
    /\ sock' = [sock EXCEPT ![j].out = "space", ![j].edge = TRUE]
    /\ EnvUnchanged

\* The server sends (more of) its response to the request it has received.
Respond(j, upto, kind) ==
    /\ sock[j].req
    /\ sock[j].peer = "open"
    /\ upto > sock[j].sent
    /\ sock[j].sent > 0 => kind = sock[j].kind
    /\ sock' = [sock EXCEPT ![j].sent = upto, ![j].kind = kind,
                            ![j].edge = TRUE]
    /\ EnvUnchanged

\* The server closes its end, whether or not it owes a response ...
Close(j) ==
    /\ sock[j].peer = "open"
    /\ sock' = [sock EXCEPT ![j].peer = "fin", ![j].edge = TRUE]
    /\ EnvUnchanged

\* ... or the connection is reset: the server died, or closed with bytes of the
\* request still to be read or on their way.
Reset(j) ==
    /\ sock[j].peer # "rst"
    /\ sock' = [sock EXCEPT ![j].peer = "rst", ![j].edge = TRUE]
    /\ EnvUnchanged

Server(j) == Drain(j) \/ (\E u \in {Partial, Complete}, k \in Kinds : Respond(j, u, k))

Next == WorkerStep \/ PollError \/ Stop
          \/ (\E j \in Live : Server(j) \/ Close(j) \/ Reset(j))

Spec == Init /\ [][Next]_vars

\* The worker's thread is scheduled, sockets drain, and the server answers
\* the requests it has received, each in full; nothing forces it to close a
\* connection, and nothing stops the run.
FairSpec ==
    /\ Spec
    /\ WF_vars(WorkerStep)
    /\ \A j \in 1..NumConns :
         /\ WF_vars(j \in Live /\ Drain(j))
         /\ WF_vars(j \in Live /\ (\E k \in Kinds : Respond(j, Complete, k)))

-----------------------------------------------------------------------------
TypeOK ==
    /\ openLoop \in Modes
    /\ phase \in {"connect", "head", "assign", "poll", "events", "post", "exited"}
    /\ stop \in BOOLEAN
    /\ dialled \in 0..NumConns
    /\ opened \in Seq(1..NumConns)
    /\ conn \in Seq([st : InFlight \cup {"Idle", "Dead"}, job : 0..MaxJobs,
                     got : 0..Complete])
    /\ sock \in Seq([req : BOOLEAN, sent : 0..Complete, kind : Kinds \cup {"keep"},
                     peer : {"open", "fin", "rst"},
                     out : {"clear", "full", "space"}, edge : BOOLEAN])
    /\ idle \in Seq(1..NumConns)
    /\ pending \in Seq(Jobs)
    /\ next \in 1..(MaxJobs + 1)
    /\ events \subseteq [tok : 1..NumConns, r : BOOLEAN, w : BOOLEAN]
    /\ fate \in [Jobs -> {"none", "sample", "write", "read", "keepup"}]

\* Where a scheduled job is: queued, on a connection, or recorded.
Places(n) ==
    {<<"pending", i>> : i \in {k \in DOMAIN pending : pending[k] = n}}
      \cup {<<"conn", j>> : j \in {i \in Live : /\ conn[i].job = n
                                                /\ conn[i].st \in InFlight}}
      \cup (IF fate[n] = "none" THEN {} ELSE {<<"recorded", 0>>})

\* No request is lost or counted twice while the worker runs: every job that
\* was scheduled is in exactly one place, through partial writes, resets,
\* completions, pool recycling and keepup drops.
EveryJobInOnePlace ==
    \A n \in Jobs : Cardinality(Places(n)) = IF n < next THEN 1 ELSE 0

\* The idle pool holds exactly the connections that can take a request, each
\* once: a connection pushed twice would carry two requests at once, one
\* forgotten would never be used again.
IdlePoolExact ==
    openLoop /\ phase # "connect" =>
        /\ IsInjective(idle)
        /\ ToSet(idle) = {j \in Live : conn[j].st = "Idle"}

\* Requests start in the order of their intended start: nothing still queued
\* is older than a request already on a connection, so a delay is always
\* charged to the request that suffered it.
OldestFirst ==
    /\ \A i, k \in DOMAIN pending : i < k => pending[i] < pending[k]
    /\ openLoop => \A j \in Live : \A i \in DOMAIN pending :
         conn[j].st \in InFlight => conn[j].job < pending[i]

\* When the worker leaves, the jobs it never recorded fit in the queue and
\* the connections: the sample it drops at the end is bounded.
LossAtExitBounded ==
    phase = "exited" =>
        Cardinality({n \in 1..(next - 1) : fate[n] = "none"})
            <= MaxPending + NumConns

\* Saturate mode never leaves a usable connection without work between two
\* polls.
SaturateKeepsBusy ==
    ~openLoop /\ phase = "poll" /\ next \in Jobs =>
        \A j \in Live : conn[j].st # "Idle"

\* Edge-triggered readiness is never lost: a request whose full response has
\* been sent is recorded, unless the worker has left its loop.
Answered(j) ==
    /\ j \in Live
    /\ conn[j].st \in InFlight
    /\ sock[j].sent = Complete

AnswersAreRecorded ==
    \A j \in 1..NumConns : Answered(j) ~> (~Answered(j) \/ phase = "exited")

\* A token that is scheduled does not wait forever: it is sent, or dropped
\* as keepup, unless the worker leaves or has no connection left.
TokensLeaveTheQueue ==
    \A n \in Jobs :
        (\E i \in DOMAIN pending : pending[i] = n)
            ~> (\/ \A i \in DOMAIN pending : pending[i] # n
                \/ phase = "exited"
                \/ \A j \in Live : conn[j].st = "Dead")

-----------------------------------------------------------------------------
\* "Each connection is registered [...] once.  The state machine filters
\* spurious wakeups": the event of a connection reaches that connection.
EventsReachTheirConnection == \A j \in Live : opened[j] = j

\* try_read "returns Some when the full response (headers + body) has been
\* received": a request whose well-formed response was sent in full before
\* the server closed is not recorded as a read error.
FullResponseIsASample ==
    \A j \in Live :
        /\ conn[j].st = "Dead"
        /\ sock[j].sent = Complete
        /\ sock[j].kind \in {"keep", "close"}
        /\ sock[j].peer = "fin"
      => fate[conn[j].job] # "read"

=============================================================================
