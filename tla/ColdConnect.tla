---------------------------- MODULE ColdConnect -----------------------------
(***************************************************************************)
(* The cold-connect backend (zerobench-backends/src/http/cold_connect.rs): *)
(* every operation opens a connection, sends one request, reads the        *)
(* response and closes.  Worker threads share the pacing counter           *)
(* intended_elapsed_ns, the deadline and the stop flag; scenarios run one  *)
(* after the other.                                                        *)
(*                                                                         *)
(* Time is counted in ticks from base; waits shorter than a tick, and the  *)
(* 5 microseconds under which the code does not sleep, are not seen.  The  *)
(* timeouts of an operation may expire at any moment while it waits.  The  *)
(* status and assertion errors recorded beside a sample are left out.      *)
(***************************************************************************)
EXTENDS Naturals, Sequences, FiniteSets, Functions

CONSTANTS Workers,       \* the worker threads (connections)
          NumScenarios,  \* the HttpColdConnect scenarios of the plan
          Intervals,     \* the values interval_ns may have; 0 saturates
          SleepCap,      \* the longest sleep of the pacer (100 ms)
          Deadline,      \* base + duration
          Tls,           \* the target is https
          Shapes,        \* the framings of response the server uses
          MaxOps         \* bound: operations of a worker when saturating

ASSUME ColdAssumption ==
    /\ IsFiniteSet(Workers) /\ Workers # {}
    /\ NumScenarios \in Nat
    /\ Intervals \subseteq Nat
    /\ SleepCap \in Nat \ {0}
    /\ Deadline \in Nat
    /\ Tls \in BOOLEAN
    /\ Shapes \subseteq {"length", "chunked", "close", "bad"}
    /\ MaxOps \in Nat

VARIABLES now,       \* the clock
          stop,      \* the shared stop flag
          interval,  \* interval_ns
          elapsed,   \* intended_elapsed_ns, the shared pacing counter
          out,       \* the TaskStats of the scenarios that are over
          pc,        \* where each worker is
          addr,      \* cached_addr is Some
          seen,      \* the clock as read at the head of the loop
          target,    \* intended_start
          wake,      \* when its sleep is over
          began,     \* connect_start
          stats,     \* what each worker has recorded
          sock       \* the connection of each worker, and its server

main == <<interval, out>>
locals == <<seen, target, wake, began>>    \* of an iteration; 0 outside it
vars == <<now, stop, main, elapsed, pc, addr, locals, stats, sock>>

Kinds == {"sample", "keepup", "connect", "timeout", "write", "read"}
Waiting == {"connect", "handshake", "write", "read"}
Busy == {"sleep", "fire"} \cup Waiting

NoStats == [k \in Kinds |-> 0]
Count(w, kind) == [stats EXCEPT ![w][kind] = @ + 1]

\* The operations a tally accounts for: a sample, or an error that ended one.
Ended(tally) == SumFunctionOnSet(tally, Kinds \ {"keepup"})

NoSock == [peer |-> "none",    \* then "syn", "open", "fin" or "rst"
           tls |-> FALSE,      \* the handshake is complete
           req |-> FALSE,      \* the request has been written
           sent |-> 0,         \* progress of the response
           shape |-> "none"]   \* its framing

\* Progress of a response: the headers and a part of the body, all of it.
InBody == 1
Whole == 2

Goto(w, label) == pc' = [pc EXCEPT ![w] = label]

\* An iteration ends: its locals go, and StreamGuard closes the socket.
Finish(w, kind) ==
    /\ stats' = Count(w, kind)
    /\ Goto(w, "head")
    /\ sock' = [sock EXCEPT ![w] = NoSock]
    /\ seen' = [seen EXCEPT ![w] = 0]
    /\ target' = [target EXCEPT ![w] = 0]
    /\ wake' = [wake EXCEPT ![w] = 0]
    /\ began' = [began EXCEPT ![w] = 0]

Complete(s) == s.sent = Whole /\ s.shape \in {"length", "chunked"}

-----------------------------------------------------------------------------
\* A worker starts: Poll::new may fail, resolve may.
Spawned ==
    /\ pc' \in [Workers -> {"head", "exited"}]
    /\ addr' \in [Workers -> BOOLEAN]

Init ==
    /\ now = 0
    /\ stop = FALSE
    /\ interval \in Intervals
    /\ elapsed = 0
    /\ out = << >>
    /\ pc = [w \in Workers |-> "none"]
    /\ addr = [w \in Workers |-> FALSE]
    /\ seen = [w \in Workers |-> 0]
    /\ target = [w \in Workers |-> 0]
    /\ wake = [w \in Workers |-> 0]
    /\ began = [w \in Workers |-> 0]
    /\ stats = [w \in Workers |-> NoStats]
    /\ sock = [w \in Workers |-> NoSock]

\* The workers of the next scenario are spawned.
Spawn ==
    /\ Len(out) < NumScenarios
    /\ \A w \in Workers : pc[w] = "none"
    /\ Spawned
    /\ UNCHANGED <<now, stop, main, elapsed, locals, stats, sock>>

\* All of them are joined, and what they recorded is merged.
Join ==
    /\ \A w \in Workers : pc[w] = "exited"
    /\ out' = Append(out, [k \in Kinds |->
                SumFunction([w \in Workers |-> stats[w][k]])])
    /\ stats' = [w \in Workers |-> NoStats]
    /\ pc' = [w \in Workers |-> "none"]
    /\ UNCHANGED <<now, stop, interval, elapsed, addr, locals, sock>>

\* Bound: time passes up to the deadline, and beyond it for a sleeper.
Tick ==
    /\ now < Deadline \/ \E w \in Workers : pc[w] = "sleep" /\ now < wake[w]
    /\ now' = now + 1
    /\ UNCHANGED <<stop, main, elapsed, pc, addr, locals, stats, sock>>

\* The timer, Ctrl-C or the dashboard raises the flag.
Stop ==
    /\ ~stop
    /\ stop' = TRUE
    /\ UNCHANGED <<now, main, elapsed, pc, addr, locals, stats, sock>>

\* The head of run_worker's loop.
LoopHead(w) ==
    /\ pc[w] = "head"
    /\ IF stop \/ now >= Deadline
       THEN Goto(w, "exited") /\ UNCHANGED seen
       ELSE /\ interval = 0 => Ended(stats[w]) < MaxOps
            /\ seen' = [seen EXCEPT ![w] = now]
            /\ Goto(w, "draw")
    /\ UNCHANGED <<now, stop, main, elapsed, target, wake, addr, began, stats,
                   sock>>

\* Saturate: the operation is due at once.
Saturate(w) ==
    /\ pc[w] = "draw"
    /\ interval = 0
    /\ target' = [target EXCEPT ![w] = seen[w]]
    /\ Goto(w, "fire")
    /\ UNCHANGED <<now, stop, main, elapsed, seen, wake, addr, began, stats,
                   sock>>

\* A wrong Draw: the slot is what fetch_add leaves, not what it returns.
DrawNewValue(w) ==
    /\ pc[w] = "draw"
    /\ interval > 0
    /\ elapsed' = elapsed + interval
    /\ target' = [target EXCEPT ![w] = elapsed + interval]
    /\ IF elapsed > seen[w]
       THEN /\ wake' = [wake EXCEPT ![w] = now + elapsed - seen[w]]
            /\ Goto(w, "sleep")
            /\ UNCHANGED stats
       ELSE /\ stats' = Count(w, "keepup")
            /\ Goto(w, "fire")
            /\ UNCHANGED wake
    /\ UNCHANGED <<now, stop, main, seen, addr, began, sock>>

\* Open loop: a slot is drawn with fetch_add.  Ahead of it the worker sleeps,
\* but not longer than SleepCap; behind it a keepup error is recorded.
Draw(w) ==
    /\ pc[w] = "draw"
    /\ interval > 0
    /\ elapsed' = elapsed + interval
    /\ target' = [target EXCEPT ![w] = elapsed]
    /\ IF elapsed > seen[w]
       THEN /\ wake' = [wake EXCEPT ![w] =
                          now + (IF elapsed - seen[w] < SleepCap
                                 THEN elapsed - seen[w] ELSE SleepCap)]
            /\ Goto(w, "sleep")
            /\ UNCHANGED stats
       ELSE /\ stats' = Count(w, "keepup")
            /\ Goto(w, "fire")
            /\ UNCHANGED wake
    /\ UNCHANGED <<now, stop, main, seen, addr, began, sock>>

Wake(w) ==
    /\ pc[w] = "sleep"
    /\ now >= wake[w]
    /\ Goto(w, "fire")
    /\ UNCHANGED <<now, stop, main, elapsed, addr, locals, stats, sock>>

\* A wrong Unresolved: round the loop without a word.
UnresolvedUncounted(w) ==
    /\ pc[w] = "fire"
    /\ ~addr[w]
    /\ Goto(w, "head")
    /\ UNCHANGED <<now, stop, main, elapsed, locals, stats, sock, addr>>

\* The name did not resolve: a connect error, and round the loop.
Unresolved(w) ==
    /\ pc[w] = "fire"
    /\ ~addr[w]
    /\ Finish(w, "connect")
    /\ UNCHANGED <<now, stop, main, elapsed, addr>>

\* do_one_op: the socket is created and registered, or that fails.
Dial(w) ==
    /\ pc[w] = "fire"
    /\ addr[w]
    /\ \/ /\ began' = [began EXCEPT ![w] = now]
          /\ sock' = [sock EXCEPT ![w] = [NoSock EXCEPT !.peer = "syn"]]
          /\ Goto(w, "connect")
          /\ UNCHANGED <<stats, seen, target, wake>>
       \/ Finish(w, "connect")
    /\ UNCHANGED <<now, stop, main, elapsed, addr>>

\* A wrong GiveUp: no timeout once the request is out.
GiveUpBeforeReading(w) ==
    /\ pc[w] \in Waiting \ {"read"}
    /\ Finish(w, "timeout")
    /\ UNCHANGED <<now, stop, main, elapsed, addr>>

\* A wait_for that ends without its event: the timeout of the phase, or an
\* error of poll, which only connect and handshake tell from a timeout.
GiveUp(w) ==
    /\ pc[w] \in Waiting
    /\ \E kind \in CASE pc[w] = "connect"   -> {"connect"}
                     [] pc[w] = "handshake" -> {"connect", "timeout"}
                     [] OTHER               -> {"timeout"} :
         Finish(w, kind)
    /\ UNCHANGED <<now, stop, main, elapsed, addr>>

\* The socket is writable: peer_addr tells a connection from a refusal.
Connected(w) ==
    /\ pc[w] = "connect"
    /\ sock[w].peer # "syn"
    /\ IF sock[w].peer = "rst"
       THEN Finish(w, "connect")
       ELSE Goto(w, IF Tls THEN "handshake" ELSE "write")
              /\ UNCHANGED <<stats, sock, locals>>
    /\ UNCHANGED <<now, stop, main, elapsed, addr>>

Handshake(w) ==
    /\ pc[w] = "handshake"
    /\ sock[w].tls \/ sock[w].peer # "open"
    /\ IF sock[w].tls
       THEN Goto(w, "write") /\ UNCHANGED <<stats, sock, locals>>
       ELSE Finish(w, "connect")
    /\ UNCHANGED <<now, stop, main, elapsed, addr>>

\* The request is built, which may fail, and goes out.  Writing to a peer that
\* has closed succeeds and draws a reset.
WriteRequest(w) ==
    /\ pc[w] = "write"
    /\ \/ Finish(w, "connect")
       \/ sock[w].peer = "rst" /\ Finish(w, "write")
       \/ /\ sock[w].peer # "rst"
          /\ sock' = [sock EXCEPT ![w].req = TRUE,
                        ![w].peer = IF @ = "fin" THEN "rst" ELSE @]
          /\ Goto(w, "read")
          /\ UNCHANGED <<stats, locals>>
    /\ UNCHANGED <<now, stop, main, elapsed, addr>>

\* The read loop: what has arrived is parsed before the end of the stream is
\* looked at.  A response that is complete ends the operation, a malformed
\* one fails it; an end of stream is an error before the end of the headers
\* and the end of the body after it.
ReadResponse(w) ==
    /\ pc[w] = "read"
    /\ LET s == sock[w]
       IN \/ Complete(s) /\ Finish(w, "sample")
          \/ s.shape = "bad" /\ s.sent >= InBody /\ Finish(w, "read")
          \/ /\ s.peer = "fin"
             /\ ~Complete(s)
             /\ ~(s.shape = "bad" /\ s.sent >= InBody)
             /\ Finish(w, IF s.sent >= InBody THEN "sample" ELSE "read")
          \/ s.peer = "rst" /\ Finish(w, "read")    \* may drop what came before
    /\ UNCHANGED <<now, stop, main, elapsed, addr>>

WorkerStep(w) ==
    \/ LoopHead(w) \/ Saturate(w) \/ Draw(w) \/ Wake(w) \/ Unresolved(w)
    \/ Dial(w) \/ GiveUp(w) \/ Connected(w) \/ Handshake(w)
    \/ WriteRequest(w) \/ ReadResponse(w)

-----------------------------------------------------------------------------
\* The server behind each connection.
SetSock(w, s) ==
    /\ sock' = [sock EXCEPT ![w] = s]
    /\ UNCHANGED <<now, stop, main, elapsed, pc, addr, locals, stats>>

Accept(w) ==
    sock[w].peer = "syn" /\ SetSock(w, [sock[w] EXCEPT !.peer = "open"])

Shake(w) ==
    /\ Tls /\ sock[w].peer = "open" /\ ~sock[w].tls
    /\ SetSock(w, [sock[w] EXCEPT !.tls = TRUE])

\* What follows the malformed part of a response makes no difference.
Respond(w, upto, shape) ==
    /\ sock[w].peer = "open" /\ sock[w].req
    /\ upto > sock[w].sent
    /\ shape = "bad" => upto = InBody
    /\ sock[w].sent > 0 => shape = sock[w].shape
    /\ SetSock(w, [sock[w] EXCEPT !.sent = upto, !.shape = shape])

\* It closes, or refuses or resets the connection, at any time.
Close(w, how) ==
    /\ sock[w].peer = "open" \/ (how = "rst" /\ sock[w].peer \in {"syn", "fin"})
    /\ SetSock(w, [sock[w] EXCEPT !.peer = how])

Server(w) ==
    \/ Accept(w) \/ Shake(w)
    \/ \E upto \in {InBody, Whole}, shape \in Shapes :
         Respond(w, upto, shape)
    \/ \E how \in {"fin", "rst"} : Close(w, how)

Next ==
    \/ Spawn \/ Join \/ Tick \/ Stop
    \/ \E w \in Workers : WorkerStep(w) \/ Server(w)

Spec == Init /\ [][Next]_vars

\* Time passes, the threads are scheduled and their timeouts expire; the
\* server owes nothing.
FairSpec ==
    /\ Spec
    /\ WF_vars(Spawn) /\ WF_vars(Join) /\ WF_vars(Tick)
    /\ \A w \in Workers : WF_vars(WorkerStep(w))

-----------------------------------------------------------------------------
Tally == [Kinds -> Nat]

TypeOK ==
    /\ now \in Nat
    /\ stop \in BOOLEAN
    /\ interval \in Intervals
    /\ elapsed \in Nat
    /\ out \in Seq(Tally) /\ Len(out) <= NumScenarios
    /\ pc \in [Workers -> {"none", "head", "draw", "exited"} \cup Busy]
    /\ addr \in [Workers -> BOOLEAN]
    /\ seen \in [Workers -> Nat]
    /\ target \in [Workers -> Nat]
    /\ wake \in [Workers -> Nat]
    /\ began \in [Workers -> Nat]
    /\ stats \in [Workers -> Tally]
    /\ sock \in [Workers ->
         [peer : {"none", "syn", "open", "fin", "rst"}, tls : BOOLEAN,
          req : BOOLEAN, sent : 0..Whole, shape : Shapes \cup {"none"}]]

\* No operation begins before the slot it has drawn: its latency, counted
\* from the slot, is never shorter than the operation itself took.  This is
\* what the 100 ms cap of the sleep puts at risk, and what holds as long as
\* all workers together draw no more than one cap's worth of slots.
NeverEarly ==
    \A w \in Workers : pc[w] \in Waiting => target[w] <= began[w]

\* Open loop: every slot drawn from the shared counter ends as one sample or
\* one error, in the stats of its worker or in those already merged, or is
\* held by a worker that is on it.
EverySlotAccounted ==
    interval > 0 =>
        elapsed = interval *
            ( SumFunction([i \in DOMAIN out |-> Ended(out[i])])
              + SumFunction([w \in Workers |-> Ended(stats[w])])
              + Cardinality({w \in Workers : pc[w] \in Busy}) )

\* The run ends, however silent the server is: every wait has a timeout.
RunEnds == <>(Len(out) = NumScenarios)

-----------------------------------------------------------------------------
\* "target_rps bounds global throughput": by any time, no more operations
\* have been let go than there are slots due.
RateBounded ==
    interval > 0 =>
        (elapsed \div interval) - Cardinality({w \in Workers : pc[w] = "sleep"})
            <= (now \div interval) + 1

=============================================================================
