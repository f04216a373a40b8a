--------------------------- MODULE ReconnectStorm ---------------------------
(* The SSE reconnect storm (sse/reconnect_storm.rs): subscribers that read    *)
(* events until their session is killed, and come back with the id of the     *)
(* last event they saw.                                                       *)
(*                                                                            *)
(* The server numbers its events 1, 2, ...; an event is an id line followed,  *)
(* at its blank line, by the data (SseStream).  A server that honours         *)
(* Last-Event-ID goes on after that event, one that does not starts over.     *)
EXTENDS Naturals, FiniteSets, FiniteSetsExt

CONSTANTS Subscribers, \* the threads of the storm
          MaxEvents,   \* bound: the events the server has
          MaxSessions, \* bound: sessions a subscriber begins
          Tls,         \* the target is https
          Verify       \* verify_last_event_id of the plan

VARIABLES
  backend,  \* the backend that dispatch has called, "none" before that
  over,     \* "no", or what ends the loops: "stop" (the flag), "deadline"
  honours,  \* whether the server honours Last-Event-ID
  sub,      \* the locals of run_one_subscriber
  session,  \* the locals of run_one_session
  stats,    \* SubStats; events as the number of times each was counted
  total     \* the rollup, once every subscriber is joined

stormVars == <<honours, sub, session, stats, total>>
vars == <<backend, over, stormVars>>

Events == 1..MaxEvents
NoId == 0
Counters == {"attempted", "succeeded", "resumed", "connect", "read", "gaps"}
Phases == {"connect", "handshake", "write", "read"}

NoSession == [prior |-> NoId, cursor |-> 0, id |-> NoId, partial |-> NoId,
              events |-> {}, saw |-> FALSE, byte |-> FALSE]

StormInit ==
  /\ honours \in BOOLEAN
  /\ sub = [s \in Subscribers |->
              [pc |-> "head", first |-> TRUE, last |-> NoId, ended |-> FALSE, sessions |-> 0]]
  /\ session = [s \in Subscribers |-> NoSession]
  /\ stats = [s \in Subscribers |->
                [counted |-> [e \in Events |-> 0], n |-> [c \in Counters |-> 0]]]
  /\ total = <<>>

Running == backend = "storm" /\ total = <<>>
At(s, p) == Running /\ sub[s].pc = p
GoTo(s, p) == sub' = [sub EXCEPT ![s].pc = p]
Bump(n, cs) == [c \in Counters |-> IF c \in cs THEN n[c] + 1 ELSE n[c]]

-----------------------------------------------------------------------------
(* run_one_subscriber *)

Leave(s) ==
  /\ At(s, "head") /\ over # "no"
  /\ GoTo(s, "exited")
  /\ UNCHANGED <<backend, over, honours, session, stats, total>>

\* The id goes with every session but the first.
OpenSession(s) ==
  /\ At(s, "head") /\ over = "no"
  /\ sub[s].sessions < MaxSessions
  /\ LET prior == IF sub[s].first THEN NoId ELSE sub[s].last
     IN session' = [session EXCEPT ![s] =
          [NoSession EXCEPT !.prior = prior, !.id = prior,
                            !.cursor = IF honours THEN prior ELSE 0]]
  /\ sub' = [sub EXCEPT ![s].pc = "connect", ![s].sessions = @ + 1]
  /\ stats' = [stats EXCEPT ![s].n = Bump(@, IF sub[s].first THEN {} ELSE {"attempted"})]
  /\ UNCHANGED <<backend, over, honours, total>>

\* A wrong Fail: the id is kept although the events are dropped.
FailKeepingId(s, kind) ==
  /\ stats' = [stats EXCEPT ![s].n = Bump(@, {kind})]
  /\ sub' = [sub EXCEPT ![s].pc = "head", ![s].first = FALSE, ![s].last = session[s].id]
  /\ session' = [session EXCEPT ![s] = NoSession]
  /\ UNCHANGED <<backend, over, honours, total>>

\* run_one_session returned an error: what it had read is dropped.
Fail(s, kind) ==
  /\ stats' = [stats EXCEPT ![s].n = Bump(@, {kind})]
  /\ sub' = [sub EXCEPT ![s].pc = "head", ![s].first = FALSE]
  /\ session' = [session EXCEPT ![s] = NoSession]
  /\ UNCHANGED <<backend, over, honours, total>>

\* It returned an outcome: the events are added up, the id is kept.
Finish(s) ==
  LET o == session[s]
      again == ~sub[s].first
      resumed == o.prior # NoId /\ o.events # {} /\ ~o.saw
  IN /\ stats' = [stats EXCEPT
          ![s].counted = [e \in Events |-> @[e] + (IF e \in o.events THEN 1 ELSE 0)],
          ![s].n = Bump(@, (IF again THEN {"succeeded"} ELSE {})
                           \cup (IF again /\ sub[s].ended /\ o.byte THEN {"gaps"} ELSE {})
                           \cup (IF again /\ resumed THEN {"resumed"} ELSE {}))]
     /\ sub' = [sub EXCEPT ![s].pc = "head", ![s].first = FALSE, ![s].ended = TRUE,
                           ![s].last = IF o.id = NoId THEN @ ELSE o.id]
     /\ session' = [session EXCEPT ![s] = NoSession]
     /\ UNCHANGED <<backend, over, honours, total>>

-----------------------------------------------------------------------------
(* run_one_session.  Its first three phases have timeouts of their own and    *)
(* look neither at the flag nor at the deadline.                              *)

After == [connect |-> IF Tls THEN "handshake" ELSE "write",
          handshake |-> "write", write |-> "read"]

Advance(s) ==
  /\ \E p \in {"connect", "handshake", "write"} : At(s, p) /\ GoTo(s, After[p])
  /\ UNCHANGED <<backend, over, honours, session, stats, total>>

\* A handshake that fails counts as a failed connect, one that takes too long
\* (TransportError::Timeout) with the reads.
FailEarly(s) ==
  \/ At(s, "connect") /\ Fail(s, "connect")
  \/ At(s, "handshake") /\ \E kind \in {"connect", "read"} : Fail(s, kind)
  \/ At(s, "write") /\ Fail(s, "read")

FirstByte(s) ==
  /\ At(s, "read") /\ over = "no" /\ ~session[s].byte
  /\ session' = [session EXCEPT ![s].byte = TRUE]
  /\ UNCHANGED <<backend, over, honours, sub, stats, total>>

\* The parser emits the id at its line ...
ReadId(s) ==
  /\ At(s, "read") /\ over = "no" /\ session[s].byte
  /\ session[s].partial = NoId /\ session[s].cursor < MaxEvents
  /\ LET e == session[s].cursor + 1
     IN session' = [session EXCEPT ![s].partial = e, ![s].id = e,
                                   ![s].saw = @ \/ session[s].prior = e]
  /\ UNCHANGED <<backend, over, honours, sub, stats, total>>

\* ... and the data at the blank line.
ReadData(s) ==
  /\ At(s, "read") /\ over = "no" /\ session[s].partial # NoId
  /\ session' = [session EXCEPT ![s].events = @ \cup {session[s].partial},
                                ![s].cursor = session[s].partial,
                                ![s].partial = NoId]
  /\ UNCHANGED <<backend, over, honours, sub, stats, total>>

ReadFails(s) == At(s, "read") /\ over = "no" /\ Fail(s, "read")

\* The kill falls due, or the server closes.
SessionEnds(s) == At(s, "read") /\ over = "no" /\ Finish(s)

RunIsOver(s) == At(s, "read") /\ over # "no" /\ Finish(s)

\* The sums over the joined threads; with verify_last_event_id, a reconnect that
\* does not count as resumed is an error.
RollUp ==
  /\ Running /\ \A s \in Subscribers : sub[s].pc = "exited"
  /\ LET Sum(c) == MapThenSumSet(LAMBDA s : stats[s].n[c], Subscribers)
         missed == IF Sum("succeeded") < Sum("resumed") THEN 0
                   ELSE Sum("succeeded") - Sum("resumed")
     IN total' = [requests |-> MapThenSumSet(LAMBDA s :
                     MapThenSumSet(LAMBDA e : stats[s].counted[e], Events), Subscribers),
                  connect |-> Sum("connect"),
                  read |-> Sum("read") + (IF Verify THEN missed ELSE 0),
                  streams |-> Sum("succeeded")]
  /\ UNCHANGED <<backend, over, honours, sub, session, stats>>

-----------------------------------------------------------------------------

\* What a subscriber does by itself, its timeouts included.
SubscriberRuns(s) == Leave(s) \/ OpenSession(s) \/ Advance(s) \/ FailEarly(s) \/ RunIsOver(s)
ServerActs(s) == FirstByte(s) \/ ReadId(s) \/ ReadData(s) \/ ReadFails(s) \/ SessionEnds(s)

StormNext == RollUp \/ \E s \in Subscribers : SubscriberRuns(s) \/ ServerActs(s)

StormFairness == WF_vars(RollUp) /\ \A s \in Subscribers : WF_vars(SubscriberRuns(s))

-----------------------------------------------------------------------------
(* Properties *)

\* Events up to the id a subscriber would resume from.
Past(s) == {e \in Events : e <= sub[s].last}

(* With a server that honours Last-Event-ID, an event is counted once however *)
(* often the subscriber is killed, and one is missing only where a kill fell  *)
(* between the id and the data: at most one for each session that ended well. *)
(* A session that failed drops its events together with its id, so they are   *)
(* asked for again (run_one_subscriber).                                      *)
EventsOnceAcrossSessions ==
  honours => \A s \in Subscribers :
    /\ \A e \in Events : stats[s].counted[e] <= (IF e \in Past(s) THEN 1 ELSE 0)
    /\ Cardinality({e \in Past(s) : stats[s].counted[e] = 0})
         <= stats[s].n["succeeded"] + (IF sub[s].ended THEN 1 ELSE 0)

(* The counters agree with the sessions: every reconnect begun is under way,  *)
(* has succeeded or is an error (only the first session's error is one that   *)
(* is no reconnect), and no more count as resumed, or have a gap, than        *)
(* succeeded (SubStats).                                                      *)
ReconnectsAccounted ==
  \A s \in Subscribers :
    LET n == stats[s].n
        ends == n["succeeded"] + n["connect"] + n["read"]
                + (IF sub[s].pc \in Phases /\ ~sub[s].first THEN 1 ELSE 0)
    IN /\ n["attempted"] \in {ends, ends - 1}
       /\ n["resumed"] <= n["succeeded"] /\ n["gaps"] <= n["succeeded"]

(* The sessions of a subscriber add up: the events and the counters.          *)
SessionsAddUp == EventsOnceAcrossSessions /\ ReconnectsAccounted

=============================================================================
