------------------------------- MODULE Fanout -------------------------------
(* Broadcast latency (fanout_core.rs, sse/fanout.rs, ws/fanout.rs): held      *)
(* subscribers stamp what they receive, a trigger loop POSTs and stamps what  *)
(* it sent, and once all have ended the two lists are correlated.             *)
(*                                                                            *)
(* The server answers a POST and broadcasts; it broadcasts in the order of    *)
(* the POSTs, to those subscribed by then, and may drop a broadcast for one.  *)
EXTENDS Naturals, Sequences, FiniteSets, SequencesExt, FiniteSetsExt

CONSTANTS Listeners,   \* subscribers of the scenario
          MaxTriggers  \* bound: POSTs before the deadline

VARIABLES
  backend,    \* the backend that dispatch has called: one of Kinds here
  over,       \* "no", or what ends the loops: "stop" (the flag), "deadline"
  mode,       \* FanoutMode
  clock,      \* Instant::now, as far as instants are compared: +1 at each stamp
  trigger,    \* the trigger loop: where it is, POSTs fired, the last one's stamp
  triggers,   \* the shared list of triggers: stamp, and number of the POST (ghost)
  server,     \* POSTs that reached it, the last one it broadcast
  listener,   \* SubscriberStats of each, where it is, what is on its way to it
  fanTotal    \* what the scenario reports

fanVars == <<mode, clock, trigger, triggers, server, listener, fanTotal>>
vars == <<backend, over, fanVars>>

Kinds == {"sse_fanout", "ws_fanout"}
Modes == {"TriggerRtt", "Timestamp"}

FanoutInit ==
  /\ mode \in Modes
  /\ clock = 0 /\ triggers = <<>> /\ fanTotal = <<>>
  /\ trigger = [pc |-> "start", fired |-> 0, stamp |-> 0]
  /\ server = [reached |-> {}, last |-> 0]
  /\ listener = [s \in Listeners |-> [pc |-> "connect", inbox |-> <<>>, frames |-> <<>>,
                                      connect |-> 0, read |-> 0]]

Running == backend \in Kinds /\ fanTotal = <<>>

-----------------------------------------------------------------------------
(* run_one_subscriber, of either module.  Over WebSocket it also has to write: *)
(* a pong to each ping and a close frame at the end.                          *)

ListenerAt(s, p) == Running /\ listener[s].pc = p
Others == UNCHANGED <<backend, over, mode, trigger, triggers, server, fanTotal>>

\* Everything up to the request (or the upgrade) that was answered.
Subscribe(s) ==
  /\ ListenerAt(s, "connect")
  /\ listener' = [listener EXCEPT ![s].pc = "read"]
  /\ UNCHANGED clock /\ Others

SubscribeFails(s) ==
  /\ ListenerAt(s, "connect")
  /\ listener' = [listener EXCEPT ![s].pc = "left", ![s].connect = @ + 1]
  /\ UNCHANGED clock /\ Others

\* The field emit_ns is looked for in Timestamp mode only.
Receive(s) ==
  /\ ListenerAt(s, "read") /\ over = "no" /\ listener[s].inbox # <<>>
  /\ clock' = clock + 1
  /\ \E stamped \in IF mode = "Timestamp" THEN BOOLEAN ELSE {FALSE} :
       listener' = [listener EXCEPT
         ![s].inbox = Tail(@),
         ![s].frames = Append(@, [at |-> clock', of |-> Head(listener[s].inbox),
                                  stamped |-> stamped])]
  /\ Others

\* What it leaves by: over WebSocket a close frame, sent first or in reply.
GoesBy == IF backend = "ws_fanout" THEN "close" ELSE "left"

Ping(s) ==
  /\ ListenerAt(s, "read") /\ over = "no" /\ backend = "ws_fanout"
  /\ listener' = [listener EXCEPT ![s].pc = "pong"]
  /\ UNCHANGED clock /\ Others

\* A write that fails is an error of recv.
Pong(s) ==
  /\ ListenerAt(s, "pong")
  /\ \/ listener' = [listener EXCEPT ![s].pc = "read"]
     \/ listener' = [listener EXCEPT ![s].pc = "left", ![s].read = @ + 1]
  /\ UNCHANGED clock /\ Others

\* End of stream or a close frame is no error, anything else is one.
Drop(s) ==
  /\ ListenerAt(s, "read") /\ over = "no"
  /\ \/ listener' = [listener EXCEPT ![s].pc = GoesBy]
     \/ listener' = [listener EXCEPT ![s].pc = "left", ![s].read = @ + 1]
  /\ UNCHANGED clock /\ Others

Unsubscribe(s) ==
  /\ ListenerAt(s, "read") /\ over # "no"
  /\ listener' = [listener EXCEPT ![s].pc = GoesBy]
  /\ UNCHANGED clock /\ Others

\* Whether the write of the close frame succeeds or not.
Goodbye(s) ==
  /\ ListenerAt(s, "close")
  /\ listener' = [listener EXCEPT ![s].pc = "left"]
  /\ UNCHANGED clock /\ Others

-----------------------------------------------------------------------------
(* run_trigger_loop and fire_http_post *)

TriggerOthers == UNCHANGED <<backend, over, mode, listener, fanTotal>>

\* The head start of 100 ms is over, whoever is subscribed by then.
StartTrigger ==
  /\ Running /\ trigger.pc = "start"
  /\ trigger' = [trigger EXCEPT !.pc = "wait"]
  /\ UNCHANGED <<clock, triggers, server>> /\ TriggerOthers

FireTrigger ==
  /\ Running /\ trigger.pc = "wait" /\ over = "no" /\ trigger.fired < MaxTriggers
  /\ clock' = clock + 1
  /\ trigger' = [pc |-> "post", fired |-> trigger.fired + 1, stamp |-> clock']
  /\ UNCHANGED <<triggers, server>> /\ TriggerOthers

\* The server got the request; its answer is another matter.
PostReaches ==
  /\ Running /\ trigger.pc = "post" /\ trigger.fired \notin server.reached
  /\ server' = [server EXCEPT !.reached = @ \cup {trigger.fired}]
  /\ UNCHANGED <<clock, trigger, triggers>> /\ TriggerOthers

\* A byte of an answer, or an end of stream with none.
PostSucceeds ==
  /\ Running /\ trigger.pc = "post" /\ trigger.fired \in server.reached
  /\ triggers' = Append(triggers, [at |-> trigger.stamp, of |-> trigger.fired])
  /\ trigger' = [trigger EXCEPT !.pc = "wait"]
  /\ UNCHANGED <<clock, server>> /\ TriggerOthers

\* Refused, reset, or no byte within request_timeout.
PostFails ==
  /\ Running /\ trigger.pc = "post"
  /\ trigger' = [trigger EXCEPT !.pc = "wait"]
  /\ UNCHANGED <<clock, triggers, server>> /\ TriggerOthers

\* A wrong TriggerStops: the flag is not looked at.
TriggerStopsAtDeadline ==
  /\ Running /\ trigger.pc = "wait" /\ over = "deadline"
  /\ trigger' = [trigger EXCEPT !.pc = "left"]
  /\ UNCHANGED <<clock, triggers, server>> /\ TriggerOthers

TriggerStops ==
  /\ Running /\ trigger.pc = "wait" /\ over # "no"
  /\ trigger' = [trigger EXCEPT !.pc = "left"]
  /\ UNCHANGED <<clock, triggers, server>> /\ TriggerOthers

Broadcast ==
  /\ Running
  /\ \E n \in server.reached, lostFor \in SUBSET Listeners :
       /\ n > server.last
       /\ server' = [server EXCEPT !.last = n]
       /\ listener' = [s \in Listeners |->
            IF listener[s].pc \in {"read", "pong"} /\ s \notin lostFor
            THEN [listener[s] EXCEPT !.inbox = Append(@, n)] ELSE listener[s]]
  /\ UNCHANGED <<backend, over, mode, clock, trigger, triggers, fanTotal>>

-----------------------------------------------------------------------------
(* The correlation: each trigger, in order, takes the first frame not yet     *)
(* taken that is no older than it, and passes over the older ones for good.   *)

\* A wrong Correlate: a frame that was taken can be taken again.
CorrelateWithoutTaking(frames) ==
  [k \in DOMAIN triggers |->
     LET later == {i \in DOMAIN frames : frames[i].at >= triggers[k].at}
     IN IF later = {} THEN 0 ELSE Min(later)]

Correlate(frames) ==
  LET Step(acc, t) ==
        LET later == {i \in acc.from..Len(frames) : frames[i].at >= t.at}
            i == IF later = {} THEN 0 ELSE Min(later)
        IN [from |-> IF i = 0 THEN Len(frames) + 1 ELSE i + 1,
            match |-> Append(acc.match, i)]
  IN FoldLeft(Step, [from |-> 1, match |-> <<>>], triggers).match

\* Triggers without a frame, or frames without the field.
Unmatched(s) ==
  IF mode = "TriggerRtt"
  THEN Cardinality({k \in DOMAIN triggers : Correlate(listener[s].frames)[k] = 0})
  ELSE Cardinality({i \in DOMAIN listener[s].frames : ~listener[s].frames[i].stamped})

FanoutReport ==
  /\ Running /\ trigger.pc = "left" /\ \A s \in Listeners : listener[s].pc = "left"
  /\ LET Sum(f(_)) == MapThenSumSet(f, Listeners)
     IN fanTotal' = [requests |-> Sum(LAMBDA s : Len(listener[s].frames)),
                     connect |-> Sum(LAMBDA s : listener[s].connect),
                     read |-> Sum(LAMBDA s : listener[s].read + Unmatched(s)),
                     streams |-> Len(triggers)]
  /\ UNCHANGED <<backend, over, mode, clock, trigger, triggers, server, listener>>

TriggerThread == StartTrigger \/ FireTrigger \/ PostSucceeds \/ PostFails \/ TriggerStops
Listener(s) ==
  \/ Subscribe(s) \/ SubscribeFails(s) \/ Receive(s) \/ Drop(s) \/ Unsubscribe(s)
  \/ Ping(s) \/ Pong(s) \/ Goodbye(s)

FanoutNext ==
  \/ TriggerThread \/ PostReaches \/ Broadcast \/ FanoutReport
  \/ \E s \in Listeners : Listener(s)

\* Every wait has a timeout, except for the answer to a WebSocket upgrade and for
\* room for a WebSocket frame (WsConnection::connect, write_all_mio).
FanoutFairness ==
  /\ WF_vars(TriggerThread) /\ WF_vars(FanoutReport)
  /\ \A s \in Listeners :
       /\ WF_vars(backend = "sse_fanout" /\ (Subscribe(s) \/ SubscribeFails(s)))
       /\ WF_vars(Unsubscribe(s))

-----------------------------------------------------------------------------
\* Those waits.
Stuck == {s \in Listeners : \/ listener[s].pc \in {"pong", "close"}
                            \/ backend = "ws_fanout" /\ listener[s].pc = "connect"}

-----------------------------------------------------------------------------
(* Properties *)

(* What a sample says of its trigger (the consume-after-match loop).  If      *)
(* every broadcast is of a POST that was recorded, no sample is too small:    *)
(* the frame it took is of that trigger or of a later one.  If moreover the   *)
(* subscriber has the broadcast of every recorded trigger, each trigger has   *)
(* its own and none is charged as lost, however late they came.               *)
SamplesMatchTriggers ==
  fanTotal # <<>> /\ mode = "TriggerRtt" =>
    \A s \in Listeners :
      LET frames == listener[s].frames
          match == Correlate(frames)
          recorded == {triggers[k].of : k \in DOMAIN triggers}
          seen == {frames[i].of : i \in DOMAIN frames}
      IN seen \subseteq recorded =>
           /\ \A k \in DOMAIN triggers :
                match[k] # 0 => frames[match[k]].of >= triggers[k].of
           /\ recorded \subseteq seen =>
                \A k \in DOMAIN triggers :
                  match[k] # 0 /\ frames[match[k]].of = triggers[k].of

=============================================================================
