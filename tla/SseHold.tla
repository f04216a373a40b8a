------------------------------ MODULE SseHold -------------------------------
(* Long-lived SSE subscribers (sse/hold.rs): one thread polls all of them,    *)
(* drives the one an event names as far as it can go without blocking, and    *)
(* puts a fresh connection in the slot of one that died, if the plan says so. *)
EXTENDS Integers, FiniteSets, FiniteSetsExt

CONSTANTS Slots,         \* hold_plan.subscribers
          MaxDeliveries, \* bound: events the server sends, to all slots together
          MaxReconnects, \* bound: connections opened after those of the set-up
          Tls            \* the target is https

VARIABLES
  backend,   \* the backend that dispatch has called, "none" before that
  over,      \* "no", or what ends the loops: "stop" (the flag), "deadline"
  again,     \* hold_plan.reconnect
  loop,      \* where run_hold_scenario is: "setup", "poll", "batch", "done"
  subs,      \* the slots: a subscriber, or Vacant
  alive,     \* the count of the loop
  ready,     \* the slots with an event that the current batch has not handled
  refused,   \* rollup.errors_connect: creations that failed before the loop
  sent,      \* per slot, the Data events that reached its parser (ghost)
  opened,    \* per slot, the connections tried after the first (bounded)
  holdTotal  \* what the scenario reports

holdVars == <<again, loop, subs, alive, ready, refused, sent, opened, holdTotal>>
vars == <<backend, over, holdVars>>

Progress == <<"ConnectingTcp", "TlsHandshaking", "WritingRequest",
              "ReadingHeaders", "ReadingBody">>
Rank(st) == CHOOSE k \in DOMAIN Progress : Progress[k] = st
Vacant == [state |-> "None"]

FreshStats == [events |-> 0, connect |-> 0, read |-> 0, done |-> FALSE]
\* A wrong Subscriber: a reconnect starts to count afresh.
SubscriberAfresh(stats) == [state |-> "ConnectingTcp", stats |-> FreshStats]

Subscriber(stats) == [state |-> "ConnectingTcp", stats |-> stats]

Occupied == {i \in Slots : subs[i] # Vacant}
Total(count) == MapThenSumSet(LAMBDA i : count[i], Slots)
Living == {i \in Occupied : subs[i].state # "Dead"}

HoldInit ==
  /\ again \in BOOLEAN
  /\ loop = "setup" /\ alive = 0 /\ ready = {} /\ refused = 0
  /\ subs = [i \in Slots |-> Vacant]
  /\ sent = [i \in Slots |-> 0] /\ opened = [i \in Slots |-> 0]
  /\ holdTotal = <<>>

Holding(l) == backend = "hold" /\ loop = l

\* A slot that create_subscriber fails for stays empty.
CreateSubscribers ==
  /\ Holding("setup")
  /\ \E failed \in SUBSET Slots :
       /\ subs' = [i \in Slots |-> IF i \in failed THEN Vacant ELSE Subscriber(FreshStats)]
       /\ refused' = Cardinality(failed)
       /\ alive' = Cardinality(Slots \ failed)
  /\ loop' = "poll"
  /\ UNCHANGED <<backend, over, again, ready, sent, opened, holdTotal>>

\* The address does not resolve, or there is no poll: every slot is an error.
NothingToPoll ==
  /\ Holding("setup")
  /\ loop' = "done"
  /\ holdTotal' = [events |-> 0, connect |-> Cardinality(Slots), read |-> 0, streams |-> 0]
  /\ UNCHANGED <<backend, over, again, subs, alive, ready, refused, sent, opened>>

\* The flag and the deadline are looked at between two batches only.
PollEvents ==
  /\ Holding("poll") /\ alive > 0 /\ over = "no"
  /\ \E S \in SUBSET Slots : ready' = S
  /\ loop' = "batch"
  /\ UNCHANGED <<backend, over, again, subs, alive, refused, sent, opened, holdTotal>>

BatchHandled ==
  /\ Holding("batch") /\ ready = {}
  /\ loop' = "poll"
  /\ UNCHANGED <<backend, over, again, subs, alive, ready, refused, sent, opened,
                 holdTotal>>

\* An event for a slot that is empty, or whose subscriber is dead.
StaleEvent(i) ==
  /\ Holding("batch") /\ i \in ready \ Living
  /\ ready' = ready \ {i}
  /\ UNCHANGED <<backend, over, again, loop, subs, alive, refused, sent, opened,
                 holdTotal>>

-----------------------------------------------------------------------------
(* drive_subscriber and feed_body *)

\* The states the drive loop can stop in.
Ahead(st) == {p \in {Progress[k] : k \in Rank(st)..5} : p = "TlsHandshaking" => Tls}

\* What ends a subscriber in a state; the end of the body is no error.
Failures(p) == CASE p = "ReadingHeaders" -> {"read"}
                 [] p = "ReadingBody" -> {"read", "eof"}
                 [] OTHER -> {"connect"}

Charge(stats, why) == [stats EXCEPT !.connect = @ + (IF why = "connect" THEN 1 ELSE 0),
                                    !.read    = @ + (IF why = "read" THEN 1 ELSE 0)]

\* The statistics after k more Data events; [DONE] is noted and read past.
Fed(stats, k, sawDone) == [stats EXCEPT !.events = @ + k, !.done = @ \/ sawDone]

\* As far as the socket lets it go: it would block in state p.
Drive(i) ==
  /\ Holding("batch") /\ i \in ready \cap Living
  /\ \E p \in Ahead(subs[i].state), k \in 0..(MaxDeliveries - Total(sent)), sawDone \in BOOLEAN :
       /\ p # "ReadingBody" => k = 0 /\ ~sawDone
       /\ subs' = [subs EXCEPT ![i] = [state |-> p, stats |-> Fed(@.stats, k, sawDone)]]
       /\ sent' = [sent EXCEPT ![i] = @ + k]
  /\ ready' = ready \ {i}
  /\ UNCHANGED <<backend, over, again, loop, alive, refused, opened, holdTotal>>

\* It dies on the way.  A fresh connection inherits the statistics; when it
\* cannot be made the slot is already empty, and they go with it.
DriveDies(i) ==
  /\ Holding("batch") /\ i \in ready \cap Living
  /\ \E p \in Ahead(subs[i].state), k \in 0..(MaxDeliveries - Total(sent)), sawDone \in BOOLEAN :
       \E why \in Failures(p) :
         LET stats == Charge(Fed(subs[i].stats, k, sawDone), why)
             retry == again /\ over # "deadline" /\ Total(opened) < MaxReconnects
         IN /\ p # "ReadingBody" => k = 0 /\ ~sawDone
            /\ sent' = [sent EXCEPT ![i] = @ + k]
            /\ \/ /\ ~again \/ over = "deadline"
                  /\ subs' = [subs EXCEPT ![i] = [state |-> "Dead", stats |-> stats]]
                  /\ alive' = alive - 1
                  /\ UNCHANGED opened
               \/ /\ retry
                  /\ subs' = [subs EXCEPT ![i] = Subscriber(stats)]
                  /\ opened' = [opened EXCEPT ![i] = @ + 1]
                  /\ UNCHANGED alive
               \/ /\ retry
                  /\ subs' = [subs EXCEPT ![i] = Vacant]
                  /\ opened' = [opened EXCEPT ![i] = @ + 1]
                  /\ alive' = alive - 1
  /\ ready' = ready \ {i}
  /\ UNCHANGED <<backend, over, again, loop, refused, holdTotal>>

\* The event carries a socket error, which take_error may find cleared: the
\* subscriber dies and is not replaced.
SocketError(i) ==
  /\ Holding("batch") /\ i \in ready \cap Living
  /\ LET requestSent == Rank(subs[i].state) >= Rank("ReadingHeaders")
     IN \E why \in {"cleared", IF requestSent THEN "read" ELSE "connect"} :
          subs' = [subs EXCEPT ![i] = [state |-> "Dead", stats |-> Charge(@.stats, why)]]
  /\ alive' = alive - 1
  /\ ready' = ready \ {i}
  /\ UNCHANGED <<backend, over, again, loop, refused, sent, opened, holdTotal>>

-----------------------------------------------------------------------------

\* The loop ends when nobody is left, the time is up, or the poll fails (a signal
\* is enough); the slots that are still occupied are added up.
HoldReport ==
  /\ Holding("poll")
  /\ LET Sum(f(_)) == MapThenSumSet(f, Occupied)
     IN holdTotal' = [events  |-> Sum(LAMBDA i : subs[i].stats.events),
                      connect |-> refused + Sum(LAMBDA i : subs[i].stats.connect),
                      read    |-> Sum(LAMBDA i : subs[i].stats.read),
                      streams |-> Cardinality({i \in Occupied : subs[i].stats.done})]
  /\ loop' = "done"
  /\ UNCHANGED <<backend, over, again, subs, alive, ready, refused, sent, opened>>

HoldThread == CreateSubscribers \/ NothingToPoll \/ PollEvents \/ BatchHandled \/ HoldReport
HandleEvent(i) == StaleEvent(i) \/ Drive(i) \/ DriveDies(i) \/ SocketError(i)

HoldNext == HoldThread \/ \E i \in Slots : HandleEvent(i)

\* The thread goes on by itself: a poll returns within 100 ms.
HoldFairness == WF_vars(HoldNext)

-----------------------------------------------------------------------------
(* Properties *)

(* However often connections die and are replaced, and whatever is left of a  *)
(* batch when a slot changes hands, the count the loop ends on is the number  *)
(* of subscribers that still live, and an occupied slot has counted each      *)
(* event that reached any of its connections (run_hold_scenario).             *)
SlotsKeepTheirCounts ==
  /\ loop \in {"poll", "batch"} => alive = Cardinality(Living)
  /\ \A i \in Occupied : subs[i].stats.events = sent[i]

(* "Reconnects preserve the subscriber's accumulated stats so event counts    *)
(* and byte sums aggregate naturally across the session boundary"             *)
(* (hold.rs:691): what the scenario reports is what reached its subscribers.  *)
ReconnectKeepsStats ==
  holdTotal # <<>> => holdTotal.events = Total(sent)

=============================================================================
