--------------------------- MODULE SseBackendsProofs ---------------------------
(***************************************************************************)
(* The two SSE backends that keep connections over kills and reconnects,   *)
(* for any number of subscribers: the holder's slots and counts, and the   *)
(* sessions of the reconnect storm; and the fan-out, of either kind, for   *)
(* any number of listeners and triggers: the samples that it reports.      *)
(***************************************************************************)
EXTENDS Backends, FoldLemmas, FiniteSetTheorems, TLAPS

-----------------------------------------------------------------------------
(* Long-lived subscribers (SseHold). *)

HoldStates == {"ConnectingTcp", "TlsHandshaking", "WritingRequest",
               "ReadingHeaders", "ReadingBody"}
HoldFields == {"events", "connect", "read", "done"}

\* What a slot may hold once n events have reached its connections.
SlotHolds(x, n) ==
    \/ x = Hold!Vacant
    \/ /\ x.state \in HoldStates \cup {"Dead"}
       /\ DOMAIN x.stats = HoldFields /\ x.stats.events = n

\* Every slot has counted what reached it, the loop the living; none is taken
\* before the set-up.
HoldInv ==
    /\ DOMAIN subs = Slots /\ sent \in [Slots -> Nat]
    /\ loop \in {"setup", "poll", "batch", "done"}
    /\ loop = "setup" => \A i \in Slots : subs[i] = Hold!Vacant /\ sent[i] = 0
    /\ loop \in {"poll", "batch"} => alive = Cardinality(Hold!Living)
    /\ \A i \in Slots : SlotHolds(subs[i], sent[i])

\* The cardinality the holder's module means.
LEMMA HoldCardinality == ASSUME NEW S PROVE Hold!Cardinality(S) = Cardinality(S)
  BY DEF Hold!Cardinality, Cardinality

\* An empty slot is in no state of a connection.
LEMMA VacantIsNobody ==
    ASSUME NEW x, x.state \in HoldStates \cup {"Dead"} PROVE x # Hold!Vacant
<1>1. Hold!Vacant.state = "None"
  BY DEF Hold!Vacant
<1> QED  BY <1>1 DEF HoldStates

\* The loop's count is over a finite set.
LEMMA LivingFinite ==
    /\ IsFiniteSet(Slots) /\ IsFiniteSet(Hold!Living) /\ Hold!Living \subseteq Slots
    /\ Cardinality(Hold!Living) \in Nat
<1>1. IsFiniteSet(Slots)
  BY BackendsAssumption
<1>2. Hold!Living \subseteq Slots
  BY DEF Hold!Living, Hold!Occupied
<1> QED  BY <1>1, <1>2, FS_Subset, FS_CardinalityType

\* One slot changes hands: what it holds has counted what reached it, and the
\* loop's count follows the living.
LEMMA SlotKeepsInv ==
    ASSUME HoldInv, loop = "batch", UNCHANGED loop,
           NEW i \in Slots, i \in Hold!Living,
           NEW x, NEW n \in Nat, SlotHolds(x, n),
           subs' = [subs EXCEPT ![i] = x], sent' = [sent EXCEPT ![i] = n],
           \/ x.state \in HoldStates /\ alive' = alive
           \/ x.state \in {"Dead", "None"} /\ alive' = alive - 1
    PROVE  HoldInv'
<1>1. /\ DOMAIN subs' = Slots /\ sent' \in [Slots -> Nat]
      /\ subs'[i] = x /\ sent'[i] = n
      /\ \A k \in Slots : k # i => subs'[k] = subs[k] /\ sent'[k] = sent[k]
  BY DEF HoldInv
<1>2. \A k \in Slots : SlotHolds(subs'[k], sent'[k])
  BY <1>1 DEF HoldInv
<1>3. alive = Cardinality(Hold!Living) /\ alive' = Cardinality(Hold!Living')
  <2>1. alive = Cardinality(Hold!Living)
    BY DEF HoldInv
  <2>2. CASE x.state \in {"Dead", "None"} /\ alive' = alive - 1
    <3>1. x = Hold!Vacant \/ x.state = "Dead"
      BY <2>2 DEF SlotHolds, HoldStates
    <3>2. Hold!Living' = Hold!Living \ {i}
      BY <1>1, <3>1 DEF Hold!Living, Hold!Occupied
    <3>3. Cardinality(Hold!Living \ {i}) = Cardinality(Hold!Living) - 1
      BY LivingFinite, FS_RemoveElement
    <3> QED  BY <2>1, <2>2, <3>2, <3>3
  <2>3. CASE x.state \in HoldStates /\ alive' = alive
    <3>1. x # Hold!Vacant /\ x.state # "Dead"
      BY <2>3, VacantIsNobody DEF HoldStates
    <3>2. Hold!Living' = Hold!Living
      BY <1>1, <3>1 DEF Hold!Living, Hold!Occupied
    <3> QED  BY <2>1, <2>3, <3>2
  <2> QED  BY <2>2, <2>3
<1> QED  BY <1>1, <1>2, <1>3 DEF HoldInv

\* drive_subscriber stops in a state of a connection that is alive.
LEMMA AheadIsAlive ==
    ASSUME NEW st \in HoldStates PROVE Hold!Ahead(st) \subseteq HoldStates
<1>1. /\ Hold!Progress[1] = "ConnectingTcp" /\ Hold!Progress[2] = "TlsHandshaking"
      /\ Hold!Progress[3] = "WritingRequest" /\ Hold!Progress[4] = "ReadingHeaders"
      /\ Hold!Progress[5] = "ReadingBody" /\ DOMAIN Hold!Progress = 1..5
  BY DEF Hold!Progress
<1>2. \A k \in 1..5 : k = 1 \/ k = 2 \/ k = 3 \/ k = 4 \/ k = 5
  OBVIOUS
<1>3. \A k \in 1..5 : Hold!Progress[k] \in HoldStates
  BY <1>1, <1>2 DEF HoldStates
<1>4. \E k \in 1..5 : Hold!Progress[k] = st
  BY <1>1 DEF HoldStates
<1>5. Hold!Rank(st) \in 1..5
  BY <1>1, <1>4 DEF Hold!Rank
<1>6. \A k \in Hold!Rank(st)..5 : k \in 1..5
  BY <1>5
<1> QED  BY <1>3, <1>6 DEF Hold!Ahead

\* The events of a drive are added to those counted so far.
LEMMA FedCounts ==
    ASSUME NEW st, DOMAIN st = HoldFields, NEW k, NEW d
    PROVE  /\ DOMAIN Hold!Fed(st, k, d) = HoldFields
           /\ Hold!Fed(st, k, d).events = st.events + k
  BY DEF Hold!Fed, HoldFields

\* What a subscriber dies of is no event.
LEMMA ChargeCounts ==
    ASSUME NEW st, DOMAIN st = HoldFields, NEW why
    PROVE  /\ DOMAIN Hold!Charge(st, why) = HoldFields
           /\ Hold!Charge(st, why).events = st.events
  BY DEF Hold!Charge, HoldFields

\* A subscriber that lives has a state and counts.
LEMMA LivingHolds ==
    ASSUME HoldInv, NEW i \in Slots, i \in Hold!Living
    PROVE  /\ subs[i].state \in HoldStates /\ DOMAIN subs[i].stats = HoldFields
           /\ subs[i].stats.events = sent[i] /\ sent[i] \in Nat
  BY DEF HoldInv, Hold!Living, Hold!Occupied, SlotHolds

\* Steps that change no slot.
LEMMA HoldRests ==
    ASSUME HoldInv, UNCHANGED <<subs, sent, alive>>,
           loop' \in {"poll", "batch", "done"},
           loop' \in {"poll", "batch"} => loop \in {"poll", "batch"}
    PROVE  HoldInv'
  BY DEF HoldInv, Hold!Living, Hold!Occupied

LEMMA CreateKeepsInv ==
    ASSUME HoldInv, Hold!CreateSubscribers PROVE HoldInv'
<1>1. PICK failed \in SUBSET Slots :
        /\ subs' = [i \in Slots |-> IF i \in failed THEN Hold!Vacant
                                    ELSE Hold!Subscriber(Hold!FreshStats)]
        /\ alive' = Hold!Cardinality(Slots \ failed)
  BY DEF Hold!CreateSubscribers
<1> DEFINE fresh == Hold!Subscriber(Hold!FreshStats)
<1>2. fresh.state = "ConnectingTcp" /\ SlotHolds(fresh, 0)
  BY DEF Hold!Subscriber, Hold!FreshStats, SlotHolds, HoldFields, HoldStates
<1>3. fresh # Hold!Vacant
  BY <1>2, VacantIsNobody DEF HoldStates
<1>4. loop = "setup" /\ loop' = "poll" /\ sent' = sent
  BY DEF Hold!CreateSubscribers, Hold!Holding
<1>5. /\ DOMAIN subs' = Slots
      /\ \A i \in Slots : subs'[i] = IF i \in failed THEN Hold!Vacant ELSE fresh
  BY <1>1
<1> HIDE DEF fresh
<1>6. Hold!Living' = Slots \ failed
  BY <1>2, <1>3, <1>5 DEF Hold!Living, Hold!Occupied
<1>7. alive' = Cardinality(Hold!Living')
  BY <1>1, <1>6, HoldCardinality
<1>8. \A i \in Slots : SlotHolds(subs'[i], sent'[i])
  <2>1. \A i \in Slots : sent[i] = 0
    BY <1>4 DEF HoldInv
  <2>2. \A i \in Slots : SlotHolds(Hold!Vacant, sent[i]) /\ SlotHolds(fresh, sent[i])
    BY <1>2, <2>1 DEF SlotHolds
  <2> QED  BY <1>4, <1>5, <2>2
<1> QED  BY <1>4, <1>5, <1>7, <1>8 DEF HoldInv

LEMMA DriveKeepsInv ==
    ASSUME HoldInv, NEW i \in Slots, Hold!Drive(i) PROVE HoldInv'
<1>1. PICK p \in Hold!Ahead(subs[i].state),
           k \in 0..(MaxDeliveries - Hold!Total(sent)), d \in BOOLEAN :
        /\ subs' = [subs EXCEPT ![i] =
                      [state |-> p, stats |-> Hold!Fed(subs[i].stats, k, d)]]
        /\ sent' = [sent EXCEPT ![i] = sent[i] + k]
  BY DEF Hold!Drive
<1>2. /\ i \in Hold!Living /\ loop = "batch" /\ UNCHANGED <<loop, alive>>
  BY DEF Hold!Drive, Hold!Holding
<1> DEFINE fed == Hold!Fed(subs[i].stats, k, d)
           x == [state |-> p, stats |-> fed]
           n == sent[i] + k
<1>3. DOMAIN fed = HoldFields /\ fed.events = n /\ n \in Nat
  <2>1. k \in Nat
    BY <1>1
  <2> QED  BY <1>2, <2>1, LivingHolds, FedCounts
<1>4. p \in HoldStates
  BY <1>2, LivingHolds, AheadIsAlive
<1>5. subs' = [subs EXCEPT ![i] = x] /\ sent' = [sent EXCEPT ![i] = n]
  BY <1>1
<1> HIDE DEF fed, n
<1>6. x.state \in HoldStates /\ SlotHolds(x, n)
  BY <1>3, <1>4 DEF SlotHolds
<1> HIDE DEF x
<1> QED  BY <1>2, <1>3, <1>5, <1>6, SlotKeepsInv

LEMMA DeathKeepsInv ==
    ASSUME HoldInv, NEW i \in Slots, Hold!DriveDies(i) \/ Hold!SocketError(i)
    PROVE  HoldInv'
<1>1. /\ i \in Hold!Living /\ loop = "batch" /\ loop' = loop
  BY DEF Hold!DriveDies, Hold!SocketError, Hold!Holding
<1>2. ASSUME NEW x, NEW n \in Nat, SlotHolds(x, n),
             subs' = [subs EXCEPT ![i] = x], sent' = [sent EXCEPT ![i] = n],
             \/ x.state \in HoldStates /\ alive' = alive
             \/ x.state \in {"Dead", "None"} /\ alive' = alive - 1
      PROVE  HoldInv'
  BY <1>1, <1>2, SlotKeepsInv
<1>3. CASE Hold!DriveDies(i)
  <2>1. PICK k \in 0..(MaxDeliveries - Hold!Total(sent)), d \in BOOLEAN,
             why \in {"connect", "read", "eof"} :
          LET stats1 == Hold!Charge(Hold!Fed(subs[i].stats, k, d), why)
          IN  /\ sent' = [sent EXCEPT ![i] = sent[i] + k]
              /\ \/ /\ subs' = [subs EXCEPT ![i] = [state |-> "Dead", stats |-> stats1]]
                    /\ alive' = alive - 1
                 \/ /\ subs' = [subs EXCEPT ![i] = Hold!Subscriber(stats1)]
                    /\ alive' = alive
                 \/ /\ subs' = [subs EXCEPT ![i] = Hold!Vacant]
                    /\ alive' = alive - 1
    BY ZenonT(30), <1>3 DEF Hold!DriveDies, Hold!Failures
  <2> DEFINE fed == Hold!Fed(subs[i].stats, k, d)
             stats1 == Hold!Charge(fed, why)
             n == sent[i] + k
  <2>2. DOMAIN fed = HoldFields /\ fed.events = n /\ n \in Nat
    <3>1. k \in Nat
      BY <2>1
    <3>2. /\ DOMAIN subs[i].stats = HoldFields /\ subs[i].stats.events = sent[i]
          /\ sent[i] \in Nat
      BY <1>1, LivingHolds
    <3>3. DOMAIN fed = HoldFields /\ fed.events = subs[i].stats.events + k
      BY <3>2, FedCounts, Zenon
    <3> HIDE DEF fed
    <3> QED  BY <3>1, <3>2, <3>3
  <2>3. sent' = [sent EXCEPT ![i] = n]
    BY <2>1
  <2>4. \/ subs' = [subs EXCEPT ![i] = [state |-> "Dead", stats |-> stats1]]
           /\ alive' = alive - 1
        \/ subs' = [subs EXCEPT ![i] = Hold!Subscriber(stats1)] /\ alive' = alive
        \/ subs' = [subs EXCEPT ![i] = Hold!Vacant] /\ alive' = alive - 1
    BY <2>1
  <2> HIDE DEF fed, n
  <2>5. DOMAIN stats1 = HoldFields /\ stats1.events = n
    BY <2>2, ChargeCounts
  <2> HIDE DEF stats1
  <2>6. CASE subs' = [subs EXCEPT ![i] = [state |-> "Dead", stats |-> stats1]]
             /\ alive' = alive - 1
    <3>1. SlotHolds([state |-> "Dead", stats |-> stats1], n)
      BY <2>5 DEF SlotHolds
    <3> QED  BY <1>2, <2>2, <2>3, <2>6, <3>1
  <2>7. CASE subs' = [subs EXCEPT ![i] = Hold!Subscriber(stats1)] /\ alive' = alive
    <3>1. /\ SlotHolds(Hold!Subscriber(stats1), n)
          /\ Hold!Subscriber(stats1).state \in HoldStates
      BY <2>5 DEF SlotHolds, Hold!Subscriber, HoldStates
    <3> QED  BY <1>2, <2>2, <2>3, <2>7, <3>1
  <2>8. CASE subs' = [subs EXCEPT ![i] = Hold!Vacant] /\ alive' = alive - 1
    <3>1. SlotHolds(Hold!Vacant, n) /\ Hold!Vacant.state = "None"
      BY DEF SlotHolds, Hold!Vacant
    <3> QED  BY <1>2, <2>2, <2>3, <2>8, <3>1
  <2> QED  BY <2>4, <2>6, <2>7, <2>8
<1>4. CASE Hold!SocketError(i)
  <2>1. PICK why : subs' = [subs EXCEPT ![i] =
                     [state |-> "Dead", stats |-> Hold!Charge(subs[i].stats, why)]]
    BY <1>4 DEF Hold!SocketError
  <2> DEFINE stats1 == Hold!Charge(subs[i].stats, why)
             x == [state |-> "Dead", stats |-> stats1]
  <2>2. DOMAIN stats1 = HoldFields /\ stats1.events = sent[i] /\ sent[i] \in Nat
    BY <1>1, LivingHolds, ChargeCounts
  <2>3. sent' = [sent EXCEPT ![i] = sent[i]] /\ alive' = alive - 1
    BY <1>4 DEF Hold!SocketError, HoldInv
  <2>4. subs' = [subs EXCEPT ![i] = x]
    BY <2>1
  <2> HIDE DEF stats1
  <2>5. SlotHolds(x, sent[i]) /\ x.state = "Dead"
    BY <2>2 DEF SlotHolds
  <2> HIDE DEF x
  <2> QED  BY <1>2, <2>2, <2>3, <2>4, <2>5
<1> QED  BY <1>3, <1>4

LEMMA HoldStepKeepsInv == ASSUME HoldInv, Next \/ UNCHANGED vars PROVE HoldInv'
<1>1. CASE UNCHANGED holdVars
  BY <1>1 DEF holdVars, HoldInv, Hold!Living, Hold!Occupied
<1>2. CASE HoldStep
  <2>1. CASE Hold!NothingToPoll \/ Hold!PollEvents \/ Hold!BatchHandled \/ Hold!HoldReport
    BY <2>1, HoldRests DEF Hold!NothingToPoll, Hold!PollEvents, Hold!BatchHandled,
       Hold!HoldReport, Hold!Holding
  <2>2. ASSUME NEW i \in Slots, Hold!StaleEvent(i) PROVE HoldInv'
    BY <2>2, HoldRests DEF Hold!StaleEvent, Hold!Holding
  <2> QED  BY <1>2, <2>1, <2>2, CreateKeepsInv, DriveKeepsInv, DeathKeepsInv
           DEF HoldStep, Hold!HoldNext, Hold!HoldThread, Hold!HandleEvent
<1>3. HoldStep \/ UNCHANGED holdVars
  BY DEF Next, vars, TimeUp, StormStep, FanStep, WsStep, H2Step, CheckStep
<1> QED  BY <1>1, <1>2, <1>3

\* run_hold_scenario: the count the loop ends on is the number of subscribers
\* that live, and a slot has counted every event of all its connections.
THEOREM SlotsAreCounted == Spec => []SlotsKeepTheirCounts
<1>1. Init => HoldInv
  BY DEF Init, RunOneProtocol, Hold!HoldInit, HoldInv, SlotHolds
<1>2. HoldInv /\ [Next]_vars => HoldInv'
  BY HoldStepKeepsInv
<1>3. HoldInv => SlotsKeepTheirCounts
  BY HoldCardinality
  DEF HoldInv, SlotHolds, SlotsKeepTheirCounts, Hold!SlotsKeepTheirCounts, Hold!Occupied
<1> QED  BY <1>1, <1>2, <1>3, PTL DEF Spec

-----------------------------------------------------------------------------
(* The sessions of the reconnect storm (ReconnectStorm). *)

SubFields == {"pc", "first", "last", "ended", "sessions"}
SessionFields == {"prior", "cursor", "id", "partial", "events", "saw", "byte"}

\* The locals of each thread are there, and are its own.
StormShape ==
    /\ DOMAIN sub = Subscribers /\ DOMAIN session = Subscribers
    /\ DOMAIN stats = Subscribers
    /\ \A s \in Subscribers :
         /\ DOMAIN sub[s] = SubFields /\ DOMAIN session[s] = SessionFields
         /\ DOMAIN stats[s] = {"counted", "n"}

\* What a thread knows between sessions and in one.
Locals(S) ==
    /\ S.pc \in Storm!Phases \cup {"head", "exited"}
    /\ S.first \in BOOLEAN /\ S.ended \in BOOLEAN
    /\ S.first => S.last = 0 /\ ~S.ended

\* The sessions whose end is in the counters n; the first only as an error.
Ends(n) == n["succeeded"] + n["connect"] + n["read"]

\* The counters, with n those of a thread: nothing before the first session is
\* over; then every reconnect has an end, but the one under way.
Counted(S, n) ==
    /\ n \in [Storm!Counters -> Nat]
    /\ S.first => n["attempted"] = 0 /\ Ends(n) = 0
    /\ ~S.first => /\ S.pc \in Storm!Phases => n["attempted"] \in {Ends(n), Ends(n) + 1}
                   /\ S.pc \notin Storm!Phases => Ends(n) \in {n["attempted"], n["attempted"] + 1}
    /\ n["resumed"] <= n["succeeded"] /\ n["gaps"] <= n["succeeded"]

Missing(S, counted1) == {e \in 1..MaxEvents : e <= S.last /\ counted1[e] = 0}

\* The events, with a server that honours the id.
Seen(S, T) ==
    /\ S.last \in 0..MaxEvents /\ T.counted \in [1..MaxEvents -> Nat]
    /\ \A e \in 1..MaxEvents : T.counted[e] <= (IF e <= S.last THEN 1 ELSE 0)
    /\ Cardinality(Missing(S, T.counted)) <= T.n["succeeded"] + (IF S.ended THEN 1 ELSE 0)

\* A session goes on after the last id: what it has read are the events from
\* there to the cursor, and the id is one ahead of it between the two lines.
Reading(S, E) ==
    /\ E.cursor \in S.last..MaxEvents /\ E.prior = S.last
    /\ E.events = S.last + 1 .. E.cursor
    /\ E.partial \in {0, E.cursor + 1} /\ E.partial <= MaxEvents
    /\ E.id = IF E.partial = 0 THEN E.cursor ELSE E.partial

\* All of it, for one thread.
SubscriberOk(S, E, T) ==
    /\ Locals(S) /\ Counted(S, T.n)
    /\ honours => Seen(S, T) /\ (S.pc \in Storm!Phases => Reading(S, E))

StormInv == StormShape /\ \A s \in Subscribers : SubscriberOk(sub[s], session[s], stats[s])

\* The cardinality the storm's module means.
LEMMA StormCardinality == ASSUME NEW S PROVE Storm!Cardinality(S) = Cardinality(S)
  BY DEF Storm!Cardinality, Cardinality

\* A step of one thread leaves the other threads as they were.
LEMMA OneSubscriberMoves ==
    ASSUME StormInv, NEW s \in Subscribers, UNCHANGED honours,
           \/ UNCHANGED sub
           \/ \E S : sub' = [sub EXCEPT ![s] = S] /\ DOMAIN S = SubFields,
           \/ UNCHANGED session
           \/ \E E : session' = [session EXCEPT ![s] = E] /\ DOMAIN E = SessionFields,
           \/ UNCHANGED stats
           \/ \E T : stats' = [stats EXCEPT ![s] = T] /\ DOMAIN T = {"counted", "n"},
           SubscriberOk(sub'[s], session'[s], stats'[s])
    PROVE  StormInv'
<1>1. StormShape'
  <2>1. DOMAIN sub' = Subscribers /\ \A q \in Subscribers : DOMAIN sub'[q] = SubFields
    BY DEF StormInv, StormShape
  <2>2. /\ DOMAIN session' = Subscribers
        /\ \A q \in Subscribers : DOMAIN session'[q] = SessionFields
    BY DEF StormInv, StormShape
  <2>3. /\ DOMAIN stats' = Subscribers
        /\ \A q \in Subscribers : DOMAIN stats'[q] = {"counted", "n"}
    BY DEF StormInv, StormShape
  <2> QED  BY <2>1, <2>2, <2>3 DEF StormShape
<1>2. \A q \in Subscribers \ {s} :
         sub'[q] = sub[q] /\ session'[q] = session[q] /\ stats'[q] = stats[q]
  BY DEF StormInv, StormShape
<1>3. \A q \in Subscribers : SubscriberOk(sub'[q], session'[q], stats'[q])
  BY <1>2 DEF StormInv
<1> QED  BY <1>1, <1>3 DEF StormInv, SubscriberOk

\* No thread is changed in these.
LEMMA StormRests ==
    ASSUME StormInv, UNCHANGED <<honours, sub, session, stats>> PROVE StormInv'
  BY DEF StormInv, StormShape, SubscriberOk

\* Counting once more.
LEMMA BumpCounts ==
    ASSUME NEW n \in [Storm!Counters -> Nat], NEW cs
    PROVE  /\ Storm!Bump(n, cs) \in [Storm!Counters -> Nat]
           /\ \A c \in Storm!Counters :
                Storm!Bump(n, cs)[c] = n[c] + (IF c \in cs THEN 1 ELSE 0)
  BY DEF Storm!Bump

LEMMA OpenKeepsInv ==
    ASSUME StormInv, NEW s \in Subscribers, Storm!OpenSession(s) PROVE StormInv'
<1> DEFINE S == sub[s]
           E == session[s]
           T == stats[s]
           prior == IF S.first THEN 0 ELSE S.last
           S1 == [S EXCEPT !.pc = "connect", !.sessions = @ + 1]
           E1 == [Storm!NoSession EXCEPT !.prior = prior, !.id = prior,
                                         !.cursor = IF honours THEN prior ELSE 0]
           T1 == [T EXCEPT !.n = Storm!Bump(@, IF S.first THEN {} ELSE {"attempted"})]
<1>1. /\ StormShape /\ SubscriberOk(S, E, T) /\ S.pc = "head" /\ honours' = honours
  BY DEF StormInv, Storm!OpenSession, Storm!At
<1>2. /\ sub' = [sub EXCEPT ![s] = S1] /\ session' = [session EXCEPT ![s] = E1]
      /\ stats' = [stats EXCEPT ![s] = T1]
  BY <1>1 DEF Storm!OpenSession, Storm!NoId, StormShape
<1>3. /\ DOMAIN S1 = SubFields /\ S1.pc = "connect" /\ S1.first = S.first
      /\ S1.last = S.last /\ S1.ended = S.ended
  BY <1>1 DEF StormShape, SubFields
<1>4. /\ DOMAIN E1 = SessionFields /\ E1.prior = prior /\ E1.id = prior /\ E1.partial = 0
      /\ E1.events = {} /\ (honours => E1.cursor = prior)
  BY DEF Storm!NoSession, Storm!NoId, SessionFields
<1>5. /\ DOMAIN T1 = {"counted", "n"} /\ T1.counted = T.counted
      /\ T1.n = Storm!Bump(T.n, IF S.first THEN {} ELSE {"attempted"})
  BY <1>1 DEF StormShape
<1>6. sub'[s] = S1 /\ session'[s] = E1 /\ stats'[s] = T1
  BY <1>1, <1>2 DEF StormShape
<1> HIDE DEF S1, E1, T1
<1>7. Locals(S1) /\ prior = S.last
  BY <1>1, <1>3 DEF SubscriberOk, Locals, Storm!Phases
<1>8. Counted(S1, T1.n)
  <2>1. T.n \in [Storm!Counters -> Nat] /\ Counted(S, T.n) /\ S.first \in BOOLEAN
    BY <1>1 DEF SubscriberOk, Counted, Locals
  <2>2. /\ T1.n \in [Storm!Counters -> Nat]
        /\ T1.n["attempted"] = T.n["attempted"] + (IF S.first THEN 0 ELSE 1)
        /\ \A c \in {"succeeded", "connect", "read", "resumed", "gaps"} : T1.n[c] = T.n[c]
    BY <1>5, <2>1, BumpCounts DEF Storm!Counters
  <2>3. \A c \in {"succeeded", "connect", "read", "resumed", "gaps", "attempted"} :
           T.n[c] \in Nat
    BY <2>1 DEF Storm!Counters
  <2>4. Ends(T1.n) = Ends(T.n) /\ Ends(T.n) \in Nat
    BY <2>2, <2>3 DEF Ends
  <2> QED  BY <1>1, <1>3, <2>1, <2>2, <2>3, <2>4 DEF Counted, Storm!Phases
<1>9. honours => Seen(S1, T1)
  <2>1. T1.n["succeeded"] = T.n["succeeded"]
    BY <1>1, <1>5, BumpCounts DEF SubscriberOk, Counted, Storm!Counters
  <2> QED  BY <1>1, <1>3, <1>5, <2>1 DEF SubscriberOk, Seen, Missing
<1>10. honours => Reading(S1, E1)
  <2> SUFFICES ASSUME honours PROVE Reading(S1, E1)
    OBVIOUS
  <2>1. S.last \in 0..MaxEvents /\ MaxEvents \in Nat
    BY <1>1, BackendsAssumption DEF SubscriberOk, Seen
  <2>2. S.last + 1 .. S.last = {}
    BY <2>1
  <2>3. /\ S1.last = S.last /\ E1.prior = S.last /\ E1.id = S.last /\ E1.cursor = S.last
        /\ E1.partial = 0 /\ E1.events = S.last + 1 .. S.last
    BY <1>3, <1>4, <1>7, <2>2
  <2>4. S.last \in S.last..MaxEvents
    BY <2>1
  <2>5. 0 <= MaxEvents
    BY <2>1
  <2> QED  BY <2>3, <2>4, <2>5 DEF Reading
<1>11. SubscriberOk(S1, E1, T1)
  BY <1>7, <1>8, <1>9, <1>10 DEF SubscriberOk
<1> QED  BY <1>1, <1>2, <1>3, <1>4, <1>5, <1>6, <1>11, OneSubscriberMoves

\* A thread goes on without a change to its session or its counts: it leaves,
\* or gets from one phase to the next.
LEMMA GoingOnKeepsInv ==
    ASSUME StormInv, NEW s \in Subscribers, NEW p, Storm!GoTo(s, p),
           UNCHANGED <<honours, session, stats>>,
           \/ sub[s].pc = "head" /\ p = "exited"
           \/ sub[s].pc \in Storm!Phases /\ p \in Storm!Phases
    PROVE  StormInv'
<1> DEFINE S1 == [sub[s] EXCEPT !.pc = p]
<1>1. StormShape /\ SubscriberOk(sub[s], session[s], stats[s])
  BY DEF StormInv
<1>2. sub' = [sub EXCEPT ![s] = S1]
  BY <1>1 DEF Storm!GoTo, StormShape
<1>3. /\ DOMAIN S1 = SubFields /\ S1.pc = p /\ S1.first = sub[s].first
      /\ S1.last = sub[s].last /\ S1.ended = sub[s].ended
  BY <1>1 DEF StormShape, SubFields
<1>4. sub'[s] = S1 /\ session'[s] = session[s] /\ stats'[s] = stats[s]
  BY <1>1, <1>2 DEF StormShape
<1> HIDE DEF S1
<1>5. p \in Storm!Phases \cup {"exited"} /\ (p \in Storm!Phases <=> sub[s].pc \in Storm!Phases)
  BY DEF Storm!Phases
<1>6. Locals(S1)
  BY <1>1, <1>3, <1>5 DEF SubscriberOk, Locals
<1>7. Counted(S1, stats[s].n)
  BY <1>1, <1>3, <1>5 DEF SubscriberOk, Counted
<1>8. honours => Seen(S1, stats[s])
  BY <1>1, <1>3 DEF SubscriberOk, Seen, Missing
<1>9. honours /\ p \in Storm!Phases => Reading(S1, session[s])
  BY <1>1, <1>3, <1>5 DEF SubscriberOk, Reading
<1>10. SubscriberOk(S1, session[s], stats[s])
  BY <1>3, <1>6, <1>7, <1>8, <1>9 DEF SubscriberOk
<1> QED  BY <1>2, <1>3, <1>4, <1>10, OneSubscriberMoves

\* A session reads on.
LEMMA ReadingKeepsInv ==
    ASSUME StormInv, NEW s \in Subscribers, NEW E1, DOMAIN E1 = SessionFields,
           session' = [session EXCEPT ![s] = E1], UNCHANGED <<honours, sub, stats>>,
           honours /\ Reading(sub[s], session[s]) => Reading(sub[s], E1),
           sub[s].pc = "read"
    PROVE  StormInv'
<1>1. StormShape /\ SubscriberOk(sub[s], session[s], stats[s])
  BY DEF StormInv
<1>2. session'[s] = E1 /\ sub'[s] = sub[s] /\ stats'[s] = stats[s]
  BY <1>1 DEF StormShape
<1>3. SubscriberOk(sub[s], E1, stats[s])
  BY <1>1 DEF SubscriberOk, Storm!Phases
<1> QED  BY <1>2, <1>3, OneSubscriberMoves

\* The phases of a session: a byte, an id, the data that belongs to it.
LEMMA LinesKeepInv ==
    ASSUME StormInv, NEW s \in Subscribers,
           Storm!FirstByte(s) \/ Storm!ReadId(s) \/ Storm!ReadData(s)
    PROVE  StormInv'
<1> DEFINE E == session[s]
           e == E.cursor + 1
           EByte == [E EXCEPT !.byte = TRUE]
           EId == [E EXCEPT !.partial = e, !.id = e, !.saw = @ \/ E.prior = e]
           EData == [E EXCEPT !.events = @ \cup {E.partial}, !.cursor = E.partial,
                              !.partial = 0]
<1>1. /\ StormShape /\ sub[s].pc = "read" /\ UNCHANGED <<honours, sub, stats>>
      /\ DOMAIN E = SessionFields /\ MaxEvents \in Nat
      /\ honours => sub[s].last \in 0..MaxEvents /\ Reading(sub[s], E)
  BY BackendsAssumption
  DEF StormInv, StormShape, SubscriberOk, Seen, Storm!FirstByte, Storm!ReadId,
      Storm!ReadData, Storm!At, Storm!Phases
<1>2. CASE Storm!FirstByte(s)
  <2>1. session' = [session EXCEPT ![s] = EByte]
    BY <1>1, <1>2 DEF Storm!FirstByte, StormShape
  <2>2. /\ DOMAIN EByte = SessionFields
        /\ \A f \in SessionFields \ {"byte"} : EByte[f] = E[f]
    BY <1>1 DEF SessionFields
  <2>3. Reading(sub[s], E) => Reading(sub[s], EByte)
    BY <2>2 DEF Reading, SessionFields
  <2> HIDE DEF EByte
  <2> QED  BY <1>1, <2>1, <2>2, <2>3, ReadingKeepsInv
<1>3. CASE Storm!ReadId(s)
  <2>1. session' = [session EXCEPT ![s] = EId] /\ E.partial = 0 /\ E.cursor < MaxEvents
    BY <1>1, <1>3 DEF Storm!ReadId, StormShape, Storm!NoId
  <2>2. /\ DOMAIN EId = SessionFields /\ EId.partial = e /\ EId.id = e
        /\ EId.prior = E.prior /\ EId.cursor = E.cursor /\ EId.events = E.events
    BY <1>1 DEF SessionFields
  <2>3. honours /\ Reading(sub[s], E) => Reading(sub[s], EId)
    <3> HIDE DEF EId
    <3> SUFFICES ASSUME honours, Reading(sub[s], E) PROVE Reading(sub[s], EId)
      OBVIOUS
    <3>1. E.cursor \in Nat
      BY <1>1 DEF Reading
    <3> QED  BY <1>1, <2>1, <2>2, <3>1 DEF Reading
  <2> HIDE DEF EId
  <2> QED  BY <1>1, <2>1, <2>2, <2>3, ReadingKeepsInv
<1>4. CASE Storm!ReadData(s)
  <2>1. session' = [session EXCEPT ![s] = EData] /\ E.partial # 0
    BY <1>1, <1>4 DEF Storm!ReadData, StormShape, Storm!NoId
  <2>2. /\ DOMAIN EData = SessionFields /\ EData.partial = 0 /\ EData.id = E.id
        /\ EData.prior = E.prior /\ EData.cursor = E.partial
        /\ EData.events = E.events \cup {E.partial}
    BY <1>1 DEF SessionFields
  <2>3. honours /\ Reading(sub[s], E) => Reading(sub[s], EData)
    <3> HIDE DEF EData
    <3> SUFFICES ASSUME honours, Reading(sub[s], E) PROVE Reading(sub[s], EData)
      OBVIOUS
    <3>1. /\ E.cursor \in Nat /\ E.cursor >= sub[s].last /\ sub[s].last \in Nat
          /\ E.partial = E.cursor + 1 /\ E.partial <= MaxEvents
      BY <1>1, <2>1 DEF Reading
    <3>2. (sub[s].last + 1 .. E.cursor) \cup {E.cursor + 1} = sub[s].last + 1 .. E.cursor + 1
      BY <3>1
    <3>3. EData.events = sub[s].last + 1 .. EData.cursor
      BY <2>2, <3>1, <3>2 DEF Reading
    <3>4. EData.cursor \in sub[s].last..MaxEvents
      BY <1>1, <2>2, <3>1
    <3> QED  BY <1>1, <2>1, <2>2, <3>1, <3>3, <3>4 DEF Reading
  <2> HIDE DEF EData
  <2> QED  BY <1>1, <2>1, <2>2, <2>3, ReadingKeepsInv
<1> QED  BY <1>2, <1>3, <1>4

\* The error of a session in its counters.
LEMMA ErrorCounts ==
    ASSUME NEW S, NEW S1, NEW n \in [Storm!Counters -> Nat],
           NEW n1 \in [Storm!Counters -> Nat], NEW kind \in {"connect", "read"},
           S.first \in BOOLEAN, S.pc \in Storm!Phases, Counted(S, n),
           S1.pc \notin Storm!Phases, ~S1.first,
           \A c \in Storm!Counters : n1[c] = n[c] + (IF c = kind THEN 1 ELSE 0)
    PROVE  Counted(S1, n1)
<1>1. /\ \A c \in {"succeeded", "resumed", "gaps", "attempted"} :
             n1[c] = n[c] /\ n[c] \in Nat
      /\ Ends(n1) = Ends(n) + 1 /\ Ends(n) \in Nat
  BY DEF Storm!Counters, Ends
<1>2. /\ S.first => n["attempted"] = 0 /\ Ends(n) = 0
      /\ ~S.first => n["attempted"] \in {Ends(n) + 1, Ends(n)}
      /\ n["resumed"] <= n["succeeded"] /\ n["gaps"] <= n["succeeded"]
  BY DEF Counted
<1>3. /\ Ends(n1) \in {n1["attempted"], n1["attempted"] + 1}
      /\ n1["resumed"] <= n1["succeeded"] /\ n1["gaps"] <= n1["succeeded"]
  BY <1>1, <1>2
<1> QED  BY <1>3 DEF Counted

\* A session that failed: its error is counted, its events and its id go.
LEMMA FailKeepsInv ==
    ASSUME StormInv, NEW s \in Subscribers, NEW kind \in {"connect", "read"},
           sub[s].pc \in Storm!Phases, Storm!Fail(s, kind)
    PROVE  StormInv'
<1> DEFINE S == sub[s]
           T == stats[s]
           S1 == [S EXCEPT !.pc = "head", !.first = FALSE]
           T1 == [T EXCEPT !.n = Storm!Bump(@, {kind})]
           E1 == Storm!NoSession
<1>1. StormShape /\ SubscriberOk(S, session[s], T) /\ honours' = honours
  BY DEF StormInv, Storm!Fail
<1>2. /\ sub' = [sub EXCEPT ![s] = S1] /\ session' = [session EXCEPT ![s] = E1]
      /\ stats' = [stats EXCEPT ![s] = T1]
  BY <1>1 DEF Storm!Fail, StormShape
<1>3. /\ DOMAIN S1 = SubFields /\ S1.pc = "head" /\ S1.first = FALSE
      /\ S1.last = S.last /\ S1.ended = S.ended
  BY <1>1 DEF StormShape, SubFields
<1>4. DOMAIN E1 = SessionFields
  BY DEF Storm!NoSession, SessionFields
<1>5. /\ DOMAIN T1 = {"counted", "n"} /\ T1.counted = T.counted
      /\ T1.n = Storm!Bump(T.n, {kind})
  BY <1>1 DEF StormShape
<1>6. sub'[s] = S1 /\ session'[s] = E1 /\ stats'[s] = T1
  BY <1>1, <1>2 DEF StormShape
<1> HIDE DEF S1, E1, T1
<1>7. Locals(S1)
  BY <1>1, <1>3 DEF SubscriberOk, Locals
<1>8. /\ T.n \in [Storm!Counters -> Nat] /\ T1.n \in [Storm!Counters -> Nat]
      /\ \A c \in Storm!Counters : T1.n[c] = T.n[c] + (IF c = kind THEN 1 ELSE 0)
  BY <1>1, <1>5, BumpCounts DEF SubscriberOk, Counted
<1>9. Counted(S1, T1.n)
  <2>1. Counted(S, T.n) /\ S.first \in BOOLEAN /\ S.pc \in Storm!Phases
    BY <1>1 DEF SubscriberOk, Locals
  <2>2. S1.pc \notin Storm!Phases /\ ~S1.first
    BY <1>3 DEF Storm!Phases
  <2> HIDE DEF S, T
  <2> QED  BY <1>3, <1>8, <2>1, <2>2, ErrorCounts
<1>10. honours => Seen(S1, T1)
  <2>1. T1.n["succeeded"] = T.n["succeeded"]
    BY <1>8 DEF Storm!Counters
  <2> QED  BY <1>1, <1>3, <1>5, <2>1 DEF SubscriberOk, Seen, Missing
<1>11. SubscriberOk(S1, E1, T1)
  BY <1>3, <1>7, <1>9, <1>10 DEF SubscriberOk, Storm!Phases
<1> QED  BY <1>1, <1>2, <1>3, <1>4, <1>5, <1>6, <1>11, OneSubscriberMoves

\* What a session that ended well counts as: nothing, if it is the first.
CountsAs(S, cs) ==
    /\ cs \subseteq {"succeeded", "gaps", "resumed"}
    /\ "succeeded" \in cs <=> ~S.first
    /\ S.first => cs = {}

\* The counters of a session that ended well.
LEMMA SuccessCounts ==
    ASSUME NEW S, NEW S1, NEW n \in [Storm!Counters -> Nat], NEW cs,
           S.first \in BOOLEAN, S.pc \in Storm!Phases, Counted(S, n),
           S1.pc \notin Storm!Phases, ~S1.first,
           CountsAs(S, cs)
    PROVE  Counted(S1, Storm!Bump(n, cs))
<1> DEFINE n1 == Storm!Bump(n, cs)
<1>1. /\ n1 \in [Storm!Counters -> Nat]
      /\ \A c \in Storm!Counters : n1[c] = n[c] + (IF c \in cs THEN 1 ELSE 0)
  BY BumpCounts
<1> HIDE DEF n1
<1>2. \A c \in Storm!Counters : n[c] \in Nat
  OBVIOUS
<1>3. /\ \A c \in {"connect", "read", "attempted"} : n1[c] = n[c] /\ n[c] \in Nat
      /\ n1["succeeded"] = n["succeeded"] + (IF S.first THEN 0 ELSE 1)
      /\ n["succeeded"] \in Nat
  BY <1>1, <1>2 DEF Storm!Counters, CountsAs
<1>4. Ends(n1) = Ends(n) + (IF S.first THEN 0 ELSE 1) /\ Ends(n) \in Nat
  BY <1>3 DEF Ends
<1>5. n1["resumed"] <= n1["succeeded"] /\ n1["gaps"] <= n1["succeeded"]
  <2>1. n["resumed"] <= n["succeeded"] /\ n["gaps"] <= n["succeeded"]
    BY DEF Counted
  <2>2. \A c \in {"resumed", "gaps"} :
           n[c] \in Nat /\ n1[c] = n[c] + (IF c \in cs THEN 1 ELSE 0)
    BY <1>1, <1>2 DEF Storm!Counters
  <2>3. \A c \in {"resumed", "gaps"} : c \in cs => ~S.first
    BY DEF CountsAs
  <2> QED  BY <1>3, <2>1, <2>2, <2>3
<1>6. /\ S.first => n["attempted"] = 0 /\ Ends(n) = 0
      /\ ~S.first => n["attempted"] \in {Ends(n) + 1, Ends(n)}
  BY DEF Counted
<1>7. Ends(n1) \in {n1["attempted"], n1["attempted"] + 1}
  BY <1>3, <1>4, <1>6
<1> QED  BY <1>1, <1>5, <1>7 DEF Counted, n1

\* The events of a session are new; the one that a kill fell in is missing.
LEMMA SessionAdds ==
    ASSUME NEW S, NEW T, NEW E, NEW S1, NEW counted1, Seen(S, T), Reading(S, E),
           counted1 = [e \in 1..MaxEvents |->
                         T.counted[e] + (IF e \in E.events THEN 1 ELSE 0)],
           S1.last = E.id
    PROVE  /\ S.last <= S1.last /\ S1.last \in 0..MaxEvents
           /\ counted1 \in [1..MaxEvents -> Nat]
           /\ \A e \in 1..MaxEvents : counted1[e] <= (IF e <= S1.last THEN 1 ELSE 0)
           /\ Cardinality(Missing(S1, counted1)) <= Cardinality(Missing(S, T.counted)) + 1
<1> DEFINE last == S.last
           cursor == E.cursor
           prev == T.counted
<1>1. /\ MaxEvents \in Nat /\ last \in 0..MaxEvents /\ cursor \in last..MaxEvents
      /\ E.events = last + 1 .. cursor
      /\ S1.last \in {cursor, cursor + 1} /\ S1.last <= MaxEvents
  <2>1. /\ MaxEvents \in Nat /\ last \in 0..MaxEvents
    BY BackendsAssumption DEF Seen
  <2>2. /\ cursor \in last..MaxEvents /\ E.events = last + 1 .. cursor
        /\ E.partial \in {0, cursor + 1} /\ E.partial <= MaxEvents
        /\ E.id = IF E.partial = 0 THEN cursor ELSE E.partial
    BY DEF Reading
  <2> QED  BY <2>1, <2>2
<1>2. /\ prev \in [1..MaxEvents -> Nat]
      /\ \A e \in 1..MaxEvents : prev[e] <= (IF e <= last THEN 1 ELSE 0)
  BY DEF Seen
<1>3. counted1 = [e \in 1..MaxEvents |-> prev[e] + (IF e \in E.events THEN 1 ELSE 0)]
  OBVIOUS
<1> HIDE DEF last, cursor, prev
<1>4. \A e \in 1..MaxEvents :
         /\ counted1[e] \in Nat
         /\ e <= last => counted1[e] = prev[e]
         /\ e > last /\ e <= cursor => counted1[e] = 1 /\ prev[e] = 0
         /\ e > cursor => counted1[e] = 0
  <2> TAKE e \in 1..MaxEvents
  <2>1. /\ e \in Nat /\ prev[e] \in Nat /\ prev[e] <= (IF e <= last THEN 1 ELSE 0)
        /\ counted1[e] = prev[e] + (IF e \in E.events THEN 1 ELSE 0)
    BY <1>1, <1>2, <1>3
  <2>2. e \in E.events <=> e > last /\ e <= cursor
    BY <1>1, <2>1
  <2> QED  BY <1>1, <2>1, <2>2
<1>5. /\ counted1 \in [1..MaxEvents -> Nat]
      /\ \A e \in 1..MaxEvents : counted1[e] <= (IF e <= S1.last THEN 1 ELSE 0)
  <2>1. counted1 \in [1..MaxEvents -> Nat]
    BY <1>3, <1>4
  <2>2. ASSUME NEW e \in 1..MaxEvents
        PROVE  counted1[e] <= (IF e <= S1.last THEN 1 ELSE 0)
    <3>1. /\ e \in Nat /\ prev[e] \in Nat /\ prev[e] <= (IF e <= last THEN 1 ELSE 0)
      BY <1>1, <1>2
    <3> QED  BY SMTT(30), <1>1, <1>4, <3>1
  <2> QED  BY <2>1, <2>2
<1>6. Missing(S1, counted1) \subseteq Missing(S, T.counted) \cup {E.cursor + 1}
  <2>1. ASSUME NEW e \in 1..MaxEvents, e <= S1.last, counted1[e] = 0
        PROVE  (e <= last /\ prev[e] = 0) \/ e = cursor + 1
    BY <1>1, <1>4, <2>1
  <2> QED  BY <2>1 DEF Missing, last, cursor, prev
<1>7. /\ IsFiniteSet(Missing(S, T.counted))
      /\ IsFiniteSet(Missing(S, T.counted) \cup {E.cursor + 1})
      /\ Cardinality(Missing(S, T.counted) \cup {E.cursor + 1})
           <= Cardinality(Missing(S, T.counted)) + 1
      /\ Cardinality(Missing(S, T.counted)) \in Nat
  <2>1. IsFiniteSet(1..MaxEvents) /\ Missing(S, T.counted) \subseteq 1..MaxEvents
    BY <1>1, FS_Interval DEF Missing
  <2>2. IsFiniteSet(Missing(S, T.counted))
    BY <2>1, FS_Subset
  <2>3. Cardinality(Missing(S, T.counted)) \in Nat
    BY <2>2, FS_CardinalityType
  <2>4. /\ IsFiniteSet(Missing(S, T.counted) \cup {E.cursor + 1})
        /\ Cardinality(Missing(S, T.counted) \cup {E.cursor + 1})
             \in {Cardinality(Missing(S, T.counted)), Cardinality(Missing(S, T.counted)) + 1}
    BY <2>2, FS_AddElement
  <2> QED  BY <2>2, <2>3, <2>4
<1>8. Cardinality(Missing(S1, counted1)) <= Cardinality(Missing(S, T.counted)) + 1
  <2> DEFINE more == Missing(S, T.counted) \cup {E.cursor + 1}
             fewer == Missing(S1, counted1)
  <2>1. Cardinality(fewer) \in Nat /\ Cardinality(fewer) <= Cardinality(more)
        /\ Cardinality(more) \in Nat
    BY <1>6, <1>7, FS_Subset, FS_CardinalityType
  <2> QED  BY <1>7, <2>1
<1> QED  BY <1>1, <1>5, <1>8 DEF last

\* A session that ended well: its events are added up and its id is kept.
LEMMA FinishKeepsInv ==
    ASSUME StormInv, NEW s \in Subscribers, sub[s].pc = "read", Storm!Finish(s)
    PROVE  StormInv'
<1> DEFINE S == sub[s]
           E == session[s]
           T == stats[s]
           cs == (IF ~S.first THEN {"succeeded"} ELSE {})
                 \cup (IF ~S.first /\ S.ended /\ E.byte THEN {"gaps"} ELSE {})
                 \cup (IF ~S.first /\ E.prior # 0 /\ E.events # {} /\ ~E.saw
                       THEN {"resumed"} ELSE {})
           S1 == [S EXCEPT !.pc = "head", !.first = FALSE, !.ended = TRUE,
                           !.last = IF E.id = 0 THEN @ ELSE E.id]
           T1 == [T EXCEPT !.counted = [e \in 1..MaxEvents |->
                                          @[e] + (IF e \in E.events THEN 1 ELSE 0)],
                           !.n = Storm!Bump(@, cs)]
           E1 == Storm!NoSession
<1>1. StormShape /\ SubscriberOk(S, E, T) /\ honours' = honours
  BY DEF StormInv, Storm!Finish
<1>2. sub' = [sub EXCEPT ![s] = S1] /\ session' = [session EXCEPT ![s] = E1]
  BY <1>1 DEF Storm!Finish, StormShape, Storm!NoId
<1>3. stats' = [stats EXCEPT ![s] = T1]
  BY <1>1 DEF Storm!Finish, StormShape, Storm!NoId, Storm!Events
<1>4. /\ DOMAIN S1 = SubFields /\ S1.pc = "head" /\ S1.first = FALSE /\ S1.ended = TRUE
      /\ S1.last = IF E.id = 0 THEN S.last ELSE E.id
  BY <1>1 DEF StormShape, SubFields
<1>5. DOMAIN E1 = SessionFields
  BY DEF Storm!NoSession, SessionFields
<1>6. /\ DOMAIN T1 = {"counted", "n"} /\ T1.n = Storm!Bump(T.n, cs)
      /\ T1.counted = [e \in 1..MaxEvents |->
                         T.counted[e] + (IF e \in E.events THEN 1 ELSE 0)]
  BY <1>1 DEF StormShape
<1>7. sub'[s] = S1 /\ session'[s] = E1 /\ stats'[s] = T1
  BY <1>1, <1>2, <1>3 DEF StormShape
<1>8. CountsAs(S, cs)
  BY DEF CountsAs
<1>9. /\ S.first \in BOOLEAN /\ S.ended \in BOOLEAN
      /\ S.first => S.last = 0 /\ ~S.ended
      /\ Locals(S) /\ S.pc \in Storm!Phases /\ Counted(S, T.n)
      /\ T.n \in [Storm!Counters -> Nat]
  BY <1>1 DEF SubscriberOk, Locals, Counted, Storm!Phases
<1> HIDE DEF S1, E1, T1, cs
<1>10. ~S1.first /\ S1.ended /\ S1.pc \notin Storm!Phases
  BY <1>4 DEF Storm!Phases
<1>11. Counted(S1, T1.n)
  <2> HIDE DEF S, T
  <2>1. Counted(S1, Storm!Bump(T.n, cs))
    BY <1>8, <1>9, <1>10, SuccessCounts
  <2> QED  BY <1>6, <2>1
<1>12. T1.n["succeeded"] = T.n["succeeded"] + (IF S.first THEN 0 ELSE 1)
       /\ T.n["succeeded"] \in Nat
  <2>1. \A c \in Storm!Counters : T1.n[c] = T.n[c] + (IF c \in cs THEN 1 ELSE 0)
    BY <1>6, <1>9, BumpCounts
  <2>2. "succeeded" \in Storm!Counters
    BY DEF Storm!Counters
  <2> QED  BY <1>8, <1>9, <2>1, <2>2 DEF CountsAs
<1>13. ASSUME honours PROVE Seen(S1, T1)
  <2>1. Seen(S, T) /\ Reading(S, E)
    BY <1>1, <1>9, <1>13 DEF SubscriberOk
  <2>2. S1.last = E.id
    <3>1. /\ S.last \in Nat /\ E.cursor \in Nat /\ S.last <= E.cursor
      <4>1. MaxEvents \in Nat /\ S.last \in 0..MaxEvents
        BY <2>1, BackendsAssumption DEF Seen
      <4>2. E.cursor \in S.last..MaxEvents
        BY <2>1 DEF Reading
      <4> QED  BY <4>1, <4>2
    <3>2. E.id \in {E.cursor, E.cursor + 1}
      BY <2>1 DEF Reading
    <3> QED  BY <1>4, <3>1, <3>2
  <2>3. /\ S1.last \in 0..MaxEvents
        /\ T1.counted \in [1..MaxEvents -> Nat]
        /\ \A e \in 1..MaxEvents : T1.counted[e] <= (IF e <= S1.last THEN 1 ELSE 0)
        /\ Cardinality(Missing(S1, T1.counted)) <= Cardinality(Missing(S, T.counted)) + 1
    <3> HIDE DEF S, E, T
    <3> QED  BY <1>6, <1>9, <2>1, <2>2, SessionAdds
  <2>4. Cardinality(Missing(S, T.counted)) <= T.n["succeeded"] + (IF S.ended THEN 1 ELSE 0)
    BY <2>1 DEF Seen
  <2>5. /\ Cardinality(Missing(S, T.counted)) \in Nat
        /\ Cardinality(Missing(S1, T1.counted)) \in Nat
    <3>1. MaxEvents \in Nat
      BY BackendsAssumption
    <3>2. IsFiniteSet(1..MaxEvents)
      BY <3>1, FS_Interval
    <3>3. \A X : Missing(S, X) \subseteq 1..MaxEvents /\ Missing(S1, X) \subseteq 1..MaxEvents
      BY DEF Missing
    <3> QED  BY <3>2, <3>3, FS_Subset, FS_CardinalityType
  <2>6. Cardinality(Missing(S1, T1.counted)) <= T1.n["succeeded"] + 1
    BY <1>9, <1>12, <2>3, <2>4, <2>5
  <2> QED  BY <1>10, <2>3, <2>6 DEF Seen
<1>14. Locals(S1)
  BY <1>4, <1>10 DEF Locals
<1>15. SubscriberOk(S1, E1, T1)
  BY <1>10, <1>11, <1>13, <1>14 DEF SubscriberOk
<1> QED  BY <1>1, <1>2, <1>3, <1>4, <1>5, <1>6, <1>7, <1>15, OneSubscriberMoves

LEMMA StormStepKeepsInv == ASSUME StormInv, Next \/ UNCHANGED vars PROVE StormInv'
<1>1. CASE UNCHANGED stormVars
  BY <1>1, StormRests DEF stormVars
<1>2. CASE StormStep
  <2>1. CASE Storm!RollUp
    BY <2>1, StormRests DEF Storm!RollUp
  <2>2. ASSUME NEW s \in Subscribers, Storm!SubscriberRuns(s) PROVE StormInv'
    <3>1. CASE Storm!Leave(s)
      BY <3>1, GoingOnKeepsInv DEF Storm!Leave, Storm!At
    <3>2. CASE Storm!OpenSession(s)
      BY <3>2, OpenKeepsInv
    <3>3. CASE Storm!Advance(s)
      <4>1. PICK p \in {"connect", "handshake", "write"} :
              Storm!At(s, p) /\ Storm!GoTo(s, Storm!After[p])
        BY <3>3 DEF Storm!Advance
      <4>2. Storm!After[p] \in Storm!Phases /\ p \in Storm!Phases
        BY DEF Storm!After, Storm!Phases
      <4>3. UNCHANGED <<honours, session, stats>>
        BY <3>3 DEF Storm!Advance
      <4> QED  BY <4>1, <4>2, <4>3, GoingOnKeepsInv DEF Storm!At
    <3>4. CASE Storm!FailEarly(s)
      BY <3>4, FailKeepsInv DEF Storm!FailEarly, Storm!At, Storm!Phases
    <3>5. CASE Storm!RunIsOver(s)
      BY <3>5, FinishKeepsInv DEF Storm!RunIsOver, Storm!At
    <3> QED  BY <2>2, <3>1, <3>2, <3>3, <3>4, <3>5 DEF Storm!SubscriberRuns
  <2>3. ASSUME NEW s \in Subscribers, Storm!ServerActs(s) PROVE StormInv'
    <3>1. CASE Storm!ReadFails(s)
      BY <3>1, FailKeepsInv DEF Storm!ReadFails, Storm!At, Storm!Phases
    <3>2. CASE Storm!SessionEnds(s)
      BY <3>2, FinishKeepsInv DEF Storm!SessionEnds, Storm!At
    <3> QED  BY <2>3, <3>1, <3>2, LinesKeepInv DEF Storm!ServerActs
  <2> QED  BY <1>2, <2>1, <2>2, <2>3 DEF StormStep, Storm!StormNext
<1>3. StormStep \/ UNCHANGED stormVars
  BY DEF Next, vars, TimeUp, HoldStep, FanStep, WsStep, H2Step, CheckStep
<1> QED  BY <1>1, <1>2, <1>3

LEMMA StormStarts == Init => StormInv
<1> SUFFICES ASSUME Init PROVE StormInv
  OBVIOUS
<1>1. Storm!StormInit
  BY DEF Init, RunOneProtocol
<1>2. StormShape
  BY <1>1 DEF Storm!StormInit, Storm!NoSession, StormShape, SubFields, SessionFields
<1>3. ASSUME NEW s \in Subscribers PROVE SubscriberOk(sub[s], session[s], stats[s])
  <2>1. /\ sub[s].pc = "head" /\ sub[s].first = TRUE /\ sub[s].last = 0
        /\ sub[s].ended = FALSE
    BY <1>1 DEF Storm!StormInit, Storm!NoId
  <2>2. /\ stats[s].counted = [e \in 1..MaxEvents |-> 0]
        /\ stats[s].n = [c \in Storm!Counters |-> 0]
    BY <1>1 DEF Storm!StormInit, Storm!Events
  <2>3. "head" \notin Storm!Phases /\ MaxEvents \in Nat
    BY BackendsAssumption DEF Storm!Phases
  <2>4. Locals(sub[s])
    BY <2>1 DEF Locals
  <2>5. Counted(sub[s], stats[s].n)
    BY <2>1, <2>2, <2>3 DEF Counted, Ends, Storm!Counters
  <2>6. Seen(sub[s], stats[s])
    <3>1. Missing(sub[s], stats[s].counted) = {}
      BY <2>1, <2>3 DEF Missing
    <3>2. stats[s].n["succeeded"] = 0
      BY <2>2 DEF Storm!Counters
    <3>3. /\ stats[s].counted \in [1..MaxEvents -> Nat]
          /\ \A e \in 1..MaxEvents : stats[s].counted[e] = 0
      BY <2>2
    <3>4. Cardinality({}) = 0
      BY FS_EmptySet
    <3> QED  BY <2>1, <2>3, <3>1, <3>2, <3>3, <3>4 DEF Seen
  <2> QED  BY <2>1, <2>3, <2>4, <2>5, <2>6 DEF SubscriberOk
<1> QED  BY <1>2, <1>3 DEF StormInv

\* What the invariant says of the events is what the property asks.
LEMMA StormInvSuffices == StormInv => SessionsAddUp
<1> SUFFICES ASSUME StormInv PROVE SessionsAddUp
  OBVIOUS
<1>1. Storm!EventsOnceAcrossSessions
  <2> SUFFICES ASSUME honours, NEW s \in Subscribers
      PROVE /\ \A e \in Storm!Events :
                 stats[s].counted[e] <= (IF e \in Storm!Past(s) THEN 1 ELSE 0)
            /\ Storm!Cardinality({e \in Storm!Past(s) : stats[s].counted[e] = 0})
                 <= stats[s].n["succeeded"] + (IF sub[s].ended THEN 1 ELSE 0)
    BY DEF Storm!EventsOnceAcrossSessions
  <2>1. Seen(sub[s], stats[s])
    BY DEF StormInv, SubscriberOk
  <2>2. {e \in Storm!Past(s) : stats[s].counted[e] = 0} = Missing(sub[s], stats[s].counted)
    BY DEF Storm!Past, Storm!Events, Missing
  <2> QED  BY <2>1, <2>2, StormCardinality DEF Seen, Storm!Past, Storm!Events
<1>2. Storm!ReconnectsAccounted
  <2> SUFFICES ASSUME NEW s \in Subscribers
      PROVE LET n == stats[s].n
                ends == n["succeeded"] + n["connect"] + n["read"]
                        + (IF sub[s].pc \in Storm!Phases /\ ~sub[s].first THEN 1 ELSE 0)
            IN  /\ n["attempted"] \in {ends, ends - 1}
                /\ n["resumed"] <= n["succeeded"] /\ n["gaps"] <= n["succeeded"]
    BY DEF Storm!ReconnectsAccounted
  <2> DEFINE n == stats[s].n
  <2>1. Counted(sub[s], n) /\ sub[s].first \in BOOLEAN
    BY DEF StormInv, SubscriberOk, Locals
  <2>2. \A c \in Storm!Counters : n[c] \in Nat
    BY <2>1 DEF Counted
  <2>3. n["attempted"] \in Nat /\ Ends(n) \in Nat
    BY <2>2 DEF Storm!Counters, Ends
  <2>4. /\ n["resumed"] <= n["succeeded"] /\ n["gaps"] <= n["succeeded"]
        /\ LET ends == Ends(n) + (IF sub[s].pc \in Storm!Phases /\ ~sub[s].first
                                  THEN 1 ELSE 0)
           IN  n["attempted"] \in {ends, ends - 1}
    <3> HIDE DEF n
    <3> QED  BY <2>1, <2>3 DEF Counted
  <2> QED  BY <2>4 DEF Ends
<1> QED  BY <1>1, <1>2 DEF SessionsAddUp, Storm!SessionsAddUp

\* run_one_subscriber: with a server that honours Last-Event-ID, events are
\* counted once across the kills, and only one in each kill can be missing;
\* every reconnect is under way, has succeeded or is an error.
THEOREM SessionsOfAStormAddUp == Spec => []SessionsAddUp
<1> QED  BY StormStarts, StormStepKeepsInv, StormInvSuffices, PTL DEF Spec

-----------------------------------------------------------------------------
(* The samples of a fan-out (Fanout). *)

\* Least and greatest of some numbers.
LEMMA FanMin ==
    ASSUME NEW T \in SUBSET Nat, T # {}
    PROVE  Fan!Min(T) \in T /\ \A i \in T : Fan!Min(T) <= i
<1>1. \E x \in T : \A y \in T : x <= y
  BY LeastNatural
<1> QED  BY <1>1 DEF Fan!Min

LEMMA FanMax ==
    ASSUME NEW n \in Nat, NEW T \in SUBSET (1..n), T # {}
    PROVE  Fan!Max(T) \in T /\ \A i \in T : Fan!Max(T) >= i
<1>1. \E m \in T : \A i \in T : m >= i
  BY GreatestNatural
<1> QED  BY <1>1 DEF Fan!Max

\* What the correlation knows on the way: how far it is in the frames, and what
\* the triggers so far have got.
Progress == [from : Nat, match : Seq(Nat)]

\* One round of it.
Later(frames, from, t) == {i \in from..Len(frames) : frames[i].at >= t.at}
Taken(frames, from, t) ==
    IF Later(frames, from, t) = {} THEN 0 ELSE Fan!Min(Later(frames, from, t))
Round(frames, acc, t) ==
    [from |-> IF Taken(frames, acc.from, t) = 0 THEN Len(frames) + 1
              ELSE Taken(frames, acc.from, t) + 1,
     match |-> Append(acc.match, Taken(frames, acc.from, t))]

LEMMA TakenType ==
    ASSUME NEW frames, Len(frames) \in Nat, NEW from \in Nat, NEW t
    PROVE  /\ Taken(frames, from, t) \in Nat
           /\ Later(frames, from, t) # {} =>
                /\ Taken(frames, from, t) \in Later(frames, from, t)
                /\ \A i \in Later(frames, from, t) : Taken(frames, from, t) <= i
<1> DEFINE L == Later(frames, from, t)
<1>1. L \in SUBSET Nat
  BY DEF Later
<1>2. L # {} => Fan!Min(L) \in L /\ \A i \in L : Fan!Min(L) <= i
  <2> HIDE DEF L
  <2> QED  BY <1>1, FanMin
<1> QED  BY <1>1, <1>2 DEF Taken

\* The correlation goes from one trigger to the next.
LEMMA CorrelationGoesOn ==
    ASSUME NEW frames, Len(frames) \in Nat, NEW n \in Nat, Len(triggers) = n,
           DOMAIN triggers = 1..n
    PROVE  \E a \in [0..n -> Progress] :
             /\ a[0] = [from |-> 1, match |-> <<>>]
             /\ \A k \in 1..n : a[k] = Round(frames, a[k - 1], triggers[k])
             /\ Fan!Correlate(frames) = a[n].match
<1> DEFINE S == 1..n
           base == [from |-> 1, match |-> <<>>]
           Value(h, s) == IF s = {} THEN base
                          ELSE Round(frames, h[s \ {Fan!Max(s)}], triggers[Fan!Max(s)])
           g == CHOOSE g : g = [s \in SUBSET S |-> Value(g, s)]
           c == [s \in SUBSET S |-> Fan!Max(s)]
           step == [k \in S |-> [v \in Progress |-> Round(frames, v, triggers[k])]]
<1>1. Fan!Correlate(frames) = g[S].match
  BY DEF Fan!Correlate, Fan!FoldLeft, Fan!MapThenFoldSet, Round, Taken, Later
<1>2. base \in Progress
  BY DEF Progress
<1>3. \A v \in Progress, k \in S : Round(frames, v, triggers[k]) \in Progress
  BY TakenType DEF Progress, Round
<1>4. \A s \in SUBSET S : s # {} => Fan!Max(s) \in s /\ \A i \in s : Fan!Max(s) >= i
  BY FanMax
<1>5. \A k \in S, v \in Progress : step[k][v] = Round(frames, v, triggers[k])
  OBVIOUS
<1> HIDE DEF base
<1>6. PICK h \in [SUBSET S -> Progress] : FoldOf(h, S, base, c, step)
  <2>1. Picks(c, S)
    BY <1>4 DEF Picks
  <2>2. IsFiniteSet(S)
    BY FS_Interval
  <2>3. \A k \in S, v \in Progress : step[k][v] \in Progress
    BY <1>3, <1>5
  <2> HIDE DEF S, c, step
  <2> QED  BY <1>2, <2>1, <2>2, <2>3, FoldExists
<1>7. \A s \in SUBSET S : h[s] = Value(h, s)
  <2> SUFFICES ASSUME NEW s \in SUBSET S PROVE h[s] = Value(h, s)
    OBVIOUS
  <2>1. h[s] = IF s = {} THEN base ELSE step[c[s]][h[s \ {c[s]}]]
    BY <1>6 DEF FoldOf
  <2>2. CASE s = {}
    BY <2>1, <2>2
  <2>3. CASE s # {}
    <3>1. c[s] = Fan!Max(s) /\ Fan!Max(s) \in S /\ h[s \ {Fan!Max(s)}] \in Progress
      BY <1>4, <2>3
    <3> HIDE DEF c, step, S
    <3> QED  BY <1>5, <2>1, <2>3, <3>1
  <2> QED  BY <2>2, <2>3
<1>8. h = [s \in SUBSET S |-> Value(h, s)]
  <2> HIDE DEF Value
  <2> QED  BY <1>6, <1>7
<1>9. g = [s \in SUBSET S |-> Value(g, s)]
  BY <1>8
<1> HIDE DEF g
<1>10. \A s \in SUBSET S : g[s] = Value(g, s)
  <2> HIDE DEF Value
  <2> QED  BY <1>9
<1> DEFINE a == [k \in 0..n |-> g[1..k]]
<1>11. \A k \in 0..n : 1..k \in SUBSET S
  OBVIOUS
<1>12. a[0] = base
  <2>1. 1..0 = {} /\ 0 \in 0..n /\ {} \in SUBSET S
    OBVIOUS
  <2>2. g[{}] = base
    BY <1>10, <2>1
  <2> HIDE DEF base
  <2> QED  BY <2>1, <2>2
<1>13. ASSUME NEW k \in S PROVE a[k] = Round(frames, a[k - 1], triggers[k])
  <2>1. 1..k \in SUBSET S /\ k \in 1..k /\ 1..k # {}
    <3>1. k \in Nat /\ 1 <= k /\ k \in 0..n
      OBVIOUS
    <3>2. k \in 1..k
      BY <3>1
    <3> QED  BY <1>11, <3>1, <3>2
  <2>2. Fan!Max(1..k) = k
    <3>1. Fan!Max(1..k) \in 1..k /\ Fan!Max(1..k) >= k
      BY <1>4, <2>1
    <3> QED  BY <3>1
  <2>3. (1..k) \ {k} = 1..(k - 1)
    OBVIOUS
  <2>4. g[1..k] = Round(frames, g[1..(k - 1)], triggers[k])
    BY <1>10, <2>1, <2>2, <2>3
  <2>5. k \in 0..n /\ k - 1 \in 0..n
    OBVIOUS
  <2> QED  BY <2>4, <2>5
<1>14. a \in [0..n -> Progress]
  <2> DEFINE Good == {k \in Nat : k \in 0..n => a[k] \in Progress}
  <2>1. 0 \in Good
    BY <1>2, <1>12
  <2>2. ASSUME NEW k \in Nat, k \in Good PROVE k + 1 \in Good
    <3> SUFFICES ASSUME k + 1 \in 0..n PROVE a[k + 1] \in Progress
      OBVIOUS
    <3>1. k + 1 \in S /\ (k + 1) - 1 = k /\ a[k] \in Progress
      BY <2>2
    <3> HIDE DEF a, S
    <3>2. a[k + 1] = Round(frames, a[k], triggers[k + 1])
      BY <1>13, <3>1
    <3> QED  BY <1>3, <3>1, <3>2
  <2>3. \A k \in Nat : k \in Good
    <3> HIDE DEF Good
    <3> QED  BY <2>1, <2>2, NumberInduction
  <2>4. \A k \in 0..n : a[k] \in Progress
    <3>1. \A k \in 0..n : k \in Nat
      OBVIOUS
    <3> HIDE DEF a
    <3> QED  BY <2>3, <3>1
  <2> QED  BY <2>4
<1>15. a[n] = g[S]
  OBVIOUS
<1> HIDE DEF a, S
<1>16. Fan!Correlate(frames) = a[n].match
  BY <1>1, <1>15
<1>17. /\ a[0] = [from |-> 1, match |-> <<>>]
       /\ \A k \in 1..n : a[k] = Round(frames, a[k - 1], triggers[k])
  BY <1>12, <1>13 DEF base, S
<1> QED  BY <1>14, <1>16, <1>17

\* Of the triggers so far each took what was left of the frames, from the first
\* that is no older than it.
GreedyMatch(match, frames) ==
    /\ DOMAIN match = DOMAIN triggers
    /\ \A k \in DOMAIN triggers :
         /\ match[k] \in 0..Len(frames)
         /\ match[k] # 0 => /\ frames[match[k]].at >= triggers[k].at
                            /\ \A j \in 1..(k - 1) : match[j] # 0 /\ match[j] < match[k]
         /\ \A i \in DOMAIN frames :
              /\ frames[i].at >= triggers[k].at
              /\ \A j \in 1..(k - 1) : match[j] # 0 /\ match[j] < i
              => match[k] # 0 /\ match[k] <= i

LEMMA CorrelationIsGreedy ==
    ASSUME NEW frames, Len(frames) \in Nat, DOMAIN frames = 1..Len(frames),
           NEW n \in Nat, Len(triggers) = n, DOMAIN triggers = 1..n
    PROVE  GreedyMatch(Fan!Correlate(frames), frames)
<1> DEFINE end == Len(frames) + 1
<1>1. PICK a \in [0..n -> Progress] :
        /\ a[0] = [from |-> 1, match |-> <<>>]
        /\ \A k \in 1..n : a[k] = Round(frames, a[k - 1], triggers[k])
        /\ Fan!Correlate(frames) = a[n].match
  BY CorrelationGoesOn
<1> DEFINE p == [k \in 1..n |-> Taken(frames, a[k - 1].from, triggers[k])]
           F == [k \in 0..n |-> a[k].from]
<1>2. \A k \in 0..n : F[k] = a[k].from /\ F[k] \in Nat /\ a[k].match \in Seq(Nat)
  BY <1>1 DEF Progress
<1>3. F[0] = 1 /\ a[0].match = <<>>
  BY <1>1
<1>4. ASSUME NEW k \in 1..n
      PROVE  /\ p[k] \in Nat
             /\ a[k].match = Append(a[k - 1].match, p[k])
             /\ F[k] = IF p[k] = 0 THEN end ELSE p[k] + 1
             /\ p[k] # 0 => /\ p[k] \in F[k - 1]..Len(frames)
                            /\ frames[p[k]].at >= triggers[k].at
             /\ \A i \in F[k - 1]..Len(frames) :
                  frames[i].at >= triggers[k].at => p[k] # 0 /\ p[k] <= i
  <2>1. k - 1 \in 0..n /\ k \in 0..n
    OBVIOUS
  <2>2. F[k - 1] \in Nat /\ F[k - 1] = a[k - 1].from /\ F[k] = a[k].from
    BY <1>2, <2>1
  <2>3. p[k] = Taken(frames, F[k - 1], triggers[k])
    BY <2>2
  <2>4. a[k] = Round(frames, a[k - 1], triggers[k])
    BY <1>1
  <2>5. \A i : i \in Later(frames, F[k - 1], triggers[k]) <=>
                 i \in F[k - 1]..Len(frames) /\ frames[i].at >= triggers[k].at
    BY DEF Later
  <2> HIDE DEF p, F
  <2>6. /\ p[k] \in Nat
        /\ Later(frames, F[k - 1], triggers[k]) # {} =>
             /\ p[k] \in Later(frames, F[k - 1], triggers[k])
             /\ \A i \in Later(frames, F[k - 1], triggers[k]) : p[k] <= i
        /\ Later(frames, F[k - 1], triggers[k]) = {} => p[k] = 0
    BY <2>2, <2>3, TakenType DEF Taken
  <2>7. \A i \in F[k - 1]..Len(frames) : i # 0
    <3>1. F[k - 1] # 0
      <4>1. CASE k = 1
        BY <1>3, <4>1
      <4>2. CASE k # 1
        <5>1. k - 1 \in 1..n /\ (k - 1) - 1 \in 0..n
          BY <4>2
        <5>2. a[k - 1] = Round(frames, a[(k - 1) - 1], triggers[k - 1])
          BY <1>1, <5>1
        <5>3. a[(k - 1) - 1].from \in Nat
          BY <1>2, <5>1
        <5>4. Taken(frames, a[(k - 1) - 1].from, triggers[k - 1]) \in Nat
          BY <5>3, TakenType
        <5>5. a[k - 1].from # 0
          BY <5>2, <5>4 DEF Round
        <5> QED  BY <2>2, <5>5
      <4> QED  BY <4>1, <4>2
    <3> QED  BY <2>2, <3>1
  <2>8. /\ a[k].match = Append(a[k - 1].match, p[k])
        /\ F[k] = IF p[k] = 0 THEN end ELSE p[k] + 1
    BY <2>2, <2>3, <2>4 DEF Round
  <2>9. p[k] # 0 => p[k] \in F[k - 1]..Len(frames) /\ frames[p[k]].at >= triggers[k].at
    BY <2>5, <2>6
  <2>10. ASSUME NEW i \in F[k - 1]..Len(frames), frames[i].at >= triggers[k].at
         PROVE  p[k] # 0 /\ p[k] <= i
    <3>1. i \in Later(frames, F[k - 1], triggers[k])
      BY <2>5, <2>10
    <3>2. p[k] \in Later(frames, F[k - 1], triggers[k]) /\ p[k] <= i
      BY <2>6, <3>1
    <3> QED  BY <2>5, <2>7, <3>2
  <2> QED  BY <2>6, <2>8, <2>9, <2>10
<1> HIDE DEF p, F
<1> DEFINE Sofar(k) ==
             /\ Len(a[k].match) = k /\ \A j \in 1..k : a[k].match[j] = p[j]
             /\ F[k] \in 1..end
             /\ \A j \in 1..k : (p[j] # 0 => p[j] < F[k]) /\ (p[j] = 0 => F[k] = end)
           Good == {k \in Nat : k \in 0..n => Sofar(k)}
<1>5. 0 \in Good
  <2>1. 1..0 = {} /\ 0 \in 0..n
    OBVIOUS
  <2> QED  BY <1>3, <2>1
<1>6. ASSUME NEW k \in Nat, k \in Good PROVE k + 1 \in Good
  <2> SUFFICES ASSUME k + 1 \in 0..n PROVE Sofar(k + 1)
    OBVIOUS
  <2>1. k + 1 \in 1..n /\ (k + 1) - 1 = k /\ k \in 0..n
    OBVIOUS
  <2>2. Sofar(k)
    BY <1>6, <2>1
  <2>3. /\ p[k + 1] \in Nat
        /\ a[k + 1].match = Append(a[k].match, p[k + 1])
        /\ F[k + 1] = IF p[k + 1] = 0 THEN end ELSE p[k + 1] + 1
        /\ p[k + 1] # 0 => p[k + 1] \in F[k]..Len(frames)
    BY <1>4, <2>1
  <2>4. a[k].match \in Seq(Nat)
    BY <1>2, <2>1
  <2>5. Len(a[k + 1].match) = k + 1 /\ \A j \in 1..(k + 1) : a[k + 1].match[j] = p[j]
    <3> DEFINE q == a[k].match
    <3>1. q \in Seq(Nat) /\ Len(q) = k /\ \A j \in 1..k : q[j] = p[j]
      BY <2>2, <2>4
    <3> HIDE DEF q
    <3>2. Len(Append(q, p[k + 1])) = k + 1
          /\ \A j \in 1..(k + 1) : Append(q, p[k + 1])[j] = p[j]
      BY <2>3, <3>1
    <3> QED  BY <2>3, <3>2 DEF q
  <2>6. F[k + 1] \in 1..end /\ F[k] <= F[k + 1]
    BY <2>2, <2>3
  <2>7. ASSUME NEW j \in 1..(k + 1)
        PROVE  (p[j] # 0 => p[j] < F[k + 1]) /\ (p[j] = 0 => F[k + 1] = end)
    <3>1. CASE j = k + 1
      BY <2>3, <3>1
    <3>2. CASE j # k + 1
      <4>1. j \in 1..k /\ j \in 1..n
        BY <2>1, <3>2
      <4>2. p[j] \in Nat
        BY <1>4, <4>1
      <4>3. (p[j] # 0 => p[j] < F[k]) /\ (p[j] = 0 => F[k] = end)
        BY <2>2, <4>1
      <4> HIDE DEF Sofar
      <4> QED  BY <2>2, <2>6, <4>2, <4>3 DEF Sofar
    <3> QED  BY <3>1, <3>2
  <2> QED  BY <2>5, <2>6, <2>7
<1>7. \A k \in Nat : k \in Good
  <2> HIDE DEF Good
  <2> QED  BY <1>5, <1>6, NumberInduction
<1>8. \A k \in 0..n : Sofar(k)
  <2>1. \A k \in 0..n : k \in Nat
    OBVIOUS
  <2> HIDE DEF Sofar
  <2> QED  BY <1>7, <2>1
<1> DEFINE m == a[n].match
<1>9. m \in Seq(Nat) /\ Len(m) = n /\ DOMAIN m = 1..n /\ \A j \in 1..n : m[j] = p[j]
  <2>1. n \in 0..n
    OBVIOUS
  <2> QED  BY <1>2, <1>8, <2>1
<1> HIDE DEF m, Sofar
<1>10. ASSUME NEW k \in 1..n
       PROVE  /\ p[k] \in 0..Len(frames)
              /\ p[k] # 0 => /\ frames[p[k]].at >= triggers[k].at
                             /\ \A j \in 1..(k - 1) : p[j] # 0 /\ p[j] < p[k]
              /\ \A i \in DOMAIN frames :
                   /\ frames[i].at >= triggers[k].at
                   /\ \A j \in 1..(k - 1) : p[j] # 0 /\ p[j] < i
                   => p[k] # 0 /\ p[k] <= i
  <2>1. k - 1 \in 0..n
    OBVIOUS
  <2>2. /\ F[k - 1] \in 1..end
        /\ \A j \in 1..(k - 1) :
             (p[j] # 0 => p[j] < F[k - 1]) /\ (p[j] = 0 => F[k - 1] = end)
    BY <1>8, <2>1 DEF Sofar
  <2>3. \A j \in 1..(k - 1) : j \in 1..n /\ p[j] \in Nat
    BY <1>4
  <2>4. /\ p[k] \in Nat
        /\ p[k] # 0 => /\ p[k] \in F[k - 1]..Len(frames)
                       /\ frames[p[k]].at >= triggers[k].at
        /\ \A i \in F[k - 1]..Len(frames) :
             frames[i].at >= triggers[k].at => p[k] # 0 /\ p[k] <= i
    BY <1>4
  <2>5. p[k] \in 0..Len(frames)
    BY <2>2, <2>4
  <2>6. ASSUME p[k] # 0, NEW j \in 1..(k - 1)
        PROVE  p[j] # 0 /\ p[j] < p[k]
    <3>1. F[k - 1] <= p[k] /\ F[k - 1] # end
      BY <2>2, <2>4, <2>6
    <3> QED  BY <2>2, <2>3, <2>4, <3>1
  <2>7. ASSUME NEW i \in DOMAIN frames, frames[i].at >= triggers[k].at,
               \A j \in 1..(k - 1) : p[j] # 0 /\ p[j] < i
        PROVE  p[k] # 0 /\ p[k] <= i
    <3>1. F[k - 1] <= i
      <4>1. CASE k = 1
        BY <1>3, <4>1
      <4>2. CASE k # 1
        <5>1. k - 1 \in 1..(k - 1) /\ k - 1 \in 1..n
          BY <4>2
        <5>2. F[k - 1] = IF p[k - 1] = 0 THEN end ELSE p[k - 1] + 1
          BY <1>4, <5>1
        <5>3. p[k - 1] # 0 /\ p[k - 1] < i /\ p[k - 1] \in Nat
          BY <2>3, <2>7, <5>1
        <5> QED  BY <5>2, <5>3
      <4> QED  BY <4>1, <4>2
    <3>2. i \in F[k - 1]..Len(frames)
      BY <2>2, <3>1
    <3> QED  BY <2>4, <2>7, <3>2
  <2> QED  BY <2>4, <2>5, <2>6, <2>7
<1>11. \A k \in 1..n : \A j \in 1..(k - 1) : m[j] = p[j]
  BY <1>9
<1>12. GreedyMatch(m, frames)
  <2> SUFFICES ASSUME NEW k \in 1..n
               PROVE /\ m[k] \in 0..Len(frames)
                     /\ m[k] # 0 => /\ frames[m[k]].at >= triggers[k].at
                                    /\ \A j \in 1..(k - 1) : m[j] # 0 /\ m[j] < m[k]
                     /\ \A i \in DOMAIN frames :
                          /\ frames[i].at >= triggers[k].at
                          /\ \A j \in 1..(k - 1) : m[j] # 0 /\ m[j] < i
                          => m[k] # 0 /\ m[k] <= i
    BY <1>9 DEF GreedyMatch
  <2>1. m[k] = p[k] /\ \A j \in 1..(k - 1) : m[j] = p[j]
    BY <1>9, <1>11
  <2> QED  BY <1>10, <2>1
<1> QED  BY <1>1, <1>12 DEF m

\* Where numbers go up, and other numbers that go up are all among them, none
\* of these comes before its place.
GoesUp(x, n) == \A i, j \in 1..n : i < j => x[i] < x[j]

LEMMA NoneBeforeItsPlace ==
    ASSUME NEW n \in Nat, NEW x, \A i \in 1..n : x[i] \in Nat, GoesUp(x, n),
           NEW m \in Nat, NEW y, GoesUp(y, m),
           \A i \in 1..m : \E j \in 1..n : y[i] = x[j]
    PROVE  \A i \in 1..m, j \in 1..n : y[i] = x[j] => i <= j
<1> DEFINE Good == {i \in Nat : i \in 1..m => \A j \in 1..n : y[i] = x[j] => i <= j}
<1>1. 0 \in Good
  OBVIOUS
<1>2. ASSUME NEW i \in Nat, i \in Good PROVE i + 1 \in Good
  <2> SUFFICES ASSUME i + 1 \in 1..m, NEW j \in 1..n, y[i + 1] = x[j]
               PROVE  i + 1 <= j
    OBVIOUS
  <2>1. CASE i = 0
    BY <2>1
  <2>2. CASE i # 0
    <3>1. i \in 1..m /\ i < i + 1
      BY <2>2
    <3>2. PICK k \in 1..n : y[i] = x[k]
      BY <3>1
    <3>3. i <= k
      BY <1>2, <3>1, <3>2
    <3>4. x[k] < x[j]
      BY <3>1, <3>2 DEF GoesUp
    <3>5. ~(j <= k)
      <4> SUFFICES ASSUME j <= k PROVE FALSE
        OBVIOUS
      <4>1. x[j] <= x[k]
        <5>1. CASE j = k
          BY <5>1
        <5>2. CASE j # k
          BY <5>2 DEF GoesUp
        <5> QED  BY <5>1, <5>2
      <4> QED  BY <3>4, <4>1
    <3> QED  BY <3>3, <3>5
  <2> QED  BY <2>1, <2>2
<1>3. \A i \in Nat : i \in Good
  <2> HIDE DEF Good
  <2> QED  BY <1>1, <1>2, NumberInduction
<1> QED  BY <1>3

\* An entry of a subscriber's frames, and one of the shared list of triggers.
Frame == [at : Nat, of : Nat, stamped : BOOLEAN]
Trigger == [at : Nat, of : Nat]

LEMMA EntryOf == ASSUME NEW S, NEW q \in Seq(S), NEW i \in DOMAIN q PROVE q[i] \in S
  OBVIOUS

\* What the listener's frames and the triggers have to be for the property:
\* both in the order of the POSTs, a frame stamped after its trigger.
InOrderOfPosts(frames) ==
    /\ frames \in Seq(Frame)
    /\ triggers \in Seq(Trigger)
    /\ \A i, j \in DOMAIN frames : i < j => frames[i].of < frames[j].of
    /\ \A i, j \in DOMAIN triggers : i < j => triggers[i].of < triggers[j].of
    /\ \A i \in DOMAIN frames, k \in DOMAIN triggers :
         triggers[k].of = frames[i].of => triggers[k].at <= frames[i].at

LEMMA MatchesAreOfTheTriggers ==
    ASSUME NEW frames, InOrderOfPosts(frames), NEW match, GreedyMatch(match, frames),
           \A i \in DOMAIN frames : \E k \in DOMAIN triggers : frames[i].of = triggers[k].of
    PROVE  /\ \A k \in DOMAIN triggers :
                match[k] # 0 => frames[match[k]].of >= triggers[k].of
           /\ (\A k \in DOMAIN triggers : \E i \in DOMAIN frames : frames[i].of = triggers[k].of)
              => \A k \in DOMAIN triggers :
                   match[k] # 0 /\ frames[match[k]].of = triggers[k].of
<1> DEFINE n == Len(triggers)
           m == Len(frames)
           x == [k \in 1..n |-> triggers[k].of]
           y == [i \in 1..m |-> frames[i].of]
<1>1. /\ n \in Nat /\ m \in Nat /\ DOMAIN triggers = 1..n /\ DOMAIN frames = 1..m
      /\ \A k \in 1..n : x[k] = triggers[k].of /\ x[k] \in Nat
      /\ \A i \in 1..m : y[i] = frames[i].of /\ y[i] \in Nat
  <2>1. /\ frames \in Seq(Frame)
        /\ triggers \in Seq(Trigger)
    BY DEF InOrderOfPosts
  <2>2. n \in Nat /\ m \in Nat /\ DOMAIN triggers = 1..n /\ DOMAIN frames = 1..m
    BY <2>1
  <2>3. ASSUME NEW k \in 1..n PROVE x[k] = triggers[k].of /\ x[k] \in Nat
    <3>1. triggers[k] \in Trigger
      BY <2>1, <2>2, EntryOf
    <3> QED  BY <3>1 DEF Trigger
  <2>4. ASSUME NEW i \in 1..m PROVE y[i] = frames[i].of /\ y[i] \in Nat
    <3>1. frames[i] \in Frame
      BY <2>1, <2>2, EntryOf
    <3> QED  BY <3>1 DEF Frame
  <2> HIDE DEF n, m, x, y
  <2> QED  BY <2>2, <2>3, <2>4
<1> HIDE DEF n, m, x, y
<1>2. GoesUp(x, n) /\ GoesUp(y, m)
  <2>1. \A i, j \in 1..n : i < j => x[i] < x[j]
    <3> SUFFICES ASSUME NEW i \in 1..n, NEW j \in 1..n, i < j PROVE x[i] < x[j]
      OBVIOUS
    <3>1. triggers[i].of < triggers[j].of
      BY <1>1 DEF InOrderOfPosts
    <3> QED  BY <1>1, <3>1
  <2>2. \A i, j \in 1..m : i < j => y[i] < y[j]
    <3> SUFFICES ASSUME NEW i \in 1..m, NEW j \in 1..m, i < j PROVE y[i] < y[j]
      OBVIOUS
    <3>1. frames[i].of < frames[j].of
      BY <1>1 DEF InOrderOfPosts
    <3> QED  BY <1>1, <3>1
  <2> QED  BY <2>1, <2>2 DEF GoesUp
<1>n. \A i \in 1..n : x[i] \in Nat
  BY <1>1
<1>m. \A i \in 1..m : y[i] \in Nat
  BY <1>1
<1>t. n \in Nat /\ m \in Nat
  BY <1>1
<1>3. \A i \in 1..m : \E k \in 1..n : y[i] = x[k]
  <2> SUFFICES ASSUME NEW i \in 1..m PROVE \E k \in 1..n : y[i] = x[k]
    OBVIOUS
  <2>1. PICK k \in 1..n : frames[i].of = triggers[k].of
    BY <1>1
  <2>2. y[i] = frames[i].of /\ x[k] = triggers[k].of
    BY <1>1
  <2> QED  BY <2>1, <2>2
<1>4. \A i \in 1..m, k \in 1..n : y[i] = x[k] => i <= k
  BY ONLY <1>n, <1>t, <1>2, <1>3, NoneBeforeItsPlace
<1>5. ASSUME NEW k \in 1..n
      PROVE  /\ match[k] \in 0..m
             /\ match[k] # 0 => \A j \in 1..(k - 1) : match[j] # 0 /\ match[j] < match[k]
             /\ \A i \in 1..m :
                  /\ frames[i].at >= triggers[k].at
                  /\ \A j \in 1..(k - 1) : match[j] # 0 /\ match[j] < i
                  => match[k] # 0 /\ match[k] <= i
  BY <1>1 DEF GreedyMatch, m
<1>6. ASSUME NEW k \in 1..n, match[k] # 0 PROVE frames[match[k]].of >= triggers[k].of
  <2> DEFINE Good == {j \in Nat : j \in 1..k => match[j] # 0 /\ j <= match[j]}
  <2>1. 0 \in Good
    OBVIOUS
  <2>2. ASSUME NEW j \in Nat, j \in Good PROVE j + 1 \in Good
    <3> SUFFICES ASSUME j + 1 \in 1..k PROVE match[j + 1] # 0 /\ j + 1 <= match[j + 1]
      OBVIOUS
    <3>1. j + 1 \in 1..n /\ match[j + 1] \in 0..m
      BY <1>1, <1>5
    <3>2. match[j + 1] # 0
      <4>1. CASE j + 1 = k
        BY <1>6, <4>1
      <4>2. CASE j + 1 # k
        <5>1. j + 1 \in 1..(k - 1)
          BY <4>2
        <5> QED  BY <1>5, <1>6, <5>1
      <4> QED  BY <4>1, <4>2
    <3>3. CASE j = 0
      BY <3>1, <3>2, <3>3
    <3>4. CASE j # 0
      <4>1. j \in 1..k /\ j \in 1..n /\ j \in 1..((j + 1) - 1)
        BY <1>1, <3>4
      <4>2. j <= match[j] /\ match[j] \in 0..m
        BY <1>5, <2>2, <4>1
      <4>3. match[j] < match[j + 1]
        BY <1>5, <3>1, <3>2, <4>1
      <4> QED  BY <3>1, <3>2, <4>2, <4>3
    <3> QED  BY <3>3, <3>4
  <2>3. \A j \in Nat : j \in Good
    <3> HIDE DEF Good
    <3> QED  BY <2>1, <2>2, NumberInduction
  <2>4. k <= match[k] /\ match[k] \in 1..m
    <3>1. k \in 1..k /\ k \in Nat /\ match[k] \in 0..m
      BY <1>1, <1>5
    <3> QED  BY <1>6, <2>3, <3>1
  <2>5. PICK j \in 1..n : y[match[k]] = x[j]
    BY <1>3, <2>4
  <2>6. match[k] <= j
    BY <1>4, <2>4, <2>5
  <2>7. x[k] <= x[j]
    <3>1. CASE k = j
      BY <1>1, <3>1
    <3>2. CASE k # j
      <4>1. k < j
        BY <2>4, <2>6, <3>2
      <4> QED  BY <1>1, <1>2, <4>1 DEF GoesUp
    <3> QED  BY <3>1, <3>2
  <2> QED  BY <1>1, <2>4, <2>5, <2>7
<1>7. ASSUME \A k \in DOMAIN triggers : \E i \in DOMAIN frames : frames[i].of = triggers[k].of,
             NEW k \in 1..n
      PROVE  match[k] # 0 /\ frames[match[k]].of = triggers[k].of
  <2>1. \A j \in 1..n : \E i \in 1..m : x[j] = y[i]
    <3> SUFFICES ASSUME NEW j \in 1..n PROVE \E i \in 1..m : x[j] = y[i]
      OBVIOUS
    <3>1. PICK i \in 1..m : frames[i].of = triggers[j].of
      BY <1>1, <1>7
    <3>2. x[j] = triggers[j].of /\ y[i] = frames[i].of
      BY <1>1
    <3> QED  BY <3>1, <3>2
  <2>2. \A j \in 1..n, i \in 1..m : x[j] = y[i] => j <= i
    BY ONLY <1>m, <1>t, <1>2, <2>1, NoneBeforeItsPlace
  <2>3. \A j \in 1..n : j \in 1..m /\ x[j] = y[j]
    <3> SUFFICES ASSUME NEW j \in 1..n PROVE j \in 1..m /\ x[j] = y[j]
      OBVIOUS
    <3>1. PICK i \in 1..m : x[j] = y[i]
      BY <2>1
    <3>2. j <= i /\ i <= j
      BY <1>4, <2>2, <3>1
    <3>3. i = j
      BY <3>2
    <3> QED  BY <3>1, <3>3
  <2>4. \A j \in 1..n : frames[j].at >= triggers[j].at
    <3> SUFFICES ASSUME NEW j \in 1..n PROVE frames[j].at >= triggers[j].at
      OBVIOUS
    <3>1. j \in DOMAIN frames /\ j \in DOMAIN triggers /\ triggers[j].of = frames[j].of
      BY <1>1, <2>3
    <3>2. frames[j].at \in Nat /\ triggers[j].at \in Nat
      <4>1. /\ frames \in Seq(Frame)
            /\ triggers \in Seq(Trigger)
        BY DEF InOrderOfPosts
      <4>2. frames[j] \in Frame /\ triggers[j] \in Trigger
        BY <3>1, <4>1, EntryOf
      <4> QED  BY <4>2 DEF Frame, Trigger
    <3> QED  BY <3>1, <3>2 DEF InOrderOfPosts
  <2> DEFINE Good == {j \in Nat : \A i \in 1..n : i <= j => match[i] = i}
  <2>5. 0 \in Good
    OBVIOUS
  <2>6. ASSUME NEW j \in Nat, j \in Good PROVE j + 1 \in Good
    <3> SUFFICES ASSUME j + 1 \in 1..n PROVE match[j + 1] = j + 1
      BY <2>6
    <3>1. \A i \in 1..((j + 1) - 1) : match[i] = i
      <4>1. \A i \in 1..((j + 1) - 1) : i \in 1..n /\ i <= j
        BY <1>t
      <4> QED  BY <2>6, <4>1
    <3>2. j + 1 \in 1..m /\ frames[j + 1].at >= triggers[j + 1].at
      BY <2>3, <2>4
    <3>3. match[j + 1] # 0 /\ match[j + 1] <= j + 1 /\ match[j + 1] \in 0..m
      BY <1>5, <3>1, <3>2
    <3>4. j # 0 => j \in 1..((j + 1) - 1) /\ j < match[j + 1]
      BY <1>5, <3>1, <3>3
    <3> QED  BY <3>3, <3>4
  <2>7. \A j \in Nat : j \in Good
    <3> HIDE DEF Good
    <3> QED  BY <2>5, <2>6, NumberInduction
  <2>8. match[k] = k
    BY <2>7
  <2> QED  BY <1>1, <2>3, <2>8
<1> QED  BY <1>1, <1>6, <1>7

ListenerState == [pc : {"connect", "read", "pong", "close", "left"}, inbox : Seq(Nat),
                  frames : Seq(Frame), connect : Nat, read : Nat]

FanTypes ==
    /\ clock \in Nat
    /\ trigger \in [pc : {"start", "wait", "post", "left"}, fired : Nat, stamp : Nat]
    /\ triggers \in Seq(Trigger)
    /\ server \in [reached : SUBSET Nat, last : Nat]
    /\ listener \in [Listeners -> ListenerState]

\* The POSTs: recorded in their order and none before it was answered; none
\* broadcast before it was sent.
Posted ==
    /\ trigger.stamp <= clock
    /\ \A i, j \in DOMAIN triggers : i < j => triggers[i].of < triggers[j].of
    /\ \A k \in DOMAIN triggers :
         /\ triggers[k].at <= clock /\ triggers[k].of <= trigger.fired
         /\ trigger.pc = "post" => triggers[k].of < trigger.fired
    /\ server.last <= trigger.fired /\ \A p \in server.reached : p <= trigger.fired

\* What a listener has read, and then what is on its way to it, are broadcasts
\* in their order.
HeardInOrder(L, last) ==
    /\ \A i, j \in DOMAIN L.frames : i < j => L.frames[i].of < L.frames[j].of
    /\ \A i, j \in DOMAIN L.inbox : i < j => L.inbox[i] < L.inbox[j]
    /\ \A i \in DOMAIN L.frames : /\ L.frames[i].of <= last
                                  /\ \A j \in DOMAIN L.inbox : L.frames[i].of < L.inbox[j]
    /\ \A j \in DOMAIN L.inbox : L.inbox[j] <= last

\* Whatever becomes of its POST: no frame is stamped before it.
StampedAfter(L, list, post) ==
    \A i \in DOMAIN L.frames :
      /\ \A k \in DOMAIN list : list[k].of = L.frames[i].of => list[k].at <= L.frames[i].at
      /\ L.frames[i].of = post.fired => post.stamp <= L.frames[i].at

FanInv ==
    /\ FanTypes /\ Posted
    /\ \A s \in Listeners : /\ HeardInOrder(listener[s], server.last)
                            /\ StampedAfter(listener[s], triggers, trigger)

\* Sequences get longer at their end and shorter at their head.
LEMMA Appended ==
    ASSUME NEW S, NEW q \in Seq(S), NEW x \in S
    PROVE  /\ Append(q, x) \in Seq(S)
           /\ \A i \in DOMAIN Append(q, x) :
                \/ i \in DOMAIN q /\ Append(q, x)[i] = q[i]
                \/ i = Len(q) + 1 /\ Append(q, x)[i] = x
           /\ \A i \in DOMAIN q : i \in Nat /\ i <= Len(q) /\ Len(q) \in Nat
  OBVIOUS

LEMMA Behead ==
    ASSUME NEW S, NEW q \in Seq(S), q # <<>>
    PROVE  /\ Tail(q) \in Seq(S) /\ Head(q) \in S /\ Head(q) = q[1] /\ 1 \in DOMAIN q
           /\ \A i \in DOMAIN Tail(q) : /\ i + 1 \in DOMAIN q /\ Tail(q)[i] = q[i + 1]
                                        /\ i \in Nat /\ 1 < i + 1
  OBVIOUS

LEMMA PostTypes ==
    ASSUME FanTypes
    PROVE  /\ trigger.fired \in Nat /\ trigger.stamp \in Nat /\ server.last \in Nat
           /\ \A p \in server.reached : p \in Nat
           /\ \A k \in DOMAIN triggers : triggers[k].at \in Nat /\ triggers[k].of \in Nat
<1>1. \A k \in DOMAIN triggers : triggers[k] \in Trigger
  BY EntryOf DEF FanTypes
<1> QED  BY <1>1 DEF FanTypes, Trigger

LEMMA ListenerTypes ==
    ASSUME NEW L \in ListenerState
    PROVE  /\ L.inbox \in Seq(Nat) /\ L.frames \in Seq(Frame)
           /\ \A i \in DOMAIN L.frames : L.frames[i].at \in Nat /\ L.frames[i].of \in Nat
           /\ \A j \in DOMAIN L.inbox : L.inbox[j] \in Nat
<1>1. L.inbox \in Seq(Nat) /\ L.frames \in Seq(Frame)
  BY DEF ListenerState
<1>2. \A i \in DOMAIN L.frames : L.frames[i] \in Frame
  BY <1>1, EntryOf
<1>3. \A j \in DOMAIN L.inbox : L.inbox[j] \in Nat
  BY <1>1, EntryOf
<1> QED  BY <1>1, <1>2, <1>3 DEF Frame

\* The trigger loop, which the listeners and the server do not notice.
LEMMA TriggerKeepsInv ==
    ASSUME FanInv, Fan!TriggerThread PROVE FanInv'
<1> USE DEF FanInv
<1>1. UNCHANGED <<server, listener>>
  BY DEF Fan!TriggerThread, Fan!StartTrigger, Fan!FireTrigger, Fan!PostSucceeds,
     Fan!PostFails, Fan!TriggerStops, Fan!TriggerOthers
<1>2. ASSUME UNCHANGED <<clock, triggers>>,
             trigger' \in [pc : {"start", "wait", "post", "left"}, fired : Nat, stamp : Nat],
             trigger'.fired = trigger.fired, trigger'.stamp = trigger.stamp,
             trigger'.pc # "post"
      PROVE  FanInv'
  BY <1>1, <1>2 DEF FanTypes, Posted, StampedAfter
<1>3. CASE Fan!StartTrigger
  BY <1>2, <1>3 DEF Fan!StartTrigger, FanTypes
<1>4. CASE Fan!PostFails
  BY <1>2, <1>4 DEF Fan!PostFails, FanTypes
<1>5. CASE Fan!TriggerStops
  BY <1>2, <1>5 DEF Fan!TriggerStops, FanTypes
<1>6. CASE Fan!FireTrigger
  <2>1. /\ clock' = clock + 1 /\ UNCHANGED triggers
        /\ trigger' = [pc |-> "post", fired |-> trigger.fired + 1, stamp |-> clock']
    BY <1>6 DEF Fan!FireTrigger
  <2>2. FanTypes'
    BY <1>1, <2>1, PostTypes DEF FanTypes
  <2>3. Posted'
    BY <1>1, <2>1, PostTypes DEF Posted, FanTypes
  <2>4. ASSUME NEW s \in Listeners PROVE StampedAfter(listener[s], triggers, trigger')
    <3>1. listener[s] \in ListenerState
      BY DEF FanTypes
    <3>2. \A i \in DOMAIN listener[s].frames :
            listener[s].frames[i].of \in Nat /\ listener[s].frames[i].of <= server.last
      BY <3>1, ListenerTypes DEF HeardInOrder
    <3>3. \A i \in DOMAIN listener[s].frames : listener[s].frames[i].of # trigger'.fired
      BY <2>1, <3>2, PostTypes DEF Posted
    <3> QED  BY <3>3 DEF StampedAfter
  <2> QED  BY <1>1, <2>1, <2>2, <2>3, <2>4
<1>7. CASE Fan!PostSucceeds
  <2> DEFINE t == [at |-> trigger.stamp, of |-> trigger.fired]
  <2>1. /\ UNCHANGED clock /\ triggers' = Append(triggers, t)
        /\ trigger.pc = "post" /\ trigger' = [trigger EXCEPT !.pc = "wait"]
    BY <1>7 DEF Fan!PostSucceeds
  <2>2. /\ trigger'.fired = trigger.fired /\ trigger'.stamp = trigger.stamp
        /\ trigger'.pc = "wait"
        /\ trigger' \in [pc : {"start", "wait", "post", "left"}, fired : Nat, stamp : Nat]
    BY <2>1 DEF FanTypes
  <2>3. t \in Trigger /\ triggers \in Seq(Trigger)
    BY PostTypes DEF Trigger, FanTypes
  <2>4. t.at = trigger.stamp /\ t.of = trigger.fired
    OBVIOUS
  <2> HIDE DEF t
  <2>5. /\ triggers' \in Seq(Trigger)
        /\ \A k \in DOMAIN triggers' :
             \/ k \in DOMAIN triggers /\ triggers'[k] = triggers[k]
             \/ k = Len(triggers) + 1 /\ triggers'[k] = t
        /\ \A k \in DOMAIN triggers : k \in Nat /\ k <= Len(triggers) /\ Len(triggers) \in Nat
    BY <2>1, <2>3, Appended
  <2>6. FanTypes'
    BY <1>1, <2>1, <2>2, <2>5 DEF FanTypes
  <2>7. Posted'
    <3>1. \A i, j \in DOMAIN triggers' : i < j => triggers'[i].of < triggers'[j].of
      <4> SUFFICES ASSUME NEW i \in DOMAIN triggers', NEW j \in DOMAIN triggers', i < j
                   PROVE  triggers'[i].of < triggers'[j].of
        OBVIOUS
      <4>1. i \in DOMAIN triggers /\ triggers'[i] = triggers[i]
        BY <2>5
      <4>2. CASE j \in DOMAIN triggers /\ triggers'[j] = triggers[j]
        BY <4>1, <4>2 DEF Posted
      <4>3. CASE triggers'[j] = t
        BY <2>1, <2>4, <4>1, <4>3 DEF Posted
      <4> QED  BY <2>5, <4>2, <4>3
    <3>2. \A k \in DOMAIN triggers' :
            triggers'[k].at <= clock /\ triggers'[k].of <= trigger.fired
      <4> SUFFICES ASSUME NEW k \in DOMAIN triggers'
                   PROVE  triggers'[k].at <= clock /\ triggers'[k].of <= trigger.fired
        OBVIOUS
      <4>1. CASE k \in DOMAIN triggers /\ triggers'[k] = triggers[k]
        BY <4>1 DEF Posted
      <4>2. CASE triggers'[k] = t
        BY <2>4, <4>2, PostTypes DEF Posted
      <4> QED  BY <2>5, <4>1, <4>2
    <3> QED  BY <1>1, <2>1, <2>2, <3>1, <3>2 DEF Posted
  <2>8. ASSUME NEW s \in Listeners PROVE StampedAfter(listener[s], triggers', trigger')
    <3> SUFFICES ASSUME NEW i \in DOMAIN listener[s].frames, NEW k \in DOMAIN triggers',
                        triggers'[k].of = listener[s].frames[i].of
                 PROVE  triggers'[k].at <= listener[s].frames[i].at
      BY <2>2 DEF StampedAfter
    <3>1. CASE k \in DOMAIN triggers /\ triggers'[k] = triggers[k]
      BY <3>1 DEF StampedAfter
    <3>2. CASE triggers'[k] = t
      BY <2>4, <3>2 DEF StampedAfter
    <3> QED  BY <2>5, <3>1, <3>2
  <2> QED  BY <1>1, <2>6, <2>7, <2>8
<1> QED  BY <1>3, <1>4, <1>5, <1>6, <1>7 DEF Fan!TriggerThread

\* One listener changes, and what it leaves is in order.
LEMMA ListenerKeepsInv ==
    ASSUME FanInv, UNCHANGED <<trigger, triggers, server>>, clock' \in Nat, clock <= clock',
           NEW s \in Listeners, NEW L \in ListenerState,
           listener' = [listener EXCEPT ![s] = L],
           HeardInOrder(L, server.last), StampedAfter(L, triggers, trigger)
    PROVE  FanInv'
<1>1. FanTypes'
  BY DEF FanInv, FanTypes
<1>2. Posted'
  BY PostTypes DEF FanInv, FanTypes, Posted
<1>3. \A x \in Listeners : listener'[x] = IF x = s THEN L ELSE listener[x]
  BY DEF FanInv, FanTypes
<1> QED  BY <1>1, <1>2, <1>3 DEF FanInv

LEMMA ListenerStepKeepsInv ==
    ASSUME FanInv, NEW s \in Listeners, Fan!Listener(s) PROVE FanInv'
<1> DEFINE L == listener[s]
<1>1. /\ L \in ListenerState /\ clock \in Nat
      /\ HeardInOrder(L, server.last) /\ StampedAfter(L, triggers, trigger)
  BY DEF FanInv, FanTypes
<1>2. UNCHANGED <<trigger, triggers, server>>
  BY DEF Fan!Listener, Fan!Subscribe, Fan!SubscribeFails, Fan!Receive, Fan!Drop,
     Fan!Unsubscribe, Fan!Ping, Fan!Pong, Fan!Goodbye, Fan!Others
<1>3. ASSUME NEW L1 \in ListenerState, listener' = [listener EXCEPT ![s] = L1],
             UNCHANGED clock, L1.frames = L.frames, L1.inbox = L.inbox
      PROVE  FanInv'
  <2>1. HeardInOrder(L1, server.last) /\ StampedAfter(L1, triggers, trigger)
    BY <1>1, <1>3 DEF HeardInOrder, StampedAfter
  <2>2. clock' \in Nat /\ clock <= clock'
    BY <1>1, <1>3
  <2> HIDE DEF L
  <2> QED  BY <1>2, <1>3, <2>1, <2>2, ListenerKeepsInv
<1>4. CASE Fan!Subscribe(s)
  <2>1. [L EXCEPT !.pc = "read"] \in ListenerState
    BY <1>1 DEF ListenerState
  <2>2. /\ [L EXCEPT !.pc = "read"].frames = L.frames
        /\ [L EXCEPT !.pc = "read"].inbox = L.inbox
    BY <1>1 DEF ListenerState
  <2> QED  BY <1>3, <1>4, <2>1, <2>2 DEF Fan!Subscribe
<1>5. CASE Fan!SubscribeFails(s)
  <2> DEFINE L1 == [L EXCEPT !.pc = "left", !.connect = @ + 1]
  <2>1. L1 \in ListenerState /\ L1.frames = L.frames /\ L1.inbox = L.inbox
    <3>1. L.connect \in Nat /\ L.connect + 1 \in Nat
      BY <1>1 DEF ListenerState
    <3> HIDE DEF L
    <3> QED  BY <1>1, <3>1 DEF ListenerState
  <2>2. listener' = [listener EXCEPT ![s] = L1] /\ UNCHANGED clock
    BY <1>5 DEF Fan!SubscribeFails
  <2> QED  BY <1>3, <2>1, <2>2
\* It goes somewhere else, and may count a read error.
<1>6. ASSUME NEW pc \in {"read", "pong", "close", "left"}, UNCHANGED clock,
             \/ listener' = [listener EXCEPT ![s].pc = pc]
             \/ listener' = [listener EXCEPT ![s].pc = pc, ![s].read = @ + 1]
      PROVE  FanInv'
  <2>1. CASE listener' = [listener EXCEPT ![s].pc = pc]
    <3> DEFINE L1 == [L EXCEPT !.pc = pc]
    <3>1. L1 \in ListenerState /\ L1.frames = L.frames /\ L1.inbox = L.inbox
      BY <1>1, <1>6 DEF ListenerState
    <3>2. listener' = [listener EXCEPT ![s] = L1]
      BY <2>1
    <3> HIDE DEF L1
    <3> QED  BY <1>3, <1>6, <3>1, <3>2
  <2>2. CASE listener' = [listener EXCEPT ![s].pc = pc, ![s].read = @ + 1]
    <3> DEFINE L1 == [L EXCEPT !.pc = pc, !.read = @ + 1]
    <3>1. L1 \in ListenerState /\ L1.frames = L.frames /\ L1.inbox = L.inbox
      <4>1. L.read \in Nat /\ L.read + 1 \in Nat
        BY <1>1 DEF ListenerState
      <4> HIDE DEF L
      <4> QED  BY <1>1, <1>6, <4>1 DEF ListenerState
    <3>2. listener' = [listener EXCEPT ![s] = L1]
      BY <2>2
    <3> HIDE DEF L1
    <3> QED  BY <1>3, <1>6, <3>1, <3>2
  <2> QED  BY <1>6, <2>1, <2>2
<1>7. CASE Fan!Drop(s) \/ Fan!Unsubscribe(s) \/ Fan!Ping(s) \/ Fan!Pong(s) \/ Fan!Goodbye(s)
  <2>1. /\ UNCHANGED clock
        /\ \E pc \in {"read", "pong", "close", "left"} :
             \/ listener' = [listener EXCEPT ![s].pc = pc]
             \/ listener' = [listener EXCEPT ![s].pc = pc, ![s].read = @ + 1]
    BY Zenon, <1>7
    DEF Fan!Drop, Fan!Unsubscribe, Fan!Ping, Fan!Pong, Fan!Goodbye, Fan!GoesBy
  <2> QED  BY <1>6, <2>1
<1>8. CASE Fan!Receive(s)
  <2>1. L.inbox # <<>> /\ clock' = clock + 1
    BY <1>8 DEF Fan!Receive
  <2>2. PICK stamped \in BOOLEAN :
          listener' = [listener EXCEPT
            ![s].inbox = Tail(@),
            ![s].frames = Append(@, [at |-> clock', of |-> Head(listener[s].inbox),
                                     stamped |-> stamped])]
    BY <1>8 DEF Fan!Receive
  <2> DEFINE f == [at |-> clock', of |-> Head(L.inbox), stamped |-> stamped]
             L1 == [L EXCEPT !.inbox = Tail(@), !.frames = Append(@, f)]
  <2>3. /\ Tail(L.inbox) \in Seq(Nat) /\ Head(L.inbox) \in Nat
        /\ Head(L.inbox) = L.inbox[1] /\ 1 \in DOMAIN L.inbox
        /\ \A i \in DOMAIN Tail(L.inbox) :
             /\ i + 1 \in DOMAIN L.inbox /\ Tail(L.inbox)[i] = L.inbox[i + 1]
             /\ i \in Nat /\ 1 < i + 1
    BY <1>1, <2>1, ListenerTypes, Behead
  <2>4. f \in Frame /\ f.at = clock' /\ f.of = L.inbox[1]
    BY <1>1, <2>1, <2>3 DEF Frame
  <2>5. listener' = [listener EXCEPT ![s] = L1]
    BY <2>2
  <2> HIDE DEF f
  <2>6. /\ Append(L.frames, f) \in Seq(Frame)
        /\ \A i \in DOMAIN Append(L.frames, f) :
             \/ i \in DOMAIN L.frames /\ Append(L.frames, f)[i] = L.frames[i]
             \/ i = Len(L.frames) + 1 /\ Append(L.frames, f)[i] = f
        /\ \A i \in DOMAIN L.frames : i \in Nat /\ i <= Len(L.frames) /\ Len(L.frames) \in Nat
    BY <1>1, <2>4, ListenerTypes, Appended
  <2>7. /\ L1 \in ListenerState
        /\ L1.inbox = Tail(L.inbox) /\ L1.frames = Append(L.frames, f)
    BY <1>1, <2>3, <2>6 DEF ListenerState
  <2> HIDE DEF L, L1
  <2>8. HeardInOrder(L1, server.last)
    <3>1. \A i, j \in DOMAIN L1.frames : i < j => L1.frames[i].of < L1.frames[j].of
      <4> SUFFICES ASSUME NEW i \in DOMAIN L1.frames, NEW j \in DOMAIN L1.frames, i < j
                   PROVE  L1.frames[i].of < L1.frames[j].of
        OBVIOUS
      <4>1. i \in DOMAIN L.frames /\ L1.frames[i] = L.frames[i]
        BY <2>6, <2>7
      <4>2. CASE j \in DOMAIN L.frames /\ L1.frames[j] = L.frames[j]
        BY <1>1, <4>1, <4>2 DEF HeardInOrder
      <4>3. CASE L1.frames[j] = f
        BY <1>1, <2>3, <2>4, <4>1, <4>3 DEF HeardInOrder
      <4> QED  BY <2>6, <2>7, <4>2, <4>3
    <3>2. \A i, j \in DOMAIN L1.inbox : i < j => L1.inbox[i] < L1.inbox[j]
      <4> SUFFICES ASSUME NEW i \in DOMAIN L1.inbox, NEW j \in DOMAIN L1.inbox, i < j
                   PROVE  L1.inbox[i] < L1.inbox[j]
        OBVIOUS
      <4>1. /\ i + 1 \in DOMAIN L.inbox /\ L1.inbox[i] = L.inbox[i + 1]
            /\ j + 1 \in DOMAIN L.inbox /\ L1.inbox[j] = L.inbox[j + 1]
            /\ i + 1 < j + 1
        <5>1. /\ i + 1 \in DOMAIN L.inbox /\ L1.inbox[i] = L.inbox[i + 1] /\ i \in Nat
              /\ j + 1 \in DOMAIN L.inbox /\ L1.inbox[j] = L.inbox[j + 1] /\ j \in Nat
          BY <2>3, <2>7
        <5> QED  BY <5>1
      <4> QED  BY <1>1, <4>1 DEF HeardInOrder
    <3>3. ASSUME NEW i \in DOMAIN L1.frames
          PROVE  /\ L1.frames[i].of <= server.last
                 /\ \A j \in DOMAIN L1.inbox : L1.frames[i].of < L1.inbox[j]
      <4>1. \A j \in DOMAIN L1.inbox : /\ j + 1 \in DOMAIN L.inbox
                                       /\ L1.inbox[j] = L.inbox[j + 1] /\ 1 < j + 1
        BY <2>3, <2>7
      <4>2. CASE i \in DOMAIN L.frames /\ L1.frames[i] = L.frames[i]
        BY <1>1, <4>1, <4>2 DEF HeardInOrder
      <4>3. CASE L1.frames[i] = f
        <5>1. L.inbox[1] <= server.last
          BY <1>1, <2>3 DEF HeardInOrder
        <5>2. \A j \in DOMAIN L.inbox : 1 < j => L.inbox[1] < L.inbox[j]
          BY <1>1, <2>3 DEF HeardInOrder
        <5> QED  BY <2>4, <4>1, <4>3, <5>1, <5>2
      <4> QED  BY <2>6, <2>7, <4>2, <4>3
    <3>4. \A j \in DOMAIN L1.inbox : L1.inbox[j] <= server.last
      BY <1>1, <2>3, <2>7 DEF HeardInOrder
    <3> QED  BY <3>1, <3>2, <3>3, <3>4 DEF HeardInOrder
  <2>9. StampedAfter(L1, triggers, trigger)
    <3> SUFFICES ASSUME NEW i \in DOMAIN L1.frames
                 PROVE  /\ \A k \in DOMAIN triggers :
                             triggers[k].of = L1.frames[i].of => triggers[k].at <= L1.frames[i].at
                        /\ L1.frames[i].of = trigger.fired => trigger.stamp <= L1.frames[i].at
      BY DEF StampedAfter
    <3>1. CASE i \in DOMAIN L.frames /\ L1.frames[i] = L.frames[i]
      BY <1>1, <3>1 DEF StampedAfter
    <3>2. CASE L1.frames[i] = f
      <4>1. /\ trigger.stamp <= clock /\ trigger.stamp \in Nat
            /\ \A k \in DOMAIN triggers : triggers[k].at <= clock /\ triggers[k].at \in Nat
        BY PostTypes DEF FanInv, Posted
      <4> QED  BY <1>1, <2>1, <2>4, <3>2, <4>1
    <3> QED  BY <2>6, <2>7, <3>1, <3>2
  <2>10. clock' \in Nat /\ clock <= clock'
    BY <1>1, <2>1
  <2> QED  BY <1>2, <2>5, <2>7, <2>8, <2>9, <2>10, ListenerKeepsInv
<1> QED  BY <1>4, <1>5, <1>7, <1>8 DEF Fan!Listener

\* The server broadcasts: a later POST than any before.
LEMMA BroadcastKeepsInv ==
    ASSUME FanInv, Fan!Broadcast PROVE FanInv'
<1>1. PICK n \in server.reached, lostFor \in SUBSET Listeners :
        /\ n > server.last
        /\ server' = [server EXCEPT !.last = n]
        /\ listener' = [s \in Listeners |->
             IF listener[s].pc \in {"read", "pong"} /\ s \notin lostFor
             THEN [listener[s] EXCEPT !.inbox = Append(@, n)] ELSE listener[s]]
  BY DEF Fan!Broadcast
<1>2. UNCHANGED <<clock, trigger, triggers>>
  BY DEF Fan!Broadcast
<1>3. FanTypes /\ Posted
  BY DEF FanInv
<1>4. /\ n \in Nat /\ n <= trigger.fired /\ server.last \in Nat
      /\ server' \in [reached : SUBSET Nat, last : Nat]
      /\ server'.last = n /\ server'.reached = server.reached
  BY <1>1, <1>3, PostTypes DEF FanTypes, Posted
<1>5. ASSUME NEW s \in Listeners
      PROVE  /\ listener'[s] \in ListenerState
             /\ HeardInOrder(listener'[s], n) /\ StampedAfter(listener'[s], triggers, trigger)
  <2> DEFINE L == listener[s]
             L1 == [L EXCEPT !.inbox = Append(@, n)]
  <2>1. /\ L \in ListenerState
        /\ HeardInOrder(L, server.last) /\ StampedAfter(L, triggers, trigger)
    BY DEF FanInv, FanTypes
  <2>2. /\ Append(L.inbox, n) \in Seq(Nat)
        /\ \A i \in DOMAIN Append(L.inbox, n) :
             \/ i \in DOMAIN L.inbox /\ Append(L.inbox, n)[i] = L.inbox[i]
             \/ i = Len(L.inbox) + 1 /\ Append(L.inbox, n)[i] = n
        /\ \A i \in DOMAIN L.inbox : i \in Nat /\ i <= Len(L.inbox) /\ Len(L.inbox) \in Nat
    BY <1>4, <2>1, ListenerTypes, Appended
  <2>3. L1 \in ListenerState /\ L1.frames = L.frames /\ L1.inbox = Append(L.inbox, n)
    BY <2>1, <2>2 DEF ListenerState
  <2>4. listener'[s] = L1 \/ listener'[s] = L
    BY <1>1
  <2>5. /\ \A i \in DOMAIN L.frames : L.frames[i].of \in Nat
        /\ \A j \in DOMAIN L.inbox : L.inbox[j] \in Nat
    BY <2>1, ListenerTypes
  <2> HIDE DEF L, L1
  <2>6. HeardInOrder(L, n)
    BY <1>1, <1>4, <2>1, <2>5 DEF HeardInOrder
  <2>7. HeardInOrder(L1, n)
    <3>1. \A i, j \in DOMAIN L1.inbox : i < j => L1.inbox[i] < L1.inbox[j]
      <4> SUFFICES ASSUME NEW i \in DOMAIN L1.inbox, NEW j \in DOMAIN L1.inbox, i < j
                   PROVE  L1.inbox[i] < L1.inbox[j]
        OBVIOUS
      <4>1. i \in DOMAIN L.inbox /\ L1.inbox[i] = L.inbox[i]
        BY <2>2, <2>3
      <4>2. CASE j \in DOMAIN L.inbox /\ L1.inbox[j] = L.inbox[j]
        BY <2>6, <4>1, <4>2 DEF HeardInOrder
      <4>3. CASE L1.inbox[j] = n
        BY <1>1, <1>4, <2>1, <2>5, <4>1, <4>3 DEF HeardInOrder
      <4> QED  BY <2>2, <2>3, <4>2, <4>3
    <3>2. \A i \in DOMAIN L1.frames, j \in DOMAIN L1.inbox : L1.frames[i].of < L1.inbox[j]
      <4> SUFFICES ASSUME NEW i \in DOMAIN L.frames, NEW j \in DOMAIN L1.inbox
                   PROVE  L.frames[i].of < L1.inbox[j]
        BY <2>3
      <4>1. CASE j \in DOMAIN L.inbox /\ L1.inbox[j] = L.inbox[j]
        BY <2>6, <4>1 DEF HeardInOrder
      <4>2. CASE L1.inbox[j] = n
        BY <1>1, <1>4, <2>1, <2>5, <4>2 DEF HeardInOrder
      <4> QED  BY <2>2, <2>3, <4>1, <4>2
    <3>3. \A j \in DOMAIN L1.inbox : L1.inbox[j] <= n
      BY <1>4, <2>2, <2>3, <2>6 DEF HeardInOrder
    <3> QED  BY <2>3, <2>6, <3>1, <3>2, <3>3 DEF HeardInOrder
  <2>8. StampedAfter(L1, triggers, trigger)
    BY <2>1, <2>3 DEF StampedAfter
  <2> QED  BY <2>1, <2>3, <2>4, <2>6, <2>7, <2>8
<1>6. FanTypes'
  <2>1. DOMAIN listener' = Listeners /\ listener' = [s \in Listeners |-> listener'[s]]
    BY <1>1
  <2>2. listener' \in [Listeners -> ListenerState]
    BY <1>5, <2>1
  <2> QED  BY <1>2, <1>3, <1>4, <2>2 DEF FanTypes
<1>7. Posted'
  BY <1>2, <1>3, <1>4 DEF Posted
<1> QED  BY <1>2, <1>4, <1>5, <1>6, <1>7 DEF FanInv

LEMMA FanStepKeepsInv == ASSUME FanInv, Next \/ UNCHANGED vars PROVE FanInv'
<1>1. ASSUME UNCHANGED <<clock, trigger, triggers, server, listener>> PROVE FanInv'
  BY <1>1 DEF FanInv, FanTypes, Posted
<1>2. CASE UNCHANGED fanVars
  BY <1>1, <1>2 DEF fanVars
<1>3. CASE FanStep
  <2>1. CASE Fan!FanoutReport
    BY <1>1, <2>1 DEF Fan!FanoutReport
  <2>2. CASE Fan!PostReaches
    <3>1. /\ server' = [server EXCEPT !.reached = @ \cup {trigger.fired}]
          /\ UNCHANGED <<clock, trigger, triggers, listener>>
      BY <2>2 DEF Fan!PostReaches, Fan!TriggerOthers
    <3>2. /\ FanTypes /\ trigger.fired \in Nat
          /\ server'.last = server.last /\ server'.reached = server.reached \cup {trigger.fired}
          /\ server' \in [reached : SUBSET Nat, last : Nat]
      BY <3>1, PostTypes DEF FanInv, FanTypes
    <3> QED  BY <3>1, <3>2 DEF FanInv, FanTypes, Posted
  <2> QED  BY <1>3, <2>1, <2>2, TriggerKeepsInv, ListenerStepKeepsInv, BroadcastKeepsInv
           DEF FanStep, Fan!FanoutNext
<1>4. FanStep \/ UNCHANGED fanVars
  BY DEF Next, vars, TimeUp, HoldStep, StormStep, WsStep, H2Step, CheckStep
<1> QED  BY <1>2, <1>3, <1>4

LEMMA FanStarts == Init => FanInv
<1> SUFFICES ASSUME Init PROVE FanInv
  OBVIOUS
<1>1. Fan!FanoutInit
  BY DEF Init, RunOneProtocol
<1>2. <<>> \in Seq(Nat) /\ <<>> \in Seq(Frame) /\ <<>> \in Seq(Trigger) /\ DOMAIN <<>> = {}
  OBVIOUS
<1>3. FanTypes
  BY <1>1, <1>2 DEF Fan!FanoutInit, FanTypes, ListenerState
<1>4. Posted
  BY <1>1, <1>2 DEF Fan!FanoutInit, Posted
<1>5. \A s \in Listeners : listener[s].frames = <<>> /\ listener[s].inbox = <<>>
  BY <1>1 DEF Fan!FanoutInit
<1> QED  BY <1>2, <1>3, <1>4, <1>5 DEF FanInv, HeardInOrder, StampedAfter

LEMMA FanInvSuffices == FanInv => SamplesMatchTriggers
<1> SUFFICES ASSUME FanInv, NEW s \in Listeners
             PROVE
      LET frames == listener[s].frames
          match == Fan!Correlate(frames)
          recorded == {triggers[k].of : k \in DOMAIN triggers}
          seen == {frames[i].of : i \in DOMAIN frames}
      IN seen \subseteq recorded =>
           /\ \A k \in DOMAIN triggers :
                match[k] # 0 => frames[match[k]].of >= triggers[k].of
           /\ recorded \subseteq seen =>
                \A k \in DOMAIN triggers :
                  match[k] # 0 /\ frames[match[k]].of = triggers[k].of
  BY DEF SamplesMatchTriggers, Fan!SamplesMatchTriggers
<1> DEFINE frames == listener[s].frames
           match == Fan!Correlate(frames)
           recorded == {triggers[k].of : k \in DOMAIN triggers}
           seen == {frames[i].of : i \in DOMAIN frames}
<1>1. listener[s] \in ListenerState /\ triggers \in Seq(Trigger)
  BY DEF FanInv, FanTypes
<1>2. frames \in Seq(Frame)
  BY <1>1, ListenerTypes
<1>3. InOrderOfPosts(frames)
  BY <1>1, <1>2 DEF InOrderOfPosts, FanInv, Posted, HeardInOrder, StampedAfter
<1>4. GreedyMatch(match, frames)
  <2>1. /\ Len(frames) \in Nat /\ DOMAIN frames = 1..Len(frames)
        /\ Len(triggers) \in Nat /\ DOMAIN triggers = 1..Len(triggers)
    BY <1>1, <1>2
  <2> HIDE DEF frames
  <2> QED  BY <2>1, CorrelationIsGreedy
<1> HIDE DEF match, frames
<1> SUFFICES ASSUME seen \subseteq recorded
             PROVE  /\ \A k \in DOMAIN triggers :
                         match[k] # 0 => frames[match[k]].of >= triggers[k].of
                    /\ recorded \subseteq seen =>
                         \A k \in DOMAIN triggers :
                           match[k] # 0 /\ frames[match[k]].of = triggers[k].of
  BY DEF match, frames
<1>5. \A i \in DOMAIN frames : \E k \in DOMAIN triggers : frames[i].of = triggers[k].of
  OBVIOUS
<1>6. recorded \subseteq seen =>
        \A k \in DOMAIN triggers : \E i \in DOMAIN frames : frames[i].of = triggers[k].of
  OBVIOUS
<1> HIDE DEF recorded, seen
<1> QED  BY <1>3, <1>4, <1>5, <1>6, MatchesAreOfTheTriggers

\* The consume-after-match loop of the two fanout.rs: if no broadcast is of a
\* POST that failed, the frame a trigger takes is its own or of a later trigger;
\* if moreover none is lost, each trigger takes its own.
THEOREM SamplesAreOfTheirTriggers == Spec => []SamplesMatchTriggers
<1> QED  BY FanStarts, FanStepKeepsInv, FanInvSuffices, PTL DEF Spec
=============================================================================
