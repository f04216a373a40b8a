------------------------------ MODULE Backends ------------------------------
(* The backends of the SSE, WebSocket and HTTP/2 scenarios, as dispatch calls *)
(* them: one per group of scenarios, against one stop flag and one deadline;  *)
(* and the self-check of the client, which has its own deadline and comes     *)
(* before a measured run.  HTTP/1.1 and cold-connect have modules of their    *)
(* own (MioH1, ColdConnect).                                                  *)
EXTENDS Naturals, Sequences, FiniteSets

CONSTANTS Slots, MaxDeliveries, MaxReconnects,     \* SseHold
          Subscribers, MaxEvents, MaxSessions, Verify, Tls, \* ReconnectStorm
          Listeners, MaxTriggers,                          \* Fanout
          Conns, MaxSends, MaxNoise, Looks,                \* WsWorkers
          TotalStreams, Threads, MaxRequests,              \* MioH2
          PoolSize, Room, MaxChecks                        \* Calibration

ASSUME BackendsAssumption ==
  /\ \A S \in {Slots, Subscribers, Listeners, Conns} : IsFiniteSet(S)
  /\ \A n \in {MaxDeliveries, MaxReconnects, MaxEvents, MaxSessions, MaxTriggers,
               MaxSends, MaxNoise, MaxRequests, MaxChecks} : n \in Nat
  /\ \A n \in {Looks, TotalStreams, Threads, PoolSize, Room} : n \in Nat \ {0}
  /\ Verify \in BOOLEAN /\ Tls \in BOOLEAN

VARIABLES backend, over,
          again, loop, subs, alive, ready, refused, sent, opened, holdTotal,
          honours, sub, session, stats, total,
          mode, clock, trigger, triggers, server, listener, fanTotal,
          flavour, conn, peer, stat, wsTotal,
          openLoop, limit, at, streams, idle, pending, made, keepup, declined, done, errors,
          client, up, id, sentBytes, heard, counted, toEcho, toClient,
          thread, accepted, queued, writable, announced

Hold  == INSTANCE SseHold
Storm == INSTANCE ReconnectStorm
Fan   == INSTANCE Fanout
Ws    == INSTANCE WsWorkers
H2    == INSTANCE MioH2
Check == INSTANCE Calibration WITH MaxRequests <- MaxChecks, sent <- sentBytes

holdVars  == <<again, loop, subs, alive, ready, refused, sent, opened, holdTotal>>
stormVars == <<honours, sub, session, stats, total>>
fanVars   == <<mode, clock, trigger, triggers, server, listener, fanTotal>>
wsVars    == <<flavour, conn, peer, stat, wsTotal>>
h2Vars    == <<openLoop, limit, at, streams, idle, pending, made, keepup, declined, done, errors>>
checkVars == <<client, up, id, sentBytes, heard, counted, toEcho, toClient,
               thread, accepted, queued, writable, announced>>
vars == <<backend, over, holdVars, stormVars, fanVars, wsVars, h2Vars, checkVars>>

\* The first step that is not a pause names the backend; whether the requests
\* of an HTTP plan go over HTTP/2 is for main to say (use_h2).
BackendOf == [SseHold |-> {"hold"}, SseReconnectStorm |-> {"storm"},
              SseFanout |-> {"sse_fanout"}, WsFanout |-> {"ws_fanout"},
              WsEchoRtt |-> {"ws_echo"}, WsHold |-> {"ws_hold"},
              WsServerPushRtt |-> {"ws_push"}, Request |-> {"h2"}]

\* Options of a scenario that is not run are left at a default.
RunOneProtocol ==
  /\ \/ \E step \in DOMAIN BackendOf : backend \in BackendOf[step]
     \/ backend = "self_check"
  /\ Hold!HoldInit /\ (backend # "hold" => ~again)
  /\ Storm!StormInit /\ (backend # "storm" => ~honours)
  /\ Fan!FanoutInit /\ (backend \notin Fan!Kinds => mode = "TriggerRtt")
  /\ Ws!WsInit
  /\ H2!H2Init /\ (backend # "h2" => ~openLoop /\ limit = 0)
  /\ Check!CheckInit

Init == over = "no" /\ RunOneProtocol

\* The timer or the dashboard raises the flag, which the self-check does not
\* have, or the deadline passes.
TimeUp ==
  /\ over = "no"
  /\ over' \in IF backend = "self_check" THEN {"deadline"} ELSE {"stop", "deadline"}
  /\ UNCHANGED <<backend, holdVars, stormVars, fanVars, wsVars, h2Vars, checkVars>>

HoldStep  == Hold!HoldNext /\ UNCHANGED <<stormVars, fanVars, wsVars, h2Vars, checkVars>>
StormStep == Storm!StormNext /\ UNCHANGED <<holdVars, fanVars, wsVars, h2Vars, checkVars>>
FanStep   == Fan!FanoutNext /\ UNCHANGED <<holdVars, stormVars, wsVars, h2Vars, checkVars>>
WsStep    == Ws!WsNext /\ UNCHANGED <<holdVars, stormVars, fanVars, h2Vars, checkVars>>
H2Step    == H2!H2Next /\ UNCHANGED <<holdVars, stormVars, fanVars, wsVars, checkVars>>
CheckStep == Check!CheckNext /\ UNCHANGED <<holdVars, stormVars, fanVars, wsVars, h2Vars>>

Next == TimeUp \/ HoldStep \/ StormStep \/ FanStep \/ WsStep \/ H2Step \/ CheckStep

Spec == /\ Init /\ [][Next]_vars /\ WF_vars(TimeUp)
        /\ Hold!HoldFairness /\ Storm!StormFairness /\ Fan!FanoutFairness
        /\ Ws!WsFairness /\ H2!H2Fairness /\ Check!CheckFairness

-----------------------------------------------------------------------------
(* Properties: those of the backends, and one that they share *)

(* See SseHold. *)
SlotsKeepTheirCounts == Hold!SlotsKeepTheirCounts

(* See ReconnectStorm. *)
SessionsAddUp == Storm!SessionsAddUp

(* See Fanout. *)
SamplesMatchTriggers == Fan!SamplesMatchTriggers

(* See WsWorkers. *)
EchoIsOfItsMessage == Ws!EchoIsOfItsMessage

(* See WsWorkers. *)
WsConnectionsAccounted == Ws!WsConnectionsAccounted

(* See MioH2. *)
TokensInOnePlace == H2!TokensInOnePlace

(* See Calibration. *)
SelfCheckIsAnswered == Check!SelfCheckIsAnswered

\* The backend has returned its statistics to dispatch; the self-check is over
\* and its server is gone.
Reported ==
  \/ loop = "done" \/ total # <<>> \/ fanTotal # <<>> \/ wsTotal # <<>> \/ at = "left"
  \/ thread = "joined"

\* Someone waits for a peer with no limit of time: the answer to a WebSocket
\* upgrade, room for a WebSocket frame (a message, a pong, a close frame), the
\* SETTINGS of an HTTP/2 server.
WaitsForPeer ==
  \/ Ws!Stuck # {}
  \/ Fan!Stuck # {}
  \/ backend = "h2" /\ at = "handshake"

(* Once the time is up every backend returns, with connections half made,     *)
(* batches unhandled and servers silent, unless a thread waits for ever in    *)
(* one of the places that have no timeout, the writes of pongs and close      *)
(* frames included (run_one_protocol joins all of them).                      *)
EveryBackendEnds == over # "no" ~> Reported \/ []WaitsForPeer

(* "Reconnects preserve the subscriber's accumulated stats" (hold.rs:691).    *)
ReconnectKeepsStats == Hold!ReconnectKeepsStats

(* A poll deals with the errors of the bodies it finds (mio_h2.rs:406).       *)
BodyErrorsHandled == H2!BodyErrorsHandled

=============================================================================
