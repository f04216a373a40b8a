-------------------------------- MODULE Runs --------------------------------
(* A plan from the command line or from a script, its dispatch to the         *)
(* backends by protocol, the merge of what they measured, the report and the  *)
(* exit code. Scenarios of one protocol go to one backend, the one their      *)
(* first step names; a script's scenarios run one dispatch each, or all at    *)
(* once with --parallel. What a backend does in a run is left open here.      *)
EXTENDS RequestFile, Functions

CONSTANTS RateArgs, Connections, \* what --rate and --connections may be
          Files,                 \* what --request-file may name
          Entries,               \* the files of a directory given to --requests
          MaxFiles, MaxOps,
          Ladder                 \* the rates that curve offers, one after the other

\* The place of main in the run; the command line; the request files, each with
\* what was read from it; the plan (a job's scenarios are [steps: kinds of
\* steps, rate]); the scenarios of this dispatch, by index,
\* and the next in serial mode; its groups by protocol and their statistics;
\* what the groups that ended put down for each scenario, and whether any of it,
\* in any dispatch, was a hard error or an operation; what a group that panicked
\* had put down; the summary; the loop's any_errors and any_requests; the steps
\* of a curve; the exit code.
VARIABLES stage, args, files, job, batch, next, group, tasks, did, everHard, everDone, lost,
          summary, anyErrors, anyRequests, points, exit

runVars == <<stage, args, files, job, batch, next, group, tasks, did, everHard, everDone, lost,
             summary, anyErrors, anyRequests, points, exit>>

Nothing == {}
Constant(r) == [kind |-> "Constant", n |-> r]
Saturate(n) == [kind |-> "Saturate", n |-> n]

-----------------------------------------------------------------------------
(* Protocols and backends *)

StepsOf == [http |-> {"Request", "HttpColdConnect"},
            sse |-> {"SseHold", "SseFanout", "SseReconnectStorm"},
            ws |-> {"WsEchoRtt", "WsHold", "WsServerPushRtt", "WsFanout"}]

\* A scenario is of the protocol of its first step, of HTTP if it has none.
ProtocolOf(scenario) ==
  IF scenario.steps = <<>> THEN "http"
  ELSE CHOOSE p \in DOMAIN StepsOf : scenario.steps[1] \in StepsOf[p]

\* The numbers of a finite set, the smallest first: place k has the one that is
\* not smaller than k of them. (The library sorts with an operator of TLC.)
InOrder(S) == [k \in 1..Cardinality(S) |-> CHOOSE x \in S : Cardinality({y \in S : y <= x}) = k]

\* sub_plan: the indices of a protocol's scenarios; their rows are numbered by
\* their place in it.
SubPlan(p) ==
  LET places == InOrder({k \in DOMAIN batch : ProtocolOf(job[batch[k]]) = p})
  IN [k \in DOMAIN places |-> batch[places[k]]]
Active == {p \in DOMAIN StepsOf : SubPlan(p) # <<>>}

FirstWireStep(sub) ==
  LET wired == {k \in DOMAIN sub : job[sub[k]].steps # <<>>}
  IN IF wired = {} THEN "Request" ELSE job[sub[Min(wired)]].steps[1]
AnyIsCold(sub) == \E i \in Range(sub) : "HttpColdConnect" \in Range(job[i].steps)

\* The kind of step whose backend the group is given to.
BackendFor(sub) ==
  IF FirstWireStep(sub) = "Request" /\ AnyIsCold(sub) THEN "HttpColdConnect" ELSE FirstWireStep(sub)

\* The backend runs, of each scenario, the first step of its kind; HTTP/2 has
\* one request for all. Scenarios without such a step it skips.
Served(sub) ==
  LET kind == BackendFor(sub)
      having == {k \in DOMAIN sub : kind \in Range(job[sub[k]].steps)}
  IN IF kind = "Request" /\ args.http2 THEN {k \in having : k = 1} ELSE having

\* A worker of mio_h1 expects a request in the first HTTP scenario when it
\* starts, and in any it picks.
MustPanic(sub) == BackendFor(sub) = "Request" /\ "Request" \notin Range(job[sub[1]].steps)
MayPanic(sub) == BackendFor(sub) = "Request"
                 /\ \E i \in Range(sub) : "Request" \notin Range(job[i].steps)

\* The open-loop rate of a dispatch, none for saturate: from the command line.
TargetRps == IF args.saturate THEN Nothing ELSE args.rate
Pace(p) == IF p = "http" THEN TargetRps ELSE Nothing

-----------------------------------------------------------------------------
(* Statistics *)

Axes == {"requests", "hard", "soft", "latency", "gap", "sse_broadcast", "rtt", "ws_broadcast"}
Zero == [a \in Axes |-> 0]
AddAll(rows) == [a \in Axes |-> SumFunction([t \in DOMAIN rows |-> rows[t][a]])]

\* Where the samples of a kind of step go.
AxisOf(kind) ==
  CASE kind \in StepsOf.http -> "latency"
    [] kind = "SseFanout" -> "sse_broadcast"
    [] kind = "WsFanout" -> "ws_broadcast"
    [] kind \in StepsOf.sse \ {"SseFanout"} -> "gap"
    [] OTHER -> "rtt"

\* A sample for every operation: a latency for a request, a round trip for a message.
SampledEach == StepsOf.http \cup {"WsEchoRtt"}

\* How many samples come with so many operations. Gaps are between events or
\* messages of one connection; a held WebSocket has none, and its operations
\* are the connections; of broadcasts, those matched to a trigger or stamped; in
\* a storm, reconnects, however many events there were.
MayHaveSamples(kind, done, n) ==
  /\ kind \in SampledEach => n = done
  /\ kind \in {"SseHold", "WsServerPushRtt"} => n < done \/ n = 0
  /\ kind = "WsHold" => n = 0
  /\ kind \in {"SseFanout", "WsFanout"} => n <= done

\* TaskStats::record and record_error, or what a backend puts into its task at
\* the end: the task's counters, its latency, and the row of the scenario. Only
\* HTTP has soft errors.
Outcomes(kind) ==
  {[Zero EXCEPT !.requests = o.done, ![AxisOf(kind)] = o.samples, !.hard = o.hard, !.soft = o.soft] :
     o \in {p \in [done : 0..MaxOps, samples : 0..MaxOps, hard : 0..1,
                   soft : IF kind \in StepsOf.http THEN 0..1 ELSE {0}] :
              MayHaveSamples(kind, p.done, p.samples)}}
Possible(kind) == {r \in Outcomes(kind) : r.soft <= r.requests}
TotalsOf(row) == [row EXCEPT !.gap = 0, !.sse_broadcast = 0, !.rtt = 0, !.ws_broadcast = 0]

\* A task of n rows, whose row k is the only one it fills.
TaskStats(n, k, row) == [total |-> TotalsOf(row), rows |-> [j \in 1..n |-> IF j = k THEN row ELSE Zero]]

\* A wrong Merge: the rows are those of the last task.
MergeReplacingRows(all) ==
  [total |-> AddAll([t \in DOMAIN all |-> all[t].total]),
   rows |-> IF all = <<>> THEN <<>> ELSE Last(all).rows]

\* Summary::merge: as many rows as the first task has, added up by position.
Merge(all) ==
  LET n == IF all = <<>> THEN 0 ELSE Len(all[1].rows)
  IN [total |-> AddAll([t \in DOMAIN all |-> all[t].total]),
      rows |-> [k \in 1..n |->
                  AddAll([t \in DOMAIN all |-> IF k \in DOMAIN all[t].rows THEN all[t].rows[k] ELSE Zero])]]

-----------------------------------------------------------------------------
(* The command line *)

Exit(code) == stage' = "exited" /\ exit' = code
Idle == <<batch, next, group, tasks, did, everHard, everDone, lost, summary, anyErrors, anyRequests, points>>

\* pick_rate_profile: --saturate, else the scenario's part of --rate, else saturate.
PickRateProfile(a, part, whole) ==
  IF a.saturate \/ a.rate = Nothing THEN Saturate(Connections)
  ELSE Constant((Max(a.rate) * part) \div whole)

RatesGiven == {{r} : r \in RateArgs} \cup {Nothing}
Args == {a \in [verb : {"bare", "run", "probe"}, rate : RatesGiven,
                saturate : BOOLEAN, parallel : BOOLEAN, http2 : BOOLEAN] :
           ~(a.saturate /\ a.rate # Nothing)}

\* Of --rate and --saturate, at most one; only run has --parallel, only a run
\* without a verb --http2; probe has no --saturate.
BareArgs == {a \in Args : a.verb = "bare" /\ a.parallel}
RunArgs == {a \in Args : a.verb = "run" /\ ~a.http2}
ProbeArgs == {a \in Args : a.verb = "probe" /\ a.parallel /\ ~a.http2 /\ ~a.saturate}

\* main without any input; or the plan cannot be built: a URL, method, template
\* or file is not what it should be, or a directory has no request file.
Quickstart == stage = "start" /\ Exit(0) /\ UNCHANGED <<args, files, job, Idle>>
BuildFails == stage = "start" /\ Exit(2) /\ UNCHANGED <<args, files, job, Idle>>

\* What the command line asks for in each scenario: one request.
Planned(a, inputs, rates) ==
  /\ args' = a /\ files' = inputs
  /\ job' = [i \in DOMAIN rates |-> [steps |-> <<"Request">>, rate |-> rates[i]]]
  /\ stage' = "planned"
  /\ UNCHANGED <<exit, Idle>>

\* The files it asks for are not all requests, or not to one host.
Refused(a, inputs) == Exit(2) /\ args' = a /\ files' = inputs /\ UNCHANGED <<job, Idle>>

BuildFromUrl ==
  /\ stage = "start"
  /\ \E a \in BareArgs : Planned(a, <<>>, <<PickRateProfile(a, 1, 1)>>)

Read(text) == [text |-> text, parsed |-> ParseRequest(text)]

BuildFromRequestFile ==
  /\ stage = "start"
  /\ \E a \in BareArgs, text \in Files :
       IF Read(text).parsed.error # "none" THEN Refused(a, <<Read(text)>>)
       ELSE Planned(a, <<Read(text)>>, <<PickRateProfile(a, 1, 1)>>)

\* parse_scenario_dir: a file's weight in scenarios.toml, zero for one that is
\* not listed there; one for each without that file or without a weight.
Tomls(n) == {<<>>} \cup {<<listed>> : listed \in UNION {[some -> 0..2] : some \in SUBSET (1..n)}}
TomlWeights(n, toml) ==
  LET stated == [k \in 1..n |-> IF toml = <<>> THEN 1
                                ELSE IF k \in DOMAIN toml[1] THEN toml[1][k] ELSE 0]
  IN IF SumFunction(stated) = 0 THEN [k \in 1..n |-> 1] ELSE stated

\* A scenario for each file, all of them for one host.
BuildFromRequestDir ==
  /\ stage = "start"
  /\ \E a \in BareArgs, texts \in SeqOf(Entries, MaxFiles) \ {<<>>} :
       LET inputs == [k \in DOMAIN texts |-> Read(texts[k])]
           hosts == {inputs[k].parsed.host : k \in DOMAIN inputs}
       IN IF (\E k \in DOMAIN inputs : inputs[k].parsed.error # "none") \/ Cardinality(hosts) > 1
          THEN Refused(a, inputs)
          ELSE \E toml \in Tomls(Len(texts)) :
                 LET weights == TomlWeights(Len(texts), toml)
                 IN Planned(a, inputs, [k \in DOMAIN texts |->
                                          PickRateProfile(a, weights[k], SumFunction(weights))])

\* --dry-run: the plan is built, and printed.
DryRun ==
  /\ stage = "planned" /\ args.verb = "bare"
  /\ job' = <<>> /\ files' = <<>> /\ Exit(0)
  /\ UNCHANGED <<args, Idle>>

\* zerobench run: the script is loaded, or is not; --rate is split evenly over
\* the scenarios, --saturate is for each.
Override(scenario, a, n) ==
  [scenario EXCEPT !.rate = IF a.rate # Nothing THEN Constant(Max(a.rate) \div n)
                            ELSE IF a.saturate THEN Saturate(Connections) ELSE @]

RunScript(loaded) ==
  /\ stage = "start"
  /\ \E a \in RunArgs :
       /\ args' = a
       /\ job' = [i \in DOMAIN loaded |-> Override(loaded[i], a, Len(loaded))]
  /\ stage' = "planned"
  /\ UNCHANGED <<files, exit, Idle>>

\* zerobench probe: one GET scenario, for mio_h1 and nothing else.
Probe ==
  /\ stage = "start"
  /\ \E a \in ProbeArgs :
       /\ args' = a
       /\ \/ Exit(2) /\ job' = <<>>                                  \* the URL does not parse
          \/ /\ job' = <<[steps |-> <<"Request">>, rate |-> PickRateProfile(a, 1, 1)]>>
             /\ stage' = "planned" /\ UNCHANGED exit
  /\ UNCHANGED <<files, Idle>>

\* zerobench curve: the same scenario, at one rate after the other.
Curve ==
  /\ stage = "start"
  /\ args' = [args EXCEPT !.verb = "curve", !.rate = {Ladder[1]}]
  /\ \/ Exit(2) /\ job' = <<>>               \* bad bounds, URL, self-check or archive
     \/ /\ job' = <<[steps |-> <<"Request">>, rate |-> Constant(Ladder[1])]>>
        /\ stage' = "planned" /\ UNCHANGED exit
  /\ UNCHANGED <<files, Idle>>

ScriptFails == stage = "start" /\ Exit(2) /\ UNCHANGED <<args, files, job, Idle>>

-----------------------------------------------------------------------------
(* Dispatch *)

Serial == ~args.parallel /\ Len(job) > 1

\* One scenario in serial mode, otherwise all. A plan of several protocols has
\* a thread for each; a single one runs in main's own.
Dispatch ==
  /\ stage = "planned"
  /\ batch' = IF Serial THEN <<next>> ELSE [i \in DOMAIN job |-> i]
  /\ did' = [i \in DOMAIN job |-> Zero]
  /\ files' = <<>>             \* the requests are in the plan
  /\ stage' = "dispatching"
  /\ UNCHANGED <<args, job, next, group, tasks, everHard, everDone, lost, summary,
                 anyErrors, anyRequests, points, exit>>

Spawn ==
  /\ stage = "dispatching"
  /\ group' = [p \in DOMAIN StepsOf |-> IF p \in Active THEN "running" ELSE "off"]
  /\ tasks' = [p \in DOMAIN StepsOf |-> <<>>]
  /\ stage' = "running"
  /\ UNCHANGED <<args, files, job, batch, next, did, everHard, everDone, lost, summary,
                 anyErrors, anyRequests, points, exit>>

\* A group ends: one task for each scenario that its backend serves, in order.
\* A row has what is put down for a scenario: mio_h1 and mio_h2 charge failed
\* connects and dropped tokens to the first of their group, whichever they serve.
GroupEnds(p) ==
  /\ stage = "running" /\ group[p] = "running"
  /\ LET sub == SubPlan(p)
         kind == BackendFor(sub)
         served == InOrder(Served(sub))
     IN /\ ~MustPanic(sub)
        /\ \E rows \in [DOMAIN served -> Possible(kind)] :
             /\ tasks' = [tasks EXCEPT ![p] =
                            [t \in DOMAIN served |-> TaskStats(Len(sub), served[t], rows[t])]]
             /\ did' = [i \in DOMAIN job |->
                          IF \E t \in DOMAIN served : sub[served[t]] = i
                          THEN rows[CHOOSE t \in DOMAIN served : sub[served[t]] = i] ELSE did[i]]
             /\ everHard' = (everHard \/ \E t \in DOMAIN rows : rows[t].hard > 0)
             /\ everDone' = (everDone \/ \E t \in DOMAIN rows : rows[t].requests > 0)
  /\ group' = [group EXCEPT ![p] = "ended"]
  /\ UNCHANGED <<stage, args, files, job, batch, next, lost, summary, anyErrors, anyRequests, points, exit>>

\* A worker that panics takes its group with it: the process, in main's thread;
\* in a thread of its own, only the group's statistics, with what its workers
\* had put down before one of them picked a scenario without a request.
GroupPanics(p) ==
  /\ stage = "running" /\ group[p] = "running"
  /\ MayPanic(SubPlan(p))
  /\ lost' \in IF MustPanic(SubPlan(p)) THEN {Zero} ELSE Possible("Request")
  /\ group' = [group EXCEPT ![p] = "panicked"]
  /\ IF Cardinality(Active) = 1 THEN Exit(101) ELSE UNCHANGED <<stage, exit>>
  /\ UNCHANGED <<args, files, job, batch, next, tasks, did, everHard, everDone, summary,
                 anyErrors, anyRequests, points>>

\* run_plan joins HTTP, SSE and WS in this order.
Collected == tasks["http"] \o tasks["sse"] \o tasks["ws"]

Join ==
  /\ stage = "running" /\ \A p \in DOMAIN group : group[p] # "running"
  /\ summary' = Merge(Collected)
  /\ stage' = "merged"
  /\ UNCHANGED <<args, files, job, batch, next, group, tasks, did, everHard, everDone, lost,
                 anyErrors, anyRequests, points, exit>>

-----------------------------------------------------------------------------
(* The report *)

\* pick_latency_source: a plan of SSE or WebSocket scenarios only has its own
\* samples for a headline, those of broadcasts first; the rest has `latency'.
Headline ==
  LET of(axis) == SumFunction([k \in DOMAIN summary.rows |-> summary.rows[k][axis]])
      prefer(axis, other) == IF of(axis) > 0 THEN [label |-> axis, samples |-> of(axis)]
                             ELSE [label |-> other, samples |-> of(other)]
  IN CASE Active = {"sse"} -> prefer("sse_broadcast", "gap")
       [] Active = {"ws"} -> prefer("ws_broadcast", "rtt")
       [] OTHER -> [label |-> "latency", samples |-> summary.total.latency]

\* The report names row k after scenario k of the dispatched plan and gives the
\* plan's rates for the rate of the run.
RowNamed(k) == IF k \in DOMAIN summary.rows THEN summary.rows[k] ELSE Zero
ReportedRate == job[batch[1]].rate

\* The file or the terminal cannot be written: the scenarios left are not run.
RenderFails ==
  /\ stage = "merged" /\ args.verb \in {"bare", "run"} /\ Exit(2)
  /\ UNCHANGED <<args, files, job, Idle>>

\* A wrong Verdict: a run that did anything is a success.
VerdictOnRequests(errors, done) == IF done THEN 0 ELSE 1

\* Hard errors and soft ones make a bare run or a probe fail, only hard ones a
\* script's; so does a run in which nothing was done.
Verdict(errors, done) == IF errors \/ ~done THEN 1 ELSE 0

Rendered ==
  /\ stage = "merged" /\ ~Serial /\ args.verb # "curve"
  /\ LET total == summary.total
         errors == total.hard > 0 \/ (args.verb \in {"bare", "probe"} /\ total.soft > 0)
     IN Exit(Verdict(errors, total.requests > 0))
  /\ UNCHANGED <<args, files, job, Idle>>

ErrorsSoFar == anyErrors \/ summary.total.hard > 0
RequestsSoFar == anyRequests \/ summary.total.requests > 0

NextScenario ==
  /\ stage = "merged" /\ Serial
  /\ IF next < Len(job)
     THEN /\ anyErrors' = ErrorsSoFar /\ anyRequests' = RequestsSoFar
          /\ next' = next + 1 /\ stage' = "planned" /\ UNCHANGED exit
     ELSE /\ Exit(Verdict(ErrorsSoFar, RequestsSoFar))
          /\ UNCHANGED <<next, anyErrors, anyRequests>>
  /\ UNCHANGED <<args, files, job, batch, group, tasks, did, everHard, everDone, lost, summary, points>>

\* curve keeps of each step its rate, its p99, and how many of its requests had
\* errors: all of them when there were none.
CurvePoint ==
  /\ stage = "merged" /\ args.verb = "curve"
  /\ \E p99 \in IF summary.total.requests = 0 THEN {0} ELSE 1..3 :
       LET errors == summary.total.hard + summary.total.soft
       IN points' = Append(points, [offered |-> Max(args.rate), p99 |-> p99, of |-> summary.total.requests,
                                    errors |-> errors])
  /\ IF Len(points') = Len(Ladder) THEN stage' = "swept" /\ UNCHANGED <<args, job>>
     ELSE LET rate == Ladder[Len(points') + 1]
          IN /\ args' = [args EXCEPT !.rate = {rate}]
             /\ job' = [job EXCEPT ![1].rate = Constant(rate)]
             /\ stage' = "planned"
  /\ UNCHANGED <<files, batch, next, group, tasks, did, everHard, everDone, lost, summary,
                 anyErrors, anyRequests, exit>>

\* detect_knee: the first step after the baseline whose p99 is over twice that
\* of the baseline, or of whose requests one in a hundred failed.
OverTheKnee(point) ==
  \/ point.p99 > 2 * Max({points[1].p99, 1})
  \/ point.of = 0 \/ 100 * point.errors >= point.of
Knee == LET over == {k \in 2..Len(points) : OverTheKnee(points[k])}
        IN IF over = {} THEN Nothing ELSE {Min(over)}

\* The archive gets the steps as its runs and an empty summary; with or without
\* a knee the exit code is zero.
Swept ==
  /\ stage = "swept"
  /\ summary' = Merge(<<>>)
  /\ Exit(0) \/ Exit(2)
  /\ UNCHANGED <<args, files, job, batch, next, group, tasks, did, everHard, everDone, lost,
                 anyErrors, anyRequests, points>>

Bare == Quickstart \/ BuildFails \/ BuildFromUrl \/ BuildFromRequestFile \/ BuildFromRequestDir

RunsNext ==
  \/ Bare \/ DryRun
  \/ Probe \/ Curve \/ CurvePoint \/ Swept
  \/ Dispatch \/ Spawn \/ Join \/ RenderFails \/ Rendered \/ NextScenario
  \/ \E p \in DOMAIN StepsOf : GroupEnds(p) \/ GroupPanics(p)

RunsInit ==
  /\ stage = "start" /\ exit = 0 /\ files = <<>> /\ job = <<>> /\ batch = <<>> /\ next = 1
  /\ args = [verb |-> "none", rate |-> Nothing, saturate |-> FALSE, parallel |-> FALSE, http2 |-> FALSE]
  /\ group = [p \in DOMAIN StepsOf |-> "off"] /\ tasks = [p \in DOMAIN StepsOf |-> <<>>]
  /\ did = <<>> /\ everHard = FALSE /\ everDone = FALSE /\ lost = Zero
  /\ points = <<>> /\ summary = Merge(<<>>) /\ anyErrors = FALSE /\ anyRequests = FALSE

-----------------------------------------------------------------------------
(* Properties *)

(* The plan is that of the request files: each request is its file's, and the *)
(* scenarios of a directory share the whole of --rate, whatever their weights.*)
PlanIsTheFiles ==
  /\ \A k \in DOMAIN files : ReadAsWritten(files[k].text, files[k].parsed)
  /\ stage = "planned" /\ files # <<>> /\ args.rate # Nothing /\ ~args.saturate =>
       SumFunction([k \in DOMAIN job |-> job[k].rate.n]) = Max(args.rate)

\* The kinds of steps in the scenarios of the dispatch.
KindsRun == UNION {Range(job[i].steps) : i \in Range(batch)}

(* The report accounts for the run: its totals are what was put down for the  *)
(* scenarios of the dispatch by the groups that ended, in whatever order they *)
(* did; with one protocol row k is what was put down for scenario k; in a run *)
(* of one kind of step the headline has all samples of that kind and no other,*)
(* one for every operation where each has one; and a curve has no knee only   *)
(* where the server answered at every step but the first.                     *)
ReportIsTheRun ==
  /\ stage = "merged" =>
       /\ summary.total = TotalsOf(AddAll([i \in DOMAIN did |-> did[i]]))
       /\ Cardinality(Active) = 1 =>
            \A k \in DOMAIN batch : RowNamed(k) = did[batch[k]]
       /\ Cardinality(Active) = 1 =>
            \A kind \in KindsRun : KindsRun = {kind} =>
              /\ Headline.samples = SumFunction([i \in DOMAIN did |-> did[i][AxisOf(kind)]])
              /\ kind \in SampledEach => Headline.samples = summary.total.requests
  /\ stage = "swept" /\ Knee = Nothing =>
       everDone /\ \A k \in 2..Len(points) : points[k].errors < points[k].of

(* Exit code zero of a bare run, a probe or a script's run says that          *)
(* something was done and that no hard error was put down for any scenario,   *)
(* in whichever dispatch of the run, by a group that ended; see               *)
(* HardErrorsFail for one that panicked.                                      *)
ExitZeroIsClean ==
  (stage = "exited" /\ exit = 0 /\ job # <<>> /\ args.verb # "curve") => everDone /\ ~everHard

(* "hard transport errors (connect/read/write/timeout/keepup) or zero         *)
(* operations completed -> exit 1" (main.rs:714): also when the worker that   *)
(* met the error belongs to a group that panics later.                        *)
HardErrorsFail ==
  (stage = "exited" /\ args.verb = "run" /\ (everHard \/ lost.hard > 0)) => exit # 0

(* "with protocol-specific extras ... preserved per scenario" (main): row k   *)
(* of the report is what scenario k did, also when the plan mixes protocols.  *)
RowsAreTheScenarios ==
  stage = "merged" /\ (\A p \in DOMAIN group : group[p] # "panicked") =>
    \A k \in DOMAIN batch : RowNamed(k) = did[batch[k]]

(* "leave None and let the dispatcher pick up the per-scenario RateProfile"   *)
(* (main): an HTTP group whose scenario has a constant rate is paced.         *)
RatesReachTheBackend ==
  (stage = "running" /\ args.verb = "run" /\ "http" \in Active) =>
    (job[SubPlan("http")[1]].rate.kind = "Constant" => Pace("http") # Nothing)

=============================================================================
