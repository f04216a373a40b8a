------------------------------- MODULE Script -------------------------------
(* A Rhai script and the plan made of it. The script's calls build shared     *)
(* builder objects (Arc<Mutex<State>>): a step of a scenario is a reference   *)
(* to one, and the loader takes its state out when it compiles the step. The  *)
(* loader looks at the first URL, checks the script as a whole, and compiles  *)
(* scenario after scenario against one registry of variables.                 *)
EXTENDS Naturals, Sequences, FiniteSets, SequencesExt, FiniteSetsExt, Functions

CONSTANTS Chains,       \* the builder expressions a script may write
          Names,        \* of variables
          Weights, Rates, Saturates,
          MaxBuilders, MaxScenarios, MaxSteps, MaxSlots,
          U32           \* how many values a u32 has (2^32 in the code)

\* The loader's place in the script, what failed it, the global settings, the
\* builders by address, the scenarios, the registry; the builders as they were
\* when the script ended, the target, the plan so far.
VARIABLES phase, failure, root, heap, scenarios, slots, scripted, target, plan

scriptVars == <<phase, failure, root, heap, scenarios, slots, scripted, target, plan>>

None == {}                   \* an Option is a set of at most one value
Unset == [rate |-> None, saturate |-> None, duration |-> FALSE]
Fanouts == {"SseFanout", "WsFanout"}

-----------------------------------------------------------------------------
(* The builders *)

\* What a builder holds. In a builder that was never called, as in one whose
\* state was taken, nothing is set (Default).
Blank(kind) == [kind |-> kind, host |-> "", count |-> 0, trigger |-> FALSE,
                body |-> "none", types |-> 0, reads |-> "none", into |-> {}]

\* A count is an i64 cast to u32 and is at least one.
Clamp(n) == IF n < 1 \/ n % U32 = 0 THEN 1 ELSE n % U32

Request(host) == [Blank("Request") EXCEPT !.host = host, !.count = 1]

SseHold(host, n)   == [Blank("SseHold") EXCEPT !.host = host, !.count = Clamp(n)]
SseStorm(host, n)  == [SseHold(host, n) EXCEPT !.kind = "SseReconnectStorm"]
SseFanout(host, n) == [SseHold(host, n) EXCEPT !.kind = "SseFanout"]
WsEchoRtt(host, n) == [Blank("WsEchoRtt") EXCEPT !.host = host, !.count = Clamp(n)]
WsHold(host, n)    == [WsEchoRtt(host, n) EXCEPT !.kind = "WsHold"]
WsPush(host, n)    == [WsEchoRtt(host, n) EXCEPT !.kind = "WsServerPushRtt"]
WsFanout(host, n)  == [WsEchoRtt(host, n) EXCEPT !.kind = "WsFanout"]

TriggerUrl(b) == [b EXCEPT !.trigger = TRUE]
ColdConnect(b) == [b EXCEPT !.kind = "HttpColdConnect"]
ExtractHeader(b, slot) == [b EXCEPT !.into = @ \cup {slot}]

\* header() adds a Content-Type whatever is there; json() only if none is.
ContentType(b) == [b EXCEPT !.types = @ + 1]
Text(b, name) == [b EXCEPT !.body = IF name = "none" THEN "raw" ELSE "template", !.reads = name]
BodyFile(b) == [b EXCEPT !.body = "raw", !.reads = "none"]
Json(b, name) == [b EXCEPT !.body = "template", !.reads = name,
                           !.types = IF @ = 0 THEN 1 ELSE @]

-----------------------------------------------------------------------------
(* The registry of variables *)

Has(registry, name) == name \in Range(registry)

\* A wrong Allocate: every use of a name has a slot of its own.
AllocateAnew(registry, name) == Append(registry, name)

Allocate(registry, name) == IF Has(registry, name) THEN registry ELSE Append(registry, name)

SlotOf(registry, name) == CHOOSE s \in DOMAIN registry : registry[s] = name
TooMany(registry, name) == ~Has(registry, name) /\ Len(registry) >= MaxSlots

-----------------------------------------------------------------------------
(* The script's calls. Those on different objects commute: the model takes   *)
(* slots and builders first, then the scenarios, then the settings.           *)

\* The engine lives in load_script only: it goes with all that it holds.
Drop == /\ root' = Unset /\ scripted' = <<>>
        /\ heap' = <<>> /\ scenarios' = <<>> /\ slots' = <<>>

Fail(error) ==
  /\ phase' = "failed" /\ failure' = error /\ target' = "none" /\ plan' = <<>>
  /\ Drop

\* A call that raises: an unset env() variable, a rate, duration, transport,
\* correlate, mode or heartbeat_frame that does not parse, a body_file that
\* cannot be read, a pause; or the text is not a script.
CallFails ==
  /\ phase \in {"builders", "body", "settings"}
  /\ \E error \in {"Parse", "Eval", "MissingEnv"} : Fail(error)

Slot(name) ==
  /\ phase = "builders" /\ heap = <<>>
  /\ IF TooMany(slots, name) THEN Fail("Eval")
     ELSE /\ slots' = Allocate(slots, name)
          /\ UNCHANGED <<phase, failure, root, heap, scenarios, scripted, target, plan>>

Build(chain) ==
  /\ phase = "builders" /\ Len(heap) < MaxBuilders
  /\ chain.into \subseteq DOMAIN slots             \* a handle comes from slot()
  /\ heap' = Append(heap, chain)
  /\ UNCHANGED <<phase, failure, root, scenarios, slots, scripted, target, plan>>

StepsWritten == MapThenSumSet(LAMBDA i : Len(scenarios[i].steps), DOMAIN scenarios)

\* The scenario is pushed before its body runs.
Scenario(weight) ==
  /\ phase \in {"builders", "body"} /\ Len(scenarios) < MaxScenarios
  /\ scenarios' = Append(scenarios, [weight |-> weight, rate |-> None, steps |-> <<>>])
  /\ phase' = "body"
  /\ UNCHANGED <<failure, root, heap, slots, scripted, target, plan>>

\* s.step(b), s.rate(r) and s.saturate(n) act on the scenario whose body runs.
InBody(field, value) ==
  /\ phase = "body"
  /\ scenarios' = [scenarios EXCEPT ![Len(scenarios)][field] = value]
  /\ UNCHANGED <<phase, failure, root, heap, slots, scripted, target, plan>>

Step(b) == StepsWritten < MaxSteps /\ InBody("steps", Append(Last(scenarios).steps, b))
ScenarioRate(r) == InBody("rate", {[kind |-> "Constant", n |-> r]})
ScenarioSaturate(n) == InBody("rate", {[kind |-> "Saturate", n |-> Max({n, 1})]})

Setting(field, value) ==
  /\ phase \in {"builders", "body", "settings"}
  /\ root' = [root EXCEPT ![field] = value]
  /\ phase' = "settings"
  /\ UNCHANGED <<failure, heap, scenarios, slots, scripted, target, plan>>

GlobalRate(r) == root.rate = None /\ Setting("rate", {r})
GlobalSaturate(n) == root.saturate = None /\ Setting("saturate", {Max({n, 1})})
Duration == ~root.duration /\ Setting("duration", TRUE)

-----------------------------------------------------------------------------
(* The loader *)

\* The first step of the first scenario that has one: every step the script
\* can write names a URL.
Wired == SelectSeq(scenarios, LAMBDA s : s.steps # <<>>)

\* parse_target_strict, before the script is checked as a whole.
PeekTarget ==
  /\ phase \in {"builders", "body", "settings"}
  /\ LET host == IF Wired = <<>> THEN "none" ELSE heap[Wired[1].steps[1]].host
     IN CASE host = "templated" -> Fail("TemplatedHost")
          [] host = "invalid" -> Fail("InvalidUrl")
          [] OTHER -> /\ target' = host
                      /\ scripted' = heap
                      /\ phase' = "peeked"
                      /\ UNCHANGED <<failure, root, heap, scenarios, slots, plan>>

RateConflict == root.rate # None /\ \E i \in DOMAIN scenarios : scenarios[i].rate # None

Finalize ==
  /\ phase = "peeked"
  /\ CASE scenarios = <<>> -> Fail("NoScenarios")
       [] scenarios # <<>> /\ ~root.duration -> Fail("MissingDuration")
       [] scenarios # <<>> /\ root.duration /\ RateConflict -> Fail("ConflictingRate")
       [] OTHER -> /\ phase' = "compiling"
                   /\ UNCHANGED <<failure, root, heap, scenarios, slots, scripted, target, plan>>

\* A scenario's share of the global rate: by weight among the scenarios that
\* have one, evenly when none has.
Weighted == {i \in DOMAIN scenarios : scenarios[i].weight # None}
TotalWeight == MapThenSumSet(LAMBDA i : Max(scenarios[i].weight), Weighted)
Scaled(rate, i) ==
  IF Weighted = {} THEN rate \div Len(scenarios)
  ELSE IF i \notin Weighted \/ TotalWeight = 0 THEN 0
  ELSE (rate * Max(scenarios[i].weight)) \div TotalWeight

ResolveRate(i) ==
  IF scenarios[i].rate # None THEN CHOOSE rate \in scenarios[i].rate : TRUE
  ELSE IF root.rate # None THEN [kind |-> "Constant", n |-> Scaled(Max(root.rate), i)]
  ELSE [kind |-> "Saturate", n |-> IF root.saturate = None THEN 50 ELSE Max(root.saturate)]

\* A template that reads a variable takes its slot from the registry.
Compiled(b, registry) ==
  [kind |-> b.kind, host |-> b.host, count |-> b.count, trigger |-> b.trigger, body |-> b.body,
   types |-> b.types, into |-> b.into,
   slot |-> IF b.reads = "none" THEN 0 ELSE SlotOf(registry, b.reads)]

\* compile_step: the state is taken out of the builder the step refers to.
CompileStep(so_far, ref) ==
  LET b == so_far.heap[ref]
      registry == IF b.reads = "none" THEN so_far.slots ELSE Allocate(so_far.slots, b.reads)
      bad == \/ b.kind \in Fanouts /\ ~b.trigger
             \/ b.reads # "none" /\ TooMany(so_far.slots, b.reads)
  IN IF so_far.bad \/ bad THEN [so_far EXCEPT !.bad = TRUE]
     ELSE [bad |-> FALSE,
           heap |-> [so_far.heap EXCEPT ![ref] =
                       Blank(IF b.kind = "HttpColdConnect" THEN "Request" ELSE b.kind)],
           slots |-> registry,
           steps |-> Append(so_far.steps, Compiled(b, registry))]

CompileScenario ==
  /\ phase = "compiling" /\ Len(plan) < Len(scenarios)
  /\ LET i == Len(plan) + 1
         start == [bad |-> FALSE, heap |-> heap, slots |-> slots, steps |-> <<>>]
         end == FoldLeft(CompileStep, start, scenarios[i].steps)
     IN IF end.bad THEN Fail("Template")
        ELSE /\ heap' = end.heap /\ slots' = end.slots
             /\ plan' = Append(plan, [steps |-> end.steps, rate |-> ResolveRate(i)])
             /\ UNCHANGED <<phase, failure, root, scenarios, scripted, target>>

Loaded ==
  /\ phase = "compiling" /\ Len(plan) = Len(scenarios)
  /\ IF target = "none" THEN Fail("NoRequestSteps")
     ELSE phase' = "loaded" /\ Drop /\ UNCHANGED <<failure, target, plan>>

ScriptNext ==
  \/ CallFails
  \/ \E name \in Names : Slot(name)
  \/ \E chain \in Chains : Build(chain)
  \/ \E weight \in {{w} : w \in Weights} \cup {None} : Scenario(weight)
  \/ \E b \in DOMAIN heap : Step(b)
  \/ \E r \in Rates : ScenarioRate(r) \/ GlobalRate(r)
  \/ \E n \in Saturates : ScenarioSaturate(n) \/ GlobalSaturate(n)
  \/ Duration
  \/ PeekTarget \/ Finalize \/ CompileScenario \/ Loaded

ScriptInit ==
  /\ phase = "builders" /\ failure = "none" /\ root = Unset
  /\ heap = <<>> /\ scenarios = <<>> /\ slots = <<>> /\ scripted = <<>>
  /\ target = "none" /\ plan = <<>>

-----------------------------------------------------------------------------
(* Properties *)

Uses(b) == Cardinality({at \in (1..MaxScenarios) \X (1..MaxSteps) :
                          /\ at[1] \in DOMAIN scenarios
                          /\ at[2] \in DOMAIN scenarios[at[1]].steps
                          /\ scenarios[at[1]].steps[at[2]] = b})

AsScripted(step, b) ==
  /\ \A field \in {"kind", "host", "count", "trigger", "body", "types", "into"} :
       step[field] = scripted[b][field]
  /\ IF step.slot = 0 THEN scripted[b].reads = "none" ELSE slots[step.slot] = scripted[b].reads

(* A step whose builder is used once is compiled as the script left it, after *)
(* the loader has looked into builders for the target and has taken others    *)
(* apart; the target is where the first step goes; and a template reads the   *)
(* very slot that an extraction under that name fills.                        *)
StepsAreTheScripts ==
  phase = "compiling" =>
    /\ \A i \in DOMAIN plan : \A j \in DOMAIN plan[i].steps :
         LET b == scenarios[i].steps[j] IN Uses(b) = 1 => AsScripted(plan[i].steps[j], b)
    /\ \A i \in DOMAIN plan : plan[i].steps # <<>> =>
         \E k \in 1..i : plan[k].steps # <<>> /\ plan[k].steps[1].host = target
    /\ IsInjective(slots)

(* The scenarios' rates add up to the rate() of the script, whichever of them *)
(* have weights, unless all the weights are zero.                             *)
SharesAddUp ==
  phase = "compiling" /\ Len(plan) = Len(scenarios) /\ root.rate # None
    /\ (Weighted = {} \/ TotalWeight > 0)
  => MapThenSumSet(LAMBDA i : plan[i].rate.n, DOMAIN plan) = Max(root.rate)

(* "by the time `s.step(req)` runs, the originating `req` temporary has       *)
(* already been consumed, so no sharing matters" (StepSource): every step is  *)
(* what the script built, also of a builder that is added twice.              *)
EveryStepIsTheScripts ==
  phase = "compiling" =>
    \A i \in DOMAIN plan : \A j \in DOMAIN plan[i].steps :
      AsScripted(plan[i].steps[j], scenarios[i].steps[j])

=============================================================================
