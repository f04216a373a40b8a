--------------------------------- MODULE Cli ---------------------------------
(* The command line as main takes it apart: a script goes through the loader  *)
(* and becomes a plan to run (Script, then Runs), a URL or request files      *)
(* become one at once, probe and curve have a plan of their own, and compare  *)
(* and diff read what earlier runs wrote (Comparisons). The measure verb has  *)
(* a module of its own (MeasureRun).                                          *)
EXTENDS Naturals, Sequences, FiniteSets

CONSTANTS Chains, Names, Weights, Rates, Saturates,            \* Script
          MaxBuilders, MaxScenarios, MaxSteps, MaxSlots, U32,
          RateArgs, Connections, Files, Entries, MaxFiles, MaxOps, Ladder, \* Runs
          Exports, Percents, MaxP                                   \* Comparisons

VARIABLES command,
          phase, failure, root, heap, scenarios, slots, scripted, target, plan,
          stage, args, files, job, batch, next, group, tasks, did, everHard, everDone, lost,
          summary, anyErrors, anyRequests, points, exit,
          verb, inputs, thresholds, crossed, printed, code

S == INSTANCE Script
R == INSTANCE Runs
C == INSTANCE Comparisons

\* The kinds of steps there are; what a script builds; and what compare and diff
\* read: a measurement of a report is of counts.
Kinds == UNION {R!StepsOf[p] : p \in DOMAIN R!StepsOf}
Hosts == {chain.host : chain \in Chains} \cup {""}
Builders == [kind : Kinds, host : Hosts, count : Nat, trigger : BOOLEAN,
             body : {"none", "raw", "template"}, types : Nat,
             reads : Names \cup {"none"}, into : SUBSET Nat]
Latencies == [p50 : Nat, p99 : Nat, max : Nat]
Histogram(h) ==
  h \in Seq(Nat \X Nat) /\ \A i, j \in DOMAIN h : i < j => h[i][1] < h[j][1]
Measurements == [rate : Nat, lat : Latencies, native : SUBSET Latencies, requests : Nat, errors : Nat]

ASSUME CliAssumption ==
  /\ Chains \subseteq Builders
  /\ MaxFiles \in Nat /\ MaxOps \in Nat /\ Percents \subseteq Nat /\ MaxP \in Nat
  /\ Ladder \in Seq(Nat) /\ Len(Ladder) >= 2           \* curve: "--steps must be >= 2"
  /\ \A e \in Exports : e.whole \in Measurements /\ e.runs \in Seq(Measurements) /\ Histogram(e.hist)

scriptVars == <<phase, failure, root, heap, scenarios, slots, scripted, target, plan>>
runVars == <<stage, args, files, job, batch, next, group, tasks, did, everHard, everDone, lost,
             summary, anyErrors, anyRequests, points, exit>>
comparisonVars == <<verb, inputs, thresholds, crossed, printed, code>>
vars == <<command, scriptVars, runVars, comparisonVars>>

Commands == {"run", "bare", "probe", "curve", "compare", "diff"}

Init == command \in Commands /\ S!ScriptInit /\ R!RunsInit /\ C!ComparisonInit

Load ==
  /\ command = "run" /\ stage = "start"
  /\ S!ScriptNext
  /\ UNCHANGED <<command, runVars, comparisonVars>>

\* run_script_sync works on the loaded plan; what its steps are in detail does
\* not matter to how they are dispatched.
Start ==
  /\ command = "run"
  /\ \/ /\ phase = "loaded"
        /\ R!RunScript([i \in DOMAIN plan |->
             [steps |-> [j \in DOMAIN plan[i].steps |-> plan[i].steps[j].kind], rate |-> plan[i].rate]])
     \/ phase = "failed" /\ R!ScriptFails
  /\ phase' = "taken" /\ plan' = <<>> /\ target' = "none" /\ failure' = "none"
  /\ UNCHANGED <<command, root, heap, scenarios, slots, scripted, comparisonVars>>

RunStep ==
  /\ command \notin {"compare", "diff"}
  /\ \/ command = "bare" /\ R!Bare
     \/ command = "probe" /\ R!Probe
     \/ command = "curve" /\ R!Curve
     \/ stage # "start" /\ R!RunsNext
  /\ UNCHANGED <<command, scriptVars, comparisonVars>>

CompareStep ==
  /\ \/ command \in {"compare", "diff"} /\ C!Compare(command)
     \/ verb # "none" /\ C!ComparisonNext
  /\ UNCHANGED <<command, scriptVars, runVars>>

Next == Load \/ Start \/ RunStep \/ CompareStep

Spec == Init /\ [][Next]_vars

-----------------------------------------------------------------------------
(* Properties *)

(* The plan is what was written: see Script for its steps and rates, Runs for *)
(* request files and weights.                                                 *)
PlanIsTheInputs == S!StepsAreTheScripts /\ S!SharesAddUp /\ R!PlanIsTheFiles

(* See Runs. *)
ReportIsTheRun == R!ReportIsTheRun

(* See Runs. *)
ExitZeroIsClean == R!ExitZeroIsClean

(* See Comparisons. *)
GatesFollowTheRuns == C!GatesFollowTheRuns

(* See Comparisons. *)
EvidenceIsExact == C!EvidenceIsExact

(* "Otherwise, leave None and let the dispatcher pick up the per-scenario     *)
(* RateProfile" (main.rs:681): see Runs.                                      *)
RatesReachTheBackend == R!RatesReachTheBackend

(* "protocol-specific extras ... preserved per scenario" (main.rs): see Runs. *)
RowsAreTheScenarios == R!RowsAreTheScenarios

(* "hard transport errors ... or zero operations completed -> exit 1"          *)
(* (main.rs:714): see Runs.                                                   *)
HardErrorsFail == R!HardErrorsFail

(* "so no sharing matters" (builders.rs): see Script.                         *)
EveryStepIsTheScripts == S!EveryStepIsTheScripts

(* "crossed iff the raw delta_pct alone exceeds the threshold" (compare.rs):  *)
(* see Comparisons.                                                           *)
ErrorsFromZeroGate == C!ErrorsFromZeroGate

=============================================================================
