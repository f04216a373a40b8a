----------------------------- MODULE Comparisons -----------------------------
(* `zerobench compare A B` over two result.json files, and `zerobench diff`    *)
(* over two reports in JSON: both say how the second measurement differs from *)
(* the first and exit with 1 when it is worse by more than was allowed.       *)
(* compare resamples the runs when both sides have three or more, so that its *)
(* verdict may depend on the resamples drawn: here any confidence interval    *)
(* whose bounds are differences of resampled means.                           *)
EXTENDS Integers, Sequences, FiniteSets, SequencesExt, FiniteSetsExt

CONSTANTS Exports,      \* the measurements there are
          Percents,     \* thresholds, in percent
          MaxP          \* p-values are 0..MaxP, MaxP for certainty

\* An export is [schema, whole, runs, hist]: a measurement as a whole, its runs,
\* and the values and counts of its histogram, increasing, in the histlog beside
\* it (empty when there is none). A measurement is [rate, lat, native, requests,
\* errors], `native' the latency of a protocol of its own, at most one.

\* The verb, its two inputs and thresholds, its state, the thresholds that were
\* crossed, what it printed of the two distributions, its exit code.
VARIABLES verb, inputs, thresholds, crossed, printed, code

comparisonVars == <<verb, inputs, thresholds, crossed, printed, code>>

-----------------------------------------------------------------------------
(* Measurements *)

\* p90 is treated as p50 is, p99.9 and p99.99 as p99.
Metrics == {"rate", "p50", "p99", "max", "error_rate"}
IncreaseIsBad(metric) == metric # "rate"

\* The error rate in thousandths.
ErrorRate(m) == IF m.requests = 0 THEN 0 ELSE (1000 * m.errors) \div m.requests
Value(m, lat, metric) ==
  CASE metric = "rate" -> m.rate
    [] metric = "error_rate" -> ErrorRate(m)
    [] OTHER -> lat[metric]

ExtractAggregate(export, metric) == Value(export.whole, export.whole.lat, metric)
Extract(run, metric) ==
  Value(run, IF run.native = {} THEN run.lat ELSE CHOOSE lat \in run.native : TRUE, metric)

-----------------------------------------------------------------------------
(* compare: the statistical gate *)

Bootstraps(a, b) == Len(a.runs) >= 3 /\ Len(b.runs) >= 3

\* The values that count for a metric.
Samples(a, b, side, metric) ==
  IF Bootstraps(a, b) THEN [i \in DOMAIN side.runs |-> Extract(side.runs[i], metric)]
  ELSE <<ExtractAggregate(side, metric)>>

Total(values) == FoldSeq(LAMBDA x, y : x + y, 0, values)
Resampled(values) == {Total([i \in DOMAIN values |-> values[f[i]]]) : f \in [DOMAIN values -> DOMAIN values]}

\* compare_metric: the two means, and the intervals that there may be, all times
\* the number of samples of both sides.
Compared(a, b, metric) ==
  LET as == Samples(a, b, a, metric)
      bs == Samples(a, b, b, metric)
      differences == {sums[2] * Len(as) - sums[1] * Len(bs) : sums \in Resampled(as) \X Resampled(bs)}
  IN [from |-> Total(as) * Len(bs), to |-> Total(bs) * Len(as),
      intervals |-> IF Bootstraps(a, b)
                    THEN {i \in differences \X differences : i[1] <= i[2]} ELSE {}]

Beyond(difference, from, percent) == 100 * difference > percent * from

\* A wrong RegressedBeyond: a higher rate counts as a regression.
RegressedByRise(r, metric, percent, interval) ==
  /\ r.from # 0
  /\ Beyond(IF interval = <<>> THEN r.to - r.from ELSE interval[1], r.from, percent)

\* regressed_beyond, for one of the intervals (a pair) or without one.
RegressedBeyond(r, metric, percent, interval) ==
  LET bound == IF interval = <<>> THEN r.to - r.from
               ELSE IF IncreaseIsBad(metric) THEN interval[1] ELSE interval[2]
  IN /\ r.from # 0          \* from zero to zero is nought percent, to more has none
     /\ Beyond(IF IncreaseIsBad(metric) THEN bound ELSE -bound, r.from, percent)

Verdicts(r, metric, percent) ==
  IF r.intervals = {} THEN {RegressedBeyond(r, metric, percent, <<>>)}
  ELSE {RegressedBeyond(r, metric, percent, i) : i \in r.intervals}

-----------------------------------------------------------------------------
(* compare: the distributions *)

Count(hist) == Total([i \in DOMAIN hist |-> hist[i][2]])

\* The walk that the two tests share: the buckets of both sides in the order of
\* their values, all those of one value at once.
WalkStep(walk, a, b) ==
  LET va == IF walk.ia <= Len(a) THEN {a[walk.ia][1]} ELSE {}
      vb == IF walk.ib <= Len(b) THEN {b[walk.ib][1]} ELSE {}
      v == Min(va \cup vb)
      ha == IF v \in va THEN a[walk.ia][2] ELSE 0
      hb == IF v \in vb THEN b[walk.ib][2] ELSE 0
  IN IF va \cup vb = {} THEN walk
     ELSE [ia |-> walk.ia + (IF v \in va THEN 1 ELSE 0),
           ib |-> walk.ib + (IF v \in vb THEN 1 ELSE 0),
           steps |-> Append(walk.steps,
                       LET before == IF walk.steps = <<>> THEN [m |-> 0, all |-> 0] ELSE Last(walk.steps)
                       IN [h |-> ha + hb, m |-> before.m + ha, all |-> before.all + ha + hb])]

MergeWalk(a, b) ==
  FoldLeft(LAMBDA walk, k : WalkStep(walk, a, b), [ia |-> 1, ib |-> 1, steps |-> <<>>],
           [k \in 1..(Len(a) + Len(b)) |-> k]).steps

Distance(x, y) == IF x >= y THEN x - y ELSE y - x

\* ks_d_statistic: the largest gap of the two distribution functions, times the
\* counts of both.
KsStatistic(a, b) ==
  LET steps == MergeWalk(a, b)
  IN Max({Distance(steps[k].m * Count(b), (steps[k].all - steps[k].m) * Count(a)) : k \in DOMAIN steps} \cup {0})

\* ad_test: the terms of the sum, which leaves out the last value.
AdTerms(a, b) == LET steps == MergeWalk(a, b) IN SubSeq(steps, 1, Len(steps) - 1)

\* holm_bonferroni: the i-th smallest p-value times the number not smaller, at
\* least the one before it, at most one; a tie keeps its order.
NotAfter(ps, i, j) == ps[i] < ps[j] \/ (ps[i] = ps[j] /\ i <= j)
RankOrder(ps) ==
  [rank \in DOMAIN ps |->
     CHOOSE i \in DOMAIN ps : Cardinality({j \in DOMAIN ps : NotAfter(ps, j, i)}) = rank]

\* A wrong HolmStep: a later p-value may get below the one before it.
HolmStepByItself(ps, order, done, rank) ==
  Append(done, Min({ps[order[rank]] * (Len(ps) - rank + 1), MaxP}))

HolmStep(ps, order, done, rank) ==
  Append(done, Max({Min({ps[order[rank]] * (Len(ps) - rank + 1), MaxP})}
                   \cup (IF done = <<>> THEN {} ELSE {Last(done)})))

HolmBonferroni(ps) ==
  LET order == RankOrder(ps)
      ranked == FoldLeft(LAMBDA done, rank : HolmStep(ps, order, done, rank), <<>>,
                         [k \in DOMAIN ps |-> k])
  IN [i \in DOMAIN ps |-> ranked[CHOOSE rank \in DOMAIN ps : order[rank] = i]]

-----------------------------------------------------------------------------
(* diff: the report *)

\* latency_or_rps_delta: a change from zero is a regression for what should be
\* low. Only rps, p99 and beyond, and the errors count: the others are demoted.
DiffRegression(a, b, metric, percent) ==
  LET x == ExtractAggregate(a, metric)
      y == ExtractAggregate(b, metric)
  IN /\ metric \notin {"p50", "max"}
     /\ IF metric = "error_rate" THEN b.whole.errors > a.whole.errors
        ELSE IF x = 0 THEN IncreaseIsBad(metric) /\ y > 0
        ELSE Beyond(IF IncreaseIsBad(metric) THEN y - x ELSE x - y, x, percent)

-----------------------------------------------------------------------------
(* The verbs *)

NoTests == [tests |-> FALSE, ks |-> 0, terms |-> <<>>, ps |-> <<>>, adjusted |-> <<>>]

\* compare needs thresholds for a gate; diff has them for rps and for p99.
ThresholdsOf(v) ==
  IF v = "compare" THEN UNION {[some -> Percents] : some \in SUBSET {"rate", "p99", "error_rate"}}
  ELSE [{"rate", "p99"} -> Percents]

Compare(v) ==
  /\ verb = "none"
  /\ verb' = v
  /\ \E a, b \in Exports : inputs' = <<a, b>>
  /\ thresholds' \in ThresholdsOf(v)
  /\ UNCHANGED <<crossed, printed, code>>

\* A file that is missing or does not parse; diff also wants version 1 of both
\* (compare only warns), compare also a --regress-on that parses.
InputFails ==
  /\ verb \in {"compare", "diff"} /\ code = {}
  /\ code' = {2}
  /\ UNCHANGED <<verb, inputs, thresholds, crossed, printed>>

\* The two tests come first and are printed only, with p-values that are not
\* modelled; then the thresholds are gone through.
RunCompare ==
  /\ verb = "compare" /\ code = {}
  /\ LET a == inputs[1]
         b == inputs[2]
     IN /\ \E verdict \in [DOMAIN thresholds -> BOOLEAN] :
             /\ \A metric \in DOMAIN thresholds :
                  verdict[metric] \in Verdicts(Compared(a, b, metric), metric, thresholds[metric])
             /\ crossed' = {metric \in DOMAIN thresholds : verdict[metric]}
        /\ IF a.hist = <<>> \/ b.hist = <<>> THEN UNCHANGED printed
           ELSE \E ps \in [1..2 -> 0..MaxP] :
                  printed' = [tests |-> TRUE, ks |-> KsStatistic(a.hist, b.hist),
                              terms |-> AdTerms(a.hist, b.hist), ps |-> ps,
                              adjusted |-> HolmBonferroni(ps)]
  /\ code' = {IF crossed' # {} THEN 1 ELSE 0}
  /\ UNCHANGED <<verb, inputs, thresholds>>

RunDiff ==
  /\ verb = "diff" /\ code = {}
  /\ \A side \in {1, 2} : inputs[side].schema = 1
  /\ crossed' = {metric \in Metrics :
                   DiffRegression(inputs[1], inputs[2], metric,
                                  thresholds[IF metric = "rate" THEN "rate" ELSE "p99"])}
  /\ code' = {IF crossed' # {} THEN 1 ELSE 0}
  /\ UNCHANGED <<verb, inputs, thresholds, printed>>

ComparisonNext == Compare("compare") \/ Compare("diff") \/ InputFails \/ RunCompare \/ RunDiff

ComparisonInit ==
  /\ verb = "none" /\ inputs = <<>> /\ thresholds = <<>>
  /\ crossed = {} /\ printed = NoTests /\ code = {}

-----------------------------------------------------------------------------
(* Properties *)

Answered == code \in {{0}, {1}}

Worsening(metric, x, y) == IF IncreaseIsBad(metric) THEN y - x ELSE x - y

(* A threshold is crossed when every sample of the second side is worse than  *)
(* every one of the first by more than the threshold of the first's mean, and *)
(* is not when none is, whatever was resampled; a mean of zero has no such    *)
(* threshold.                                                                 *)
CompareFollowsTheRuns ==
  verb = "compare" /\ Answered =>
    \A metric \in DOMAIN thresholds :
      LET as == Samples(inputs[1], inputs[2], inputs[1], metric)
          bs == Samples(inputs[1], inputs[2], inputs[2], metric)
          worse(x, y) == 100 * Len(as) * Worsening(metric, x, y) > thresholds[metric] * Total(as)
      IN /\ Total(as) > 0 /\ (\A x \in Range(as), y \in Range(bs) : worse(x, y)) => metric \in crossed
         /\ (\A x \in Range(as), y \in Range(bs) : ~worse(x, y)) => metric \notin crossed

(* The two verbs, given the same measurements of fewer than three runs and    *)
(* the same thresholds, agree on rate and p99 unless the baseline is zero.    *)
VerbsAgree ==
  verb = "diff" /\ Answered /\ ~Bootstraps(inputs[1], inputs[2]) =>
    \A metric \in DOMAIN thresholds :
      LET r == Compared(inputs[1], inputs[2], metric)
      IN r.from # 0 => (metric \in crossed <=> TRUE \in Verdicts(r, metric, thresholds[metric]))

GatesFollowTheRuns == CompareFollowsTheRuns /\ VerbsAgree

UpTo(hist, v) == Total([i \in DOMAIN hist |-> IF hist[i][1] <= v THEN hist[i][2] ELSE 0])
At(hist, v) == Total([i \in DOMAIN hist |-> IF hist[i][1] = v THEN hist[i][2] ELSE 0])
ValuesOf(a, b) == {a[i][1] : i \in DOMAIN a} \cup {b[i][1] : i \in DOMAIN b}

\* What is counted at the value, and up to it.
Term(a, b, v) == [h |-> At(a, v) + At(b, v), m |-> UpTo(a, v), all |-> UpTo(a, v) + UpTo(b, v)]

\* Holm's procedure: reject while the smallest p-value left is below alpha over
\* the number of those left.
Rejects(ps, alpha, i) ==
  \A j \in DOMAIN ps :
    NotAfter(ps, j, i) => ps[j] * Cardinality({k \in DOMAIN ps : NotAfter(ps, j, k)}) < alpha

(* What compare prints of two histograms is what the tests are defined by:    *)
(* the largest gap of the distribution functions over all values, the counts  *)
(* at and up to each value but the largest, and adjusted p-values that are    *)
(* below a level exactly when the step-down procedure rejects at it.          *)
EvidenceIsExact ==
  printed.tests =>
    LET a == inputs[1].hist
        b == inputs[2].hist
        values == ValuesOf(a, b)
    IN /\ printed.ks = Max({Distance(UpTo(a, v) * Count(b), UpTo(b, v) * Count(a)) : v \in values})
       /\ Len(printed.terms) = Cardinality(values) - 1
       /\ \A v \in values \ {Max(values)} :
            printed.terms[Cardinality({u \in values : u <= v})] = Term(a, b, v)
       /\ \A alpha \in 1..MaxP, i \in DOMAIN printed.ps :
            printed.adjusted[i] < alpha <=> Rejects(printed.ps, alpha, i)

(* "RawDelta: crossed iff the raw delta_pct alone exceeds the threshold", and *)
(* a run that was clean and is not any more is beyond any percentage.         *)
ErrorsFromZeroGate ==
  verb = "compare" /\ Answered /\ "error_rate" \in DOMAIN thresholds =>
    (ExtractAggregate(inputs[1], "error_rate") = 0 /\ ExtractAggregate(inputs[2], "error_rate") > 0
       /\ ~Bootstraps(inputs[1], inputs[2])
     => "error_rate" \in crossed)

=============================================================================
