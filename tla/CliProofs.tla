------------------------------ MODULE CliProofs ------------------------------
(* Proofs about Cli: the gates of compare and diff, the plan of a script, the *)
(* exit code, the report of a run, and what compare prints of the two         *)
(* distributions.                                                             *)
EXTENDS Cli, FoldLemmas, FiniteSetTheorems, SequenceTheorems, TLAPS

\* The sums of Runs and of Comparisons are those of FoldLemmas.
LEMMA RunsSum ==
    ASSUME NEW f
    PROVE  R!SumFunction(f) = SumFunctionOnSet(f, DOMAIN f)
  BY DEF R!SumFunction, R!SumFunctionOnSet, R!FoldFunctionOnSet, R!MapThenFoldSet,
         SumFunctionOnSet, FoldFunctionOnSet, MapThenFoldSet

LEMMA RunsCardinality ==
    ASSUME NEW T
    PROVE  R!Cardinality(T) = Cardinality(T)
  BY DEF R!Cardinality, Cardinality

LEMMA ComparisonsTotal ==
    ASSUME NEW f
    PROVE  C!Total(f) = SumFunctionOnSet(f, DOMAIN f)
  BY DEF C!Total, C!FoldSeq, C!FoldFunction, C!FoldFunctionOnSet, C!MapThenFoldSet,
         SumFunctionOnSet, FoldFunctionOnSet, MapThenFoldSet

-----------------------------------------------------------------------------
(* compare and diff *)

GateMetrics == {"rate", "p99", "error_rate"}

LEMMA ValueIsInt ==
    ASSUME NEW m \in Measurements, NEW lat \in Latencies, NEW metric \in GateMetrics
    PROVE  C!Value(m, lat, metric) \in Int
<1>1. m.rate \in Int /\ lat["p99"] \in Int /\ m.requests \in Nat /\ m.errors \in Nat
  BY DEF Measurements, Latencies
<1>2. C!ErrorRate(m) \in Int
  <2>1. CASE m.requests = 0
    BY <2>1 DEF C!ErrorRate
  <2>2. CASE m.requests # 0
    BY <1>1, <2>2 DEF C!ErrorRate
  <2> QED  BY <2>1, <2>2
<1> QED  BY <1>1, <1>2 DEF C!Value, GateMetrics

LEMMA SamplesAreInts ==
    ASSUME CliAssumption, NEW a \in Exports, NEW b \in Exports, NEW side \in {a, b},
           NEW metric \in GateMetrics
    PROVE  LET s == C!Samples(a, b, side, metric)
           IN /\ \E n \in Nat : n > 0 /\ DOMAIN s = 1..n /\ Len(s) = n
              /\ \A i \in DOMAIN s : s[i] \in Int
              /\ ~C!Bootstraps(a, b) => s = <<C!ExtractAggregate(side, metric)>>
<1> DEFINE s == C!Samples(a, b, side, metric)
<1>1. side.whole \in Measurements /\ side.runs \in Seq(Measurements)
  BY DEF CliAssumption
<1>2. CASE C!Bootstraps(a, b)
  <2>1. s = [i \in DOMAIN side.runs |-> C!Extract(side.runs[i], metric)]
    BY <1>2 DEF C!Samples
  <2>2. Len(side.runs) \in Nat /\ DOMAIN side.runs = 1..Len(side.runs) /\ Len(side.runs) > 0
    BY <1>1, <1>2 DEF C!Bootstraps
  <2>3. DOMAIN s = 1..Len(side.runs) /\ Len(s) = Len(side.runs)
    BY <2>1, <2>2
  <2>4. ASSUME NEW i \in DOMAIN side.runs PROVE C!Extract(side.runs[i], metric) \in Int
    <3>1. side.runs[i] \in Measurements
      BY <1>1, <2>2
    <3> DEFINE lat == IF side.runs[i].native = {} THEN side.runs[i].lat
                      ELSE CHOOSE l \in side.runs[i].native : TRUE
    <3>2. lat \in Latencies
      BY <3>1 DEF Measurements
    <3> HIDE DEF lat
    <3>3. C!Value(side.runs[i], lat, metric) \in Int
      BY <3>1, <3>2, ValueIsInt
    <3> QED  BY <3>3 DEF C!Extract, lat
  <2> QED  BY <1>2, <2>1, <2>2, <2>3, <2>4
<1>3. CASE ~C!Bootstraps(a, b)
  <2>1. s = <<C!ExtractAggregate(side, metric)>>
    BY <1>3 DEF C!Samples
  <2>2. side.whole.lat \in Latencies
    BY <1>1 DEF Measurements
  <2>3. C!ExtractAggregate(side, metric) \in Int
    BY <1>1, <2>2, ValueIsInt DEF C!ExtractAggregate
  <2> QED  BY <2>1, <2>3
<1> QED  BY <1>2, <1>3

LEMMA TotalOfOne ==
    ASSUME NEW x \in Int
    PROVE  C!Total(<<x>>) = x
<1> DEFINE s == <<x>>
           one == {1}
<1>1. IsFiniteSet(one) /\ Cardinality(one) = 1
  BY FS_Singleton
<1>2. DOMAIN s = one /\ \A i \in one : s[i] = x
  OBVIOUS
<1> HIDE DEF s, one
<1>3. SumFunctionOnSet(s, one) = x * Cardinality(one)
  BY ONLY <1>1, <1>2, x \in Int, SumConstant
<1>4. C!Total(s) = x
  BY <1>1, <1>2, <1>3, ComparisonsTotal
<1> QED  BY <1>4 DEF s

\* A sum of as many values of s as it has: of s itself, or of a resample.
Sampled(X, s) ==
  \E x : (\A i \in DOMAIN s : \E j \in DOMAIN s : x[i] = s[j]) /\ X = SumFunctionOnSet(x, DOMAIN s)

LEMMA ResamplesAreSampled ==
    ASSUME NEW s, NEW n \in Nat, DOMAIN s = 1..n
    PROVE  Sampled(C!Total(s), s) /\ \A X \in C!Resampled(s) : Sampled(X, s)
<1>1. Sampled(C!Total(s), s)
  BY ComparisonsTotal DEF Sampled
<1>2. ASSUME NEW X \in C!Resampled(s) PROVE Sampled(X, s)
  <2>1. PICK f \in [DOMAIN s -> DOMAIN s] : X = C!Total([i \in DOMAIN s |-> s[f[i]]])
    BY DEF C!Resampled
  <2> DEFINE x == [i \in DOMAIN s |-> s[f[i]]]
  <2>2. DOMAIN x = DOMAIN s /\ \A i \in DOMAIN s : \E j \in DOMAIN s : x[i] = s[j]
    OBVIOUS
  <2>3. X = SumFunctionOnSet(x, DOMAIN s)
    BY <2>1, <2>2, ComparisonsTotal
  <2> HIDE DEF x
  <2> QED  BY <2>2, <2>3 DEF Sampled
<1> QED  BY <1>1, <1>2

\* There is a resample: the runs themselves.
LEMMA ThereIsAResample ==
    ASSUME NEW s
    PROVE  C!Resampled(s) # {}
<1>1. [i \in DOMAIN s |-> i] \in [DOMAIN s -> DOMAIN s]
  OBVIOUS
<1> QED  BY <1>1 DEF C!Resampled

LEMMA Differs ==
    ASSUME NEW x \in Int, NEW y \in Int
    PROVE  x - y \in Int /\ y - x = -(x - y)
  OBVIOUS

LEMMA Cancels ==
    ASSUME NEW n \in Nat, n > 0, NEW a \in Int, NEW b \in Int, n * a <= n * b
    PROVE  a <= b
<1> SUFFICES ASSUME b + 1 <= a PROVE FALSE
  OBVIOUS
<1> DEFINE k == a - b
<1>1. k \in Nat /\ k >= 1 /\ a = b + k
  OBVIOUS
<1> HIDE DEF k
<1>2. n * a = n * b + n * k /\ n * b \in Int /\ n * k \in Int
  BY <1>1, Distributes
<1>3. n * k >= n
  BY <1>1
<1> QED  BY <1>2, <1>3

\* What every pair of samples differs by at least, so do their means, whatever
\* was resampled.
LEMMA SampledApart ==
    ASSUME NEW as, NEW n \in Nat, n > 0, DOMAIN as = 1..n, \A i \in 1..n : as[i] \in Int,
           NEW bs, NEW m \in Nat, m > 0, DOMAIN bs = 1..m, \A j \in 1..m : bs[j] \in Int,
           NEW X, Sampled(X, as), NEW Y, Sampled(Y, bs),
           NEW c \in Int, NEW d \in Int,
           \A i \in 1..n, j \in 1..m : d <= n * (c * (bs[j] - as[i]))
    PROVE  /\ X \in Int /\ Y \in Int
           /\ d * m <= c * (Y * n - X * m)
<1>1. PICK x : (\A i \in 1..n : \E j \in 1..n : x[i] = as[j]) /\ X = SumFunctionOnSet(x, 1..n)
  BY DEF Sampled
<1>2. PICK y : (\A i \in 1..m : \E j \in 1..m : y[i] = bs[j]) /\ Y = SumFunctionOnSet(y, 1..m)
  BY DEF Sampled
<1>3. (\A i \in 1..n : x[i] \in Int) /\ (\A j \in 1..m : y[j] \in Int)
  BY <1>1, <1>2
<1> DEFINE k == n * c
<1>4. k \in Int
  OBVIOUS
<1>5. \A i \in 1..n, j \in 1..m : d <= k * (y[j] - x[i])
  <2> SUFFICES ASSUME NEW i \in 1..n, NEW j \in 1..m PROVE d <= k * (y[j] - x[i])
    OBVIOUS
  <2>1. PICK ii \in 1..n : x[i] = as[ii]
    BY <1>1
  <2>2. PICK jj \in 1..m : y[j] = bs[jj]
    BY <1>2
  <2> DEFINE e == bs[jj] - as[ii]
  <2>5. as[ii] \in Int /\ bs[jj] \in Int
    OBVIOUS
  <2>3. d <= n * (c * e) /\ e \in Int /\ y[j] - x[i] = e
    <3>1. bs[jj] - as[ii] \in Int
      BY ONLY <2>5, Differs
    <3> QED  BY <2>1, <2>2, <3>1
  <2> HIDE DEF e
  <2>4. n * (c * e) = (n * c) * e
    BY <2>3
  <2> QED  BY <2>3, <2>4
<1>6. /\ IsFiniteSet(1..n) /\ Cardinality(1..n) = n
      /\ IsFiniteSet(1..m) /\ Cardinality(1..m) = m
  <2>1. \A q \in Nat : IsFiniteSet(1..q) /\ Cardinality(1..q) = q
    <3> SUFFICES ASSUME NEW q \in Nat PROVE IsFiniteSet(1..q) /\ Cardinality(1..q) = q
      OBVIOUS
    <3> QED  BY FS_Interval, 1 \in Int, q \in Int
  <2> QED  BY <2>1
<1> HIDE DEF k
<1>7. X \in Int /\ Y \in Int
  BY <1>1, <1>2, <1>3, <1>6, SumType
<1>8. d * m * n <= k * (n * Y - m * X)
  <2> DEFINE SS == 1..n
             TT == 1..m
  <2>1. /\ IsFiniteSet(SS) /\ IsFiniteSet(TT)
        /\ (\A i \in SS : x[i] \in Int) /\ (\A j \in TT : y[j] \in Int)
        /\ \A i \in SS, j \in TT : d <= k * (y[j] - x[i])
    BY <1>3, <1>5, <1>6
  <2>2. Cardinality(SS) = n /\ Cardinality(TT) = m /\ X = SumFunctionOnSet(x, SS) /\ Y = SumFunctionOnSet(y, TT)
    BY <1>1, <1>2, <1>6
  <2> HIDE DEF SS, TT
  <2>3. d * Cardinality(TT) * Cardinality(SS) <=
          k * (Cardinality(SS) * SumFunctionOnSet(y, TT) - Cardinality(TT) * SumFunctionOnSet(x, SS))
    BY ONLY <2>1, <1>4, d \in Int, MeansApart
  <2> QED  BY <2>2, <2>3
<1> DEFINE D == Y * n - X * m
<1>9. D \in Int /\ n * Y - m * X = D
  BY <1>7
<1> HIDE DEF D
<1>10. n * (d * m) <= n * (c * D)
  BY <1>8, <1>9 DEF k
<1>11. d * m <= c * D
  <2>1. d * m \in Int /\ c * D \in Int
    BY <1>9
  <2> QED  BY <1>10, <2>1, Cancels
<1> QED  BY <1>7, <1>11 DEF D

\* What compare's verdict on a threshold is about: a difference of two means.
LEMMA VerdictIsOfMeans ==
    ASSUME CliAssumption, NEW a \in Exports, NEW b \in Exports, NEW metric \in GateMetrics,
           NEW percent, NEW verdict \in C!Verdicts(C!Compared(a, b, metric), metric, percent)
    PROVE  LET as == C!Samples(a, b, a, metric)
               bs == C!Samples(a, b, b, metric)
               from == C!Total(as) * Len(bs)
           IN \E X, Y :
                /\ Sampled(X, as) /\ Sampled(Y, bs)
                /\ verdict <=>
                     /\ from # 0
                     /\ LET D == Y * Len(as) - X * Len(bs)
                        IN C!Beyond(IF C!IncreaseIsBad(metric) THEN D ELSE -D, from, percent)
<1> DEFINE as == C!Samples(a, b, a, metric)
           bs == C!Samples(a, b, b, metric)
           r == C!Compared(a, b, metric)
           differences == {sums[2] * Len(as) - sums[1] * Len(bs) :
                             sums \in C!Resampled(as) \X C!Resampled(bs)}
<1>1. /\ Sampled(C!Total(as), as) /\ \A X \in C!Resampled(as) : Sampled(X, as)
      /\ Sampled(C!Total(bs), bs) /\ \A Y \in C!Resampled(bs) : Sampled(Y, bs)
  <2>1. a \in {a, b} /\ b \in {a, b}
    OBVIOUS
  <2>2. PICK n \in Nat : DOMAIN as = 1..n
    BY <2>1, SamplesAreInts
  <2>3. PICK m \in Nat : DOMAIN bs = 1..m
    BY <2>1, SamplesAreInts
  <2> HIDE DEF as, bs
  <2> QED  BY <2>2, <2>3, ResamplesAreSampled
<1>2. /\ r.from = C!Total(as) * Len(bs) /\ r.to = C!Total(bs) * Len(as)
      /\ r.intervals = IF C!Bootstraps(a, b)
                       THEN {i \in differences \X differences : i[1] <= i[2]} ELSE {}
  BY DEF C!Compared
<1> HIDE DEF as, bs, r, differences
<1>3. CASE r.intervals = {}
  <2>1. verdict = C!RegressedBeyond(r, metric, percent, <<>>)
    BY <1>3 DEF C!Verdicts, r
  <2>2. verdict <=> /\ r.from # 0
                    /\ C!Beyond(IF C!IncreaseIsBad(metric) THEN r.to - r.from ELSE -(r.to - r.from),
                                r.from, percent)
    BY <2>1 DEF C!RegressedBeyond
  <2> QED  BY <1>1, <1>2, <2>2 DEF as, bs
<1>4. CASE r.intervals # {}
  <2>1. PICK i \in r.intervals : verdict = C!RegressedBeyond(r, metric, percent, i)
    BY <1>4 DEF C!Verdicts, r
  <2>2. i \in differences \X differences
    BY <1>2, <1>4
  <2>3. i # <<>> /\ i[1] \in differences /\ i[2] \in differences
    BY ONLY <2>2
  <2> DEFINE d == IF C!IncreaseIsBad(metric) THEN i[1] ELSE i[2]
  <2>4. verdict <=> /\ r.from # 0
                    /\ C!Beyond(IF C!IncreaseIsBad(metric) THEN d ELSE -d, r.from, percent)
    BY <2>1, <2>3 DEF C!RegressedBeyond
  <2>5. d \in differences
    BY <2>3
  <2> HIDE DEF d
  <2>6. PICK sums \in C!Resampled(as) \X C!Resampled(bs) : d = sums[2] * Len(as) - sums[1] * Len(bs)
    BY <2>5 DEF differences
  <2>7. sums[1] \in C!Resampled(as) /\ sums[2] \in C!Resampled(bs)
    OBVIOUS
  <2> QED  BY <1>1, <1>2, <2>4, <2>6, <2>7 DEF as, bs
<1> QED  BY <1>3, <1>4

\* It is one of integers.
LEMMA SampledIsInt ==
    ASSUME NEW s, NEW l \in Nat, DOMAIN s = 1..l, \A i \in 1..l : s[i] \in Int,
           NEW Z, Sampled(Z, s)
    PROVE  Z \in Int
<1> DEFINE L == 1..l
<1>1. PICK z : (\A i \in L : \E j \in L : z[i] = s[j]) /\ Z = SumFunctionOnSet(z, L)
  BY DEF Sampled
<1>2. \A i \in L : z[i] \in Int
  BY <1>1
<1>3. IsFiniteSet(L)
  BY 1 \in Int, l \in Int, FS_Interval
<1> HIDE DEF L
<1> QED  BY <1>1, <1>2, <1>3, SumType

\* A bound on how much every pair of samples differs, or none does, is one on
\* the difference of any two means of theirs.
LEMMA MeansDecide ==
    ASSUME NEW as, NEW n \in Nat, n > 0, DOMAIN as = 1..n, \A i \in 1..n : as[i] \in Int,
           NEW bs, NEW m \in Nat, m > 0, DOMAIN bs = 1..m, \A j \in 1..m : bs[j] \in Int,
           NEW X, Sampled(X, as), NEW Y, Sampled(Y, bs), NEW K \in Int, NEW c \in Int
    PROVE  /\ X \in Int /\ Y \in Int
           /\ (\A i \in 1..n, j \in 1..m : n * (c * (bs[j] - as[i])) > K) => c * (Y * n - X * m) > K * m
           /\ (\A i \in 1..n, j \in 1..m : n * (c * (bs[j] - as[i])) <= K) => c * (Y * n - X * m) <= K * m
<1>2. X \in Int /\ Y \in Int
  BY SampledIsInt
<1> DEFINE D == Y * n - X * m
<1>3. D \in Int /\ c * D \in Int /\ K * m \in Int
  <2>1. Y * n \in Int /\ X * m \in Int /\ K * m \in Int
    BY ONLY <1>2, n \in Nat, m \in Nat, K \in Int
  <2> QED  BY <2>1
<1>4. \A i \in 1..n, j \in 1..m :
        LET z == n * (c * (bs[j] - as[i]))
        IN z \in Int /\ n * ((-c) * (bs[j] - as[i])) = -z
  <2> SUFFICES ASSUME NEW i \in 1..n, NEW j \in 1..m
               PROVE  LET z == n * (c * (bs[j] - as[i]))
                      IN z \in Int /\ n * ((-c) * (bs[j] - as[i])) = -z
    OBVIOUS
  <2> DEFINE e == bs[j] - as[i]
  <2>1. e \in Int
    <3>1. bs[j] \in Int /\ as[i] \in Int
      OBVIOUS
    <3>2. bs[j] - as[i] \in Int
      BY ONLY <3>1, Differs
    <3> QED  BY <3>2
  <2> HIDE DEF e
  <2>2. n * (c * e) \in Int /\ n * ((-c) * e) = -(n * (c * e))
    BY ONLY <2>1, n \in Nat, c \in Int
  <2> QED  BY <2>2 DEF e
<1>5. ASSUME \A i \in 1..n, j \in 1..m : n * (c * (bs[j] - as[i])) > K
      PROVE  c * D > K * m
  <2>1. K + 1 \in Int /\ \A i \in 1..n, j \in 1..m : K + 1 <= n * (c * (bs[j] - as[i]))
    <3>3. K + 1 \in Int
      BY ONLY K \in Int
    <3> SUFFICES ASSUME NEW i \in 1..n, NEW j \in 1..m
                 PROVE  K + 1 <= n * (c * (bs[j] - as[i]))
      BY <3>3
    <3> DEFINE z == n * (c * (bs[j] - as[i]))
    <3>1. z \in Int /\ z > K
      BY <1>4, <1>5
    <3> HIDE DEF z
    <3>2. K + 1 <= z
      BY ONLY <3>1, K \in Int
    <3> QED  BY <3>2 DEF z
  <2>2. (K + 1) * m <= c * D
    BY <2>1, SampledApart
  <2> HIDE DEF D
  <2>3. (K + 1) * m = K * m + m
    BY ONLY K \in Int, m \in Nat
  <2> QED  BY <1>3, <2>2, <2>3
<1>6. ASSUME \A i \in 1..n, j \in 1..m : n * (c * (bs[j] - as[i])) <= K
      PROVE  c * D <= K * m
  <2>1. -K \in Int /\ -c \in Int /\ \A i \in 1..n, j \in 1..m : -K <= n * ((-c) * (bs[j] - as[i]))
    <3>3. -K \in Int /\ -c \in Int
      BY ONLY K \in Int, c \in Int
    <3> SUFFICES ASSUME NEW i \in 1..n, NEW j \in 1..m
                 PROVE  -K <= n * ((-c) * (bs[j] - as[i]))
      BY <3>3
    <3> DEFINE z == n * (c * (bs[j] - as[i]))
    <3>1. z \in Int /\ z <= K /\ n * ((-c) * (bs[j] - as[i])) = -z
      BY <1>4, <1>6
    <3> HIDE DEF z
    <3>2. -K <= -z
      BY ONLY <3>1, K \in Int
    <3> QED  BY <3>1, <3>2
  <2>2. (-K) * m <= (-c) * D
    BY <2>1, SampledApart
  <2> HIDE DEF D
  <2>3. (-K) * m = -(K * m) /\ (-c) * D = -(c * D)
    BY ONLY K \in Int, m \in Nat, c \in Int, <1>3
  <2> QED  BY <1>3, <2>2, <2>3
<1> QED  BY <1>2, <1>5, <1>6

LEMMA VerdictFollowsTheRuns ==
    ASSUME CliAssumption, NEW a \in Exports, NEW b \in Exports, NEW metric \in GateMetrics,
           NEW percent \in Nat, NEW verdict \in C!Verdicts(C!Compared(a, b, metric), metric, percent)
    PROVE  LET as == C!Samples(a, b, a, metric)
               bs == C!Samples(a, b, b, metric)
               worse(x, y) == 100 * Len(as) * C!Worsening(metric, x, y) > percent * C!Total(as)
           IN /\ C!Total(as) > 0 /\ (\A x \in C!Range(as), y \in C!Range(bs) : worse(x, y)) => verdict
              /\ (\A x \in C!Range(as), y \in C!Range(bs) : ~worse(x, y)) => ~verdict
<1> DEFINE as == C!Samples(a, b, a, metric)
           bs == C!Samples(a, b, b, metric)
           n == Len(as)
           m == Len(bs)
           total == C!Total(as)
           K == percent * total
           c == IF C!IncreaseIsBad(metric) THEN 100 ELSE -100
           worse(x, y) == 100 * n * C!Worsening(metric, x, y) > K
<1>1. /\ n \in Nat /\ n > 0 /\ DOMAIN as = 1..n /\ \A i \in 1..n : as[i] \in Int
      /\ m \in Nat /\ m > 0 /\ DOMAIN bs = 1..m /\ \A j \in 1..m : bs[j] \in Int
  <2>1. a \in {a, b} /\ b \in {a, b}
    OBVIOUS
  <2> QED  BY <2>1, SamplesAreInts
<1>2. PICK X, Y : /\ Sampled(X, as) /\ Sampled(Y, bs)
                  /\ verdict <=>
                       /\ total * m # 0
                       /\ LET D == Y * n - X * m
                          IN C!Beyond(IF C!IncreaseIsBad(metric) THEN D ELSE -D, total * m, percent)
  BY VerdictIsOfMeans
<1>3. Sampled(total, as)
  BY <1>1, ResamplesAreSampled
<1> HIDE DEF as, bs, n, m, total
<1>4. total \in Int
  BY ONLY <1>1, <1>3, SampledIsInt
<1>5. K \in Int /\ c \in Int /\ total * m \in Int /\ percent * (total * m) = K * m
  BY ONLY <1>1, <1>4, percent \in Nat
<1> HIDE DEF K
<1> DEFINE D == Y * n - X * m
<1>6. /\ X \in Int /\ Y \in Int
      /\ (\A i \in 1..n, j \in 1..m : n * (c * (bs[j] - as[i])) > K) => c * D > K * m
      /\ (\A i \in 1..n, j \in 1..m : n * (c * (bs[j] - as[i])) <= K) => c * D <= K * m
  <2> HIDE DEF c
  <2> QED  BY <1>1, <1>2, <1>5, MeansDecide
<1>7. ASSUME NEW i \in 1..n, NEW j \in 1..m
      PROVE  /\ n * (c * (bs[j] - as[i])) \in Int
             /\ worse(as[i], bs[j]) <=> n * (c * (bs[j] - as[i])) > K
  <2> DEFINE e == bs[j] - as[i]
             w == C!Worsening(metric, as[i], bs[j])
  <2>1. e \in Int /\ w = (IF C!IncreaseIsBad(metric) THEN e ELSE -e)
    <3>1. bs[j] \in Int /\ as[i] \in Int
      BY <1>1
    <3>2. /\ bs[j] - as[i] \in Int
          /\ as[i] - bs[j] = -(bs[j] - as[i])
      BY ONLY <3>1, Differs
    <3> QED  BY <3>2 DEF C!Worsening
  <2> HIDE DEF e, w
  <2>2. n * (c * e) \in Int /\ n * (c * e) = 100 * n * w
    BY ONLY <1>1, <2>1
  <2> HIDE DEF c
  <2> QED  BY <2>2 DEF e, w
<1>8. D \in Int /\ (C!Beyond(IF C!IncreaseIsBad(metric) THEN D ELSE -D, total * m, percent) <=> c * D > K * m)
  <2>1. D \in Int
    BY ONLY <1>1, <1>6
  <2> HIDE DEF D
  <2>2. c * D = 100 * (IF C!IncreaseIsBad(metric) THEN D ELSE -D)
    BY <2>1
  <2> HIDE DEF c
  <2> QED  BY <1>5, <2>1, <2>2 DEF C!Beyond
<1>9. (\A i \in 1..n : as[i] \in C!Range(as)) /\ (\A j \in 1..m : bs[j] \in C!Range(bs))
  BY <1>1 DEF C!Range
<1> HIDE DEF c, D
<1>10. ASSUME total > 0, \A x \in C!Range(as), y \in C!Range(bs) : worse(x, y)
       PROVE  verdict
  <2>1. c * D > K * m
    BY <1>6, <1>7, <1>9, <1>10 DEF D
  <2>2. total * m # 0
    BY ONLY <1>1, <1>4, <1>10
  <2> QED  BY <1>2, <1>8, <2>1, <2>2 DEF D
<1>11. ASSUME \A x \in C!Range(as), y \in C!Range(bs) : ~worse(x, y)
       PROVE  ~verdict
  <2>1. \A i \in 1..n, j \in 1..m : n * (c * (bs[j] - as[i])) <= K
    <3> SUFFICES ASSUME NEW i \in 1..n, NEW j \in 1..m
                 PROVE  n * (c * (bs[j] - as[i])) <= K
      OBVIOUS
    <3> DEFINE z == n * (c * (bs[j] - as[i]))
    <3>1. ~worse(as[i], bs[j])
      BY <1>9, <1>11
    <3>2. z \in Int /\ ~(z > K)
      BY <1>7, <3>1
    <3> HIDE DEF z
    <3>3. z <= K
      BY ONLY <1>5, <3>2
    <3> QED  BY <3>3 DEF z
  <2>2. c * D <= K * m
    BY <1>6, <2>1 DEF D
  <2>3. c * D \in Int /\ K * m \in Int
    BY ONLY <1>1, <1>5, <1>8
  <2> QED  BY <1>2, <1>8, <2>2, <2>3 DEF D
<1> QED  BY <1>10, <1>11 DEF as, bs, n, total, K

\* The inputs are of Exports and the thresholds those of the verb; what was
\* crossed is what the verb found.
Opened ==
  /\ verb \in {"none", "compare", "diff"}
  /\ verb # "none" => /\ \E a, b \in Exports : inputs = <<a, b>>
                      /\ thresholds \in C!ThresholdsOf(verb)

CompareSays ==
  \E verdict \in [DOMAIN thresholds -> BOOLEAN] :
    /\ \A metric \in DOMAIN thresholds :
         verdict[metric] \in C!Verdicts(C!Compared(inputs[1], inputs[2], metric), metric, thresholds[metric])
    /\ crossed = {metric \in DOMAIN thresholds : verdict[metric]}

DiffSays ==
  crossed = {metric \in C!Metrics :
               C!DiffRegression(inputs[1], inputs[2], metric,
                                thresholds[IF metric = "rate" THEN "rate" ELSE "p99"])}

GatesInv ==
  /\ Opened
  /\ code \in {{}, {0}, {1}, {2}}
  /\ verb = "none" => code = {}
  /\ verb = "compare" /\ C!Answered => CompareSays
  /\ verb = "diff" /\ C!Answered => DiffSays

LEMMA ThresholdsAreOfMetrics ==
    ASSUME CliAssumption, NEW v \in {"compare", "diff"}, NEW t \in C!ThresholdsOf(v)
    PROVE  /\ \A metric \in DOMAIN t : metric \in GateMetrics /\ t[metric] \in Nat
           /\ v = "diff" => DOMAIN t = {"rate", "p99"}
<1>1. CASE v = "compare"
  <2>1. PICK some \in SUBSET {"rate", "p99", "error_rate"} : t \in [some -> Percents]
    BY <1>1 DEF C!ThresholdsOf
  <2>2. DOMAIN t = some /\ \A metric \in some : t[metric] \in Nat
    BY <2>1 DEF CliAssumption
  <2> QED  BY <1>1, <2>1, <2>2 DEF GateMetrics
<1>2. CASE v = "diff"
  <2>1. t \in [{"rate", "p99"} -> Percents]
    BY <1>2 DEF C!ThresholdsOf
  <2> QED  BY <1>2, <2>1 DEF CliAssumption, GateMetrics
<1> QED  BY <1>1, <1>2

LEMMA CompareGate ==
    ASSUME CliAssumption, GatesInv, verb = "compare", C!Answered
    PROVE  C!CompareFollowsTheRuns
<1>1. PICK a \in Exports, b \in Exports : inputs = <<a, b>>
  BY DEF GatesInv, Opened
<1>2. inputs[1] = a /\ inputs[2] = b
  BY <1>1
<1>3. \A metric \in DOMAIN thresholds : metric \in GateMetrics /\ thresholds[metric] \in Nat
  BY ThresholdsAreOfMetrics DEF GatesInv, Opened
<1>4. PICK verdict \in [DOMAIN thresholds -> BOOLEAN] :
        /\ \A metric \in DOMAIN thresholds :
             verdict[metric] \in C!Verdicts(C!Compared(a, b, metric), metric, thresholds[metric])
        /\ crossed = {metric \in DOMAIN thresholds : verdict[metric]}
  BY <1>2 DEF GatesInv, CompareSays
<1>5. ASSUME NEW metric \in DOMAIN thresholds
      PROVE  LET as == C!Samples(a, b, a, metric)
                 bs == C!Samples(a, b, b, metric)
                 worse(x, y) == 100 * Len(as) * C!Worsening(metric, x, y) > thresholds[metric] * C!Total(as)
             IN /\ C!Total(as) > 0 /\ (\A x \in C!Range(as), y \in C!Range(bs) : worse(x, y))
                     => metric \in crossed
                /\ (\A x \in C!Range(as), y \in C!Range(bs) : ~worse(x, y)) => metric \notin crossed
  <2> DEFINE v == verdict[metric]
             percent == thresholds[metric]
  <2>1. /\ metric \in GateMetrics /\ percent \in Nat
        /\ v \in C!Verdicts(C!Compared(a, b, metric), metric, percent)
        /\ v <=> metric \in crossed
    BY <1>3, <1>4
  <2> HIDE DEF v, percent
  <2>2. LET as == C!Samples(a, b, a, metric)
            bs == C!Samples(a, b, b, metric)
            worse(x, y) == 100 * Len(as) * C!Worsening(metric, x, y) > percent * C!Total(as)
        IN /\ C!Total(as) > 0 /\ (\A x \in C!Range(as), y \in C!Range(bs) : worse(x, y)) => v
           /\ (\A x \in C!Range(as), y \in C!Range(bs) : ~worse(x, y)) => ~v
    BY <2>1, VerdictFollowsTheRuns
  <2> QED  BY <2>1, <2>2 DEF percent
<1> QED  BY <1>2, <1>5 DEF C!CompareFollowsTheRuns

\* A measurement of fewer than three runs is compared as diff compares it.
LEMMA OneSample ==
    ASSUME CliAssumption, NEW a \in Exports, NEW b \in Exports, ~C!Bootstraps(a, b),
           NEW metric \in {"rate", "p99"}, NEW percent
    PROVE  /\ C!ExtractAggregate(a, metric) \in Int /\ C!ExtractAggregate(b, metric) \in Int
           /\ C!Compared(a, b, metric).from = C!ExtractAggregate(a, metric)
           /\ C!Compared(a, b, metric).to = C!ExtractAggregate(b, metric)
           /\ C!Verdicts(C!Compared(a, b, metric), metric, percent) =
                {C!RegressedBeyond(C!Compared(a, b, metric), metric, percent, <<>>)}
<1> DEFINE x == C!ExtractAggregate(a, metric)
           y == C!ExtractAggregate(b, metric)
           as == C!Samples(a, b, a, metric)
           bs == C!Samples(a, b, b, metric)
           r == C!Compared(a, b, metric)
<1>1. metric \in GateMetrics /\ a \in {a, b} /\ b \in {a, b}
  BY DEF GateMetrics
<1>2. as = <<x>> /\ bs = <<y>>
  BY <1>1, SamplesAreInts
<1>3. (\A i \in DOMAIN as : as[i] \in Int) /\ (\A i \in DOMAIN bs : bs[i] \in Int)
  BY <1>1, SamplesAreInts
<1> HIDE DEF x, y, as, bs
<1>4. x \in Int /\ y \in Int
  <2>1. 1 \in DOMAIN <<x>> /\ <<x>>[1] = x /\ 1 \in DOMAIN <<y>> /\ <<y>>[1] = y
    OBVIOUS
  <2>2. as[1] \in Int /\ bs[1] \in Int /\ as[1] = x /\ bs[1] = y
    BY <1>2, <1>3, <2>1
  <2> QED  BY <2>2
<1>5. C!Total(as) = x /\ C!Total(bs) = y /\ Len(as) = 1 /\ Len(bs) = 1
  BY <1>2, <1>4, TotalOfOne
<1>6. r.from = x * 1 /\ r.to = y * 1 /\ r.intervals = {}
  BY <1>5 DEF C!Compared, as, bs
<1> HIDE DEF r
<1>7. C!Verdicts(r, metric, percent) = {C!RegressedBeyond(r, metric, percent, <<>>)}
  BY <1>6 DEF C!Verdicts
<1>8. r.from = x /\ r.to = y
  BY <1>4, <1>6
<1> QED  BY <1>4, <1>7, <1>8 DEF x, y, r

LEMMA DiffGate ==
    ASSUME CliAssumption, GatesInv
    PROVE  C!VerbsAgree
<1> SUFFICES ASSUME verb = "diff", C!Answered, ~C!Bootstraps(inputs[1], inputs[2]),
                    NEW metric \in DOMAIN thresholds,
                    C!Compared(inputs[1], inputs[2], metric).from # 0
             PROVE  metric \in crossed
                      <=> TRUE \in C!Verdicts(C!Compared(inputs[1], inputs[2], metric),
                                              metric, thresholds[metric])
  BY DEF C!VerbsAgree
<1>1. PICK a \in Exports, b \in Exports : inputs = <<a, b>>
  BY DEF GatesInv, Opened
<1>2. inputs[1] = a /\ inputs[2] = b
  BY <1>1
<1>3. metric \in {"rate", "p99"}
  BY ThresholdsAreOfMetrics DEF GatesInv, Opened
<1> DEFINE x == C!ExtractAggregate(a, metric)
           y == C!ExtractAggregate(b, metric)
           r == C!Compared(a, b, metric)
           percent == thresholds[metric]
<1>4. /\ x \in Int /\ y \in Int /\ r.from = x /\ r.to = y
      /\ C!Verdicts(r, metric, percent) = {C!RegressedBeyond(r, metric, percent, <<>>)}
  <2>1. ~C!Bootstraps(a, b)
    BY <1>2
  <2> QED  BY ONLY <1>3, <2>1, CliAssumption, a \in Exports, b \in Exports, OneSample
<1>5. metric \in crossed <=> C!DiffRegression(a, b, metric, percent)
  BY <1>2, <1>3 DEF GatesInv, DiffSays, C!Metrics
<1>6. C!DiffRegression(a, b, metric, percent) <=>
        C!Beyond(IF C!IncreaseIsBad(metric) THEN y - x ELSE x - y, x, percent)
  BY <1>2, <1>3, <1>4 DEF C!DiffRegression
<1> HIDE DEF r, x, y, percent
<1>7. C!RegressedBeyond(r, metric, percent, <<>>) <=>
        C!Beyond(IF C!IncreaseIsBad(metric) THEN y - x ELSE -(y - x), x, percent)
  BY <1>2, <1>4 DEF C!RegressedBeyond, r
<1>8. -(y - x) = x - y
  BY <1>4
<1>9. C!RegressedBeyond(r, metric, percent, <<>>) \in BOOLEAN
  BY DEF C!RegressedBeyond
<1> QED  BY <1>2, <1>4, <1>5, <1>6, <1>7, <1>8, <1>9 DEF r, percent

LEMMA GatesStart == Init => GatesInv
  BY DEF Init, C!ComparisonInit, GatesInv, Opened, C!Answered

LEMMA GatesStep ==
    ASSUME GatesInv, [Next]_vars
    PROVE  GatesInv'
<1>1. CASE C!Compare("compare") \/ C!Compare("diff")
  BY <1>1 DEF C!Compare, GatesInv, Opened, C!Answered
<1>2. CASE C!InputFails
  BY <1>2 DEF C!InputFails, GatesInv, Opened, C!Answered
<1>3. CASE C!RunCompare
  <2>1. /\ verb = "compare" /\ verb' = verb /\ inputs' = inputs /\ thresholds' = thresholds
        /\ code' = {0} \/ code' = {1}
    BY <1>3 DEF C!RunCompare
  <2>2. CompareSays'
    BY <1>3, <2>1 DEF C!RunCompare, CompareSays
  <2> QED  BY <2>1, <2>2 DEF GatesInv, Opened
<1>4. CASE C!RunDiff
  <2>1. /\ verb = "diff" /\ verb' = verb /\ inputs' = inputs /\ thresholds' = thresholds
        /\ code' = {0} \/ code' = {1}
    BY <1>4 DEF C!RunDiff
  <2>2. DiffSays'
    BY <1>4, <2>1 DEF C!RunDiff, DiffSays
  <2> QED  BY <2>1, <2>2 DEF GatesInv, Opened
<1>5. CASE UNCHANGED comparisonVars
  BY <1>5 DEF comparisonVars, GatesInv, Opened, C!Answered, CompareSays, DiffSays
<1>6. \/ C!Compare("compare") \/ C!Compare("diff") \/ C!InputFails \/ C!RunCompare \/ C!RunDiff
      \/ UNCHANGED comparisonVars
  BY DEF Next, Load, Start, RunStep, CompareStep, C!ComparisonNext, vars
<1> QED  BY <1>1, <1>2, <1>3, <1>4, <1>5, <1>6

\* compare fails a run that is worse by more than was allowed in every sample,
\* and none that is so in no sample, whatever the bootstrap draws (compare_metric,
\* regressed_beyond); diff judges the same two reports the same way.
THEOREM GatesFollow == Spec => []GatesFollowTheRuns
<1>1. Init => GatesInv
  BY GatesStart
<1>2. GatesInv /\ [Next]_vars => GatesInv'
  BY GatesStep
<1>3. GatesInv => GatesFollowTheRuns
  <2>1. GatesInv => C!CompareFollowsTheRuns
    BY CliAssumption, CompareGate DEF C!CompareFollowsTheRuns
  <2> QED  BY <2>1, CliAssumption, DiffGate DEF GatesFollowTheRuns, C!GatesFollowTheRuns
<1> QED  BY <1>1, <1>2, <1>3, PTL DEF Spec

-----------------------------------------------------------------------------
(* Lists: the sequences of the model as functions over 1..n                   *)

IsList(s) == \E n \in Nat : DOMAIN s = 1..n

LEMMA ListIsFinite ==
    ASSUME NEW s, IsList(s)
    PROVE  IsFiniteSet(DOMAIN s)
<1>1. PICK n \in Nat : DOMAIN s = 1..n
  BY DEF IsList
<1>2. n \in Int /\ 1 \in Int
  OBVIOUS
<1> QED  BY <1>1, <1>2, FS_Interval

LEMMA OneIsList ==
    ASSUME NEW x
    PROVE  IsList(<<x>>) /\ IsList(<<>>)
<1>1. DOMAIN <<x>> = 1..1 /\ DOMAIN <<>> = 1..0
  OBVIOUS
<1> QED  BY <1>1 DEF IsList

LEMMA AppendIsList ==
    ASSUME NEW s, IsList(s), NEW x
    PROVE  IsList(Append(s, x))
<1>1. PICK n \in Nat : DOMAIN s = 1..n
  BY DEF IsList
<1>2. DOMAIN Append(s, x) = 1..(Len(s) + 1) /\ Len(s) = n
  BY <1>1
<1> QED  BY <1>1, <1>2 DEF IsList

LEMMA InOrderIsList ==
    ASSUME NEW T, IsFiniteSet(T)
    PROVE  IsList(R!InOrder(T)) /\ DOMAIN R!InOrder(T) = 1..Cardinality(T)
<1>1. Cardinality(T) \in Nat
  BY FS_CardinalityType
<1> DEFINE placed(k) == CHOOSE x \in T : R!Cardinality({y \in T : y <= x}) = k
<1>2. DOMAIN R!InOrder(T) = 1..Cardinality(T)
  <2>1. R!InOrder(T) = [k \in 1..R!Cardinality(T) |-> placed(k)]
    BY DEF R!InOrder
  <2> HIDE DEF placed
  <2> QED  BY <2>1, RunsCardinality
<1> QED  BY <1>1, <1>2 DEF IsList

\* A sum of counts is positive when one of them is.
LEMMA SumIsPositive ==
    ASSUME NEW T, IsFiniteSet(T), NEW f, \A x \in T : f[x] \in Nat
    PROVE  /\ SumFunctionOnSet(f, T) \in Nat
           /\ SumFunctionOnSet(f, T) > 0 <=> \E x \in T : f[x] > 0
<1>1. SumFunctionOnSet(f, T) \in Int
  BY SumType
<1>2. /\ SumFunctionOnSet(f, T) >= 0
      /\ \A x \in T : SumFunctionOnSet(f, T) >= f[x]
  <2>1. \A x \in T : f[x] \in Int /\ f[x] >= 0
    OBVIOUS
  <2> QED  BY <2>1, SumOfNumbers
<1>3. ASSUME \A x \in T : ~(f[x] > 0) PROVE SumFunctionOnSet(f, T) = 0
  <2>1. \A x \in T : f[x] = 0
    BY <1>3
  <2>2. SumFunctionOnSet(f, T) = 0 * Cardinality(T)
    BY <2>1, 0 \in Int, SumConstant
  <2> QED  BY <2>2, FS_CardinalityType
<1>4. ASSUME NEW x \in T, f[x] > 0 PROVE SumFunctionOnSet(f, T) > 0
  <2>1. f[x] \in Nat /\ SumFunctionOnSet(f, T) >= f[x]
    BY <1>2
  <2> QED  BY <1>1, <1>4, <2>1
<1> QED  BY <1>1, <1>2, <1>3, <1>4

-----------------------------------------------------------------------------
(* The plan, its dispatch and what it measured                                *)

Row == [R!Axes -> Nat]
Task == [total : Row, rows : Seq(Row)]
Stages == {"start", "planned", "dispatching", "running", "merged", "swept", "exited"}
Protocols == DOMAIN R!StepsOf

LEMMA ProtocolNames == Protocols = {"http", "sse", "ws"}
  BY DEF Protocols, R!StepsOf

RunsType ==
  /\ stage \in Stages
  /\ DOMAIN args = {"verb", "rate", "saturate", "parallel", "http2"}
  /\ IsList(job) /\ IsList(batch)
  /\ group \in [Protocols -> {"off", "running", "ended", "panicked"}]
  /\ tasks \in [Protocols -> Seq(Task)]
  /\ summary.total \in Row
  /\ everHard \in BOOLEAN /\ everDone \in BOOLEAN
  /\ anyErrors \in BOOLEAN /\ anyRequests \in BOOLEAN

LEMMA ZeroIsRow == R!Zero \in Row
  BY DEF R!Zero, Row

\* What a scenario may have done is a row of counts.
LEMMA PossibleIsRow ==
    ASSUME CliAssumption, NEW kind, NEW row \in R!Possible(kind)
    PROVE  row \in Row
<1>1. row \in R!Outcomes(kind)
  BY DEF R!Possible
<1> DEFINE O == [done : 0..MaxOps, samples : 0..MaxOps, hard : 0..1,
                 soft : IF kind \in R!StepsOf.http THEN 0..1 ELSE {0}]
<1>2. PICK o \in O :
        row = [R!Zero EXCEPT !.requests = o.done, ![R!AxisOf(kind)] = o.samples, !.hard = o.hard, !.soft = o.soft]
  BY <1>1 DEF R!Outcomes
<1>3. o.done \in Nat /\ o.samples \in Nat /\ o.hard \in Nat /\ o.soft \in Nat
  BY DEF CliAssumption
<1> HIDE DEF O
<1> QED  BY <1>2, <1>3, ZeroIsRow DEF Row

LEMMA TotalsIsRow ==
    ASSUME NEW row \in Row
    PROVE  /\ R!TotalsOf(row) \in Row
           /\ R!TotalsOf(row).hard = row.hard /\ R!TotalsOf(row).requests = row.requests
  BY DEF R!TotalsOf, Row, R!Axes

LEMMA TaskStatsIsTask ==
    ASSUME NEW n \in Nat, NEW k, NEW row \in Row
    PROVE  R!TaskStats(n, k, row) \in Task
<1> DEFINE rows == [j \in 1..n |-> IF j = k THEN row ELSE R!Zero]
<1>1. rows \in Seq(Row)
  BY ZeroIsRow
<1> HIDE DEF rows
<1> QED  BY <1>1, TotalsIsRow DEF R!TaskStats, Task, rows

\* The sum of rows, axis by axis.
LEMMA AddAllIsRow ==
    ASSUME NEW rows, IsFiniteSet(DOMAIN rows), \A t \in DOMAIN rows : rows[t] \in Row
    PROVE  /\ R!AddAll(rows) \in Row
           /\ \A axis \in R!Axes :
                /\ R!AddAll(rows)[axis] = SumFunctionOnSet([t \in DOMAIN rows |-> rows[t][axis]], DOMAIN rows)
                /\ R!AddAll(rows)[axis] > 0 <=> \E t \in DOMAIN rows : rows[t][axis] > 0
<1>1. ASSUME NEW axis \in R!Axes
      PROVE  /\ R!AddAll(rows)[axis] = SumFunctionOnSet([t \in DOMAIN rows |-> rows[t][axis]], DOMAIN rows)
             /\ R!AddAll(rows)[axis] \in Nat
             /\ R!AddAll(rows)[axis] > 0 <=> \E t \in DOMAIN rows : rows[t][axis] > 0
  <2> DEFINE f == [t \in DOMAIN rows |-> rows[t][axis]]
  <2>1. DOMAIN f = DOMAIN rows /\ \A t \in DOMAIN rows : f[t] = rows[t][axis] /\ f[t] \in Nat
    BY DEF Row
  <2>2. R!AddAll(rows)[axis] = R!SumFunction(f)
    BY DEF R!AddAll
  <2> HIDE DEF f
  <2>3. R!AddAll(rows)[axis] = SumFunctionOnSet(f, DOMAIN rows)
    BY <2>1, <2>2, RunsSum
  <2>4. /\ SumFunctionOnSet(f, DOMAIN rows) \in Nat
        /\ SumFunctionOnSet(f, DOMAIN rows) > 0 <=> \E t \in DOMAIN rows : f[t] > 0
    BY <2>1, SumIsPositive
  <2> QED  BY <2>1, <2>3, <2>4 DEF f
<1>2. R!AddAll(rows) \in Row
  BY <1>1 DEF R!AddAll, Row
<1> QED  BY <1>1, <1>2

LEMMA ArgsAreRecords ==
    ASSUME NEW a \in R!BareArgs \cup R!RunArgs \cup R!ProbeArgs
    PROVE  DOMAIN a = {"verb", "rate", "saturate", "parallel", "http2"} /\ a.verb # "curve"
<1>1. a \in R!Args
  BY DEF R!BareArgs, R!RunArgs, R!ProbeArgs
<1>2. a \in [verb : {"bare", "run", "probe"}, rate : R!RatesGiven,
             saturate : BOOLEAN, parallel : BOOLEAN, http2 : BOOLEAN]
  BY <1>1 DEF R!Args
<1> QED  BY <1>2

LEMMA KindNames == "Request" \in Kinds /\ \A p \in Protocols : R!StepsOf[p] \subseteq Kinds
<1>1. "Request" \in R!StepsOf["http"]
  BY DEF R!StepsOf
<1>2. "http" \in Protocols
  BY ProtocolNames
<1> QED  BY <1>1, <1>2 DEF Kinds, Protocols

\* The plan's scenarios have steps of known kinds.
WellFormed(j) ==
  /\ IsList(j)
  /\ \A i \in DOMAIN j : DOMAIN j[i] = {"steps", "rate"} /\ j[i].steps \in Seq(Kinds)

\* The step that makes a plan, or gives up before there is one.
Begins ==
  /\ stage = "start"
  /\ UNCHANGED R!Idle
  /\ DOMAIN args = {"verb", "rate", "saturate", "parallel", "http2"} =>
       DOMAIN args' = {"verb", "rate", "saturate", "parallel", "http2"}
  /\ \/ stage' = "planned" /\ WellFormed(job')
     \/ stage' = "exited" /\ (job' = <<>> \/ UNCHANGED job)

LEMMA OneRequestIsWellFormed ==
    ASSUME NEW rate
    PROVE  LET scenario == [steps |-> <<"Request">>, rate |-> rate]
           IN /\ DOMAIN scenario = {"steps", "rate"} /\ scenario.steps \in Seq(Kinds)
              /\ WellFormed(<<scenario>>)
<1> DEFINE steps == <<"Request">>
           scenario == [steps |-> steps, rate |-> rate]
<1>1. steps \in Seq(Kinds)
  BY KindNames
<1>2. DOMAIN scenario = {"steps", "rate"} /\ scenario.steps = steps
  OBVIOUS
<1> HIDE DEF steps, scenario
<1>3. IsList(<<scenario>>) /\ \A i \in DOMAIN <<scenario>> : <<scenario>>[i] = scenario
  BY OneIsList
<1>4. WellFormed(<<scenario>>)
  BY <1>1, <1>2, <1>3 DEF WellFormed
<1> QED  BY <1>1, <1>2, <1>4 DEF scenario, steps

LEMMA PlannedBegins ==
    ASSUME NEW a \in R!BareArgs \cup R!RunArgs \cup R!ProbeArgs, NEW in, NEW rates,
           IsList(rates), stage = "start", R!Planned(a, in, rates)
    PROVE  Begins
<1>1. args' = a /\ stage' = "planned" /\ UNCHANGED R!Idle
      /\ job' = [i \in DOMAIN rates |-> [steps |-> <<"Request">>, rate |-> rates[i]]]
  BY DEF R!Planned, R!Idle
<1>2. WellFormed(job')
  <2>1. DOMAIN job' = DOMAIN rates /\ \A i \in DOMAIN rates :
          job'[i] = [steps |-> <<"Request">>, rate |-> rates[i]]
    BY <1>1
  <2>2. \A i \in DOMAIN job' : DOMAIN job'[i] = {"steps", "rate"} /\ job'[i].steps \in Seq(Kinds)
    BY <2>1, OneRequestIsWellFormed
  <2> QED  BY <2>1, <2>2 DEF WellFormed, IsList
<1> QED  BY <1>1, <1>2, ArgsAreRecords DEF Begins

LEMMA RefusedBegins ==
    ASSUME NEW a \in R!BareArgs, NEW in, stage = "start", R!Refused(a, in)
    PROVE  Begins
<1>1. args' = a /\ stage' = "exited" /\ UNCHANGED R!Idle /\ UNCHANGED job
  BY DEF R!Refused, R!Exit, R!Idle
<1> QED  BY <1>1, ArgsAreRecords DEF Begins

LEMMA BareBegins ==
    ASSUME CliAssumption, R!Bare
    PROVE  Begins
<1>1. CASE R!Quickstart \/ R!BuildFails
  BY <1>1 DEF R!Quickstart, R!BuildFails, R!Exit, R!Idle, Begins
<1>2. CASE R!BuildFromUrl
  <2>1. PICK a \in R!BareArgs : R!Planned(a, <<>>, <<R!PickRateProfile(a, 1, 1)>>)
    BY <1>2 DEF R!BuildFromUrl
  <2> QED  BY <1>2, <2>1, OneIsList, PlannedBegins DEF R!BuildFromUrl
<1>3. CASE R!BuildFromRequestFile
  <2>1. PICK a \in R!BareArgs, text \in Files :
          \/ R!Refused(a, <<R!Read(text)>>)
          \/ R!Planned(a, <<R!Read(text)>>, <<R!PickRateProfile(a, 1, 1)>>)
    BY <1>3 DEF R!BuildFromRequestFile
  <2> QED  BY <1>3, <2>1, OneIsList, PlannedBegins, RefusedBegins DEF R!BuildFromRequestFile
<1>4. CASE R!BuildFromRequestDir
  <2>1. PICK a \in R!BareArgs, texts \in R!SeqOf(Entries, MaxFiles) :
          \/ \E in : R!Refused(a, in)
          \/ \E in, weights : R!Planned(a, in, [k \in DOMAIN texts |->
                                    R!PickRateProfile(a, weights[k], R!SumFunction(weights))])
    BY <1>4 DEF R!BuildFromRequestDir
  <2>2. PICK n \in 0..MaxFiles : texts \in [1..n -> Entries]
    BY DEF R!SeqOf
  <2>3. n \in Nat
    BY DEF CliAssumption
  <2>4. CASE \E in : R!Refused(a, in)
    BY <1>4, <2>4, RefusedBegins DEF R!BuildFromRequestDir
  <2>5. CASE \E in, weights : R!Planned(a, in, [k \in DOMAIN texts |->
                                 R!PickRateProfile(a, weights[k], R!SumFunction(weights))])
    <3>1. PICK in, weights : R!Planned(a, in, [k \in DOMAIN texts |->
                               R!PickRateProfile(a, weights[k], R!SumFunction(weights))])
      BY <2>5
    <3> DEFINE rates == [k \in DOMAIN texts |->
                           R!PickRateProfile(a, weights[k], R!SumFunction(weights))]
    <3>2. IsList(rates)
      <4>1. DOMAIN rates = 1..n
        BY <2>2
      <4> HIDE DEF rates
      <4> QED  BY <2>3, <4>1 DEF IsList
    <3>3. stage = "start"
      BY <1>4 DEF R!BuildFromRequestDir
    <3> HIDE DEF rates
    <3> QED  BY <3>1, <3>2, <3>3, PlannedBegins DEF rates
  <2> QED  BY <2>1, <2>4, <2>5
<1> QED  BY <1>1, <1>2, <1>3, <1>4 DEF R!Bare

LEMMA OthersBegin ==
    ASSUME R!Probe \/ R!Curve \/ R!ScriptFails
    PROVE  Begins
<1>1. CASE R!Probe
  <2>1. PICK a \in R!ProbeArgs :
          /\ args' = a
          /\ \/ stage' = "exited" /\ job' = <<>>
             \/ /\ job' = <<[steps |-> <<"Request">>, rate |-> R!PickRateProfile(a, 1, 1)]>>
                /\ stage' = "planned"
    BY <1>1 DEF R!Probe, R!Exit
  <2>2. job' = <<>> \/ WellFormed(job')
    BY <2>1, OneRequestIsWellFormed
  <2> QED  BY <1>1, <2>1, <2>2, ArgsAreRecords DEF Begins, R!Probe, R!Idle
<1>2. CASE R!Curve
  <2>1. job' = <<>> \/ WellFormed(job')
    BY <1>2, OneRequestIsWellFormed DEF R!Curve
  <2>2. DOMAIN args' = DOMAIN args
    BY <1>2 DEF R!Curve
  <2> QED  BY <1>2, <2>1, <2>2 DEF Begins, R!Curve, R!Exit, R!Idle
<1>3. CASE R!ScriptFails
  BY <1>3 DEF Begins, R!ScriptFails, R!Exit, R!Idle
<1> QED  BY <1>1, <1>2, <1>3

LEMMA ScriptBegins ==
    ASSUME NEW loaded, WellFormed(loaded), R!RunScript(loaded)
    PROVE  Begins
<1>1. PICK a \in R!RunArgs :
        args' = a /\ job' = [i \in DOMAIN loaded |-> R!Override(loaded[i], a, Len(loaded))]
  BY DEF R!RunScript
<1>2. WellFormed(job')
  <2>1. DOMAIN job' = DOMAIN loaded
    BY <1>1
  <2>2. ASSUME NEW i \in DOMAIN loaded
        PROVE  DOMAIN job'[i] = {"steps", "rate"} /\ job'[i].steps \in Seq(Kinds)
    <3>1. DOMAIN loaded[i] = {"steps", "rate"} /\ loaded[i].steps \in Seq(Kinds)
      BY DEF WellFormed
    <3>2. \E rate : job'[i] = [loaded[i] EXCEPT !.rate = rate]
      BY <1>1 DEF R!Override
    <3> QED  BY <3>1, <3>2
  <2> QED  BY <2>1, <2>2 DEF WellFormed, IsList
<1> QED  BY <1>1, <1>2, ArgsAreRecords DEF Begins, R!RunScript, R!Idle

-----------------------------------------------------------------------------
(* A script's plan                                                            *)

Steps == [kind : Kinds, host : Hosts, count : Nat, trigger : BOOLEAN,
          body : {"none", "raw", "template"}, types : Nat, into : SUBSET Nat, slot : Nat]

\* What the loader has when it compiles a step: n builders, one of them taken.
Loaders(n) == [bad : BOOLEAN, heap : [1..n -> Builders], slots : Seq(Names), steps : Seq(Steps)]

LEMMA BlankIsBuilder ==
    ASSUME NEW kind \in Kinds
    PROVE  S!Blank(kind) \in Builders
<1>1. "" \in Hosts /\ {} \in SUBSET Nat /\ 0 \in Nat
  BY DEF Hosts
<1> QED  BY <1>1 DEF S!Blank, Builders

LEMMA AllocateSlot ==
    ASSUME NEW registry \in Seq(Names), NEW name \in Names
    PROVE  /\ S!Allocate(registry, name) \in Seq(Names)
           /\ S!SlotOf(S!Allocate(registry, name), name) \in Nat
<1> DEFINE all == S!Allocate(registry, name)
<1>1. all \in Seq(Names) /\ \E s \in DOMAIN all : all[s] = name
  <2>1. CASE S!Has(registry, name)
    BY <2>1 DEF S!Allocate, S!Has, S!Range
  <2>2. CASE ~S!Has(registry, name)
    <3>1. all = Append(registry, name)
      BY <2>2 DEF S!Allocate
    <3>2. Len(registry) \in Nat
      OBVIOUS
    <3>3. Append(registry, name) \in Seq(Names)
      OBVIOUS
    <3>4. /\ Len(registry) + 1 \in DOMAIN Append(registry, name)
          /\ Append(registry, name)[Len(registry) + 1] = name
      BY <3>2
    <3> QED  BY <3>1, <3>3, <3>4
  <2> QED  BY <2>1, <2>2
<1> HIDE DEF all
<1>2. DOMAIN all \subseteq Nat
  BY <1>1
<1>3. S!SlotOf(all, name) \in DOMAIN all
  BY <1>1 DEF S!SlotOf
<1> QED  BY <1>1, <1>2, <1>3 DEF all

LEMMA CompiledIsStep ==
    ASSUME NEW b \in Builders, NEW registry, b.reads # "none" => S!SlotOf(registry, b.reads) \in Nat
    PROVE  S!Compiled(b, registry) \in Steps
<1> DEFINE slot == IF b.reads = "none" THEN 0 ELSE S!SlotOf(registry, b.reads)
<1>1. slot \in Nat
  OBVIOUS
<1> HIDE DEF slot
<1>2. S!Compiled(b, registry) =
        [kind |-> b.kind, host |-> b.host, count |-> b.count, trigger |-> b.trigger, body |-> b.body,
         types |-> b.types, into |-> b.into, slot |-> slot]
  BY DEF S!Compiled, slot
<1> QED  BY <1>1, <1>2 DEF Builders, Steps

LEMMA CompileStepType ==
    ASSUME NEW n \in Nat, NEW so_far \in Loaders(n), NEW ref \in 1..n
    PROVE  S!CompileStep(so_far, ref) \in Loaders(n)
<1> DEFINE b == so_far.heap[ref]
           registry == IF b.reads = "none" THEN so_far.slots ELSE S!Allocate(so_far.slots, b.reads)
           kind == IF b.kind = "HttpColdConnect" THEN "Request" ELSE b.kind
<1>1. /\ so_far.bad \in BOOLEAN /\ so_far.heap \in [1..n -> Builders]
      /\ so_far.slots \in Seq(Names) /\ so_far.steps \in Seq(Steps)
  BY DEF Loaders
<1>2. b \in Builders
  BY <1>1
<1>3. b.kind \in Kinds /\ (b.reads # "none" => b.reads \in Names)
  BY <1>2 DEF Builders
<1>4. registry \in Seq(Names) /\ (b.reads # "none" => S!SlotOf(registry, b.reads) \in Nat)
  BY <1>1, <1>3, AllocateSlot
<1>5. S!Blank(kind) \in Builders
  BY <1>3, KindNames, BlankIsBuilder
<1>6. S!CompileStep(so_far, ref) =
        IF so_far.bad \/ (\/ b.kind \in S!Fanouts /\ ~b.trigger
                          \/ b.reads # "none" /\ S!TooMany(so_far.slots, b.reads))
        THEN [so_far EXCEPT !.bad = TRUE]
        ELSE [bad |-> FALSE, heap |-> [so_far.heap EXCEPT ![ref] = S!Blank(kind)],
              slots |-> registry, steps |-> Append(so_far.steps, S!Compiled(b, registry))]
  BY DEF S!CompileStep
<1> HIDE DEF b, registry, kind
<1>7. S!Compiled(b, registry) \in Steps
  BY <1>2, <1>4, CompiledIsStep
<1>8. [so_far EXCEPT !.bad = TRUE] \in Loaders(n)
  BY DEF Loaders
<1>9. Append(so_far.steps, S!Compiled(b, registry)) \in Seq(Steps)
  BY <1>1, <1>7
<1>10. [so_far.heap EXCEPT ![ref] = S!Blank(kind)] \in [1..n -> Builders]
  BY <1>1, <1>5
<1>11. [bad |-> FALSE, heap |-> [so_far.heap EXCEPT ![ref] = S!Blank(kind)],
        slots |-> registry, steps |-> Append(so_far.steps, S!Compiled(b, registry))] \in Loaders(n)
  BY <1>4, <1>9, <1>10 DEF Loaders
<1> QED  BY <1>6, <1>8, <1>11

\* The steps of a scenario are compiled one after the other.
LEMMA CompiledInOrder ==
    ASSUME NEW n \in Nat, NEW start \in Loaders(n),
           NEW refs, IsList(refs), \A k \in DOMAIN refs : refs[k] \in 1..n
    PROVE  S!FoldLeft(S!CompileStep, start, refs) \in Loaders(n)
<1> DEFINE D == DOMAIN refs
           Value(h, s) == IF s = {} THEN start
                          ELSE S!CompileStep(h[s \ {S!Max(s)}], refs[S!Max(s)])
           g == CHOOSE g : g = [s \in SUBSET D |-> Value(g, s)]
           c == [s \in SUBSET D |-> S!Max(s)]
           step == [k \in D |-> [v \in Loaders(n) |-> S!CompileStep(v, refs[k])]]
<1>1. S!FoldLeft(S!CompileStep, start, refs) = g[D]
  BY DEF S!FoldLeft, S!MapThenFoldSet
<1>2. PICK l \in Nat : D = 1..l
  BY DEF IsList
<1>3. IsFiniteSet(D)
  BY ListIsFinite
<1>4. \A s \in SUBSET D : s # {} => S!Max(s) \in s
  <2> SUFFICES ASSUME NEW s \in SUBSET D, s # {} PROVE S!Max(s) \in s
    OBVIOUS
  <2>1. s \in SUBSET (1..l)
    BY <1>2
  <2>2. \E m \in s : \A i \in s : m >= i
    BY <2>1, GreatestNatural
  <2> QED  BY <2>2 DEF S!Max
<1>5. \A k \in D, v \in Loaders(n) :
        /\ step[k][v] = S!CompileStep(v, refs[k])
        /\ step[k][v] \in Loaders(n)
  BY CompileStepType
<1>6. PICK h \in [SUBSET D -> Loaders(n)] : FoldOf(h, D, start, c, step)
  <2>1. Picks(c, D)
    BY <1>4 DEF Picks
  <2> HIDE DEF D, c, step
  <2> QED  BY <1>3, <1>5, <2>1, FoldExists
<1>7. \A s \in SUBSET D : h[s] = Value(h, s)
  <2> SUFFICES ASSUME NEW s \in SUBSET D PROVE h[s] = Value(h, s)
    OBVIOUS
  <2>1. h[s] = IF s = {} THEN start ELSE step[c[s]][h[s \ {c[s]}]]
    BY <1>6 DEF FoldOf
  <2>2. CASE s = {}
    BY <2>1, <2>2
  <2>3. CASE s # {}
    <3>1. c[s] = S!Max(s) /\ S!Max(s) \in D /\ h[s \ {S!Max(s)}] \in Loaders(n)
      BY <1>4, <2>3
    <3> HIDE DEF c, step, D
    <3> QED  BY <1>5, <2>1, <2>3, <3>1
  <2> QED  BY <2>2, <2>3
<1>8. h = [s \in SUBSET D |-> Value(h, s)]
  <2> HIDE DEF Value
  <2> QED  BY <1>6, <1>7
<1>9. g = [s \in SUBSET D |-> Value(g, s)]
  BY <1>8
<1> HIDE DEF g
<1>10. \A s \in SUBSET D : g[s] = Value(g, s)
  <2> HIDE DEF Value
  <2> QED  BY <1>9
<1> DEFINE Bad == {s \in SUBSET D : g[s] \notin Loaders(n)}
<1>11. ASSUME Bad # {} PROVE FALSE
  <2>1. PICK s \in Bad : \A r \in Bad : r \subseteq s => r = s
    <3> Bad \in SUBSET SUBSET D
      OBVIOUS
    <3> HIDE DEF Bad, D
    <3> QED  BY <1>3, <1>11, SmallestSubset
  <2>2. CASE s = {}
    BY <1>10, <2>1, <2>2
  <2>3. CASE s # {}
    <3> DEFINE k == S!Max(s)
               r == s \ {k}
    <3>1. k \in s /\ s \in SUBSET D /\ k \in D
      BY <1>4, <2>1, <2>3
    <3>2. r \in SUBSET D /\ r # s /\ r \subseteq s
      BY <3>1
    <3>3. g[r] \in Loaders(n)
      BY <2>1, <3>2
    <3>4. g[s] = S!CompileStep(g[r], refs[k])
      BY <1>10, <2>3, <3>1
    <3>5. g[s] \notin Loaders(n)
      BY <2>1
    <3> HIDE DEF k, r, Bad
    <3> QED  BY <3>1, <3>3, <3>4, <3>5, CompileStepType
  <2> QED  BY <2>2, <2>3
<1>12. D \in SUBSET D
  OBVIOUS
<1> QED  BY <1>1, <1>11, <1>12

Compilable(refs, known) == IsList(refs) /\ \A k \in DOMAIN refs : refs[k] \in known
Written(scenario, known) == DOMAIN scenario = {"weight", "rate", "steps"} /\ Compilable(scenario.steps, known)
Planable(scenario) ==
  /\ DOMAIN scenario = {"steps", "rate"} /\ IsList(scenario.steps)
  /\ \A k \in DOMAIN scenario.steps : scenario.steps[k].kind \in Kinds

\* Every step refers to a builder; the plan has steps of known kinds.
ScriptInv ==
  /\ heap \in Seq(Builders) /\ slots \in Seq(Names)
  /\ IsList(scenarios) /\ \A i \in DOMAIN scenarios : Written(scenarios[i], DOMAIN heap)
  /\ IsList(plan) /\ \A i \in DOMAIN plan : Planable(plan[i])

LEMMA AppendedToList ==
    ASSUME NEW s, IsList(s), NEW x
    PROVE  /\ IsList(Append(s, x))
           /\ \A i \in DOMAIN Append(s, x) : (i \in DOMAIN s /\ Append(s, x)[i] = s[i]) \/ Append(s, x)[i] = x
<1>1. PICK n \in Nat : DOMAIN s = 1..n
  BY DEF IsList
<1>2. /\ DOMAIN Append(s, x) = 1..(n + 1) /\ Len(s) = n
      /\ \A i \in 1..(n + 1) : Append(s, x)[i] = IF i = n + 1 THEN x ELSE s[i]
  BY <1>1
<1>3. \A i \in 1..(n + 1) : i # n + 1 => i \in 1..n
  BY <1>1
<1> QED  BY <1>1, <1>2, <1>3, AppendIsList

LEMMA EmptyList == IsList(<<>>) /\ DOMAIN <<>> = {}
<1>1. IsList(<<>>)
  BY OneIsList
<1>2. DOMAIN <<>> = {}
  OBVIOUS
<1> QED  BY <1>1, <1>2

LEMMA ScriptFails ==
    ASSUME NEW error, S!Fail(error)
    PROVE  ScriptInv'
  BY EmptyList DEF S!Fail, S!Drop, ScriptInv

LEMMA ScriptWrites ==
    ASSUME ScriptInv, NEW field \in {"steps", "rate"}, NEW value, S!InBody(field, value),
           field = "steps" /\ Len(scenarios) \in DOMAIN scenarios => Compilable(value, DOMAIN heap)
    PROVE  ScriptInv'
<1>1. /\ scenarios' = [scenarios EXCEPT ![Len(scenarios)][field] = value]
      /\ heap' = heap /\ slots' = slots /\ plan' = plan
  BY DEF S!InBody
<1>2. DOMAIN scenarios' = DOMAIN scenarios
  BY <1>1
<1>3. ASSUME NEW i \in DOMAIN scenarios PROVE Written(scenarios'[i], DOMAIN heap)
  <2>1. Written(scenarios[i], DOMAIN heap)
    BY DEF ScriptInv
  <2>2. CASE i = Len(scenarios)
    <3>1. scenarios'[i] = [scenarios[i] EXCEPT ![field] = value]
      BY <1>1, <2>2
    <3>2. /\ DOMAIN scenarios'[i] = DOMAIN scenarios[i]
          /\ field = "steps" => scenarios'[i].steps = value
          /\ field # "steps" => scenarios'[i].steps = scenarios[i].steps
      BY <2>1, <3>1 DEF Written
    <3> QED  BY <2>1, <3>2 DEF Written
  <2>3. CASE i # Len(scenarios)
    BY <1>1, <2>1, <2>3
  <2> QED  BY <2>2, <2>3
<1>4. \A i \in DOMAIN scenarios' : Written(scenarios'[i], DOMAIN heap')
  BY <1>1, <1>2, <1>3 DEF Written, Compilable
<1> QED  BY <1>1, <1>2, <1>4 DEF ScriptInv, IsList, Planable

LEMMA ScriptSteps ==
    ASSUME ScriptInv, NEW b \in DOMAIN heap, S!Step(b)
    PROVE  ScriptInv'
<1> DEFINE value == Append(S!Last(scenarios).steps, b)
<1>1. S!InBody("steps", value)
  BY DEF S!Step
<1>2. Len(scenarios) \in DOMAIN scenarios => Compilable(value, DOMAIN heap)
  <2>1. Len(scenarios) \in DOMAIN scenarios => Compilable(S!Last(scenarios).steps, DOMAIN heap)
    BY DEF ScriptInv, Written, S!Last
  <2> QED  BY <2>1, AppendedToList DEF Compilable
<1> HIDE DEF value
<1> QED  BY <1>1, <1>2, ScriptWrites

LEMMA ScriptCompiles ==
    ASSUME ScriptInv, S!CompileScenario
    PROVE  ScriptInv'
<1> DEFINE i == Len(plan) + 1
           start == [bad |-> FALSE, heap |-> heap, slots |-> slots, steps |-> <<>>]
           end == S!FoldLeft(S!CompileStep, start, scenarios[i].steps)
           n == Len(heap)
<1>1. CASE end.bad
  <2>1. S!Fail("Template")
    BY <1>1 DEF S!CompileScenario
  <2> QED  BY <2>1, ScriptFails
<1>2. CASE ~end.bad
  <2>1. /\ heap' = end.heap /\ slots' = end.slots
        /\ plan' = Append(plan, [steps |-> end.steps, rate |-> S!ResolveRate(i)])
        /\ scenarios' = scenarios /\ Len(plan) < Len(scenarios)
    BY <1>2 DEF S!CompileScenario
  <2>2. n \in Nat /\ DOMAIN heap = 1..n /\ heap \in [1..n -> Builders]
    BY DEF ScriptInv
  <2>3. start \in Loaders(n)
    <3>1. <<>> \in Seq(Steps)
      OBVIOUS
    <3> HIDE DEF n
    <3> QED  BY <2>2, <3>1 DEF Loaders, ScriptInv
  <2>4. i \in DOMAIN scenarios
    <3>1. PICK k \in Nat : DOMAIN plan = 1..k
      BY DEF ScriptInv, IsList
    <3>2. PICK l \in Nat : DOMAIN scenarios = 1..l
      BY DEF ScriptInv, IsList
    <3>3. Len(plan) = k /\ Len(scenarios) = l
      BY <3>1, <3>2
    <3> QED  BY <2>1, <3>1, <3>2, <3>3
  <2> HIDE DEF i, start
  <2>5. Compilable(scenarios[i].steps, DOMAIN heap)
    BY <2>4 DEF ScriptInv, Written
  <2>6. end \in Loaders(n)
    <3> DEFINE refs == scenarios[i].steps
    <3>1. IsList(refs) /\ \A k \in DOMAIN refs : refs[k] \in 1..n
      BY <2>2, <2>5 DEF Compilable
    <3> HIDE DEF refs, n
    <3>2. S!FoldLeft(S!CompileStep, start, refs) \in Loaders(n)
      BY <2>2, <2>3, <3>1, CompiledInOrder
    <3> QED  BY <3>2 DEF refs
  <2> HIDE DEF end, n
  <2>7. end.heap \in [1..n -> Builders] /\ end.slots \in Seq(Names) /\ end.steps \in Seq(Steps)
    BY <2>6 DEF Loaders
  <2>8. heap' \in Seq(Builders) /\ DOMAIN heap' = DOMAIN heap
    BY <2>1, <2>2, <2>7
  <2> DEFINE new == [steps |-> end.steps, rate |-> S!ResolveRate(i)]
  <2>9. Planable(new)
    <3>1. DOMAIN new = {"steps", "rate"} /\ new.steps = end.steps
      OBVIOUS
    <3>2. \A q \in Seq(Steps) : IsList(q) /\ \A k \in DOMAIN q : q[k] \in Steps
      BY DEF IsList
    <3>3. \A step \in Steps : step.kind \in Kinds
      BY DEF Steps
    <3> HIDE DEF new
    <3> QED  BY <2>7, <3>1, <3>2, <3>3 DEF Planable
  <2> HIDE DEF new
  <2>10. IsList(plan') /\ \A k \in DOMAIN plan' : Planable(plan'[k])
    <3>1. plan' = Append(plan, new)
      BY <2>1 DEF new
    <3>2. IsList(plan) /\ \A k \in DOMAIN plan : Planable(plan[k])
      BY DEF ScriptInv
    <3> QED  BY <2>9, <3>1, <3>2, AppendedToList
  <2>11. \A k \in DOMAIN scenarios' : Written(scenarios'[k], DOMAIN heap')
    BY <2>1, <2>8 DEF ScriptInv, Written, Compilable
  <2> QED  BY <2>1, <2>7, <2>8, <2>10, <2>11 DEF ScriptInv, IsList, Planable
<1> QED  BY <1>1, <1>2

LEMMA ScriptStep ==
    ASSUME CliAssumption, ScriptInv, S!ScriptNext
    PROVE  ScriptInv'
<1>1. CASE UNCHANGED <<heap, slots, scenarios, plan>>
  BY <1>1 DEF ScriptInv, Written, Compilable, Planable, IsList
<1>2. CASE \E name \in Names : S!Slot(name)
  <2>1. PICK name \in Names : S!Slot(name)
    BY <1>2
  <2>2. CASE S!Fail("Eval")
    BY <2>2, ScriptFails
  <2>3. CASE ~S!Fail("Eval")
    <3>1. slots' = S!Allocate(slots, name) /\ UNCHANGED <<heap, scenarios, plan>>
      BY <2>1, <2>3 DEF S!Slot
    <3>2. slots' \in Seq(Names)
      BY <3>1, AllocateSlot DEF ScriptInv
    <3> QED  BY <3>1, <3>2 DEF ScriptInv, Written, Compilable, Planable, IsList
  <2> QED  BY <2>2, <2>3
<1>3. CASE \E chain \in Chains : S!Build(chain)
  <2>1. PICK chain \in Chains : heap' = Append(heap, chain) /\ UNCHANGED <<slots, scenarios, plan>>
    BY <1>3 DEF S!Build
  <2>2. chain \in Builders /\ heap \in Seq(Builders)
    BY DEF CliAssumption, ScriptInv
  <2>3. heap' \in Seq(Builders) /\ DOMAIN heap \subseteq DOMAIN heap'
    <3>1. \A q \in Seq(Builders) : /\ Append(q, chain) \in Seq(Builders)
                                   /\ DOMAIN q \subseteq DOMAIN Append(q, chain)
      BY <2>2
    <3> QED  BY <2>1, <2>2, <3>1
  <2> QED  BY <2>1, <2>3 DEF ScriptInv, Written, Compilable, Planable, IsList
<1>4. CASE \E weight : S!Scenario(weight)
  <2>1. PICK weight : /\ scenarios' = Append(scenarios, [weight |-> weight, rate |-> S!None, steps |-> <<>>])
                      /\ UNCHANGED <<heap, slots, plan>>
    BY <1>4 DEF S!Scenario
  <2> DEFINE new == [weight |-> weight, rate |-> S!None, steps |-> <<>>]
  <2>2. Written(new, DOMAIN heap)
    BY EmptyList DEF Written, Compilable
  <2> HIDE DEF new
  <2>3. IsList(scenarios') /\ \A i \in DOMAIN scenarios' : Written(scenarios'[i], DOMAIN heap)
    <3>1. scenarios' = Append(scenarios, new)
      BY <2>1 DEF new
    <3>2. IsList(scenarios) /\ \A i \in DOMAIN scenarios : Written(scenarios[i], DOMAIN heap)
      BY DEF ScriptInv
    <3> QED  BY <2>2, <3>1, <3>2, AppendedToList
  <2> QED  BY <2>1, <2>3 DEF ScriptInv, Written, Compilable, Planable, IsList
<1>5. CASE \E b \in DOMAIN heap : S!Step(b)
  BY <1>5, ScriptSteps
<1>6. CASE (\E r : S!ScenarioRate(r)) \/ (\E n : S!ScenarioSaturate(n))
  <2>1. PICK value : S!InBody("rate", value)
    BY <1>6 DEF S!ScenarioRate, S!ScenarioSaturate
  <2> QED  BY <2>1, ScriptWrites
<1>7. CASE S!CompileScenario
  BY <1>7, ScriptCompiles
<1>8. CASE S!Drop /\ plan' = plan
  <2>1. heap' = <<>> /\ scenarios' = <<>> /\ slots' = <<>> /\ plan' = plan
    BY <1>8 DEF S!Drop
  <2>2. heap' \in Seq(Builders) /\ slots' \in Seq(Names)
    BY <2>1
  <2>3. IsList(scenarios') /\ DOMAIN scenarios' = {}
    BY <2>1, EmptyList
  <2> QED  BY <2>1, <2>2, <2>3 DEF ScriptInv, IsList, Planable
<1>9. CASE \E error : S!Fail(error)
  BY <1>9, ScriptFails
<1>10. \/ \E error : S!Fail(error)
       \/ UNCHANGED <<heap, slots, scenarios, plan>>
       \/ S!Drop /\ plan' = plan
       \/ \E name \in Names : S!Slot(name)
       \/ \E chain \in Chains : S!Build(chain)
       \/ \E weight : S!Scenario(weight)
       \/ \E b \in DOMAIN heap : S!Step(b)
       \/ (\E r : S!ScenarioRate(r)) \/ (\E n : S!ScenarioSaturate(n))
       \/ S!CompileScenario
  <2>1. CASE S!CallFails
    BY <2>1 DEF S!CallFails
  <2>2. CASE \E r : S!GlobalRate(r)
    BY <2>2 DEF S!GlobalRate, S!Setting
  <2>3. CASE \E n : S!GlobalSaturate(n)
    BY <2>3 DEF S!GlobalSaturate, S!Setting
  <2>4. CASE S!Duration
    BY <2>4 DEF S!Duration, S!Setting
  <2>5. CASE S!PeekTarget
    BY <2>5 DEF S!PeekTarget
  <2>6. CASE S!Finalize
    BY <2>6 DEF S!Finalize
  <2>7. CASE S!Loaded
    BY <2>7 DEF S!Loaded
  <2> QED  BY <2>1, <2>2, <2>3, <2>4, <2>5, <2>6, <2>7 DEF S!ScriptNext
<1> QED  BY <1>1, <1>2, <1>3, <1>4, <1>5, <1>6, <1>7, <1>8, <1>9, <1>10

LEMMA ScriptStart == Init => ScriptInv
<1> SUFFICES ASSUME Init PROVE ScriptInv
  OBVIOUS
<1>1. heap = <<>> /\ slots = <<>> /\ scenarios = <<>> /\ plan = <<>>
  BY DEF Init, S!ScriptInit
<1>2. <<>> \in Seq(Builders) /\ <<>> \in Seq(Names)
  OBVIOUS
<1> QED  BY <1>1, <1>2, EmptyList DEF ScriptInv

LEMMA ScriptNextStep ==
    ASSUME CliAssumption, ScriptInv, [Next]_vars
    PROVE  ScriptInv'
<1>1. CASE Load
  BY <1>1, ScriptStep DEF Load
<1>2. CASE Start
  BY <1>2, EmptyList DEF Start, ScriptInv, Written, Compilable, IsList
<1>3. CASE RunStep \/ CompareStep \/ UNCHANGED vars
  <2>1. UNCHANGED <<heap, slots, scenarios, plan>>
    BY <1>3 DEF RunStep, CompareStep, vars, scriptVars
  <2> QED  BY <2>1 DEF ScriptInv, Written, Compilable, Planable, IsList
<1> QED  BY <1>1, <1>2, <1>3 DEF Next

\* What the dispatcher takes of the plan.
LEMMA LoadedIsWellFormed ==
    ASSUME ScriptInv
    PROVE  WellFormed([i \in DOMAIN plan |->
             [steps |-> [j \in DOMAIN plan[i].steps |-> plan[i].steps[j].kind], rate |-> plan[i].rate]])
<1> DEFINE kinds(i) == [j \in DOMAIN plan[i].steps |-> plan[i].steps[j].kind]
           loaded == [i \in DOMAIN plan |-> [steps |-> kinds(i), rate |-> plan[i].rate]]
<1>1. DOMAIN loaded = DOMAIN plan
  OBVIOUS
<1>2. ASSUME NEW i \in DOMAIN plan
      PROVE  DOMAIN loaded[i] = {"steps", "rate"} /\ loaded[i].steps \in Seq(Kinds)
  <2>1. Planable(plan[i])
    BY DEF ScriptInv
  <2>2. PICK n \in Nat : DOMAIN plan[i].steps = 1..n
    BY <2>1 DEF Planable, IsList
  <2>3. kinds(i) \in [1..n -> Kinds]
    BY <2>1, <2>2 DEF Planable
  <2>4. loaded[i] = [steps |-> kinds(i), rate |-> plan[i].rate]
    OBVIOUS
  <2> HIDE DEF loaded, kinds
  <2>5. kinds(i) \in Seq(Kinds)
    BY <2>2, <2>3
  <2> QED  BY <2>4, <2>5
<1> HIDE DEF loaded
<1>3. WellFormed(loaded)
  BY <1>1, <1>2 DEF ScriptInv, WellFormed, IsList
<1> QED  BY <1>3 DEF loaded

-----------------------------------------------------------------------------
(* The groups of a dispatch                                                   *)

LEMMA SubPlanIsList ==
    ASSUME IsList(batch), NEW p
    PROVE  IsList(R!SubPlan(p)) /\ Len(R!SubPlan(p)) \in Nat
<1> DEFINE at == {k \in DOMAIN batch : R!ProtocolOf(job[batch[k]]) = p}
           places == R!InOrder(at)
<1>1. IsFiniteSet(at)
  BY ListIsFinite, FS_Subset
<1> HIDE DEF at
<1>2. PICK n \in Nat : DOMAIN places = 1..n
  BY <1>1, InOrderIsList DEF IsList
<1> HIDE DEF places
<1>3. R!SubPlan(p) = [k \in DOMAIN places |-> batch[places[k]]]
  BY DEF R!SubPlan, at, places
<1>4. DOMAIN R!SubPlan(p) = 1..n /\ Len(R!SubPlan(p)) = n
  BY <1>2, <1>3
<1> QED  BY <1>4 DEF IsList

LEMMA ServedIsFinite ==
    ASSUME NEW sub, IsList(sub)
    PROVE  /\ IsFiniteSet(R!Served(sub)) /\ R!Served(sub) \subseteq DOMAIN sub
           /\ IsList(R!InOrder(R!Served(sub)))
<1>1. R!Served(sub) \subseteq DOMAIN sub
  BY DEF R!Served
<1>2. IsFiniteSet(R!Served(sub))
  BY <1>1, ListIsFinite, FS_Subset
<1> QED  BY <1>1, <1>2, InOrderIsList

\* What a group that ends leaves: a task for each of its n scenarios.
Leaves(p, n, rows) ==
  /\ DOMAIN rows = 1..n /\ \A t \in 1..n : rows[t] \in Row
  /\ tasks'[p] \in Seq(Task) /\ DOMAIN tasks'[p] = 1..n
  /\ \A t \in 1..n : tasks'[p][t].total = R!TotalsOf(rows[t])
  /\ tasks' = [tasks EXCEPT ![p] = tasks'[p]]
  /\ everHard' = (everHard \/ \E t \in 1..n : rows[t].hard > 0)
  /\ everDone' = (everDone \/ \E t \in 1..n : rows[t].requests > 0)

LEMMA GroupLeavesTasks ==
    ASSUME CliAssumption, RunsType, NEW p \in Protocols, R!GroupEnds(p)
    PROVE  \E n \in Nat : \E rows : Leaves(p, n, rows)
<1> DEFINE sub == R!SubPlan(p)
           served == R!InOrder(R!Served(sub))
           kind == R!BackendFor(sub)
<1>1. PICK rows \in [DOMAIN served -> R!Possible(kind)] :
        /\ tasks' = [tasks EXCEPT ![p] = [t \in DOMAIN served |-> R!TaskStats(Len(sub), served[t], rows[t])]]
        /\ everHard' = (everHard \/ \E t \in DOMAIN rows : rows[t].hard > 0)
        /\ everDone' = (everDone \/ \E t \in DOMAIN rows : rows[t].requests > 0)
  BY DEF R!GroupEnds
<1> HIDE DEF sub
<1>2. IsList(sub) /\ Len(sub) \in Nat
  BY SubPlanIsList DEF RunsType, sub
<1>3. PICK n \in Nat : DOMAIN served = 1..n
  BY <1>2, ServedIsFinite DEF IsList
<1> HIDE DEF served, kind
<1> DEFINE task == [t \in 1..n |-> R!TaskStats(Len(sub), served[t], rows[t])]
<1>4. DOMAIN rows = 1..n /\ \A t \in 1..n : rows[t] \in Row
  BY <1>3, PossibleIsRow
<1>5. \A t \in 1..n : /\ task[t] \in Task
                      /\ task[t].total = R!TotalsOf(rows[t])
  <2> SUFFICES ASSUME NEW t \in 1..n
               PROVE  task[t] \in Task /\ task[t].total = R!TotalsOf(rows[t])
    OBVIOUS
  <2>1. task[t] = R!TaskStats(Len(sub), served[t], rows[t])
    OBVIOUS
  <2> HIDE DEF task
  <2>2. task[t] \in Task
    BY <1>2, <1>4, <2>1, TaskStatsIsTask
  <2> QED  BY <2>1, <2>2 DEF R!TaskStats
<1>6. DOMAIN task = 1..n
  OBVIOUS
<1>7. tasks'[p] = task /\ tasks' = [tasks EXCEPT ![p] = task]
  BY <1>1, <1>3 DEF RunsType
<1>8. task \in Seq(Task)
  <2>1. task \in [1..n -> Task]
    BY <1>5
  <2> HIDE DEF task
  <2> QED  BY <2>1
<1> HIDE DEF task
<1>9. Leaves(p, n, rows)
  BY <1>1, <1>4, <1>5, <1>6, <1>7, <1>8 DEF Leaves
<1> QED  BY <1>9

\* The statistics that the join adds up are those of all the groups.
Members(s) == {s[i] : i \in DOMAIN s}

LEMMA ConcatMembers ==
    ASSUME NEW T, NEW s \in Seq(T), NEW u \in Seq(T)
    PROVE  s \o u \in Seq(T) /\ Members(s \o u) = Members(s) \cup Members(u)
<1> DEFINE c == s \o u
<1>1. /\ Len(s) \in Nat /\ DOMAIN s = 1..Len(s)
      /\ Len(u) \in Nat /\ DOMAIN u = 1..Len(u)
  BY LenProperties
<1>2. /\ c \in Seq(T) /\ DOMAIN c = 1..(Len(s) + Len(u))
      /\ \A k \in 1..(Len(s) + Len(u)) : c[k] = IF k <= Len(s) THEN s[k] ELSE u[k - Len(s)]
  BY ConcatProperties, LenProperties
<1> HIDE DEF c
<1>3. ASSUME NEW i \in DOMAIN s PROVE i \in DOMAIN c /\ c[i] = s[i]
  BY <1>1, <1>2
<1>4. ASSUME NEW i \in DOMAIN u PROVE Len(s) + i \in DOMAIN c /\ c[Len(s) + i] = u[i]
  <2>1. /\ Len(s) + i \in 1..(Len(s) + Len(u)) /\ ~(Len(s) + i <= Len(s))
        /\ (Len(s) + i) - Len(s) = i
    BY <1>1
  <2> QED  BY <1>2, <2>1
<1>5. ASSUME NEW k \in DOMAIN c
      PROVE  \/ k \in DOMAIN s /\ c[k] = s[k]
             \/ k - Len(s) \in DOMAIN u /\ c[k] = u[k - Len(s)]
  BY <1>1, <1>2
<1>6. Members(c) \subseteq Members(s) \cup Members(u)
  BY <1>5 DEF Members
<1>7. Members(s) \subseteq Members(c) /\ Members(u) \subseteq Members(c)
  BY <1>3, <1>4 DEF Members
<1> QED  BY <1>2, <1>6, <1>7 DEF c

AllTasks == UNION {Members(tasks[p]) : p \in Protocols}

LEMMA CollectedIsAll ==
    ASSUME tasks \in [Protocols -> Seq(Task)]
    PROVE  R!Collected \in Seq(Task) /\ Members(R!Collected) = AllTasks
<1>1. /\ tasks["http"] \in Seq(Task) /\ tasks["sse"] \in Seq(Task) /\ tasks["ws"] \in Seq(Task)
  BY ProtocolNames
<1>2. AllTasks = Members(tasks["http"]) \cup Members(tasks["sse"]) \cup Members(tasks["ws"])
  BY ProtocolNames DEF AllTasks
<1>3. \A a, b, c \in Seq(Task) : /\ a \o b \o c \in Seq(Task)
                                 /\ Members(a \o b \o c) = Members(a) \cup Members(b) \cup Members(c)
  <2> SUFFICES ASSUME NEW a \in Seq(Task), NEW b \in Seq(Task), NEW c \in Seq(Task)
               PROVE  /\ a \o b \o c \in Seq(Task)
                      /\ Members(a \o b \o c) = Members(a) \cup Members(b) \cup Members(c)
    OBVIOUS
  <2> DEFINE ab == a \o b
  <2>1. ab \in Seq(Task) /\ Members(ab) = Members(a) \cup Members(b)
    BY ConcatMembers
  <2> HIDE DEF ab
  <2>2. ab \o c \in Seq(Task) /\ Members(ab \o c) = Members(ab) \cup Members(c)
    BY <2>1, ConcatMembers
  <2> QED  BY <2>1, <2>2 DEF ab
<1> QED  BY <1>1, <1>2, <1>3 DEF R!Collected

LEMMA MergeOfTasks ==
    ASSUME NEW all \in Seq(Task)
    PROVE  /\ R!Merge(all).total \in Row
           /\ R!Merge(all).total = R!AddAll([t \in DOMAIN all |-> all[t].total])
           /\ \A axis \in R!Axes :
                R!Merge(all).total[axis] > 0 <=> \E task \in Members(all) : task.total[axis] > 0
<1> DEFINE rows == [t \in DOMAIN all |-> all[t].total]
<1>1. IsFiniteSet(DOMAIN all) /\ \A t \in DOMAIN all : all[t] \in Task
  BY LenProperties, ListIsFinite DEF IsList
<1>2. DOMAIN rows = DOMAIN all /\ \A t \in DOMAIN all : rows[t] = all[t].total
  OBVIOUS
<1>3. R!Merge(all).total = R!AddAll(rows)
  BY DEF R!Merge
<1> HIDE DEF rows
<1>4. \A t \in DOMAIN rows : rows[t] \in Row
  BY <1>1, <1>2 DEF Task
<1>5. /\ R!AddAll(rows) \in Row
      /\ \A axis \in R!Axes : R!AddAll(rows)[axis] > 0 <=> \E t \in DOMAIN rows : rows[t][axis] > 0
  BY <1>1, <1>2, <1>4, AddAllIsRow
<1>6. \A axis : (\E t \in DOMAIN rows : rows[t][axis] > 0) <=>
                 \E task \in Members(all) : task.total[axis] > 0
  BY <1>2 DEF Members
<1>7. R!Merge(all).total = R!AddAll([t \in DOMAIN all |-> all[t].total])
  BY <1>3 DEF rows
<1> QED  BY <1>3, <1>5, <1>6, <1>7

SomeTask(axis) == \E task \in AllTasks : task.total[axis] > 0

-----------------------------------------------------------------------------
(* The exit code                                                              *)

Dispatched == stage \in {"planned", "dispatching", "running", "merged"}

\* A hard error is in the loop's flag or, until they are merged, in a task of
\* this dispatch, or in the summary; and so is what was done.
Accounted ==
  /\ stage \in {"planned", "dispatching"} =>
       (everHard => anyErrors) /\ (anyRequests => everDone)
  /\ stage = "running" =>
       (everHard => anyErrors \/ SomeTask("hard")) /\ (anyRequests \/ SomeTask("requests") => everDone)
  /\ stage = "merged" =>
       (everHard => R!ErrorsSoFar) /\ (R!RequestsSoFar => everDone)

ExitInv ==
  /\ RunsType
  /\ stage = "start" => /\ job = <<>> /\ args.verb = "none"
                        /\ ~everHard /\ ~everDone /\ ~anyErrors /\ ~anyRequests
  /\ stage = "running" => \A p \in Protocols : group[p] = "running" => tasks[p] = <<>>
  /\ stage = "swept" => args.verb = "curve"
  /\ args.verb # "curve" =>
       /\ Accounted
       /\ Dispatched /\ ~R!Serial => ~anyErrors /\ ~anyRequests
  /\ ExitZeroIsClean

LEMMA ExitStart == Init => ExitInv
<1> SUFFICES ASSUME Init PROVE ExitInv
  OBVIOUS
<1>1. /\ stage = "start" /\ job = <<>> /\ batch = <<>> /\ plan = <<>>
      /\ args = [verb |-> "none", rate |-> R!Nothing, saturate |-> FALSE, parallel |-> FALSE, http2 |-> FALSE]
      /\ group = [p \in Protocols |-> "off"] /\ tasks = [p \in Protocols |-> <<>>]
      /\ everHard = FALSE /\ everDone = FALSE /\ anyErrors = FALSE /\ anyRequests = FALSE
      /\ summary = R!Merge(<<>>)
  BY DEF Init, S!ScriptInit, R!RunsInit, Protocols
<1>2. tasks \in [Protocols -> Seq(Task)]
  BY <1>1
<1>3. summary.total \in Row
  BY <1>1, MergeOfTasks, EmptySeq
<1>4. RunsType
  BY <1>1, <1>2, <1>3, OneIsList DEF RunsType, Stages
<1> QED  BY <1>1, <1>4 DEF ExitInv, Accounted, Dispatched, ExitZeroIsClean, R!ExitZeroIsClean

LEMMA ExitBegins ==
    ASSUME ExitInv, Begins
    PROVE  ExitInv'
<1>1. /\ batch' = batch /\ group' = group /\ tasks' = tasks /\ summary' = summary
      /\ everHard' = everHard /\ everDone' = everDone
      /\ anyErrors' = anyErrors /\ anyRequests' = anyRequests
  BY DEF Begins, R!Idle
<1>2. /\ stage = "start" /\ ~everHard /\ ~everDone /\ ~anyErrors /\ ~anyRequests /\ job = <<>>
  BY DEF ExitInv, Begins
<1>3. IsList(job')
  BY <1>2, OneIsList DEF Begins, WellFormed
<1>4. RunsType'
  BY <1>1, <1>3 DEF RunsType, ExitInv, Begins, IsList, Stages
<1>5. CASE stage' = "planned"
  BY <1>1, <1>2, <1>4, <1>5 DEF ExitInv, Accounted, Dispatched, ExitZeroIsClean, R!ExitZeroIsClean
<1>6. CASE stage' = "exited" /\ job' = <<>>
  BY <1>1, <1>2, <1>4, <1>6 DEF ExitInv, Accounted, Dispatched, ExitZeroIsClean, R!ExitZeroIsClean
<1> QED  BY <1>2, <1>5, <1>6 DEF Begins

LEMMA ExitDispatch ==
    ASSUME ExitInv, R!Dispatch
    PROVE  ExitInv'
<1>1. /\ stage = "planned" /\ stage' = "dispatching" /\ args' = args /\ job' = job
      /\ group' = group /\ tasks' = tasks /\ summary' = summary
      /\ everHard' = everHard /\ everDone' = everDone
      /\ anyErrors' = anyErrors /\ anyRequests' = anyRequests
      /\ batch' = IF R!Serial THEN <<next>> ELSE [i \in DOMAIN job |-> i]
  BY DEF R!Dispatch
<1>2. IsList(batch')
  BY <1>1, OneIsList DEF ExitInv, RunsType, IsList
<1>3. RunsType'
  BY <1>1, <1>2 DEF RunsType, ExitInv, IsList, Stages
<1>4. R!Serial' = R!Serial
  BY <1>1 DEF R!Serial
<1> QED  BY <1>1, <1>3, <1>4 DEF ExitInv, Accounted, Dispatched, ExitZeroIsClean, R!ExitZeroIsClean

LEMMA ExitSpawn ==
    ASSUME ExitInv, R!Spawn
    PROVE  ExitInv'
<1>1. /\ stage = "dispatching" /\ stage' = "running" /\ args' = args /\ job' = job
      /\ batch' = batch /\ summary' = summary
      /\ group' = [p \in Protocols |-> IF p \in R!Active THEN "running" ELSE "off"]
      /\ tasks' = [p \in Protocols |-> <<>>]
      /\ everHard' = everHard /\ everDone' = everDone
      /\ anyErrors' = anyErrors /\ anyRequests' = anyRequests
  BY DEF R!Spawn, Protocols
<1>2. tasks' \in [Protocols -> Seq(Task)] /\ \A p \in Protocols : tasks'[p] = <<>>
  BY <1>1
<1>3. RunsType'
  BY <1>1, <1>2 DEF RunsType, ExitInv, IsList, Stages
<1>4. R!Serial' = R!Serial
  BY <1>1 DEF R!Serial
<1>5. AllTasks' = {}
  BY <1>2 DEF AllTasks, Members
<1>6. args.verb # "curve" => Accounted'
  BY <1>1, <1>5 DEF ExitInv, Accounted, SomeTask
<1> QED  BY <1>1, <1>2, <1>3, <1>4, <1>6 DEF ExitInv, Dispatched, ExitZeroIsClean, R!ExitZeroIsClean

\* What of it counts.
GroupCounts(p, n, rows) ==
  /\ SomeTask("hard")' <=> SomeTask("hard") \/ \E t \in 1..n : rows[t].hard > 0
  /\ SomeTask("requests")' <=> SomeTask("requests") \/ \E t \in 1..n : rows[t].requests > 0

LEMMA GroupAddsTasks ==
    ASSUME CliAssumption, ExitInv, NEW p \in Protocols, R!GroupEnds(p)
    PROVE  \E n \in Nat : \E rows : Leaves(p, n, rows) /\ GroupCounts(p, n, rows)
<1>1. stage = "running" /\ group[p] = "running"
  BY DEF R!GroupEnds
<1>0. PICK n \in Nat : \E rows : Leaves(p, n, rows)
  BY GroupLeavesTasks DEF ExitInv
<1>2. PICK rows : Leaves(p, n, rows)
  BY <1>0
<1> USE DEF Leaves
<1>3. /\ tasks \in [Protocols -> Seq(Task)] /\ tasks[p] = <<>>
      /\ \A q \in Protocols : q # p => tasks'[q] = tasks[q]
  BY <1>1, <1>2 DEF ExitInv, RunsType
<1>4. /\ (\E t \in 1..n : rows[t].hard > 0) <=> \E task \in Members(tasks'[p]) : task.total["hard"] > 0
      /\ (\E t \in 1..n : rows[t].requests > 0) <=> \E task \in Members(tasks'[p]) : task.total["requests"] > 0
  <2>1. \A t \in 1..n : /\ tasks'[p][t].total["hard"] = rows[t].hard
                        /\ tasks'[p][t].total["requests"] = rows[t].requests
    BY <1>2, TotalsIsRow
  <2>2. Members(tasks'[p]) = {tasks'[p][t] : t \in 1..n}
    BY <1>2 DEF Members
  <2> QED  BY <2>1, <2>2
<1>5. AllTasks' = AllTasks \cup Members(tasks'[p])
  <2>1. Members(tasks[p]) = {}
    BY <1>3 DEF Members
  <2>2. \A q \in Protocols : q # p => Members(tasks'[q]) = Members(tasks[q])
    BY <1>3
  <2>3. /\ AllTasks = UNION {Members(tasks[q]) : q \in Protocols}
        /\ AllTasks' = UNION {Members(tasks'[q]) : q \in Protocols}
    BY DEF AllTasks, Members
  <2> QED  BY <2>1, <2>2, <2>3
<1>6. \A axis : SomeTask(axis)' <=> SomeTask(axis) \/ \E task \in Members(tasks'[p]) : task.total[axis] > 0
  BY <1>5 DEF SomeTask
<1> QED  BY <1>2, <1>4, <1>6 DEF GroupCounts

LEMMA ExitGroupEnds ==
    ASSUME CliAssumption, ExitInv, NEW p \in Protocols, R!GroupEnds(p)
    PROVE  ExitInv'
<1>1. /\ stage = "running" /\ stage' = stage /\ args' = args /\ job' = job
      /\ batch' = batch /\ summary' = summary /\ group[p] = "running"
      /\ group' = [group EXCEPT ![p] = "ended"]
      /\ anyErrors' = anyErrors /\ anyRequests' = anyRequests
  BY DEF R!GroupEnds
<1>0. PICK n \in Nat : \E rows : Leaves(p, n, rows) /\ GroupCounts(p, n, rows)
  BY GroupAddsTasks
<1>2. PICK rows : Leaves(p, n, rows) /\ GroupCounts(p, n, rows)
  BY <1>0
<1> USE DEF Leaves
<1>3. /\ tasks \in [Protocols -> Seq(Task)]
      /\ tasks' \in [Protocols -> Seq(Task)]
      /\ \A q \in Protocols : q # p => tasks'[q] = tasks[q]
  BY <1>1, <1>2 DEF ExitInv, RunsType
<1>4. RunsType'
  BY <1>1, <1>2, <1>3 DEF RunsType, ExitInv, IsList
<1>5. args.verb # "curve" => Accounted'
  BY <1>1, <1>2 DEF ExitInv, Accounted, GroupCounts
<1>6. \A q \in Protocols : group'[q] = "running" => tasks'[q] = <<>>
  BY <1>1, <1>3 DEF ExitInv, RunsType
<1>7. R!Serial' = R!Serial
  BY <1>1 DEF R!Serial
<1> QED  BY <1>1, <1>4, <1>5, <1>6, <1>7 DEF ExitInv, Dispatched, ExitZeroIsClean, R!ExitZeroIsClean

LEMMA ExitGroupPanics ==
    ASSUME ExitInv, NEW p \in Protocols, R!GroupPanics(p)
    PROVE  ExitInv'
<1>1. /\ stage = "running" /\ args' = args /\ job' = job /\ tasks' = tasks
      /\ batch' = batch /\ summary' = summary
      /\ group' = [group EXCEPT ![p] = "panicked"]
      /\ everHard' = everHard /\ everDone' = everDone
      /\ anyErrors' = anyErrors /\ anyRequests' = anyRequests
      /\ \/ stage' = "exited" /\ exit' = 101
         \/ stage' = "running" /\ exit' = exit
  BY DEF R!GroupPanics, R!Exit
<1>2. RunsType'
  BY <1>1 DEF RunsType, ExitInv, IsList, Stages
<1>3. \A q \in Protocols : group'[q] = "running" => tasks'[q] = <<>>
  BY <1>1 DEF ExitInv, RunsType
<1>4. R!Serial' = R!Serial /\ \A axis : SomeTask(axis)' <=> SomeTask(axis)
  BY <1>1 DEF R!Serial, SomeTask, AllTasks
<1> QED  BY <1>1, <1>2, <1>3, <1>4 DEF ExitInv, Accounted, Dispatched, ExitZeroIsClean, R!ExitZeroIsClean

LEMMA ExitJoin ==
    ASSUME ExitInv, R!Join
    PROVE  ExitInv'
<1>1. /\ stage = "running" /\ stage' = "merged" /\ args' = args /\ job' = job /\ tasks' = tasks
      /\ batch' = batch /\ group' = group /\ summary' = R!Merge(R!Collected)
      /\ everHard' = everHard /\ everDone' = everDone
      /\ anyErrors' = anyErrors /\ anyRequests' = anyRequests
  BY DEF R!Join
<1>2. R!Collected \in Seq(Task) /\ Members(R!Collected) = AllTasks
  BY CollectedIsAll DEF ExitInv, RunsType
<1>3. /\ summary'.total \in Row
      /\ \A axis \in R!Axes : summary'.total[axis] > 0 <=> SomeTask(axis)
  BY <1>1, <1>2, MergeOfTasks DEF SomeTask
<1>4. RunsType'
  BY <1>1, <1>3 DEF RunsType, ExitInv, IsList, Stages
<1>5. R!Serial' = R!Serial
  BY <1>1 DEF R!Serial
<1>6. summary'.total.hard > 0 <=> SomeTask("hard")
  BY <1>3 DEF R!Axes
<1>7. summary'.total.requests > 0 <=> SomeTask("requests")
  BY <1>3 DEF R!Axes
<1>8. args.verb # "curve" => Accounted'
  BY <1>1, <1>6, <1>7 DEF ExitInv, Accounted, R!ErrorsSoFar, R!RequestsSoFar
<1> QED  BY <1>1, <1>4, <1>5, <1>8 DEF ExitInv, Dispatched, ExitZeroIsClean, R!ExitZeroIsClean

LEMMA ExitReports ==
    ASSUME ExitInv, R!DryRun \/ R!RenderFails \/ R!Rendered \/ R!Swept
    PROVE  ExitInv'
<1>1. /\ stage' = "exited" /\ args' = args
      /\ batch' = batch /\ group' = group /\ tasks' = tasks
      /\ everHard' = everHard /\ everDone' = everDone
      /\ anyErrors' = anyErrors /\ anyRequests' = anyRequests
  BY DEF R!DryRun, R!RenderFails, R!Rendered, R!Swept, R!Exit, R!Idle
<1>2. IsList(job') /\ summary'.total \in Row
  <2>1. CASE R!Swept
    BY <2>1, MergeOfTasks, EmptySeq DEF R!Swept, ExitInv, RunsType, IsList
  <2>2. CASE R!DryRun
    BY <2>2, OneIsList DEF R!DryRun, R!Idle, ExitInv, RunsType
  <2>3. CASE R!RenderFails \/ R!Rendered
    BY <2>3 DEF R!RenderFails, R!Rendered, R!Idle, ExitInv, RunsType, IsList
  <2> QED  BY <2>1, <2>2, <2>3
<1>3. RunsType'
  BY <1>1, <1>2 DEF RunsType, ExitInv, IsList, Stages
<1>4. ExitZeroIsClean'
  <2>1. CASE R!Swept
    BY <1>1, <2>1 DEF R!Swept, ExitInv, ExitZeroIsClean, R!ExitZeroIsClean
  <2>2. CASE R!DryRun
    BY <2>2 DEF R!DryRun, ExitZeroIsClean, R!ExitZeroIsClean
  <2>3. CASE R!RenderFails
    BY <2>3 DEF R!RenderFails, R!Exit, ExitZeroIsClean, R!ExitZeroIsClean
  <2>4. CASE R!Rendered
    <3>1. exit' = 0 => ~(summary.total.hard > 0) /\ summary.total.requests > 0
      BY <2>4 DEF R!Rendered, R!Exit, R!Verdict
    <3>2. /\ ~anyErrors
          /\ everHard => R!ErrorsSoFar
          /\ R!RequestsSoFar => everDone
      BY <2>4 DEF R!Rendered, ExitInv, Accounted, Dispatched
    <3> QED  BY <1>1, <3>1, <3>2 DEF R!ErrorsSoFar, R!RequestsSoFar, ExitZeroIsClean, R!ExitZeroIsClean
  <2> QED  BY <2>1, <2>2, <2>3, <2>4
<1> QED  BY <1>1, <1>3, <1>4 DEF ExitInv, Accounted, Dispatched

LEMMA ExitNextScenario ==
    ASSUME ExitInv, R!NextScenario
    PROVE  ExitInv'
<1>1. /\ stage = "merged" /\ R!Serial /\ args' = args /\ job' = job
      /\ batch' = batch /\ group' = group /\ tasks' = tasks /\ summary' = summary
      /\ everHard' = everHard /\ everDone' = everDone
      /\ \/ /\ anyErrors' = R!ErrorsSoFar /\ anyRequests' = R!RequestsSoFar
            /\ stage' = "planned"
         \/ /\ stage' = "exited" /\ exit' = R!Verdict(R!ErrorsSoFar, R!RequestsSoFar)
            /\ anyErrors' = anyErrors /\ anyRequests' = anyRequests
  BY DEF R!NextScenario, R!Exit
<1>2. anyErrors' \in BOOLEAN /\ anyRequests' \in BOOLEAN
  BY <1>1 DEF ExitInv, RunsType, R!ErrorsSoFar, R!RequestsSoFar
<1>3. RunsType'
  BY <1>1, <1>2 DEF RunsType, ExitInv, IsList, Stages
<1>4. R!Serial'
  BY <1>1 DEF R!Serial
<1>5. args.verb # "curve" => Accounted'
  BY <1>1 DEF ExitInv, Accounted
<1>6. ExitZeroIsClean'
  BY <1>1 DEF ExitInv, Accounted, R!Verdict, ExitZeroIsClean, R!ExitZeroIsClean
<1> QED  BY <1>1, <1>3, <1>4, <1>5, <1>6 DEF ExitInv

LEMMA ExitCurvePoint ==
    ASSUME ExitInv, R!CurvePoint
    PROVE  ExitInv'
<1>1. /\ stage = "merged" /\ args.verb = "curve"
      /\ batch' = batch /\ group' = group /\ tasks' = tasks /\ summary' = summary
      /\ everHard' = everHard /\ everDone' = everDone
      /\ anyErrors' = anyErrors /\ anyRequests' = anyRequests
  BY DEF R!CurvePoint
<1>2. /\ stage' \in {"swept", "planned"}
      /\ DOMAIN args' = DOMAIN args /\ args'.verb = "curve" /\ DOMAIN job' = DOMAIN job
  BY <1>1 DEF R!CurvePoint, ExitInv, RunsType
<1>3. RunsType'
  BY <1>1, <1>2 DEF RunsType, ExitInv, IsList, Stages
<1> QED  BY <1>1, <1>2, <1>3 DEF ExitInv, ExitZeroIsClean, R!ExitZeroIsClean

LEMMA ExitUnchanged ==
    ASSUME ExitInv, UNCHANGED runVars
    PROVE  ExitInv'
<1>1. /\ stage' = stage /\ args' = args /\ job' = job /\ batch' = batch /\ group' = group
      /\ tasks' = tasks /\ summary' = summary /\ everHard' = everHard /\ everDone' = everDone
      /\ anyErrors' = anyErrors /\ anyRequests' = anyRequests /\ exit' = exit
  BY DEF runVars
<1>2. RunsType'
  BY <1>1 DEF ExitInv, RunsType, IsList
<1> QED  BY <1>1, <1>2 DEF ExitInv, Accounted, Dispatched, R!Serial, SomeTask, AllTasks,
            R!ErrorsSoFar, R!RequestsSoFar, ExitZeroIsClean, R!ExitZeroIsClean

LEMMA ExitStep ==
    ASSUME CliAssumption, ScriptInv, ExitInv, [Next]_vars
    PROVE  ExitInv'
<1>1. CASE Load \/ CompareStep \/ UNCHANGED vars
  <2>1. UNCHANGED runVars
    BY <1>1 DEF Load, CompareStep, vars, runVars
  <2> QED  BY <2>1, ExitUnchanged
<1>2. CASE Start
  <2> DEFINE loaded == [i \in DOMAIN plan |->
               [steps |-> [j \in DOMAIN plan[i].steps |-> plan[i].steps[j].kind], rate |-> plan[i].rate]]
  <2>1. WellFormed(loaded)
    BY LoadedIsWellFormed
  <2>2. R!RunScript(loaded) \/ R!ScriptFails
    BY <1>2 DEF Start
  <2> HIDE DEF loaded
  <2> QED  BY <2>1, <2>2, ScriptBegins, OthersBegin, ExitBegins
<1>3. CASE RunStep
  <2>1. CASE R!Bare \/ R!Probe \/ R!Curve
    BY <2>1, BareBegins, OthersBegin, ExitBegins
  <2>2. CASE R!DryRun \/ R!RenderFails \/ R!Rendered \/ R!Swept
    BY <2>2, ExitReports
  <2>3. CASE R!Dispatch \/ R!Spawn \/ R!Join \/ R!NextScenario \/ R!CurvePoint
    BY <2>3, ExitDispatch, ExitSpawn, ExitJoin, ExitNextScenario, ExitCurvePoint
  <2>4. CASE \E p \in Protocols : R!GroupEnds(p) \/ R!GroupPanics(p)
    BY <2>4, ExitGroupEnds, ExitGroupPanics
  <2> QED  BY <1>3, <2>1, <2>2, <2>3, <2>4 DEF RunStep, R!RunsNext, Protocols
<1> QED  BY <1>1, <1>2, <1>3 DEF Next

\* A bare run, a probe or a script exits with 0 only when some request was done
\* and no group that ended had put down a hard error, in none of its dispatches,
\* in whatever order the protocol groups ended (run_plan, Summary::merge,
\* any_errors and any_requests in main). What a group that panicked had put down
\* is dropped before the exit code is made: see HardErrorsFail.
THEOREM ExitZeroMeansClean == Spec => []ExitZeroIsClean
<1>1. Init => ScriptInv /\ ExitInv
  BY ScriptStart, ExitStart
<1>2. ScriptInv /\ ExitInv /\ [Next]_vars => ScriptInv' /\ ExitInv'
  BY CliAssumption, ScriptNextStep, ExitStep
<1>3. ExitInv => ExitZeroIsClean
  BY DEF ExitInv
<1> QED  BY <1>1, <1>2, <1>3, PTL DEF Spec

-----------------------------------------------------------------------------
(* The numbers of a set in order                                              *)

Injective(f) == \A x, y \in DOMAIN f : f[x] = f[y] => x = y

LEMMA InOrderPlaces ==
    ASSUME NEW T \in SUBSET Nat, IsFiniteSet(T), NEW k \in 1..Cardinality(T)
    PROVE  R!InOrder(T)[k] \in T /\ Rank(T, R!InOrder(T)[k]) = k
<1> DEFINE placed(j) == CHOOSE x \in T : R!Cardinality({y \in T : y <= x}) = j
<1>1. R!InOrder(T)[k] = placed(k)
  <2>1. R!InOrder(T) = [j \in 1..R!Cardinality(T) |-> placed(j)]
    BY DEF R!InOrder
  <2>2. R!Cardinality(T) = Cardinality(T)
    BY RunsCardinality
  <2> HIDE DEF placed
  <2> QED  BY <2>1, <2>2
<1>2. \A x : R!Cardinality({y \in T : y <= x}) = Rank(T, x)
  BY RunsCardinality DEF Rank
<1>3. \E x \in T : R!Cardinality({y \in T : y <= x}) = k
  BY <1>2, RankIsTaken
<1>4. placed(k) \in T /\ R!Cardinality({y \in T : y <= placed(k)}) = k
  BY <1>3
<1> HIDE DEF placed
<1> QED  BY <1>1, <1>2, <1>4

\* Each number has a place, and one only.
LEMMA InOrderIsAll ==
    ASSUME NEW T \in SUBSET Nat, IsFiniteSet(T)
    PROVE  /\ Injective(R!InOrder(T))
           /\ \A k \in DOMAIN R!InOrder(T) : R!InOrder(T)[k] \in T
           /\ \A x \in T : \E k \in DOMAIN R!InOrder(T) : R!InOrder(T)[k] = x
<1> DEFINE o == R!InOrder(T)
<1>1. DOMAIN o = 1..Cardinality(T)
  BY InOrderIsList
<1>2. \A k \in DOMAIN o : o[k] \in T /\ Rank(T, o[k]) = k
  BY <1>1, InOrderPlaces
<1> HIDE DEF o
<1>3. Injective(o)
  BY <1>2 DEF Injective
<1>4. ASSUME NEW x \in T PROVE \E k \in DOMAIN o : o[k] = x
  <2> DEFINE k == Rank(T, x)
  <2>1. k \in DOMAIN o
    BY <1>1, RankType
  <2> HIDE DEF k
  <2>2. o[k] \in T /\ Rank(T, o[k]) = k
    BY <1>2, <2>1
  <2>3. o[k] = x
    <3>1. Rank(T, o[k]) = Rank(T, x)
      BY <2>2 DEF k
    <3> QED  BY <2>2, <3>1, RankIsOfOne
  <2> QED  BY <2>1, <2>3
<1> QED  BY <1>2, <1>3, <1>4 DEF o

\* The numbers up to n are in order.
LEMMA InOrderOfAll ==
    ASSUME NEW n \in Nat
    PROVE  DOMAIN R!InOrder(1..n) = 1..n /\ \A k \in 1..n : R!InOrder(1..n)[k] = k
<1> DEFINE T == 1..n
<1>1. T \in SUBSET Nat /\ IsFiniteSet(T) /\ Cardinality(T) = n
  <2>1. 1 \in Int /\ n \in Int /\ T \in SUBSET Nat
    OBVIOUS
  <2> QED  BY <2>1, FS_Interval
<1>2. ASSUME NEW k \in T PROVE Rank(T, k) = k
  <2>1. {y \in T : y <= k} = 1..k /\ 1 \in Int /\ k \in Int /\ k \in Nat /\ k >= 1
    OBVIOUS
  <2>2. Cardinality(1..k) = k
    BY <2>1, FS_Interval
  <2> QED  BY <2>1, <2>2 DEF Rank
<1> HIDE DEF T
<1>3. DOMAIN R!InOrder(T) = 1..n
  BY <1>1, InOrderIsList
<1>4. ASSUME NEW k \in 1..n PROVE R!InOrder(T)[k] = k
  <2> DEFINE x == R!InOrder(T)[k]
  <2>1. x \in T /\ Rank(T, x) = k
    BY <1>1, InOrderPlaces
  <2> HIDE DEF x
  <2>2. Rank(T, x) = x
    BY <1>2, <2>1
  <2> QED  BY <2>1, <2>2 DEF x
<1> QED  BY <1>3, <1>4 DEF T

-----------------------------------------------------------------------------
(* The groups' scenarios                                                      *)

ServedBy(p) == R!InOrder(R!Served(R!SubPlan(p)))

\* The scenarios that a group has tasks for, and the tasks when they did d.
Places(p) == [t \in DOMAIN ServedBy(p) |-> R!SubPlan(p)[ServedBy(p)[t]]]
TasksOf(p, d) ==
  [t \in DOMAIN ServedBy(p) |-> R!TaskStats(Len(R!SubPlan(p)), ServedBy(p)[t], d[Places(p)[t]])]

\* The dispatch is of different scenarios of the plan.
BatchInv ==
  /\ IsList(batch) /\ Injective(batch)
  /\ \A k \in DOMAIN batch : batch[k] \in DOMAIN job

LEMMA ListOfNumbers ==
    ASSUME NEW s, IsList(s), NEW T \in SUBSET DOMAIN s
    PROVE  T \in SUBSET Nat /\ IsFiniteSet(T)
<1>1. T \in SUBSET Nat
  BY DEF IsList
<1> QED  BY <1>1, ListIsFinite, FS_Subset

LEMMA SubPlanPlaces ==
    ASSUME BatchInv, NEW p
    PROVE  LET sub == R!SubPlan(p)
           IN /\ IsList(sub) /\ Injective(sub)
              /\ \A k \in DOMAIN sub : /\ sub[k] \in DOMAIN job /\ R!ProtocolOf(job[sub[k]]) = p
                                       /\ \E m \in DOMAIN batch : sub[k] = batch[m]
              /\ \A m \in DOMAIN batch : R!ProtocolOf(job[batch[m]]) = p => \E k \in DOMAIN sub : sub[k] = batch[m]
<1> DEFINE at == {k \in DOMAIN batch : R!ProtocolOf(job[batch[k]]) = p}
           places == R!InOrder(at)
           sub == R!SubPlan(p)
<1>1. at \in SUBSET DOMAIN batch /\ at \in SUBSET Nat /\ IsFiniteSet(at)
  BY ListOfNumbers DEF BatchInv
<1>2. sub = [k \in DOMAIN places |-> batch[places[k]]]
  BY DEF R!SubPlan
<1>3. \A k \in at : R!ProtocolOf(job[batch[k]]) = p
  OBVIOUS
<1>4. \A k \in DOMAIN batch : R!ProtocolOf(job[batch[k]]) = p => k \in at
  OBVIOUS
<1> HIDE DEF at, places, sub
<1>5. /\ Injective(places) /\ \A k \in DOMAIN places : places[k] \in at
      /\ \A x \in at : \E k \in DOMAIN places : places[k] = x
  BY <1>1, InOrderIsAll DEF places
<1>6. IsList(sub)
  BY SubPlanIsList DEF BatchInv, sub
<1>7. DOMAIN sub = DOMAIN places /\ \A k \in DOMAIN sub : sub[k] = batch[places[k]]
  BY <1>2
<1>8. Injective(sub)
  <2> SUFFICES ASSUME NEW x \in DOMAIN sub, NEW y \in DOMAIN sub, sub[x] = sub[y] PROVE x = y
    BY DEF Injective
  <2>1. batch[places[x]] = batch[places[y]] /\ places[x] \in DOMAIN batch /\ places[y] \in DOMAIN batch
    BY <1>1, <1>5, <1>7
  <2>2. places[x] = places[y]
    BY <2>1 DEF BatchInv, Injective
  <2> QED  BY <1>5, <1>7, <2>2 DEF Injective
<1>9. \A k \in DOMAIN sub : /\ sub[k] \in DOMAIN job /\ R!ProtocolOf(job[sub[k]]) = p
                            /\ \E m \in DOMAIN batch : sub[k] = batch[m]
  BY <1>1, <1>3, <1>5, <1>7 DEF BatchInv
<1>10. \A m \in DOMAIN batch : R!ProtocolOf(job[batch[m]]) = p => \E k \in DOMAIN sub : sub[k] = batch[m]
  BY <1>4, <1>5, <1>7
<1> QED  BY <1>6, <1>8, <1>9, <1>10 DEF sub

LEMMA ServedPlaces ==
    ASSUME BatchInv, NEW p
    PROVE  /\ IsList(ServedBy(p)) /\ Injective(ServedBy(p))
           /\ \A t \in DOMAIN ServedBy(p) : ServedBy(p)[t] \in R!Served(R!SubPlan(p))
           /\ \A k \in R!Served(R!SubPlan(p)) : \E t \in DOMAIN ServedBy(p) : ServedBy(p)[t] = k
           /\ R!Served(R!SubPlan(p)) \subseteq DOMAIN R!SubPlan(p)
<1> DEFINE sub == R!SubPlan(p)
           set == R!Served(sub)
<1>1. IsList(sub)
  BY SubPlanPlaces
<1>2. set \in SUBSET DOMAIN sub /\ IsFiniteSet(set) /\ IsList(R!InOrder(set))
  BY <1>1, ServedIsFinite
<1>3. set \in SUBSET Nat
  BY <1>1, <1>2, ListOfNumbers
<1>4. ServedBy(p) = R!InOrder(set)
  BY DEF ServedBy
<1> HIDE DEF sub, set
<1> QED  BY <1>2, <1>3, <1>4, InOrderIsAll DEF sub, set

\* They are scenarios of the group's protocol, each once.
LEMMA PlacesAreScenarios ==
    ASSUME BatchInv, NEW p
    PROVE  /\ IsList(Places(p)) /\ DOMAIN Places(p) = DOMAIN ServedBy(p) /\ Injective(Places(p))
           /\ \A t \in DOMAIN Places(p) :
                /\ Places(p)[t] = R!SubPlan(p)[ServedBy(p)[t]]
                /\ Places(p)[t] \in DOMAIN job /\ R!ProtocolOf(job[Places(p)[t]]) = p
<1> DEFINE sub == R!SubPlan(p)
           served == ServedBy(p)
           places == Places(p)
<1>1. places = [t \in DOMAIN served |-> sub[served[t]]]
  BY DEF Places
<1> HIDE DEF sub, served, places
<1>2. /\ Injective(sub)
      /\ \A k \in DOMAIN sub : sub[k] \in DOMAIN job /\ R!ProtocolOf(job[sub[k]]) = p
  BY SubPlanPlaces DEF sub
<1>3. IsList(served) /\ Injective(served) /\ \A t \in DOMAIN served : served[t] \in DOMAIN sub
  BY ServedPlaces DEF sub, served
<1>4. DOMAIN places = DOMAIN served /\ \A t \in DOMAIN places : places[t] = sub[served[t]]
  BY <1>1
<1>5. Injective(places)
  BY <1>2, <1>3, <1>4 DEF Injective
<1>6. IsList(places)
  BY <1>3, <1>4 DEF IsList
<1>7. \A t \in DOMAIN places : places[t] \in DOMAIN job /\ R!ProtocolOf(job[places[t]]) = p
  BY <1>2, <1>3, <1>4
<1> QED  BY <1>4, <1>5, <1>6, <1>7 DEF sub, served, places

\* No scenario is in two groups.
LEMMA GroupsAreApart ==
    ASSUME BatchInv, NEW p, NEW q, NEW t \in DOMAIN Places(p), NEW u \in DOMAIN Places(q),
           Places(p)[t] = Places(q)[u]
    PROVE  p = q
<1>1. R!ProtocolOf(job[Places(p)[t]]) = p
  BY PlacesAreScenarios
<1>2. R!ProtocolOf(job[Places(q)[u]]) = q
  BY PlacesAreScenarios
<1> QED  BY <1>1, <1>2

LEMMA GroupsStay ==
    ASSUME UNCHANGED <<batch, job, args>>, NEW p
    PROVE  /\ R!SubPlan(p)' = R!SubPlan(p) /\ ServedBy(p)' = ServedBy(p) /\ Places(p)' = Places(p)
           /\ R!BackendFor(R!SubPlan(p))' = R!BackendFor(R!SubPlan(p))
           /\ R!Active' = R!Active
           /\ TasksOf(p, did)' = TasksOf(p, did')
<1>1. R!SubPlan(p)' = R!SubPlan(p)
  BY DEF R!SubPlan
<1>2. R!BackendFor(R!SubPlan(p))' = R!BackendFor(R!SubPlan(p))
  BY <1>1 DEF R!BackendFor, R!FirstWireStep, R!AnyIsCold
<1>3. R!Served(R!SubPlan(p))' = R!Served(R!SubPlan(p))
  BY <1>1, <1>2 DEF R!Served
<1>4. ServedBy(p)' = ServedBy(p)
  BY <1>3 DEF ServedBy
<1>5. Places(p)' = Places(p)
  BY <1>1, <1>4 DEF Places
<1>6. TasksOf(p, did)' = TasksOf(p, did')
  BY <1>1, <1>4, <1>5 DEF TasksOf
<1>7. R!Active' = R!Active
  BY DEF R!Active, R!SubPlan
<1> QED  BY <1>1, <1>2, <1>4, <1>5, <1>6, <1>7

-----------------------------------------------------------------------------
(* What the groups did                                                        *)

\* The tasks of the groups that ended are what their scenarios did; the others
\* did nothing.
DidByGroups ==
  /\ did \in [DOMAIN job -> Row]
  /\ \A p \in Protocols :
       /\ group[p] = "off" <=> p \notin R!Active
       /\ group[p] = "ended" =>
            /\ tasks[p] = TasksOf(p, did)
            /\ \A t \in DOMAIN Places(p) : did[Places(p)[t]] \in R!Possible(R!BackendFor(R!SubPlan(p)))
       /\ group[p] # "ended" => tasks[p] = <<>>
  /\ \A i \in DOMAIN job : did[i] # R!Zero =>
       \E p \in Protocols : group[p] = "ended" /\ \E t \in DOMAIN Places(p) : Places(p)[t] = i
  /\ R!Cardinality(R!Active) = 1 => \A p \in Protocols : group[p] # "panicked"

LEMMA GroupDid ==
    ASSUME CliAssumption, BatchInv, NEW p \in Protocols, R!GroupEnds(p),
           did \in [DOMAIN job -> Row], tasks \in [Protocols -> Seq(Task)]
    PROVE  /\ tasks' = [tasks EXCEPT ![p] = TasksOf(p, did')]
           /\ \A t \in DOMAIN Places(p) : did'[Places(p)[t]] \in R!Possible(R!BackendFor(R!SubPlan(p)))
           /\ \A i \in DOMAIN job : (\A t \in DOMAIN Places(p) : Places(p)[t] # i) => did'[i] = did[i]
           /\ did' \in [DOMAIN job -> Row]
           /\ everDone' <=> everDone \/ \E t \in DOMAIN Places(p) : did'[Places(p)[t]].requests > 0
<1> DEFINE sub == R!SubPlan(p)
           served == ServedBy(p)
           places == Places(p)
           kind == R!BackendFor(sub)
<1>1. PICK rows \in [DOMAIN served -> R!Possible(kind)] :
        /\ tasks' = [tasks EXCEPT ![p] = [t \in DOMAIN served |-> R!TaskStats(Len(sub), served[t], rows[t])]]
        /\ did' = [i \in DOMAIN job |->
                     IF \E t \in DOMAIN served : sub[served[t]] = i
                     THEN rows[CHOOSE t \in DOMAIN served : sub[served[t]] = i] ELSE did[i]]
        /\ everDone' = (everDone \/ \E t \in DOMAIN rows : rows[t].requests > 0)
  BY DEF R!GroupEnds, ServedBy
<1> HIDE DEF sub, served, places, kind
<1>2. /\ DOMAIN places = DOMAIN served /\ Injective(places)
      /\ \A t \in DOMAIN places : places[t] = sub[served[t]] /\ places[t] \in DOMAIN job
  BY PlacesAreScenarios DEF sub, served, places
<1>3. ASSUME NEW t \in DOMAIN places PROVE did'[places[t]] = rows[t]
  <2> DEFINE i == places[t]
             u == CHOOSE u \in DOMAIN served : sub[served[u]] = i
  <2>1. i \in DOMAIN job /\ t \in DOMAIN served /\ sub[served[t]] = i
    BY <1>2
  <2>2. u \in DOMAIN served /\ sub[served[u]] = i
    BY <2>1
  <2>3. did'[i] = rows[u]
    BY <1>1, <2>1
  <2> HIDE DEF u
  <2>4. u = t
    BY <1>2, <2>2 DEF Injective
  <2> QED  BY <2>3, <2>4
<1>4. ASSUME NEW i \in DOMAIN job, \A t \in DOMAIN places : places[t] # i PROVE did'[i] = did[i]
  BY <1>1, <1>2, <1>4
<1>5. \A t \in DOMAIN places : rows[t] \in R!Possible(kind) /\ rows[t] \in Row
  BY <1>2, PossibleIsRow
<1>6. did' \in [DOMAIN job -> Row]
  <2>1. ASSUME NEW i \in DOMAIN job PROVE did'[i] \in Row
    <3>1. CASE \E t \in DOMAIN places : places[t] = i
      BY <1>3, <1>5, <3>1
    <3>2. CASE \A t \in DOMAIN places : places[t] # i
      BY <1>4, <3>2
    <3> QED  BY <3>1, <3>2
  <2>2. did' = [i \in DOMAIN job |-> did'[i]]
    BY <1>1
  <2> QED  BY <2>1, <2>2
<1>7. tasks' = [tasks EXCEPT ![p] = TasksOf(p, did')]
  <2> DEFINE new == [t \in DOMAIN served |-> R!TaskStats(Len(sub), served[t], rows[t])]
  <2>1. TasksOf(p, did') = [t \in DOMAIN served |-> R!TaskStats(Len(sub), served[t], did'[places[t]])]
    BY DEF TasksOf, sub, served, places
  <2>2. TasksOf(p, did') = new
    BY <1>2, <1>3, <2>1
  <2> QED  BY <1>1, <2>2
<1>8. DOMAIN rows = DOMAIN places
  BY <1>2
<1>9. everDone' <=> everDone \/ \E t \in DOMAIN places : did'[places[t]].requests > 0
  BY <1>1, <1>3, <1>8
<1> QED  BY <1>3, <1>4, <1>5, <1>6, <1>7, <1>9 DEF sub, places, kind

LEMMA DidStarts ==
    ASSUME R!Spawn, RunsType, did \in [DOMAIN job -> Row], \A i \in DOMAIN job : did[i] = R!Zero
    PROVE  DidByGroups'
<1>1. /\ batch' = batch /\ job' = job /\ args' = args /\ did' = did
      /\ group' = [p \in Protocols |-> IF p \in R!Active THEN "running" ELSE "off"]
      /\ tasks' = [p \in Protocols |-> <<>>]
  BY DEF R!Spawn, Protocols
<1>2. R!Active' = R!Active
  BY <1>1, GroupsStay
<1>3. /\ did' \in [DOMAIN job' -> Row] /\ \A i \in DOMAIN job' : did'[i] = R!Zero
  BY <1>1
<1>4. \A p \in Protocols : /\ group'[p] = "off" <=> p \notin R!Active'
                           /\ group'[p] \in {"running", "off"} /\ tasks'[p] = <<>>
  BY <1>1, <1>2
<1> QED  BY <1>3, <1>4 DEF DidByGroups

LEMMA DidGoesOn ==
    ASSUME CliAssumption, BatchInv, RunsType, DidByGroups, NEW p \in Protocols, R!GroupEnds(p)
    PROVE  DidByGroups'
<1>1. /\ group[p] = "running" /\ group' = [group EXCEPT ![p] = "ended"]
      /\ batch' = batch /\ job' = job /\ args' = args
  BY DEF R!GroupEnds
<1>2. /\ tasks' = [tasks EXCEPT ![p] = TasksOf(p, did')]
      /\ \A t \in DOMAIN Places(p) : did'[Places(p)[t]] \in R!Possible(R!BackendFor(R!SubPlan(p)))
      /\ \A i \in DOMAIN job : (\A t \in DOMAIN Places(p) : Places(p)[t] # i) => did'[i] = did[i]
      /\ did' \in [DOMAIN job -> Row]
  BY GroupDid DEF DidByGroups, RunsType
<1>3. /\ group \in [Protocols -> {"off", "running", "ended", "panicked"}] /\ tasks \in [Protocols -> Seq(Task)]
  BY DEF RunsType
<1>4. group'[p] = "ended" /\ tasks'[p] = TasksOf(p, did')
  BY <1>1, <1>2, <1>3
<1>5. \A q \in Protocols : q # p => group'[q] = group[q] /\ tasks'[q] = tasks[q]
  BY <1>1, <1>2, <1>3
<1>6. R!Active' = R!Active /\ \A q \in Protocols :
        /\ Places(q)' = Places(q) /\ TasksOf(q, did)' = TasksOf(q, did')
        /\ R!BackendFor(R!SubPlan(q))' = R!BackendFor(R!SubPlan(q))
  BY <1>1, GroupsStay
<1>7. ASSUME NEW q \in Protocols, q # p, NEW t \in DOMAIN Places(q) PROVE did'[Places(q)[t]] = did[Places(q)[t]]
  <2>1. Places(q)[t] \in DOMAIN job
    BY PlacesAreScenarios
  <2>2. \A u \in DOMAIN Places(p) : Places(p)[u] # Places(q)[t]
    BY <1>7, GroupsAreApart
  <2> QED  BY <1>2, <2>1, <2>2
<1>8. ASSUME NEW q \in Protocols, q # p PROVE TasksOf(q, did') = TasksOf(q, did)
  <2>1. DOMAIN Places(q) = DOMAIN ServedBy(q)
    BY PlacesAreScenarios
  <2>2. \A t \in DOMAIN ServedBy(q) : did'[Places(q)[t]] = did[Places(q)[t]]
    BY <1>7, <1>8, <2>1
  <2> QED  BY <2>2 DEF TasksOf
<1>9. ASSUME NEW q \in Protocols
      PROVE  /\ (group[q] = "off" <=> q \notin R!Active)'
             /\ (group[q] = "ended" =>
                   /\ tasks[q] = TasksOf(q, did)
                   /\ \A t \in DOMAIN Places(q) : did[Places(q)[t]] \in R!Possible(R!BackendFor(R!SubPlan(q))))'
             /\ (group[q] # "ended" => tasks[q] = <<>>)'
  <2>1. CASE q = p
    BY <1>1, <1>2, <1>4, <1>6, <2>1 DEF DidByGroups
  <2>2. CASE q # p
    <3>1. group[q] = "ended" => \A t \in DOMAIN Places(q) : did'[Places(q)[t]] \in R!Possible(R!BackendFor(R!SubPlan(q)))
      BY <1>7, <2>2 DEF DidByGroups
    <3>2. group[q] = "ended" => tasks'[q] = TasksOf(q, did')
      BY <1>5, <1>8, <2>2 DEF DidByGroups
    <3> QED  BY <1>5, <1>6, <2>2, <3>1, <3>2 DEF DidByGroups
  <2> QED  BY <2>1, <2>2
<1>10. ASSUME NEW i \in DOMAIN job, did'[i] # R!Zero
       PROVE  \E q \in Protocols : group'[q] = "ended" /\ \E t \in DOMAIN Places(q)' : Places(q)'[t] = i
  <2>1. CASE \E t \in DOMAIN Places(p) : Places(p)[t] = i
    BY <1>4, <1>6, <2>1
  <2>2. CASE \A t \in DOMAIN Places(p) : Places(p)[t] # i
    <3>1. did[i] # R!Zero
      BY <1>2, <1>10, <2>2
    <3>2. PICK q \in Protocols : group[q] = "ended" /\ \E t \in DOMAIN Places(q) : Places(q)[t] = i
      BY <3>1 DEF DidByGroups
    <3>3. q # p
      BY <1>1, <3>2
    <3> QED  BY <1>5, <1>6, <3>2, <3>3
  <2> QED  BY <2>1, <2>2
<1>11. (R!Cardinality(R!Active) = 1 => \A q \in Protocols : group[q] # "panicked")'
  <2>1. R!Cardinality(R!Active)' = R!Cardinality(R!Active)
    BY <1>6 DEF R!Cardinality
  <2> QED  BY <1>1, <1>4, <1>5, <2>1 DEF DidByGroups
<1> QED  BY <1>1, <1>2, <1>9, <1>10, <1>11 DEF DidByGroups

LEMMA DidPanics ==
    ASSUME RunsType, DidByGroups, NEW p \in Protocols, R!GroupPanics(p)
    PROVE  stage' = "running" => DidByGroups'
<1>1. /\ group[p] = "running" /\ group' = [group EXCEPT ![p] = "panicked"]
      /\ batch' = batch /\ job' = job /\ args' = args /\ tasks' = tasks /\ did' = did
      /\ stage' = "running" => R!Cardinality(R!Active) # 1
  BY DEF R!GroupPanics, R!Exit
<1>2. group \in [Protocols -> {"off", "running", "ended", "panicked"}]
  BY DEF RunsType
<1>3. group'[p] = "panicked" /\ \A q \in Protocols : q # p => group'[q] = group[q]
  BY <1>1, <1>2
<1>4. R!Active' = R!Active /\ \A q \in Protocols :
        /\ Places(q)' = Places(q) /\ TasksOf(q, did)' = TasksOf(q, did')
        /\ R!BackendFor(R!SubPlan(q))' = R!BackendFor(R!SubPlan(q))
  BY <1>1, GroupsStay
<1>5. ASSUME NEW q \in Protocols
      PROVE  /\ (group[q] = "off" <=> q \notin R!Active)'
             /\ (group[q] = "ended" =>
                   /\ tasks[q] = TasksOf(q, did)
                   /\ \A t \in DOMAIN Places(q) : did[Places(q)[t]] \in R!Possible(R!BackendFor(R!SubPlan(q))))'
             /\ (group[q] # "ended" => tasks[q] = <<>>)'
  <2>1. CASE q = p
    BY <1>1, <1>3, <1>4, <2>1 DEF DidByGroups
  <2>2. CASE q # p
    BY <1>1, <1>3, <1>4, <2>2 DEF DidByGroups
  <2> QED  BY <2>1, <2>2
<1>6. ASSUME NEW i \in DOMAIN job, did'[i] # R!Zero
      PROVE  \E q \in Protocols : group'[q] = "ended" /\ \E t \in DOMAIN Places(q)' : Places(q)'[t] = i
  <2>1. PICK q \in Protocols : group[q] = "ended" /\ \E t \in DOMAIN Places(q) : Places(q)[t] = i
    BY <1>1, <1>6 DEF DidByGroups
  <2>2. q # p
    BY <1>1, <2>1
  <2> QED  BY <1>3, <1>4, <2>1, <2>2
<1>7. R!Cardinality(R!Active)' = R!Cardinality(R!Active)
  BY <1>4 DEF R!Cardinality
<1>8. did' \in [DOMAIN job' -> Row]
  BY <1>1 DEF DidByGroups
<1> QED  BY <1>1, <1>5, <1>6, <1>7, <1>8 DEF DidByGroups

-----------------------------------------------------------------------------
(* The summary                                                                *)

\* The tasks s are of the scenarios u, one for one.
TasksAt(s, u) == DOMAIN s = DOMAIN u /\ \A t \in DOMAIN s : s[t].total = R!TotalsOf(did[u[t]])

LEMMA ConcatOne ==
    ASSUME NEW T, NEW s \in Seq(T), NEW u \in Seq(T)
    PROVE  LET n == Len(s)
               m == Len(u)
           IN /\ n \in Nat /\ m \in Nat /\ DOMAIN s = 1..n /\ DOMAIN u = 1..m
              /\ s \o u \in Seq(T) /\ DOMAIN (s \o u) = 1..(n + m)
              /\ \A k \in 1..(n + m) : \/ k \in 1..n /\ (s \o u)[k] = s[k]
                                       \/ k > n /\ k - n \in 1..m /\ (s \o u)[k] = u[k - n]
<1> DEFINE n == Len(s)
           m == Len(u)
           c == s \o u
<1>1. n \in Nat /\ m \in Nat /\ DOMAIN s = 1..n /\ DOMAIN u = 1..m
  BY LenProperties
<1>2. /\ c \in Seq(T) /\ DOMAIN c = 1..(n + m)
      /\ \A k \in 1..(n + m) : c[k] = IF k <= n THEN s[k] ELSE u[k - n]
  BY ConcatProperties, LenProperties
<1> HIDE DEF c, n, m
<1>3. ASSUME NEW k \in 1..(n + m)
      PROVE  (k \in 1..n /\ c[k] = s[k]) \/ (k > n /\ k - n \in 1..m /\ c[k] = u[k - n])
  BY <1>1, <1>2
<1> QED  BY <1>1, <1>2, <1>3 DEF c, n, m

LEMMA TasksAtConcat ==
    ASSUME NEW s1 \in Seq(Task), NEW s2 \in Seq(Task), NEW u1 \in Seq(Nat), NEW u2 \in Seq(Nat),
           TasksAt(s1, u1), TasksAt(s2, u2), Injective(u1), Injective(u2),
           \A x \in DOMAIN u1, y \in DOMAIN u2 : u1[x] # u2[y]
    PROVE  TasksAt(s1 \o s2, u1 \o u2) /\ Injective(u1 \o u2)
<1> DEFINE n == Len(u1)
           m == Len(u2)
           s == s1 \o s2
           u == u1 \o u2
<1>1. /\ n \in Nat /\ m \in Nat /\ DOMAIN u1 = 1..n /\ DOMAIN u2 = 1..m
      /\ DOMAIN u = 1..(n + m)
      /\ \A k \in 1..(n + m) : \/ k \in 1..n /\ u[k] = u1[k]
                               \/ k > n /\ k - n \in 1..m /\ u[k] = u2[k - n]
  BY ConcatOne
<1>2. Len(s1) = n /\ Len(s2) = m
  <2>1. Len(s1) \in Nat /\ DOMAIN s1 = 1..Len(s1) /\ Len(s2) \in Nat /\ DOMAIN s2 = 1..Len(s2)
    BY LenProperties
  <2>2. DOMAIN s1 = 1..n /\ DOMAIN s2 = 1..m
    BY <1>1 DEF TasksAt
  <2>3. \A a, b \in Nat : 1..a = 1..b => a = b
    OBVIOUS
  <2> HIDE DEF n, m
  <2> QED  BY <1>1, <2>1, <2>2, <2>3
<1>3. /\ DOMAIN s1 = 1..n /\ DOMAIN s2 = 1..m /\ DOMAIN s = 1..(n + m)
      /\ \A k \in 1..(n + m) : \/ k \in 1..n /\ s[k] = s1[k]
                               \/ k > n /\ k - n \in 1..m /\ s[k] = s2[k - n]
  <2> DEFINE a == Len(s1)
             b == Len(s2)
  <2>1. /\ DOMAIN s1 = 1..a /\ DOMAIN s2 = 1..b /\ DOMAIN s = 1..(a + b)
        /\ \A k \in 1..(a + b) : \/ k \in 1..a /\ s[k] = s1[k]
                                 \/ k > a /\ k - a \in 1..b /\ s[k] = s2[k - a]
    BY ConcatOne
  <2>2. a = n /\ b = m
    BY <1>2
  <2> HIDE DEF a, b, n, m, s
  <2> QED  BY <2>1, <2>2
<1>4. ASSUME NEW k \in 1..(n + m) PROVE s[k].total = R!TotalsOf(did[u[k]])
  <2>1. CASE k \in 1..n
    <3>1. s[k] = s1[k] /\ u[k] = u1[k]
      BY <1>1, <1>3, <2>1
    <3> QED  BY <1>3, <2>1, <3>1 DEF TasksAt
  <2>2. CASE k \notin 1..n
    <3>1. k - n \in 1..m /\ s[k] = s2[k - n] /\ u[k] = u2[k - n]
      BY <1>1, <1>3, <2>2
    <3> QED  BY <1>3, <3>1 DEF TasksAt
  <2> QED  BY <2>1, <2>2
<1>5. ASSUME NEW x \in 1..(n + m), NEW y \in 1..(n + m), u[x] = u[y] PROVE x = y
  <2>0. \A k \in 1..(n + m) : /\ k \in 1..n => k \in DOMAIN u1 /\ u[k] = u1[k]
                              /\ k \notin 1..n => k - n \in DOMAIN u2 /\ u[k] = u2[k - n]
    BY <1>1
  <2>1. CASE x \in 1..n /\ y \in 1..n
    <3>1. x \in DOMAIN u1 /\ y \in DOMAIN u1 /\ u1[x] = u1[y]
      BY <1>5, <2>0, <2>1
    <3> QED  BY <3>1 DEF Injective
  <2>2. CASE x \in 1..n /\ y \notin 1..n
    <3>1. x \in DOMAIN u1 /\ y - n \in DOMAIN u2 /\ u1[x] = u2[y - n]
      BY <1>5, <2>0, <2>2
    <3> QED  BY ONLY <3>1, \A z \in DOMAIN u1, w \in DOMAIN u2 : u1[z] # u2[w]
  <2>3. CASE x \notin 1..n /\ y \in 1..n
    <3>1. y \in DOMAIN u1 /\ x - n \in DOMAIN u2 /\ u1[y] = u2[x - n]
      BY <1>5, <2>0, <2>3
    <3> QED  BY ONLY <3>1, \A z \in DOMAIN u1, w \in DOMAIN u2 : u1[z] # u2[w]
  <2>4. CASE x \notin 1..n /\ y \notin 1..n
    <3>1. /\ x - n \in DOMAIN u2 /\ y - n \in DOMAIN u2
          /\ u2[x - n] = u2[y - n]
      BY <1>1, <1>5, <2>4
    <3>2. x - n = y - n
      BY <3>1 DEF Injective
    <3> QED  BY <1>1, <3>2
  <2> QED  BY <2>1, <2>2, <2>3, <2>4
<1> QED  BY <1>1, <1>3, <1>4, <1>5 DEF TasksAt, Injective, s, u

\* The tasks collected are of the scenarios of the groups that ended.
EndedPlaces(p) == IF group[p] = "ended" THEN Places(p) ELSE <<>>
AllPlaces == EndedPlaces("http") \o EndedPlaces("sse") \o EndedPlaces("ws")

LEMMA GroupTasksAt ==
    ASSUME BatchInv, IsList(job), DidByGroups, NEW p \in Protocols
    PROVE  EndedPlaces(p) \in Seq(Nat) /\ TasksAt(tasks[p], EndedPlaces(p)) /\ Injective(EndedPlaces(p))
<1>1. CASE group[p] = "ended"
  <2> DEFINE u == Places(p)
  <2>1. /\ IsList(u) /\ DOMAIN u = DOMAIN ServedBy(p) /\ Injective(u)
        /\ \A t \in DOMAIN u : u[t] \in DOMAIN job
    BY PlacesAreScenarios
  <2>2. u = [t \in DOMAIN ServedBy(p) |-> u[t]]
    BY DEF Places
  <2>3. EndedPlaces(p) = u
    BY <1>1 DEF EndedPlaces
  <2>4. tasks[p] = [t \in DOMAIN ServedBy(p) |-> R!TaskStats(Len(R!SubPlan(p)), ServedBy(p)[t], did[u[t]])]
    BY <1>1 DEF DidByGroups, TasksOf
  <2> HIDE DEF u
  <2>5. DOMAIN job \subseteq Nat
    BY DEF IsList
  <2>6. u \in Seq(Nat)
    <3>1. PICK n \in Nat : DOMAIN u = 1..n
      BY <2>1 DEF IsList
    <3>2. u \in [1..n -> Nat]
      BY <2>1, <2>2, <2>5, <3>1
    <3> QED  BY <3>2
  <2>7. TasksAt(tasks[p], u)
    BY <2>1, <2>4 DEF TasksAt, R!TaskStats
  <2> QED  BY <2>1, <2>3, <2>6, <2>7
<1>2. CASE group[p] # "ended"
  <2>1. EndedPlaces(p) = <<>> /\ tasks[p] = <<>>
    BY <1>2 DEF EndedPlaces, DidByGroups
  <2>2. <<>> \in Seq(Nat) /\ DOMAIN <<>> = {}
    OBVIOUS
  <2> QED  BY <2>1, <2>2 DEF TasksAt, Injective
<1> QED  BY <1>1, <1>2

LEMMA EndedApart ==
    ASSUME BatchInv, NEW p, NEW q, p # q,
           NEW t \in DOMAIN EndedPlaces(p), NEW u \in DOMAIN EndedPlaces(q)
    PROVE  EndedPlaces(p)[t] # EndedPlaces(q)[u]
<1>1. DOMAIN <<>> = {}
  OBVIOUS
<1>2. EndedPlaces(p) = Places(p) /\ EndedPlaces(q) = Places(q)
  BY <1>1 DEF EndedPlaces
<1> QED  BY <1>2, GroupsAreApart

LEMMA CollectedAt ==
    ASSUME BatchInv, IsList(job), RunsType, DidByGroups
    PROVE  /\ AllPlaces \in Seq(Nat) /\ TasksAt(R!Collected, AllPlaces) /\ Injective(AllPlaces)
           /\ \A t \in DOMAIN AllPlaces : AllPlaces[t] \in DOMAIN job
           /\ \A i \in DOMAIN job : did[i] # R!Zero => \E t \in DOMAIN AllPlaces : AllPlaces[t] = i
<1> DEFINE a == EndedPlaces("http")
           b == EndedPlaces("sse")
           c == EndedPlaces("ws")
           ab == a \o b
           s == tasks["http"]
           t == tasks["sse"]
           st == s \o t
           r == tasks["ws"]
<1>1. /\ a \in Seq(Nat) /\ TasksAt(s, a) /\ Injective(a) /\ s \in Seq(Task)
      /\ b \in Seq(Nat) /\ TasksAt(t, b) /\ Injective(b) /\ t \in Seq(Task)
      /\ c \in Seq(Nat) /\ TasksAt(r, c) /\ Injective(c) /\ r \in Seq(Task)
  <2>1. "http" \in Protocols /\ "sse" \in Protocols /\ "ws" \in Protocols
    BY ProtocolNames
  <2> QED  BY <2>1, GroupTasksAt DEF RunsType
<1>2. /\ \A x \in DOMAIN a, y \in DOMAIN b : a[x] # b[y]
      /\ \A x \in DOMAIN a, y \in DOMAIN c : a[x] # c[y]
      /\ \A x \in DOMAIN b, y \in DOMAIN c : b[x] # c[y]
  BY EndedApart
<1>3. AllPlaces = ab \o c /\ R!Collected = st \o r
  BY DEF AllPlaces, R!Collected
<1> HIDE DEF a, b, c, s, t, r
<1>4. TasksAt(st, ab) /\ Injective(ab)
  BY <1>1, <1>2, TasksAtConcat
<1>5. /\ ab \in Seq(Nat) /\ st \in Seq(Task) /\ Members(ab) = Members(a) \cup Members(b)
  BY <1>1, ConcatMembers
<1> HIDE DEF ab, st
<1>6. \A x \in DOMAIN ab, y \in DOMAIN c : ab[x] # c[y]
  <2> SUFFICES ASSUME NEW x \in DOMAIN ab, NEW y \in DOMAIN c PROVE ab[x] # c[y]
    OBVIOUS
  <2>1. ab[x] \in Members(a) \cup Members(b)
    BY <1>5 DEF Members
  <2> QED  BY <1>2, <2>1 DEF Members
<1>7. TasksAt(R!Collected, AllPlaces) /\ Injective(AllPlaces)
  BY <1>1, <1>3, <1>4, <1>5, <1>6, TasksAtConcat
<1>8. AllPlaces \in Seq(Nat) /\ Members(AllPlaces) = Members(a) \cup Members(b) \cup Members(c)
  BY <1>1, <1>3, <1>5, ConcatMembers
<1>9. Members(AllPlaces) = UNION {Members(EndedPlaces(p)) : p \in Protocols}
  BY <1>8, ProtocolNames DEF a, b, c
<1>10. \A p : \A x \in DOMAIN EndedPlaces(p) : EndedPlaces(p)[x] \in DOMAIN job
  <2>1. DOMAIN <<>> = {}
    OBVIOUS
  <2> QED  BY <2>1, PlacesAreScenarios DEF EndedPlaces
<1>11. ASSUME NEW x \in DOMAIN AllPlaces PROVE AllPlaces[x] \in DOMAIN job
  <2>1. AllPlaces[x] \in Members(AllPlaces)
    BY DEF Members
  <2>2. PICK p \in Protocols : AllPlaces[x] \in Members(EndedPlaces(p))
    BY <1>9, <2>1
  <2> QED  BY <1>10, <2>2 DEF Members
<1>12. ASSUME NEW i \in DOMAIN job, did[i] # R!Zero PROVE \E x \in DOMAIN AllPlaces : AllPlaces[x] = i
  <2>1. PICK p \in Protocols : group[p] = "ended" /\ \E x \in DOMAIN Places(p) : Places(p)[x] = i
    BY <1>12 DEF DidByGroups
  <2>2. i \in Members(EndedPlaces(p))
    BY <2>1 DEF EndedPlaces, Members
  <2>3. i \in Members(AllPlaces)
    BY <1>9, <2>2
  <2> QED  BY <2>3 DEF Members
<1> QED  BY <1>7, <1>8, <1>11, <1>12

\* Where the samples are; the totals of a task have only latencies of them.
SampleAxes == {"latency", "gap", "sse_broadcast", "rtt", "ws_broadcast"}

LEMMA TotalsAxes ==
    ASSUME NEW row \in Row
    PROVE  /\ \A a \in SampleAxes \ {"latency"} : R!TotalsOf(row)[a] = 0
           /\ \A a \in R!Axes \ (SampleAxes \ {"latency"}) : R!TotalsOf(row)[a] = row[a]
  BY DEF R!TotalsOf, Row, R!Axes, SampleAxes

\* The totals of the summary are those of what the scenarios did.
LEMMA TotalIsTheRun ==
    ASSUME BatchInv, IsList(job), RunsType, DidByGroups, summary = R!Merge(R!Collected)
    PROVE  /\ summary.total = R!TotalsOf(R!AddAll([i \in DOMAIN did |-> did[i]]))
           /\ \A a \in R!Axes \ (SampleAxes \ {"latency"}) :
                summary.total[a] = SumFunctionOnSet([i \in DOMAIN job |-> did[i][a]], DOMAIN job)
<1> DEFINE all == R!Collected
           at == AllPlaces
           totals == [t \in DOMAIN all |-> all[t].total]
           done == [i \in DOMAIN did |-> did[i]]
<1>1. /\ TasksAt(all, at) /\ Injective(at)
      /\ \A t \in DOMAIN at : at[t] \in DOMAIN job
      /\ \A i \in DOMAIN job : did[i] # R!Zero => \E t \in DOMAIN at : at[t] = i
  BY CollectedAt
<1>2. all \in Seq(Task)
  BY CollectedIsAll DEF RunsType
<1>3. summary.total = R!AddAll(totals)
  BY DEF R!Merge
<1>4. did \in [DOMAIN job -> Row] /\ IsFiniteSet(DOMAIN job)
  BY ListIsFinite DEF DidByGroups
<1>5. DOMAIN done = DOMAIN job /\ \A i \in DOMAIN job : done[i] = did[i] /\ done[i] \in Row
  BY <1>4
<1>6. IsFiniteSet(DOMAIN all) /\ DOMAIN all = DOMAIN at
  <2>1. IsList(all)
    BY <1>2, LenProperties DEF IsList
  <2> HIDE DEF all
  <2> QED  BY <1>1, <2>1, ListIsFinite DEF TasksAt
<1>7. DOMAIN totals = DOMAIN all /\ \A t \in DOMAIN all : totals[t] = R!TotalsOf(did[at[t]])
  BY <1>1 DEF TasksAt
<1> HIDE DEF all, at, totals, done
<1>8. \A t \in DOMAIN all : totals[t] \in Row
  <2> SUFFICES ASSUME NEW t \in DOMAIN all PROVE totals[t] \in Row
    OBVIOUS
  <2>1. did[at[t]] \in Row
    BY <1>1, <1>4, <1>6
  <2> QED  BY <1>7, <2>1, TotalsIsRow
<1>9. /\ R!AddAll(totals) \in Row
      /\ \A a \in R!Axes :
           R!AddAll(totals)[a] = SumFunctionOnSet([t \in DOMAIN totals |-> totals[t][a]], DOMAIN totals)
  BY <1>6, <1>7, <1>8, AddAllIsRow
<1>10. /\ R!AddAll(done) \in Row
       /\ \A a \in R!Axes :
            R!AddAll(done)[a] = SumFunctionOnSet([i \in DOMAIN done |-> done[i][a]], DOMAIN done)
  BY <1>4, <1>5, AddAllIsRow
<1>11. ASSUME NEW a \in SampleAxes \ {"latency"} PROVE R!AddAll(totals)[a] = 0
  <2> DEFINE f == [t \in DOMAIN all |-> totals[t][a]]
             zero == 0
  <2>1. \A t \in DOMAIN all : f[t] = zero
    <3> SUFFICES ASSUME NEW t \in DOMAIN all PROVE f[t] = zero
      OBVIOUS
    <3>1. did[at[t]] \in Row
      BY <1>1, <1>4, <1>6
    <3> QED  BY <1>7, <3>1, TotalsAxes
  <2>2. a \in R!Axes
    BY DEF SampleAxes, R!Axes
  <2>3. R!AddAll(totals)[a] = SumFunctionOnSet(f, DOMAIN all)
    BY <1>7, <1>9, <2>2
  <2>4. zero \in Int
    OBVIOUS
  <2> HIDE DEF f, zero
  <2>5. SumFunctionOnSet(f, DOMAIN all) = zero * Cardinality(DOMAIN all)
    BY <1>6, <2>1, <2>4, SumConstant
  <2>6. Cardinality(DOMAIN all) \in Nat
    BY <1>6, FS_CardinalityType
  <2> QED  BY <2>3, <2>5, <2>6 DEF zero
<1>12. ASSUME NEW a \in R!Axes \ (SampleAxes \ {"latency"})
       PROVE  R!AddAll(totals)[a] = SumFunctionOnSet([i \in DOMAIN job |-> did[i][a]], DOMAIN job)
  <2> DEFINE f == [t \in DOMAIN all |-> totals[t][a]]
             g == [i \in DOMAIN job |-> did[i][a]]
  <2>1. ASSUME NEW t \in DOMAIN all PROVE f[t] = g[at[t]]
    <3>1. did[at[t]] \in Row /\ at[t] \in DOMAIN job
      BY <1>1, <1>4, <1>6
    <3>2. R!TotalsOf(did[at[t]])[a] = did[at[t]][a]
      BY <3>1, TotalsAxes
    <3> QED  BY <1>7, <3>1, <3>2
  <2>2. ASSUME NEW i \in DOMAIN job PROVE g[i] \in Int /\ (g[i] # 0 => \E t \in DOMAIN all : at[t] = i)
    <3>1. did[i] \in Row /\ R!Zero[a] = 0 /\ g[i] = did[i][a]
      BY <1>4 DEF R!Zero
    <3>2. g[i] # 0 => did[i] # R!Zero
      BY <3>1
    <3> HIDE DEF g
    <3> QED  BY <1>1, <1>6, <3>1, <3>2 DEF Row
  <2>3. R!AddAll(totals)[a] = SumFunctionOnSet(f, DOMAIN all)
    BY <1>7, <1>9
  <2> HIDE DEF f, g
  <2>4. (\A t \in DOMAIN all : at[t] \in DOMAIN job) /\ \A t, u \in DOMAIN all : at[t] = at[u] => t = u
    BY <1>1, <1>6 DEF Injective
  <2>5. SumFunctionOnSet(f, DOMAIN all) = SumFunctionOnSet(g, DOMAIN job)
    BY ONLY <1>4, <1>6, <2>1, <2>2, <2>4, SumMapped
  <2> QED  BY <2>3, <2>5 DEF g
<1>13. \A a \in R!Axes : R!AddAll(done)[a] = SumFunctionOnSet([i \in DOMAIN job |-> did[i][a]], DOMAIN job)
  <2> SUFFICES ASSUME NEW a \in R!Axes
               PROVE  R!AddAll(done)[a] = SumFunctionOnSet([i \in DOMAIN job |-> did[i][a]], DOMAIN job)
    OBVIOUS
  <2>1. [i \in DOMAIN done |-> done[i][a]] = [i \in DOMAIN job |-> did[i][a]]
    BY <1>5
  <2> QED  BY <1>5, <1>10, <2>1
<1>14. R!AddAll(totals) = R!TotalsOf(R!AddAll(done))
  <2> DEFINE x == R!AddAll(totals)
             y == R!TotalsOf(R!AddAll(done))
  <2>1. x \in Row /\ y \in Row
    BY <1>9, <1>10, TotalsIsRow
  <2>2. ASSUME NEW a \in R!Axes PROVE x[a] = y[a]
    <3>1. CASE a \in SampleAxes \ {"latency"}
      BY <1>10, <1>11, <3>1, TotalsAxes
    <3>2. CASE a \notin SampleAxes \ {"latency"}
      BY <1>10, <1>12, <1>13, <3>2, TotalsAxes
    <3> QED  BY <3>1, <3>2
  <2> HIDE DEF x, y
  <2>3. x = y
    BY <2>1, <2>2 DEF Row
  <2> QED  BY <2>3 DEF x, y
<1> QED  BY <1>3, <1>12, <1>14 DEF done

-----------------------------------------------------------------------------
(* A run of one protocol                                                      *)

LEMMA ProtocolIsKnown ==
    ASSUME WellFormed(job), NEW i \in DOMAIN job
    PROVE  /\ R!ProtocolOf(job[i]) \in Protocols
           /\ job[i].steps # <<>> => /\ 1 \in DOMAIN job[i].steps
                                     /\ job[i].steps[1] \in Kinds
                                     /\ job[i].steps[1] \in R!StepsOf[R!ProtocolOf(job[i])]
<1> DEFINE steps == job[i].steps
<1>1. steps \in Seq(Kinds)
  BY DEF WellFormed
<1>2. CASE steps = <<>>
  BY <1>2, ProtocolNames DEF R!ProtocolOf
<1>3. CASE steps # <<>>
  <2>1. 1 \in DOMAIN steps /\ steps[1] \in Kinds
    <3> HIDE DEF steps
    <3> QED  BY <1>1, <1>3
  <2>2. \E p \in Protocols : steps[1] \in R!StepsOf[p]
    BY <2>1 DEF Kinds, Protocols
  <2>3. R!ProtocolOf(job[i]) = CHOOSE p \in Protocols : steps[1] \in R!StepsOf[p]
    BY <1>3 DEF R!ProtocolOf, Protocols
  <2> HIDE DEF steps
  <2> QED  BY <2>1, <2>2, <2>3 DEF steps
<1> QED  BY <1>2, <1>3

LEMMA ActiveIsFinite == IsFiniteSet(R!Active) /\ R!Active \subseteq Protocols
<1>1. R!Active \in SUBSET {"http", "sse", "ws"}
  BY ProtocolNames DEF R!Active, Protocols
<1>2. {"http", "sse", "ws"} = ({} \cup {"http"}) \cup {"sse"} \cup {"ws"}
  OBVIOUS
<1>3. IsFiniteSet({"http", "sse", "ws"})
  <2>1. IsFiniteSet({} \cup {"http"})
    BY FS_EmptySet, FS_AddElement
  <2>2. IsFiniteSet(({} \cup {"http"}) \cup {"sse"})
    BY <2>1, FS_AddElement
  <2>3. IsFiniteSet(({} \cup {"http"}) \cup {"sse"} \cup {"ws"})
    BY <2>2, FS_AddElement
  <2> QED  BY <1>2, <2>3
<1> QED  BY <1>1, <1>3, FS_Subset, ProtocolNames

\* A lone group has all the scenarios of the dispatch, in their order.
LEMMA LoneGroup ==
    ASSUME BatchInv, WellFormed(job), NEW p, R!Active = {p}
    PROVE  /\ DOMAIN R!SubPlan(p) = DOMAIN batch
           /\ \A k \in DOMAIN batch : R!SubPlan(p)[k] = batch[k] /\ R!ProtocolOf(job[batch[k]]) = p
<1> DEFINE at == {k \in DOMAIN batch : R!ProtocolOf(job[batch[k]]) = p}
           places == R!InOrder(at)
<1>1. ASSUME NEW k \in DOMAIN batch PROVE R!ProtocolOf(job[batch[k]]) = p
  <2> DEFINE q == R!ProtocolOf(job[batch[k]])
  <2>1. q \in Protocols
    BY ProtocolIsKnown DEF BatchInv
  <2>2. PICK m \in DOMAIN R!SubPlan(q) : TRUE
    BY SubPlanPlaces
  <2>3. R!SubPlan(q) # <<>>
    <3>1. DOMAIN <<>> = {}
      OBVIOUS
    <3> QED  BY <2>2, <3>1
  <2>4. q \in R!Active
    BY <2>1, <2>3 DEF R!Active, Protocols
  <2> QED  BY <2>4
<1>2. PICK n \in Nat : DOMAIN batch = 1..n
  BY DEF BatchInv, IsList
<1>3. at = 1..n
  BY <1>1, <1>2
<1>4. R!SubPlan(p) = [k \in DOMAIN places |-> batch[places[k]]]
  BY DEF R!SubPlan
<1> HIDE DEF at, places
<1>5. DOMAIN places = 1..n /\ \A k \in 1..n : places[k] = k
  BY <1>3, InOrderOfAll DEF places
<1> QED  BY <1>1, <1>2, <1>4, <1>5

\* The sum of rows of which one is not zero.
LEMMA AddAllOne ==
    ASSUME NEW rows, IsFiniteSet(DOMAIN rows), NEW d \in Row, NEW at,
           \A t \in DOMAIN rows : rows[t] = IF t = at THEN d ELSE R!Zero,
           at \notin DOMAIN rows => d = R!Zero
    PROVE  R!AddAll(rows) = d
<1> DEFINE T == DOMAIN rows
<1>1. \A t \in T : rows[t] \in Row
  BY ZeroIsRow
<1>2. /\ R!AddAll(rows) \in Row
      /\ \A a \in R!Axes : R!AddAll(rows)[a] = SumFunctionOnSet([t \in T |-> rows[t][a]], T)
  BY <1>1, AddAllIsRow
<1>3. ASSUME NEW a \in R!Axes PROVE R!AddAll(rows)[a] = d[a]
  <2> DEFINE f == [t \in T |-> rows[t][a]]
             one == {at} \cap T
  <2>1. R!Zero[a] = 0 /\ d[a] \in Int
    BY DEF R!Zero, Row
  <2>2. \A t \in T : f[t] \in Int /\ f[t] = IF t = at THEN d[a] ELSE 0
    BY <2>1
  <2>3. one \in SUBSET T /\ \A t \in T \ one : f[t] = 0
    BY <2>2
  <2>4. R!AddAll(rows)[a] = SumFunctionOnSet(f, T)
    BY <1>2
  <2> HIDE DEF f, one, T
  <2>5. SumFunctionOnSet(f, T) = SumFunctionOnSet(f, one)
    BY ONLY <2>2, <2>3, IsFiniteSet(T), SumOnPart DEF T
  <2>6. SumFunctionOnSet(f, one) = d[a]
    <3>1. CASE at \in T
      <4> DEFINE none == {}
      <4>1. one = none \cup {at} /\ at \notin none /\ (\A x \in none : f[x] \in Int) /\ f[at] \in Int /\ f[at] = d[a]
        BY <2>2, <3>1 DEF one
      <4>2. IsFiniteSet(none) /\ SumFunctionOnSet(f, none) = 0
        BY FS_EmptySet, SumEmpty
      <4> HIDE DEF none
      <4>3. SumFunctionOnSet(f, none \cup {at}) = f[at] + SumFunctionOnSet(f, none)
        BY ONLY <4>1, <4>2, SumAdd
      <4> QED  BY <2>1, <4>1, <4>2, <4>3
    <3>2. CASE at \notin T
      <4>1. one = {} /\ d[a] = 0
        BY <2>1, <3>2 DEF one, T
      <4> QED  BY <4>1, SumEmpty
    <3> QED  BY <3>1, <3>2
  <2> QED  BY <2>4, <2>5, <2>6
<1> QED  BY <1>2, <1>3 DEF Row

\* After the join of a run of one protocol, p.
LoneRun(p) ==
  /\ BatchInv /\ WellFormed(job) /\ RunsType /\ DidByGroups
  /\ p \in Protocols /\ R!Active = {p}
  /\ \A q \in Protocols : group[q] # "running"
  /\ summary = R!Merge(R!Collected)

LEMMA LoneTasks ==
    ASSUME NEW p, LoneRun(p)
    PROVE  /\ R!Collected = TasksOf(p, did) /\ group[p] = "ended"
           /\ \A i \in DOMAIN job : did[i] # R!Zero => \E t \in DOMAIN Places(p) : Places(p)[t] = i
           /\ \A t \in DOMAIN Places(p) : Places(p)[t] = batch[ServedBy(p)[t]] /\ ServedBy(p)[t] \in DOMAIN batch
           /\ DOMAIN Places(p) = DOMAIN ServedBy(p) /\ Injective(ServedBy(p))
<1> USE DEF LoneRun
<1>1. R!Cardinality(R!Active) = 1
  BY RunsCardinality, FS_Singleton
<1>2. group[p] = "ended"
  BY <1>1 DEF DidByGroups, RunsType
<1>3. \A q \in Protocols : q # p => group[q] = "off" /\ tasks[q] = <<>>
  BY DEF DidByGroups
<1>4. tasks[p] = TasksOf(p, did)
  BY <1>2 DEF DidByGroups
<1>5. R!Collected = tasks[p]
  <2>1. \A s \in Seq(Task) : s \o <<>> = s /\ <<>> \o s = s
    OBVIOUS
  <2>2. \A q \in Protocols : tasks[q] \in Seq(Task)
    BY DEF RunsType
  <2> QED  BY <1>3, <2>1, <2>2, ProtocolNames DEF R!Collected
<1>6. ASSUME NEW i \in DOMAIN job, did[i] # R!Zero PROVE \E t \in DOMAIN Places(p) : Places(p)[t] = i
  BY <1>3, <1>6 DEF DidByGroups
<1>7. /\ DOMAIN Places(p) = DOMAIN ServedBy(p)
      /\ \A t \in DOMAIN Places(p) : Places(p)[t] = R!SubPlan(p)[ServedBy(p)[t]]
  BY PlacesAreScenarios
<1>8. Injective(ServedBy(p)) /\ \A t \in DOMAIN ServedBy(p) : ServedBy(p)[t] \in DOMAIN R!SubPlan(p)
  BY ServedPlaces
<1>9. DOMAIN R!SubPlan(p) = DOMAIN batch /\ \A k \in DOMAIN batch : R!SubPlan(p)[k] = batch[k]
  BY LoneGroup
<1> QED  BY <1>2, <1>4, <1>5, <1>6, <1>7, <1>8, <1>9

\* Row k of its summary is what scenario k did.
LEMMA LoneRows ==
    ASSUME NEW p, LoneRun(p)
    PROVE  /\ \A k \in DOMAIN batch : R!RowNamed(k) = did[batch[k]]
           /\ DOMAIN summary.rows = DOMAIN batch \/ (DOMAIN summary.rows = {} /\ \A i \in DOMAIN job : did[i] = R!Zero)
<1> DEFINE all == R!Collected
           sub == R!SubPlan(p)
           served == ServedBy(p)
<1>1. /\ all = TasksOf(p, did)
      /\ \A i \in DOMAIN job : did[i] # R!Zero => \E t \in DOMAIN Places(p) : Places(p)[t] = i
      /\ \A t \in DOMAIN served : Places(p)[t] = batch[served[t]] /\ served[t] \in DOMAIN batch
      /\ DOMAIN Places(p) = DOMAIN served /\ Injective(served)
  BY LoneTasks
<1>2. all \in Seq(Task)
  BY CollectedIsAll DEF LoneRun, RunsType
<1>3. PICK n \in Nat : DOMAIN batch = 1..n
  BY DEF LoneRun, BatchInv, IsList
<1>4. Len(sub) = n
  <2>1. DOMAIN sub = 1..n
    BY <1>3, LoneGroup DEF LoneRun
  <2> QED  BY <2>1
<1>5. all = [t \in DOMAIN served |-> R!TaskStats(Len(sub), served[t], did[Places(p)[t]])]
  BY <1>1 DEF TasksOf
<1>6. /\ DOMAIN all = DOMAIN served
      /\ \A t \in DOMAIN all :
           all[t].rows = [j \in 1..n |-> IF j = served[t] THEN did[batch[served[t]]] ELSE R!Zero]
  BY <1>1, <1>4, <1>5 DEF R!TaskStats
<1>7. did \in [DOMAIN job -> Row] /\ \A k \in DOMAIN batch : batch[k] \in DOMAIN job
  BY DEF LoneRun, BatchInv, DidByGroups
<1> HIDE DEF all, served, sub
<1>8. CASE all = <<>>
  <2>1. summary.rows = [k \in 1..0 |->
          R!AddAll([t \in DOMAIN all |-> IF k \in DOMAIN all[t].rows THEN all[t].rows[k] ELSE R!Zero])]
    BY <1>8 DEF LoneRun, R!Merge, all
  <2>2. DOMAIN summary.rows = {}
    BY <2>1
  <2>3. DOMAIN served = {}
    BY <1>2, <1>6, <1>8
  <2>4. \A i \in DOMAIN job : did[i] = R!Zero
    BY <1>1, <2>3
  <2> QED  BY <1>7, <2>2, <2>4 DEF R!RowNamed
<1>9. CASE all # <<>>
  <2>1. 1 \in DOMAIN all
    BY <1>2, <1>9
  <2>2. Len(all[1].rows) = n
    <3>1. DOMAIN all[1].rows = 1..n
      BY <1>6, <2>1
    <3> QED  BY <3>1
  <2> DEFINE column(k) == [t \in DOMAIN all |-> IF k \in DOMAIN all[t].rows THEN all[t].rows[k] ELSE R!Zero]
  <2>3. summary.rows = [k \in 1..n |-> R!AddAll(column(k))]
    BY <1>9, <2>2 DEF LoneRun, R!Merge, all
  <2>4. ASSUME NEW k \in 1..n PROVE R!AddAll(column(k)) = did[batch[k]]
    <3> DEFINE rows == column(k)
               d == did[batch[k]]
               at == IF \E t \in DOMAIN all : served[t] = k
                     THEN CHOOSE t \in DOMAIN all : served[t] = k ELSE 0
    <3>1. d \in Row
      BY <1>3, <1>7
    <3>2. ASSUME NEW t \in DOMAIN all PROVE rows[t] = IF t = at THEN d ELSE R!Zero
      <4>1. rows[t] = IF k = served[t] THEN d ELSE R!Zero
        <5>1. rows[t] = IF k \in DOMAIN all[t].rows THEN all[t].rows[k] ELSE R!Zero
          OBVIOUS
        <5>2. all[t].rows = [j \in 1..n |-> IF j = served[t] THEN did[batch[served[t]]] ELSE R!Zero]
          BY <1>6
        <5>3. k \in DOMAIN all[t].rows /\ all[t].rows[k] = IF k = served[t] THEN d ELSE R!Zero
          BY <5>2
        <5> HIDE DEF rows, d, at
        <5> QED  BY <5>1, <5>3
      <4>2. k = served[t] => t = at
        <5> SUFFICES ASSUME k = served[t] PROVE t = at
          OBVIOUS
        <5>1. at \in DOMAIN all /\ served[at] = k
          OBVIOUS
        <5> HIDE DEF at
        <5> QED  BY <1>1, <1>6, <5>1 DEF Injective
      <4>3. t = at => k = served[t]
        BY <1>2
      <4> HIDE DEF rows, at, d
      <4> QED  BY <4>1, <4>2, <4>3
    <3>3. at \notin DOMAIN all => d = R!Zero
      <4> SUFFICES ASSUME d # R!Zero PROVE \E t \in DOMAIN all : served[t] = k
        OBVIOUS
      <4>1. batch[k] \in DOMAIN job
        BY <1>3, <1>7
      <4>2. PICK t \in DOMAIN Places(p) : Places(p)[t] = batch[k]
        BY <1>1, <4>1
      <4>3. t \in DOMAIN all /\ batch[served[t]] = batch[k] /\ served[t] \in DOMAIN batch
        BY <1>1, <1>6, <4>2
      <4>4. served[t] = k
        BY <1>3, <4>3 DEF LoneRun, BatchInv, Injective
      <4> QED  BY <4>3, <4>4
    <3>4. DOMAIN rows = DOMAIN all /\ IsFiniteSet(DOMAIN all)
      <4>1. IsList(all)
        BY <1>2, LenProperties DEF IsList
      <4> QED  BY <4>1, ListIsFinite
    <3> HIDE DEF rows, d, at, column
    <3>5. R!AddAll(rows) = d
      BY <3>1, <3>2, <3>3, <3>4, AddAllOne
    <3> QED  BY <3>5 DEF rows, d
  <2> HIDE DEF column
  <2> QED  BY <1>3, <2>3, <2>4 DEF R!RowNamed
<1> QED  BY <1>8, <1>9

-----------------------------------------------------------------------------
(* The headline of a run of one kind of step                                  *)

\* Its backend is the one of the only kind.
LEMMA LoneKind ==
    ASSUME NEW p, LoneRun(p), NEW kind, R!KindsRun = {kind}
    PROVE  kind \in R!StepsOf[p] /\ R!BackendFor(R!SubPlan(p)) = kind
<1> DEFINE sub == R!SubPlan(p)
<1>1. \A k \in DOMAIN batch : /\ batch[k] \in DOMAIN job
                              /\ job[batch[k]].steps \in Seq(Kinds)
                              /\ batch[k] \in R!Range(batch)
  BY DEF LoneRun, BatchInv, WellFormed, R!Range
<1>2. /\ DOMAIN sub = DOMAIN batch
      /\ \A k \in DOMAIN batch : sub[k] = batch[k] /\ R!ProtocolOf(job[batch[k]]) = p
  BY LoneGroup DEF LoneRun
<1> HIDE DEF sub
<1>3. \A i \in R!Range(batch) : \E k \in DOMAIN batch : i = batch[k]
  BY DEF R!Range
<1>6. ASSUME NEW k \in DOMAIN batch, NEW j \in DOMAIN job[batch[k]].steps
      PROVE  job[batch[k]].steps[j] = kind
  <2>1. job[batch[k]].steps[j] \in R!Range(job[batch[k]].steps)
    BY DEF R!Range
  <2>2. job[batch[k]].steps[j] \in R!KindsRun
    BY <1>1, <2>1 DEF R!KindsRun
  <2> QED  BY <2>2
<1>7. PICK m \in DOMAIN batch : job[batch[m]].steps # <<>>
  <2>1. PICK i \in R!Range(batch) : kind \in R!Range(job[i].steps)
    BY DEF R!KindsRun
  <2>2. PICK j \in DOMAIN job[i].steps : TRUE
    BY <2>1 DEF R!Range
  <2>3. DOMAIN <<>> = {}
    OBVIOUS
  <2>4. job[i].steps # <<>>
    BY <2>2, <2>3
  <2> QED  BY <1>3, <2>4
<1>8. ASSUME NEW k \in DOMAIN batch, job[batch[k]].steps # <<>>
      PROVE  job[batch[k]].steps[1] = kind /\ kind \in R!StepsOf[p]
  <2>1. /\ 1 \in DOMAIN job[batch[k]].steps
        /\ job[batch[k]].steps[1] \in R!StepsOf[R!ProtocolOf(job[batch[k]])]
    BY <1>1, <1>8, ProtocolIsKnown DEF LoneRun
  <2> QED  BY <1>2, <1>6, <2>1
<1>9. R!FirstWireStep(sub) = kind
  <2> DEFINE wired == {k \in DOMAIN sub : job[sub[k]].steps # <<>>}
  <2>1. m \in wired
    BY <1>2, <1>7
  <2>2. wired \in SUBSET Nat
    <3>1. wired \in SUBSET DOMAIN batch
      BY <1>2
    <3> HIDE DEF wired
    <3> QED  BY <3>1, ListOfNumbers DEF LoneRun, BatchInv
  <2>3. R!FirstWireStep(sub) = job[sub[R!Min(wired)]].steps[1]
    BY <2>1 DEF R!FirstWireStep
  <2>4. \A k \in wired : k \in DOMAIN batch /\ job[sub[k]].steps[1] = kind
    BY <1>2, <1>8
  <2> HIDE DEF wired
  <2>5. R!Min(wired) \in wired
    <3>1. \E n \in wired : \A k \in wired : n <= k
      BY <2>1, <2>2, LeastNatural
    <3> QED  BY <3>1 DEF R!Min
  <2> QED  BY <2>3, <2>4, <2>5
<1>10. R!AnyIsCold(sub) => kind = "HttpColdConnect"
  <2> SUFFICES ASSUME NEW i \in R!Range(sub), "HttpColdConnect" \in R!Range(job[i].steps)
               PROVE  kind = "HttpColdConnect"
    BY DEF R!AnyIsCold
  <2>1. PICK k \in DOMAIN batch : i = batch[k]
    BY <1>2 DEF R!Range
  <2>2. PICK j \in DOMAIN job[batch[k]].steps : job[batch[k]].steps[j] = "HttpColdConnect"
    BY <2>1 DEF R!Range
  <2> QED  BY <1>6, <2>2
<1>11. R!BackendFor(sub) = kind
  BY <1>9, <1>10 DEF R!BackendFor
<1> QED  BY <1>7, <1>8, <1>11 DEF sub

\* All samples are where those of the kind go, one for every operation where
\* each has one.
LEMMA SamplesOfKind ==
    ASSUME CliAssumption, NEW kind, NEW row \in R!Possible(kind) \cup {R!Zero}
    PROVE  /\ \A a \in SampleAxes : a # R!AxisOf(kind) => row[a] = 0
           /\ R!AxisOf(kind) \in SampleAxes
           /\ kind \in R!SampledEach => row[R!AxisOf(kind)] = row.requests
<1> DEFINE axis == R!AxisOf(kind)
<1>1. axis \in SampleAxes
  BY DEF R!AxisOf, SampleAxes
<1>2. CASE row = R!Zero
  <2>1. \A a \in SampleAxes \cup {"requests"} : row[a] = 0
    BY <1>2 DEF R!Zero, SampleAxes, R!Axes
  <2> QED  BY <1>1, <2>1
<1>3. CASE row \in R!Possible(kind)
  <2>1. row \in R!Outcomes(kind)
    BY <1>3 DEF R!Possible
  <2> DEFINE O == [done : 0..MaxOps, samples : 0..MaxOps, hard : 0..1,
                   soft : IF kind \in R!StepsOf.http THEN 0..1 ELSE {0}]
  <2>2. PICK o \in O :
          /\ R!MayHaveSamples(kind, o.done, o.samples)
          /\ row = [R!Zero EXCEPT !.requests = o.done, ![axis] = o.samples, !.hard = o.hard, !.soft = o.soft]
    BY <2>1 DEF R!Outcomes
  <2>3. kind \in R!SampledEach => o.samples = o.done
    BY <2>2 DEF R!MayHaveSamples
  <2> HIDE DEF O, axis
  <2>4. /\ row.requests = o.done /\ row[axis] = o.samples
        /\ \A a \in SampleAxes : a # axis => row[a] = 0
    BY <1>1, <2>2 DEF R!Zero, SampleAxes, R!Axes
  <2> QED  BY <1>1, <2>3, <2>4 DEF axis
<1> QED  BY <1>2, <1>3

\* The samples of the report's rows are those of what the scenarios did.
LEMMA LoneSamples ==
    ASSUME NEW p, LoneRun(p), NEW a \in R!Axes
    PROVE  R!SumFunction([k \in DOMAIN summary.rows |-> summary.rows[k][a]])
             = SumFunctionOnSet([i \in DOMAIN job |-> did[i][a]], DOMAIN job)
<1> DEFINE f == [k \in DOMAIN summary.rows |-> summary.rows[k][a]]
           g == [i \in DOMAIN job |-> did[i][a]]
<1>1. R!SumFunction(f) = SumFunctionOnSet(f, DOMAIN summary.rows)
  <2>1. DOMAIN f = DOMAIN summary.rows
    OBVIOUS
  <2> HIDE DEF f
  <2> QED  BY <2>1, RunsSum
<1>2. /\ did \in [DOMAIN job -> Row] /\ IsFiniteSet(DOMAIN job) /\ IsFiniteSet(DOMAIN batch)
      /\ \A k \in DOMAIN batch : batch[k] \in DOMAIN job
  BY ListIsFinite DEF LoneRun, DidByGroups, WellFormed, BatchInv
<1>3. \A i \in DOMAIN job : g[i] \in Int /\ (g[i] # 0 => did[i] # R!Zero)
  <2>1. R!Zero[a] = 0
    BY DEF R!Zero
  <2> QED  BY <1>2, <2>1 DEF Row
<1>4. /\ \A k \in DOMAIN batch : R!RowNamed(k) = did[batch[k]]
      /\ DOMAIN summary.rows = DOMAIN batch \/ (DOMAIN summary.rows = {} /\ \A i \in DOMAIN job : did[i] = R!Zero)
  BY LoneRows
<1>5. CASE DOMAIN summary.rows = DOMAIN batch
  <2>1. \A k \in DOMAIN batch : f[k] = g[batch[k]]
    BY <1>2, <1>4, <1>5 DEF R!RowNamed
  <2>2. \A i \in DOMAIN job : g[i] # 0 => \E k \in DOMAIN batch : batch[k] = i
    <3> SUFFICES ASSUME NEW i \in DOMAIN job, did[i] # R!Zero PROVE \E k \in DOMAIN batch : batch[k] = i
      BY <1>3
    <3>1. PICK t \in DOMAIN Places(p) : Places(p)[t] = i
      BY LoneTasks
    <3> QED  BY <3>1, LoneTasks
  <2>3. \A x, y \in DOMAIN batch : batch[x] = batch[y] => x = y
    BY DEF LoneRun, BatchInv, Injective
  <2> HIDE DEF f, g
  <2>4. SumFunctionOnSet(f, DOMAIN batch) = SumFunctionOnSet(g, DOMAIN job)
    BY ONLY <1>2, <1>3, <2>1, <2>2, <2>3, SumMapped
  <2> QED  BY <1>1, <1>5, <2>4 DEF f, g
<1>6. CASE DOMAIN summary.rows = {} /\ \A i \in DOMAIN job : did[i] = R!Zero
  <2> DEFINE zero == 0
  <2>1. zero \in Int /\ \A i \in DOMAIN job : g[i] = zero
    BY <1>6 DEF R!Zero
  <2> HIDE DEF f, g, zero
  <2>2. SumFunctionOnSet(g, DOMAIN job) = zero * Cardinality(DOMAIN job)
    BY <1>2, <2>1, SumConstant
  <2>3. SumFunctionOnSet(g, DOMAIN job) = 0
    BY <1>2, <2>2, FS_CardinalityType DEF zero
  <2>4. SumFunctionOnSet(f, {}) = 0
    BY SumEmpty
  <2> QED  BY <1>1, <1>6, <2>3, <2>4 DEF f, g
<1> QED  BY <1>4, <1>5, <1>6

LEMMA HeadlineCounts ==
    ASSUME CliAssumption, NEW p, LoneRun(p), NEW kind, R!KindsRun = {kind}
    PROVE  /\ R!Headline.samples = R!SumFunction([i \in DOMAIN did |-> did[i][R!AxisOf(kind)]])
           /\ kind \in R!SampledEach => R!Headline.samples = summary.total.requests
<1>1. kind \in R!StepsOf[p] /\ R!BackendFor(R!SubPlan(p)) = kind
  BY LoneKind
<1> DEFINE sum(a) == SumFunctionOnSet([i \in DOMAIN job |-> did[i][a]], DOMAIN job)
           of(a) == R!SumFunction([k \in DOMAIN summary.rows |-> summary.rows[k][a]])
           mine == sum(R!AxisOf(kind))
           all == sum("requests")
<1>2. did \in [DOMAIN job -> Row] /\ IsFiniteSet(DOMAIN job)
  BY ListIsFinite DEF LoneRun, DidByGroups, WellFormed
<1>3. \A i \in DOMAIN job : did[i] \in R!Possible(kind) \cup {R!Zero}
  <2> SUFFICES ASSUME NEW i \in DOMAIN job, did[i] # R!Zero PROVE did[i] \in R!Possible(kind)
    OBVIOUS
  <2>1. PICK t \in DOMAIN Places(p) : Places(p)[t] = i
    BY LoneTasks
  <2>2. group[p] = "ended"
    BY LoneTasks
  <2> QED  BY <1>1, <2>1, <2>2 DEF LoneRun, DidByGroups
<1>4. /\ \A i \in DOMAIN job, a \in SampleAxes : a # R!AxisOf(kind) => did[i][a] = 0
      /\ \A i \in DOMAIN job : kind \in R!SampledEach => did[i][R!AxisOf(kind)] = did[i].requests
      /\ R!AxisOf(kind) \in SampleAxes
  <2>1. R!AxisOf(kind) \in SampleAxes
    BY DEF R!AxisOf, SampleAxes
  <2> QED  BY <1>3, <2>1, SamplesOfKind
<1>5. ASSUME NEW a \in SampleAxes
      PROVE  sum(a) = IF a = R!AxisOf(kind) THEN mine ELSE 0
  <2> DEFINE f == [i \in DOMAIN job |-> did[i][a]]
             zero == 0
  <2>1. CASE a # R!AxisOf(kind)
    <3>1. zero \in Int /\ \A i \in DOMAIN job : f[i] = zero
      BY <1>4, <2>1
    <3> HIDE DEF f, zero
    <3>2. SumFunctionOnSet(f, DOMAIN job) = zero * Cardinality(DOMAIN job)
      BY <1>2, <3>1, SumConstant
    <3>3. SumFunctionOnSet(f, DOMAIN job) = 0
      BY <1>2, <3>2, FS_CardinalityType DEF zero
    <3> QED  BY <2>1, <3>3 DEF f
  <2> QED  BY <2>1
<1>6. mine \in Nat
  <2> DEFINE g == [i \in DOMAIN job |-> did[i][R!AxisOf(kind)]]
  <2>1. \A i \in DOMAIN job : g[i] \in Nat
    BY <1>2, <1>4 DEF Row, R!Axes, SampleAxes
  <2> HIDE DEF g
  <2>2. SumFunctionOnSet(g, DOMAIN job) \in Nat
    BY <1>2, <2>1, SumIsPositive
  <2> QED  BY <2>2 DEF g
<1>7. \A a \in SampleAxes : of(a) = sum(a)
  BY LoneSamples DEF SampleAxes, R!Axes
<1>8. summary.total.requests = all /\ summary.total.latency = sum("latency")
  BY TotalIsTheRun DEF LoneRun, WellFormed, SampleAxes, R!Axes
<1> DEFINE own == [i \in DOMAIN did |-> did[i][R!AxisOf(kind)]]
<1>9. R!SumFunction(own) = mine
  <2>1. own = [i \in DOMAIN job |-> did[i][R!AxisOf(kind)]] /\ DOMAIN own = DOMAIN job
    BY <1>2
  <2>2. R!SumFunction(own) = SumFunctionOnSet(own, DOMAIN own)
    <3> HIDE DEF own
    <3> QED  BY RunsSum
  <2> QED  BY <2>1, <2>2
<1>10. kind \in R!SampledEach => mine = all
  <2> DEFINE f == [i \in DOMAIN job |-> did[i][R!AxisOf(kind)]]
             g == [i \in DOMAIN job |-> did[i]["requests"]]
  <2> SUFFICES ASSUME kind \in R!SampledEach PROVE SumFunctionOnSet(f, DOMAIN job) = SumFunctionOnSet(g, DOMAIN job)
    OBVIOUS
  <2>1. \A i \in DOMAIN job : f[i] \in Int /\ f[i] = g[i]
    <3>1. \A i \in DOMAIN job : g[i] \in Int
      BY <1>2 DEF Row, R!Axes
    <3> QED  BY <1>4, <3>1
  <2> HIDE DEF f, g
  <2> QED  BY ONLY <1>2, <2>1, SumSame
<1> DEFINE prefer(axis, other) == IF of(axis) > 0 THEN [label |-> axis, samples |-> of(axis)]
                                  ELSE [label |-> other, samples |-> of(other)]
<1>11. R!Headline = CASE R!Active = {"sse"} -> prefer("sse_broadcast", "gap")
                     [] R!Active = {"ws"} -> prefer("ws_broadcast", "rtt")
                     [] OTHER -> [label |-> "latency", samples |-> summary.total.latency]
  BY DEF R!Headline
<1>12. ASSUME NEW axis \in SampleAxes, NEW other \in SampleAxes, axis # other,
              R!AxisOf(kind) \in {axis, other}
       PROVE  prefer(axis, other).samples = mine
  <2>1. of(axis) = IF axis = R!AxisOf(kind) THEN mine ELSE 0
    BY <1>5, <1>7
  <2>2. of(other) = IF other = R!AxisOf(kind) THEN mine ELSE 0
    BY <1>5, <1>7
  <2> HIDE DEF of, sum, all, mine
  <2> QED  BY <1>6, <1>12, <2>1, <2>2
<1>13. R!Active = {p} /\ p \in {"http", "sse", "ws"}
  BY ProtocolNames DEF LoneRun
<1>14. R!Headline.samples = mine
  <2> HIDE DEF prefer, of, all, sum, mine
  <2>1. CASE p = "http"
    <3>1. R!AxisOf(kind) = "latency"
      BY <1>1, <2>1 DEF R!AxisOf, R!StepsOf
    <3>2. summary.total.latency = mine
      BY <1>5, <1>8, <3>1 DEF SampleAxes
    <3>3. {"http"} # {"sse"} /\ {"http"} # {"ws"}
      OBVIOUS
    <3> QED  BY <1>11, <1>13, <2>1, <3>2, <3>3
  <2>2. CASE p = "sse"
    <3>1. R!AxisOf(kind) \in {"sse_broadcast", "gap"}
      BY <1>1, <2>2 DEF R!AxisOf, R!StepsOf
    <3>2. prefer("sse_broadcast", "gap").samples = mine
      BY <1>12, <3>1 DEF SampleAxes
    <3> QED  BY <1>11, <1>13, <2>2, <3>2
  <2>3. CASE p = "ws"
    <3>1. R!AxisOf(kind) \in {"ws_broadcast", "rtt"}
      BY <1>1, <2>3 DEF R!AxisOf, R!StepsOf
    <3>2. prefer("ws_broadcast", "rtt").samples = mine
      BY <1>12, <3>1 DEF SampleAxes
    <3>3. {"ws"} # {"sse"}
      OBVIOUS
    <3> QED  BY <1>11, <1>13, <2>3, <3>2, <3>3
  <2> QED  BY <1>13, <2>1, <2>2, <2>3
<1> HIDE DEF prefer, of, all, sum, mine, own
<1> QED  BY <1>8, <1>9, <1>10, <1>14 DEF own

-----------------------------------------------------------------------------
(* The report                                                                 *)

PointsInv ==
  /\ IsList(points)
  /\ \A k \in DOMAIN points :
       points[k].of \in Nat /\ points[k].errors \in Nat /\ (points[k].of > 0 => everDone)

ReportInv ==
  /\ WellFormed(job) /\ PointsInv
  /\ next \in Nat /\ (stage = "start" => next = 1)
  /\ Dispatched /\ R!Serial => next \in DOMAIN job
  /\ stage = "dispatching" => /\ BatchInv /\ did \in [DOMAIN job -> Row]
                              /\ \A i \in DOMAIN job : did[i] = R!Zero
  /\ stage = "running" => BatchInv /\ DidByGroups /\ (SomeTask("requests") => everDone)
  /\ stage = "merged" =>
       /\ BatchInv /\ DidByGroups
       /\ \A p \in Protocols : group[p] # "running"
       /\ summary = R!Merge(R!Collected) /\ (summary.total.requests > 0 => everDone)
  /\ stage = "swept" => Len(points) = Len(Ladder)

LEMMA LengthOfList ==
    ASSUME NEW s, IsList(s)
    PROVE  Len(s) \in Nat /\ DOMAIN s = 1..Len(s)
<1>1. PICK n \in Nat : DOMAIN s = 1..n
  BY DEF IsList
<1>2. Len(s) = n
  BY <1>1
<1> QED  BY <1>1, <1>2

LEMMA PointsStay ==
    ASSUME PointsInv, UNCHANGED points, everDone => everDone'
    PROVE  PointsInv'
  BY DEF PointsInv, IsList

LEMMA PlanStays ==
    ASSUME UNCHANGED <<job, batch, args>>
    PROVE  /\ WellFormed(job) => WellFormed(job)'
           /\ BatchInv => BatchInv'
           /\ R!Serial' = R!Serial
<1>1. WellFormed(job) => WellFormed(job)'
  BY DEF WellFormed, IsList
<1>2. BatchInv => BatchInv'
  BY DEF BatchInv, IsList, Injective
<1> QED  BY <1>1, <1>2 DEF R!Serial

LEMMA DidStays ==
    ASSUME DidByGroups, UNCHANGED <<job, batch, args, did, tasks, group>>
    PROVE  DidByGroups'
<1>1. \A p : /\ R!SubPlan(p)' = R!SubPlan(p) /\ Places(p)' = Places(p)
             /\ R!BackendFor(R!SubPlan(p))' = R!BackendFor(R!SubPlan(p))
             /\ R!Active' = R!Active
             /\ TasksOf(p, did)' = TasksOf(p, did)
  BY GroupsStay
<1>2. R!Cardinality(R!Active)' = R!Cardinality(R!Active)
  BY <1>1 DEF R!Cardinality
<1>3. ASSUME NEW p \in Protocols
      PROVE  /\ (group[p] = "off" <=> p \notin R!Active)'
             /\ (group[p] = "ended" =>
                   /\ tasks[p] = TasksOf(p, did)
                   /\ \A t \in DOMAIN Places(p) : did[Places(p)[t]] \in R!Possible(R!BackendFor(R!SubPlan(p))))'
             /\ (group[p] # "ended" => tasks[p] = <<>>)'
  BY <1>1 DEF DidByGroups
<1>4. (\A i \in DOMAIN job : did[i] # R!Zero =>
        \E p \in Protocols : group[p] = "ended" /\ \E t \in DOMAIN Places(p) : Places(p)[t] = i)'
  BY <1>1 DEF DidByGroups
<1>5. (did \in [DOMAIN job -> Row])' /\ (R!Cardinality(R!Active) = 1 => \A p \in Protocols : group[p] # "panicked")'
  BY <1>2 DEF DidByGroups
<1> QED  BY <1>3, <1>4, <1>5 DEF DidByGroups

LEMMA ReportStart == Init => ReportInv
<1> SUFFICES ASSUME Init PROVE ReportInv
  OBVIOUS
<1>1. stage = "start" /\ job = <<>> /\ points = <<>> /\ next = 1
  BY DEF Init, R!RunsInit
<1> QED  BY <1>1, EmptyList DEF ReportInv, WellFormed, PointsInv, Dispatched

LEMMA ReportBegins ==
    ASSUME ReportInv, Begins
    PROVE  ReportInv'
<1>1. stage = "start" /\ next = 1 /\ next' = next /\ points' = points /\ everDone' = everDone
  BY DEF ReportInv, Begins, R!Idle
<1>2. PointsInv'
  BY <1>1, PointsStay DEF ReportInv
<1>3. WellFormed(job)'
  <2>1. CASE job' = <<>>
    BY <2>1, EmptyList DEF WellFormed
  <2>2. CASE UNCHANGED job
    BY <2>2 DEF ReportInv, WellFormed, IsList
  <2> QED  BY <2>1, <2>2 DEF Begins, ReportInv, WellFormed, IsList
<1>4. stage' \in {"planned", "exited"}
  BY DEF Begins
<1>5. R!Serial' => 1 \in DOMAIN job'
  <2>1. Len(job') \in Nat /\ DOMAIN job' = 1..Len(job')
    BY <1>3, LengthOfList DEF WellFormed, IsList
  <2> QED  BY <2>1 DEF R!Serial
<1> QED  BY <1>1, <1>2, <1>3, <1>4, <1>5 DEF ReportInv

LEMMA ReportDispatch ==
    ASSUME ReportInv, R!Dispatch
    PROVE  ReportInv'
<1>1. /\ stage = "planned" /\ stage' = "dispatching" /\ args' = args /\ job' = job
      /\ next' = next /\ points' = points /\ everDone' = everDone
      /\ batch' = IF R!Serial THEN <<next>> ELSE [i \in DOMAIN job |-> i]
      /\ did' = [i \in DOMAIN job |-> R!Zero]
  BY DEF R!Dispatch
<1>2. PointsInv'
  BY <1>1, PointsStay DEF ReportInv
<1>3. WellFormed(job)' /\ R!Serial' = R!Serial
  BY <1>1 DEF ReportInv, WellFormed, IsList, R!Serial
<1>4. BatchInv'
  <2>1. /\ \E n \in Nat : DOMAIN batch' = 1..n
        /\ \A k, l \in DOMAIN batch' : batch'[k] = batch'[l] => k = l
        /\ \A k \in DOMAIN batch' : batch'[k] \in DOMAIN job
    <3>1. CASE R!Serial
      <4>1. next \in DOMAIN job
        BY <1>1, <3>1 DEF ReportInv, Dispatched
      <4>2. batch' = <<next>>
        BY <1>1, <3>1
      <4>3. DOMAIN batch' = 1..1 /\ \A k \in 1..1 : batch'[k] = next /\ k = 1
        BY <4>2
      <4> QED  BY <4>1, <4>3
    <3>2. CASE ~R!Serial
      <4>1. batch' = [i \in DOMAIN job |-> i]
        BY <1>1, <3>2
      <4>2. \E n \in Nat : DOMAIN job = 1..n
        BY DEF ReportInv, WellFormed, IsList
      <4> QED  BY <4>1, <4>2
    <3> QED  BY <3>1, <3>2
  <2> QED  BY <1>1, <2>1 DEF BatchInv, Injective, IsList
<1>5. (did \in [DOMAIN job -> Row])' /\ \A i \in DOMAIN job' : did'[i] = R!Zero
  BY <1>1, ZeroIsRow
<1> QED  BY <1>1, <1>2, <1>3, <1>4, <1>5 DEF ReportInv, Dispatched

LEMMA ReportSpawn ==
    ASSUME RunsType, ReportInv, R!Spawn
    PROVE  ReportInv'
<1>1. /\ stage = "dispatching" /\ stage' = "running" /\ UNCHANGED <<job, batch, args>>
      /\ next' = next /\ points' = points /\ everDone' = everDone
      /\ tasks' = [p \in Protocols |-> <<>>]
  BY DEF R!Spawn, Protocols
<1>2. PointsInv'
  BY <1>1, PointsStay DEF ReportInv
<1>3. WellFormed(job)' /\ BatchInv' /\ R!Serial' = R!Serial
  BY <1>1, PlanStays DEF ReportInv
<1>4. DidByGroups'
  BY <1>1, DidStarts DEF ReportInv
<1>5. ~SomeTask("requests")'
  BY <1>1 DEF SomeTask, AllTasks, Members
<1> QED  BY <1>1, <1>2, <1>3, <1>4, <1>5 DEF ReportInv, Dispatched

LEMMA ReportGroupEnds ==
    ASSUME CliAssumption, ExitInv, ReportInv, NEW p \in Protocols, R!GroupEnds(p)
    PROVE  ReportInv'
<1>1. /\ stage = "running" /\ stage' = stage /\ UNCHANGED <<job, batch, args>>
      /\ next' = next /\ points' = points
  BY DEF R!GroupEnds
<1>2. PICK n \in Nat : \E rows : Leaves(p, n, rows) /\ GroupCounts(p, n, rows)
  BY GroupAddsTasks
<1>3. PICK rows : Leaves(p, n, rows) /\ GroupCounts(p, n, rows)
  BY <1>2
<1>4. PointsInv'
  <2>1. everDone => everDone'
    BY <1>3 DEF Leaves
  <2> QED  BY <1>1, <2>1, PointsStay DEF ReportInv
<1>5. WellFormed(job)' /\ BatchInv' /\ R!Serial' = R!Serial
  BY <1>1, PlanStays DEF ReportInv
<1>6. DidByGroups'
  BY <1>1, DidGoesOn DEF ReportInv, ExitInv
<1>7. SomeTask("requests")' => everDone'
  BY <1>1, <1>3 DEF Leaves, GroupCounts, ReportInv
<1> QED  BY <1>1, <1>4, <1>5, <1>6, <1>7 DEF ReportInv, Dispatched

LEMMA ReportGroupPanics ==
    ASSUME RunsType, ReportInv, NEW p \in Protocols, R!GroupPanics(p)
    PROVE  ReportInv'
<1>1. /\ stage = "running" /\ stage' \in {"running", "exited"} /\ UNCHANGED <<job, batch, args>>
      /\ next' = next /\ points' = points /\ everDone' = everDone /\ tasks' = tasks
  BY DEF R!GroupPanics, R!Exit
<1>2. PointsInv'
  BY <1>1, PointsStay DEF ReportInv
<1>3. WellFormed(job)' /\ BatchInv' /\ R!Serial' = R!Serial
  BY <1>1, PlanStays DEF ReportInv
<1>4. stage' = "running" => DidByGroups'
  BY <1>1, DidPanics DEF ReportInv
<1>5. SomeTask("requests")' <=> SomeTask("requests")
  BY <1>1 DEF SomeTask, AllTasks
<1> QED  BY <1>1, <1>2, <1>3, <1>4, <1>5 DEF ReportInv, Dispatched

LEMMA ReportJoin ==
    ASSUME RunsType, ReportInv, R!Join
    PROVE  ReportInv'
<1>1. /\ stage = "running" /\ stage' = "merged" /\ UNCHANGED <<job, batch, args, did, tasks, group>>
      /\ next' = next /\ points' = points /\ everDone' = everDone
      /\ summary' = R!Merge(R!Collected)
      /\ \A q \in DOMAIN group : group[q] # "running"
  BY DEF R!Join
<1>2. PointsInv'
  BY <1>1, PointsStay DEF ReportInv
<1>3. WellFormed(job)' /\ BatchInv' /\ R!Serial' = R!Serial
  BY <1>1, PlanStays DEF ReportInv
<1>4. DidByGroups'
  BY <1>1, DidStays DEF ReportInv
<1>5. summary' = R!Merge(R!Collected)'
  BY <1>1 DEF R!Collected, R!Merge
<1>6. \A q \in Protocols : group'[q] # "running"
  BY <1>1 DEF RunsType
<1>7. R!Collected \in Seq(Task) /\ Members(R!Collected) = AllTasks
  BY CollectedIsAll DEF RunsType
<1>8. summary'.total.requests > 0 => SomeTask("requests")
  BY <1>1, <1>7, MergeOfTasks DEF SomeTask, R!Axes
<1> QED  BY <1>1, <1>2, <1>3, <1>4, <1>5, <1>6, <1>8 DEF ReportInv, Dispatched

LEMMA ReportRenders ==
    ASSUME ReportInv, R!DryRun \/ R!RenderFails \/ R!Rendered \/ R!Swept
    PROVE  ReportInv'
<1>1. /\ stage' = "exited" /\ next' = next /\ points' = points /\ everDone' = everDone
      /\ job' = <<>> \/ job' = job
  BY DEF R!DryRun, R!RenderFails, R!Rendered, R!Swept, R!Exit, R!Idle
<1>2. PointsInv'
  BY <1>1, PointsStay DEF ReportInv
<1>3. WellFormed(job)'
  BY <1>1, EmptyList DEF ReportInv, WellFormed, IsList
<1> QED  BY <1>1, <1>2, <1>3 DEF ReportInv, Dispatched

LEMMA ReportNextScenario ==
    ASSUME ReportInv, R!NextScenario
    PROVE  ReportInv'
<1>1. /\ stage = "merged" /\ R!Serial /\ UNCHANGED <<job, batch, args>>
      /\ points' = points /\ everDone' = everDone
      /\ \/ stage' = "planned" /\ next < Len(job) /\ next' = next + 1
         \/ stage' = "exited" /\ next' = next
  BY DEF R!NextScenario, R!Exit
<1>2. PointsInv'
  BY <1>1, PointsStay DEF ReportInv
<1>3. WellFormed(job)' /\ R!Serial' = R!Serial
  BY <1>1, PlanStays DEF ReportInv
<1>4. next' \in Nat /\ (stage' = "planned" => next' \in DOMAIN job)
  <2>1. Len(job) \in Nat /\ DOMAIN job = 1..Len(job)
    BY LengthOfList DEF ReportInv, WellFormed
  <2> QED  BY <1>1, <2>1 DEF ReportInv
<1> QED  BY <1>1, <1>2, <1>3, <1>4 DEF ReportInv, Dispatched

LEMMA ReportCurvePoint ==
    ASSUME RunsType, ReportInv, R!CurvePoint
    PROVE  ReportInv'
<1>1. /\ stage = "merged" /\ next' = next /\ everDone' = everDone
      /\ \E p99 : points' = Append(points, [offered |-> R!Max(args.rate), p99 |-> p99,
                                            of |-> summary.total.requests,
                                            errors |-> summary.total.hard + summary.total.soft])
      /\ \/ stage' = "swept" /\ Len(points') = Len(Ladder) /\ UNCHANGED <<args, job>>
         \/ \E rate : /\ args' = [args EXCEPT !.rate = {rate}]
                      /\ job' = [job EXCEPT ![1].rate = R!Constant(rate)]
                      /\ stage' = "planned"
  BY DEF R!CurvePoint
<1>2. PICK p99 : points' = Append(points, [offered |-> R!Max(args.rate), p99 |-> p99,
                                           of |-> summary.total.requests,
                                           errors |-> summary.total.hard + summary.total.soft])
  BY <1>1
<1> DEFINE point == [offered |-> R!Max(args.rate), p99 |-> p99, of |-> summary.total.requests,
                     errors |-> summary.total.hard + summary.total.soft]
<1>3. point.of \in Nat /\ point.errors \in Nat /\ (point.of > 0 => everDone)
  <2>1. summary.total.requests \in Nat /\ summary.total.hard \in Nat /\ summary.total.soft \in Nat
    BY DEF RunsType, Row, R!Axes
  <2> QED  BY <1>1, <2>1 DEF ReportInv
<1>4. points' = Append(points, point)
  BY <1>2
<1> HIDE DEF point
<1>5. PointsInv'
  <2>1. IsList(points) /\ \A k \in DOMAIN points :
          points[k].of \in Nat /\ points[k].errors \in Nat /\ (points[k].of > 0 => everDone)
    BY DEF ReportInv, PointsInv
  <2>2. IsList(points') /\ \A k \in DOMAIN points' :
          points'[k].of \in Nat /\ points'[k].errors \in Nat /\ (points'[k].of > 0 => everDone)
    BY <1>3, <1>4, <2>1, AppendedToList
  <2> QED  BY <1>1, <2>2 DEF PointsInv, IsList
<1>6. /\ WellFormed(job)' /\ DOMAIN job' = DOMAIN job
      /\ args'.parallel = args.parallel
  <2>1. CASE UNCHANGED <<args, job>>
    BY <2>1 DEF ReportInv, WellFormed, IsList
  <2>2. CASE \E rate : /\ args' = [args EXCEPT !.rate = {rate}]
                       /\ job' = [job EXCEPT ![1].rate = R!Constant(rate)]
    <3>1. PICK rate : /\ args' = [args EXCEPT !.rate = {rate}]
                      /\ job' = [job EXCEPT ![1].rate = R!Constant(rate)]
      BY <2>2
    <3>2. DOMAIN job' = DOMAIN job /\ args'.parallel = args.parallel
      BY <3>1 DEF RunsType
    <3>3. ASSUME NEW i \in DOMAIN job
          PROVE  DOMAIN job'[i] = DOMAIN job[i] /\ job'[i].steps = job[i].steps
      <4>1. DOMAIN job[i] = {"steps", "rate"}
        BY DEF ReportInv, WellFormed
      <4>2. job'[i] = IF i = 1 THEN [job[i] EXCEPT !.rate = R!Constant(rate)] ELSE job[i]
        BY <3>1
      <4> QED  BY <4>1, <4>2
    <3> QED  BY <3>2, <3>3 DEF ReportInv, WellFormed, IsList
  <2> QED  BY <1>1, <2>1, <2>2
<1>7. R!Serial' = R!Serial
  <2>1. Len(job') = Len(job)
    <3>1. IsList(job) /\ IsList(job')
      BY <1>6 DEF ReportInv, WellFormed, IsList
    <3>2. \A n, m \in Nat : 1..n = 1..m => n = m
      <4> SUFFICES ASSUME NEW n \in Nat, NEW m \in Nat, 1..n = 1..m, n # m PROVE FALSE
        OBVIOUS
      <4>1. CASE n < m
        <5>1. m \in 1..m /\ m \notin 1..n
          BY <4>1
        <5> QED  BY <5>1
      <4>2. CASE m < n
        <5>1. n \in 1..n /\ n \notin 1..m
          BY <4>2
        <5> QED  BY <5>1
      <4> QED  BY <4>1, <4>2
    <3>3. Len(job) \in Nat /\ DOMAIN job = 1..Len(job) /\ Len(job') \in Nat /\ DOMAIN job' = 1..Len(job')
      BY <3>1, LengthOfList
    <3> QED  BY <1>6, <3>2, <3>3
  <2> QED  BY <1>6, <2>1 DEF R!Serial
<1>8. stage' \in {"planned", "swept"} /\ (stage' = "swept" => Len(points') = Len(Ladder))
  BY <1>1
<1> QED  BY <1>1, <1>5, <1>6, <1>7, <1>8 DEF ReportInv, Dispatched

LEMMA ReportUnchanged ==
    ASSUME ReportInv, UNCHANGED runVars
    PROVE  ReportInv'
<1>1. UNCHANGED <<stage, args, job, batch, next, group, tasks, did, everDone, summary, points>>
  BY DEF runVars
<1>2. PointsInv'
  BY <1>1, PointsStay DEF ReportInv
<1>3. /\ WellFormed(job)' /\ R!Serial' = R!Serial /\ (BatchInv => BatchInv')
      /\ (DidByGroups => DidByGroups')
  BY <1>1, PlanStays, DidStays DEF ReportInv
<1>4. R!Merge(R!Collected)' = R!Merge(R!Collected) /\ (SomeTask("requests")' <=> SomeTask("requests"))
  BY <1>1 DEF R!Merge, R!Collected, SomeTask, AllTasks
<1> QED  BY <1>1, <1>2, <1>3, <1>4 DEF ReportInv, Dispatched

LEMMA ReportStep ==
    ASSUME CliAssumption, ScriptInv, ExitInv, ReportInv, [Next]_vars
    PROVE  ReportInv'
<1>0. RunsType
  BY DEF ExitInv
<1>1. CASE Load \/ CompareStep \/ UNCHANGED vars
  <2>1. UNCHANGED runVars
    BY <1>1 DEF Load, CompareStep, vars, runVars
  <2> QED  BY <2>1, ReportUnchanged
<1>2. CASE Start
  <2> DEFINE loaded == [i \in DOMAIN plan |->
               [steps |-> [j \in DOMAIN plan[i].steps |-> plan[i].steps[j].kind], rate |-> plan[i].rate]]
  <2>1. WellFormed(loaded)
    BY LoadedIsWellFormed
  <2>2. R!RunScript(loaded) \/ R!ScriptFails
    BY <1>2 DEF Start
  <2> HIDE DEF loaded
  <2> QED  BY <2>1, <2>2, ScriptBegins, OthersBegin, ReportBegins
<1>3. CASE RunStep
  <2>1. CASE R!Bare \/ R!Probe \/ R!Curve
    BY <2>1, BareBegins, OthersBegin, ReportBegins
  <2>2. CASE R!DryRun \/ R!RenderFails \/ R!Rendered \/ R!Swept
    BY <2>2, ReportRenders
  <2>3. CASE R!Dispatch \/ R!Spawn \/ R!Join \/ R!NextScenario \/ R!CurvePoint
    BY <1>0, <2>3, ReportDispatch, ReportSpawn, ReportJoin, ReportNextScenario, ReportCurvePoint
  <2>4. CASE \E p \in Protocols : R!GroupEnds(p) \/ R!GroupPanics(p)
    BY <1>0, <2>4, ReportGroupEnds, ReportGroupPanics
  <2> QED  BY <1>3, <2>1, <2>2, <2>3, <2>4 DEF RunStep, R!RunsNext, Protocols
<1> QED  BY <1>1, <1>2, <1>3 DEF Next

\* A sweep without a knee is of steps the server answered.
LEMMA NoKnee ==
    ASSUME CliAssumption, ReportInv, stage = "swept", R!Knee = R!Nothing
    PROVE  everDone /\ \A k \in 2..Len(points) : points[k].errors < points[k].of
<1> DEFINE over == {k \in 2..Len(points) : R!OverTheKnee(points[k])}
<1>1. over = {}
  <2>1. R!Knee = IF over = {} THEN R!Nothing ELSE {R!Min(over)}
    BY DEF R!Knee
  <2> HIDE DEF over
  <2> QED  BY <2>1 DEF R!Nothing
<1>2. Len(points) \in Nat /\ DOMAIN points = 1..Len(points)
  BY LengthOfList DEF ReportInv, PointsInv
<1>3. ASSUME NEW k \in 2..Len(points)
      PROVE  points[k].errors < points[k].of /\ points[k].of > 0 /\ k \in DOMAIN points
  <2>1. k \in DOMAIN points
    BY <1>2
  <2>2. points[k].of \in Nat /\ points[k].errors \in Nat
    BY <2>1 DEF ReportInv, PointsInv
  <2>3. ~R!OverTheKnee(points[k])
    BY <1>1
  <2>4. points[k].of # 0 /\ ~(100 * points[k].errors >= points[k].of)
    BY <2>3 DEF R!OverTheKnee
  <2> QED  BY <2>1, <2>2, <2>4
<1>4. everDone
  <2>1. 2 \in 2..Len(points)
    <3>1. Len(points) = Len(Ladder) /\ Len(Ladder) >= 2
      BY DEF ReportInv, CliAssumption
    <3> QED  BY <1>2, <3>1
  <2> QED  BY <1>3, <2>1 DEF ReportInv, PointsInv
<1> QED  BY <1>3, <1>4

LEMMA ReportHolds ==
    ASSUME CliAssumption, ExitInv, ReportInv
    PROVE  ReportIsTheRun
<1>1. ASSUME stage = "merged"
      PROVE  /\ summary.total = R!TotalsOf(R!AddAll([i \in DOMAIN did |-> did[i]]))
             /\ R!Cardinality(R!Active) = 1 => \A k \in DOMAIN batch : R!RowNamed(k) = did[batch[k]]
             /\ R!Cardinality(R!Active) = 1 =>
                  \A kind \in R!KindsRun : R!KindsRun = {kind} =>
                    /\ R!Headline.samples = R!SumFunction([i \in DOMAIN did |-> did[i][R!AxisOf(kind)]])
                    /\ kind \in R!SampledEach => R!Headline.samples = summary.total.requests
  <2>1. /\ BatchInv /\ WellFormed(job) /\ IsList(job) /\ RunsType /\ DidByGroups
        /\ \A q \in Protocols : group[q] # "running"
        /\ summary = R!Merge(R!Collected)
    BY <1>1 DEF ReportInv, ExitInv, WellFormed
  <2>2. summary.total = R!TotalsOf(R!AddAll([i \in DOMAIN did |-> did[i]]))
    BY <2>1, TotalIsTheRun
  <2>3. ASSUME R!Cardinality(R!Active) = 1 PROVE \E p : LoneRun(p)
    <3>1. Cardinality(R!Active) = 1
      BY <2>3, RunsCardinality
    <3>2. PICK p : R!Active = {p}
      BY <3>1, ActiveIsFinite, FS_Singleton
    <3>3. LoneRun(p)
      BY <2>1, <3>2, ActiveIsFinite DEF LoneRun
    <3> QED  BY <3>3
  <2>4. ASSUME R!Cardinality(R!Active) = 1 PROVE \A k \in DOMAIN batch : R!RowNamed(k) = did[batch[k]]
    BY <2>3, <2>4, LoneRows
  <2>5. ASSUME R!Cardinality(R!Active) = 1, NEW kind \in R!KindsRun, R!KindsRun = {kind}
        PROVE  /\ R!Headline.samples = R!SumFunction([i \in DOMAIN did |-> did[i][R!AxisOf(kind)]])
               /\ kind \in R!SampledEach => R!Headline.samples = summary.total.requests
    BY <2>3, <2>5, HeadlineCounts
  <2> QED  BY <2>2, <2>4, <2>5
<1>2. ASSUME stage = "swept", R!Knee = R!Nothing
      PROVE  everDone /\ \A k \in 2..Len(points) : points[k].errors < points[k].of
  BY <1>2, NoKnee
<1> QED  BY <1>1, <1>2 DEF ReportIsTheRun, R!ReportIsTheRun

\* The totals of the report are what the groups that ended put down for the
\* scenarios of the dispatch, in whichever order they did; a report of one
\* protocol has a row for each scenario, and its headline, when all the steps
\* are of one kind, the samples of that kind and no other, which are one for
\* every operation of HTTP and of an echo (Summary::merge, sub_plan,
\* pick_latency_source); a curve without a knee is one whose server answered at
\* every step after the first (detect_knee).
THEOREM ReportAccountsForTheRun == Spec => []ReportIsTheRun
<1>1. Init => ScriptInv /\ ExitInv /\ ReportInv
  BY ScriptStart, ExitStart, ReportStart
<1>2. ScriptInv /\ ExitInv /\ ReportInv /\ [Next]_vars => ScriptInv' /\ ExitInv' /\ ReportInv'
  BY CliAssumption, ScriptNextStep, ExitStep, ReportStep
<1>3. ExitInv /\ ReportInv => ReportIsTheRun
  BY CliAssumption, ReportHolds
<1> QED  BY <1>1, <1>2, <1>3, PTL DEF Spec

-----------------------------------------------------------------------------
(* What compare prints of two histograms *)

LEMMA ComparisonsMin ==
    ASSUME NEW x \in Int, NEW y \in Int
    PROVE  /\ C!Min({x, y}) \in {x, y} /\ C!Min({x, y}) <= x /\ C!Min({x, y}) <= y
           /\ C!Min({x}) = x
<1>1. \E m \in {x, y} : \A z \in {x, y} : m <= z
  <2>1. x <= y \/ y <= x
    OBVIOUS
  <2> QED  BY <2>1
<1>2. C!Min({x, y}) \in {x, y} /\ \A z \in {x, y} : C!Min({x, y}) <= z
  BY <1>1 DEF C!Min
<1>3. \E m \in {x} : \A z \in {x} : m <= z
  OBVIOUS
<1>4. C!Min({x}) \in {x}
  BY <1>3 DEF C!Min
<1> QED  BY <1>2, <1>4

LEMMA ComparisonsMax ==
    ASSUME NEW T \in SUBSET Int, IsFiniteSet(T), T # {}
    PROVE  C!Max(T) \in T /\ \A x \in T : C!Max(T) >= x
<1>1. \E m \in T : \A x \in T : m >= x
  BY FiniteGreatest
<1> QED  BY <1>1 DEF C!Max

LEMMA ComparisonsMaxOf ==
    ASSUME NEW T \in SUBSET Int, NEW m \in T, \A x \in T : m >= x
    PROVE  C!Max(T) = m
<1>1. C!Max(T) \in T /\ \A x \in T : C!Max(T) >= x
  BY DEF C!Max
<1>2. m >= C!Max(T) /\ C!Max(T) >= m /\ m \in Int /\ C!Max(T) \in Int
  BY <1>1
<1> QED  BY <1>2

LEMMA ComparisonsCardinality ==
    ASSUME NEW T
    PROVE  C!Cardinality(T) = Cardinality(T)
  BY DEF C!Cardinality, Cardinality

-----------------------------------------------------------------------------
(* Holm's correction                                                          *)

\* The values that are not after each of them.
NotAfterOf(ps) == [i \in DOMAIN ps |-> {j \in DOMAIN ps : C!NotAfter(ps, j, i)}]

\* A tie is broken by the position, so that the values are in a linear order.
LEMMA ValuesAreOrdered ==
    ASSUME NEW n \in Nat, NEW ps \in [1..n -> Nat]
    PROVE  Ordered(1..n, NotAfterOf(ps))
<1> DEFINE below == NotAfterOf(ps)
<1>1. \A i, j \in 1..n : j \in below[i] <=> ps[j] < ps[i] \/ (ps[j] = ps[i] /\ j <= i)
  BY DEF NotAfterOf, C!NotAfter
<1>2. \A i \in 1..n : below[i] \in SUBSET (1..n)
  BY DEF NotAfterOf
<1>3. \A i \in 1..n : i \in Nat /\ ps[i] \in Nat
  OBVIOUS
<1> HIDE DEF below
<1>4. /\ \A i \in 1..n : i \in below[i]
      /\ \A i, j \in 1..n : j \in below[i] \/ i \in below[j]
      /\ \A i, j \in 1..n : j \in below[i] /\ i \in below[j] => i = j
  BY <1>1, <1>3
<1>5. \A i, j \in 1..n : j \in below[i] => below[j] \subseteq below[i]
  <2> SUFFICES ASSUME NEW i \in 1..n, NEW j \in 1..n, j \in below[i], NEW k \in below[j]
               PROVE  k \in below[i]
    OBVIOUS
  <2>1. k \in 1..n
    BY <1>2
  <2>2. /\ ps[k] < ps[j] \/ (ps[k] = ps[j] /\ k <= j)
        /\ ps[j] < ps[i] \/ (ps[j] = ps[i] /\ j <= i)
    BY <1>1, <2>1
  <2>3. /\ ps[i] \in Nat /\ ps[j] \in Nat /\ ps[k] \in Nat
        /\ i \in Nat /\ j \in Nat /\ k \in Nat
    BY <1>3, <2>1
  <2>4. ps[k] < ps[i] \/ (ps[k] = ps[i] /\ k <= i)
    BY <2>2, <2>3
  <2> QED  BY <1>1, <2>1, <2>4
<1> QED  BY <1>2, <1>4, <1>5 DEF Ordered, below

\* The places of the values, the smallest first.
LEMMA RankOrderPlaces ==
    ASSUME NEW n \in Nat, NEW ps \in [1..n -> Nat]
    PROVE  /\ \A i \in 1..n : Cardinality(NotAfterOf(ps)[i]) \in 1..n
           /\ \A k \in 1..n : /\ C!RankOrder(ps)[k] \in 1..n
                              /\ Cardinality(NotAfterOf(ps)[C!RankOrder(ps)[k]]) = k
           /\ \A i \in 1..n : C!RankOrder(ps)[Cardinality(NotAfterOf(ps)[i])] = i
           /\ \A i, j \in 1..n :
                /\ C!NotAfter(ps, j, i) <=>
                     Cardinality(NotAfterOf(ps)[j]) <= Cardinality(NotAfterOf(ps)[i])
                /\ Cardinality(NotAfterOf(ps)[i]) = Cardinality(NotAfterOf(ps)[j]) => i = j
           /\ \A i \in 1..n : C!Cardinality({k \in DOMAIN ps : C!NotAfter(ps, i, k)})
                                = n - Cardinality(NotAfterOf(ps)[i]) + 1
<1> DEFINE T == 1..n
           below == NotAfterOf(ps)
           placed(k) == CHOOSE i \in T : C!Cardinality({j \in T : C!NotAfter(ps, j, i)}) = k
<1>1. IsFiniteSet(T) /\ Cardinality(T) = n /\ DOMAIN ps = T
  <2>1. 1 \in Int /\ n \in Int
    OBVIOUS
  <2> QED  BY <2>1, FS_Interval
<1>2. Ordered(T, below)
  BY ValuesAreOrdered
<1>3. /\ \A i, j \in T : j \in below[i] <=> C!NotAfter(ps, j, i)
      /\ \A i \in T : below[i] = {j \in T : C!NotAfter(ps, j, i)}
  BY <1>1 DEF NotAfterOf
<1>4. \A k \in T : C!RankOrder(ps)[k] = placed(k)
  <2>1. C!RankOrder(ps) = [k \in T |-> placed(k)]
    BY <1>1 DEF C!RankOrder
  <2> HIDE DEF placed
  <2> QED  BY <2>1
<1> HIDE DEF T, below
<1>5. \A i \in T : Cardinality(below[i]) \in 1..n
  BY <1>1, <1>2, PlaceType
<1>6. \A i, j \in T : /\ C!NotAfter(ps, j, i) <=> Cardinality(below[j]) <= Cardinality(below[i])
                      /\ Cardinality(below[j]) = Cardinality(below[i]) => j = i
  BY <1>1, <1>2, <1>3, PlaceIsOrder
<1>7. ASSUME NEW k \in T PROVE placed(k) \in T /\ Cardinality(below[placed(k)]) = k
  <2>1. k \in 1..Cardinality(T)
    BY <1>1 DEF T
  <2>2. PICK i \in T : Cardinality(below[i]) = k
    <3>1. PlacesAreTaken(T, below)
      BY <1>1, <1>2, PlaceIsTaken
    <3> QED  BY <2>1, <3>1 DEF PlacesAreTaken
  <2>3. \A j \in T : C!Cardinality({l \in T : C!NotAfter(ps, l, j)}) = Cardinality(below[j])
    BY <1>3, ComparisonsCardinality
  <2>4. \E j \in T : C!Cardinality({l \in T : C!NotAfter(ps, l, j)}) = k
    BY <2>2, <2>3
  <2>5. placed(k) \in T /\ C!Cardinality({l \in T : C!NotAfter(ps, l, placed(k))}) = k
    BY <2>4
  <2> HIDE DEF placed
  <2> QED  BY <2>3, <2>5
<1> HIDE DEF placed
<1>8. \A i \in T : C!RankOrder(ps)[Cardinality(below[i])] = i
  <2> SUFFICES ASSUME NEW i \in T PROVE C!RankOrder(ps)[Cardinality(below[i])] = i
    OBVIOUS
  <2> DEFINE k == Cardinality(below[i])
  <2>1. k \in T
    BY <1>5 DEF T
  <2> HIDE DEF k
  <2>2. placed(k) \in T /\ Cardinality(below[placed(k)]) = k /\ C!RankOrder(ps)[k] = placed(k)
    BY <1>4, <1>7, <2>1
  <2>3. placed(k) = i
    BY <1>6, <2>2 DEF k
  <2> QED  BY <2>2, <2>3 DEF k
<1>9. ASSUME NEW i \in T
      PROVE  C!Cardinality({k \in DOMAIN ps : C!NotAfter(ps, i, k)}) = n - Cardinality(below[i]) + 1
  <2> DEFINE high == {k \in DOMAIN ps : C!NotAfter(ps, i, k)}
  <2>1. high \in SUBSET T /\ \A k \in T : k \in high <=> i \in below[k]
    BY <1>1, <1>3
  <2> HIDE DEF high
  <2>2. Cardinality(high) = Cardinality(T) - Cardinality(below[i]) + 1
    BY <1>1, <1>2, <2>1, PlaceFromTheEnd
  <2>3. C!Cardinality(high) = n - Cardinality(below[i]) + 1
    BY <1>1, <2>2, ComparisonsCardinality
  <2> QED  BY <2>3 DEF high
<1> QED  BY <1>4, <1>5, <1>6, <1>7, <1>8, <1>9 DEF T, below

\* What the value at place k is compared by.
Candidate(ps, k) == ps[C!RankOrder(ps)[k]] * (Len(ps) - k + 1)

LEMMA CandidateIsInt ==
    ASSUME NEW n \in Nat, NEW ps \in [1..n -> Nat], NEW k \in 1..n
    PROVE  Candidate(ps, k) \in Int /\ Len(ps) = n
<1>1. ps[C!RankOrder(ps)[k]] \in Nat
  BY RankOrderPlaces
<1>2. Len(ps) = n
  OBVIOUS
<1>3. n - k + 1 \in Int
  OBVIOUS
<1>4. \A x, y \in Int : x * y \in Int
  OBVIOUS
<1>5. ps[C!RankOrder(ps)[k]] * (n - k + 1) \in Int
  BY <1>1, <1>3, <1>4
<1> QED  BY <1>2, <1>5 DEF Candidate

\* Append, for a step that is to be cited: the provers expand the library's.
Adjoin(s, x) == Append(s, x)

\* What Append leaves of a sequence, and what it makes of it.
LEMMA AdjoinKeeps ==
    ASSUME NEW V, NEW s \in Seq(V), NEW x \in V, NEW r \in 1..Len(s)
    PROVE  Adjoin(s, x)[r] = s[r]
<1>1. Len(s) \in Nat /\ DOMAIN s = 1..Len(s)
  OBVIOUS
<1> QED  BY <1>1 DEF Adjoin

LEMMA AdjoinIs ==
    ASSUME NEW V, NEW s \in Seq(V), NEW x \in V
    PROVE  /\ Adjoin(s, x) \in Seq(V) /\ Len(Adjoin(s, x)) = Len(s) + 1
           /\ Adjoin(s, x)[Len(s) + 1] = x
           /\ \A r \in 1..Len(s) : Adjoin(s, x)[r] = s[r]
<1>1. Len(s) \in Nat /\ DOMAIN s = 1..Len(s)
  OBVIOUS
<1>2. Append(s, x) \in Seq(V) /\ Len(Append(s, x)) = Len(s) + 1
  OBVIOUS
<1>3. Append(s, x)[Len(s) + 1] = x
  OBVIOUS
<1>4. \A r \in 1..Len(s) : Append(s, x)[r] = s[r]
  BY <1>1
<1> QED  BY <1>2, <1>3, <1>4 DEF Adjoin

\* What the step at place k appends: the running maximum.
Adjusted(ps, k, done) ==
  C!Max({C!Min({Candidate(ps, k), MaxP})} \cup (IF done = <<>> THEN {} ELSE {C!Last(done)}))

\* The adjusted value is below a level when the candidate is, and the one before.
LEMMA HolmStepIs ==
    ASSUME CliAssumption, NEW n \in Nat, NEW ps \in [1..n -> Nat], NEW k \in 1..n, NEW done \in Seq(Int)
    PROVE  /\ C!HolmStep(ps, C!RankOrder(ps), done, k) = Adjoin(done, Adjusted(ps, k, done))
           /\ Adjusted(ps, k, done) \in Int
           /\ \A alpha \in 1..MaxP :
                Adjusted(ps, k, done) < alpha
                  <=> Candidate(ps, k) < alpha /\ (Len(done) > 0 => done[Len(done)] < alpha)
<1> DEFINE c == Candidate(ps, k)
           low == C!Min({c, MaxP})
           T == {low} \cup (IF done = <<>> THEN {} ELSE {C!Last(done)})
           x == C!Max(T)
<1>1. c \in Int /\ MaxP \in Int
  <2>1. MaxP \in Int
    BY DEF CliAssumption
  <2>2. Candidate(ps, k) \in Int
    BY CandidateIsInt
  <2> QED  BY <2>1, <2>2
<1>2. C!HolmStep(ps, C!RankOrder(ps), done, k) = Adjoin(done, x) /\ x = Adjusted(ps, k, done)
  BY DEF C!HolmStep, Candidate, Adjoin, Adjusted
<1> HIDE DEF c
<1>3. low \in {c, MaxP} /\ low <= c /\ low <= MaxP /\ low \in Int
  <2>1. low \in {c, MaxP} /\ low <= c /\ low <= MaxP
    BY <1>1, ComparisonsMin
  <2> HIDE DEF low
  <2> QED  BY <1>1, <2>1
<1> HIDE DEF low
<1>4. \A alpha \in 1..MaxP : low < alpha <=> c < alpha
  <2> SUFFICES ASSUME NEW alpha \in 1..MaxP PROVE low < alpha <=> c < alpha
    OBVIOUS
  <2>1. alpha \in Int /\ alpha <= MaxP
    BY <1>1
  <2> QED  BY <1>1, <1>3, <2>1
<1>5. CASE Len(done) = 0
  <2>1. done = <<>> /\ T = {low}
    BY <1>5
  <2>2. x = low
    BY <1>3, <2>1, ComparisonsMaxOf
  <2> HIDE DEF x, T
  <2> QED  BY <1>2, <1>3, <1>4, <1>5, <2>2 DEF c
<1>6. CASE Len(done) # 0
  <2> DEFINE last == done[Len(done)]
  <2>0. Len(done) \in Nat /\ Len(done) > 0 /\ last \in Int
    <3>1. Len(done) \in Nat
      OBVIOUS
    <3>2. Len(done) > 0
      BY <1>6, <3>1
    <3>3. Len(done) \in 1..Len(done)
      BY <3>1, <3>2
    <3> QED  BY <3>1, <3>2, <3>3
  <2>1. done # <<>> /\ T = {low, last}
    BY <1>6 DEF C!Last
  <2> HIDE DEF last
  <2>2. IsFiniteSet({low, last}) /\ {low, last} \in SUBSET Int
    <3>1. IsFiniteSet({low})
      BY FS_Singleton
    <3>2. {low, last} = {low} \cup {last}
      OBVIOUS
    <3>3. IsFiniteSet({low} \cup {last})
      BY <3>1, FS_AddElement
    <3> QED  BY <1>3, <2>0, <3>2, <3>3
  <2>3. x \in {low, last} /\ x >= low /\ x >= last
    <3>1. \A y \in {low, last} : C!Max({low, last}) >= y
      BY <2>2, ComparisonsMax
    <3>2. C!Max({low, last}) \in {low, last}
      BY <2>2, ComparisonsMax
    <3> QED  BY <2>1, <3>1, <3>2
  <2> HIDE DEF x, T
  <2>4. x \in Int
    BY <1>3, <2>0, <2>3
  <2>5. ASSUME NEW alpha \in 1..MaxP PROVE x < alpha <=> c < alpha /\ last < alpha
    <3>1. alpha \in Int
      BY <1>1
    <3>2. x < alpha <=> low < alpha /\ last < alpha
      BY <1>3, <2>0, <2>3, <2>4, <3>1
    <3> QED  BY <1>4, <3>2
  <2> QED  BY <1>2, <2>0, <2>4, <2>5 DEF c, last
<1> QED  BY <1>5, <1>6

\* The correction goes from one place to the next.
LEMMA HolmStates ==
    ASSUME CliAssumption, NEW n \in Nat, NEW ps \in [1..n -> Nat]
    PROVE  \E a \in [0..n -> Seq(Int)] :
             /\ a[0] = <<>>
             /\ \A k \in 1..n : a[k] = C!HolmStep(ps, C!RankOrder(ps), a[k - 1], k)
             /\ \A i \in 1..n :
                  C!HolmBonferroni(ps)[i] = a[n][CHOOSE rank \in DOMAIN ps : C!RankOrder(ps)[rank] = i]
<1> DEFINE order == C!RankOrder(ps)
           places == [k \in DOMAIN ps |-> k]
           D == DOMAIN places
           V == Seq(Int)
           base == <<>>
           Value(h, s) == IF s = {} THEN <<>>
                          ELSE C!HolmStep(ps, order, h[s \ {C!Max(s)}], places[C!Max(s)])
           g == CHOOSE g : g = [s \in SUBSET D |-> Value(g, s)]
           top == [s \in SUBSET D |-> C!Max(s)]
           step == [k \in D |-> [v \in V |-> C!HolmStep(ps, order, v, k)]]
           found(i) == CHOOSE rank \in DOMAIN ps : order[rank] = i
<1>1. C!HolmBonferroni(ps) = [i \in DOMAIN ps |-> g[D][found(i)]]
  BY DEF C!HolmBonferroni, C!FoldLeft, C!MapThenFoldSet
<1>2. D = 1..n /\ DOMAIN ps = 1..n /\ \A k \in D : places[k] = k
  OBVIOUS
<1>3. \A s \in SUBSET D : s # {} => C!Max(s) \in s /\ \A i \in s : C!Max(s) >= i
  <2> SUFFICES ASSUME NEW s \in SUBSET D, s # {} PROVE C!Max(s) \in s /\ \A i \in s : C!Max(s) >= i
    OBVIOUS
  <2>1. s \in SUBSET (1..n)
    BY <1>2
  <2>2. \E m \in s : \A i \in s : m >= i
    BY <2>1, GreatestNatural
  <2> QED  BY <2>2 DEF C!Max
<1>4. ASSUME NEW k \in D, NEW v \in V
      PROVE  step[k][v] = C!HolmStep(ps, order, v, k) /\ step[k][v] \in V
  <2>1. step[k][v] = C!HolmStep(ps, order, v, k)
    OBVIOUS
  <2> DEFINE x == Adjusted(ps, k, v)
  <2>2. x \in Int /\ C!HolmStep(ps, order, v, k) = Adjoin(v, x)
    BY <1>2, HolmStepIs
  <2> HIDE DEF x
  <2>3. Adjoin(v, x) \in V
    BY <2>2, AdjoinIs
  <2> HIDE DEF step, order
  <2> QED  BY <2>1, <2>2, <2>3
<1>5. IsFiniteSet(D) /\ <<>> \in V
  <2>1. 1 \in Int /\ n \in Int
    OBVIOUS
  <2> QED  BY <1>2, <2>1, FS_Interval
<1>6. PICK h \in [SUBSET D -> V] : FoldOf(h, D, <<>>, top, step)
  <2>1. Picks(top, D)
    BY <1>3 DEF Picks
  <2> HIDE DEF D, top, step, V
  <2> QED  BY <1>4, <1>5, <2>1, FoldExists
<1>7. \A s \in SUBSET D : h[s] = Value(h, s)
  <2> SUFFICES ASSUME NEW s \in SUBSET D PROVE h[s] = Value(h, s)
    OBVIOUS
  <2>1. h[s] = IF s = {} THEN <<>> ELSE step[top[s]][h[s \ {top[s]}]]
    BY <1>6 DEF FoldOf
  <2>2. CASE s = {}
    BY <2>1, <2>2
  <2>3. CASE s # {}
    <3>1. top[s] = C!Max(s) /\ C!Max(s) \in D /\ h[s \ {C!Max(s)}] \in V
      BY <1>3, <2>3
    <3>2. places[C!Max(s)] = C!Max(s)
      BY <1>2, <3>1
    <3> HIDE DEF top, step, D, V, places, order
    <3> QED  BY <1>4, <2>1, <2>3, <3>1, <3>2
  <2> QED  BY <2>2, <2>3
<1>8. h = [s \in SUBSET D |-> Value(h, s)]
  <2> HIDE DEF Value, D
  <2> QED  BY <1>6, <1>7
<1>9. g = [s \in SUBSET D |-> Value(g, s)]
  BY <1>8
<1> HIDE DEF g
<1>10. \A s \in SUBSET D : g[s] = Value(g, s)
  <2> HIDE DEF Value, D
  <2> QED  BY <1>9
<1>11. g[{}] = <<>>
  BY <1>10
<1>12. ASSUME NEW s \in SUBSET D, s # {}, g[s \ {top[s]}] \in V
       PROVE  g[s] = step[top[s]][g[s \ {top[s]}]]
  <2>1. top[s] = C!Max(s) /\ C!Max(s) \in D
    BY <1>3, <1>12
  <2>2. places[C!Max(s)] = C!Max(s)
    BY <1>2, <2>1
  <2>3. g[s] = C!HolmStep(ps, order, g[s \ {C!Max(s)}], places[C!Max(s)])
    BY <1>10, <1>12
  <2> HIDE DEF top, step, D, V, places, order
  <2> QED  BY <1>4, <1>12, <2>1, <2>2, <2>3
<1>13. \A s \in SUBSET D : s # {} => top[s] \in s /\ \A i \in s : top[s] >= i
  BY <1>3
<1> HIDE DEF top, step, D, V, places, Value
<1>14. PICK a \in [0..n -> V] :
         a[0] = base /\ (\A k \in 1..n : a[k] = step[k][a[k - 1]]) /\ a[n] = g[1..n]
  <2>1. \A k \in 1..n, v \in V : step[k][v] \in V
    BY <1>2, <1>4
  <2>2. \A s \in SUBSET (1..n) : s # {} => top[s] \in s /\ \A i \in s : top[s] >= i
    BY <1>2, <1>13
  <2>3. \A s \in SUBSET (1..n) :
          s # {} /\ g[s \ {top[s]}] \in V => g[s] = step[top[s]][g[s \ {top[s]}]]
    BY <1>2, <1>12
  <2>4. base \in V /\ g[{}] = base
    BY <1>5, <1>11
  <2> HIDE DEF base
  <2>5. FoldsUp(g, n, V, base, top, step)
    BY <2>1, <2>2, <2>3, <2>4 DEF FoldsUp
  <2> QED  BY <2>5, FoldStates
<1>15. \A k \in 1..n : a[k] = C!HolmStep(ps, order, a[k - 1], k)
  <2> SUFFICES ASSUME NEW k \in 1..n PROVE a[k] = C!HolmStep(ps, order, a[k - 1], k)
    OBVIOUS
  <2>1. k - 1 \in 0..n
    OBVIOUS
  <2>2. a[k - 1] \in V /\ k \in D
    BY <1>2, <1>14, <2>1
  <2> HIDE DEF order
  <2> QED  BY <1>4, <1>14, <2>2
<1>16. \A i \in 1..n : C!HolmBonferroni(ps)[i] = a[n][found(i)]
  <2> HIDE DEF found
  <2> QED  BY <1>1, <1>2, <1>14
<1> QED  BY <1>14, <1>15, <1>16 DEF V

\* After k places, the value at each is below a level when all the candidates
\* so far are.
LEMMA HolmRanks ==
    ASSUME CliAssumption, NEW n \in Nat, NEW ps \in [1..n -> Nat],
           NEW a \in [0..n -> Seq(Int)], a[0] = <<>>,
           \A k \in 1..n : a[k] = C!HolmStep(ps, C!RankOrder(ps), a[k - 1], k)
    PROVE  \A k \in 0..n :
             /\ Len(a[k]) = k
             /\ \A r \in 1..k, alpha \in 1..MaxP :
                  a[k][r] < alpha <=> \A q \in 1..r : Candidate(ps, q) < alpha
<1> DEFINE Below(k, r, alpha) == a[k][r] < alpha <=> \A q \in 1..r : Candidate(ps, q) < alpha
           So(k) == Len(a[k]) = k /\ \A r \in 1..k, alpha \in 1..MaxP : Below(k, r, alpha)
           Good == {k \in Nat : k \in 0..n => So(k)}
<1>1. 0 \in Good
  <2>1. Len(a[0]) = 0 /\ 1..0 = {}
    OBVIOUS
  <2> QED  BY <2>1
<1> HIDE DEF Below, So
<1>2. ASSUME NEW k \in Nat, k \in Good PROVE k + 1 \in Good
  <2> SUFFICES ASSUME k + 1 \in 0..n PROVE So(k + 1)
    OBVIOUS
  <2>1. k \in 0..n /\ k + 1 \in 1..n /\ (k + 1) - 1 = k
    OBVIOUS
  <2>2. Len(a[k]) = k /\ \A r \in 1..k, alpha \in 1..MaxP : Below(k, r, alpha)
    BY <1>2, <2>1 DEF So
  <2>3. a[k] \in Seq(Int) /\ a[k + 1] = C!HolmStep(ps, C!RankOrder(ps), a[k], k + 1)
    BY <2>1
  <2> DEFINE done == a[k]
             x == Adjusted(ps, k + 1, done)
  <2>4. /\ x \in Int /\ a[k + 1] = Adjoin(done, x)
        /\ \A alpha \in 1..MaxP :
             x < alpha <=> Candidate(ps, k + 1) < alpha /\ (Len(done) > 0 => done[Len(done)] < alpha)
    <3>1. done \in Seq(Int) /\ a[k + 1] = C!HolmStep(ps, C!RankOrder(ps), done, k + 1) /\ k + 1 \in 1..n
      BY <2>1, <2>3
    <3> DEFINE here == k + 1
    <3>2. done \in Seq(Int) /\ a[here] = C!HolmStep(ps, C!RankOrder(ps), done, here) /\ here \in 1..n
      BY <3>1
    <3> HIDE DEF done, here
    <3>3. /\ C!HolmStep(ps, C!RankOrder(ps), done, here) = Adjoin(done, Adjusted(ps, here, done))
          /\ Adjusted(ps, here, done) \in Int
          /\ \A alpha \in 1..MaxP :
               Adjusted(ps, here, done) < alpha
                 <=> Candidate(ps, here) < alpha /\ (Len(done) > 0 => done[Len(done)] < alpha)
      BY <3>2, HolmStepIs
    <3> QED  BY <3>2, <3>3 DEF here
  <2> HIDE DEF x
  <2>5. /\ Len(a[k + 1]) = k + 1 /\ a[k + 1][k + 1] = x
        /\ \A r \in 1..k : a[k + 1][r] = a[k][r]
    <3> DEFINE I == Int
    <3>1. done \in Seq(I) /\ x \in I
      BY <2>2, <2>3, <2>4
    <3>0. Len(done) = k
      BY <2>2
    <3> HIDE DEF done, I
    <3>2. Len(Adjoin(done, x)) = Len(done) + 1
      BY <3>1, AdjoinIs
    <3>3. Adjoin(done, x)[Len(done) + 1] = x
      BY <3>1, AdjoinIs
    <3>4. \A r \in 1..Len(done) : Adjoin(done, x)[r] = done[r]
      BY <3>1, AdjoinIs
    <3> QED  BY <2>4, <3>0, <3>2, <3>3, <3>4 DEF done
  <2>6. ASSUME NEW r \in 1..(k + 1), NEW alpha \in 1..MaxP PROVE Below(k + 1, r, alpha)
    <3>1. CASE r \in 1..k
      BY <2>2, <2>5, <3>1 DEF Below
    <3>2. CASE r = k + 1
      <4>1. \A q : q \in 1..(k + 1) <=> q \in 1..k \/ q = k + 1
        <5>1. \A q \in 1..(k + 1) : q \in 1..k \/ q = k + 1
          OBVIOUS
        <5>2. \A q \in 1..k : q \in 1..(k + 1)
          OBVIOUS
        <5>3. k + 1 \in 1..(k + 1)
          OBVIOUS
        <5> QED  BY <5>1, <5>2, <5>3
      <4>2. k > 0 => (a[k][k] < alpha <=> \A q \in 1..k : Candidate(ps, q) < alpha)
        <5>1. k > 0 => k \in 1..k
          OBVIOUS
        <5> QED  BY <2>2, <5>1 DEF Below
      <4>3. x < alpha <=> Candidate(ps, k + 1) < alpha /\ (k > 0 => a[k][k] < alpha)
        BY <2>2, <2>4
      <4>4. k = 0 => 1..k = {}
        OBVIOUS
      <4>5. x < alpha <=> \A q \in 1..(k + 1) : Candidate(ps, q) < alpha
        <5>1. k > 0 \/ k = 0
          OBVIOUS
        <5> QED  BY <4>1, <4>2, <4>3, <4>4, <5>1
      <4> QED  BY <2>5, <3>2, <4>5 DEF Below
    <3> QED  BY <3>1, <3>2
  <2> QED  BY <2>5, <2>6 DEF So
<1>3. \A k \in Nat : k \in Good
  <2> HIDE DEF Good
  <2> QED  BY <1>1, <1>2, NumberInduction
<1>4. \A k \in 0..n : k \in Nat
  OBVIOUS
<1> QED  BY <1>3, <1>4 DEF Below, So

\* An adjusted p-value is below a level when the step-down procedure rejects.
LEMMA HolmIsStepDown ==
    ASSUME CliAssumption, NEW n \in Nat, NEW ps \in [1..n -> Nat], NEW i \in 1..n, NEW alpha \in 1..MaxP
    PROVE  C!HolmBonferroni(ps)[i] < alpha <=> C!Rejects(ps, alpha, i)
<1> DEFINE order == C!RankOrder(ps)
           place(j) == Cardinality(NotAfterOf(ps)[j])
<1>1. PICK a \in [0..n -> Seq(Int)] :
        /\ a[0] = <<>>
        /\ \A k \in 1..n : a[k] = C!HolmStep(ps, C!RankOrder(ps), a[k - 1], k)
        /\ \A j \in 1..n :
             C!HolmBonferroni(ps)[j] = a[n][CHOOSE rank \in DOMAIN ps : C!RankOrder(ps)[rank] = j]
  BY HolmStates
<1> DEFINE found == CHOOSE rank \in DOMAIN ps : order[rank] = i
<1>2. /\ \A j \in 1..n : place(j) \in 1..n /\ order[place(j)] = j
      /\ \A k \in 1..n : order[k] \in 1..n /\ place(order[k]) = k
      /\ \A j \in 1..n : C!NotAfter(ps, j, i) <=> place(j) <= place(i)
  BY RankOrderPlaces
<1>3. \A j \in 1..n : C!Cardinality({k \in DOMAIN ps : C!NotAfter(ps, j, k)}) = n - place(j) + 1
  BY RankOrderPlaces
<1>4. DOMAIN ps = 1..n /\ Len(ps) = n
  OBVIOUS
<1> HIDE DEF order, place
<1>5. found = place(i)
  <2>1. place(i) \in DOMAIN ps /\ order[place(i)] = i
    BY <1>2, <1>4
  <2>2. found \in DOMAIN ps /\ order[found] = i
    BY <2>1
  <2> HIDE DEF found
  <2> QED  BY <1>2, <1>4, <2>2
<1>6. C!HolmBonferroni(ps)[i] = a[n][place(i)]
  <2>1. C!HolmBonferroni(ps)[i] = a[n][found]
    BY <1>1 DEF order
  <2> HIDE DEF found
  <2> QED  BY <1>5, <2>1
<1>7. a[n][place(i)] < alpha <=> \A q \in 1..place(i) : Candidate(ps, q) < alpha
  <2>1. n \in 0..n /\ place(i) \in 1..n
    BY <1>2
  <2> QED  BY <1>1, <2>1, HolmRanks
<1>8. \A j \in 1..n : Candidate(ps, place(j)) = ps[j] * (n - place(j) + 1)
  BY <1>2, <1>4 DEF Candidate, order
<1> DEFINE term(j) == ps[j] * C!Cardinality({k \in DOMAIN ps : C!NotAfter(ps, j, k)})
<1>9. \A j \in 1..n : term(j) = Candidate(ps, place(j))
  BY <1>3, <1>8
<1>10. C!Rejects(ps, alpha, i) <=> \A j \in 1..n : C!NotAfter(ps, j, i) => term(j) < alpha
  BY <1>4 DEF C!Rejects
<1> HIDE DEF term
<1>11. (\A q \in 1..place(i) : Candidate(ps, q) < alpha)
         <=> \A j \in 1..n : C!NotAfter(ps, j, i) => term(j) < alpha
  <2>1. ASSUME \A q \in 1..place(i) : Candidate(ps, q) < alpha,
               NEW j \in 1..n, C!NotAfter(ps, j, i)
        PROVE  term(j) < alpha
    <3>1. place(j) \in 1..place(i)
      BY <1>2, <2>1
    <3> QED  BY <1>9, <2>1, <3>1
  <2>2. ASSUME \A j \in 1..n : C!NotAfter(ps, j, i) => term(j) < alpha, NEW q \in 1..place(i)
        PROVE  Candidate(ps, q) < alpha
    <3>1. q \in 1..n /\ q <= place(i)
      BY <1>2
    <3>2. order[q] \in 1..n /\ place(order[q]) = q /\ C!NotAfter(ps, order[q], i)
      BY <1>2, <3>1
    <3> QED  BY <1>9, <2>2, <3>2
  <2> QED  BY <2>1, <2>2
<1> QED  BY <1>6, <1>7, <1>10, <1>11

-----------------------------------------------------------------------------
(* The walk over two histograms                                               *)

\* A histogram is a list of values and counts, increasing in the values.
LEMMA HistogramIs ==
    ASSUME NEW h, Histogram(h)
    PROVE  /\ Len(h) \in Nat /\ DOMAIN h = 1..Len(h)
           /\ IsFiniteSet(DOMAIN h)
           /\ \A i \in DOMAIN h : h[i][1] \in Nat /\ h[i][2] \in Nat /\ i \in Nat
           /\ \A i, j \in DOMAIN h : i < j => h[i][1] < h[j][1]
<1>1. h \in Seq(Nat \X Nat)
  BY DEF Histogram
<1>2. Len(h) \in Nat /\ DOMAIN h = 1..Len(h) /\ \A i \in DOMAIN h : h[i] \in Nat \X Nat
  BY <1>1
<1>3. IsFiniteSet(DOMAIN h)
  <2>1. 1 \in Int /\ Len(h) \in Int
    BY <1>2
  <2> QED  BY <1>2, <2>1, FS_Interval
<1>4. \A i \in DOMAIN h : h[i][1] \in Nat /\ h[i][2] \in Nat /\ i \in Nat
  BY <1>2
<1> QED  BY <1>2, <1>3, <1>4 DEF Histogram

\* What the first n buckets count.
Counts(h) == [i \in DOMAIN h |-> h[i][2]]
Prefix(h, n) == SumFunctionOnSet(Counts(h), 1..n)

\* Each bucket adds its count.
LEMMA PrefixIs ==
    ASSUME NEW h, Histogram(h), NEW n \in 0..Len(h)
    PROVE  /\ Prefix(h, n) \in Int
           /\ n = 0 => Prefix(h, n) = 0
           /\ n + 1 \in DOMAIN h => Prefix(h, n + 1) = Prefix(h, n) + h[n + 1][2]
<1> DEFINE D == 1..n
           f == Counts(h)
<1>1. Len(h) \in Nat /\ DOMAIN h = 1..Len(h) /\ \A i \in DOMAIN h : h[i][2] \in Nat
  BY HistogramIs
<1>2. n \in Nat /\ n <= Len(h) /\ IsFiniteSet(D) /\ \A i \in D : i \in DOMAIN h
  <2>1. n \in Nat /\ n <= Len(h) /\ 1 \in Int /\ n \in Int
    BY <1>1
  <2>2. IsFiniteSet(D)
    BY <2>1, FS_Interval
  <2> QED  BY <1>1, <2>1, <2>2
<1>3. \A i \in DOMAIN h : f[i] = h[i][2] /\ f[i] \in Int
  BY <1>1 DEF Counts
<1> HIDE DEF f
<1>4. SumFunctionOnSet(f, D) \in Int
  <2>1. \A x \in D : f[x] \in Int
    BY <1>2, <1>3
  <2> HIDE DEF D
  <2> QED  BY <1>2, <2>1, SumType
<1>5. ASSUME n = 0 PROVE SumFunctionOnSet(f, D) = 0
  <2>1. D = {}
    BY <1>5
  <2> QED  BY <2>1, SumEmpty
<1>6. ASSUME n + 1 \in DOMAIN h
      PROVE  SumFunctionOnSet(f, 1..(n + 1)) = SumFunctionOnSet(f, D) + f[n + 1]
  <2> DEFINE y == n + 1
  <2>1. 1..(n + 1) = D \cup {y} /\ y \notin D
    BY <1>2
  <2>2. f[y] \in Int /\ \A x \in D : f[x] \in Int
    BY <1>2, <1>3, <1>6
  <2> HIDE DEF D, y
  <2>3. SumFunctionOnSet(f, D \cup {y}) = f[y] + SumFunctionOnSet(f, D)
    BY <1>2, <2>1, <2>2, SumAdd
  <2>4. SumFunctionOnSet(f, D \cup {y}) = SumFunctionOnSet(f, D) + f[y]
    BY <1>4, <2>2, <2>3
  <2>5. SumFunctionOnSet(f, 1..(n + 1)) = SumFunctionOnSet(f, D) + f[y]
    BY <2>1, <2>4
  <2> QED  BY <2>5 DEF y
<1> QED  BY <1>3, <1>4, <1>5, <1>6 DEF Prefix, f

\* The count up to a value is that of the buckets up to it.
LEMMA UpToIsPrefix ==
    ASSUME NEW h, Histogram(h), NEW v \in Nat, NEW n \in 0..Len(h),
           \A i \in DOMAIN h : h[i][1] <= v <=> i <= n
    PROVE  C!UpTo(h, v) = Prefix(h, n)
<1> DEFINE D == DOMAIN h
           T == 1..n
           f == [i \in DOMAIN h |-> IF h[i][1] <= v THEN h[i][2] ELSE 0]
<1>1. Len(h) \in Nat /\ D = 1..Len(h) /\ IsFiniteSet(D) /\ \A i \in D : h[i][2] \in Nat /\ i \in Nat
  BY HistogramIs
<1>2. C!UpTo(h, v) = SumFunctionOnSet(f, D)
  <2>1. C!UpTo(h, v) = SumFunctionOnSet(f, DOMAIN f)
    BY ComparisonsTotal DEF C!UpTo
  <2> QED  BY <2>1
<1>3. \A i \in D : f[i] \in Int /\ (i <= n => f[i] = Counts(h)[i]) /\ (~(i <= n) => f[i] = 0)
  BY <1>1 DEF Counts
<1>4. T \in SUBSET D /\ \A i \in D : i \in T <=> i <= n
  BY <1>1
<1> HIDE DEF f, D, T
<1>5. \A i \in D \ T : f[i] = 0
  BY <1>3, <1>4
<1>6. SumFunctionOnSet(f, D) = SumFunctionOnSet(f, T)
  BY <1>1, <1>3, <1>4, <1>5, SumOnPart
<1>7. SumFunctionOnSet(f, T) = SumFunctionOnSet(Counts(h), T)
  <2>1. IsFiniteSet(T) /\ \A i \in T : f[i] \in Int /\ f[i] = Counts(h)[i]
    BY <1>1, <1>3, <1>4, FS_Subset
  <2> QED  BY <2>1, SumSame
<1> QED  BY <1>2, <1>6, <1>7 DEF Prefix, T

\* The count of a histogram is that of all its buckets.
LEMMA CountIsPrefix ==
    ASSUME NEW h, Histogram(h)
    PROVE  C!Count(h) = Prefix(h, Len(h))
<1>1. C!Count(h) = SumFunctionOnSet(Counts(h), DOMAIN Counts(h))
  BY ComparisonsTotal DEF C!Count, Counts
<1>2. DOMAIN Counts(h) = 1..Len(h)
  BY HistogramIs DEF Counts
<1> QED  BY <1>1, <1>2 DEF Prefix

\* A value has one bucket or none.
Hit(h, c, v) == c <= Len(h) /\ h[c][1] = v
HitCount(h, c, v) == IF Hit(h, c, v) THEN h[c][2] ELSE 0
HitStep(h, c, v) == IF Hit(h, c, v) THEN 1 ELSE 0

\* The count at a value is that of its bucket, if it has one.
LEMMA AtIsOne ==
    ASSUME NEW h, Histogram(h), NEW v \in Nat
    PROVE  /\ \A c \in DOMAIN h : h[c][1] = v => C!At(h, v) = h[c][2]
           /\ (\A c \in DOMAIN h : h[c][1] # v) => C!At(h, v) = 0
<1> DEFINE D == DOMAIN h
           f == [i \in DOMAIN h |-> IF h[i][1] = v THEN h[i][2] ELSE 0]
<1>1. /\ IsFiniteSet(D) /\ \A i \in D : h[i][2] \in Nat /\ h[i][1] \in Nat /\ i \in Nat
      /\ \A i, j \in D : i < j => h[i][1] < h[j][1]
  BY HistogramIs
<1>2. C!At(h, v) = SumFunctionOnSet(f, D)
  <2>1. C!At(h, v) = SumFunctionOnSet(f, DOMAIN f)
    BY ComparisonsTotal DEF C!At
  <2> QED  BY <2>1
<1>3. \A i \in D : f[i] \in Int /\ f[i] = IF h[i][1] = v THEN h[i][2] ELSE 0
  BY <1>1
<1> HIDE DEF f
<1>4. ASSUME NEW c \in D, h[c][1] = v PROVE SumFunctionOnSet(f, D) = h[c][2]
  <2> DEFINE rest == D \ {c}
  <2>1. \A i \in rest : f[i] = 0
    <3> SUFFICES ASSUME NEW i \in D, i # c PROVE h[i][1] # v
      BY <1>3
    <3>1. i < c \/ c < i
      BY <1>1
    <3> QED  BY <1>1, <1>4, <3>1
  <2>2. IsFiniteSet(rest)
    BY <1>1, FS_Subset
  <2>3. SumFunctionOnSet(f, D) = f[c] + SumFunctionOnSet(f, rest)
    BY <1>1, <1>3, SumPick
  <2> HIDE DEF rest
  <2>4. SumFunctionOnSet(f, rest) = 0
    <3> DEFINE zero == 0
    <3>1. zero \in Int /\ \A i \in rest : f[i] = zero
      BY <2>1
    <3> HIDE DEF zero
    <3>2. SumFunctionOnSet(f, rest) = zero * Cardinality(rest) /\ Cardinality(rest) \in Nat
      BY <2>2, <3>1, SumConstant, FS_CardinalityType
    <3> QED  BY <3>2 DEF zero
  <2> QED  BY <1>1, <1>3, <1>4, <2>3, <2>4
<1>5. ASSUME \A c \in D : h[c][1] # v PROVE SumFunctionOnSet(f, D) = 0
  <2> DEFINE zero == 0
  <2>1. zero \in Int /\ \A i \in D : f[i] = zero
    BY <1>3, <1>5
  <2> HIDE DEF zero, D
  <2>2. SumFunctionOnSet(f, D) = zero * Cardinality(D) /\ Cardinality(D) \in Nat
    BY <1>1, <2>1, SumConstant, FS_CardinalityType
  <2> QED  BY <2>2 DEF zero
<1> QED  BY <1>2, <1>4, <1>5

\* One side, at bucket c, when all before it is less than the value v of the
\* step and nothing from it on is.
LEMMA SideAdvances ==
    ASSUME NEW h, Histogram(h), NEW c \in 1..(Len(h) + 1), NEW v \in Nat,
           \A i \in DOMAIN h : i < c => h[i][1] < v,
           c <= Len(h) => v <= h[c][1]
    PROVE  LET d == c + HitStep(h, c, v)
           IN /\ d \in 1..(Len(h) + 1)
              /\ \A i \in DOMAIN h : h[i][1] <= v <=> i < d
              /\ C!At(h, v) = HitCount(h, c, v)
              /\ C!UpTo(h, v) = Prefix(h, c - 1) + HitCount(h, c, v)
              /\ C!UpTo(h, v) = Prefix(h, d - 1)
              /\ HitCount(h, c, v) \in Int
<1> DEFINE d == c + HitStep(h, c, v)
<1>1. /\ Len(h) \in Nat /\ DOMAIN h = 1..Len(h)
      /\ \A i \in DOMAIN h : h[i][1] \in Nat /\ h[i][2] \in Nat /\ i \in Nat
      /\ \A i, j \in DOMAIN h : i < j => h[i][1] < h[j][1]
  BY HistogramIs
<1>2. c \in Nat /\ c - 1 \in 0..Len(h) /\ (c <= Len(h) => c \in DOMAIN h)
  BY <1>1
<1>3. \A i \in DOMAIN h : i > c => v < h[i][1]
  <2> SUFFICES ASSUME NEW i \in DOMAIN h, i > c PROVE v < h[i][1]
    OBVIOUS
  <2>1. i \in Nat /\ i <= Len(h)
    BY <1>1
  <2>2. c \in DOMAIN h /\ v <= h[c][1]
    BY <1>1, <1>2, <2>1
  <2>3. h[c][1] < h[i][1] /\ h[c][1] \in Nat /\ h[i][1] \in Nat
    BY <1>1, <2>2
  <2> QED  BY <2>2, <2>3
<1>4. CASE Hit(h, c, v)
  <2>1. /\ c \in DOMAIN h /\ h[c][1] = v /\ d = c + 1 /\ HitCount(h, c, v) = h[c][2]
    BY <1>2, <1>4 DEF Hit, HitStep, HitCount
  <2>2. d \in 1..(Len(h) + 1) /\ d - 1 = c /\ c \in 0..Len(h) /\ (c - 1) + 1 = c
    BY <1>1, <1>2, <2>1
  <2>3. ASSUME NEW i \in DOMAIN h PROVE (h[i][1] <= v <=> i < d) /\ (i < d <=> i <= c)
    <3>1. i \in Nat /\ h[i][1] \in Nat
      BY <1>1
    <3>2. i < c \/ i = c \/ i > c
      BY <1>2, <3>1
    <3> QED  BY <1>2, <1>3, <2>1, <3>1, <3>2
  <2>4. C!At(h, v) = h[c][2]
    BY <2>1, AtIsOne
  <2>5. C!UpTo(h, v) = Prefix(h, c)
    BY <2>2, <2>3, UpToIsPrefix
  <2>6. Prefix(h, c) = Prefix(h, c - 1) + h[c][2]
    <3> DEFINE m == c - 1
    <3>1. m \in 0..Len(h) /\ m + 1 = c /\ m + 1 \in DOMAIN h
      BY <1>2, <2>1, <2>2
    <3>2. Prefix(h, m + 1) = Prefix(h, m) + h[m + 1][2]
      BY <3>1, PrefixIs
    <3> QED  BY <3>1, <3>2
  <2>7. h[c][2] \in Int
    BY <1>1, <2>1
  <2> QED  BY <2>1, <2>2, <2>3, <2>4, <2>5, <2>6, <2>7
<1>5. CASE ~Hit(h, c, v)
  <2>1. d = c /\ HitCount(h, c, v) = 0 /\ (c \in DOMAIN h => v < h[c][1])
    <3>1. c \in DOMAIN h => v < h[c][1]
      BY <1>1, <1>5 DEF Hit
    <3> QED  BY <1>2, <1>5, <3>1 DEF HitStep, HitCount
  <2>2. ASSUME NEW i \in DOMAIN h
        PROVE  (h[i][1] <= v <=> i < c) /\ (i < c <=> i <= c - 1) /\ h[i][1] # v
    <3>1. i \in Nat /\ h[i][1] \in Nat
      BY <1>1
    <3>2. i < c \/ i = c \/ i > c
      BY <1>2, <3>1
    <3> QED  BY <1>2, <1>3, <2>1, <3>1, <3>2
  <2>3. C!At(h, v) = 0
    BY <2>2, AtIsOne
  <2>4. C!UpTo(h, v) = Prefix(h, c - 1)
    <3> DEFINE m == c - 1
    <3>1. m \in 0..Len(h) /\ \A i \in DOMAIN h : h[i][1] <= v <=> i <= m
      BY <1>2, <2>2
    <3> HIDE DEF m
    <3>2. C!UpTo(h, v) = Prefix(h, m)
      BY <3>1, UpToIsPrefix
    <3> QED  BY <3>2 DEF m
  <2>5. Prefix(h, c - 1) \in Int
    BY <1>2, PrefixIs
  <2> QED  BY <2>1, <2>2, <2>3, <2>4, <2>5
<1> QED  BY <1>4, <1>5

\* What a step of the walk leaves, and what the next one goes on from.
Terms == [h : Int, m : Int, all : Int]
Before(w) == IF w.steps = <<>> THEN [m |-> 0, all |-> 0] ELSE C!Last(w.steps)

\* A value of a or b, that of a bucket the walk has passed, and how many values
\* are not greater.
IsSeen(w, a, b, v) ==
  (\E i \in DOMAIN a : i < w.ia /\ a[i][1] = v) \/ (\E i \in DOMAIN b : i < w.ib /\ b[i][1] = v)
Seen(w, a, b) == {v \in C!ValuesOf(a, b) : IsSeen(w, a, b, v)}

\* What was passed is less than what is to come; there is one term for each value
\* passed, at its place; the last has the counts up to here.
Walking(w, a, b) ==
  /\ w.ia \in 1..(Len(a) + 1) /\ w.ib \in 1..(Len(b) + 1)
  /\ \A v \in Seen(w, a, b) : /\ w.ia <= Len(a) => v < a[w.ia][1]
                              /\ w.ib <= Len(b) => v < b[w.ib][1]
  /\ Len(w.steps) = Cardinality(Seen(w, a, b))
  /\ \A v \in Seen(w, a, b) : w.steps[Rank(C!ValuesOf(a, b), v)] = C!Term(a, b, v)
  /\ Before(w).m = Prefix(a, w.ia - 1)
  /\ Before(w).all = Prefix(a, w.ia - 1) + Prefix(b, w.ib - 1)
Walks(a, b) == {w \in [ia : Nat, ib : Nat, steps : Seq(Terms)] : Walking(w, a, b)}

\* The values of two histograms are finitely many numbers, each of a bucket.
LEMMA ValuesOfIs ==
    ASSUME NEW a, Histogram(a), NEW b, Histogram(b)
    PROVE  /\ C!ValuesOf(a, b) \in SUBSET Nat /\ IsFiniteSet(C!ValuesOf(a, b))
           /\ \A v : v \in C!ValuesOf(a, b) <=> (\E i \in DOMAIN a : a[i][1] = v) \/ (\E i \in DOMAIN b : b[i][1] = v)
<1> DEFINE fa == [i \in DOMAIN a |-> a[i][1]]
           fb == [i \in DOMAIN b |-> b[i][1]]
           A == {fa[i] : i \in DOMAIN a}
           B == {fb[i] : i \in DOMAIN b}
<1>1. /\ IsFiniteSet(DOMAIN a) /\ \A i \in DOMAIN a : a[i][1] \in Nat
      /\ IsFiniteSet(DOMAIN b) /\ \A i \in DOMAIN b : b[i][1] \in Nat
  BY HistogramIs
<1>2. IsFiniteSet(A) /\ IsFiniteSet(B)
  <2> HIDE DEF fa, fb
  <2> QED  BY <1>1, ImageIsFinite
<1>3. C!ValuesOf(a, b) = A \cup B
  BY DEF C!ValuesOf
<1>4. IsFiniteSet(A \cup B)
  <2> HIDE DEF A, B
  <2> QED  BY <1>2, FS_Union
<1> QED  BY <1>1, <1>3, <1>4

LEMMA WalkIs ==
    ASSUME NEW a, NEW b, NEW w \in Walks(a, b)
    PROVE  /\ Walking(w, a, b) /\ w.ia \in Nat /\ w.ib \in Nat /\ w.steps \in Seq(Terms)
           /\ w = [ia |-> w.ia, ib |-> w.ib, steps |-> w.steps]
  BY DEF Walks

\* The value of the next step.
Ahead(h, c) == IF c <= Len(h) THEN {h[c][1]} ELSE {}
NextValue(w, a, b) == C!Min(Ahead(a, w.ia) \cup Ahead(b, w.ib))

\* It is the least of those to come, and one of the two buckets has it.
LEMMA NextValueIs ==
    ASSUME NEW a, Histogram(a), NEW b, Histogram(b), NEW w \in Walks(a, b),
           w.ia <= Len(a) \/ w.ib <= Len(b)
    PROVE  LET v == NextValue(w, a, b)
           IN /\ v \in C!ValuesOf(a, b) /\ v \in Nat
              /\ w.ia <= Len(a) => v <= a[w.ia][1]
              /\ w.ib <= Len(b) => v <= b[w.ib][1]
              /\ Hit(a, w.ia, v) \/ Hit(b, w.ib, v)
              /\ v \in Ahead(a, w.ia) <=> Hit(a, w.ia, v)
              /\ v \in Ahead(b, w.ib) <=> Hit(b, w.ib, v)
<1> DEFINE va == Ahead(a, w.ia)
           vb == Ahead(b, w.ib)
           v == NextValue(w, a, b)
<1>1. /\ w.ia \in 1..(Len(a) + 1) /\ w.ib \in 1..(Len(b) + 1)
  BY WalkIs DEF Walking
<1>2. /\ w.ia <= Len(a) => w.ia \in DOMAIN a
      /\ w.ib <= Len(b) => w.ib \in DOMAIN b
      /\ w.ia \in Nat /\ w.ib \in Nat
  BY <1>1, HistogramIs
<1>3. /\ w.ia <= Len(a) => va = {a[w.ia][1]} /\ a[w.ia][1] \in Nat
      /\ ~(w.ia <= Len(a)) => va = {}
  BY <1>2, HistogramIs DEF Ahead
<1>4. /\ w.ib <= Len(b) => vb = {b[w.ib][1]} /\ b[w.ib][1] \in Nat
      /\ ~(w.ib <= Len(b)) => vb = {}
  BY <1>2, HistogramIs DEF Ahead
<1>5. v = C!Min(va \cup vb)
  BY DEF NextValue
<1> HIDE DEF va, vb, v
<1>6. v \in va \cup vb /\ \A z \in va \cup vb : v <= z
  <2>1. CASE w.ia <= Len(a) /\ w.ib <= Len(b)
    <3> DEFINE x == a[w.ia][1]
               y == b[w.ib][1]
    <3>1. x \in Int /\ y \in Int /\ va \cup vb = {x, y}
      BY <1>3, <1>4, <2>1
    <3> HIDE DEF x, y
    <3>2. C!Min({x, y}) \in {x, y} /\ C!Min({x, y}) <= x /\ C!Min({x, y}) <= y
      BY <3>1, ComparisonsMin
    <3> QED  BY <1>5, <3>1, <3>2
  <2>2. CASE w.ia <= Len(a) /\ ~(w.ib <= Len(b))
    <3> DEFINE x == a[w.ia][1]
    <3>1. x \in Int /\ va \cup vb = {x}
      BY <1>3, <1>4, <2>2
    <3> HIDE DEF x
    <3>2. C!Min({x}) = x
      BY <3>1, ComparisonsMin
    <3>3. v = x
      BY <1>5, <3>1, <3>2
    <3>4. x <= x
      BY <3>1
    <3> QED  BY <3>1, <3>3, <3>4
  <2>3. CASE ~(w.ia <= Len(a)) /\ w.ib <= Len(b)
    <3> DEFINE x == b[w.ib][1]
    <3>1. x \in Int /\ va \cup vb = {x}
      BY <1>3, <1>4, <2>3
    <3> HIDE DEF x
    <3>2. C!Min({x}) = x
      BY <3>1, ComparisonsMin
    <3>3. v = x
      BY <1>5, <3>1, <3>2
    <3>4. x <= x
      BY <3>1
    <3> QED  BY <3>1, <3>3, <3>4
  <2> QED  BY <2>1, <2>2, <2>3
<1>7. /\ v \in va <=> Hit(a, w.ia, v)
      /\ v \in vb <=> Hit(b, w.ib, v)
  BY <1>3, <1>4 DEF Hit
<1>8. v \in C!ValuesOf(a, b)
  <2>1. (\E i \in DOMAIN a : a[i][1] = v) \/ (\E i \in DOMAIN b : b[i][1] = v)
    BY <1>2, <1>6, <1>7 DEF Hit
  <2> QED  BY <2>1, ValuesOfIs
<1>9. v \in Nat
  BY <1>8, ValuesOfIs
<1>10. /\ w.ia <= Len(a) => v <= a[w.ia][1]
       /\ w.ib <= Len(b) => v <= b[w.ib][1]
  BY <1>3, <1>4, <1>6
<1> QED  BY <1>6, <1>7, <1>8, <1>9, <1>10 DEF v, va, vb

\* One step of the walk.
LEMMA WalkStepIs ==
    ASSUME NEW a, Histogram(a), NEW b, Histogram(b), NEW w \in Walks(a, b)
    PROVE  LET v == NextValue(w, a, b)
               ha == HitCount(a, w.ia, v)
               hb == HitCount(b, w.ib, v)
           IN /\ ~(w.ia <= Len(a) \/ w.ib <= Len(b)) => C!WalkStep(w, a, b) = w
              /\ w.ia <= Len(a) \/ w.ib <= Len(b) =>
                   C!WalkStep(w, a, b) =
                     [ia |-> w.ia + HitStep(a, w.ia, v), ib |-> w.ib + HitStep(b, w.ib, v),
                      steps |-> Adjoin(w.steps, [h |-> ha + hb, m |-> Before(w).m + ha,
                                                 all |-> Before(w).all + ha + hb])]
<1> DEFINE va == Ahead(a, w.ia)
           vb == Ahead(b, w.ib)
           v == NextValue(w, a, b)
           ha == IF v \in va THEN a[w.ia][2] ELSE 0
           hb == IF v \in vb THEN b[w.ib][2] ELSE 0
           da == IF v \in va THEN 1 ELSE 0
           db == IF v \in vb THEN 1 ELSE 0
<1>1. C!WalkStep(w, a, b) =
        IF va \cup vb = {} THEN w
        ELSE [ia |-> w.ia + da, ib |-> w.ib + db,
              steps |-> Adjoin(w.steps, [h |-> ha + hb, m |-> Before(w).m + ha,
                                         all |-> Before(w).all + ha + hb])]
  BY DEF C!WalkStep, Ahead, NextValue, Before, Adjoin
<1>2. va \cup vb = {} <=> ~(w.ia <= Len(a) \/ w.ib <= Len(b))
  BY DEF Ahead
<1> HIDE DEF v
<1>3. ASSUME w.ia <= Len(a) \/ w.ib <= Len(b)
      PROVE  /\ ha = HitCount(a, w.ia, v) /\ hb = HitCount(b, w.ib, v)
             /\ da = HitStep(a, w.ia, v) /\ db = HitStep(b, w.ib, v)
  <2>1. (v \in va <=> Hit(a, w.ia, v)) /\ (v \in vb <=> Hit(b, w.ib, v))
    BY <1>3, NextValueIs DEF v
  <2> HIDE DEF va, vb
  <2> QED  BY <2>1 DEF HitCount, HitStep
<1> HIDE DEF va, vb, ha, hb, da, db
<1> QED  BY <1>1, <1>2, <1>3 DEF v

\* A step of the walk keeps its invariant and passes a bucket.
LEMMA WalkGoesOn ==
    ASSUME NEW a, Histogram(a), NEW b, Histogram(b), NEW w \in Walks(a, b),
           w.ia <= Len(a) \/ w.ib <= Len(b)
    PROVE  /\ C!WalkStep(w, a, b) \in Walks(a, b)
           /\ C!WalkStep(w, a, b).ia + C!WalkStep(w, a, b).ib > w.ia + w.ib
<1> DEFINE v == NextValue(w, a, b)
           ha == HitCount(a, w.ia, v)
           hb == HitCount(b, w.ib, v)
           da == HitStep(a, w.ia, v)
           db == HitStep(b, w.ib, v)
           term == [h |-> ha + hb, m |-> Before(w).m + ha, all |-> Before(w).all + ha + hb]
           steps == Adjoin(w.steps, term)
           x == [ia |-> w.ia + da, ib |-> w.ib + db, steps |-> steps]
           values == C!ValuesOf(a, b)
<1>1. C!WalkStep(w, a, b) = x
  BY WalkStepIs
<1>2. /\ Walking(w, a, b) /\ w.ia \in Nat /\ w.ib \in Nat /\ w.steps \in Seq(Terms)
      /\ w.ia \in 1..(Len(a) + 1) /\ w.ib \in 1..(Len(b) + 1)
      /\ \A u \in Seen(w, a, b) : (w.ia <= Len(a) => u < a[w.ia][1]) /\ (w.ib <= Len(b) => u < b[w.ib][1])
  BY WalkIs DEF Walking
<1>3. /\ v \in values /\ v \in Nat
      /\ w.ia <= Len(a) => v <= a[w.ia][1]
      /\ w.ib <= Len(b) => v <= b[w.ib][1]
      /\ Hit(a, w.ia, v) \/ Hit(b, w.ib, v)
  BY NextValueIs
<1>4. /\ values \in SUBSET Nat /\ IsFiniteSet(values)
      /\ \A u : u \in values <=> (\E i \in DOMAIN a : a[i][1] = u) \/ (\E i \in DOMAIN b : b[i][1] = u)
  BY ValuesOfIs
<1> HIDE DEF v, values
<1>5. \A u \in Seen(w, a, b) : u < v
  BY <1>2, <1>3 DEF Hit
<1>6. /\ \A i \in DOMAIN a : i < w.ia => a[i][1] < v
      /\ \A i \in DOMAIN b : i < w.ib => b[i][1] < v
  <2>1. ASSUME NEW i \in DOMAIN a, i < w.ia PROVE a[i][1] \in Seen(w, a, b)
    BY <1>4, <2>1 DEF Seen, IsSeen, values
  <2>2. ASSUME NEW i \in DOMAIN b, i < w.ib PROVE b[i][1] \in Seen(w, a, b)
    BY <1>4, <2>2 DEF Seen, IsSeen, values
  <2> QED  BY <1>5, <2>1, <2>2
<1> DEFINE ja == w.ia + da
           jb == w.ib + db
<1>7. /\ ja \in 1..(Len(a) + 1)
      /\ \A i \in DOMAIN a : a[i][1] <= v <=> i < ja
      /\ C!At(a, v) = ha /\ ha \in Int
      /\ C!UpTo(a, v) = Prefix(a, w.ia - 1) + ha
      /\ C!UpTo(a, v) = Prefix(a, ja - 1)
  BY <1>2, <1>3, <1>6, SideAdvances
<1>8. /\ jb \in 1..(Len(b) + 1)
      /\ \A i \in DOMAIN b : b[i][1] <= v <=> i < jb
      /\ C!At(b, v) = hb /\ hb \in Int
      /\ C!UpTo(b, v) = Prefix(b, w.ib - 1) + hb
      /\ C!UpTo(b, v) = Prefix(b, jb - 1)
  BY <1>2, <1>3, <1>6, SideAdvances
<1>9. /\ da \in {0, 1} /\ (da = 1 <=> Hit(a, w.ia, v))
      /\ db \in {0, 1} /\ (db = 1 <=> Hit(b, w.ib, v))
  BY DEF HitStep
<1>10. ja + jb > w.ia + w.ib
  BY <1>2, <1>3, <1>9
<1>11. /\ \A i \in DOMAIN a : a[i][1] \in Nat /\ i \in Nat
       /\ \A i \in DOMAIN b : b[i][1] \in Nat /\ i \in Nat
       /\ DOMAIN a = 1..Len(a) /\ DOMAIN b = 1..Len(b) /\ Len(a) \in Nat /\ Len(b) \in Nat
  BY HistogramIs
<1>12. x.ia = ja /\ x.ib = jb /\ x.steps = steps
  OBVIOUS
<1> HIDE DEF da, db, ha, hb, steps
<1>13. \A u \in values : u \in Seen(x, a, b) <=> u <= v
  <2> SUFFICES ASSUME NEW u \in values PROVE IsSeen(x, a, b, u) <=> u <= v
    BY DEF Seen, values
  <2>1. ASSUME IsSeen(x, a, b, u) PROVE u <= v
    BY <1>7, <1>8, <1>12, <2>1 DEF IsSeen
  <2>2. ASSUME u <= v PROVE IsSeen(x, a, b, u)
    <3>1. (\E i \in DOMAIN a : a[i][1] = u) \/ (\E i \in DOMAIN b : b[i][1] = u)
      BY <1>4
    <3> QED  BY <1>7, <1>8, <1>12, <2>2, <3>1 DEF IsSeen
  <2> QED  BY <2>1, <2>2
<1>14. \A u \in values : u \in Seen(w, a, b) <=> u < v
  <2> SUFFICES ASSUME NEW u \in values, u < v PROVE IsSeen(w, a, b, u)
    BY <1>5 DEF Seen, values
  <2>1. ASSUME NEW i \in DOMAIN a, a[i][1] = u PROVE i < w.ia
    <3>1. i < ja /\ u \in Nat /\ i \in Nat
      BY <1>3, <1>7, <1>11, <2>1
    <3>2. da = 1 => a[w.ia][1] = v
      BY <1>9 DEF Hit
    <3>3. i # w.ia \/ da = 0
      BY <1>3, <1>9, <2>1, <3>1, <3>2
    <3> QED  BY <1>2, <1>9, <3>1, <3>3
  <2>2. ASSUME NEW i \in DOMAIN b, b[i][1] = u PROVE i < w.ib
    <3>1. i < jb /\ u \in Nat /\ i \in Nat
      BY <1>3, <1>8, <1>11, <2>2
    <3>2. db = 1 => b[w.ib][1] = v
      BY <1>9 DEF Hit
    <3>3. i # w.ib \/ db = 0
      BY <1>3, <1>9, <2>2, <3>1, <3>2
    <3> QED  BY <1>2, <1>9, <3>1, <3>3
  <2> QED  BY <1>4, <2>1, <2>2 DEF IsSeen
<1> DEFINE old == Seen(w, a, b)
           new == Seen(x, a, b)
<1>15. old \in SUBSET values /\ new \in SUBSET values
  BY DEF Seen, values
<1> HIDE DEF x, old, new
<1>16. new = old \cup {v} /\ v \notin old
  <2>1. \A u \in values : u <= v <=> u < v \/ u = v
    BY <1>3, <1>4
  <2>2. ~(v < v)
    BY <1>3
  <2> QED  BY <1>3, <1>13, <1>14, <1>15, <2>1, <2>2 DEF old, new
<1>17. IsFiniteSet(old) /\ Cardinality(old) \in Nat /\ Cardinality(new) = Cardinality(old) + 1
  <2>1. IsFiniteSet(old)
    BY <1>4, <1>15, FS_Subset
  <2> QED  BY <1>16, <2>1, FS_AddElement, FS_CardinalityType
<1>18. Rank(values, v) = Cardinality(new)
  <2>1. {u \in values : u <= v} = new
    BY <1>13, <1>15 DEF new
  <2> QED  BY <2>1 DEF Rank
<1>19. \A u \in old : Rank(values, u) \in 1..Cardinality(old)
  <2> SUFFICES ASSUME NEW u \in old PROVE Rank(values, u) \in 1..Cardinality(old)
    OBVIOUS
  <2> DEFINE low == {y \in values : y <= u}
  <2>1. low \in SUBSET old
    <3> SUFFICES ASSUME NEW y \in values, y <= u PROVE y \in old
      OBVIOUS
    <3>1. u \in Nat /\ y \in Nat /\ u < v
      BY <1>4, <1>14, <1>15 DEF old
    <3>2. y < v
      BY <1>3, <3>1
    <3> QED  BY <1>14, <3>2 DEF old
  <2> HIDE DEF low
  <2>2. Cardinality(low) <= Cardinality(old)
    BY <1>17, <2>1, FS_Subset
  <2>3. Rank(values, u) = Cardinality(low)
    BY DEF Rank, low
  <2>4. Rank(values, u) \in 1..Cardinality(values)
    BY <1>4, <1>15, RankType
  <2>5. Cardinality(values) \in Nat
    BY <1>4, FS_CardinalityType
  <2> QED  BY <1>17, <2>2, <2>3, <2>4, <2>5
<1>20. /\ Before(w).m = Prefix(a, w.ia - 1) /\ Before(w).all = Prefix(a, w.ia - 1) + Prefix(b, w.ib - 1)
       /\ Len(w.steps) = Cardinality(old)
       /\ \A u \in old : w.steps[Rank(values, u)] = C!Term(a, b, u)
  BY <1>2 DEF Walking, old, values
<1>21. Prefix(a, w.ia - 1) \in Int /\ Prefix(b, w.ib - 1) \in Int
  <2>1. w.ia - 1 \in 0..Len(a) /\ w.ib - 1 \in 0..Len(b)
    BY <1>2, <1>11
  <2> QED  BY <2>1, PrefixIs
<1>22. term = C!Term(a, b, v) /\ term \in Terms
  <2>1. Before(w).m + ha = C!UpTo(a, v)
    BY <1>7, <1>20
  <2>2. Before(w).all + ha + hb = C!UpTo(a, v) + C!UpTo(b, v)
    BY <1>7, <1>8, <1>20, <1>21
  <2>3. ha + hb = C!At(a, v) + C!At(b, v)
    BY <1>7, <1>8
  <2>4. term = [h |-> C!At(a, v) + C!At(b, v), m |-> C!UpTo(a, v), all |-> C!UpTo(a, v) + C!UpTo(b, v)]
    BY <2>1, <2>2, <2>3
  <2>5. C!UpTo(a, v) \in Int /\ C!UpTo(b, v) \in Int /\ C!At(a, v) \in Int /\ C!At(b, v) \in Int
    BY <1>7, <1>8, <1>21
  <2> HIDE DEF term
  <2>6. term \in Terms
    BY <2>4, <2>5 DEF Terms
  <2> QED  BY <2>4, <2>6 DEF C!Term
<1>23. term.m = C!UpTo(a, v) /\ term.all = C!UpTo(a, v) + C!UpTo(b, v)
  BY <1>22 DEF C!Term
<1> HIDE DEF term
<1>24. steps \in Seq(Terms)
  BY <1>2, <1>22, AdjoinIs DEF steps
<1>25. Len(steps) = Len(w.steps) + 1
  BY <1>2, <1>22, AdjoinIs DEF steps
<1>26. steps[Len(w.steps) + 1] = term
  BY <1>2, <1>22, AdjoinIs DEF steps
<1>27. \A r \in 1..Len(w.steps) : steps[r] = w.steps[r]
  <2> DEFINE done == w.steps
             I == Terms
  <2>1. done \in Seq(I) /\ term \in I /\ steps = Adjoin(done, term)
    BY <1>2, <1>22 DEF steps
  <2> HIDE DEF done, I
  <2>2. ASSUME NEW r \in 1..Len(done) PROVE Adjoin(done, term)[r] = done[r]
    BY ONLY <2>1, <2>2, AdjoinKeeps
  <2>3. \A r \in 1..Len(done) : steps[r] = done[r]
    BY <2>1, <2>2
  <2> QED  BY <2>3 DEF done
<1>28. ASSUME NEW u \in new PROVE steps[Rank(values, u)] = C!Term(a, b, u)
  <2>1. CASE u = v
    BY <1>17, <1>18, <1>20, <1>22, <1>26, <2>1
  <2>2. CASE u # v
    <3>1. u \in old
      BY <1>16, <1>28, <2>2
    <3>2. Rank(values, u) \in 1..Len(w.steps)
      BY <1>19, <1>20, <3>1
    <3> QED  BY <1>20, <1>27, <3>1, <3>2
  <2> QED  BY <2>1, <2>2
<1>29. Before(x).m = Prefix(a, ja - 1) /\ Before(x).all = Prefix(a, ja - 1) + Prefix(b, jb - 1)
  <2>1. steps # <<>> /\ C!Last(steps) = term
    <3>1. Len(steps) # 0
      BY <1>17, <1>20, <1>25
    <3> QED  BY <1>25, <1>26, <3>1 DEF C!Last
  <2>2. Before(x) = term
    BY <1>12, <2>1 DEF Before
  <2> QED  BY <1>7, <1>8, <1>23, <2>2
<1>30. ASSUME NEW u \in new
       PROVE  (ja <= Len(a) => u < a[ja][1]) /\ (jb <= Len(b) => u < b[jb][1])
  <2>1. u \in Nat /\ u <= v
    BY <1>4, <1>13, <1>15, <1>30 DEF new
  <2>2. ASSUME ja <= Len(a) PROVE u < a[ja][1]
    <3>1. ja \in DOMAIN a
      BY <1>7, <1>11, <2>2
    <3>2. a[ja][1] \in Nat /\ ~(ja < ja) /\ ja \in Nat
      BY <1>11, <3>1
    <3>3. ~(a[ja][1] <= v)
      BY <1>7, <3>1, <3>2
    <3> QED  BY <1>3, <2>1, <3>2, <3>3
  <2>3. ASSUME jb <= Len(b) PROVE u < b[jb][1]
    <3>1. jb \in DOMAIN b
      BY <1>8, <1>11, <2>3
    <3>2. b[jb][1] \in Nat /\ ~(jb < jb) /\ jb \in Nat
      BY <1>11, <3>1
    <3>3. ~(b[jb][1] <= v)
      BY <1>8, <3>1, <3>2
    <3> QED  BY <1>3, <2>1, <3>2, <3>3
  <2> QED  BY <2>2, <2>3
<1>31. Len(steps) = Cardinality(new)
  BY <1>17, <1>20, <1>25
<1> HIDE DEF ja, jb
<1>32. Walking(x, a, b)
  BY <1>7, <1>8, <1>12, <1>28, <1>29, <1>30, <1>31 DEF Walking, new, values
<1>33. x \in [ia : Nat, ib : Nat, steps : Seq(Terms)]
  <2>1. ja \in Nat /\ jb \in Nat
    BY <1>7, <1>8, <1>11
  <2> QED  BY <1>24, <2>1 DEF x, ja, jb
<1> QED  BY <1>1, <1>10, <1>12, <1>32, <1>33 DEF Walks

\* Where the walk begins.
AtTheStart == [ia |-> 1, ib |-> 1, steps |-> <<>>]

LEMMA WalkStarts ==
    ASSUME NEW a, Histogram(a), NEW b, Histogram(b)
    PROVE  AtTheStart \in Walks(a, b)
<1> DEFINE w == AtTheStart
<1>1. w.ia = 1 /\ w.ib = 1 /\ w.steps = <<>> /\ w \in [ia : Nat, ib : Nat, steps : Seq(Terms)]
  BY DEF AtTheStart
<1>2. /\ Len(a) \in Nat /\ Len(b) \in Nat
      /\ \A i \in DOMAIN a : i \in Nat /\ i >= 1
      /\ \A i \in DOMAIN b : i \in Nat /\ i >= 1
  BY HistogramIs
<1> HIDE DEF w
<1>3. Seen(w, a, b) = {}
  BY <1>1, <1>2 DEF Seen, IsSeen
<1>4. Cardinality(Seen(w, a, b)) = 0
  BY <1>3, FS_EmptySet
<1>5. Prefix(a, 0) = 0 /\ Prefix(b, 0) = 0
  <2> DEFINE n == 0
  <2>1. n \in 0..Len(a) /\ n \in 0..Len(b) /\ n = 0
    BY <1>2
  <2> HIDE DEF n
  <2>2. Prefix(a, n) = 0 /\ Prefix(b, n) = 0
    BY <2>1, PrefixIs
  <2> QED  BY <2>1, <2>2
<1>6. w.ia - 1 = 0 /\ w.ib - 1 = 0 /\ w.ia \in 1..(Len(a) + 1) /\ w.ib \in 1..(Len(b) + 1)
  BY <1>1, <1>2
<1>7. Before(w).m = 0 /\ Before(w).all = 0 /\ Len(w.steps) = 0
  BY <1>1 DEF Before
<1>8. Walking(w, a, b)
  BY <1>3, <1>4, <1>5, <1>6, <1>7 DEF Walking
<1> QED  BY <1>1, <1>8 DEF Walks, w

\* The walk, as the states it goes through.
LEMMA WalkStates ==
    ASSUME NEW a, Histogram(a), NEW b, Histogram(b)
    PROVE  \E walk \in [0..(Len(a) + Len(b)) -> Walks(a, b)] :
             /\ \A k \in 1..(Len(a) + Len(b)) : walk[k] = C!WalkStep(walk[k - 1], a, b)
             /\ C!MergeWalk(a, b) = walk[Len(a) + Len(b)].steps
<1> DEFINE n == Len(a) + Len(b)
           places == [k \in 1..n |-> k]
           D == DOMAIN places
           V == Walks(a, b)
           base == AtTheStart
           Value(h, s) == IF s = {} THEN [ia |-> 1, ib |-> 1, steps |-> <<>>]
                          ELSE C!WalkStep(h[s \ {C!Max(s)}], a, b)
           g == CHOOSE g : g = [s \in SUBSET D |-> Value(g, s)]
           top == [s \in SUBSET D |-> C!Max(s)]
           step == [k \in D |-> [v \in V |-> C!WalkStep(v, a, b)]]
<1>1. C!MergeWalk(a, b) = g[D].steps
  BY DEF C!MergeWalk, C!FoldLeft, C!MapThenFoldSet
<1>2. n \in Nat /\ D = 1..n
  BY HistogramIs
<1> HIDE DEF n, places, D
<1>3. \A s \in SUBSET D : s # {} => C!Max(s) \in s /\ \A i \in s : C!Max(s) >= i
  <2> SUFFICES ASSUME NEW s \in SUBSET D, s # {} PROVE C!Max(s) \in s /\ \A i \in s : C!Max(s) >= i
    OBVIOUS
  <2>1. s \in SUBSET (1..n)
    BY <1>2
  <2>2. \E m \in s : \A i \in s : m >= i
    BY <1>2, <2>1, GreatestNatural
  <2> QED  BY <2>2 DEF C!Max
<1>4. ASSUME NEW k \in D, NEW v \in V
      PROVE  step[k][v] = C!WalkStep(v, a, b) /\ step[k][v] \in V
  <2>1. step[k][v] = C!WalkStep(v, a, b)
    OBVIOUS
  <2>2. C!WalkStep(v, a, b) \in V
    <3>1. CASE v.ia <= Len(a) \/ v.ib <= Len(b)
      BY <3>1, WalkGoesOn
    <3>2. CASE ~(v.ia <= Len(a) \/ v.ib <= Len(b))
      <4>1. C!WalkStep(v, a, b) = v
        BY <3>2, WalkStepIs
      <4> QED  BY <4>1
    <3> QED  BY <3>1, <3>2
  <2> HIDE DEF step
  <2> QED  BY <2>1, <2>2
<1>5. IsFiniteSet(D) /\ base \in V
  <2>1. 1 \in Int /\ n \in Int
    BY <1>2
  <2> QED  BY <1>2, <2>1, FS_Interval, WalkStarts
<1> HIDE DEF V, base
<1>6. PICK h \in [SUBSET D -> V] : FoldOf(h, D, base, top, step)
  <2>1. Picks(top, D)
    BY <1>3 DEF Picks
  <2> HIDE DEF top, step
  <2> QED  BY <1>4, <1>5, <2>1, FoldExists
<1>7. \A s \in SUBSET D : h[s] = Value(h, s)
  <2> SUFFICES ASSUME NEW s \in SUBSET D PROVE h[s] = Value(h, s)
    OBVIOUS
  <2>1. h[s] = IF s = {} THEN base ELSE step[top[s]][h[s \ {top[s]}]]
    BY <1>6 DEF FoldOf
  <2>2. CASE s = {}
    BY <2>1, <2>2 DEF base, AtTheStart
  <2>3. CASE s # {}
    <3>1. top[s] = C!Max(s) /\ C!Max(s) \in D /\ h[s \ {C!Max(s)}] \in V
      BY <1>3, <2>3
    <3> HIDE DEF top, step
    <3> QED  BY <1>4, <2>1, <2>3, <3>1
  <2> QED  BY <2>2, <2>3
<1>8. h = [s \in SUBSET D |-> Value(h, s)]
  <2> HIDE DEF Value
  <2> QED  BY <1>6, <1>7
<1>9. g = [s \in SUBSET D |-> Value(g, s)]
  BY <1>8
<1> HIDE DEF g
<1>10. \A s \in SUBSET D : g[s] = Value(g, s)
  <2> HIDE DEF Value
  <2> QED  BY <1>9
<1>11. g[{}] = base
  BY <1>10 DEF base, AtTheStart
<1>12. ASSUME NEW s \in SUBSET D, s # {}, g[s \ {top[s]}] \in V
       PROVE  g[s] = step[top[s]][g[s \ {top[s]}]]
  <2>1. top[s] = C!Max(s) /\ C!Max(s) \in D
    BY <1>3, <1>12
  <2>2. g[s] = C!WalkStep(g[s \ {C!Max(s)}], a, b)
    BY <1>10, <1>12
  <2> HIDE DEF top, step
  <2> QED  BY <1>4, <1>12, <2>1, <2>2
<1>13. \A s \in SUBSET D : s # {} => top[s] \in s /\ \A i \in s : top[s] >= i
  BY <1>3
<1> HIDE DEF top, step, Value
<1>14. PICK walk \in [0..n -> V] :
         walk[0] = base /\ (\A k \in 1..n : walk[k] = step[k][walk[k - 1]]) /\ walk[n] = g[1..n]
  <2>1. \A k \in 1..n, v \in V : step[k][v] \in V
    BY <1>2, <1>4
  <2>2. \A s \in SUBSET (1..n) : s # {} => top[s] \in s /\ \A i \in s : top[s] >= i
    BY <1>2, <1>13
  <2>3. \A s \in SUBSET (1..n) :
          s # {} /\ g[s \ {top[s]}] \in V => g[s] = step[top[s]][g[s \ {top[s]}]]
    BY <1>2, <1>12
  <2>4. FoldsUp(g, n, V, base, top, step)
    BY <1>5, <1>11, <2>1, <2>2, <2>3 DEF FoldsUp
  <2> QED  BY <1>2, <2>4, FoldStates
<1>15. \A k \in 1..n : walk[k] = C!WalkStep(walk[k - 1], a, b)
  <2> SUFFICES ASSUME NEW k \in 1..n PROVE walk[k] = C!WalkStep(walk[k - 1], a, b)
    OBVIOUS
  <2>1. k - 1 \in 0..n
    BY <1>2
  <2>2. walk[k - 1] \in V /\ k \in D
    BY <1>2, <1>14, <2>1
  <2> QED  BY <1>4, <1>14, <2>2
<1>16. C!MergeWalk(a, b) = walk[n].steps
  BY <1>1, <1>2, <1>14
<1> QED  BY <1>14, <1>15, <1>16 DEF V, n

\* The terms of the walk: one for each value, at its place.
LEMMA MergeWalkIs ==
    ASSUME NEW a, Histogram(a), NEW b, Histogram(b)
    PROVE  LET values == C!ValuesOf(a, b)
               terms == C!MergeWalk(a, b)
           IN /\ terms \in Seq(Terms) /\ Len(terms) = Cardinality(values)
              /\ \A v \in values : terms[Rank(values, v)] = C!Term(a, b, v)
<1> DEFINE n == Len(a) + Len(b)
           V == Walks(a, b)
           values == C!ValuesOf(a, b)
<1>0. /\ Len(a) \in Nat /\ Len(b) \in Nat /\ DOMAIN a = 1..Len(a) /\ DOMAIN b = 1..Len(b)
  BY HistogramIs
<1>1. PICK walk \in [0..n -> V] :
        /\ \A k \in 1..n : walk[k] = C!WalkStep(walk[k - 1], a, b)
        /\ C!MergeWalk(a, b) = walk[n].steps
  BY WalkStates
<1> DEFINE AtEnd(w) == ~(w.ia <= Len(a) \/ w.ib <= Len(b))
           Far(k) == AtEnd(walk[k]) \/ walk[k].ia + walk[k].ib >= k + 2
           Good == {k \in Nat : k \in 0..n => Far(k)}
<1>2. n \in Nat
  BY <1>0
<1> HIDE DEF n, V
<1>3. \A w \in V : w.ia \in 1..(Len(a) + 1) /\ w.ib \in 1..(Len(b) + 1) /\ w.ia \in Nat /\ w.ib \in Nat
  BY WalkIs DEF V, Walking
<1>4. 0 \in Good
  <2>1. walk[0] \in V
    BY <1>1, <1>2
  <2>2. walk[0].ia >= 1 /\ walk[0].ib >= 1 /\ walk[0].ia \in Nat /\ walk[0].ib \in Nat
    BY <1>0, <1>3, <2>1
  <2> QED  BY <2>2
<1>5. ASSUME NEW k \in Nat, k \in Good PROVE k + 1 \in Good
  <2> SUFFICES ASSUME k + 1 \in 0..n PROVE Far(k + 1)
    OBVIOUS
  <2>1. k \in 0..n /\ k + 1 \in 1..n /\ (k + 1) - 1 = k
    BY <1>2
  <2> DEFINE w == walk[k]
             x == walk[k + 1]
  <2>2. w \in V /\ x \in V /\ x = C!WalkStep(w, a, b) /\ Far(k)
    BY <1>1, <1>5, <2>1
  <2>3. w.ia \in Nat /\ w.ib \in Nat /\ x.ia \in Nat /\ x.ib \in Nat
    BY <1>3, <2>2
  <2>4. CASE AtEnd(w)
    <3> HIDE DEF w, x
    <3>1. x = w
      BY <2>2, <2>4, WalkStepIs DEF V
    <3> QED  BY <2>4, <3>1 DEF w, x
  <2>5. CASE ~AtEnd(w)
    <3>1. w.ia + w.ib >= k + 2
      BY <2>2, <2>5
    <3>2. x.ia + x.ib > w.ia + w.ib
      <4> HIDE DEF w, x
      <4> QED  BY <2>2, <2>5, WalkGoesOn DEF V
    <3> HIDE DEF w, x
    <3>3. x.ia + x.ib >= (k + 1) + 2
      BY <2>3, <3>1, <3>2
    <3> QED  BY <3>3 DEF x
  <2> QED  BY <2>4, <2>5
<1>6. n \in Good
  <2>1. \A k \in Nat : k \in Good
    <3> HIDE DEF Good
    <3> QED  BY <1>4, <1>5, NumberInduction
  <2> HIDE DEF Good
  <2> QED  BY <1>2, <2>1
<1> DEFINE w == walk[n]
<1>7. w \in V /\ Far(n)
  BY <1>1, <1>2, <1>6
<1>8. AtEnd(w)
  <2>1. w.ia \in 1..(Len(a) + 1) /\ w.ib \in 1..(Len(b) + 1)
    BY <1>3, <1>7
  <2>2. AtEnd(w) \/ w.ia + w.ib >= n + 2
    BY <1>7
  <2> HIDE DEF w
  <2> QED  BY <1>0, <2>1, <2>2 DEF n
<1> HIDE DEF w
<1>9. /\ Walking(w, a, b) /\ w.steps \in Seq(Terms)
      /\ w.ia \in 1..(Len(a) + 1) /\ w.ib \in 1..(Len(b) + 1)
  BY <1>3, <1>7, WalkIs DEF V
<1>10. \A i \in DOMAIN a : i < w.ia
  BY <1>0, <1>8, <1>9
<1>11. \A i \in DOMAIN b : i < w.ib
  BY <1>0, <1>8, <1>9
<1>12. Seen(w, a, b) = values
  <2>1. \A v \in values : (\E i \in DOMAIN a : a[i][1] = v) \/ (\E i \in DOMAIN b : b[i][1] = v)
    BY ValuesOfIs
  <2> HIDE DEF values
  <2>2. \A v \in values : IsSeen(w, a, b, v)
    BY <1>10, <1>11, <2>1 DEF IsSeen
  <2>3. Seen(w, a, b) \in SUBSET values /\ values \in SUBSET Seen(w, a, b)
    BY <2>2 DEF Seen, values
  <2> QED  BY <2>3
<1>13. Len(w.steps) = Cardinality(values) /\ \A v \in values : w.steps[Rank(values, v)] = C!Term(a, b, v)
  BY <1>9, <1>12 DEF Walking, values
<1> QED  BY <1>1, <1>9, <1>13 DEF w

\* A count is an integer.
LEMMA CountsAreNumbers ==
    ASSUME NEW h, Histogram(h), NEW v \in Nat
    PROVE  C!UpTo(h, v) \in Int /\ C!Count(h) \in Int
<1> DEFINE D == DOMAIN h
           f == [i \in DOMAIN h |-> IF h[i][1] <= v THEN h[i][2] ELSE 0]
<1>1. Len(h) \in Nat /\ IsFiniteSet(D) /\ \A i \in D : h[i][2] \in Nat
  BY HistogramIs
<1>2. C!UpTo(h, v) = SumFunctionOnSet(f, D)
  <2>1. C!UpTo(h, v) = SumFunctionOnSet(f, DOMAIN f)
    BY ComparisonsTotal DEF C!UpTo
  <2> QED  BY <2>1
<1>3. \A i \in D : f[i] \in Int
  BY <1>1
<1> HIDE DEF f, D
<1>4. SumFunctionOnSet(f, D) \in Int
  BY <1>1, <1>3, SumType
<1>5. Prefix(h, Len(h)) \in Int
  <2>1. Len(h) \in 0..Len(h)
    BY <1>1
  <2> QED  BY <2>1, PrefixIs
<1> QED  BY <1>2, <1>4, <1>5, CountIsPrefix

LEMMA ThereAreValues ==
    ASSUME NEW a, Histogram(a), a # <<>>, NEW b, Histogram(b)
    PROVE  C!ValuesOf(a, b) # {}
<1>1. a \in Seq(Nat \X Nat) /\ Len(a) \in Nat
  BY HistogramIs DEF Histogram
<1>2. 1 \in DOMAIN a
  BY <1>1
<1>3. a[1][1] \in C!ValuesOf(a, b)
  BY <1>2, ValuesOfIs
<1> QED  BY <1>3

\* The statistic of Kolmogorov and Smirnov (ks_d_statistic), which the code takes
\* over the steps of the walk, is over the values.
LEMMA KsIsOverTheValues ==
    ASSUME NEW a, Histogram(a), a # <<>>, NEW b, Histogram(b)
    PROVE  C!KsStatistic(a, b) =
             C!Max({C!Distance(C!UpTo(a, v) * C!Count(b), C!UpTo(b, v) * C!Count(a)) :
                      v \in C!ValuesOf(a, b)})
<1> DEFINE values == C!ValuesOf(a, b)
           terms == C!MergeWalk(a, b)
           na == C!Count(a)
           nb == C!Count(b)
           At(k) == C!Distance(terms[k].m * nb, (terms[k].all - terms[k].m) * na)
           gap == [v \in values |-> C!Distance(C!UpTo(a, v) * nb, C!UpTo(b, v) * na)]
           Gaps == {gap[v] : v \in values}
<1>1. values \in SUBSET Nat /\ IsFiniteSet(values) /\ values # {}
  BY ValuesOfIs, ThereAreValues
<1>2. /\ terms \in Seq(Terms) /\ Len(terms) = Cardinality(values)
      /\ \A v \in values : terms[Rank(values, v)] = C!Term(a, b, v)
  BY MergeWalkIs
<1>3. DOMAIN terms = 1..Cardinality(values)
  BY <1>2
<1>4. C!KsStatistic(a, b) = C!Max({At(k) : k \in DOMAIN terms} \cup {0})
  BY DEF C!KsStatistic
<1>5. \A v \in values : C!UpTo(a, v) \in Int /\ C!UpTo(b, v) \in Int /\ na \in Int /\ nb \in Int
  BY <1>1, CountsAreNumbers
<1> HIDE DEF values, terms, na, nb
<1>6. \A v \in values : gap[v] = At(Rank(values, v))
  <2> SUFFICES ASSUME NEW v \in values PROVE gap[v] = At(Rank(values, v))
    OBVIOUS
  <2> DEFINE x == C!UpTo(a, v)
             y == C!UpTo(b, v)
             term == terms[Rank(values, v)]
  <2>1. term.m = x /\ term.all = x + y
    <3>1. term = C!Term(a, b, v)
      BY <1>2
    <3>2. C!Term(a, b, v) = [h |-> C!At(a, v) + C!At(b, v), m |-> x, all |-> x + y]
      BY DEF C!Term
    <3> HIDE DEF term, x, y
    <3> QED  BY <3>1, <3>2
  <2>2. x \in Int /\ y \in Int
    BY <1>5
  <2>3. gap[v] = C!Distance(x * nb, y * na)
    OBVIOUS
  <2> HIDE DEF x, y, term
  <2>4. term.all - term.m = y
    BY <2>1, <2>2
  <2>5. gap[v] = C!Distance(term.m * nb, (term.all - term.m) * na)
    BY <2>1, <2>3, <2>4
  <2> QED  BY <2>5 DEF term
<1>7. \A v \in values : gap[v] \in Int /\ gap[v] >= 0
  <2> SUFFICES ASSUME NEW v \in values PROVE gap[v] \in Int /\ gap[v] >= 0
    OBVIOUS
  <2> DEFINE p == C!UpTo(a, v) * nb
             q == C!UpTo(b, v) * na
  <2>1. p \in Int /\ q \in Int
    <3>1. \A x, y \in Int : x * y \in Int
      OBVIOUS
    <3> QED  BY <1>5, <3>1
  <2>2. gap[v] = C!Distance(p, q)
    OBVIOUS
  <2> HIDE DEF p, q, gap
  <2> QED  BY <2>1, <2>2 DEF C!Distance
<1> HIDE DEF gap, At
<1>8. {At(k) : k \in DOMAIN terms} = Gaps
  <2>1. ASSUME NEW k \in DOMAIN terms PROVE At(k) \in Gaps
    <3>1. PICK v \in values : Rank(values, v) = k
      BY <1>1, <1>3, RankIsTaken
    <3> QED  BY <1>6, <3>1
  <2>2. ASSUME NEW v \in values PROVE gap[v] \in {At(k) : k \in DOMAIN terms}
    <3>1. Rank(values, v) \in DOMAIN terms
      BY <1>1, <1>3, RankType
    <3> QED  BY <1>6, <3>1
  <2> QED  BY <2>1, <2>2
<1>9. Gaps \in SUBSET Int /\ IsFiniteSet(Gaps) /\ Gaps # {} /\ \A x \in Gaps : x >= 0
  <2>1. IsFiniteSet(Gaps)
    BY <1>1, ImageIsFinite
  <2> QED  BY <1>1, <1>7, <2>1
<1> DEFINE top == C!Max(Gaps)
<1>10. C!KsStatistic(a, b) = C!Max(Gaps \cup {0})
  BY <1>4, <1>8
<1> HIDE DEF Gaps
<1>11. top \in Gaps /\ \A x \in Gaps : top >= x
  BY <1>9, ComparisonsMax
<1> HIDE DEF top
<1>12. C!Max(Gaps \cup {0}) = top
  <2>1. top \in Gaps \cup {0} /\ Gaps \cup {0} \in SUBSET Int /\ \A x \in Gaps \cup {0} : top >= x
    BY <1>9, <1>11
  <2> DEFINE T == Gaps \cup {0}
  <2> HIDE DEF T
  <2>2. T \in SUBSET Int /\ top \in T /\ \A x \in T : top >= x
    BY <2>1 DEF T
  <2>3. C!Max(T) = top
    BY <2>2, ComparisonsMaxOf
  <2> QED  BY <2>3 DEF T
<1>13. Gaps = {C!Distance(C!UpTo(a, v) * C!Count(b), C!UpTo(b, v) * C!Count(a)) : v \in C!ValuesOf(a, b)}
  BY DEF Gaps, gap, values, na, nb
<1> QED  BY <1>10, <1>12, <1>13 DEF top

\* The terms of Anderson and Darling (ad_test): all values but the largest, which
\* is the last.
LEMMA AdIsOverTheValues ==
    ASSUME NEW a, Histogram(a), a # <<>>, NEW b, Histogram(b)
    PROVE  LET values == C!ValuesOf(a, b)
           IN /\ Len(C!AdTerms(a, b)) = C!Cardinality(values) - 1
              /\ \A v \in values \ {C!Max(values)} :
                   C!AdTerms(a, b)[C!Cardinality({u \in values : u <= v})] = C!Term(a, b, v)
<1> DEFINE values == C!ValuesOf(a, b)
           terms == C!MergeWalk(a, b)
           n == Len(terms)
           kept == SubSeq(terms, 1, n - 1)
<1>1. values \in SUBSET Nat /\ IsFiniteSet(values) /\ values # {}
  BY ValuesOfIs, ThereAreValues
<1>2. /\ terms \in Seq(Terms) /\ n = Cardinality(values)
      /\ \A v \in values : terms[Rank(values, v)] = C!Term(a, b, v)
  BY MergeWalkIs
<1>3. C!AdTerms(a, b) = kept
  BY DEF C!AdTerms
<1> HIDE DEF values, terms
<1>4. n \in Nat /\ n # 0
  <2>1. Cardinality(values) \in Nat /\ Cardinality(values) # 0
    BY <1>1, FS_CardinalityType, FS_EmptySet
  <2> QED  BY <1>2, <2>1
<1>5. Len(kept) = n - 1
  BY <1>2, <1>4
<1>6. \A k \in 1..(n - 1) : kept[k] = terms[k]
  BY <1>2, <1>4
<1> DEFINE high == C!Max(values)
<1>7. high \in values /\ \A u \in values : high >= u
  BY <1>1, ComparisonsMax
<1>8. C!Cardinality(values) = n /\ \A v \in values : C!Cardinality({u \in values : u <= v}) = Rank(values, v)
  BY <1>2, ComparisonsCardinality DEF Rank
<1> HIDE DEF high, kept, n
<1>9. \A v \in values \ {high} : Rank(values, v) \in 1..(n - 1)
  <2> SUFFICES ASSUME NEW v \in values, v # high PROVE Rank(values, v) \in 1..(n - 1)
    OBVIOUS
  <2>1. Rank(values, v) \in 1..n /\ Rank(values, high) \in 1..n
    BY <1>1, <1>2, <1>7, RankType
  <2>2. Rank(values, v) # Rank(values, high)
    BY <1>1, <1>7, RankIsOfOne
  <2>3. Rank(values, high) = n
    <3>1. {u \in values : u <= high} = values
      BY <1>1, <1>7
    <3> QED  BY <1>2, <3>1 DEF Rank
  <2> QED  BY <1>4, <2>1, <2>2, <2>3
<1>10. ASSUME NEW v \in values, v # high
       PROVE  kept[C!Cardinality({u \in values : u <= v})] = C!Term(a, b, v)
  BY <1>2, <1>6, <1>8, <1>9, <1>10
<1>11. Len(kept) = C!Cardinality(values) - 1
  BY <1>5, <1>8
<1> QED  BY <1>3, <1>10, <1>11 DEF values, high

\* What compare prints of the distributions of two of the exports.
EvidenceOf(a, b, ps) ==
  [tests |-> TRUE, ks |-> C!KsStatistic(a, b), terms |-> C!AdTerms(a, b), ps |-> ps,
   adjusted |-> C!HolmBonferroni(ps)]

\* The tests were printed of the two inputs, with some p-values.
EvidenceInv ==
  /\ verb # "none" => \E a, b \in Exports : inputs = <<a, b>>
  /\ printed.tests =>
       /\ verb = "compare" /\ code # {}
       /\ inputs[1].hist # <<>> /\ inputs[2].hist # <<>>
       /\ \E ps \in [1..2 -> 0..MaxP] : printed = EvidenceOf(inputs[1].hist, inputs[2].hist, ps)

\* What was printed of two inputs is what the tests are defined by.
LEMMA EvidenceHolds ==
    ASSUME CliAssumption, EvidenceInv
    PROVE  C!EvidenceIsExact
<1> SUFFICES ASSUME printed.tests PROVE C!EvidenceIsExact
  BY DEF C!EvidenceIsExact
<1> DEFINE a == inputs[1].hist
           b == inputs[2].hist
           values == C!ValuesOf(a, b)
<1>1. PICK ps \in [1..2 -> 0..MaxP] : printed = EvidenceOf(a, b, ps)
  BY DEF EvidenceInv
<1>2. Histogram(a) /\ Histogram(b) /\ a # <<>> /\ b # <<>>
  <2>1. PICK x \in Exports, y \in Exports : inputs = <<x, y>>
    BY DEF EvidenceInv
  <2>2. inputs[1] = x /\ inputs[2] = y
    BY <2>1
  <2>3. Histogram(x.hist) /\ Histogram(y.hist)
    BY DEF CliAssumption
  <2> QED  BY <2>2, <2>3 DEF EvidenceInv
<1> HIDE DEF a, b
<1>3. /\ printed.ks = C!KsStatistic(a, b) /\ printed.terms = C!AdTerms(a, b)
      /\ printed.ps = ps /\ printed.adjusted = C!HolmBonferroni(ps)
  BY <1>1 DEF EvidenceOf
<1>4. printed.ks = C!Max({C!Distance(C!UpTo(a, v) * C!Count(b), C!UpTo(b, v) * C!Count(a)) : v \in values})
  BY <1>2, <1>3, KsIsOverTheValues
<1>5. /\ Len(printed.terms) = C!Cardinality(values) - 1
      /\ \A v \in values \ {C!Max(values)} :
           printed.terms[C!Cardinality({u \in values : u <= v})] = C!Term(a, b, v)
  BY <1>2, <1>3, AdIsOverTheValues
<1>6. ASSUME NEW alpha \in 1..MaxP, NEW i \in DOMAIN printed.ps
      PROVE  printed.adjusted[i] < alpha <=> C!Rejects(printed.ps, alpha, i)
  <2> DEFINE n == 2
  <2>1. n \in Nat /\ ps \in [1..n -> Nat] /\ i \in 1..n
    BY <1>3, <1>6 DEF CliAssumption
  <2> HIDE DEF n
  <2>2. C!HolmBonferroni(ps)[i] < alpha <=> C!Rejects(ps, alpha, i)
    BY <2>1, HolmIsStepDown
  <2> QED  BY <1>3, <2>2
<1> HIDE DEF values
<1> QED  BY <1>4, <1>5, <1>6 DEF C!EvidenceIsExact, values, a, b

LEMMA EvidenceStart == Init => EvidenceInv
  BY DEF Init, C!ComparisonInit, C!NoTests, EvidenceInv

LEMMA EvidenceStep ==
    ASSUME EvidenceInv, [Next]_vars
    PROVE  EvidenceInv'
<1>1. CASE C!Compare("compare") \/ C!Compare("diff")
  <2>1. verb = "none" /\ printed' = printed /\ verb' # "none"
    BY <1>1 DEF C!Compare
  <2>2. ~printed.tests
    BY <2>1 DEF EvidenceInv
  <2>3. (\E a, b \in Exports : inputs = <<a, b>>)'
    BY <1>1 DEF C!Compare
  <2> QED  BY <2>1, <2>2, <2>3 DEF EvidenceInv
<1>2. CASE C!InputFails
  <2>1. /\ verb' = verb /\ inputs' = inputs /\ printed' = printed /\ code' # {}
    BY <1>2 DEF C!InputFails
  <2> QED  BY <2>1 DEF EvidenceInv
<1>3. CASE C!RunCompare
  <2>1. /\ verb = "compare" /\ verb' = verb /\ inputs' = inputs /\ code = {}
        /\ code' # {}
    BY <1>3 DEF C!RunCompare
  <2>2. ~printed.tests
    BY <2>1 DEF EvidenceInv
  <2> DEFINE a == inputs[1].hist
             b == inputs[2].hist
  <2>3. IF a = <<>> \/ b = <<>> THEN printed' = printed
        ELSE \E ps \in [1..2 -> 0..MaxP] : printed' = EvidenceOf(a, b, ps)
    BY <1>3 DEF C!RunCompare, EvidenceOf
  <2>4. printed'.tests => /\ a # <<>> /\ b # <<>>
                          /\ \E ps \in [1..2 -> 0..MaxP] : printed' = EvidenceOf(a, b, ps)
    BY <2>2, <2>3
  <2>5. (printed.tests =>
           /\ inputs[1].hist # <<>> /\ inputs[2].hist # <<>>
           /\ \E ps \in [1..2 -> 0..MaxP] : printed = EvidenceOf(inputs[1].hist, inputs[2].hist, ps))'
    BY <2>1, <2>4 DEF EvidenceOf
  <2> QED  BY <2>1, <2>5 DEF EvidenceInv
<1>4. CASE C!RunDiff
  <2>1. /\ verb' = verb /\ inputs' = inputs /\ printed' = printed /\ code' # {}
    BY <1>4 DEF C!RunDiff
  <2> QED  BY <2>1 DEF EvidenceInv
<1>5. CASE UNCHANGED comparisonVars
  BY <1>5 DEF comparisonVars, EvidenceInv
<1>6. \/ C!Compare("compare") \/ C!Compare("diff") \/ C!InputFails \/ C!RunCompare \/ C!RunDiff
      \/ UNCHANGED comparisonVars
  BY DEF Next, Load, Start, RunStep, CompareStep, C!ComparisonNext, vars
<1> QED  BY <1>1, <1>2, <1>3, <1>4, <1>5, <1>6

\* compare prints what its tests are defined by: the largest gap of the two
\* distribution functions (ks_d_statistic), the counts at and up to each value
\* but the largest (ad_test), and p-values that are below a level exactly when
\* Holm's step-down procedure rejects at it (holm_bonferroni), whatever the two
\* histograms hold.
THEOREM EvidenceFollowsTheTests == Spec => []EvidenceIsExact
<1>1. EvidenceInv /\ [Next]_vars => EvidenceInv'
  BY EvidenceStep
<1>2. EvidenceInv => EvidenceIsExact
  BY CliAssumption, EvidenceHolds DEF EvidenceIsExact
<1> QED  BY EvidenceStart, <1>1, <1>2, PTL DEF Spec
==============================================================================
