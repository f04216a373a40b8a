------------------------- MODULE LiveSnapshotProofs --------------------------
(***************************************************************************)
(* Theorems about the live aggregator and about a run with the dashboard,  *)
(* for any number of workers, shards, scenarios, error kinds, calls and    *)
(* snapshots.                                                              *)
(***************************************************************************)
EXTENDS TuiRun, SequenceTheorems, TLAPS

-----------------------------------------------------------------------------
(* The order in which the fields of a scope are swapped: every field once. *)

\* swap_and_snapshot visits, per scope, the two counters, then every error kind,
\* then every shard: these are the positions of the sweep and what is at each.
LEMMA FieldOrderShape ==
    /\ Len(FieldOrder) = 2 + NumErrorKinds + NumShards
    /\ Len(FieldOrder) \in Nat
    /\ \A p \in 1..Len(FieldOrder) : FieldOrder[p] =
          IF p = 1 THEN <<"requests", 0>>
          ELSE IF p = 2 THEN <<"bytes", 0>>
          ELSE IF p <= 2 + NumErrorKinds THEN <<"errors", p - 2>>
          ELSE <<"latency", p - 3 - NumErrorKinds>>
<1> DEFINE S == {"requests", "bytes", "errors", "latency"} \X Int
           a == << <<"requests", 0>>, <<"bytes", 0>> >>
           b == [e \in 1..NumErrorKinds |-> <<"errors", e>>]
           c == [s \in 1..NumShards |-> <<"latency", s - 1>>]
<1> USE SnapshotAssumption
<1>1. a \in Seq(S) /\ Len(a) = 2 /\ a[1] = <<"requests", 0>> /\ a[2] = <<"bytes", 0>>
  <2>1. \A x, y \in S : /\ <<x, y>> \in Seq(S) /\ Len(<<x, y>>) = 2
                       /\ <<x, y>>[1] = x /\ <<x, y>>[2] = y
    <3> HIDE DEF S
    <3> QED  OBVIOUS
  <2>2. <<"requests", 0>> \in S /\ <<"bytes", 0>> \in S
    OBVIOUS
  <2> QED  BY <2>1, <2>2
<1>2. b \in Seq(S) /\ Len(b) = NumErrorKinds
  OBVIOUS
<1>3. c \in Seq(S) /\ Len(c) = NumShards
  OBVIOUS
<1>4. (a \o b) \in Seq(S) /\ Len(a \o b) = 2 + NumErrorKinds
      /\ \A i \in 1..(2 + NumErrorKinds) :
            (a \o b)[i] = IF i <= 2 THEN a[i] ELSE b[i - 2]
  <2> HIDE DEF S, a, b
  <2>1. /\ (a \o b) \in Seq(S)
        /\ Len(a \o b) = Len(a) + Len(b)
        /\ \A i \in 1..(Len(a) + Len(b)) :
              (a \o b)[i] = IF i <= Len(a) THEN a[i] ELSE b[i - Len(a)]
    BY <1>1, <1>2, ConcatProperties
  <2> QED  BY <2>1, <1>1, <1>2
<1>5. /\ Len((a \o b) \o c) = 2 + NumErrorKinds + NumShards
      /\ \A i \in 1..(2 + NumErrorKinds + NumShards) :
            ((a \o b) \o c)[i] = IF i <= 2 + NumErrorKinds THEN (a \o b)[i]
                                 ELSE c[i - 2 - NumErrorKinds]
  <2> HIDE DEF S, a, b, c
  <2>1. /\ Len((a \o b) \o c) = Len(a \o b) + Len(c)
        /\ \A i \in 1..(Len(a \o b) + Len(c)) :
              ((a \o b) \o c)[i] = IF i <= Len(a \o b) THEN (a \o b)[i]
                                   ELSE c[i - Len(a \o b)]
    BY ZenonT(30), <1>3, <1>4, ConcatProperties
  <2> QED  BY <2>1, <1>3, <1>4
<1>6. FieldOrder = (a \o b) \o c
  BY DEF FieldOrder
<1>7. ASSUME NEW p \in 1..(2 + NumErrorKinds + NumShards)
      PROVE  FieldOrder[p] =
          IF p = 1 THEN <<"requests", 0>>
          ELSE IF p = 2 THEN <<"bytes", 0>>
          ELSE IF p <= 2 + NumErrorKinds THEN <<"errors", p - 2>>
          ELSE <<"latency", p - 3 - NumErrorKinds>>
  <2>1. CASE p = 1
    BY <2>1, <1>1, <1>4, <1>5, <1>6
  <2>2. CASE p = 2
    BY <2>2, <1>1, <1>4, <1>5, <1>6
  <2>3. CASE p > 2 /\ p <= 2 + NumErrorKinds
    <3>1. b[p - 2] = <<"errors", p - 2>>
      BY <2>3
    <3>2. FieldOrder[p] = b[p - 2]
      <4> HIDE DEF a, b, c
      <4> QED  BY <2>3, <1>4, <1>5, <1>6
    <3> QED  BY <3>1, <3>2, <2>3
  <2>4. CASE p > 2 + NumErrorKinds
    <3>1. c[p - 2 - NumErrorKinds] = <<"latency", p - 3 - NumErrorKinds>>
      BY <2>4
    <3>2. FieldOrder[p] = c[p - 2 - NumErrorKinds]
      <4> HIDE DEF a, b, c
      <4> QED  BY <2>4, <1>5, <1>6
    <3>3. p # 1 /\ p # 2 /\ ~(p <= 2 + NumErrorKinds)
      BY <2>4
    <3> HIDE DEF a, b, c
    <3> QED  BY <3>1, <3>2, <3>3
  <2> QED  BY <2>1, <2>2, <2>3, <2>4
<1> HIDE DEF a, b, c
<1> QED  BY <1>5, <1>6, <1>7

\* Every field of a scope is swapped somewhere in the sweep.
LEMMA FieldOrderOnto ==
    /\ \A p \in 1..Len(FieldOrder) : FieldOrder[p] \in Fields
    /\ \A f \in Fields : \E p \in 1..Len(FieldOrder) : FieldOrder[p] = f
<1> USE SnapshotAssumption
<1>1. \A p \in 1..Len(FieldOrder) : FieldOrder[p] \in Fields
  BY FieldOrderShape DEF Fields
<1>2. ASSUME NEW f \in Fields
      PROVE  \E p \in 1..Len(FieldOrder) : FieldOrder[p] = f
  <2>1. CASE f \in {"requests", "bytes"} \X {0}
    <3>1. f = <<"requests", 0>> \/ f = <<"bytes", 0>>
      BY <2>1
    <3>2. 1 \in 1..Len(FieldOrder) /\ 2 \in 1..Len(FieldOrder)
      BY FieldOrderShape
    <3>3. FieldOrder[1] = <<"requests", 0>> /\ FieldOrder[2] = <<"bytes", 0>>
      BY ONLY <3>2, FieldOrderShape
    <3> QED  BY <3>1, <3>2, <3>3
  <2>2. CASE f \in {"errors"} \X (1..NumErrorKinds)
    <3>1. PICK e \in 1..NumErrorKinds : f = <<"errors", e>>
      BY <2>2
    <3>2. e + 2 \in 1..Len(FieldOrder) /\ FieldOrder[e + 2] = <<"errors", e>>
      BY FieldOrderShape
    <3> QED  BY <3>1, <3>2
  <2>3. CASE f \in {"latency"} \X (0..(NumShards - 1))
    <3>1. PICK s \in 0..(NumShards - 1) : f = <<"latency", s>>
      BY <2>3
    <3>2. /\ s + 3 + NumErrorKinds \in 1..Len(FieldOrder)
          /\ FieldOrder[s + 3 + NumErrorKinds] = <<"latency", s>>
      BY FieldOrderShape
    <3> QED  BY <3>1, <3>2
  <2> QED  BY <2>1, <2>2, <2>3 DEF Fields
<1> QED  BY <1>1, <1>2

\* No field of a scope is swapped twice in one sweep.
LEMMA FieldOrderInjective ==
    \A p, q \in 1..Len(FieldOrder) : FieldOrder[p] = FieldOrder[q] => p = q
<1> SUFFICES ASSUME NEW p \in 1..Len(FieldOrder), NEW q \in 1..Len(FieldOrder),
                    FieldOrder[p] = FieldOrder[q]
             PROVE  p = q
  OBVIOUS
<1> DEFINE Kind(i) == IF i = 1 THEN "requests" ELSE IF i = 2 THEN "bytes"
                      ELSE IF i <= 2 + NumErrorKinds THEN "errors" ELSE "latency"
           Place(i) == IF i <= 2 THEN 0
                       ELSE IF i <= 2 + NumErrorKinds THEN i - 2 ELSE i - 3 - NumErrorKinds
<1>1. p \in Int /\ q \in Int /\ NumErrorKinds \in Nat /\ 1 <= p /\ 1 <= q
  BY FieldOrderShape, SnapshotAssumption
<1>2. \A i \in 1..Len(FieldOrder) : FieldOrder[i] = <<Kind(i), Place(i)>>
  BY FieldOrderShape, SnapshotAssumption
<1>3. Kind(p) = Kind(q) /\ Place(p) = Place(q)
  <2> HIDE DEF Kind, Place
  <2> QED  BY <1>2
<1> QED  BY ONLY <1>1, <1>3

-----------------------------------------------------------------------------
(* The cells of one call: at most six, each of them once. *)

\* The cells record, record_error and the sweep name are cells of the aggregator.
LEMMA CellType ==
    /\ \A scope \in Scopes : /\ Cell(scope, "requests", 0) \in Cells
                             /\ Cell(scope, "bytes", 0) \in Cells
    /\ \A scope \in Scopes, s \in 0..(NumShards - 1) :
          Cell(scope, "latency", s) \in Cells
    /\ \A scope \in Scopes, e \in 1..NumErrorKinds :
          Cell(scope, "errors", e) \in Cells
  BY SnapshotAssumption DEF Cell, Cells, Fields, Scopes

\* One call of the recorder updates between one and six cells, all different.
LEMMA CellsOfShape ==
    ASSUME NEW w \in Workers, NEW op \in Ops
    PROVE  /\ CellsOf(w, op) \in Seq(Cells)
           /\ Len(CellsOf(w, op)) \in 1..6
           /\ \A i, j \in 1..Len(CellsOf(w, op)) :
                 CellsOf(w, op)[i] = CellsOf(w, op)[j] => i = j
<1> USE SnapshotAssumption
<1>1. op.sid \in Nat /\ (op.kind = "record" \/ op.err \in 1..NumErrorKinds)
  BY DEF Ops
<1>2. 0 \in Scopes /\ (op.sid < NumScenarios => op.sid + 1 \in Scopes)
  BY <1>1 DEF Scopes
<1>3. ShardOf[w] \in 0..(NumShards - 1)
  OBVIOUS
<1>4. CASE op.kind = "record"
  <2> DEFINE s == op.sid
             q1 == Cell(0, "requests", 0)       q4 == Cell(s + 1, "requests", 0)
             q2 == Cell(0, "bytes", 0)          q5 == Cell(s + 1, "bytes", 0)
             q3 == Cell(0, "latency", ShardOf[w])
             q6 == Cell(s + 1, "latency", ShardOf[w])
  <2>1. CellsOf(w, op) = IF s < NumScenarios THEN <<q1, q2, q3, q4, q5, q6>>
                                             ELSE <<q1, q2, q3>>
    BY <1>4 DEF CellsOf, RecordCells
  <2>2. q1 \in Cells /\ q2 \in Cells /\ q3 \in Cells
    BY <1>2, <1>3, CellType
  <2>3. s < NumScenarios => q4 \in Cells /\ q5 \in Cells /\ q6 \in Cells
    BY <1>2, <1>3, CellType
  <2>4. /\ q1 # q2 /\ q1 # q3 /\ q2 # q3 /\ q4 # q5 /\ q4 # q6 /\ q5 # q6
        /\ \A x \in {q1, q2, q3}, y \in {q4, q5, q6} : x # y
    BY <1>1 DEF Cell
  <2> HIDE DEF s, q1, q2, q3, q4, q5, q6
  <2>5. CASE s < NumScenarios
    <3> DEFINE r == <<q1, q2, q3, q4, q5, q6>>
    <3>1. r \in Seq(Cells) /\ Len(r) = 6
      BY <2>2, <2>3, <2>5
    <3>2. \A i, j \in 1..6 : r[i] = r[j] => i = j
      BY <2>4
    <3>3. CellsOf(w, op) = r
      BY <2>1, <2>5
    <3> HIDE DEF r
    <3>4. CellsOf(w, op) \in Seq(Cells) /\ Len(CellsOf(w, op)) = 6
      BY <3>1, <3>3
    <3>5. \A i, j \in 1..6 : CellsOf(w, op)[i] = CellsOf(w, op)[j] => i = j
      BY <3>2, <3>3
    <3> QED  BY <3>4, <3>5
  <2>6. CASE ~(s < NumScenarios)
    <3> DEFINE r == <<q1, q2, q3>>
    <3>1. r \in Seq(Cells) /\ Len(r) = 3
      BY <2>2
    <3>2. \A i, j \in 1..3 : r[i] = r[j] => i = j
      BY <2>4
    <3>3. CellsOf(w, op) = r
      BY <2>1, <2>6
    <3> HIDE DEF r
    <3>4. CellsOf(w, op) \in Seq(Cells) /\ Len(CellsOf(w, op)) = 3
      BY <3>1, <3>3
    <3>5. \A i, j \in 1..3 : CellsOf(w, op)[i] = CellsOf(w, op)[j] => i = j
      BY <3>2, <3>3
    <3> QED  BY <3>4, <3>5
  <2> QED  BY <2>5, <2>6
<1>5. CASE op.kind # "record"
  <2> DEFINE s == op.sid
             q1 == Cell(0, "errors", op.err)
             q2 == Cell(s + 1, "errors", op.err)
  <2>1. CellsOf(w, op) = IF s < NumScenarios THEN <<q1, q2>> ELSE <<q1>>
    BY <1>5 DEF CellsOf, ErrorCells
  <2>2. q1 \in Cells /\ (s < NumScenarios => q2 \in Cells)
    BY <1>1, <1>2, <1>5, CellType
  <2>3. q1 # q2
    BY <1>1 DEF Cell
  <2> HIDE DEF s, q1, q2
  <2> QED  BY <2>1, <2>2, <2>3
<1> QED  BY <1>4, <1>5

-----------------------------------------------------------------------------
(* The updates of a worker. *)

\* The updates of the calls made, before and after a step.
LEMMA UpdatesMembers ==
    ASSUME NEW w
    PROVE  /\ \A u : u \in Updates(w) <=>
                \E n \in 1..Len(ops[w]) :
                   \E i \in 1..Len(CellsOf(w, ops[w][n])) : u = <<n, i>>
           /\ \A u : u \in Updates(w)' <=>
                \E n \in 1..Len(ops'[w]) :
                   \E i \in 1..Len(CellsOf(w, ops'[w][n])) : u = <<n, i>>
  BY DEF Updates, Calls

\* Typing.  TypeOK is not inductive on its own: the calls of a worker have to
\* stay within their bound for their samples to exist.
WithinBound == \A w \in Workers : Len(ops[w]) <= MaxOps[w]

TypeInv == TypeOK /\ WithinBound

\* An update is of a call that was made, and to a cell of the aggregator.
LEMMA UpdateType ==
    ASSUME TypeInv, NEW w \in Workers, NEW u \in Updates(w)
    PROVE  /\ u[1] \in 1..Len(ops[w])
           /\ ops[w][u[1]] \in Ops
           /\ u[2] \in 1..Len(CellsOf(w, ops[w][u[1]]))
           /\ u = <<u[1], u[2]>>
           /\ u \in Nat \X (1..6)
           /\ <<w, u[1]>> \in Samples
           /\ Target(w, u) \in Cells
<1>0. PICK n \in 1..Len(ops[w]) :
            \E i \in 1..Len(CellsOf(w, ops[w][n])) : u = <<n, i>>
  BY UpdatesMembers
<1>1. PICK i \in 1..Len(CellsOf(w, ops[w][n])) : u = <<n, i>>
  BY <1>0
<1>2. ops[w] \in Seq(Ops) /\ Len(ops[w]) \in Nat /\ Len(ops[w]) <= MaxOps[w]
      /\ MaxOps[w] \in Nat
  BY SnapshotAssumption DEF TypeInv, TypeOK, WithinBound
<1>3. ops[w][n] \in Ops
  BY <1>2
<1>4. CellsOf(w, ops[w][n]) \in Seq(Cells) /\ Len(CellsOf(w, ops[w][n])) \in 1..6
  BY <1>3, CellsOfShape
<1>5. i \in 1..6 /\ n \in Nat /\ n \in 1..MaxOps[w]
  <2> DEFINE m == Len(CellsOf(w, ops[w][n]))
  <2>1. m \in 1..6 /\ i \in 1..m
    BY <1>4
  <2> HIDE DEF m
  <2> QED  BY <1>2, <2>1
<1>6. <<w, n>> \in Samples
  BY <1>5 DEF Samples
<1>7. u[1] = n /\ u[2] = i
  BY <1>1
<1>8. CellsOf(w, ops[w][n])[i] \in Cells
  <2> DEFINE r == CellsOf(w, ops[w][n])
  <2>1. r \in Seq(Cells) /\ i \in 1..Len(r)
    BY <1>4
  <2> HIDE DEF r
  <2>2. r[i] \in Cells
    BY <2>1
  <2> QED  BY <2>2 DEF r
<1> QED  BY <1>1, <1>3, <1>5, <1>6, <1>7, <1>8 DEF Target

\* A call updates a cell at most once.
LEMMA UpdateUnique ==
    ASSUME TypeInv, NEW w \in Workers, NEW u \in Updates(w), NEW v \in Updates(w),
           u[1] = v[1], Target(w, u) = Target(w, v)
    PROVE  u = v
<1>1. PICK n : n = u[1]
  OBVIOUS
<1>2. /\ ops[w][n] \in Ops /\ u = <<n, u[2]>> /\ v = <<n, v[2]>>
      /\ u[2] \in 1..Len(CellsOf(w, ops[w][n]))
      /\ v[2] \in 1..Len(CellsOf(w, ops[w][n]))
  BY <1>1, UpdateType
<1>3. CellsOf(w, ops[w][n])[u[2]] = CellsOf(w, ops[w][n])[v[2]]
  BY <1>1 DEF Target
<1>4. u[2] = v[2]
  BY <1>2, <1>3, CellsOfShape
<1> QED  BY <1>2, <1>4

\* The call that Recorder::record begins, and the updates it will make.
NewCall(w) == Len(ops[w]) + 1

NewUpdates(w, op) == {NewCall(w)} \X (1..Len(CellsOf(w, op)))

\* What entering Recorder::record does to the updates: those of the new call
\* are there, and all of them are still to take effect.
LEMMA UpdatesBegin ==
    ASSUME TypeInv, NEW w \in Workers, NEW op \in Ops, BeginRecord(w, op)
    PROVE  /\ NewCall(w) \in Nat /\ NewUpdates(w, op) \subseteq Nat \X (1..6)
           /\ Updates(w)' = Updates(w) \cup NewUpdates(w, op)
           /\ pending'[w] = pending[w] \cup NewUpdates(w, op)
           /\ NewUpdates(w, op) \cap Updates(w) = {}
           /\ \A u \in Updates(w) : Target(w, u)' = Target(w, u)
           /\ \A v \in Workers : v # w =>
                 /\ Updates(v)' = Updates(v) /\ pending'[v] = pending[v]
                 /\ \A u : Target(v, u)' = Target(v, u)
           /\ ops' \in [Workers -> Seq(Ops)]
           /\ Len(ops'[w]) = NewCall(w)
<1> PICK n, S : n = NewCall(w) /\ S = NewUpdates(w, op)
  OBVIOUS
<1>0. n = Len(ops[w]) + 1 /\ S = {n} \X (1..Len(CellsOf(w, op)))
  BY DEF NewCall, NewUpdates
<1>1. /\ ops \in [Workers -> Seq(Ops)] /\ ops' = [ops EXCEPT ![w] = Append(ops[w], op)]
      /\ pending \in [Workers -> SUBSET (Nat \X (1..6))]
      /\ pending' = [pending EXCEPT ![w] = pending[w] \cup S]
  BY <1>0 DEF TypeInv, TypeOK, BeginRecord
<1>2. ops' \in [Workers -> Seq(Ops)]
  BY <1>1
<1>3. /\ n \in Nat /\ Len(ops'[w]) = n /\ ops'[w][n] = op
      /\ \A m \in 1..Len(ops[w]) : ops'[w][m] = ops[w][m]
  BY <1>0, <1>1
<1>4. Len(CellsOf(w, op)) \in 1..6
  BY CellsOfShape
<1>5. S \subseteq Nat \X (1..6)
  <2> DEFINE m == Len(CellsOf(w, op))
  <2>1. m \in 1..6 /\ S = {n} \X (1..m)
    BY <1>0, <1>4
  <2> HIDE DEF m
  <2>2. 1..m \subseteq 1..6
    BY <2>1
  <2> QED  BY <1>3, <2>1, <2>2
<1>6. \A u : u \in S <=> \E i \in 1..Len(CellsOf(w, op)) : u = <<n, i>>
  BY <1>0
<1>7. \A m : m \in 1..n <=> m \in 1..Len(ops[w]) \/ m = n
  BY <1>0, <1>1, <1>3
<1>8. n \notin 1..Len(ops[w])
  BY <1>0, <1>1
<1>9. Updates(w)' = Updates(w) \cup S
  <2>1. \A u : u \in Updates(w)' <=> u \in Updates(w) \cup S
    <3> DEFINE P(u, m) == \E i \in 1..Len(CellsOf(w, ops'[w][m])) : u = <<m, i>>
               O(u, m) == \E i \in 1..Len(CellsOf(w, ops[w][m])) : u = <<m, i>>
    <3>1. /\ \A u : u \in Updates(w)' <=> \E m \in 1..n : P(u, m)
          /\ \A u : u \in Updates(w) <=> \E m \in 1..Len(ops[w]) : O(u, m)
      BY <1>3, UpdatesMembers
    <3>2. \A u : P(u, n) <=> u \in S
      BY <1>3, <1>6
    <3>3. \A u : \A m \in 1..Len(ops[w]) : P(u, m) <=> O(u, m)
      BY <1>3
    <3> HIDE DEF P, O
    <3> QED  BY ONLY <3>1, <3>2, <3>3, <1>7, Zenon
  <2> QED  BY <2>1
<1>10. S \cap Updates(w) = {}
  <2> SUFFICES ASSUME NEW u \in S, u \in Updates(w) PROVE FALSE
    OBVIOUS
  <2>1. u[1] = n
    BY <1>6
  <2>2. u[1] \in 1..Len(ops[w])
    BY UpdateType
  <2> QED  BY <1>8, <2>1, <2>2
<1>11. \A u \in Updates(w) : Target(w, u)' = Target(w, u)
  BY <1>3, UpdateType DEF Target
<1>12. ASSUME NEW v \in Workers, v # w
       PROVE  /\ Updates(v)' = Updates(v) /\ pending'[v] = pending[v]
              /\ \A u : Target(v, u)' = Target(v, u)
  <2>1. ops'[v] = ops[v] /\ pending'[v] = pending[v]
    BY <1>1, <1>12
  <2> QED  BY <2>1 DEF Updates, Calls, Target
<1> QED  BY <1>1, <1>2, <1>3, <1>5, <1>9, <1>10, <1>11, <1>12

\* Without a new call the updates stay the same.
LEMMA UpdatesSame ==
    ASSUME UNCHANGED ops
    PROVE  \A w : Updates(w)' = Updates(w) /\ \A u : Target(w, u)' = Target(w, u)
  BY DEF Updates, Calls, Target

\* Every position of a sweep is a cell, and every cell has one position.
LEMMA PositionType ==
    /\ \A p \in Positions : CellAt(p) \in Cells
    /\ \A p, q \in Positions : CellAt(p) = CellAt(q) => p = q
<1>1. \A p \in Positions : CellAt(p) \in Cells
  BY FieldOrderOnto DEF Positions, CellAt, Cells
<1>2. ASSUME NEW p \in Positions, NEW q \in Positions, CellAt(p) = CellAt(q)
      PROVE  p = q
  <2>1. /\ p[2] \in 1..Len(FieldOrder) /\ q[2] \in 1..Len(FieldOrder)
        /\ p = <<p[1], p[2]>> /\ q = <<q[1], q[2]>>
    BY DEF Positions
  <2>2. p[1] = q[1] /\ FieldOrder[p[2]] = FieldOrder[q[2]]
    BY <1>2 DEF CellAt
  <2>3. p[2] = q[2]
    BY <2>1, <2>2, FieldOrderInjective
  <2> QED  BY <2>1, <2>2, <2>3
<1> QED  BY <1>1, <1>2

-----------------------------------------------------------------------------
(* Typing. *)

\* LiveSnapshot::new starts out well typed, with no call under way.
LEMMA TypeInit == Init => TypeInv
<1> SUFFICES ASSUME Init PROVE TypeInv
  OBVIOUS
<1>1. TypeOK
  BY SnapshotAssumption DEF Init, TypeOK
<1>2. \A w \in Workers : Len(ops[w]) = 0 /\ MaxOps[w] \in Nat
  BY SnapshotAssumption DEF Init
<1>3. WithinBound
  <2>1. \A w \in Workers : 0 <= MaxOps[w]
    BY SnapshotAssumption
  <2> QED  BY <1>2, <2>1 DEF WithinBound
<1> QED  BY <1>1, <1>3 DEF TypeInv

\* No fetch_add, swap or ingest breaks the types: what is to take effect is
\* always an update of a call that was made.
LEMMA TypeStep == TypeInv /\ [Next]_vars => TypeInv'
<1> SUFFICES ASSUME TypeInv, [Next]_vars PROVE TypeInv'
  OBVIOUS
<1> USE SnapshotAssumption
<1>1. ASSUME NEW w \in Workers, NEW op \in Ops, BeginRecord(w, op)
      PROVE  TypeInv'
  <2> PICK n, S : n = NewCall(w) /\ S = NewUpdates(w, op)
    OBVIOUS
  <2>1. /\ n \in Nat /\ S \subseteq Nat \X (1..6)
        /\ Updates(w)' = Updates(w) \cup S
        /\ pending'[w] = pending[w] \cup S
        /\ \A v \in Workers : v # w =>
              Updates(v)' = Updates(v) /\ pending'[v] = pending[v]
        /\ ops' \in [Workers -> Seq(Ops)]
        /\ Len(ops'[w]) = n
    BY <1>1, UpdatesBegin
  <2>2. /\ pending \in [Workers -> SUBSET (Nat \X (1..6))]
        /\ pending' = [pending EXCEPT ![w] = pending[w] \cup S]
        /\ \A v \in Workers : pending[v] \subseteq Updates(v)
    BY <1>1 DEF TypeInv, TypeOK, BeginRecord, NewUpdates, NewCall
  <2>3. pending' \in [Workers -> SUBSET (Nat \X (1..6))]
    BY <2>1, <2>2
  <2>4. \A v \in Workers : pending'[v] \subseteq Updates(v)'
    BY <2>1, <2>2
  <2>5. TypeOK'
    BY <1>1, <2>1, <2>3, <2>4 DEF TypeInv, TypeOK, BeginRecord
  <2>6. Len(ops'[w]) <= MaxOps[w]
    BY <1>1, <2>1 DEF TypeInv, TypeOK, BeginRecord, NewCall
  <2>7. \A v \in Workers : v # w => ops'[v] = ops[v]
    BY <1>1 DEF TypeInv, TypeOK, BeginRecord
  <2>8. WithinBound'
    BY <2>6, <2>7 DEF TypeInv, WithinBound
  <2> QED  BY <2>5, <2>8 DEF TypeInv
<1>2. ASSUME NEW w \in Workers, NEW u \in Updates(w), UpdateCell(w, u)
      PROVE  TypeInv'
  <2>1. <<w, u[1]>> \in Samples /\ Target(w, u) \in Cells
    BY <1>2, UpdateType
  <2>2. /\ ops' = ops /\ pending' = [pending EXCEPT ![w] = pending[w] \ {u}]
        /\ live' = [live EXCEPT ![Target(w, u)] = @ \cup {<<w, u[1]>>}]
        /\ UNCHANGED <<todo, tick, totals, nticks>>
    BY <1>2 DEF UpdateCell
  <2>3. live' \in [Cells -> SUBSET Samples]
    BY <2>1, <2>2 DEF TypeInv, TypeOK
  <2>4. \A v : Updates(v)' = Updates(v)
    BY <2>2, UpdatesSame
  <2>5. /\ pending' \in [Workers -> SUBSET (Nat \X (1..6))]
        /\ \A v \in Workers : pending'[v] \subseteq Updates(v)'
    BY <2>2, <2>4 DEF TypeInv, TypeOK
  <2>6. TypeOK'
    BY <2>2, <2>3, <2>5 DEF TypeInv, TypeOK
  <2> QED  BY <2>2, <2>6 DEF TypeInv, WithinBound
<1>3. CASE BeginSwap
  <2>1. \A v : Updates(v)' = Updates(v)
    BY <1>3, UpdatesSame DEF BeginSwap
  <2> QED  BY <1>3, <2>1 DEF TypeInv, TypeOK, WithinBound, BeginSwap
<1>4. ASSUME NEW p \in Positions, SwapCell(p)
      PROVE  TypeInv'
  <2>1. \A v : Updates(v)' = Updates(v)
    BY <1>4, UpdatesSame DEF SwapCell
  <2>2. CellAt(p) \in Cells
    BY PositionType
  <2> QED  BY <1>4, <2>1, <2>2 DEF TypeInv, TypeOK, WithinBound, SwapCell
<1>5. CASE Ingest
  <2>1. \A v : Updates(v)' = Updates(v)
    BY <1>5, UpdatesSame DEF Ingest
  <2> QED  BY <1>5, <2>1 DEF TypeInv, TypeOK, WithinBound, Ingest
<1>6. CASE UNCHANGED vars
  <2>1. \A v : Updates(v)' = Updates(v)
    BY <1>6, UpdatesSame DEF vars
  <2> QED  BY <1>6, <2>1 DEF TypeInv, TypeOK, WithinBound, vars
<1> QED  BY <1>1, <1>2, <1>3, <1>4, <1>5, <1>6 DEF Next, WorkerNext, TickerNext

\* The inductive type invariant of the recorders and the ticker.
LEMMA Typing == Spec => []TypeInv
  BY TypeInit, TypeStep, PTL DEF Spec

\* Every variable keeps its type: in particular what is under way are updates
\* of calls that were made and swaps of cells there are, and no cell ever holds
\* more than the calls that were made.
THEOREM TypeCorrect == Spec => []TypeOK
<1>1. TypeInv => TypeOK
  BY DEF TypeInv
<1> QED  BY <1>1, Typing, PTL

-----------------------------------------------------------------------------
(* What the steps of a call do to Applied, the account of all updates. *)

\* Membership in Applied(k), before and after a step.
LEMMA AppliedMembers ==
    ASSUME NEW k
    PROVE  /\ \A x : x \in Applied(k) <=>
                \E v \in Workers : \E u \in Updates(v) \ pending[v] :
                    x = <<v, u[1]>> /\ Target(v, u) = k
           /\ \A x : x \in Applied(k)' <=>
                \E v \in Workers : \E u \in Updates(v)' \ pending'[v] :
                    x = <<v, u[1]>> /\ Target(v, u)' = k
  BY DEF Applied

\* Only calls that were made have updated a cell.
LEMMA AppliedIsSamples == TypeInv => \A k : Applied(k) \subseteq Samples
<1> SUFFICES ASSUME TypeInv, NEW k, NEW v \in Workers, NEW u \in Updates(v)
             PROVE  <<v, u[1]>> \in Samples
  BY AppliedMembers
<1> QED  BY UpdateType

\* A step of the ticker updates no cell on behalf of a recorder.
LEMMA AppliedSame ==
    ASSUME UNCHANGED <<ops, pending>>
    PROVE  \A k : Applied(k)' = Applied(k)
  BY DEF Applied, Updates, Calls, Target

\* Entering Recorder::record updates no cell yet.
LEMMA AppliedBegin ==
    ASSUME TypeInv, NEW w \in Workers, NEW op \in Ops, BeginRecord(w, op)
    PROVE  \A k : Applied(k)' = Applied(k)
<1> PICK S : S = NewUpdates(w, op)
  OBVIOUS
<1>1. /\ Updates(w)' = Updates(w) \cup S
      /\ pending'[w] = pending[w] \cup S
      /\ S \cap Updates(w) = {}
      /\ \A u \in Updates(w) : Target(w, u)' = Target(w, u)
  BY UpdatesBegin
<1>2. \A v \in Workers : v # w =>
         /\ Updates(v)' = Updates(v) /\ pending'[v] = pending[v]
         /\ \A u : Target(v, u)' = Target(v, u)
  BY UpdatesBegin
<1>3. Updates(w)' \ pending'[w] = Updates(w) \ pending[w]
  BY <1>1
<1>4. ASSUME NEW v \in Workers
      PROVE  /\ Updates(v)' \ pending'[v] = Updates(v) \ pending[v]
             /\ \A u \in Updates(v) \ pending[v] : Target(v, u)' = Target(v, u)
  BY <1>1, <1>2, <1>3
<1>5. ASSUME NEW k PROVE Applied(k)' = Applied(k)
  <2>1. \A x : x \in Applied(k)' <=> x \in Applied(k)
    BY <1>4, AppliedMembers
  <2> QED  BY <2>1
<1> QED  BY <1>5

\* One fetch_add or locked record adds the sample to the account of that cell,
\* and to no other.
LEMMA AppliedUpdate ==
    ASSUME TypeInv, NEW w \in Workers, NEW u \in Updates(w), UpdateCell(w, u)
    PROVE  /\ <<w, u[1]>> \notin Applied(Target(w, u))
           /\ \A k : Applied(k)' = IF k = Target(w, u)
                                  THEN Applied(k) \cup {<<w, u[1]>>}
                                  ELSE Applied(k)
<1> PICK c, n : c = Target(w, u) /\ n = u[1]
  OBVIOUS
<1>1. /\ u \in pending[w] /\ UNCHANGED ops
      /\ \A v \in Workers : pending'[v] = IF v = w THEN pending[w] \ {u} ELSE pending[v]
  BY DEF TypeInv, TypeOK, UpdateCell
<1>2. \A v : Updates(v)' = Updates(v) /\ \A x : Target(v, x)' = Target(v, x)
  BY <1>1, UpdatesSame
<1>3. \A v \in Workers : \A x : x \in Updates(v)' \ pending'[v]
          <=> x \in Updates(v) \ pending[v] \/ (v = w /\ x = u)
  BY <1>1, <1>2
<1>4. <<w, n>> \notin Applied(c)
  <2> SUFFICES ASSUME NEW x \in Updates(w) \ pending[w], x[1] = n, Target(w, x) = c
               PROVE  FALSE
    BY AppliedMembers
  <2>1. x = u
    BY UpdateUnique
  <2> QED  BY <1>1, <2>1
<1>5. \A k, y : y \in Applied(k)' <=> y \in Applied(k) \/ (k = c /\ y = <<w, n>>)
  <2> SUFFICES ASSUME NEW k, NEW y
               PROVE  y \in Applied(k)' <=>
                         y \in Applied(k) \/ (k = c /\ y = <<w, n>>)
    OBVIOUS
  <2>1. y \in Applied(k)' <=>
          \E v \in Workers : \E x \in Updates(v)' \ pending'[v] :
              y = <<v, x[1]>> /\ Target(v, x) = k
    BY <1>2, AppliedMembers
  <2>2. y \in Applied(k) <=>
          \E v \in Workers : \E x \in Updates(v) \ pending[v] :
              y = <<v, x[1]>> /\ Target(v, x) = k
    BY AppliedMembers
  <2>3. y \in Applied(k)' <=>
          \/ \E v \in Workers : \E x \in Updates(v) \ pending[v] :
              y = <<v, x[1]>> /\ Target(v, x) = k
          \/ y = <<w, u[1]>> /\ Target(w, u) = k
    BY ONLY <2>1, <1>3, w \in Workers, Zenon
  <2> QED  BY <2>2, <2>3
<1>6. Applied(c)' = Applied(c) \cup {<<w, n>>}
  BY <1>5
<1>7. \A k : k # c => Applied(k)' = Applied(k)
  BY <1>5
<1> QED  BY <1>4, <1>6, <1>7

-----------------------------------------------------------------------------
(* The account of every cell.  A swap overwrites what the tick holds of    *)
(* the cell, so the cells still to be swapped must be empty in it.         *)

TickFresh == \A p \in todo : tick[CellAt(p)] = {}

Account == NothingLost /\ NothingTwice /\ TickFresh

\* A new aggregator and an empty dashboard account for the empty set of updates.
LEMMA AccountInit == Init => Account
<1> SUFFICES ASSUME Init PROVE Account
  OBVIOUS
<1>1. (\A k \in Cells : live[k] = {} /\ tick[k] = {} /\ totals[k] = {}) /\ todo = {}
  BY DEF Init
<1>2. \A v \in Workers : Len(ops[v]) = 0
  BY DEF Init
<1>3. \A v \in Workers : \A u : u \notin Updates(v)
  BY <1>2, UpdatesMembers
<1>4. \A k : Applied(k) = {}
  <2>1. \A k : \A x : x \notin Applied(k)
    BY <1>3, AppliedMembers
  <2> QED  BY <2>1
<1> QED  BY <1>1, <1>4 DEF Account, NothingLost, NothingTwice, TickFresh

\* A swap takes the cell at its place and leaves the others as they are.
LEMMA SwapEffect ==
    ASSUME TypeInv, NEW p \in Positions, SwapCell(p)
    PROVE  /\ p \in todo /\ CellAt(p) \in Cells
           /\ tick'[CellAt(p)] = live[CellAt(p)] /\ live'[CellAt(p)] = {}
           /\ \A k \in Cells : k # CellAt(p) => tick'[k] = tick[k] /\ live'[k] = live[k]
           /\ todo' = todo \ {p} /\ totals' = totals
           /\ \A k : Applied(k)' = Applied(k)
<1>1. \A k : Applied(k)' = Applied(k)
  BY AppliedSame DEF SwapCell
<1>2. CellAt(p) \in Cells
  BY PositionType
<1> QED  BY <1>1, <1>2 DEF SwapCell, MaySwap, TypeInv, TypeOK

\* No step of a recorder, the sweep or the dashboard loses an update or doubles
\* one: a swap moves what the cell holds into a tick that took nothing from it yet.
LEMMA AccountStep == TypeInv /\ Account /\ [Next]_vars => Account'
<1> SUFFICES ASSUME TypeInv, Account, [Next]_vars PROVE Account'
  OBVIOUS
<1>0. /\ live \in [Cells -> SUBSET Samples]
      /\ tick \in [Cells -> SUBSET Samples]
      /\ totals \in [Cells -> SUBSET Samples]
      /\ todo \subseteq Positions
  BY DEF TypeInv, TypeOK
<1>1. ASSUME NEW w \in Workers, NEW op \in Ops, BeginRecord(w, op)
      PROVE  Account'
  <2>1. \A k : Applied(k)' = Applied(k)
    BY <1>1, AppliedBegin
  <2>2. UNCHANGED <<live, todo, tick, totals>>
    BY <1>1 DEF BeginRecord
  <2> QED  BY <2>1, <2>2
           DEF Account, NothingLost, NothingTwice, TickFresh
<1>2. ASSUME NEW w \in Workers, NEW u \in Updates(w), UpdateCell(w, u)
      PROVE  Account'
  <2>1. PICK n, c : n = u[1] /\ c = Target(w, u)
    OBVIOUS
  <2>2. /\ <<w, n>> \notin Applied(c)
        /\ Applied(c)' = Applied(c) \cup {<<w, n>>}
        /\ \A k : k # c => Applied(k)' = Applied(k)
    BY <1>2, <2>1, AppliedUpdate
  <2>3. c \in Cells
    BY <1>2, <2>1, UpdateType
  <2>4. /\ live' = [live EXCEPT ![c] = live[c] \cup {<<w, n>>}]
        /\ UNCHANGED <<todo, tick, totals>>
    BY <1>2, <2>1 DEF UpdateCell
  <2>5. /\ live'[c] = live[c] \cup {<<w, n>>}
        /\ \A k \in Cells : k # c => live'[k] = live[k]
    BY <1>0, <2>3, <2>4
  <2>6. NothingLost'
    BY <2>2, <2>4, <2>5 DEF Account, NothingLost
  <2>7. NothingTwice'
    BY <2>2, <2>3, <2>4, <2>5 DEF Account, NothingLost, NothingTwice
  <2>8. TickFresh'
    BY <2>4 DEF Account, TickFresh
  <2> QED  BY <2>6, <2>7, <2>8 DEF Account
<1>3. CASE BeginSwap
  <2>1. \A k : Applied(k)' = Applied(k)
    BY <1>3, AppliedSame DEF BeginSwap
  <2>2. /\ UNCHANGED <<live, tick, totals>> /\ \A k \in Cells : tick[k] = {}
        /\ todo' = Positions
    BY <1>3 DEF BeginSwap
  <2>3. TickFresh'
    BY <2>2, PositionType DEF TickFresh
  <2> QED  BY <2>1, <2>2, <2>3 DEF Account, NothingLost, NothingTwice
<1>4. ASSUME NEW p \in Positions, SwapCell(p)
      PROVE  Account'
  <2>1. PICK c : c = CellAt(p)
    OBVIOUS
  <2>2. /\ p \in todo /\ c \in Cells /\ tick'[c] = live[c] /\ live'[c] = {}
        /\ \A k \in Cells : k # c => tick'[k] = tick[k] /\ live'[k] = live[k]
        /\ todo' = todo \ {p} /\ totals' = totals
        /\ \A k : Applied(k)' = Applied(k)
    BY <1>4, <2>1, SwapEffect
  <2>3. tick[c] = {}
    BY <2>1, <2>2 DEF Account, TickFresh
  <2>4. NothingLost'
    BY <2>2, <2>3 DEF Account, NothingLost
  <2>5. NothingTwice'
    BY <2>2 DEF Account, NothingTwice
  <2>6. \A q \in todo' : CellAt(q) # c /\ CellAt(q) \in Cells
    BY <1>0, <2>1, <2>2, PositionType
  <2>7. TickFresh'
    BY <2>2, <2>6 DEF Account, TickFresh
  <2> QED  BY <2>4, <2>5, <2>7 DEF Account
<1>5. CASE Ingest
  <2>1. \A k : Applied(k)' = Applied(k)
    BY <1>5, AppliedSame DEF Ingest
  <2>2. /\ \A k \in Cells : totals'[k] = totals[k] \cup tick[k] /\ tick'[k] = {}
        /\ UNCHANGED <<live, todo>> /\ todo = {}
    BY <1>5 DEF Ingest, Swapping
  <2> QED  BY <2>1, <2>2 DEF Account, NothingLost, NothingTwice, TickFresh
<1>6. CASE UNCHANGED vars
  <2>1. \A k : Applied(k)' = Applied(k)
    BY <1>6, AppliedSame DEF vars
  <2> QED  BY <1>6, <2>1
           DEF vars, Account, NothingLost, NothingTwice, TickFresh
<1> QED  BY <1>1, <1>2, <1>3, <1>4, <1>5, <1>6 DEF Next, WorkerNext, TickerNext

\* The inductive accounting invariant: nothing lost, nothing twice, and the tick
\* under construction holds nothing of the cells the sweep has yet to swap.
LEMMA Accounting == Spec => [](TypeInv /\ Account)
<1>1. TypeInv /\ Account /\ [Next]_vars => (TypeInv /\ Account)'
  BY TypeStep, AccountStep
<1>2. Init => TypeInv /\ Account
  BY TypeInit, AccountInit
<1> QED  BY <1>1, <1>2, PTL DEF Spec

\* Whatever the interleaving of fetch_add, locked record and swap, the cell,
\* the tick under construction and the dashboard's totals hold between them
\* exactly the updates the recorders made to the cell.
THEOREM NoUpdateLost == Spec => []NothingLost
<1>1. Account => NothingLost
  BY DEF Account
<1> QED  BY <1>1, Accounting, PTL

\* ... and none of them is in two of the three.
THEOREM NoUpdateTwice == Spec => []NothingTwice
<1>1. Account => NothingTwice
  BY DEF Account
<1> QED  BY <1>1, Accounting, PTL

-----------------------------------------------------------------------------
(* The refinement: each cell is a Handoff of samples to the dashboard.     *)

\* A new aggregator is, at every cell, a new hand-over.
LEMMA FeedInit == Init => \A k \in Cells : Feed(k)!Init
<1> SUFFICES ASSUME Init, NEW k \in Cells PROVE Applied(k) = {} /\ totals[k] = {}
  BY DEF Feed!Init
<1>1. Account
  BY AccountInit
<1> QED  BY <1>1 DEF Init, Account, NothingLost

\* A fetch_add is a Put at its cell, an ingest a HandOver at every cell, and all
\* else a stutter.
LEMMA FeedStep ==
    ASSUME TypeInv, Account, [Next]_vars, NEW k \in Cells
    PROVE  [Feed(k)!Next]_<<Applied(k), totals[k]>>
<1>1. ASSUME NEW w \in Workers, NEW op \in Ops, BeginRecord(w, op)
      PROVE  UNCHANGED <<Applied(k), totals[k]>>
  BY <1>1, AppliedBegin DEF BeginRecord
<1>2. ASSUME NEW w \in Workers, NEW u \in Updates(w), UpdateCell(w, u)
      PROVE  [Feed(k)!Put]_<<Applied(k), totals[k]>>
  <2>1. PICK n, c : n = u[1] /\ c = Target(w, u)
    OBVIOUS
  <2>2. /\ <<w, n>> \notin Applied(c)
        /\ Applied(c)' = Applied(c) \cup {<<w, n>>}
        /\ \A j : j # c => Applied(j)' = Applied(j)
    BY <1>2, <2>1, AppliedUpdate
  <2>3. <<w, n>> \in Samples /\ totals' = totals
    BY <1>2, <2>1, UpdateType DEF UpdateCell
  <2>4. CASE k = c
    BY <2>2, <2>3, <2>4 DEF Feed!Put
  <2>5. CASE k # c
    BY <2>2, <2>3, <2>5
  <2> QED  BY <2>4, <2>5
<1>3. CASE BeginSwap \/ (\E p \in Positions : SwapCell(p)) \/ UNCHANGED vars
  <2>1. UNCHANGED <<ops, pending, totals>>
    BY <1>3 DEF BeginSwap, SwapCell, vars
  <2> QED  BY <2>1, AppliedSame
<1>4. CASE Ingest
  <2>1. Applied(k)' = Applied(k) /\ totals'[k] = totals[k] \cup tick[k]
    BY <1>4, AppliedSame DEF Ingest
  <2>2. tick[k] \in SUBSET (Applied(k) \ totals[k])
    BY DEF Account, NothingLost, NothingTwice
  <2>3. Feed(k)!HandOver
    BY <2>1, <2>2 DEF Feed!HandOver
  <2> QED  BY <2>3 DEF Feed!Next
<1> QED  BY <1>1, <1>2, <1>3, <1>4 DEF Next, WorkerNext, TickerNext, Feed!Next

\* Every execution of the recorders and the ticker is, for every cell, an
\* execution of the abstract hand-over.
THEOREM CellsImplementHandoff == Spec => EveryCellIsAFeed
<1>1. TypeInv /\ Account /\ [Next]_vars =>
         [\A k \in Cells : [Feed(k)!Next]_<<Applied(k), totals[k]>>]_vars
  BY FeedStep
<1> QED  BY <1>1, FeedInit, Accounting, PTL DEF Spec, EveryCellIsAFeed

-----------------------------------------------------------------------------
(* The lead of the request count over the histogram.  What orders the      *)
(* relaxed counters is the lock of the shard: a worker counts nothing that *)
(* comes after a lock before it has the lock, and the sweep has swapped    *)
(* the count when it lets go of a shard of the same scope.                 *)

Q(s) == Cell(s, "requests", 0)

L(s, w) == Cell(s, "latency", ShardOf[w])

QPos(s) == <<s, 1>>

LPos(s, w) == <<s, 3 + NumErrorKinds + ShardOf[w]>>

Taken(k) == tick[k] \cup totals[k]

\* No update has taken effect ahead of a lock that comes before it.
LocksFirst ==
    \A w \in Workers : \A u \in pending[w] : \A v \in Updates(w) :
        Locked(Target(w, u)) /\ Before(u, v) => v \in pending[w]

\* A swept shard of a scope whose count is still to be swapped stays empty.
ShardStaysEmpty ==
    \A s \in Scopes, w \in Workers :
        QPos(s) \in todo /\ LPos(s, w) \notin todo => live[L(s, w)] = {}

\* When a sweep has both or neither of the two, all that is counted is in the
\* histogram but the last.
LeadByOne ==
    \A s \in Scopes, w \in Workers :
        (QPos(s) \in todo <=> LPos(s, w) \in todo) =>
           \A m, n \in Nat :
              n < m /\ <<w, m>> \in Taken(Q(s)) /\ <<w, n>> \in Taken(Q(s))
                 => <<w, n>> \in Taken(L(s, w))

LeadInv == LocksFirst /\ ShardStaysEmpty /\ LeadByOne

\* Where the count and the shard of a scope are, in the sweep and among the cells.
LEMMA LeadPlaces ==
    ASSUME NEW s \in Scopes, NEW w \in Workers
    PROVE  /\ QPos(s) \in Positions /\ LPos(s, w) \in Positions
           /\ CellAt(QPos(s)) = Q(s) /\ CellAt(LPos(s, w)) = L(s, w)
           /\ Q(s) \in Cells /\ L(s, w) \in Cells /\ Q(s) # L(s, w)
           /\ Locked(L(s, w)) /\ ~Locked(Q(s))
           /\ Before(QPos(s), LPos(s, w))
<1> USE SnapshotAssumption
<1>1. ShardOf[w] \in 0..(NumShards - 1)
  OBVIOUS
<1> DEFINE i == 3 + NumErrorKinds + ShardOf[w]
<1>2. /\ 1 \in 1..Len(FieldOrder) /\ i \in 1..Len(FieldOrder)
      /\ FieldOrder[1] = <<"requests", 0>>
      /\ FieldOrder[i] = <<"latency", ShardOf[w]>>
  <2>1. 1 \in 1..Len(FieldOrder) /\ i \in 1..Len(FieldOrder)
    BY <1>1, FieldOrderShape
  <2>2. FieldOrder[1] = <<"requests", 0>>
    BY <2>1, FieldOrderShape
  <2>3. FieldOrder[i] = <<"latency", i - 3 - NumErrorKinds>>
    <3>1. i # 1 /\ i # 2 /\ ~(i <= 2 + NumErrorKinds)
      BY <1>1
    <3> HIDE DEF i
    <3> QED  BY <2>1, <3>1, FieldOrderShape
  <2>4. i - 3 - NumErrorKinds = ShardOf[w]
    BY <1>1
  <2> QED  BY <2>1, <2>2, <2>3, <2>4
<1>3. QPos(s) = <<s, 1>> /\ LPos(s, w) = <<s, i>>
  BY DEF QPos, LPos
<1>4. i > 1
  BY <1>1
<1>5. Before(QPos(s), LPos(s, w))
  BY <1>3, <1>4 DEF Before
<1> HIDE DEF i
<1>6. QPos(s) \in Positions /\ LPos(s, w) \in Positions
  BY <1>2, <1>3 DEF Positions
<1>7. CellAt(QPos(s)) = Q(s) /\ CellAt(LPos(s, w)) = L(s, w)
  BY <1>2, <1>3 DEF CellAt, Q, L, Cell
<1>8. Q(s) \in Cells /\ L(s, w) \in Cells
  BY <1>1, CellType DEF Q, L
<1>9. Locked(L(s, w)) /\ ~Locked(Q(s)) /\ Q(s) # L(s, w)
  BY DEF Locked, Q, L, Cell
<1> QED  BY <1>5, <1>6, <1>7, <1>8, <1>9

\* A call that counts a request of a scope also records in its histogram.
LEMMA CountedIsRecorded ==
    ASSUME NEW w \in Workers, NEW op \in Ops, NEW s \in Scopes,
           NEW i \in 1..Len(CellsOf(w, op)), CellsOf(w, op)[i] = Q(s)
    PROVE  \E j \in 1..Len(CellsOf(w, op)) : CellsOf(w, op)[j] = L(s, w)
<1> USE SnapshotAssumption
<1>1. op.sid \in Nat
  BY DEF Ops
<1> DEFINE t == op.sid
           q1 == Q(0)       q2 == Cell(0, "bytes", 0)       q3 == L(0, w)
           q4 == Q(t + 1)   q5 == Cell(t + 1, "bytes", 0)   q6 == L(t + 1, w)
           e1 == Cell(0, "errors", op.err)   e2 == Cell(t + 1, "errors", op.err)
<1>2. CellsOf(w, op) = IF op.kind = "record"
                       THEN IF t < NumScenarios THEN <<q1, q2, q3, q4, q5, q6>>
                                                ELSE <<q1, q2, q3>>
                       ELSE IF t < NumScenarios THEN <<e1, e2>> ELSE <<e1>>
  BY DEF CellsOf, RecordCells, ErrorCells, Q, L
<1>3. /\ q2 # Q(s) /\ q3 # Q(s) /\ q5 # Q(s) /\ q6 # Q(s)
      /\ e1 # Q(s) /\ e2 # Q(s)
  BY DEF Cell, Q, L
<1>4. (q1 = Q(s) => q3 = L(s, w)) /\ (q4 = Q(s) => q6 = L(s, w))
  BY DEF Cell, Q, L
<1> HIDE DEF q1, q2, q3, q4, q5, q6, e1, e2, t
<1>5. CASE op.kind = "record" /\ t < NumScenarios
  <2> DEFINE r == <<q1, q2, q3, q4, q5, q6>>
  <2>1. CellsOf(w, op) = r
    BY <1>2, <1>5
  <2>2. Len(r) = 6 /\ r[3] = q3 /\ r[6] = q6 /\ 3 \in 1..6 /\ 6 \in 1..6
    OBVIOUS
  <2>3. \A k \in 1..6 : r[k] = Q(s) => r[k] = q1 \/ r[k] = q4
    BY <1>3
  <2> HIDE DEF r
  <2>4. Q(s) = q1 \/ Q(s) = q4
    BY <2>1, <2>2, <2>3
  <2>5. r[3] = L(s, w) \/ r[6] = L(s, w)
    BY <1>4, <2>2, <2>4
  <2>6. \E j \in 1..6 : r[j] = L(s, w)
    BY <2>2, <2>5
  <2> QED  BY <2>1, <2>2, <2>6
<1>6. CASE op.kind = "record" /\ ~(t < NumScenarios)
  <2> DEFINE r == <<q1, q2, q3>>
  <2>1. CellsOf(w, op) = r
    BY <1>2, <1>6
  <2>2. Len(r) = 3 /\ r[3] = q3 /\ 3 \in 1..3
    OBVIOUS
  <2>3. \A k \in 1..3 : r[k] = Q(s) => r[k] = q1
    BY <1>3
  <2> HIDE DEF r
  <2>4. r[3] = L(s, w)
    BY <1>4, <2>1, <2>2, <2>3
  <2>5. \E j \in 1..3 : r[j] = L(s, w)
    BY <2>2, <2>4
  <2> QED  BY <2>1, <2>2, <2>5
<1>7. CASE op.kind # "record"
  <2>1. CASE t < NumScenarios
    <3> DEFINE r == <<e1, e2>>
    <3>1. CellsOf(w, op) = r
      BY <1>2, <1>7, <2>1
    <3>2. Len(r) = 2 /\ \A k \in 1..2 : r[k] # Q(s)
      BY <1>3
    <3> HIDE DEF r
    <3> QED  BY <3>1, <3>2
  <2>2. CASE ~(t < NumScenarios)
    <3> DEFINE r == <<e1>>
    <3>1. CellsOf(w, op) = r
      BY <1>2, <1>7, <2>2
    <3>2. Len(r) = 1 /\ \A k \in 1..1 : r[k] # Q(s)
      BY <1>3
    <3> HIDE DEF r
    <3> QED  BY <3>1, <3>2
  <2> QED  BY <2>1, <2>2
<1> QED  BY <1>5, <1>6, <1>7

\* A worker that has counted a later sample has recorded the earlier one.
LEMMA EarlierIsRecorded ==
    ASSUME TypeInv, LocksFirst, NEW s \in Scopes, NEW w \in Workers,
           NEW m \in Nat, NEW n \in Nat, n < m,
           <<w, m>> \in Applied(Q(s)), <<w, n>> \in Applied(Q(s))
    PROVE  <<w, n>> \in Applied(L(s, w))
<1>1. PICK u \in Updates(w) \ pending[w] : u[1] = m /\ Target(w, u) = Q(s)
  BY AppliedMembers
<1>2. PICK v \in Updates(w) \ pending[w] : v[1] = n /\ Target(w, v) = Q(s)
  BY AppliedMembers
<1>3. /\ ops[w][n] \in Ops /\ n \in 1..Len(ops[w])
      /\ v[2] \in 1..Len(CellsOf(w, ops[w][n]))
      /\ CellsOf(w, ops[w][n])[v[2]] = Q(s)
  BY <1>2, UpdateType DEF Target
<1>4. PICK j \in 1..Len(CellsOf(w, ops[w][n])) : CellsOf(w, ops[w][n])[j] = L(s, w)
  BY <1>3, CountedIsRecorded
<1>5. PICK x : x = <<n, j>>
  OBVIOUS
<1>6. x \in Updates(w) /\ Target(w, x) = L(s, w) /\ x[1] = n
  BY <1>3, <1>4, <1>5, UpdatesMembers DEF Target
<1>7. x \notin pending[w]
  <2> SUFFICES ASSUME x \in pending[w] PROVE FALSE
    OBVIOUS
  <2>1. Locked(Target(w, x)) /\ Before(x, u)
    BY <1>1, <1>6, LeadPlaces DEF Before
  <2> QED  BY <1>1, <2>1 DEF LocksFirst
<1> QED  BY <1>6, <1>7, AppliedMembers

\* Nothing is counted before the first call.
LEMMA LeadInit == Init => LeadInv
<1> SUFFICES ASSUME Init PROVE LeadInv
  OBVIOUS
<1>1. LocksFirst /\ ShardStaysEmpty
  BY DEF Init, LocksFirst, ShardStaysEmpty
<1>2. \A k \in Cells : Taken(k) = {}
  BY DEF Init, Taken
<1>3. LeadByOne
  BY <1>2, LeadPlaces DEF LeadByOne
<1> QED  BY <1>1, <1>3 DEF LeadInv

\* A call begins behind the locks of the calls before it, and an update that
\* takes effect leaves no lock before it.
LEMMA LocksFirstStep ==
    ASSUME TypeInv, LocksFirst, [Next]_vars
    PROVE  LocksFirst'
<1>1. ASSUME NEW w \in Workers, NEW op \in Ops, BeginRecord(w, op)
      PROVE  LocksFirst'
  <2> PICK n, S : n = NewCall(w) /\ S = NewUpdates(w, op)
    OBVIOUS
  <2>1. /\ Updates(w)' = Updates(w) \cup S
        /\ pending'[w] = pending[w] \cup S
        /\ \A u \in Updates(w) : Target(w, u)' = Target(w, u)
        /\ n \in Nat
    BY <1>1, UpdatesBegin
  <2>2. \A v \in Workers : v # w =>
           /\ Updates(v)' = Updates(v) /\ pending'[v] = pending[v]
           /\ \A u : Target(v, u)' = Target(v, u)
    BY <1>1, UpdatesBegin
  <2>3. \A u \in pending[w] : ~Locked(Target(w, u)) /\ u \in Updates(w)
    BY <1>1 DEF BeginRecord, BetweenCalls, TypeInv, TypeOK
  <2>4. ASSUME NEW u \in S, NEW v \in Updates(w) PROVE ~Before(u, v)
    <3>1. u[1] = n /\ n = Len(ops[w]) + 1
      BY DEF NewUpdates, NewCall
    <3>2. v[1] \in 1..Len(ops[w])
      BY UpdateType
    <3>3. Len(ops[w]) \in Nat
      BY DEF TypeInv, TypeOK
    <3> QED  BY <3>1, <3>2, <3>3 DEF Before
  <2>5. ASSUME NEW u \in pending'[w], NEW v \in Updates(w)',
               Locked(Target(w, u))', Before(u, v)
        PROVE  v \in pending'[w]
    <3>1. u \in S
      BY <2>1, <2>3, <2>5 DEF Locked
    <3>2. v \in S
      BY <2>1, <2>4, <2>5, <3>1
    <3> QED  BY <2>1, <3>2
  <2>6. \A v \in Workers : v # w =>
           \A x \in pending'[v] : \A y \in Updates(v)' :
              Locked(Target(v, x))' /\ Before(x, y) => y \in pending'[v]
    BY <2>2 DEF LocksFirst, Locked
  <2> QED  BY <2>5, <2>6 DEF LocksFirst, Before
<1>2. ASSUME NEW w \in Workers, NEW u \in Updates(w), UpdateCell(w, u)
      PROVE  LocksFirst'
  <2>1. /\ UNCHANGED ops
        /\ \A v \in Workers : pending'[v] = IF v = w THEN pending[w] \ {u} ELSE pending[v]
        /\ \A x \in pending[w] : Before(x, u) => ~Locked(Target(w, x))
    BY <1>2 DEF UpdateCell, TypeInv, TypeOK
  <2>2. \A v : Updates(v)' = Updates(v) /\ \A x : Target(v, x)' = Target(v, x)
    BY <2>1, UpdatesSame
  <2> QED  BY <2>1, <2>2 DEF LocksFirst, Locked, Before
<1>3. CASE UNCHANGED <<ops, pending>>
  BY <1>3, UpdatesSame DEF LocksFirst, Locked, Before
<1>4. CASE BeginSwap \/ (\E p \in Positions : SwapCell(p)) \/ Ingest \/ UNCHANGED vars
  BY <1>3, <1>4 DEF BeginSwap, SwapCell, Ingest, vars
<1> QED  BY <1>1, <1>2, <1>4 DEF Next, WorkerNext, TickerNext

\* A sweep has a count, and with it whatever the shard of a worker held then: the
\* recorders and the dashboard change nothing of it, and the shard is as empty as
\* the swap of the two has left it once both are in the tick.
LEMMA LeadStep ==
    ASSUME TypeInv, Account, Account', LeadInv, [Next]_vars
    PROVE  LeadInv'
<1>0. LocksFirst /\ ShardStaysEmpty /\ LeadByOne
  BY DEF LeadInv
<1>1. LocksFirst'
  BY <1>0, LocksFirstStep
<1>2. ASSUME NEW w \in Workers, NEW op \in Ops, BeginRecord(w, op)
      PROVE  ShardStaysEmpty' /\ LeadByOne'
  BY <1>0, <1>2 DEF BeginRecord, ShardStaysEmpty, LeadByOne, Taken, L, Q, Cell
<1>3. ASSUME NEW v \in Workers, NEW u \in Updates(v), UpdateCell(v, u)
      PROVE  ShardStaysEmpty' /\ LeadByOne'
  <2>1. PICK k : k = Target(v, u)
    OBVIOUS
  <2>2. /\ \A c \in Cells : c # k => live'[c] = live[c]
        /\ UNCHANGED <<todo, tick, totals>>
        /\ Locked(k) => ~TickerHolds(k)
    BY <1>3, <2>1 DEF UpdateCell, TypeInv, TypeOK
  <2>3. LeadByOne'
    BY <1>0, <2>2 DEF LeadByOne, Taken, L, Q, Cell
  <2>4. ASSUME NEW s \in Scopes, NEW w \in Workers,
               QPos(s) \in todo, LPos(s, w) \notin todo
        PROVE  live'[L(s, w)] = {}
    <3>1. TickerHolds(L(s, w))
      BY <2>4, LeadPlaces DEF TickerHolds
    <3>2. L(s, w) # k /\ L(s, w) \in Cells
      BY <2>2, <3>1, LeadPlaces
    <3> QED  BY <1>0, <2>2, <2>4, <3>2 DEF ShardStaysEmpty
  <2>5. ShardStaysEmpty'
    BY <2>2, <2>4 DEF ShardStaysEmpty, L, Cell
  <2> QED  BY <2>3, <2>5
<1>4. CASE BeginSwap
  <2>1. todo' = Positions /\ todo = {} /\ UNCHANGED <<tick, totals>>
    BY <1>4 DEF BeginSwap, Swapping
  <2>2. ShardStaysEmpty'
    BY <2>1, LeadPlaces DEF ShardStaysEmpty
  <2>3. \A s \in Scopes, w \in Workers :
           /\ Taken(Q(s))' = Taken(Q(s)) /\ Taken(L(s, w))' = Taken(L(s, w))
           /\ QPos(s) \notin todo /\ LPos(s, w) \notin todo
    BY <2>1 DEF Taken, L, Q, Cell
  <2>4. LeadByOne'
    BY <1>0, <2>3 DEF LeadByOne
  <2> QED  BY <1>1, <2>2, <2>4 DEF LeadInv
<1>5. ASSUME NEW p \in Positions, SwapCell(p)
      PROVE  ShardStaysEmpty' /\ LeadByOne'
  <2>1. PICK c : c = CellAt(p)
    OBVIOUS
  <2>2. /\ p \in todo /\ live'[c] = {}
        /\ \A k \in Cells : k # c => tick'[k] = tick[k] /\ live'[k] = live[k]
        /\ todo' = todo \ {p} /\ totals' = totals
        /\ \A k : Applied(k)' = Applied(k)
    BY <1>5, <2>1, SwapEffect
  <2>3. ASSUME NEW s \in Scopes, NEW w \in Workers
        PROVE  /\ p # QPos(s) => Q(s) # c
               /\ p # LPos(s, w) => L(s, w) # c
    BY <2>1, LeadPlaces, PositionType
  <2>4. ASSUME NEW s \in Scopes, NEW w \in Workers, LPos(s, w) \notin todo',
               QPos(s) \in todo \/ p = LPos(s, w)
        PROVE  live'[L(s, w)] = {}
    <3>1. CASE p = LPos(s, w)
      BY <2>1, <2>2, <3>1, LeadPlaces
    <3>2. CASE p # LPos(s, w)
      BY <1>0, <2>2, <2>3, <2>4, <3>2, LeadPlaces DEF ShardStaysEmpty
    <3> QED  BY <3>1, <3>2
  <2>5. ShardStaysEmpty'
    BY <2>2, <2>4 DEF ShardStaysEmpty, L, Cell
  <2>6. ASSUME NEW s \in Scopes, NEW w \in Workers,
               QPos(s) \in todo' <=> LPos(s, w) \in todo',
               NEW m \in Nat, NEW n \in Nat, n < m,
               <<w, m>> \in Taken(Q(s))', <<w, n>> \in Taken(Q(s))'
        PROVE  <<w, n>> \in Taken(L(s, w))'
    <3>1. CASE p # QPos(s) /\ p # LPos(s, w)
      <4>1. Taken(Q(s))' = Taken(Q(s)) /\ Taken(L(s, w))' = Taken(L(s, w))
        BY <2>2, <2>3, <3>1, LeadPlaces DEF Taken, Q, L, Cell
      <4>2. QPos(s) \in todo <=> LPos(s, w) \in todo
        BY <2>2, <2>6, <3>1
      <4> QED  BY <1>0, <2>6, <4>1, <4>2 DEF LeadByOne
    <3>2. CASE p = QPos(s) \/ p = LPos(s, w)
      <4>1. live'[L(s, w)] = {}
        BY <2>2, <2>4, <2>6, <3>2
      <4>2. \A k \in Cells : live'[k] \cup tick'[k] \cup totals'[k] = Applied(k)
        BY <2>2 DEF Account, NothingLost
      <4>3. Q(s) \in Cells /\ L(s, w) \in Cells
        BY LeadPlaces
      <4>4. Taken(Q(s))' = tick'[Q(s)] \cup totals'[Q(s)]
        BY DEF Taken, Q, Cell
      <4>5. Taken(L(s, w))' = tick'[L(s, w)] \cup totals'[L(s, w)]
        BY DEF Taken, L, Cell
      <4>6. <<w, m>> \in Applied(Q(s)) /\ <<w, n>> \in Applied(Q(s))
        BY <2>6, <4>2, <4>3, <4>4
      <4>7. <<w, n>> \in Applied(L(s, w))
        BY <1>0, <2>6, <4>6, EarlierIsRecorded
      <4> QED  BY <4>1, <4>2, <4>3, <4>5, <4>7
    <3> QED  BY <3>1, <3>2
  <2>7. LeadByOne'
    BY <2>6 DEF LeadByOne, Taken, Q, L, Cell
  <2> QED  BY <2>5, <2>7
<1>6. CASE Ingest
  <2>1. /\ \A k \in Cells : totals'[k] = totals[k] \cup tick[k] /\ tick'[k] = {}
        /\ UNCHANGED <<live, todo>>
    BY <1>6 DEF Ingest
  <2>2. \A k \in Cells : tick'[k] \cup totals'[k] = Taken(k)
    BY <2>1 DEF Taken
  <2>3. ShardStaysEmpty'
    BY <1>0, <2>1 DEF ShardStaysEmpty, L, Cell
  <2>4. \A s \in Scopes, w \in Workers :
           /\ Taken(Q(s))' = Taken(Q(s)) /\ Taken(L(s, w))' = Taken(L(s, w))
    BY <2>2, LeadPlaces DEF Taken, Q, L, Cell
  <2>5. LeadByOne'
    BY <1>0, <2>1, <2>4 DEF LeadByOne
  <2> QED  BY <1>1, <2>3, <2>5 DEF LeadInv
<1>7. CASE UNCHANGED vars
  <2>1. UNCHANGED <<live, todo, tick, totals>>
    BY <1>7 DEF vars
  <2>2. \A s \in Scopes, w \in Workers :
           /\ Taken(Q(s))' = Taken(Q(s)) /\ Taken(L(s, w))' = Taken(L(s, w))
           /\ live'[L(s, w)] = live[L(s, w)]
    BY <2>1 DEF Taken, L, Q, Cell
  <2>3. ShardStaysEmpty'
    BY <1>0, <2>1, <2>2 DEF ShardStaysEmpty, L, Cell
  <2>4. LeadByOne'
    BY <1>0, <2>1, <2>2 DEF LeadByOne
  <2> QED  BY <1>1, <2>3, <2>4 DEF LeadInv
<1> QED  BY <1>1, <1>2, <1>3, <1>4, <1>5, <1>6, <1>7
         DEF Next, WorkerNext, TickerNext, LeadInv

\* Between two ticks all that was swapped is in the totals.
LEMMA LeadBetweenTicks == LeadInv => RequestsLeadByOne
<1> SUFFICES ASSUME LeadInv, todo = {}, \A k \in Cells : tick[k] = {},
                    NEW s \in Scopes, NEW w \in Workers,
                    NEW m \in Ahead(s, w), NEW n \in Ahead(s, w)
             PROVE  m = n
  <2>1. ASSUME tick = [k \in Cells |-> {}] PROVE \A k \in Cells : tick[k] = {}
    BY <2>1
  <2> QED  BY <2>1 DEF RequestsLeadByOne, Swapping
<1>1. /\ \A i \in Ahead(s, w) : /\ i \in Nat
                               /\ <<w, i>> \in totals[Q(s)]
                               /\ <<w, i>> \notin totals[L(s, w)]
  BY DEF Ahead, Calls, Q, L
<1>2. Taken(Q(s)) = totals[Q(s)] /\ Taken(L(s, w)) = totals[L(s, w)]
  BY LeadPlaces DEF Taken
<1>3. \A i, j \in Nat :
         j < i /\ <<w, i>> \in Taken(Q(s)) /\ <<w, j>> \in Taken(Q(s))
            => <<w, j>> \in Taken(L(s, w))
  BY DEF LeadInv, LeadByOne
<1>4. m \in Nat /\ n \in Nat /\ ~(m < n) /\ ~(n < m)
  BY <1>1, <1>2, <1>3
<1> QED  BY <1>4

\* Between two ticks the requests of the dashboard, in all and of each scenario,
\* are ahead of the latencies behind its percentiles by at most one sample of
\* each worker, though no counter is ordered with any other.
THEOREM RequestLeadBounded == Spec => []RequestsLeadByOne
<1>1. Init => TypeInv /\ Account /\ LeadInv
  BY TypeInit, AccountInit, LeadInit
<1>2. TypeInv /\ Account /\ LeadInv /\ [Next]_vars
         => (TypeInv /\ Account /\ LeadInv)'
  BY TypeStep, AccountStep, LeadStep
<1> QED  BY <1>1, <1>2, LeadBetweenTicks, PTL DEF Spec

-----------------------------------------------------------------------------
(* A run with the dashboard. *)

\* A step of any thread of the run is a step of the aggregator or leaves it
\* alone.
LEMMA RunStepIsLiveStep == [RunNext]_allVars => [Next]_vars
<1> SUFFICES ASSUME [RunNext]_allVars PROVE [Next]_vars
  OBVIOUS
<1>1. CASE UNCHANGED allVars
  BY <1>1 DEF allVars
<1>2. CASE Timer \/ MainThread
  BY <1>2 DEF Timer, MainThread, MainJoinWorkers, MainStop, MainReport
<1>3. ASSUME NEW w \in Workers, WorkerThread(w)
      PROVE  [Next]_vars
  BY <1>3 DEF WorkerThread, WorkerLoopHead, WorkerRecord, WorkerUpdate,
              WorkerBatchEnd, Next, WorkerNext
<1>4. CASE TuiThread
  <2>1. CASE TuiFinalTick \/ TuiSecondElapsed
    BY <2>1 DEF TuiFinalTick, TuiSecondElapsed, Next, TickerNext
  <2>2. CASE TuiFinalSwap \/ TuiSwap
    BY <2>2 DEF TuiFinalSwap, TuiSwap, Next, TickerNext
  <2>3. CASE TuiFinalIngest \/ TuiIngest
    BY <2>3 DEF TuiFinalIngest, TuiIngest, Next, TickerNext
  <2>4. CASE \/ TuiQuit \/ TuiNoFinalTick \/ (\E q \in BOOLEAN : TuiKeys(q))
             \/ TuiError \/ TuiNotDue \/ TuiRender
    BY <2>4 DEF TuiQuit, TuiNoFinalTick, TuiKeys, TuiError, TuiNotDue, TuiRender
  <2> QED  BY <1>4, <2>1, <2>2, <2>3, <2>4 DEF TuiThread
<1> QED  BY <1>1, <1>2, <1>3, <1>4 DEF RunNext

\* Workers, dashboard and main thread use the aggregator as it is specified:
\* what is proved of LiveSnapshot holds in the run.
LEMMA RunUsesLiveSnapshot == RunSpec => Spec
<1>1. RunInit => Init
  BY DEF RunInit
<1> QED  BY <1>1, RunStepIsLiveStep, PTL DEF RunSpec, Spec

\* With the stop flag, the timer, the keys and the errors of run_tui around it,
\* the accounting of the cells still holds: however early the dashboard leaves,
\* what it never ingested is still in the cells, and nothing is in both.
THEOREM RunAccountsForAll == RunSpec => [](NothingLost /\ NothingTwice)
  BY RunUsesLiveSnapshot, NoUpdateLost, NoUpdateTwice, PTL

\* Once the final tick is in, the dashboard's loop is past it, and it takes
\* no other.
DoneTicking == run_completed => tui \notin {"final", "swapping"}

\* run_tui takes no tick after the one that completes the run.
LEMMA DoneTickingInvariant == RunSpec => []DoneTicking
<1>1. RunInit => DoneTicking
  BY DEF RunInit, DoneTicking
<1>2. DoneTicking /\ [RunNext]_allVars => DoneTicking'
  <2> SUFFICES ASSUME DoneTicking, [RunNext]_allVars PROVE DoneTicking'
    OBVIOUS
  <2>1. CASE UNCHANGED allVars
    BY <2>1 DEF allVars, runVars, DoneTicking
  <2>2. CASE Timer \/ MainThread
    BY <2>2 DEF Timer, MainThread, MainJoinWorkers, MainStop, MainReport,
                DoneTicking
  <2>3. ASSUME NEW w \in Workers, WorkerThread(w)
        PROVE  DoneTicking'
    BY <2>3 DEF WorkerThread, WorkerLoopHead, WorkerRecord, WorkerUpdate,
                WorkerBatchEnd, runVars, DoneTicking
  <2>4. CASE TuiThread
    BY <2>4 DEF TuiThread, TuiQuit, TuiFinalTick, TuiNoFinalTick, TuiFinalSwap,
                TuiFinalIngest, TuiKeys, TuiError, TuiSecondElapsed, TuiSwap,
                TuiIngest, TuiNotDue, TuiRender, runVars, DoneTicking
  <2> QED  BY <2>1, <2>2, <2>3, <2>4 DEF RunNext
<1> QED  BY <1>1, <1>2, PTL DEF RunSpec

\* The numbers of a finished run stay what they are while they are inspected.
THEOREM TotalsFrozen == RunSpec => FrozenAfterCompletion
<1>1. DoneTicking /\ [RunNext]_allVars
         => [run_completed => UNCHANGED totals]_allVars
  <2> SUFFICES ASSUME DoneTicking, RunNext, run_completed
               PROVE  UNCHANGED totals
    OBVIOUS
  <2>1. CASE Timer \/ MainThread
    BY <2>1 DEF Timer, MainThread, MainJoinWorkers, MainStop, MainReport, vars
  <2>2. ASSUME NEW w \in Workers, WorkerThread(w)
        PROVE  UNCHANGED totals
    BY <2>2 DEF WorkerThread, WorkerLoopHead, WorkerRecord, WorkerUpdate,
                WorkerBatchEnd, BeginRecord, UpdateCell, vars
  <2>3. CASE TuiThread
    BY <2>3 DEF TuiThread, TuiQuit, TuiFinalTick, TuiNoFinalTick, TuiFinalSwap,
                TuiFinalIngest, TuiKeys, TuiError, TuiSecondElapsed, TuiSwap,
                TuiIngest, TuiNotDue, TuiRender, BeginSwap, DoneTicking, vars
  <2> QED  BY <2>1, <2>2, <2>3 DEF RunNext
<1> QED  BY <1>1, DoneTickingInvariant, PTL DEF RunSpec, FrozenAfterCompletion

=============================================================================
