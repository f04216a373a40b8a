---------------------------- MODULE LiveSnapshot ----------------------------
(***************************************************************************)
(* The live aggregator shared by the worker threads and the ticker         *)
(* (zerobench-runtime/src/live_snapshot.rs) together with the recorder     *)
(* that feeds it (zerobench-runtime/src/recorder.rs) and the dashboard     *)
(* totals that drain it (zerobench-tui/src/state.rs, ingest).              *)
(*                                                                         *)
(* The aggregator is an array of independent cells: one atomic counter     *)
(* for requests, one for bytes and one per error kind, and one             *)
(* mutex-protected histogram per shard, repeated for the aggregate         *)
(* (scope 0) and for every scenario (scope sid + 1).  A worker's           *)
(* Recorder::record and the ticker's swap_and_snapshot touch the cells one *)
(* by one and take no lock across them, so one step of the model is one    *)
(* fetch_add, one swap or one locked shard access becoming visible.        *)
(*                                                                         *)
(* The counters are accessed with Ordering::Relaxed, which orders accesses *)
(* to one counter and nothing else: those of one thread take effect in any *)
(* order.  What does order them is the lock of a shard.  An access that    *)
(* comes after a locked section in the program cannot take effect before   *)
(* the lock is acquired, and one that comes before it takes effect before  *)
(* the lock is released; it may slip inside from either side.  A locked    *)
(* section is one step here, the acquisition: the thread holds the lock    *)
(* until every access that comes before the section has taken effect.      *)
(*                                                                         *)
(* A cell is modelled by the set of the samples that contributed to it.    *)
(* The value of a counter or the length of a histogram is the cardinality  *)
(* of that set (for bytes, the sum of the sizes of its samples): this says *)
(* how much a cell holds and also whose contribution it is.  bytes_sent    *)
(* and bytes_recv follow the same protocol side by side; they are one cell *)
(* here.                                                                   *)
(***************************************************************************)
EXTENDS Naturals, Sequences

CONSTANTS Workers,        \* the worker threads
          NumShards,      \* LATENCY_SHARDS
          NumScenarios,   \* plan.scenarios.len()
          NumErrorKinds,  \* the variants of ErrorKind
          ShardOf,        \* pick_shard: the fixed shard of each thread
          Sids,           \* the scenario ids the workers record under
          MaxOps,         \* bound: samples and errors a worker records
          MaxTicks        \* bound: snapshots the ticker takes

ASSUME SnapshotAssumption ==
    /\ NumShards \in Nat \ {0}
    /\ NumScenarios \in Nat
    /\ NumErrorKinds \in Nat \ {0}
    /\ ShardOf \in [Workers -> 0..(NumShards - 1)]
    /\ Sids \subseteq Nat
    /\ MaxOps \in [Workers -> Nat]
    /\ MaxTicks \in Nat

VARIABLES ops,     \* ops[w]: the record / record_error calls of w so far
          pending, \* pending[w]: their updates that have no effect yet
          live,    \* live[k]: what cell k holds
          todo,    \* the cells, by position, the snapshot has yet to swap
          tick,    \* tick[k]: what the LiveTick under construction took
          totals,  \* totals[k]: what the consumer has folded in
          nticks   \* snapshots begun

vars == <<ops, pending, live, todo, tick, totals, nticks>>

-----------------------------------------------------------------------------
\* One call of the recorder: a completed sample or an error of one kind.
Ops == [kind : {"record"}, sid : Sids, err : {0}]
         \cup [kind : {"error"}, sid : Sids, err : 1..NumErrorKinds]

Scopes == 0..NumScenarios

Fields == ({"requests", "bytes"} \X {0})
            \cup ({"errors"} \X (1..NumErrorKinds))
            \cup ({"latency"} \X (0..(NumShards - 1)))

Cells == Scopes \X Fields

\* Sample <<w, n>> is the n-th call of worker w.
Samples == UNION { {w} \X (1..MaxOps[w]) : w \in Workers }

Cell(scope, name, i) == <<scope, <<name, i>>>>

\* The cells one call updates, in program order.  record_scenario and
\* record_scenario_error ignore an id that has no slot.
RecordCells(w, sid) ==
    IF sid < NumScenarios
    THEN << Cell(0, "requests", 0), Cell(0, "bytes", 0),
            Cell(0, "latency", ShardOf[w]),
            Cell(sid + 1, "requests", 0), Cell(sid + 1, "bytes", 0),
            Cell(sid + 1, "latency", ShardOf[w]) >>
    ELSE << Cell(0, "requests", 0), Cell(0, "bytes", 0),
            Cell(0, "latency", ShardOf[w]) >>

ErrorCells(sid, err) ==
    IF sid < NumScenarios
    THEN << Cell(0, "errors", err), Cell(sid + 1, "errors", err) >>
    ELSE << Cell(0, "errors", err) >>

CellsOf(w, op) ==
    IF op.kind = "record" THEN RecordCells(w, op.sid)
                          ELSE ErrorCells(op.sid, op.err)

\* A wrong FieldOrder: the histograms are taken before the counters.
LatencyFirst ==
    [s \in 1..NumShards |-> <<"latency", s - 1>>]
      \o << <<"requests", 0>>, <<"bytes", 0>> >>
      \o [e \in 1..NumErrorKinds |-> <<"errors", e>>]

\* The order in which swap_and_snapshot visits the cells of one scope:
\* the counters, swap_all over the error kinds, merge_shards.
FieldOrder ==
    << <<"requests", 0>>, <<"bytes", 0>> >>
      \o [e \in 1..NumErrorKinds |-> <<"errors", e>>]
      \o [s \in 1..NumShards |-> <<"latency", s - 1>>]

\* Accesses are numbered in program order: <<n, i>> is the i-th update of the
\* n-th call of a worker, <<scope, i>> the i-th swap of a scope in a sweep.
Before(u, v) == u[1] < v[1] \/ (u[1] = v[1] /\ u[2] < v[2])

Locked(k) == k[2][1] = "latency"

-----------------------------------------------------------------------------
(* The updates of a worker. *)

Calls(w) == 1..Len(ops[w])

Updates(w) == UNION { {n} \X (1..Len(CellsOf(w, ops[w][n]))) : n \in Calls(w) }

Target(w, u) == CellsOf(w, ops[w][u[1]])[u[2]]

\* The samples whose update of cell k has taken effect.
Applied(k) ==
    UNION { {<<w, u[1]>> : u \in {x \in Updates(w) \ pending[w] :
                                     Target(w, x) = k}} : w \in Workers }

\* The thread has run its last call to the end: the locks have been taken, an
\* addition to a counter may still be on its way.
BetweenCalls(w) == \A u \in pending[w] : ~Locked(Target(w, u))

WorkerHolds(w, k) ==
    /\ Locked(k)
    /\ \E u \in Updates(w) \ pending[w] :
          Target(w, u) = k /\ \E v \in pending[w] : Before(v, u)

-----------------------------------------------------------------------------
(* The sweep of a snapshot. *)

Positions == Scopes \X (1..Len(FieldOrder))

CellAt(p) == <<p[1], FieldOrder[p[2]]>>

Swapping == todo # {}

TickerHolds(k) ==
    /\ Locked(k)
    /\ \E p \in Positions \ todo :
          CellAt(p) = k /\ \E q \in todo : Before(q, p)

-----------------------------------------------------------------------------
Init ==
    /\ ops = [w \in Workers |-> << >>]
    /\ pending = [w \in Workers |-> {}]
    /\ live = [k \in Cells |-> {}]
    /\ todo = {}
    /\ tick = [k \in Cells |-> {}]
    /\ totals = [k \in Cells |-> {}]
    /\ nticks = 0

\* Recorder::record / record_error is called: the thread-local TaskStats
\* takes the sample (ops[w] is that log), the live cells come after it.
BeginRecord(w, op) ==
    /\ BetweenCalls(w)
    /\ Len(ops[w]) < MaxOps[w]
    /\ ops' = [ops EXCEPT ![w] = Append(@, op)]
    /\ pending' = [pending EXCEPT ![w] =
                     @ \cup ({Len(ops[w]) + 1} \X (1..Len(CellsOf(w, op))))]
    /\ UNCHANGED <<live, todo, tick, totals, nticks>>

\* A wrong UpdateCell: a thread takes its shard for its own and records there
\* without the lock.
UpdateCellUnlocked(w, u) ==
    /\ u \in pending[w]
    /\ \A v \in pending[w] : Before(v, u) => ~Locked(Target(w, v))
    /\ live' = [live EXCEPT ![Target(w, u)] = @ \cup {<<w, u[1]>>}]
    /\ pending' = [pending EXCEPT ![w] = @ \ {u}]
    /\ UNCHANGED <<ops, todo, tick, totals, nticks>>

\* A fetch_add, or the locked record of the histogram, takes effect.
UpdateCell(w, u) ==
    /\ u \in pending[w]
    /\ \A v \in pending[w] : Before(v, u) => ~Locked(Target(w, v))
    /\ LET k == Target(w, u)
       IN /\ Locked(k) => /\ \A c \in Cells : ~WorkerHolds(w, c)
                          /\ \A v \in Workers : ~WorkerHolds(v, k)
                          /\ ~TickerHolds(k)
          /\ live' = [live EXCEPT ![k] = @ \cup {<<w, u[1]>>}]
    /\ pending' = [pending EXCEPT ![w] = @ \ {u}]
    /\ UNCHANGED <<ops, todo, tick, totals, nticks>>

\* A wrong BeginSwap: it sweeps one scenario too many.
BeginSwapOneTooMany ==
    /\ ~Swapping
    /\ tick = [k \in Cells |-> {}]
    /\ nticks < MaxTicks
    /\ todo' = (0..(NumScenarios + 1)) \X (1..Len(FieldOrder))
    /\ nticks' = nticks + 1
    /\ UNCHANGED <<ops, pending, live, tick, totals>>

\* swap_and_snapshot is entered.
BeginSwap ==
    /\ ~Swapping
    /\ tick = [k \in Cells |-> {}]
    /\ nticks < MaxTicks
    /\ todo' = Positions
    /\ nticks' = nticks + 1
    /\ UNCHANGED <<ops, pending, live, tick, totals>>

\* The access at p may take effect next: no lock that comes before it is still
\* to be acquired, and a shard is not entered while another thread is in it.
MaySwap(p) ==
    /\ p \in todo
    /\ \A q \in todo : Before(q, p) => ~Locked(CellAt(q))
    /\ Locked(CellAt(p)) => /\ \A c \in Cells : ~TickerHolds(c)
                            /\ \A w \in Workers : ~WorkerHolds(w, CellAt(p))

\* Wrong SwapCells: a load that does not reset the cell, and a merge that
\* resets every shard but keeps the last one only.
SwapCellWithoutReset(p) ==
    /\ MaySwap(p)
    /\ tick' = [tick EXCEPT ![CellAt(p)] = live[CellAt(p)]]
    /\ todo' = todo \ {p}
    /\ UNCHANGED <<ops, pending, live, totals, nticks>>

SwapCellKeepsLastShard(p) ==
    /\ MaySwap(p)
    /\ tick' = [tick EXCEPT ![CellAt(p)] =
                  IF Locked(CellAt(p)) /\ p[2] < Len(FieldOrder)
                  THEN {} ELSE live[CellAt(p)]]
    /\ live' = [live EXCEPT ![CellAt(p)] = {}]
    /\ todo' = todo \ {p}
    /\ UNCHANGED <<ops, pending, totals, nticks>>

\* An AtomicU64::swap(0), or a mem::replace under a shard's lock, takes effect.
SwapCell(p) ==
    /\ MaySwap(p)
    /\ tick' = [tick EXCEPT ![CellAt(p)] = live[CellAt(p)]]
    /\ live' = [live EXCEPT ![CellAt(p)] = {}]
    /\ todo' = todo \ {p}
    /\ UNCHANGED <<ops, pending, totals, nticks>>

\* A wrong Ingest: the totals are replaced by the last tick.
IngestReplaces ==
    /\ ~Swapping
    /\ totals' = tick
    /\ tick' = [k \in Cells |-> {}]
    /\ UNCHANGED <<ops, pending, live, todo, nticks>>

\* DashboardState::ingest folds the finished LiveTick into the totals.
Ingest ==
    /\ ~Swapping
    /\ totals' = [k \in Cells |-> totals[k] \cup tick[k]]
    /\ tick' = [k \in Cells |-> {}]
    /\ UNCHANGED <<ops, pending, live, todo, nticks>>

WorkerNext(w) ==
    \/ \E op \in Ops : BeginRecord(w, op)
    \/ \E u \in Updates(w) : UpdateCell(w, u)

TickerNext == BeginSwap \/ (\E p \in Positions : SwapCell(p)) \/ Ingest

Next == (\E w \in Workers : WorkerNext(w)) \/ TickerNext

Spec == Init /\ [][Next]_vars

-----------------------------------------------------------------------------
TypeOK ==
    /\ ops \in [Workers -> Seq(Ops)]
    /\ pending \in [Workers -> SUBSET (Nat \X (1..6))]
    /\ \A w \in Workers : pending[w] \subseteq Updates(w)
    /\ live \in [Cells -> SUBSET Samples]
    /\ todo \subseteq Positions
    /\ tick \in [Cells -> SUBSET Samples]
    /\ totals \in [Cells -> SUBSET Samples]
    /\ nticks \in Nat

\* Whatever the interleaving of fetch_add, locked record and swap, each cell
\* accounts for exactly the updates that were made to it: what workers added
\* to a cell is what the cell holds, what the tick under construction took
\* and what was folded into the totals.
NothingLost ==
    \A k \in Cells : live[k] \cup tick[k] \cup totals[k] = Applied(k)

\* No update of a cell is handed over twice: a swap that did not reset its
\* cell, or a shard merged twice, would put a sample in two of the three.
NothingTwice ==
    \A k \in Cells : /\ live[k] \cap tick[k] = {}
                     /\ live[k] \cap totals[k] = {}
                     /\ tick[k] \cap totals[k] = {}

\* The request count of a scope is ahead of its histogram by the samples it
\* has counted whose latency the consumer has not been given.
Ahead(scope, w) ==
    {n \in Calls(w) :
        /\ <<w, n>> \in totals[Cell(scope, "requests", 0)]
        /\ <<w, n>> \notin totals[Cell(scope, "latency", ShardOf[w])]}

\* A snapshot is not one cut through the cells, and the relaxed counters give
\* no order.  Still, between two ticks the requests of the dashboard, in all
\* and of each scenario, are ahead of the latencies behind its percentiles by
\* at most one sample of each worker: the count is swapped before the shards
\* are released, and a worker that found its shard swept counts no further
\* sample into the sweep.
RequestsLeadByOne ==
    ~Swapping /\ tick = [k \in Cells |-> {}] =>
       \A scope \in Scopes, w \in Workers :
          \A m, n \in Ahead(scope, w) : m = n

Feed(k) == INSTANCE Handoff WITH Items <- Samples,
                                 put <- Applied(k), got <- totals[k]

\* Each cell on its own implements a lossless, exactly-once hand-over of
\* samples from the workers to the consumer: every step of the program is,
\* for every cell at once, a step of the abstract feed or a stutter.
EveryCellIsAFeed ==
    /\ \A k \in Cells : Feed(k)!Init
    /\ [][\A k \in Cells : [Feed(k)!Next]_<<Applied(k), totals[k]>>]_vars

=============================================================================
