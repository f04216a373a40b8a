# A verification of zerobench in TLA+

zerobench is a load generator for HTTP/1.1, HTTP/2, SSE and WebSocket servers.
What it sells is trust in its numbers: no sample lost or counted twice, latency
counted from the intended start of a request, an archive that tells the truth
about the run. This directory holds models of the parts those promises rest on,
TLC configurations that check them on small instances, and proofs of some of
the results for instances of any size.

Paths below are relative to the repository.

## 1. Inventory

### The parts and what they share

    measure / legacy run (cli)  --spawns-->  dispatch  --spawns-->  worker threads of a backend
            |                                                             |
            | archive files (runtime/archive.rs)                          | Recorder::record, record_error
            v                                                             v
     runs/<url_fp>/<run_id>/                                     LiveSnapshot (atomics + sharded histograms)
            ^                                                             ^
            | load_export                                                 | swap_and_snapshot, once a second
         compare                                                    dashboard thread (--tui)

Everything between threads goes through four shared objects: the stop flag, the
live aggregator, the pacing counter of a backend, and the join of the threads.
Everything between processes goes through the run directory.

| part | source | state | operations | what makes it hard | what makes it correct | modelled |
|---|---|---|---|---|---|---|
| live aggregator | `runtime/live_snapshot.rs`, `runtime/recorder.rs` | per scope: atomic counters, one histogram per shard behind a mutex | record, record_error, swap_and_snapshot, ingest | the sweep of the ticker takes no lock across cells while workers add to them, and the counters are relaxed atomics | nothing lost, nothing twice, requests and percentiles do not drift apart | yes |
| dashboard run | `zerobench-tui/src/lib.rs`, `cli/main.rs` | stop flag, dashboard loop, run_completed, exit_requested | timer, key, tick, final tick, join | four kinds of threads and one flag | quitting ends the run; totals final once "done" | partly |
| HTTP/1.1 loop | `backends/http/mio_h1.rs` | connections (state machine), pending tokens, idle pool, token index | connect, assign, poll, readiness events, read, write, saturate | edge-triggered readiness, partial writes, closes at any time, indices beside states | every job in one place, idle pool exact, no readiness lost, order of service | partly |
| cold-connect | `backends/http/cold_connect.rs` | shared `intended_elapsed_ns`, one socket per operation, deadline | draw a slot, sleep, connect, handshake, write, read, time out | shared counter, capped sleep, timeouts in each phase, close racing the response | slots on time and accounted for, the run ends | partly |
| measure and archive | `cli/verbs/measure.rs`, `runtime/runner.rs`, `runtime/archive.rs` | gate verdicts, pooled and per-run statistics, files and their `.tmp` | calibrate, clock gate, begin, write/fsync/rename, warm-up, measured runs, finalise | a kill or an I/O error between any two system calls; two invocations | INDEX.json means complete; exit 0 means archived; flags on record | partly |
| SSE backends | `backends/sse/` | subscribers in slots, Last-Event-ID, counters of sessions; parser state | connect, event, kill, disconnect, reconnect, read at any cut | reconnects in the middle of a batch of events, errors half way through a session | counters agree with the sessions; ids carried over; events those of the stream | yes |
| fan-out | `backends/fanout_core.rs`, `sse/fanout.rs`, `ws/fanout.rs` | triggers sent, frames received, stamps | POST, broadcast, receive, correlate | matching by order of time, POSTs that fail half way | a sample is of its trigger; every thread joins | yes |
| WebSocket backends | `backends/ws/` | connection, message in flight, receive buffer, fragment | upgrade, send, receive, answer ping and close, end | late echoes, closes from both sides, control frames within messages | each message and each end counted once; frames those of the stream | partly |
| HTTP/2 loop | `backends/http/mio_h2.rs` | stream slots, pending tokens | handshake, open stream, head, body, reset, end | the peer's limit of streams, refusals by the library | every token in one place | partly |
| response parsing | `backends/http/raw_h1_common.rs` | position within a body | advance | any split of the bytes | same end for every split | partly |
| self-check | `runtime/calibrate.rs` | echo connections, bytes queued, interests; client's request | connect, send, receive exactly, echo, expire, judge | edge-triggered interests that change | no lost wake-up; replies are of their requests | partly |
| dispatch and merge | `backends/dispatch.rs`, `core/stats.rs`, `cli/main.rs` | groups, their statistics, summary | split by protocol, renumber, join, merge, exit code | one of several groups fails; renumbered ids; serial runs | totals and rows are what the groups that ended put down; exit 0 means these were clean | yes |
| command line, curve, probe | `cli/` | flags, plan, steps of a sweep | plan, sweep, find the knee | many flags that override one another | plan is the input; no knee is missed | partly |
| script language | `zerobench-dsl/` | builders behind `Arc<Mutex>`, scenarios, variable registry | builder calls, step, weight, rate, load | steps share builders that compiling empties | steps are what the script wrote; shares add up | partly |
| plan, templates, request files | `core/plan_builder.rs`, `core/request_file.rs`, `core/template.rs` | data | split, parse, build, substitute | line ends, comments, conflicting hosts | the request is its file's | partly |
| reports and comparisons | `zerobench-report/`, `cli/verbs/diff.rs`, `cli/diff.rs` | two measurements | thresholds, bootstrap, KS, AD, Holm, verdict | zero baselines, random resamples, ties | verdict follows the runs; evidence is exact | partly |
| TLS and transport set-up | `runtime/tls.rs`, `runtime/transport.rs`, `core/transport.rs`, `backends/http/mio_tls.rs` | none of its own | build a session | library code | - | no |
| dashboard views | `zerobench-tui/src/ui`, `export.rs` | data | lay out | - | - | no |
| stub server | `zerobench-stub/` | - | answer | - | - | no |

(`runtime/`, `backends/`, `core/` and `cli/` stand for `src/zerobench-runtime/src/`
and so on.) `PROJECT.json` has one entry for each part with its status and what is
left out of it, and under `hazards` the places where each of them can go wrong.

## 2. Modules

| module | what it is |
|---|---|
| `Handoff` | abstract specification: a producer, a feed, a consumer; what is put in is taken out once |
| `LiveSnapshot` | recorders, aggregator and ticker, one action per access that takes effect; refines `Handoff` cell by cell |
| `TuiRun` | extends `LiveSnapshot` with the threads of a `--tui` run |
| `MioH1` | one worker of the HTTP/1.1 loop with the kernel and the server as environment |
| `MeasureRun` | invocations of `measure` and `compare` over one archive |
| `ColdConnect` | the workers of the cold-connect backend and the servers behind them |
| `SseHold`, `ReconnectStorm`, `Fanout`, `WsWorkers`, `MioH2`, `Calibration` | one backend each (and the self-check), with its peers |
| `Backends` | the six of them as dispatch calls them: one flag, one deadline, one that runs |
| `SseStream`, `WsFrames`, `BodyFraming` | what the readers of SSE, WebSocket and HTTP/1.1 make of bytes cut anywhere |
| `WireDecoders` | the three of them: one connection of one kind, all cuts |
| `Script`, `RequestFile` | the two sources of a plan besides flags |
| `Runs` | plan, dispatch, merge, report, exit code, probe and curve (extends `RequestFile`) |
| `Comparisons` | compare and diff |
| `Cli` | the command line: `Script`, then `Runs`; or `Runs`; or `Comparisons` |
| `LiveSnapshotProofs` | theorems about `LiveSnapshot`, and about `TuiRun` as a use of it |
| `MioH1Proofs`, `MeasureRunProofs`, `ColdConnectProofs`, `CliProofs` | theorems about the module of that name |
| `SseBackendsProofs`, `WireBackendsProofs` | theorems about `Backends`: those of `SseHold`, `ReconnectStorm` and `Fanout`; those of `MioH2`, `WsWorkers` and `Calibration` |
| `FoldLemmas` | what the last two kinds need of numbers, finite sets, folds and sums |
| `MC*` | the constants of the runs that a `.cfg` cannot write |

### LiveSnapshot

`Recorder::record` is up to six updates (requests, bytes, a locked shard of the
histogram; for the aggregate and then for the scenario) and no lock is held
across them: `BeginRecord` is the call, and each `UpdateCell` is an update that
takes effect. (`record_error` is the same with the counters of an error kind.)
`swap_and_snapshot` is `BeginSwap` and one `SwapCell` for each counter and each
shard; `Ingest` is the fold in `DashboardState`. A cell holds the *set* of the
samples that contributed to it, not a number. A number could be right by
accident: a loss and a repetition cancel. A set cannot, and the number the code
has is its cardinality. `bytes_sent` and `bytes_recv` are updated next to each
other and are one cell.

The counters are `Ordering::Relaxed`, which orders the accesses to one counter and
nothing else, so an update or a swap takes effect in the order of the program only
where something says so. `pending[w]` are the updates of a worker that have not
taken effect, of as many calls as it likes, and `todo` the swaps of a sweep that
have not. What does say so is the mutex of a shard: an access that comes after a
locked section in the program does not take effect before the lock is taken, one that
comes before it does so before the lock is released (`WorkerHolds`, `TickerHolds`),
and either may slip into the section. A section is one step, the acquisition. An access that has taken effect
has done so for every thread: that holds on x86-64 and ARMv8, the machines of the
repository's CI, and not on older POWER. A join, which orders everything, is in
`MainJoinWorkers` of `TuiRun`.

### TuiRun

`stop` is `StopSignal`. `WorkerLoopHead`, `WorkerRecord`, `WorkerUpdate` and `WorkerBatchEnd` are
`while !stop.load()` around a batch of events; the flag is not read within a
batch. The dashboard's loop is `TuiQuit` / `TuiFinalTick` / `TuiNoFinalTick`,
then the keyboard, the tick, the rendering. `TuiError` is the `?` on a terminal
error. `MainJoinWorkers`, `MainStop`, `MainReport` are the end of `run_legacy`.

### MioH1

`phase` is the position in `run_mio_worker`: connect loop, head of the loop
(scheduler tick, with up to `MaxBurst` tokens due), assignment, poll, the events of
the batch in any order, the post-batch assignment. A handler (`prepare_request`,
`try_write`, `try_read`, `check_headers`) is an operator from a record (connection,
socket, idle pool, next job, fates) to the set of records it may leave, so that the
nesting of calls in the code is the nesting of operators. A response has progress 0,
`Partial` (headers and some body) or `Complete`, and one of four shapes: with a
length, the same with `Connection: close`, without a length, malformed. `sock` is
the environment; a socket's `edge` is set by whatever the kernel reports and cleared
when `poll` returns it. The server may close, and the connection may be reset, at any
point of a request: before it, half way through the write, while it waits, within
the response. A write on a reset connection fails, as does a read. Jobs are numbered in the order of their intended start.

### MeasureRun

A process goes through its gates, creates its directory, and writes each file as
`CreateTmp`, `SyncTmp`, `RenameTmp`. `Crash` and `IoError` are possible at every
step. The model is of a killed process, not of a power failure: what a process
has written stays. The self-check enters as an arbitrary verdict, and a measured
run as an arbitrary outcome ("ops", "hard").

### ColdConnect

Each iteration of `run_worker` is `LoopHead` (which reads the clock), `Draw` (the
`fetch_add` and what follows from it) or `Saturate`, `Wake`, then `do_one_op`
phase by phase. `GiveUp` is the end of a `wait_for` without its event. Time is an
integer; waits shorter than a tick, including the 5 microseconds under which the
code does not sleep, are not visible. The server (`Accept`, `Shake`, `Respond`,
`Close`) owes nothing.

### Backends and what it composes

Each backend has `backend` and `over` in common with the others. `over` is the
end of the time, by the stop flag or by the deadline, as the loops see it.
`RunOneProtocol` picks the backend; the variables of those that do not run keep
their initial values, so the composed state space is a sum, not a product.

- **SseHold** (`sse/hold.rs`). `CreateSubscribers` is the set-up, `PollEvents` the
  `poll`. Each event of the batch is one action: `Drive` takes the subscriber in its
  slot through connect, TLS, request, headers and body as far as it gets without
  blocking, `DriveDies` is its death on the way and the replacement within the
  batch, if the plan says so. `sent` is a history variable: what reached each slot,
  whichever connection it had.
- **ReconnectStorm** (`sse/reconnect_storm.rs`). `sub` are the locals of
  `run_one_subscriber`, `session` those of `run_one_session`. The server numbers its
  events; it may honour Last-Event-ID or start over. A session ends by its kill
  timer, the end of the stream, a reset or a timeout, between any two reads.
- **Fanout** (`fanout_core.rs` and the two `fanout.rs`). A clock ticks at each
  stamp, so that two instants are equal only if taken at once. A trigger is stamped
  before its POST and recorded once that is answered (`FireTrigger`,
  `PostSucceeds`), while `Broadcast` comes
  any time after the POST has reached the server. A WebSocket listener stops at
  `"pong"` and `"close"` while it writes those frames, which nothing limits.
  `Correlate` is the consume-after-match loop.
- **WsWorkers** (`ws/echo_rtt.rs`, `hold.rs`, `server_push_rtt.rs` over `conn.rs`).
  One thread per connection; frames are messages here, their bytes are in
  `WsFrames`. The peer answers late, never, out of order, sends noise, pings, closes
  or hangs up. `owes` is the pong or the close reply that `handle_frame` writes
  before `recv` goes on: the write may fail, and the peer may never make room for it.
  A message's id is unique here; the code's is a time XOR a counter
  (`echo_rtt.rs:167`), and two that coincide would be taken for one another.
- **MioH2** (`http/mio_h2.rs`). One worker with its share of the streams. The `h2`
  library is external: it accepts up to the peer's limit and one more.
- **Calibration** (`runtime/calibrate.rs`). The echo server and the client over
  sockets with room for `Room` bytes. A readiness is a pair in `announced`: bytes to read
  are announced once, room to write only to who asked for it, and both are gone
  once polled.

### WireDecoders and what it composes

One response (or frames, or body) is chosen, and `Read(n)` returns any number of its
bytes until it is used up. Symbols stand for bytes: CR, LF, digits and blanks are
one each, the rest of a line is one symbol named for what the parser makes of it.
The sizes of the chunks have one digit in the run.
`SseStream` has `find_header_end`, `ChunkDecoder::decode` and `SseLineParser::feed`;
`WsFrames` the check of the upgrade, `decode_frame`, `handle_frame` and the bytes
read behind the upgrade; `BodyFraming` has `check_headers`, `try_read` and
`ChunkedDecoder::advance`. Each is compared with a definition of what the whole
stream means that knows nothing of buffers: marks on the text of an SSE response,
the list of frames, the sequence of head, body and rest.

### Script

`heap` are the builders by address; a scenario's step is an address. The phases are
the script's own calls, the loader's look for the target, its checks, and the
compilation one step at a time, which empties the builder (`mem::take`). A builder
expression is one value of `Chains`, applied with the operators of its setters (`Json`,
`BodyFile`, ...). `scripted` is a history variable, the builders as
the script left them. Counts given
to a builder wrap modulo `U32`.

### RequestFile and Runs

A request file is a sequence of lines with their ends ("lf", "crlf", "none");
`Split` finds the end of the header block in the *bytes*, before any line is looked
at, as the code does. `Runs` goes from the flags (`args`) to a plan (`job`), to the
dispatch of all of it or of one scenario after the other (`next`), to groups by
protocol that end in any order or panic, to `Merge` by position, the rows and the
headline, and the exit code. What is put down for a scenario in a run is chosen
freely (`did`): operations, samples, soft and hard errors, up to `MaxOps`. How many
samples come with how many operations is that of the backend (`MayHaveSamples`): one
each for HTTP and for an echo, fewer or none elsewhere. "Put down for" is meant
literally: `mio_h1` and `mio_h2` charge failed connects and dropped tokens to the first
scenario of the group, whichever are served, and row 1 has them. A group that panics
may have put down anything before (`lost`); it never reaches the merge. `CurvePoint` is a step of `curve`,
`Knee` the first step past the knee.

### Comparisons

A measurement is a rate, three quantiles of latency, at most one protocol latency of
its own, and counts. Integers replace the floats: thresholds and means are compared
after multiplication with their denominators. With three or more runs on both sides
compare resamples; the model takes any confidence interval whose bounds are
differences of resampled means. `MergeWalk` is the merge walk over the buckets,
`HolmStep` one step of the correction; the p-values themselves are arbitrary.

### Names for wrong versions

Definitions introduced by a comment "A wrong X" (`IngestReplaces`,
`DrawNewValue`, ...) are variants of the action that follows them, with a
mistake one could make in the code. No specification uses them. They are kept to
show, with the run named in `PROJECT.json`, that each property notices one.

## 3. Runs

All bounds are constants of the configuration files.

| run | instance | shows |
|---|---|---|
| `snapshot` | 2 workers with 2 calls and 1, no scenario, 1 error kind, 1 shard, 2 ticks | the accounting when the lock of a shard is contended and sweeps repeat, the lead of the counts, the refinement of `Handoff` |
| `tui_run` | 1 worker, 1 call, 1 scenario, 2 shards, 2 ticks | the accounting over scenarios and shards, totals frozen; `q` ends the run |
| `mio_pool` | 2 connections, 3 jobs, both modes, connects may fail, every shape | job accounting, idle pool, saturation |
| `mio_backlog` | 1 connection, 5 jobs, bursts of 3, open loop | order of service, bounded loss, liveness |
| `measure` | 2 invocations of one plan, one after the other, the first with any flags; 2 runs each, 2 seconds | the archive and the exit codes tell the truth |
| `cold_connect` | 2 workers, saturating and with one slot per tick, TLS, responses that are well formed or not | pacing, accounting, termination |
| `backends` | 2 slots with 1 event and 1 reconnect; 1 subscriber with 3 events and 3 sessions; 1 listener and 2 triggers; 1 WebSocket connection with 2 messages and 2 frames of noise; 3 streams over 2 threads with 4 requests; 2 pooled connections with room for 1 byte and 4 checks | accounting of every backend, wake-ups of the self-check, and that each backend returns |
| `wire` | every SSE text of up to 2 lines of any kind or 4 of data and blanks, in 1 or 2 chunks; answers to an upgrade: sound, refused for each reason, unparseable, cut off, and longer than the limit (18 symbols); every sequence of up to 3 sound frames or one sound and one broken; bodies of up to 3 bytes or 2 chunks; every cut | the decoders agree with what the stream means |
| `cli` | 2 builders, 2 scenarios of 2 steps, 2 slots; up to 2 operations of a scenario; 2 request files of a few dozen shapes; ladder of 3; 9 measurements | plan, report, exit code, verdict, evidence |
| `mio_routing`, `script_rate`, `scenario_rows` | the smallest instance that shows it | a statement of the sources that the code does not keep (section 6) |

Why these are enough:

- `snapshot`: a loss or a repetition concerns one cell and the interleaving of one
  update with the sweep's visit to it; two calls and a sweep give an update before
  and after the visit and two of one worker out of order; a second worker on the
  same lock and a second sweep make the lock contended and the visit repeated. The
  scenario, which puts two locks in a call and in a sweep, and the second shard,
  which makes the merge of shards visible, are in `tui_run`. The theorems cover any
  numbers of all of them.
- `mio_backlog`: the queue is capped at twice the connections, 2 here; 5 jobs in
  bursts of 3 go over it while one is on the connection. One connection is enough
  since its property is about the queue. `mio_pool` has two because the idle pool
  and the tokens are about several, and three jobs so that a connection is used
  again.
- `measure`: the second invocation meets the directory of the first in every state
  it can be left in, in the same second (same id) or the next.
- `cold_connect`: two workers are the fewest that contend for the counter. The
  deadline of one tick and the cap of two let slots be late, on time and ahead, and
  both workers asleep. One scenario; with several the later ones only find the
  deadline passed (section 6).
- `backends`: subscribers, listeners, connections and workers of these backends
  share nothing but the end of the time, so one of each shows what happens to one;
  the slots of a hold share a poll and are two. Three sessions and three events let
  a subscriber resume after a good session and after a failed one. Two triggers are
  the fewest that can be mixed up, two messages likewise. Streams of 3 over two
  threads give the worker modelled two slots, a peer's limit from 0 up is below, at
  and above them, and four requests use a slot again. `Room` of 1 against requests
  of two bytes makes every write partial; four checks go over each of the two
  connections more than once.
- `wire`: the states of the decoders hold what is left of a line, a size or a chunk;
  the texts put each kind of boundary within reach of each cut, with two chunks, two
  frames or a chunk and its trailer on both sides of it. Payloads of up to two bytes
  are sent in all three forms of length, and the limit of 64 MiB is met by a frame
  that only claims it.
- `cli`: two operations let a hold have a gap and a fan-out one sample fewer than
  events. Sharing takes two references to one builder and two scenarios; a registry
  of two slots lets a template read another than the one filled last. The ladder of
  three has a step before, at and after the knee. `U32` = 4 is reached
  and passed by the counts of the builder expressions, 4 and 5. The measurements have one run, three and four, zero
  baselines, an own latency, two schemas; the thresholds lie on both sides of their
  differences.

The runs do not check for deadlock because the systems they model stop:
recorders that have made their calls, a worker that has left, a run that is
reported, a process that is over. What must happen is stated as liveness instead
(`QuitEndsTheRun`, `RunEnds`, `TokensLeaveTheQueue`, `AnswersAreRecorded`,
`EveryBackendEnds`).

### Fairness

| specification | assumed | why the code justifies it |
|---|---|---|
| `TuiRun!FairRunSpec` | every thread runs; a worker comes back to the head of its loop; **not** that the timer fires, nor that a key is pressed | preemptive threads; a batch is finite and `poll` has a timeout |
| `MioH1!FairSpec` | the worker runs; a full send buffer drains; the server answers what it received, in full; **not** that it closes or that the run is stopped | as above; the code has no request timeout, so nothing can be promised of a silent server |
| `ColdConnect!FairSpec` | time passes; spawn, join and every worker run, and their waits time out; nothing of the server | every `wait_for` has a timeout and the loop has a deadline |
| `Backends!Spec` | the time is up at some point; every thread runs what it can run without its peer, timeouts included; nothing of any peer: no answer, no read, no close | every loop looks at the flag or the deadline between waits that have timeouts; those that have none (`WaitsForPeer`: the answer to an upgrade, the write of a message, a pong or a close frame, the HTTP/2 handshake) get no fairness and `EveryBackendEnds` excepts them by name |

## 4. Proofs

`tlapm` checks each of the proof modules completely.

**LiveSnapshotProofs** (any numbers of workers, shards, scenarios, error kinds,
calls and ticks; assumption `SnapshotAssumption`).
`TypeCorrect` first. Then the invariant `Account`: a cell, the tick under
construction and the totals are disjoint, and together they are exactly the
updates of that cell that have taken effect (`Applied(k)`), and the tick holds nothing of a
cell the sweep has yet to visit (`TickFresh`), since taking a cell overwrites
what the tick has of it. It is inductive with the type invariant because
each of the four kinds of step moves a set between the three or adds one sample
to one cell. `NoUpdateLost`, `NoUpdateTwice` and the refinement
`CellsImplementHandoff` follow.

`RequestLeadBounded` is about two cells that no order of accesses relates but the
locks. Its invariant `LeadInv` has three parts. No update has taken effect ahead of
a lock that comes before it (`LocksFirst`), so a worker whose count of a later sample
is visible has recorded the earlier one (`EarlierIsRecorded`). A shard that
a sweep has swapped stays empty while the count of its scope is still to be swapped,
since the ticker has not let go of the lock (`ShardStaysEmpty`). Hence at the moment
a sweep has taken both, the shard is empty, and of the samples counted all but the
last of each worker are in what was taken from the histogram (`LeadByOne`).

The same module has the dashboard run. `RunAccountsForAll`: the accounting carries
over to `TuiRun`, whose actions are those of `LiveSnapshot` on the aggregator's
variables or leave them alone (`RunStepIsLiveStep`). `TotalsFrozen`: the ingest is only
reached through a tick that begins while the run is on, which is the invariant
`DoneTicking`; whether they are complete is another matter (`FinalIngestCapturesAll`,
section 6).

**ColdConnectProofs**. `SlotsAreNeverEarly`: under `RateFits`
(`Cardinality(Workers) * interval <= SleepCap`) no operation starts before its
slot. The sleep is capped at 100 ms, so this cannot be had from one worker's
code: a slot is close enough only because the other workers cannot be far
ahead. The invariant `PacingInv` has three parts: the types
(`PacingType`); every slot drawn so far is due, or held by a worker that sleeps
towards it (`DueOrHeld`); a sleeper wakes no earlier than its slot, and what
comes after the sleep comes after the slot (`Timely`). For `Draw`: were the last
W slots drawn (W the number of workers) all still to come, they would be held by
W different workers (`FS_PigeonHole`), but the one that draws holds none. So one
of them is due and the next is at most W intervals away (`NextSlotIsNear`), which
fits in the cap. `RateFits` says that each worker has at
least ten operations a second to do; below that the theorem is false, and so is
`RateBounded` (section 6).

`SlotsAreAccounted`: every slot drawn is in flight or has one end, a sample or one
error, and a slot that finds the time over is not counted. That is a sum over the
tallies of the workers and of the scenarios that are over, so `SlotsInv` is the
property itself with the types (`SlotsType`) and what each step does to the
sum: `Draws` takes a slot, `Ends` finishes one, `Keeps` neither (`WorkerKeepsToSlots`),
and the join moves the tallies of the workers to those of the scenarios
(`JoinKeepsSlots`).

**MioH1Proofs** (any numbers of connections, jobs and tokens per iteration, both
modes). `EveryJobInOnePlace` is not inductive: it says nothing of whose
connection is in the idle pool, and an idle connection popped twice would take a
second job. `MioInv` adds `IdlePoolExact`; that a job in flight was scheduled, has
no record and is on no other connection (`JobsInFlight`); that the queue is
increasing and younger than what is in flight (`JobsQueued`); that a job with no
record is in one of the two (`JobsElsewhere`); what each phase and each mode has of
the queues (`Shape`); and that in the closed loop a worker past its connects
leaves no connection idle (`Busy`). The handlers are operators from records to
sets of records, so the proof follows their nesting: `Sound` is what a handler may
assume and leaves of the connection it works on and of the jobs to come, one
lemma for each handler shows it, and what the other connections have is carried
over once. `LossIsBounded` counts with it: what has no record is in the queue or on
a connection. `MioAssumption` has a clause for the closed loop: the bound `MaxJobs`
is at least the number of connections, since the connect loop gives each a first
job; below that the bound, and not the code, would end the run.

**MeasureRunProofs** (any numbers of invocations, runs and seconds). Hypothesis of
every theorem is `NoSharing`: if invocations may overlap, those that do are of
different plans. Without it two may write in one directory and the theorems are false
(`OneWriterPerDirectory`, section 6), and the run `measure` has one invocation after the other for the same
reason; the theorems cover more than the run, since invocations of different plans
overlap freely. `MeasureAssumption` says that `"nobody"`, which the model writes for
a file that is not there, is not a process. `MeasureInv` relates what a process knows
to what the disk has: where it is in the verb (`Course`); its windows, pooled as
listed (`Windows`); every file whole and in the directory of its writer, every `.tmp`
in one of a process that got that far (`Owned`); the files of a process are those it
has written, with its flags and windows (`Ledger`); a live process's directory has
no other's files (`Kept`), and live processes are of different plans (`Exclusive`).
`ArchivesAreSound` alone is not inductive: that `INDEX.json` is there says the
rest is there only through the order of writing, which is in `Ledger` and
`WriteOrder`. `ArchiveFinal` is an action property: `begin` refuses a
directory that has files and a process that is over writes nothing.

**SseBackendsProofs**. `SlotsAreCounted` (any number of slots): `HoldInv` has the
state of each slot and that the count the poll loop ends on is the cardinality of
the living while the loop is on; a kill that cannot be replaced and one that can
move it alike. `SessionsOfAStormAddUp` (any number of subscribers, events and
sessions): `StormInv` is, for each thread, the counters (`Counted`: a reconnect has at
most one end, and the first session is not a reconnect), the events up to the last
id (`Seen`) and the session in progress (`Reading`: it has read what lies between
the last id and its cursor, and between the `id:` and the `data:` line the id is one
ahead). The last is why one event a session can be missing, and why no more can.

**WireBackendsProofs**. `TokensAreInOnePlace` (any number of streams, threads, requests
and any limit of the peer): `H2Inv` has the five places disjoint and within what
was made, each stream with its own request (`OneEach`), and `LossesAreErrors`: the
read errors are those requests that are nowhere else, and one more only after
the connection has ended. `WsConnectionsAddUp`: `Books` says, for the
counters of one thread, that nothing is charged while it works and one thing when
it is over; the close handshake needs that the close frames sent are none while it
works. `EchoesAreOfTheirMessages`: without ids the property is that of what
may still arrive: while the server only answers, nothing but a close frame, or one
answer to the message waited for (`ToCome`). `SelfCheckAnswers`: on the connection
of the request the bytes to the server, held by it and to the client are together
what was sent and not heard (`OnTheWay`), and the others carry none; a server with
bytes to read or room to write has an event announced (`Line`).

`SamplesAreOfTheirTriggers` (any numbers of listeners and triggers, both kinds of
fan-out): `Correlate` is a fold, and `CorrelationGoesOn` unrolls it into the states it
goes through; by induction over these it is greedy (`GreedyMatch`): a trigger's frame
is behind those of the triggers before it, no older than it, and the first such.
`FanInv` has the rest: POSTs are recorded in their order, a listener has the
broadcasts in theirs, none is stamped before its trigger (`StampedAfter`). Two
sequences that go up, one of them with no more values than the other, can only get
ahead of each other one way (`NoneBeforeItsPlace`); if they have the same values they
are the same. That is why no sample is too small, and why each trigger has its own
when nothing was lost.

All of these are about `Backends!Spec`: the theorem of one backend also shows that no
step of another touches its variables.

**CliProofs**. `GatesFollow` (any measurements, any numbers of runs, any thresholds):
`GatesInv` says of the answer of compare and of diff which comparisons it is the
verdict of, and `VerdictFollowsTheRuns` that such a verdict follows the runs: if every
run of one side is worse than every run of the other by more than the threshold, so
are the means, and so is each mean of a resample, which is a sum of as many of the
same values (`Sampled`); likewise if none is. The step from all pairs to the means is
`MeansApart`: sum the inequality over one side, then over the other. The assumption
`CliAssumption` says that what a report measured are natural numbers, that the builders
a script can write are of the kinds the language has, that a curve has at least two
steps (the parser of `--steps` refuses fewer), that the buckets of a histogram are in
the increasing order of their values (as an HDR histogram is iterated), and that the
bounds are numbers.

`ExitZeroMeansClean` (any script, any request files, any number of scenarios and
protocols, serial or at once; about the groups that ended, see `HardErrorsFail` in
section 6 for the others): a hard error put down for a scenario shows in the
counters of its task, the task in the tasks of its group (`GroupLeavesTasks`), these
in what the join collects (`CollectedIsAll`) and in the totals of the summary
(`MergeOfTasks`), and a serial run carries the errors from one dispatch to the next.
`ExitInv` is that chain (`Accounted`), stage by stage, with the types (`RunsType`).
Sums of natural numbers hide nothing, which is all that is used of them
(`SumIsPositive`). That a plan has something to run is `ScriptInv`: every step of the
script refers to a builder of the heap, so the fold of `CompileStep` gives steps of
known kinds.

`ReportAccountsForTheRun` (the same, for the sums instead of their sign): the totals
are a sum over protocols of a sum over the places of a sub-plan, and what is to be
shown is a sum over the scenarios of the dispatch. `InOrder` gives place k to the
element with k - 1 below it, so places are ranks and a bijection (`InOrderIsAll`);
the sub-plans have each scenario once (`GroupsAreApart`). `DidByGroups` says of the
groups that have ended that their tasks sum to what their scenarios did, and of the
others that their scenarios have done nothing yet; then the sums can be
exchanged and renamed (`SumOnPart`, `SumRenamed`) into one (`TotalIsTheRun`). With one
protocol the sub-plan is the plan and row k its k-th scenario (`LoneRows`); with one
kind of step no sample is anywhere but in the source the headline is taken from, and
where each operation has one (`SampledEach`) there are as many (`SamplesOfKind`,
`HeadlineCounts`). Of the curve, `PointsInv` keeps that a
point that has operations is one where something was done, and `NoKnee` says what
the absence of a knee means for every point after the first. `ReportInv` puts these
together by stage.

`EvidenceFollowsTheTests` (any two histograms with a bucket, any p-values): what
`compare` prints of the distributions is what the tests are defined by. The merge walk
of `ks_d_statistic` and `ad_test` and the loop of `holm_bonferroni` are folds, hence
sequences of states (`WalkStates`, `HolmStates`), about which one can argue by
induction. `Walking` is the invariant of the walk: all that was passed is less than
all that is to come, there is one step for each value passed, at the place of that
value among all values, and the last step has the counts of the buckets passed. A
step takes the least value to come, of one side or of both (`SideAdvances`), so that
what it adds is the count at that value and its sums are the counts up to it
(`WalkGoesOn`). After as many steps as there are buckets none is left (`MergeWalkIs`):
the largest gap over the steps is that over the values, and the steps but the last
are the values but the largest (`KsIsOverTheValues`, `AdIsOverTheValues`). For Holm's
correction, "not after" with ties broken by position is a linear order, so the sort
gives each value the place that counts those not after it (`RankOrderPlaces`), and the
running maximum is below a level exactly when each candidate up to here is
(`HolmRanks`), which is what the step-down procedure asks (`HolmIsStepDown`).

**FoldLemmas**. The induction theorems of the library take an operator for the
property, which the provers cannot instantiate. Here they are stated with a *set* of
the numbers (or subsets) that have the property, and proved from the well-founded
orderings of the library by taking a least counterexample (`LeastNatural`,
`SmallestSubset`, then `NumberInduction`, `SetInduction`). The folds and sums of the
community modules are recursive functions, whose existence is itself an induction
(`FoldExists`); from their equation follow that a sum may be taken in any order
(`SumPick`), changes with its terms (`SumChange`), can be exchanged with another
(`SumExchange`) and compared (`SumAtMost`, `MeansApart`); a fold over 1..n is the last
of n states, each made from the one before (`FoldStates`); and in a finite linear
order the number of elements not after an element is its place, each place being
taken once (`PlaceIsOrder`, `PlaceIsTaken`). Two consequences for the
models: they have sums as sums of a function over its domain, and no set is built
with two bound variables, nor a sequence filtered or sorted with an operator that
TLC evaluates by itself (`SelectSeq`, `SortSeq`; hence `InOrder` in `Runs` and `RankOrder` in `Comparisons`).

The theorems of `MioH1Proofs`, `SseBackendsProofs`, `WireBackendsProofs` and `CliProofs`
assume no more than the assumption of the module. The type invariants of
`LiveSnapshot`, `MioH1` and `MeasureRun` are proved; that of `TuiRun` and `ColdConnect`
is stated without a run of its own: a value out of its type shows in the properties
that read it.

Model-checked only:

- `PlanIsTheInputs`: shares that are `rate * weight \div total` add up to the rate
  only where the division is exact, as for the weights and rates of the run; and a
  request file's parse is a recursion over its lines;
- `EventsMatchTheStream`, `FramesMatchTheStream`, `ResponseEndsWhereItEnds`: the decoders
  of `WireDecoders` are recursive operators;
- `QuitEndsTheRun`, `RunEnds`, `TokensLeaveTheQueue`, `AnswersAreRecorded` and
  `EveryBackendEnds`: liveness under fairness is beyond the prover.

## 5. Not modelled

- In `LiveSnapshot`, EWMA and bucket bounds; in `TuiRun`, views, sort keys, exports
  and ring buffers.
- In `MioH1`, several workers (they share only the stop flag and the recorder),
  extractors and templates, the bytes of TLS. Responses enter as shapes;
  `BodyFraming` shows the shapes are what the bytes give.
- In `ColdConnect`, the status and assertion errors recorded beside a sample.
- In `MeasureRun`, power loss, and the files of one directory once two writers have
  it.
- In `Backends`, latencies that no property tells apart (time to first token, gaps),
  and several threads of HTTP/2 (each gets its share of streams and they share
  nothing).
- In `WsFrames`, masks and keys; in `SseStream`, chunk extensions, which the decoder
  takes as part of the size and which end its digits.
- In `Runs`, spelling of durations, sizes and URLs; in `Script`, the interpreter
  (external), spelling of rates and templates.
- In `Comparisons`, thresholds below zero and with a fraction; the p-value functions and the random generator of the bootstrap
  (floating point); wording and layout of every report.
- Template substitution and random values (`core/template.rs`, `rng.rs`): sequential
  text processing that unit tests reach.
- Code without protocol of its own: TLS set-up, machine record, dashboard views, the
  stub server (see the `note` of each component).

## 6. Where the code and its documentation differ

Some runs state what a comment says and end in a counterexample:

- `mio_routing`: after a failed connect, the index of a connection and its token
  differ; events go to the neighbour (`mio_h1.rs:715`).
- `script_rate`: no backend is told of a script's `rate()`, of a scenario's rate or
  of weights. The comment at `main.rs:681-683` leaves the choice to the dispatcher,
  and the dispatcher makes none: the run saturates, and its report prints the rate.
- `scenario_rows`: `sub_plan` renumbers the scenarios of each protocol from 0, and
  `Summary::merge` adds rows up by position with the number of rows of the first
  task (`dispatch.rs:132-136`, `stats.rs:456-482`), while `main.rs:503-505` says
  they are preserved per scenario.

Further statements of the sources that the models violate. Each is a definition
of its module that no run lists; as an INVARIANT of the configuration named it ends
in a counterexample:

| statement | stated in | configuration | the code |
|---|---|---|---|
| `FinalIngestCapturesAll` | `TuiRun` | `TuiRun.cfg` | the "final ingest" is to "capture the last partial tick" "when the benchmark finishes" (`zerobench-tui/src/lib.rs:144-148`); it is taken when the flag goes up, while workers may be in their last batch, and what they record then is in the printed report and never on the dashboard |
| `HardErrorsFail` | `Runs` | `Cli.cfg` with `Chains <- MCTwoChains`, `MaxScenarios = 3` | "hard transport errors (connect/read/write/timeout/keepup) or zero operations completed → exit 1" (`main.rs:714-715`); `run_plan` drops what a group that panicked had recorded (`dispatch.rs:112-116`), and a clean group beside it makes the exit code 0. `ExitZeroIsClean` and `ReportIsTheRun` are about the groups that ended |
| `ClockBypassOnRecord` | `MeasureRun` | `Measure.cfg` | `--allow-coarse-clock` "stamps `clock_coarse: true` in env.json" (`measure.rs:142-143`); no such field exists and nothing but the gate reads the flag (`measure.rs:438`). `SelfCheckOnRecord` is about the other gate, whose bypasses are recorded |
| `OneWriterPerDirectory` | `MeasureRun` | `Measure.cfg` with `Overlap = TRUE` | two invocations of a plan in one second get one "globally-unique" run id (`fingerprint.rs:228`), and the check that its directory is empty and the first write are two steps (`archive.rs:293`). Hence the hypothesis `NoSharing` of the theorems about archives |
| `PongsAreIgnored` | `WsFrames` | `WireDecoders.cfg` | "`Pong` -> ignored" (`ws/conn.rs:343`); `handle_frame` returns them (`conn.rs:462-469`), and a hold counts them as messages |
| `BareCrEndsALine` | `SseStream` | `WireDecoders.cfg` with `Texts <- MCBareCrTexts` | "Each field line ends with `\n`, `\r`, or `\r\n`" (`sse/line_parser.rs:17`); `feed` ends it at LF only, so a stream with bare CRs gives no events (`line_parser.rs:133`) |
| `FullResponseIsASample` | `MioH1` | `MioPool.cfg` | a complete response and the server's close, read in one call, are a read error (`mio_h1.rs:373-381`) |
| `OverloadedNeverCompared` | `MeasureRun` | `Measure.cfg` | `compare` does not look at the overload flag (`README.md:190`, `verbs/diff.rs:403`) |
| `RateBounded` | `ColdConnect` | `ColdConnect.cfg`, `Intervals = {3}`, `Deadline = 3` | with slots further apart than the cap of the sleep the rate is exceeded (`cold_connect.rs:51`, `219`) |
| `ReconnectKeepsStats` | `Backends` | `Backends.cfg` | a subscriber whose replacement cannot be created loses its counts (`hold.rs:691`) |
| `BodyErrorsHandled` | `Backends` | `Backends.cfg` | a stream whose body failed keeps its slot (`mio_h2.rs:349`, `406`) |
| `EveryStepIsTheScripts` | `Cli` | `Cli.cfg` | a builder added twice is empty when its second step is compiled (`builders.rs:756-759`) |
| `ErrorsFromZeroGate` | `Cli` | `Cli.cfg` | from a baseline of zero errors nothing is a regression (`compare.rs:233-259`) |

Seen while modelling, present in the models:

- `PHILOSOPHY.md` (261-264) speaks of a queue of unlimited capacity; the HTTP/1.1
  loop drops tokens beyond twice the connections and counts them as keepup errors
  (`mio_h1.rs:805`).
- `ended_at_unix` is stamped into env.json before the results are written
  (`runner.rs:475`), while `archive.rs:194-195` reads it as the sign of a run that
  completed. INDEX.json is the sign that holds (`IndexMeansComplete`, part of
  `ArchivesAreSound`).
- Scenarios of the cold-connect backend run in sequence against one deadline
  (`cold_connect.rs:107`): the second finds it passed.
- A cold-connect response cut short after its headers counts as a sample
  (`cold_connect.rs:502-511`).
- HTTP/1.1: `Connection: close` is looked at only when headers and body complete in
  one read; else the connection goes back to the pool (`mio_h1.rs:402`).
- A protocol group that panics is left out of the totals without a trace
  (`dispatch.rs:111-125`, `if let Ok`). A scenario without steps makes one: it
  counts as HTTP and the loop expects a step.
- Only the first step of a scenario is sent, and only the kind of the first step of
  a protocol group is looked at: of hold and fan-out scenarios in one plan, one kind
  runs.
- Serial runs give each scenario the whole `--rate`, and write `--output` anew.
- A bare run and a probe exit with 1 on any error, a script's run on hard errors
  only.
- `curve` takes the errors of a whole step where its documentation speaks of three
  seconds in a row, archives an empty aggregate, and exits with 0 when everything
  failed.
- The storm: a handshake that times out counts as a read error, not a connect error;
  a server that ignores Last-Event-ID counts as one that resumed when the session is
  killed before the server has come to the earlier id
  (`reconnect_storm.rs:287-299`).
- Fan-out: once a broadcast is lost for a subscriber, later frames may be charged to
  earlier triggers; `SamplesMatchTriggers` states what is left in that case.
- WebSocket echo without ids: an echo that comes after its message was given up is
  the next message's sample (`echo_rtt.rs:283`).
- HTTP/2: a request the library refuses loses its token, one in flight at the end is
  not counted (`mio_h2.rs:442-458`).
- The self-check: a timeout or an I/O error ends its loop, and the verdict is
  computed from the short time it had; the payload of a reply is never compared.
- Request files: a blank line after leading comments ends the header block, though
  comments and blanks are allowed there; CR LF CR LF in the body of a file with LF
  ends is taken for the split; a file that ends in its last header line without a
  newline is refused (`request_file.rs:428-450`).

## 7. Plan

Done: `Handoff`, `LiveSnapshot`, `TuiRun` and their proofs; `MioH1`; `MeasureRun`;
`ColdConnect` and its proof; the SSE, WebSocket, fan-out and HTTP/2 backends and the
self-check (`Backends`); the decoders (`WireDecoders`); scripts, request files,
dispatch, merge, curve and the comparisons (`Cli`).

Proved: the safety of the aggregator, of the dashboard run, of the HTTP/1.1 worker, of
the archive, of the pacing, of both SSE backends that reconnect, of the WebSocket
workers, of the HTTP/2 worker and of the self-check.

Proved since: the accounting of cold-connect, the samples of a fan-out, the verdicts of
compare and diff, the exit code of a run, the report of a run, and the evidence that
compare prints.

Left, in order of importance:

1. An abstract backend ("every slot ends as a sample or an error") that `ColdConnect`
   and `MioH1` are shown to implement.
2. Template substitution and extraction of values as pure operators.
