------------------------------- MODULE TuiRun -------------------------------
(***************************************************************************)
(* A run with the dashboard (zerobench-cli/src/main.rs, the --tui path;    *)
(* zerobench-tui/src/lib.rs, run_tui): the main thread that joins the      *)
(* workers, the worker threads that poll a shared stop flag, the timer     *)
(* that trips it, and the dashboard thread that ticks the LiveSnapshot and *)
(* may trip the flag itself.                                               *)
(***************************************************************************)
EXTENDS LiveSnapshot

VARIABLES stop,            \* StopSignal
          wstate,          \* where each worker's event loop is
          tui,             \* where the dashboard's loop is
          exit_requested,  \* q was pressed
          run_completed,   \* the final tick was ingested
          main             \* where run_legacy's main thread is

runVars == <<stop, wstate, tui, exit_requested, run_completed, main>>
allVars == <<vars, runVars>>

RunInit ==
    /\ Init
    /\ stop = FALSE
    /\ wstate = [w \in Workers |-> "checking"]
    /\ tui = "top"
    /\ exit_requested = FALSE
    /\ run_completed = FALSE
    /\ main = "joining"

\* StopSignal::after_wall: the planned duration is over.
Timer ==
    /\ ~stop
    /\ stop' = TRUE
    /\ UNCHANGED <<vars, wstate, tui, exit_requested, run_completed, main>>

\* The head of a worker's event loop: while !stop.load().
WorkerLoopHead(w) ==
    /\ wstate[w] = "checking"
    /\ wstate' = [wstate EXCEPT ![w] = IF stop THEN "exited" ELSE "batch"]
    /\ UNCHANGED <<vars, stop, tui, exit_requested, run_completed, main>>

\* The body of the loop handles a batch of events and records what they
\* complete; the flag is not read again before the batch is done.
WorkerRecord(w) ==
    /\ wstate[w] = "batch"
    /\ \E op \in Ops : BeginRecord(w, op)
    /\ UNCHANGED runVars

\* An update takes effect, wherever the thread is by then.
WorkerUpdate(w) ==
    /\ \E u \in Updates(w) : UpdateCell(w, u)
    /\ UNCHANGED runVars

WorkerBatchEnd(w) ==
    /\ wstate[w] = "batch"
    /\ BetweenCalls(w)
    /\ wstate' = [wstate EXCEPT ![w] = "checking"]
    /\ UNCHANGED <<vars, stop, tui, exit_requested, run_completed, main>>

\* A wrong TuiQuit: it leaves without tripping the flag.
TuiQuitSilently ==
    /\ tui = "top"
    /\ exit_requested
    /\ tui' = "done"
    /\ UNCHANGED <<vars, stop, wstate, exit_requested, run_completed, main>>

\* Head of the dashboard's loop: leave on q, tripping the flag if the run is
\* still going; take the final tick once the flag is up.
TuiQuit ==
    /\ tui = "top"
    /\ exit_requested
    /\ stop' = (stop \/ ~run_completed)
    /\ tui' = "done"
    /\ UNCHANGED <<vars, wstate, exit_requested, run_completed, main>>

TuiFinalTick ==
    /\ tui = "top"
    /\ ~exit_requested
    /\ ~run_completed
    /\ stop
    /\ BeginSwap
    /\ tui' = "final"
    /\ UNCHANGED <<stop, wstate, exit_requested, run_completed, main>>

TuiNoFinalTick ==
    /\ tui = "top"
    /\ ~exit_requested
    /\ run_completed \/ ~stop
    /\ tui' = "keys"
    /\ UNCHANGED <<vars, stop, wstate, exit_requested, run_completed, main>>

\* swap_and_snapshot, cell by cell, then ingest: in the final tick ...
TuiFinalSwap ==
    /\ tui = "final"
    /\ \E p \in Positions : SwapCell(p)
    /\ UNCHANGED runVars

TuiFinalIngest ==
    /\ tui = "final"
    /\ Ingest
    /\ run_completed' = TRUE
    /\ tui' = "keys"
    /\ UNCHANGED <<stop, wstate, exit_requested, main>>

\* ... the keyboard is polled; a terminal error ends the thread through `?`
\* without touching the flag ...
TuiKeys(q) ==
    /\ tui = "keys"
    /\ exit_requested' = (exit_requested \/ q)
    /\ tui' = "snapshot"
    /\ UNCHANGED <<vars, stop, wstate, run_completed, main>>

TuiError ==
    /\ tui \in {"keys", "render"}
    /\ tui' = "done"
    /\ UNCHANGED <<vars, stop, wstate, exit_requested, run_completed, main>>

\* A wrong TuiSecondElapsed: it goes on ticking after the run.
TuiSecondElapsedAlways ==
    /\ tui = "snapshot"
    /\ BeginSwap
    /\ tui' = "swapping"
    /\ UNCHANGED <<stop, wstate, exit_requested, run_completed, main>>

\* ... and while the run is on, every elapsed second gives a tick.
TuiSecondElapsed ==
    /\ tui = "snapshot"
    /\ ~run_completed
    /\ nticks + 1 < MaxTicks     \* bound: leaves room for the final tick
    /\ BeginSwap
    /\ tui' = "swapping"
    /\ UNCHANGED <<stop, wstate, exit_requested, run_completed, main>>

TuiSwap ==
    /\ tui = "swapping"
    /\ \E p \in Positions : SwapCell(p)
    /\ UNCHANGED runVars

TuiIngest ==
    /\ tui = "swapping"
    /\ Ingest
    /\ tui' = "snapshot"
    /\ UNCHANGED <<stop, wstate, exit_requested, run_completed, main>>

TuiNotDue ==
    /\ tui = "snapshot"
    /\ tui' = "render"
    /\ UNCHANGED <<vars, stop, wstate, exit_requested, run_completed, main>>

TuiRender ==
    /\ tui = "render"
    /\ tui' = "top"
    /\ UNCHANGED <<vars, stop, wstate, exit_requested, run_completed, main>>

\* main: join the workers, trip the flag for the dashboard, join it, report.
\* All that a thread has done has taken effect when it is joined.
MainJoinWorkers ==
    /\ main = "joining"
    /\ \A w \in Workers : wstate[w] = "exited" /\ pending[w] = {}
    /\ main' = "stopping"
    /\ UNCHANGED <<vars, stop, wstate, tui, exit_requested, run_completed>>

MainStop ==
    /\ main = "stopping"
    /\ stop' = TRUE
    /\ main' = "joining_tui"
    /\ UNCHANGED <<vars, wstate, tui, exit_requested, run_completed>>

MainReport ==
    /\ main = "joining_tui"
    /\ tui = "done"
    /\ main' = "reported"
    /\ UNCHANGED <<vars, stop, wstate, tui, exit_requested, run_completed>>

WorkerThread(w) ==
    WorkerLoopHead(w) \/ WorkerRecord(w) \/ WorkerUpdate(w) \/ WorkerBatchEnd(w)

TuiThread ==
    \/ TuiQuit \/ TuiFinalTick \/ TuiNoFinalTick \/ TuiFinalSwap
    \/ TuiFinalIngest \/ (\E q \in BOOLEAN : TuiKeys(q)) \/ TuiError
    \/ TuiSecondElapsed \/ TuiSwap \/ TuiIngest \/ TuiNotDue \/ TuiRender

MainThread == MainJoinWorkers \/ MainStop \/ MainReport

RunNext ==
    \/ Timer
    \/ \E w \in Workers : WorkerThread(w)
    \/ TuiThread
    \/ MainThread

RunSpec == RunInit /\ [][RunNext]_allVars

\* The operating system runs every thread; a batch is finite, so a worker
\* comes back to the head of its loop; nobody presses q, and the timer is
\* not assumed to fire.
Fairness ==
    /\ \A w \in Workers : /\ WF_allVars(WorkerLoopHead(w) \/ WorkerBatchEnd(w))
                          /\ WF_allVars(WorkerUpdate(w))
    /\ WF_allVars(TuiThread)
    /\ WF_allVars(MainThread)

FairRunSpec == RunSpec /\ Fairness

-----------------------------------------------------------------------------
RunTypeOK ==
    /\ stop \in BOOLEAN
    /\ wstate \in [Workers -> {"checking", "batch", "exited"}]
    /\ tui \in {"top", "final", "keys", "snapshot", "swapping", "render", "done"}
    /\ exit_requested \in BOOLEAN
    /\ run_completed \in BOOLEAN
    /\ main \in {"joining", "stopping", "joining_tui", "reported"}
    /\ Swapping => tui \in {"final", "swapping"}

\* Once the dashboard says "done" the numbers on it are final: whatever the
\* workers still record, no later tick changes the totals being inspected.
FrozenAfterCompletion == [][run_completed => UNCHANGED totals]_allVars

\* A q that the dashboard's loop gets to see brings the program down, timer
\* or no timer and wherever the workers and the ticks are: the flag is
\* tripped, the workers leave at the head of their loop, main joins both.
\* (A terminal error between the key press and the head of the loop ends the
\* thread with the flag untouched, and the run goes on to its timer.)
QuitEndsTheRun == exit_requested /\ tui = "top" ~> main = "reported"

\* The comment on the final ingest says that it captures the last partial tick
\* "when the benchmark finishes": once the dashboard is marked done and the
\* workers are joined, everything they recorded should be in it.  The code
\* takes it when the flag goes up, while workers are in their last batch.
FinalIngestCapturesAll ==
    run_completed /\ main # "joining" =>
        \A k \in Cells : totals[k] = Applied(k)

=============================================================================
