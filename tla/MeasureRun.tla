------------------------------ MODULE MeasureRun -------------------------------
(***************************************************************************)
(* The measure verb (zerobench-cli/src/verbs/measure.rs, run) and the      *)
(* archive it keeps (zerobench-runtime/src/runner.rs, calibrate and        *)
(* ArchiveSession; zerobench-runtime/src/archive.rs, ArchiveWriter), with  *)
(* the compare verb that reads it (zerobench-cli/src/verbs/diff.rs).       *)
(*                                                                         *)
(* A process passes its gates, opens runs/<url_fp>/<run_id>/, writes three *)
(* sidecars, runs the warmup and the measured runs, and writes the other   *)
(* files, INDEX.json last.  It can die between any two system calls, and   *)
(* any of them can fail.                                                   *)
(*                                                                         *)
(* Files shared by two writers of one directory are not modelled beyond    *)
(* the moment both have it: OneWriterPerDirectory is about that moment.    *)
(***************************************************************************)
EXTENDS Naturals, Sequences

CONSTANTS Procs,       \* invocations of the tool on one machine
          PlanOf,      \* the plan and target of each of them
          ArgSets,     \* ArgSets[p]: the command lines p may be given
          Runs,        \* --runs
          Overlap,     \* whether two invocations may run at the same time
          MaxSeconds   \* bound: seconds on the wall clock

Flags == {"no_calibrate", "force_overload", "allow_coarse_clock", "no_archive"}

ASSUME MeasureAssumption ==
    /\ "nobody" \notin Procs
    /\ ArgSets \in [Procs -> SUBSET SUBSET Flags]
    /\ Runs \in Nat
    /\ Overlap \in BOOLEAN
    /\ MaxSeconds \in Nat \ {0}

VARIABLES now,      \* the wall clock, in seconds
          coarse,   \* the machine's monotonic clock is coarse
          args,     \* the flags on each command line
          check,    \* what the self-check of each process found
          overload, \* the local force_overload of each process
          pc,       \* where each process is
          started,  \* the second in which it opened its archive session
          written,  \* how many files it has completed
          stats,    \* all_stats: the windows pooled (0 is the warmup)
          per_run,  \* per_run: the windows listed one by one
          seen,     \* "ops" / "hard": what the measured windows produced
          exit,     \* how it ended
          files,    \* the files of each run directory
          tmp,      \* their <name>.tmp
          verdict   \* the last comparison made, <<baseline, current>>

procVars == <<args, check, overload, pc, started, written, stats, per_run,
              seen, exit>>
vars == <<now, coarse, procVars, files, tmp, verdict>>

-----------------------------------------------------------------------------
\* A wrong Writes: the completion marker is not written last.
WritesIndexEarly ==
    <<"plan.json", "machine.json", "env.json",
      "env.json", "INDEX.json", "result.json", "result.histlog">>

\* The files of a run, in the order in which they are written: three before
\* the first window, four after the last one.
Writes == <<"plan.json", "machine.json", "env.json",
            "env.json", "result.json", "result.histlog", "INDEX.json">>

BeforeRuns == 3

Names == {Writes[i] : i \in DOMAIN Writes}

\* run_id: the plan and target hashes and the second of the start.
Ids == {<<PlanOf[p], s>> : p \in Procs, s \in 1..MaxSeconds}
RunId(p) == <<PlanOf[p], started[p]>>

None == [whole |-> FALSE, by |-> "nobody", ended |-> FALSE, flags |-> {},
         pooled |-> << >>, runs |-> << >>]
Partial(p) == [None EXCEPT !.by = p]

\* What process p writes next.
EnvFlags(p) ==
    (IF overload[p] THEN {"force_overload"} ELSE {})
      \cup (IF "no_calibrate" \in args[p] THEN {"calibration_skipped"} ELSE {})

Content(p) ==
    LET name == Writes[written[p] + 1]
    IN [whole |-> TRUE,
        by |-> p,
        ended |-> name = "env.json" /\ written[p] >= BeforeRuns,
        flags |-> IF name = "env.json" THEN EnvFlags(p) ELSE {},
        pooled |-> IF name = "result.json" THEN stats[p] ELSE << >>,
        runs |-> IF name = "result.json" THEN per_run[p] ELSE << >>]

Archives(p) == "no_archive" \notin args[p]
Present(d, f) == files[d][f] # None

Goto(p, label) == pc' = [pc EXCEPT ![p] = label]

Leave(p, code) ==
    /\ pc' = [pc EXCEPT ![p] = "over"]
    /\ exit' = [exit EXCEPT ![p] = code]

-----------------------------------------------------------------------------
Init ==
    /\ now = 1
    /\ coarse \in BOOLEAN
    /\ args \in [Procs -> SUBSET Flags]
    /\ \A p \in Procs : args[p] \in ArgSets[p]
    /\ check = [p \in Procs |-> "none"]
    /\ overload = [p \in Procs |-> "force_overload" \in args[p]]
    /\ pc = [p \in Procs |-> "shell"]
    /\ started = [p \in Procs |-> 1]
    /\ written = [p \in Procs |-> 0]
    /\ stats = [p \in Procs |-> << >>]
    /\ per_run = [p \in Procs |-> << >>]
    /\ seen = [p \in Procs |-> {}]
    /\ exit = [p \in Procs |-> "running"]
    /\ files = [d \in Ids |-> [f \in Names |-> None]]
    /\ tmp = [d \in Ids |-> [f \in Names |-> None]]
    /\ verdict = << >>

Tick ==
    /\ now < MaxSeconds
    /\ now' = now + 1
    /\ UNCHANGED <<coarse, procVars, files, tmp, verdict>>

\* The command is entered.
Launch(p) ==
    /\ pc[p] = "shell"
    /\ Overlap \/ \A q \in Procs : pc[q] \in {"shell", "over"}
    /\ Goto(p, "calibrate")
    /\ UNCHANGED <<now, coarse, args, check, overload, started, written,
                   stats, per_run, seen, exit, files, tmp, verdict>>

\* calibrate: a broken self-check always refuses; an insufficient rate or a
\* jitter above the floor refuses unless --force-overload masks it.
Gates == {"broken", "slow", "jitter", "pass"}

Masked(p, found) == found \in {"slow", "jitter"} /\ "force_overload" \in args[p]

\* A wrong Calibrate: an insufficient rate is a warning.
CalibrateWarns(p) ==
    /\ pc[p] = "calibrate"
    /\ "no_calibrate" \notin args[p]
    /\ \E found \in Gates :
         /\ check' = [check EXCEPT ![p] = found]
         /\ IF found \in {"pass", "slow"} \/ Masked(p, found)
            THEN Goto(p, "clock") /\ UNCHANGED exit
            ELSE Leave(p, "error")
    /\ UNCHANGED <<now, coarse, args, overload, started, written, stats,
                   per_run, seen, files, tmp, verdict>>

Calibrate(p) ==
    /\ pc[p] = "calibrate"
    /\ "no_calibrate" \notin args[p]
    /\ \E found \in Gates :
         /\ check' = [check EXCEPT ![p] = found]
         /\ IF found = "pass" \/ Masked(p, found)
            THEN /\ overload' = [overload EXCEPT ![p] = @ \/ Masked(p, found)]
                 /\ Goto(p, "clock")
                 /\ UNCHANGED exit
            ELSE Leave(p, "error") /\ UNCHANGED overload
    /\ UNCHANGED <<now, coarse, args, started, written, stats, per_run, seen,
                   files, tmp, verdict>>

SkipCalibration(p) ==
    /\ pc[p] = "calibrate"
    /\ "no_calibrate" \in args[p]
    /\ Goto(p, "clock")
    /\ UNCHANGED <<now, coarse, args, check, overload, started, written,
                   stats, per_run, seen, exit, files, tmp, verdict>>

\* The machine-clock gate, then ArchiveSession::begin: the run id is made of
\* the second it starts in.
ClockGate(p) ==
    /\ pc[p] = "clock"
    /\ IF coarse /\ "allow_coarse_clock" \notin args[p]
       THEN Leave(p, "error") /\ UNCHANGED started
       ELSE /\ started' = [started EXCEPT ![p] = now]
            /\ Goto(p, IF Archives(p) THEN "opening" ELSE "warmup")
            /\ UNCHANGED exit
    /\ UNCHANGED <<now, coarse, args, check, overload, written, stats,
                   per_run, seen, files, tmp, verdict>>

\* A wrong OpenDirectory: a directory that is there is used.
OpenDirectoryAnyway(p) ==
    /\ pc[p] = "opening"
    /\ Goto(p, "create")
    /\ UNCHANGED <<now, coarse, args, check, overload, started, written,
                   stats, per_run, seen, exit, files, tmp, verdict>>

\* ArchiveWriter::begin: create_dir_all succeeds on a directory that is
\* there; read_dir then refuses one that is not empty.
OpenDirectory(p) ==
    /\ pc[p] = "opening"
    /\ IF \E f \in Names : files[RunId(p)][f] # None \/ tmp[RunId(p)][f] # None
       THEN Leave(p, "error")
       ELSE Goto(p, "create") /\ UNCHANGED exit
    /\ UNCHANGED <<now, coarse, args, check, overload, started, written,
                   stats, per_run, seen, files, tmp, verdict>>

-----------------------------------------------------------------------------
\* write_file: create <name>.tmp, write and fsync it, rename it.
CreateTmp(p) ==
    /\ pc[p] = "create"
    /\ tmp' = [tmp EXCEPT ![RunId(p)][Writes[written[p] + 1]] = Partial(p)]
    /\ Goto(p, "sync")
    /\ UNCHANGED <<now, coarse, args, check, overload, started, written,
                   stats, per_run, seen, exit, files, verdict>>

SyncTmp(p) ==
    /\ pc[p] = "sync"
    /\ tmp' = [tmp EXCEPT ![RunId(p)][Writes[written[p] + 1]] = Content(p)]
    /\ Goto(p, "rename")
    /\ UNCHANGED <<now, coarse, args, check, overload, started, written,
                   stats, per_run, seen, exit, files, verdict>>

\* After the third file the runs start; after the last one the verb ends:
\* with code 1 on hard errors or when nothing was measured.
ExitCode(p) == IF seen[p] = {"ops"} THEN "zero" ELSE "one"

RenameTmp(p) ==
    LET d == RunId(p)
        f == Writes[written[p] + 1]
    IN /\ pc[p] = "rename"
       /\ tmp[d][f] # None
       /\ files' = [files EXCEPT ![d][f] = tmp[d][f]]
       /\ tmp' = [tmp EXCEPT ![d][f] = None]
       /\ written' = [written EXCEPT ![p] = @ + 1]
       /\ IF written[p] + 1 = Len(Writes)
          THEN Leave(p, ExitCode(p))
          ELSE /\ Goto(p, IF written[p] + 1 = BeforeRuns THEN "warmup"
                                                         ELSE "create")
               /\ UNCHANGED exit
       /\ UNCHANGED <<now, coarse, args, check, overload, started, stats,
                      per_run, seen, verdict>>

\* A wrong IoError: the result of finalise is ignored.
IoErrorIgnored(p) ==
    /\ pc[p] \in {"opening", "create", "sync", "rename"}
    /\ Leave(p, IF written[p] < BeforeRuns THEN "error" ELSE ExitCode(p))
    /\ UNCHANGED <<now, coarse, args, check, overload, started, written,
                   stats, per_run, seen, files, tmp, verdict>>

\* A system call of begin or finalise fails: the error propagates with `?`
\* and leaves what is on the disk.
IoError(p) ==
    /\ pc[p] \in {"opening", "create", "sync", "rename"}
    /\ Leave(p, "error")
    /\ UNCHANGED <<now, coarse, args, check, overload, started, written,
                   stats, per_run, seen, files, tmp, verdict>>

-----------------------------------------------------------------------------
\* A wrong Warmup: its samples are pooled with those of the runs.
WarmupPooled(p) ==
    /\ pc[p] = "warmup"
    /\ Goto(p, "run")
    /\ stats' = [stats EXCEPT ![p] = <<0>>]
    /\ UNCHANGED <<now, coarse, args, check, overload, started, written,
                   per_run, seen, exit, files, tmp, verdict>>

\* The warmup before the first run (or none, --warmup 0): its samples are
\* discarded.
Warmup(p) ==
    /\ pc[p] = "warmup"
    /\ Goto(p, "run")
    /\ UNCHANGED <<now, coarse, args, check, overload, started, written,
                   stats, per_run, seen, exit, files, tmp, verdict>>

\* One measured window: pooled in all_stats and listed in per_run.  It may
\* produce operations, hard errors, or neither.
MeasuredRun(p) ==
    LET i == Len(per_run[p]) + 1
    IN /\ pc[p] = "run"
       /\ i <= Runs
       /\ stats' = [stats EXCEPT ![p] = Append(@, i)]
       /\ per_run' = [per_run EXCEPT ![p] = Append(@, i)]
       /\ \E produced \in SUBSET {"ops", "hard"} :
            seen' = [seen EXCEPT ![p] = @ \cup produced]
       /\ UNCHANGED <<now, coarse, args, check, overload, pc, started,
                      written, exit, files, tmp, verdict>>

\* All runs done: finalise, which does nothing without an archive.
Finalise(p) ==
    /\ pc[p] = "run"
    /\ Len(per_run[p]) = Runs
    /\ IF Archives(p) THEN Goto(p, "create") /\ UNCHANGED exit
                      ELSE Leave(p, ExitCode(p))
    /\ UNCHANGED <<now, coarse, args, check, overload, started, written,
                   stats, per_run, seen, files, tmp, verdict>>

\* The process is killed.
Crash(p) ==
    /\ pc[p] \notin {"shell", "over"}
    /\ Leave(p, "crashed")
    /\ UNCHANGED <<now, coarse, args, check, overload, started, written,
                   stats, per_run, seen, files, tmp, verdict>>

\* compare A B: load_export needs the two result.json and nothing else.
Compare(a, b) ==
    /\ Present(a, "result.json")
    /\ Present(b, "result.json")
    /\ verdict' = <<a, b>>
    /\ UNCHANGED <<now, coarse, procVars, files, tmp>>

ProcStep(p) ==
    \/ Launch(p)
    \/ Calibrate(p) \/ SkipCalibration(p) \/ ClockGate(p) \/ OpenDirectory(p)
    \/ CreateTmp(p) \/ SyncTmp(p) \/ RenameTmp(p) \/ IoError(p)
    \/ Warmup(p) \/ MeasuredRun(p) \/ Finalise(p) \/ Crash(p)

Next ==
    \/ Tick
    \/ \E p \in Procs : ProcStep(p)
    \/ \E a, b \in Ids : Compare(a, b)

Spec == Init /\ [][Next]_vars

-----------------------------------------------------------------------------
Contents == [whole : BOOLEAN, by : Procs \cup {"nobody"}, ended : BOOLEAN,
             flags : SUBSET {"force_overload", "calibration_skipped"},
             pooled : Seq(0..Runs), runs : Seq(0..Runs)]

TypeOK ==
    /\ now \in 1..MaxSeconds
    /\ coarse \in BOOLEAN
    /\ args \in [Procs -> SUBSET Flags]
    /\ check \in [Procs -> Gates \cup {"none"}]
    /\ overload \in [Procs -> BOOLEAN]
    /\ pc \in [Procs -> {"shell", "calibrate", "clock", "opening", "create",
                         "sync", "rename", "warmup", "run", "over"}]
    /\ started \in [Procs -> 1..MaxSeconds]
    /\ written \in [Procs -> 0..Len(Writes)]
    /\ stats \in [Procs -> Seq(0..Runs)]
    /\ per_run \in [Procs -> Seq(0..Runs)]
    /\ seen \in [Procs -> SUBSET {"ops", "hard"}]
    /\ exit \in [Procs -> {"running", "zero", "one", "error", "crashed"}]
    /\ files \in [Ids -> [Names -> Contents]]
    /\ tmp \in [Ids -> [Names -> Contents]]
    /\ verdict \in {<< >>} \cup (Ids \X Ids)

\* "A reader that finds INDEX.json can assume the archive is complete and
\* consistent": every sibling is there, all by one process, env.json is the
\* closing one and result.json has all the runs.  However the process dies
\* and whichever call fails.
IndexMeansComplete ==
    \A d \in Ids : Present(d, "INDEX.json") =>
        /\ \A f \in Names : files[d][f].by = files[d]["INDEX.json"].by
        /\ files[d]["env.json"].ended
        /\ files[d]["result.json"].runs = [i \in 1..Runs |-> i]

\* A complete archive is never written to again: a later invocation of the
\* same plan, even in the same second, is refused the directory.
ArchivesAreFinal ==
    [][\A d \in Ids : Present(d, "INDEX.json") => files'[d] = files[d]]_vars

\* A file under its final name never has partial content.
FilesAreWhole ==
    \A d \in Ids, f \in Names : Present(d, f) => files[d][f].whole

\* What a reader finds in an archive, file by file and as a whole, is good.
ArchivesAreSound == FilesAreWhole /\ IndexMeansComplete

\* The pooled summary of an archived result is made of exactly the windows
\* it lists run by run: the warmup is in neither.
ResultIsTheRuns ==
    \A d \in Ids :
        files[d]["result.json"].pooled = files[d]["result.json"].runs

\* A script that sees exit code 0 can rely on the run: operations, no hard
\* error, and, unless --no-archive, a complete archive in its directory.
ExitZeroMeansArchived ==
    \A p \in Procs : exit[p] = "zero" =>
        /\ seen[p] = {"ops"}
        /\ Archives(p) => files[RunId(p)]["INDEX.json"].by = p

\* A self-check that was skipped, or failed and was masked, is on record in
\* env.json from the first time it is written, and one that failed and nobody
\* masked never gets as far as an archive.  (Of the clock gate env.json says
\* nothing: see ClockBypassOnRecord.)
SelfCheckOnRecord ==
    \A p \in Procs : files[RunId(p)]["env.json"].by = p =>
        LET flags == files[RunId(p)]["env.json"].flags
        IN /\ check[p] # "broken"
           /\ check[p] \in {"slow", "jitter"} => "force_overload" \in flags
           /\ check[p] = "none" => "calibration_skipped" \in flags

-----------------------------------------------------------------------------
\* --allow-coarse-clock "stamps `clock_coarse: true` in env.json": a run that went
\* ahead on a coarse clock, past the gate that would refuse it, says so.  The code
\* has no such field; EnvFlags is all that it writes.
ClockBypassOnRecord ==
    \A p \in Procs : coarse /\ files[RunId(p)]["env.json"].by = p =>
        "clock_coarse" \in files[RunId(p)]["env.json"].flags

\* run_id is "a globally-unique [...] run identifier" and begin refuses a
\* directory in use: no two processes write into the same one.
HasDirectory(p) ==
    Archives(p) /\ pc[p] \in {"create", "sync", "rename", "warmup", "run"}

OneWriterPerDirectory ==
    \A p, q \in Procs :
        HasDirectory(p) /\ HasDirectory(q) /\ RunId(p) = RunId(q) => p = q

\* "--force-overload stamps the result archive [...] any compare against a
\* non-overloaded baseline fails loudly."
Overloaded(d) == "force_overload" \in files[d]["env.json"].flags

OverloadedNeverCompared ==
    verdict # << >> => (Overloaded(verdict[2]) => Overloaded(verdict[1]))

=============================================================================
