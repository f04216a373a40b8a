--------------------------- MODULE MeasureRunProofs ----------------------------
(***************************************************************************)
(* The archive of the measure verb, for any number of invocations, runs    *)
(* and seconds, however each of them ends: what a reader may rely on.      *)
(*                                                                         *)
(* Two invocations of one plan in one second have one run id; with both    *)
(* alive they would share a directory, which no theorem here is about: see *)
(* NoSharing.                                                              *)
(***************************************************************************)
EXTENDS MeasureRun, SequenceTheorems, TLAPS

\* Invocations that run at the same time are of different plans.
NoSharing == Overlap => \A p, q \in Procs : p # q => PlanOf[p] # PlanOf[q]

-----------------------------------------------------------------------------
(* The inductive invariant. *)

Early == {"shell", "calibrate", "clock", "opening"}
Saving == {"create", "sync", "rename"}
Alive(p) == pc[p] \notin {"shell", "over"}

\* What calibrate let pass is on the process's record.
Vetted(p) ==
    /\ check[p] # "broken"
    /\ check[p] \in {"slow", "jitter"} => overload[p]
    /\ check[p] = "none" => "no_calibrate" \in args[p]

\* How far a process is, by its place in the verb.
Course(p) ==
    /\ pc[p] \in Early => written[p] = 0 /\ per_run[p] = << >>
    /\ pc[p] \in {"shell", "calibrate"} => check[p] = "none"
    /\ pc[p] = "opening" => Archives(p)
    /\ pc[p] \in Saving =>
         /\ Archives(p) /\ written[p] < Len(Writes)
         /\ written[p] < BeforeRuns => per_run[p] = << >>
         /\ written[p] >= BeforeRuns => Len(per_run[p]) = Runs
    /\ pc[p] \in {"warmup", "run"} =>
         written[p] = IF Archives(p) THEN BeforeRuns ELSE 0
    /\ pc[p] = "warmup" => per_run[p] = << >>
    /\ written[p] > BeforeRuns => Len(per_run[p]) = Runs
    /\ pc[p] # "over" => written[p] < Len(Writes) /\ exit[p] = "running"
    /\ exit[p] = "zero" => /\ seen[p] = {"ops"}
                           /\ Archives(p) => written[p] = Len(Writes)
    /\ pc[p] \notin {"shell", "calibrate", "over"} \/ written[p] > 0 => Vetted(p)

\* The windows of a process: pooled as listed, one after the other.
Windows(p) ==
    /\ stats[p] = per_run[p]
    /\ Len(per_run[p]) <= Runs
    /\ \A i \in 1..Len(per_run[p]) : per_run[p][i] = i

Exclusive == \A p, q \in Procs :
    Alive(p) /\ Alive(q) /\ p # q => PlanOf[p] # PlanOf[q]

\* Every file is whole and in the directory of its writer; so is every
\* <name>.tmp, whole or not.
Owned == \A d \in Ids, f \in Names :
    /\ files[d][f] = None \/ \E p \in Procs :
         files[d][f].by = p /\ d = RunId(p) /\ files[d][f].whole
    /\ tmp[d][f] = None \/ \E p \in Procs :
         tmp[d][f].by = p /\ d = RunId(p) /\ pc[p] \notin Early

Wrote(p, f) == \E i \in 1..written[p] : Writes[i] = f

\* The files of a process are those it has written, with its flags and windows.
Ledger(p) ==
    /\ \A f \in Names : files[RunId(p)][f].by = p <=> Wrote(p, f)
    /\ Wrote(p, "env.json") =>
         /\ files[RunId(p)]["env.json"].flags = EnvFlags(p)
         /\ written[p] > BeforeRuns => files[RunId(p)]["env.json"].ended
    /\ Wrote(p, "result.json") =>
         /\ files[RunId(p)]["result.json"].pooled = per_run[p]
         /\ files[RunId(p)]["result.json"].runs = per_run[p]
    /\ pc[p] = "rename" =>
         tmp[RunId(p)][Writes[written[p] + 1]] = Content(p)

\* The directory of a live process has no files but its own.
Kept(p) == HasDirectory(p) => \A f \in Names :
    /\ files[RunId(p)][f].by \in {p, "nobody"}
    /\ tmp[RunId(p)][f].by \in {p, "nobody"}

MeasureInv ==
    /\ TypeOK /\ Exclusive /\ Owned
    /\ \A p \in Procs : Course(p) /\ Windows(p) /\ Ledger(p) /\ Kept(p)

-----------------------------------------------------------------------------
(* The files, and what one process sees of another. *)

\* env.json is the third file and the fourth, result.json the fifth and the
\* completion marker the last.
LEMMA WriteOrder ==
    /\ Len(Writes) = 7 /\ BeforeRuns = 3
    /\ \A i \in 1..7 : Writes[i] \in Names
    /\ "env.json" \in Names /\ "result.json" \in Names /\ "INDEX.json" \in Names
    /\ \A f \in Names : \E i \in 1..7 : Writes[i] = f
    /\ \A i \in 1..7 : /\ Writes[i] = "env.json" <=> i \in {3, 4}
                       /\ Writes[i] = "result.json" <=> i = 5
                       /\ Writes[i] = "INDEX.json" <=> i = 7
<1>1. Len(Writes) = 7 /\ DOMAIN Writes = 1..7 /\ BeforeRuns = 3
  BY DEF Writes, BeforeRuns
<1>2. /\ Writes[1] = "plan.json" /\ Writes[2] = "machine.json" /\ Writes[3] = "env.json"
      /\ Writes[4] = "env.json" /\ Writes[5] = "result.json"
      /\ Writes[6] = "result.histlog" /\ Writes[7] = "INDEX.json"
  BY DEF Writes
<1>3. \A i \in 1..7 : i = 1 \/ i = 2 \/ i = 3 \/ i = 4 \/ i = 5 \/ i = 6 \/ i = 7
  OBVIOUS
<1>4. 3 \in 1..7 /\ 5 \in 1..7 /\ 7 \in 1..7
  OBVIOUS
<1>5. Names = {Writes[i] : i \in 1..7}
  BY <1>1 DEF Names
<1>6. ASSUME NEW i \in 1..7
      PROVE  /\ Writes[i] = "env.json" <=> i \in {3, 4}
             /\ Writes[i] = "result.json" <=> i = 5
             /\ Writes[i] = "INDEX.json" <=> i = 7
  BY <1>2, <1>3
<1> QED  BY <1>1, <1>2, <1>4, <1>5, <1>6

\* The variables of one process have their types.
LEMMA ProcTyped ==
    ASSUME TypeOK, NEW p \in Procs
    PROVE  /\ RunId(p) \in Ids
           /\ written[p] \in 0..7 /\ started[p] \in 1..MaxSeconds
           /\ per_run[p] \in Seq(0..Runs) /\ stats[p] \in Seq(0..Runs)
           /\ Len(per_run[p]) \in Nat /\ args[p] \subseteq Flags
           /\ overload[p] \in BOOLEAN /\ seen[p] \subseteq {"ops", "hard"}
  BY WriteOrder, LenProperties DEF TypeOK, RunId, Ids

\* What a process is about to write is a file, and is not none.
LEMMA ContentTyped ==
    ASSUME TypeOK, NEW p \in Procs, pc[p] \in Saving, written[p] < 7
    PROVE  /\ None \in Contents /\ Partial(p) \in Contents /\ Content(p) \in Contents
           /\ None.by = "nobody" /\ Partial(p).by = p /\ Content(p).by = p
           /\ Content(p).whole
           /\ Partial(p) # None /\ Content(p) # None
<1>1. << >> \in Seq(0..Runs)
  OBVIOUS
<1>2. None \in Contents /\ None.by = "nobody"
  BY <1>1 DEF None, Contents
<1>4. Partial(p) \in Contents /\ Partial(p).by = p
  BY <1>2 DEF Partial, Contents
<1>5. EnvFlags(p) \subseteq {"force_overload", "calibration_skipped"}
  BY DEF EnvFlags
<1>6. Content(p) \in Contents /\ Content(p).by = p /\ Content(p).whole
  BY <1>1, <1>5, ProcTyped DEF Content, Contents
<1> QED  BY <1>2, <1>4, <1>6, MeasureAssumption

\* A file is stored under one name of one directory.
LEMMA Stored ==
    ASSUME NEW F \in [Ids -> [Names -> Contents]], NEW d \in Ids, NEW f \in Names,
           NEW v \in Contents
    PROVE  LET G == [F EXCEPT ![d][f] = v]
           IN  /\ G \in [Ids -> [Names -> Contents]]
               /\ \A e \in Ids : e # d => G[e] = F[e]
               /\ G[d][f] = v
               /\ \A g \in Names : g # f => G[d][g] = F[d][g]
  OBVIOUS

\* Process q does nothing in this step.
Same(q) ==
    /\ check'[q] = check[q] /\ overload'[q] = overload[q] /\ pc'[q] = pc[q]
    /\ started'[q] = started[q] /\ written'[q] = written[q]
    /\ stats'[q] = stats[q] /\ per_run'[q] = per_run[q]
    /\ seen'[q] = seen[q] /\ exit'[q] = exit[q]

OnlyMoves(p) == args' = args /\ \A q \in Procs : q # p => Same(q)

\* A process that does nothing keeps its course; and its files, if nobody
\* touches its directory.
LEMMA Bystander ==
    ASSUME NEW q \in Procs, args' = args, Same(q), Course(q), Windows(q)
    PROVE  /\ Course(q)' /\ Windows(q)'
           /\ RunId(q)' = RunId(q) /\ HasDirectory(q)' = HasDirectory(q)
           /\ /\ Ledger(q) /\ Kept(q)
              /\ files'[RunId(q)] = files[RunId(q)] /\ tmp'[RunId(q)] = tmp[RunId(q)]
              => Ledger(q)' /\ Kept(q)'
<1>1. Course(q)'
  BY DEF Same, Course, Vetted, Archives
<1>2. Windows(q)'
  BY DEF Same, Windows
<1>3. /\ RunId(q)' = RunId(q) /\ HasDirectory(q)' = HasDirectory(q)
      /\ EnvFlags(q)' = EnvFlags(q) /\ Content(q)' = Content(q)
      /\ \A f : Wrote(q, f)' = Wrote(q, f)
  BY DEF Same, RunId, HasDirectory, Archives, EnvFlags, Content, Wrote
<1>4. ASSUME Ledger(q), files'[RunId(q)] = files[RunId(q)],
             tmp'[RunId(q)] = tmp[RunId(q)]
      PROVE  Ledger(q)'
  BY <1>3, <1>4 DEF Ledger, Same
<1>5. ASSUME Kept(q), files'[RunId(q)] = files[RunId(q)],
             tmp'[RunId(q)] = tmp[RunId(q)]
      PROVE  Kept(q)'
  BY <1>3, <1>5 DEF Kept
<1> QED  BY <1>1, <1>2, <1>3, <1>4, <1>5

\* No process comes to life: the live ones are still of different plans.
LEMMA StillExclusive ==
    ASSUME Exclusive, NEW p \in Procs, OnlyMoves(p), Alive(p)' => Alive(p)
    PROVE  Exclusive'
  BY DEF Exclusive, OnlyMoves, Same, Alive

-----------------------------------------------------------------------------
(* What a step preserves. *)

\* A step of process p that touches no file.
LEMMA QuietStep ==
    ASSUME MeasureInv, TypeOK', NEW p \in Procs, OnlyMoves(p),
           UNCHANGED <<files, tmp>>, Exclusive', Course(p)', Windows(p)',
           written'[p] = written[p], pc'[p] # "rename",
           pc'[p] \in Early => pc[p] \in Early,
           started'[p] = started[p] \/ pc[p] \in Early,
           per_run'[p] = per_run[p] \/ written[p] <= BeforeRuns,
           overload'[p] = overload[p] \/ written[p] = 0,
           HasDirectory(p)' =>
             /\ RunId(p)' = RunId(p)
             /\ \/ HasDirectory(p)
                \/ \A f \in Names : /\ files[RunId(p)][f] = None
                                    /\ tmp[RunId(p)][f] = None
    PROVE  MeasureInv'
<1>1. /\ TypeOK /\ Exclusive /\ Owned
      /\ \A q \in Procs : Course(q) /\ Windows(q) /\ Ledger(q) /\ Kept(q)
  BY DEF MeasureInv
<1>2. RunId(p) \in Ids /\ RunId(p)' \in Ids /\ written[p] \in 0..7
  <2>1. started'[p] \in 1..MaxSeconds
    BY DEF TypeOK
  <2>2. RunId(p)' = <<PlanOf[p], started'[p]>>
    BY DEF RunId
  <2>3. RunId(p)' \in Ids
    BY <2>1, <2>2 DEF Ids
  <2> QED  BY <1>1, <2>3, ProcTyped
<1>3. None.by = "nobody" /\ "nobody" \notin Procs
  BY MeasureAssumption DEF None
<1>4. /\ \A f : Wrote(p, f)' = Wrote(p, f)
      /\ pc[p] \in Early => \A f : ~Wrote(p, f)
      /\ RunId(p)' = RunId(p) \/ pc[p] \in Early
  BY <1>1, <1>2 DEF Wrote, Course, RunId
<1>5. Owned'
  <2> SUFFICES ASSUME NEW d \in Ids, NEW f \in Names
               PROVE  /\ files[d][f] = None \/ \E q \in Procs :
                           files[d][f].by = q /\ d = RunId(q)' /\ files[d][f].whole
                      /\ tmp[d][f] = None \/ \E q \in Procs :
                           tmp[d][f].by = q /\ d = RunId(q)' /\ pc'[q] \notin Early
    BY DEF Owned
  <2>1. ASSUME NEW q \in Procs, files[d][f].by = q, d = RunId(q) PROVE d = RunId(q)'
    <3>1. CASE q = p
      BY <1>1, <1>4, <2>1, <3>1 DEF Ledger
    <3>2. CASE q # p
      BY <2>1, <3>2 DEF OnlyMoves, Same, RunId
    <3> QED  BY <3>1, <3>2
  <2>2. ASSUME NEW q \in Procs, tmp[d][f].by = q, d = RunId(q), pc[q] \notin Early
        PROVE  d = RunId(q)' /\ pc'[q] \notin Early
    <3>1. CASE q = p
      BY <1>4, <2>2, <3>1
    <3>2. CASE q # p
      BY <2>2, <3>2 DEF OnlyMoves, Same, RunId
    <3> QED  BY <3>1, <3>2
  <2> QED  BY <1>1, <2>1, <2>2 DEF Owned
<1>6. Ledger(p)'
  <2>1. \A f \in Names : files[RunId(p)'][f].by = p <=> Wrote(p, f)
    <3>1. CASE RunId(p)' = RunId(p)
      BY <1>1, <3>1 DEF Ledger
    <3>2. CASE pc[p] \in Early
      <4> SUFFICES ASSUME NEW f \in Names, files[RunId(p)'][f].by = p PROVE FALSE
        BY <1>4, <3>2
      <4>1. RunId(p)' = RunId(p)
        BY <1>1, <1>2, <1>3 DEF Owned
      <4> QED  BY <1>1, <1>4, <3>2, <4>1 DEF Ledger
    <3> QED  BY <1>4, <3>1, <3>2
  <2>2. ASSUME Wrote(p, "env.json")
        PROVE  /\ RunId(p)' = RunId(p) /\ EnvFlags(p)' = EnvFlags(p)
               /\ files[RunId(p)]["env.json"].flags = EnvFlags(p)
               /\ written[p] > BeforeRuns => files[RunId(p)]["env.json"].ended
    <3>1. written[p] > 0
      BY <1>2, <2>2 DEF Wrote
    <3>2. overload'[p] = overload[p]
      BY <1>2, <3>1
    <3> QED  BY <1>1, <1>4, <2>2, <3>2 DEF Ledger, EnvFlags, OnlyMoves
  <2>3. ASSUME Wrote(p, "result.json")
        PROVE  /\ RunId(p)' = RunId(p) /\ per_run'[p] = per_run[p]
               /\ files[RunId(p)]["result.json"].pooled = per_run[p]
               /\ files[RunId(p)]["result.json"].runs = per_run[p]
    <3>1. written[p] > 3
      BY <1>2, <2>3, WriteOrder DEF Wrote
    <3>2. per_run'[p] = per_run[p]
      BY <1>2, <3>1, WriteOrder
    <3> QED  BY <1>1, <1>4, <2>3, <3>2 DEF Ledger
  <2> QED  BY <1>4, <2>1, <2>2, <2>3 DEF Ledger
<1>7. Kept(p)'
  <2> SUFFICES ASSUME HasDirectory(p)', NEW f \in Names
               PROVE  /\ files[RunId(p)][f].by \in {p, "nobody"}
                      /\ tmp[RunId(p)][f].by \in {p, "nobody"}
    BY DEF Kept
  <2> QED  BY <1>1, <1>3 DEF Kept
<1>8. ASSUME NEW q \in Procs, q # p PROVE Course(q)' /\ Windows(q)' /\ Ledger(q)' /\ Kept(q)'
  BY <1>1, <1>8, Bystander DEF OnlyMoves
<1> QED  BY <1>1, <1>5, <1>6, <1>7, <1>8 DEF MeasureInv

\* A step of process p in its own directory.
LEMMA SavingStep ==
    ASSUME MeasureInv, TypeOK', NEW p \in Procs, OnlyMoves(p),
           HasDirectory(p), pc'[p] \notin Early, started' = started,
           Exclusive', Course(p)', Windows(p)', Ledger(p)',
           \A d \in Ids : d # RunId(p) => files'[d] = files[d] /\ tmp'[d] = tmp[d],
           \A f \in Names :
             /\ \/ files'[RunId(p)][f] = files[RunId(p)][f]
                \/ files'[RunId(p)][f].by = p /\ files'[RunId(p)][f].whole
             /\ \/ tmp'[RunId(p)][f] = tmp[RunId(p)][f]
                \/ tmp'[RunId(p)][f] = None
                \/ tmp'[RunId(p)][f].by = p
    PROVE  MeasureInv'
<1>1. /\ TypeOK /\ Exclusive /\ Owned
      /\ \A q \in Procs : Course(q) /\ Windows(q) /\ Ledger(q) /\ Kept(q)
  BY DEF MeasureInv
<1>2. /\ RunId(p) \in Ids /\ \A q \in Procs : RunId(q)' = RunId(q) /\ RunId(q) \in Ids
  BY <1>1, ProcTyped DEF RunId
<1>3. None.by = "nobody" /\ "nobody" \notin Procs
  BY MeasureAssumption DEF None
<1>4. pc[p] \notin Early /\ Alive(p)
  BY DEF HasDirectory, Early, Alive
<1>5. Owned'
  <2> SUFFICES ASSUME NEW d \in Ids, NEW f \in Names
               PROVE  /\ files'[d][f] = None \/ \E q \in Procs :
                           files'[d][f].by = q /\ d = RunId(q) /\ files'[d][f].whole
                      /\ tmp'[d][f] = None \/ \E q \in Procs :
                           tmp'[d][f].by = q /\ d = RunId(q) /\ pc'[q] \notin Early
    BY <1>2 DEF Owned
  <2>1. \A q \in Procs : pc[q] \notin Early => pc'[q] \notin Early
    BY DEF OnlyMoves, Same
  <2>2. CASE d # RunId(p)
    BY <1>1, <2>1, <2>2 DEF Owned
  <2>3. CASE d = RunId(p)
    BY <1>1, <2>1, <2>3 DEF Owned
  <2> QED  BY <2>2, <2>3
\* Of this directory, the files are the live process's.
<1>6. \A f \in Names : /\ files'[RunId(p)][f].by \in {p, "nobody"}
                       /\ tmp'[RunId(p)][f].by \in {p, "nobody"}
                       /\ files[RunId(p)][f].by \in {p, "nobody"}
  BY <1>1, <1>3 DEF Kept
<1>7. Kept(p)'
  BY <1>2, <1>6 DEF Kept
<1>8. ASSUME NEW q \in Procs, q # p PROVE Course(q)' /\ Windows(q)' /\ Ledger(q)' /\ Kept(q)'
  <2>1. /\ Same(q) /\ args' = args
        /\ Course(q)' /\ Windows(q)' /\ HasDirectory(q)' = HasDirectory(q)
    BY <1>1, <1>8, Bystander DEF OnlyMoves
  <2>2. CASE RunId(q) # RunId(p)
    BY <1>1, <1>2, <2>1, <2>2, Bystander
  <2>3. CASE RunId(q) = RunId(p)
    <3>1. ~HasDirectory(q)
      BY <1>1, <1>4, <1>8, <2>3 DEF Exclusive, HasDirectory, Alive, RunId
    <3>2. Kept(q)'
      BY <2>1, <3>1 DEF Kept
    <3>3. pc[q] # "rename"
      BY <1>1, <3>1 DEF Course, HasDirectory, Saving
    <3>4. \A f \in Names : ~Wrote(q, f)
      BY <1>1, <1>3, <1>6, <1>8, <2>3 DEF Ledger
    <3>5. \A f : Wrote(q, f)' = Wrote(q, f)
      BY <2>1 DEF Wrote, Same
    <3>6. \A f \in Names : files'[RunId(q)'][f].by # q
      BY <1>2, <1>3, <1>6, <1>8, <2>3
    <3>7. Ledger(q)'
      BY <2>1, <3>3, <3>4, <3>5, <3>6, WriteOrder DEF Ledger, Same
    <3> QED  BY <2>1, <3>2, <3>7
  <2> QED  BY <2>2, <2>3
<1> QED  BY <1>1, <1>5, <1>7, <1>8 DEF MeasureInv

-----------------------------------------------------------------------------
(* The steps of the verb. *)

LEMMA MeasureInit == Init => MeasureInv
<1> SUFFICES ASSUME Init PROVE MeasureInv
  OBVIOUS
<1>1. << >> \in Seq(0..Runs) /\ Len(<< >>) = 0
  OBVIOUS
<1>2. None \in Contents /\ None.by = "nobody" /\ "nobody" \notin Procs
  BY <1>1, MeasureAssumption DEF None, Contents
<1>3. TypeOK
  BY <1>1, <1>2, WriteOrder, MeasureAssumption DEF Init, TypeOK
<1>4. \A p \in Procs : RunId(p) \in Ids
  BY <1>3, ProcTyped
<1>5. Exclusive /\ Owned
  BY DEF Init, Exclusive, Owned, Alive
<1>6. ASSUME NEW p \in Procs PROVE Course(p) /\ Windows(p) /\ Ledger(p) /\ Kept(p)
  <2>1. Course(p)
    BY WriteOrder DEF Init, Course, Early, Saving
  <2>2. Windows(p)
    BY <1>1, MeasureAssumption DEF Init, Windows
  <2>3. \A f : ~Wrote(p, f)
    BY DEF Init, Wrote
  <2>4. Ledger(p)
    BY <1>2, <1>4, <2>3 DEF Init, Ledger
  <2>5. Kept(p)
    BY DEF Init, Kept, HasDirectory
  <2> QED  BY <2>1, <2>2, <2>4, <2>5
<1> QED  BY <1>3, <1>5, <1>6 DEF MeasureInv

\* A process that ends leaves everything as it is.
LEMMA LeaveKeepsInv ==
    ASSUME MeasureInv, NEW p \in Procs, pc[p] # "over",
           NEW code \in {"zero", "one", "error", "crashed"}, Leave(p, code),
           code = "zero" => /\ seen[p] = {"ops"}
                            /\ Archives(p) => written[p] = Len(Writes),
           check' = check \/ written[p] = 0, TypeOK',
           UNCHANGED <<args, overload, started, written, stats, per_run, seen,
                       files, tmp>>,
           \A q \in Procs : q # p => check'[q] = check[q]
    PROVE  MeasureInv'
<1>1. TypeOK /\ Exclusive /\ Course(p) /\ Windows(p) /\ written[p] \in 0..7
  BY ProcTyped DEF MeasureInv
<1>2. /\ pc'[p] = "over" /\ exit'[p] = code
      /\ \A q \in Procs : q # p => pc'[q] = pc[q] /\ exit'[q] = exit[q]
  BY <1>1 DEF TypeOK, Leave
<1>3. OnlyMoves(p)
  BY <1>2 DEF OnlyMoves, Same
<1>4. Course(p)'
  <2>1. written[p] > 0 => check'[p] = check[p]
    OBVIOUS
  <2> QED  BY <1>1, <1>2, <2>1, WriteOrder DEF Course, Early, Saving, Vetted, Archives
<1>5. Windows(p)'
  BY <1>1 DEF Windows
<1>6. Exclusive'
  BY <1>1, <1>2, <1>3, StillExclusive DEF Alive
<1> QED  BY <1>1, <1>2, <1>3, <1>4, <1>5, <1>6, QuietStep DEF HasDirectory, Early

\* Crash and IoError, whatever they interrupt.
LEMMA EndKeepsInv ==
    ASSUME MeasureInv, NEW p \in Procs, IoError(p) \/ Crash(p) PROVE MeasureInv'
<1>1. PICK code \in {"error", "crashed"} : pc[p] # "over" /\ Leave(p, code)
  BY DEF IoError, Crash
<1>2. TypeOK'
  BY <1>1 DEF MeasureInv, TypeOK, Leave, IoError, Crash
<1> QED  BY <1>1, <1>2, LeaveKeepsInv DEF IoError, Crash

\* The processes that run at one time are of different plans: Launch waits for
\* the others where two invocations would be of one.
LEMMA LaunchKeepsInv ==
    ASSUME NoSharing, MeasureInv, NEW p \in Procs, Launch(p) PROVE MeasureInv'
<1>1. /\ TypeOK /\ Exclusive /\ Course(p) /\ Windows(p)
      /\ pc' = [pc EXCEPT ![p] = "calibrate"]
      /\ UNCHANGED <<now, coarse, args, check, overload, started, written,
                     stats, per_run, seen, exit, files, tmp, verdict>>
  BY DEF MeasureInv, Launch, Goto
<1>2. TypeOK' /\ pc'[p] = "calibrate" /\ OnlyMoves(p)
  BY <1>1 DEF TypeOK, OnlyMoves, Same
<1>3. Exclusive'
  BY <1>1 DEF NoSharing, Launch, TypeOK, Exclusive, Alive
<1>4. Course(p)' /\ Windows(p)'
  BY <1>1, <1>2 DEF Launch, Course, Windows, Early, Saving, Vetted
<1> QED  BY <1>1, <1>2, <1>3, <1>4, QuietStep DEF Launch, Early, HasDirectory

LEMMA CalibrateKeepsInv ==
    ASSUME MeasureInv, NEW p \in Procs, Calibrate(p) \/ SkipCalibration(p)
    PROVE  MeasureInv'
<1>1. TypeOK /\ Exclusive /\ Course(p) /\ Windows(p) /\ written[p] = 0
  BY DEF MeasureInv, Course, Calibrate, SkipCalibration, Early
<1>2. CASE SkipCalibration(p)
  <2>1. /\ TypeOK' /\ pc'[p] = "clock" /\ OnlyMoves(p)
        /\ UNCHANGED <<args, check, overload, started, written, stats, per_run,
                       exit, files, tmp>>
    BY <1>1, <1>2 DEF SkipCalibration, Goto, TypeOK, OnlyMoves, Same
  <2>2. Vetted(p)
    BY <1>1, <1>2 DEF SkipCalibration, Vetted, Course
  <2>3. Course(p)' /\ Windows(p)'
    BY <1>1, <1>2, <2>1, <2>2 DEF SkipCalibration, Course, Windows, Early, Saving, Vetted
  <2>4. Exclusive'
    BY <1>1, <1>2, <2>1, StillExclusive DEF SkipCalibration, Alive
  <2> QED  BY <1>1, <1>2, <2>1, <2>3, <2>4, QuietStep DEF SkipCalibration, Early, HasDirectory
<1>3. CASE Calibrate(p)
  <2>1. PICK found \in Gates :
          /\ check' = [check EXCEPT ![p] = found]
          /\ IF found = "pass" \/ Masked(p, found)
             THEN /\ overload' = [overload EXCEPT ![p] = @ \/ Masked(p, found)]
                  /\ Goto(p, "clock")
                  /\ UNCHANGED exit
             ELSE Leave(p, "error") /\ UNCHANGED overload
    BY <1>3 DEF Calibrate
  <2>2. UNCHANGED <<now, coarse, args, started, written, stats, per_run, seen,
                    files, tmp, verdict>> /\ pc[p] = "calibrate"
    BY <1>3 DEF Calibrate
  <2>3. \A q \in Procs : q # p => check'[q] = check[q]
    BY <1>1, <2>1 DEF TypeOK
  <2>4. CASE found = "pass" \/ Masked(p, found)
    <3>1. /\ pc'[p] = "clock" /\ check'[p] = found
          /\ overload' = [overload EXCEPT ![p] = overload[p] \/ Masked(p, found)]
          /\ Masked(p, found) => overload'[p]
      <4>1. overload \in [Procs -> BOOLEAN]
        BY <1>1 DEF TypeOK
      <4>2. overload' = [overload EXCEPT ![p] = overload[p] \/ Masked(p, found)]
        BY <2>1, <2>4
      <4>3. Masked(p, found) => overload'[p]
        BY <4>1, <4>2, Zenon
      <4>4. pc'[p] = "clock" /\ check'[p] = found
        BY <1>1, <2>1, <2>4 DEF TypeOK, Goto
      <4> QED  BY <4>2, <4>3, <4>4
    <3>2. TypeOK'
      <4>1. overload' \in [Procs -> BOOLEAN]
        <5>1. (overload[p] \/ Masked(p, found)) \in BOOLEAN
          OBVIOUS
        <5> QED  BY <1>1, <3>1, <5>1 DEF TypeOK
      <4>2. pc' = [pc EXCEPT ![p] = "clock"] /\ exit' = exit
        BY <2>1, <2>4 DEF Goto
      <4> QED  BY <1>1, <2>1, <2>2, <4>1, <4>2 DEF TypeOK
    <3>3. OnlyMoves(p)
      BY <1>1, <2>1, <2>2, <2>4, <3>1 DEF TypeOK, Goto, OnlyMoves, Same
    <3>4. Vetted(p)'
      BY <2>1, <2>4, <3>1 DEF Vetted, Gates, Masked
    <3>5. Course(p)' /\ Windows(p)'
      BY <1>1, <2>1, <2>2, <2>4, <3>1, <3>4 DEF Course, Windows, Early, Saving
    <3>6. Exclusive'
      BY <1>1, <2>2, <3>3, StillExclusive DEF Alive
    <3> QED  BY <1>1, <2>2, <3>1, <3>2, <3>3, <3>5, <3>6, QuietStep DEF Early, HasDirectory
  <2>5. CASE ~(found = "pass" \/ Masked(p, found))
    <3>1. Leave(p, "error") /\ UNCHANGED overload
      BY <2>1, <2>5
    <3>2. TypeOK'
      BY <1>1, <2>1, <2>2, <3>1 DEF TypeOK, Leave
    <3> QED  BY <1>1, <2>2, <2>3, <3>1, <3>2, LeaveKeepsInv
  <2> QED  BY <2>4, <2>5
<1> QED  BY <1>2, <1>3

LEMMA ClockGateKeepsInv ==
    ASSUME MeasureInv, NEW p \in Procs, ClockGate(p) PROVE MeasureInv'
<1>1. /\ TypeOK /\ Exclusive /\ Course(p) /\ Windows(p) /\ pc[p] = "clock"
      /\ UNCHANGED <<now, coarse, args, check, overload, written, stats,
                     per_run, seen, files, tmp, verdict>>
  BY DEF MeasureInv, ClockGate
<1>2. CASE coarse /\ "allow_coarse_clock" \notin args[p]
  <2>1. Leave(p, "error") /\ UNCHANGED started
    BY <1>2 DEF ClockGate
  <2>2. TypeOK'
    BY <1>1, <2>1 DEF TypeOK, Leave
  <2> QED  BY <1>1, <2>1, <2>2, LeaveKeepsInv
<1>3. CASE ~(coarse /\ "allow_coarse_clock" \notin args[p])
  <2>1. /\ started' = [started EXCEPT ![p] = now] /\ UNCHANGED exit
        /\ pc' = [pc EXCEPT ![p] = IF Archives(p) THEN "opening" ELSE "warmup"]
    BY <1>3 DEF ClockGate, Goto
  <2>2. TypeOK' /\ OnlyMoves(p)
    BY <1>1, <2>1 DEF TypeOK, OnlyMoves, Same
  <2>3. /\ pc'[p] = IF Archives(p) THEN "opening" ELSE "warmup"
        /\ Archives(p)' = Archives(p)
    BY <1>1, <2>1 DEF TypeOK, Archives
  <2>4. Course(p)' /\ Windows(p)'
    BY <1>1, <2>1, <2>3, WriteOrder DEF Course, Windows, Early, Saving, Vetted
  <2>5. Exclusive'
    BY <1>1, <2>2, StillExclusive DEF Alive
  <2>6. ~HasDirectory(p)'
    BY <2>3 DEF HasDirectory
  <2> QED  BY <1>1, <2>1, <2>2, <2>3, <2>4, <2>5, <2>6, QuietStep DEF Early
<1> QED  BY <1>2, <1>3

\* begin finds the directory empty, or refuses it.
LEMMA OpenKeepsInv ==
    ASSUME MeasureInv, NEW p \in Procs, OpenDirectory(p) PROVE MeasureInv'
<1>1. /\ TypeOK /\ Exclusive /\ Course(p) /\ Windows(p) /\ pc[p] = "opening"
      /\ UNCHANGED <<now, coarse, args, check, overload, started, written, stats,
                     per_run, seen, files, tmp, verdict>>
  BY DEF MeasureInv, OpenDirectory
<1> DEFINE inUse == \E f \in Names : files[RunId(p)][f] # None \/ tmp[RunId(p)][f] # None
<1>2. CASE inUse
  <2>1. Leave(p, "error")
    BY <1>2 DEF OpenDirectory
  <2>2. TypeOK'
    BY <1>1, <2>1 DEF TypeOK, Leave
  <2> QED  BY <1>1, <2>1, <2>2, LeaveKeepsInv
<1>3. CASE ~inUse
  <2>1. pc' = [pc EXCEPT ![p] = "create"] /\ UNCHANGED exit
    BY <1>3 DEF OpenDirectory, Goto
  <2>2. TypeOK' /\ OnlyMoves(p) /\ pc'[p] = "create" /\ RunId(p)' = RunId(p)
    BY <1>1, <2>1 DEF TypeOK, OnlyMoves, Same, RunId
  <2>3. Course(p)' /\ Windows(p)'
    <3>1. Archives(p)
      BY <1>1 DEF Course
    <3> QED  BY <1>1, <2>1, <2>2, <3>1, WriteOrder
             DEF Course, Windows, Early, Saving, Vetted, Archives
  <2>4. Exclusive'
    BY <1>1, <2>2, StillExclusive DEF Alive
  <2> QED  BY <1>1, <1>3, <2>1, <2>2, <2>3, <2>4, QuietStep DEF Early
<1> QED  BY <1>2, <1>3

LEMMA WarmupKeepsInv ==
    ASSUME MeasureInv, NEW p \in Procs, Warmup(p) PROVE MeasureInv'
<1>1. /\ TypeOK /\ Exclusive /\ Course(p) /\ Windows(p) /\ pc[p] = "warmup"
      /\ pc' = [pc EXCEPT ![p] = "run"]
      /\ UNCHANGED <<now, coarse, args, check, overload, started, written,
                     stats, per_run, seen, exit, files, tmp, verdict>>
  BY DEF MeasureInv, Warmup, Goto
<1>2. TypeOK' /\ OnlyMoves(p) /\ pc'[p] = "run"
  BY <1>1 DEF TypeOK, OnlyMoves, Same
<1>3. Course(p)' /\ Windows(p)'
  BY <1>1, <1>2 DEF Course, Windows, Early, Saving, Vetted, Archives
<1>4. Exclusive' /\ RunId(p)' = RunId(p)
  BY <1>1, <1>2, StillExclusive DEF Alive, RunId
<1>5. HasDirectory(p)' => HasDirectory(p)
  BY <1>1, <1>2 DEF HasDirectory, Archives
<1> QED  BY <1>1, <1>2, <1>3, <1>4, <1>5, QuietStep DEF Early

\* Both lists of windows get the same one.
LEMMA RunKeepsInv ==
    ASSUME MeasureInv, NEW p \in Procs, MeasuredRun(p) PROVE MeasureInv'
<1> DEFINE i == Len(per_run[p]) + 1
<1>1. /\ TypeOK /\ Exclusive /\ Course(p) /\ Windows(p) /\ pc[p] = "run" /\ i <= Runs
      /\ stats' = [stats EXCEPT ![p] = Append(stats[p], i)]
      /\ per_run' = [per_run EXCEPT ![p] = Append(per_run[p], i)]
      /\ UNCHANGED <<now, coarse, args, check, overload, pc, started,
                     written, exit, files, tmp, verdict>>
  BY DEF MeasureInv, MeasuredRun
<1>2. PICK produced \in SUBSET {"ops", "hard"} :
        seen' = [seen EXCEPT ![p] = seen[p] \cup produced]
  BY DEF MeasuredRun
<1>3. /\ per_run[p] \in Seq(0..Runs) /\ stats[p] \in Seq(0..Runs)
      /\ Len(per_run[p]) \in Nat /\ i \in 0..Runs /\ i \in Nat /\ Runs \in Nat
  BY <1>1, ProcTyped, MeasureAssumption
<1>4. /\ Append(per_run[p], i) \in Seq(0..Runs) /\ Append(stats[p], i) \in Seq(0..Runs)
      /\ Len(Append(per_run[p], i)) = i
      /\ \A k \in 1..Len(per_run[p]) : Append(per_run[p], i)[k] = per_run[p][k]
      /\ Append(per_run[p], i)[i] = i
  BY <1>3, AppendProperties
<1>5. TypeOK'
  <2>1. /\ stats' \in [Procs -> Seq(0..Runs)] /\ per_run' \in [Procs -> Seq(0..Runs)]
        /\ seen' \in [Procs -> SUBSET {"ops", "hard"}]
    BY <1>1, <1>2, <1>4, ProcTyped DEF TypeOK
  <2> QED  BY <1>1, <2>1 DEF TypeOK
<1>6. OnlyMoves(p) /\ per_run'[p] = Append(per_run[p], i) /\ stats'[p] = Append(stats[p], i)
  BY <1>1, <1>2 DEF TypeOK, OnlyMoves, Same
<1> HIDE DEF i
<1>7. Windows(p)'
  <2>1. Len(per_run'[p]) = i /\ i <= Runs /\ stats'[p] = per_run'[p]
    BY <1>1, <1>4, <1>6 DEF Windows
  <2>2. ASSUME NEW k \in 1..i PROVE per_run'[p][k] = k
    <3>1. CASE k = i
      BY <1>4, <1>6, <3>1
    <3>2. CASE k # i
      <4>1. k \in 1..Len(per_run[p])
        BY <1>3, <3>2 DEF i
      <4> QED  BY <1>1, <1>4, <1>6, <4>1 DEF Windows
    <3> QED  BY <3>1, <3>2
  <2> QED  BY <2>1, <2>2 DEF Windows
<1>8. Course(p)' /\ written[p] <= BeforeRuns
  <2>1. /\ pc'[p] = "run" /\ exit'[p] = exit[p] /\ written'[p] = written[p]
        /\ Archives(p)' = Archives(p) /\ Vetted(p)' = Vetted(p)
        /\ check'[p] = check[p]
    BY <1>1 DEF Archives, Vetted
  <2>2. written[p] = IF Archives(p) THEN BeforeRuns ELSE 0
    BY <1>1 DEF Course
  <2> QED  BY <1>1, <2>1, <2>2, WriteOrder DEF Course, Early, Saving
<1>9. Exclusive' /\ RunId(p)' = RunId(p) /\ HasDirectory(p)' = HasDirectory(p)
  BY <1>1, <1>6, StillExclusive DEF Alive, RunId, HasDirectory, Archives
<1> QED  BY <1>1, <1>5, <1>6, <1>7, <1>8, <1>9, QuietStep DEF Early

LEMMA FinaliseKeepsInv ==
    ASSUME MeasureInv, NEW p \in Procs, Finalise(p) PROVE MeasureInv'
<1>1. /\ TypeOK /\ Exclusive /\ Course(p) /\ Windows(p) /\ pc[p] = "run"
      /\ Len(per_run[p]) = Runs
      /\ UNCHANGED <<now, coarse, args, check, overload, started, written,
                     stats, per_run, seen, files, tmp, verdict>>
  BY DEF MeasureInv, Finalise
<1>2. CASE Archives(p)
  <2>1. pc' = [pc EXCEPT ![p] = "create"] /\ exit' = exit
    BY <1>2 DEF Finalise, Goto
  <2>2. TypeOK' /\ OnlyMoves(p) /\ pc'[p] = "create"
    BY <1>1, <2>1 DEF TypeOK, OnlyMoves, Same
  <2>3. Course(p)' /\ Windows(p)'
    BY <1>1, <1>2, <2>1, <2>2, WriteOrder
    DEF Course, Windows, Early, Saving, Vetted, Archives
  <2>4. Exclusive' /\ RunId(p)' = RunId(p)
    BY <1>1, <2>2, StillExclusive DEF Alive, RunId
  <2> QED  BY <1>1, <1>2, <2>1, <2>2, <2>3, <2>4, QuietStep DEF Early, HasDirectory
<1>3. CASE ~Archives(p)
  <2>1. Leave(p, ExitCode(p))
    BY <1>3 DEF Finalise
  <2>2. ExitCode(p) \in {"zero", "one"} /\ (ExitCode(p) = "zero" => seen[p] = {"ops"})
    BY DEF ExitCode
  <2>3. TypeOK'
    BY <1>1, <2>1, <2>2 DEF TypeOK, Leave
  <2> QED  BY <1>1, <1>3, <2>1, <2>2, <2>3, LeaveKeepsInv
<1> QED  BY <1>2, <1>3

-----------------------------------------------------------------------------
(* write_file. *)

\* The name that a saving process is at, in its own directory.
LEMMA Saves ==
    ASSUME MeasureInv, NEW p \in Procs, pc[p] \in Saving
    PROVE  /\ HasDirectory(p) /\ RunId(p) \in Ids
           /\ written[p] \in 0..6 /\ written[p] + 1 \in 1..7
           /\ Writes[written[p] + 1] \in Names
           /\ Archives(p) /\ exit[p] = "running" /\ Vetted(p)
  <1>1. Course(p) /\ TypeOK
    BY DEF MeasureInv
  <1>2. written[p] \in 0..6 /\ Archives(p) /\ exit[p] = "running" /\ Vetted(p)
    BY <1>1, ProcTyped, WriteOrder DEF Course, Saving
  <1>3. written[p] + 1 \in 1..7
    BY <1>2
  <1> QED  BY <1>1, <1>2, <1>3, ProcTyped, WriteOrder DEF HasDirectory, Saving

LEMMA TmpKeepsInv ==
    ASSUME MeasureInv, NEW p \in Procs, CreateTmp(p) \/ SyncTmp(p) PROVE MeasureInv'
<1> DEFINE f == Writes[written[p] + 1]
<1>1. /\ TypeOK /\ Exclusive /\ Course(p) /\ Windows(p) /\ Ledger(p)
      /\ pc[p] \in Saving
      /\ UNCHANGED <<now, coarse, args, check, overload, started, written,
                     stats, per_run, seen, exit, files, verdict>>
  BY DEF MeasureInv, CreateTmp, SyncTmp, Saving
<1>2. PICK v \in {Partial(p), Content(p)}, to \in {"sync", "rename"} :
        /\ tmp' = [tmp EXCEPT ![RunId(p)][f] = v]
        /\ pc' = [pc EXCEPT ![p] = to]
        /\ to = "rename" => v = Content(p)
  BY DEF CreateTmp, SyncTmp, Goto
<1>3. /\ HasDirectory(p) /\ RunId(p) \in Ids /\ f \in Names
      /\ written[p] \in 0..6 /\ Archives(p) /\ exit[p] = "running" /\ Vetted(p)
  BY <1>1, Saves
<1>4. v \in Contents /\ v.by = p
  BY <1>1, <1>2, <1>3, ContentTyped
<1> HIDE DEF f
<1>5. /\ tmp' \in [Ids -> [Names -> Contents]]
      /\ \A e \in Ids : e # RunId(p) => tmp'[e] = tmp[e]
      /\ tmp'[RunId(p)][f] = v
      /\ \A g \in Names : g # f => tmp'[RunId(p)][g] = tmp[RunId(p)][g]
  <2>1. tmp \in [Ids -> [Names -> Contents]]
    BY <1>1 DEF TypeOK
  <2> QED  BY <1>2, <1>3, <1>4, <2>1, Stored
<1>6. TypeOK' /\ OnlyMoves(p) /\ pc'[p] = to
  BY <1>1, <1>2, <1>5 DEF TypeOK, OnlyMoves, Same
<1>7. Course(p)' /\ Windows(p)'
  <2>1. Archives(p)' = Archives(p) /\ Vetted(p)' = Vetted(p)
    BY <1>1 DEF Archives, Vetted
  <2> QED  BY <1>1, <1>3, <1>6, <2>1, WriteOrder DEF Course, Windows, Early, Saving
<1>8. Exclusive'
  BY <1>1, <1>6, StillExclusive DEF Alive, Saving
<1>9. Ledger(p)'
  <2>1. /\ RunId(p)' = RunId(p) /\ EnvFlags(p)' = EnvFlags(p)
        /\ Content(p)' = Content(p) /\ \A g : Wrote(p, g)' = Wrote(p, g)
    BY <1>1 DEF RunId, EnvFlags, Content, Wrote
  <2>2. pc'[p] = "rename" => tmp'[RunId(p)][f] = Content(p)
    BY <1>2, <1>5, <1>6
  <2> QED  BY <1>1, <2>1, <2>2 DEF Ledger, f
<1> QED  BY <1>1, <1>3, <1>4, <1>5, <1>6, <1>7, <1>8, <1>9, SavingStep DEF Early

LEMMA RenameKeepsInv ==
    ASSUME MeasureInv, NEW p \in Procs, RenameTmp(p) PROVE MeasureInv'
<1> DEFINE w == written[p]
           f == Writes[w + 1]
           d == RunId(p)
<1>1. /\ TypeOK /\ Exclusive /\ Course(p) /\ Windows(p) /\ Ledger(p)
      /\ pc[p] = "rename" /\ pc[p] \in Saving
      /\ files' = [files EXCEPT ![d][f] = tmp[d][f]]
      /\ tmp' = [tmp EXCEPT ![d][f] = None]
      /\ written' = [written EXCEPT ![p] = w + 1]
      /\ UNCHANGED <<now, coarse, args, check, overload, started, stats,
                     per_run, seen, verdict>>
  BY DEF MeasureInv, RenameTmp, Saving
<1>2. /\ HasDirectory(p) /\ d \in Ids /\ f \in Names /\ w \in 0..6 /\ w + 1 \in 1..7
      /\ Archives(p) /\ exit[p] = "running" /\ Vetted(p)
  BY <1>1, Saves
<1>3. PICK to \in {"create", "warmup", "over"} :
        /\ pc' = [pc EXCEPT ![p] = to]
        /\ to = "over" <=> w = 6
        /\ to = "warmup" <=> w = 2
        /\ exit' = IF to = "over" THEN [exit EXCEPT ![p] = ExitCode(p)] ELSE exit
  <2>1. /\ IF w + 1 = Len(Writes)
           THEN Leave(p, ExitCode(p))
           ELSE /\ Goto(p, IF w + 1 = BeforeRuns THEN "warmup" ELSE "create")
                /\ UNCHANGED exit
    BY DEF RenameTmp
  <2>2. Len(Writes) = 7 /\ BeforeRuns = 3
    BY WriteOrder
  <2> HIDE DEF w
  <2>3. CASE w = 6
    BY <2>1, <2>2, <2>3 DEF Leave
  <2>4. CASE w # 6
    BY <1>2, <2>1, <2>2, <2>4 DEF Goto
  <2> QED  BY <2>3, <2>4
<1>4. /\ tmp[d][f] = Content(p) /\ Content(p).by = p /\ Content(p).whole
      /\ Content(p) \in Contents /\ None \in Contents
  BY <1>1, <1>2, ContentTyped DEF Ledger
<1>5. /\ f = "env.json" /\ w >= BeforeRuns => Content(p).ended
      /\ Content(p).flags = IF f = "env.json" THEN EnvFlags(p) ELSE {}
      /\ Content(p).pooled = IF f = "result.json" THEN stats[p] ELSE << >>
      /\ Content(p).runs = IF f = "result.json" THEN per_run[p] ELSE << >>
  BY DEF Content
<1> HIDE DEF f, w, d
<1>6. /\ files' \in [Ids -> [Names -> Contents]] /\ tmp' \in [Ids -> [Names -> Contents]]
      /\ \A e \in Ids : e # d => files'[e] = files[e] /\ tmp'[e] = tmp[e]
      /\ files'[d][f] = Content(p) /\ tmp'[d][f] = None
      /\ \A g \in Names : g # f => files'[d][g] = files[d][g] /\ tmp'[d][g] = tmp[d][g]
  <2>1. files \in [Ids -> [Names -> Contents]] /\ tmp \in [Ids -> [Names -> Contents]]
    BY <1>1 DEF TypeOK
  <2>2. files' = [files EXCEPT ![d][f] = Content(p)]
    BY <1>1, <1>4
  <2> QED  BY <1>1, <1>2, <1>4, <2>1, <2>2, Stored
<1>7. ExitCode(p) \in {"zero", "one"} /\ (ExitCode(p) = "zero" => seen[p] = {"ops"})
  BY DEF ExitCode
<1>8. /\ OnlyMoves(p) /\ pc'[p] = to /\ written'[p] = w + 1
      /\ exit'[p] = IF to = "over" THEN ExitCode(p) ELSE "running"
  BY <1>1, <1>2, <1>3 DEF TypeOK, OnlyMoves, Same, w
<1>9. TypeOK'
  <2>1. written' \in [Procs -> 0..7]
    BY <1>1, <1>2, WriteOrder DEF TypeOK
  <2>2. exit' \in [Procs -> {"running", "zero", "one", "error", "crashed"}]
    BY <1>1, <1>3, <1>7 DEF TypeOK
  <2>3. pc' \in [Procs -> {"shell", "calibrate", "clock", "opening", "create",
                           "sync", "rename", "warmup", "run", "over"}]
    BY <1>1, <1>3 DEF TypeOK
  <2> QED  BY <1>1, <1>6, <2>1, <2>2, <2>3, WriteOrder DEF TypeOK
<1>10. Windows(p)' /\ Archives(p)' = Archives(p) /\ Vetted(p)' = Vetted(p)
       /\ per_run'[p] = per_run[p] /\ seen'[p] = seen[p]
  BY <1>1 DEF Windows, Archives, Vetted
<1>11. Course(p)'
  <2>1. w < 3 => per_run[p] = << >>
    BY <1>1, WriteOrder DEF Course, w
  <2>2. w >= 3 => Len(per_run[p]) = Runs
    BY <1>1, WriteOrder DEF Course, w
  <2>3. CASE to = "over"
    BY <1>2, <1>3, <1>7, <1>8, <1>10, <2>2, <2>3, WriteOrder DEF Course, Early, Saving
  <2>4. CASE to = "warmup"
    BY <1>2, <1>3, <1>8, <1>10, <2>1, <2>4, WriteOrder DEF Course, Early, Saving
  <2>5. CASE to = "create"
    BY <1>2, <1>3, <1>8, <1>10, <2>1, <2>2, <2>5, WriteOrder DEF Course, Early, Saving
  <2> QED  BY <2>3, <2>4, <2>5
<1>12. Exclusive'
  BY <1>1, <1>8, StillExclusive DEF Alive
<1>13. Ledger(p)'
  <2>1. /\ RunId(p)' = d /\ EnvFlags(p)' = EnvFlags(p) /\ stats[p] = per_run[p]
    BY <1>1 DEF RunId, EnvFlags, Windows, d
  <2>2. \A g \in Names : Wrote(p, g)' <=> Wrote(p, g) \/ g = f
    <3> SUFFICES ASSUME NEW g \in Names PROVE Wrote(p, g)' <=> Wrote(p, g) \/ g = f
      OBVIOUS
    <3>1. Wrote(p, g)' <=> \E i \in 1..(w + 1) : Writes[i] = g
      BY <1>8 DEF Wrote
    <3>2. Wrote(p, g) <=> \E i \in 1..w : Writes[i] = g
      BY DEF Wrote, w
    <3>3. f = Writes[w + 1]
      BY DEF f
    <3>4. \A i \in 1..(w + 1) : i \in 1..w \/ i = w + 1
      BY <1>2
    <3>5. \A i \in 1..w : i \in 1..(w + 1)
      BY <1>2
    <3> QED  BY <1>2, <3>1, <3>2, <3>3, <3>4, <3>5
  <2>3. \A g \in Names : files'[d][g].by = p <=> Wrote(p, g)'
    BY <1>1, <1>4, <1>6, <2>2 DEF Ledger, d
  <2>4. ASSUME Wrote(p, "env.json")'
        PROVE  /\ files'[d]["env.json"].flags = EnvFlags(p)
               /\ w + 1 > BeforeRuns => files'[d]["env.json"].ended
    <3>1. CASE f = "env.json"
      BY <1>2, <1>5, <1>6, <3>1, WriteOrder
    <3>2. CASE f # "env.json"
      <4>1. w # 3
        BY <1>2, <3>2, WriteOrder DEF f
      <4> QED  BY <1>1, <1>2, <1>6, <2>2, <2>4, <3>2, <4>1, WriteOrder DEF Ledger, d, w
    <3> QED  BY <3>1, <3>2
  <2>5. ASSUME Wrote(p, "result.json")'
        PROVE  /\ files'[d]["result.json"].pooled = per_run[p]
               /\ files'[d]["result.json"].runs = per_run[p]
    <3>1. CASE f = "result.json"
      BY <1>5, <1>6, <2>1, <3>1
    <3>2. CASE f # "result.json"
      BY <1>1, <1>6, <2>2, <2>5, <3>2, WriteOrder DEF Ledger, d
    <3> QED  BY <3>1, <3>2
  <2>6. pc'[p] # "rename"
    BY <1>8
  <2> QED  BY <1>8, <1>10, <2>1, <2>3, <2>4, <2>5, <2>6 DEF Ledger
<1> QED
  <2>1. pc'[p] \notin Early
    BY <1>8 DEF Early
  <2> QED  BY <1>1, <1>2, <1>4, <1>6, <1>8, <1>9, <1>10, <1>11, <1>12, <1>13, <2>1,
              SavingStep DEF d

-----------------------------------------------------------------------------
(* The theorems. *)

LEMMA MeasureStep == ASSUME NoSharing, MeasureInv, [Next]_vars PROVE MeasureInv'
<1>1. ASSUME NEW p \in Procs, ProcStep(p) PROVE MeasureInv'
  BY <1>1, LaunchKeepsInv, CalibrateKeepsInv, ClockGateKeepsInv, OpenKeepsInv,
     TmpKeepsInv, RenameKeepsInv, EndKeepsInv, WarmupKeepsInv, RunKeepsInv,
     FinaliseKeepsInv DEF ProcStep
<1>2. CASE UNCHANGED <<coarse, procVars, files, tmp>> /\ TypeOK'
  <2>1. UNCHANGED <<args, check, overload, pc, started, written, stats, per_run,
                    seen, exit, files, tmp>>
    BY <1>2 DEF procVars
  <2>2. Exclusive' /\ Owned'
    BY <2>1 DEF MeasureInv, Exclusive, Owned, Alive, RunId
  <2>3. ASSUME NEW q \in Procs PROVE Course(q)' /\ Windows(q)' /\ Ledger(q)' /\ Kept(q)'
    <3>1. Same(q) /\ Course(q) /\ Windows(q) /\ Ledger(q) /\ Kept(q)
      BY <2>1 DEF MeasureInv, Same
    <3> QED  BY <2>1, <3>1, Bystander
  <2> QED  BY <1>2, <2>2, <2>3 DEF MeasureInv
<1>3. CASE Tick
  <2>1. now' \in 1..MaxSeconds
    BY <1>3, MeasureAssumption DEF Tick, MeasureInv, TypeOK
  <2> QED  BY <1>2, <1>3, <2>1 DEF Tick, MeasureInv, TypeOK, procVars
<1>4. CASE \E a, b \in Ids : Compare(a, b)
  BY <1>2, <1>4 DEF Compare, MeasureInv, TypeOK, procVars
<1>5. CASE UNCHANGED vars
  BY <1>2, <1>5 DEF vars, MeasureInv, TypeOK, procVars
<1> QED  BY <1>1, <1>3, <1>4, <1>5 DEF Next

\* The inductive invariant holds in every state of the verb.
THEOREM MeasureInvariant == ASSUME NoSharing PROVE Spec => []MeasureInv
  BY MeasureInit, MeasureStep, PTL DEF Spec

\* ArchiveWriter: whatever fails and whenever a process dies, a file under its
\* final name is whole, and an archive with an INDEX.json has everything else.
THEOREM ArchiveSound == ASSUME NoSharing PROVE Spec => []ArchivesAreSound
<1>1. ASSUME MeasureInv PROVE ArchivesAreSound
  <2>1. None.by = "nobody" /\ "nobody" \notin Procs
    BY MeasureAssumption DEF None
  <2>2. FilesAreWhole
    BY <1>1 DEF MeasureInv, Owned, FilesAreWhole, Present
  <2>3. ASSUME NEW d \in Ids, Present(d, "INDEX.json")
        PROVE  /\ \A f \in Names : files[d][f].by = files[d]["INDEX.json"].by
               /\ files[d]["env.json"].ended
               /\ files[d]["result.json"].runs = [i \in 1..Runs |-> i]
    <3>1. PICK p \in Procs : files[d]["INDEX.json"].by = p /\ d = RunId(p)
      BY <1>1, <2>3, WriteOrder DEF MeasureInv, Owned, Present
    <3>2. /\ Ledger(p) /\ Course(p) /\ Windows(p)
          /\ written[p] \in 0..7 /\ per_run[p] \in Seq(0..Runs)
      BY <1>1, ProcTyped DEF MeasureInv
    <3>3. written[p] = 7
      <4>1. PICK i \in 1..written[p] : Writes[i] = "INDEX.json"
        BY <3>1, <3>2, WriteOrder DEF Ledger, Wrote
      <4>2. i \in 1..7
        BY <3>2
      <4> QED  BY <3>2, <4>1, <4>2, WriteOrder
    <3>4. \A f \in Names : Wrote(p, f)
      BY <3>3, WriteOrder DEF Wrote
    <3>5. per_run[p] = [i \in 1..Runs |-> i]
      <4>1. Len(per_run[p]) = Runs
        BY <3>2, <3>3, WriteOrder DEF Course
      <4>2. per_run[p] = [i \in 1..Runs |-> per_run[p][i]]
        BY <3>2, <4>1, LenProperties
      <4> QED  BY <3>2, <4>1, <4>2 DEF Windows
    <3> QED  BY <3>1, <3>2, <3>3, <3>4, <3>5, WriteOrder DEF Ledger
  <2> QED  BY <2>2, <2>3 DEF ArchivesAreSound, IndexMeansComplete
<1> QED  BY <1>1, MeasureInvariant, PTL

\* finalise: the pooled summary of result.json is that of the runs it lists.
THEOREM ResultOfTheRuns == ASSUME NoSharing PROVE Spec => []ResultIsTheRuns
<1>1. ASSUME MeasureInv PROVE ResultIsTheRuns
  <2> SUFFICES ASSUME NEW d \in Ids
               PROVE  files[d]["result.json"].pooled = files[d]["result.json"].runs
    BY DEF ResultIsTheRuns
  <2>1. CASE files[d]["result.json"] = None
    BY <2>1 DEF None
  <2>2. CASE files[d]["result.json"] # None
    <3>1. PICK p \in Procs : files[d]["result.json"].by = p /\ d = RunId(p)
      BY <1>1, <2>2, WriteOrder DEF MeasureInv, Owned
    <3> QED  BY <1>1, <3>1, WriteOrder DEF MeasureInv, Ledger
  <2> QED  BY <2>1, <2>2
<1> QED  BY <1>1, MeasureInvariant, PTL

\* The exit code of run: zero means operations, no hard error and a complete
\* archive, unless none was asked for.
THEOREM ZeroMeansArchived == ASSUME NoSharing PROVE Spec => []ExitZeroMeansArchived
<1>1. ASSUME MeasureInv PROVE ExitZeroMeansArchived
  <2> SUFFICES ASSUME NEW p \in Procs, exit[p] = "zero"
               PROVE  /\ seen[p] = {"ops"}
                      /\ Archives(p) => files[RunId(p)]["INDEX.json"].by = p
    BY DEF ExitZeroMeansArchived
  <2>1. /\ Course(p) /\ Ledger(p)
        /\ seen[p] = {"ops"} /\ (Archives(p) => written[p] = 7)
    BY <1>1, WriteOrder DEF MeasureInv, Course
  <2>2. ASSUME Archives(p) PROVE Wrote(p, "INDEX.json")
    BY <2>1, <2>2, WriteOrder DEF Wrote
  <2> QED  BY <2>1, <2>2, WriteOrder DEF Ledger
<1> QED  BY <1>1, MeasureInvariant, PTL

\* calibrate and env.json: a self-check that was skipped or masked is in the archive
\* of the process, from the first time env.json is there.
THEOREM SelfChecksAreOnRecord == ASSUME NoSharing PROVE Spec => []SelfCheckOnRecord
<1>1. ASSUME MeasureInv PROVE SelfCheckOnRecord
  <2> SUFFICES ASSUME NEW p \in Procs, files[RunId(p)]["env.json"].by = p
               PROVE  /\ check[p] # "broken"
                      /\ check[p] \in {"slow", "jitter"} =>
                           "force_overload" \in files[RunId(p)]["env.json"].flags
                      /\ check[p] = "none" =>
                           "calibration_skipped" \in files[RunId(p)]["env.json"].flags
    BY DEF SelfCheckOnRecord
  <2>1. Course(p) /\ Ledger(p) /\ written[p] \in 0..7
    BY <1>1, ProcTyped DEF MeasureInv
  <2>2. Wrote(p, "env.json")
    BY <2>1, WriteOrder DEF Ledger
  <2>3. written[p] > 0
    BY <2>1, <2>2 DEF Wrote
  <2>4. Vetted(p) /\ files[RunId(p)]["env.json"].flags = EnvFlags(p)
    BY <2>1, <2>2, <2>3 DEF Course, Ledger
  <2> QED  BY <2>4 DEF Vetted, EnvFlags
<1> QED  BY <1>1, MeasureInvariant, PTL

\* begin and rename: as long as no two invocations of one plan run together, no step
\* changes an archive that has its INDEX.json; a later invocation of the plan, in
\* the same second or not, is refused the directory.
THEOREM ArchiveFinal == ASSUME NoSharing PROVE Spec => ArchivesAreFinal
<1>1. ASSUME MeasureInv, [Next]_vars, NEW d \in Ids, Present(d, "INDEX.json")
      PROVE  files'[d] = files[d]
  <2>1. ASSUME NEW q \in Procs, RenameTmp(q) PROVE files'[d] = files[d]
    <3>1. HasDirectory(q) /\ RunId(q) \in Ids /\ pc[q] = "rename" /\ TypeOK
          /\ Writes[written[q] + 1] \in Names
      BY <1>1, <2>1, Saves DEF RenameTmp, Saving, MeasureInv
    <3>2. CASE d # RunId(q)
      BY <2>1, <3>1, <3>2 DEF RenameTmp, TypeOK
    <3>3. CASE d = RunId(q)
      <4>1. PICK p \in Procs : files[d]["INDEX.json"].by = p /\ d = RunId(p)
        BY <1>1, WriteOrder DEF MeasureInv, Owned, Present
      <4>2. files[d]["INDEX.json"].by \in {q, "nobody"} /\ "nobody" \notin Procs
        BY <1>1, <3>1, <3>3, WriteOrder, MeasureAssumption DEF MeasureInv, Kept
      <4>3. p = q /\ Ledger(q) /\ Course(q) /\ written[q] \in 0..6
        BY <1>1, <3>1, <4>1, <4>2, Saves DEF MeasureInv, Saving
      <4>4. PICK i \in 1..written[q] : Writes[i] = "INDEX.json"
        BY <4>1, <4>3, WriteOrder DEF Ledger, Wrote
      <4>5. i \in 1..7 /\ i # 7
        BY <4>3
      <4> QED  BY <4>4, <4>5, WriteOrder
    <3> QED  BY <3>2, <3>3
  <2>2. CASE UNCHANGED files
    BY <2>2
  <2>3. (\A q \in Procs : ~RenameTmp(q)) => UNCHANGED files
    BY <1>1 DEF Next, ProcStep, Tick, Launch, Calibrate, SkipCalibration, ClockGate,
       OpenDirectory, CreateTmp, SyncTmp, IoError, Warmup, MeasuredRun, Finalise,
       Crash, Compare, vars
  <2> QED  BY <2>1, <2>2, <2>3
<1>2. MeasureInv /\ [Next]_vars =>
        [\A d \in Ids : Present(d, "INDEX.json") => files'[d] = files[d]]_vars
  BY <1>1
<1> QED  BY <1>2, MeasureInvariant, PTL DEF Spec, ArchivesAreFinal

\* run_id and begin: as long as no two live invocations are of one plan, no
\* directory has two writers.
THEOREM OneWriter == ASSUME NoSharing PROVE Spec => []OneWriterPerDirectory
<1>1. MeasureInv => OneWriterPerDirectory
  BY DEF MeasureInv, Exclusive, OneWriterPerDirectory, HasDirectory, Alive, RunId
<1> QED  BY <1>1, MeasureInvariant, PTL

\* Every variable of the verb keeps its type.
THEOREM MeasureTypes == ASSUME NoSharing PROVE Spec => []TypeOK
<1>1. MeasureInv => TypeOK
  BY DEF MeasureInv
<1> QED  BY <1>1, MeasureInvariant, PTL

=============================================================================
