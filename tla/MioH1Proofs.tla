----------------------------- MODULE MioH1Proofs ------------------------------
(***************************************************************************)
(* One worker of the HTTP/1.1 event loop, for any number of connections,   *)
(* jobs and tokens per iteration, in both modes: where every job is, which *)
(* connections are idle, and what is lost when the worker leaves.          *)
(***************************************************************************)
EXTENDS MioH1, FiniteSetTheorems, SequenceTheorems, TLAPS

ConnRec == [st : InFlight \cup {"Idle", "Dead"}, job : 0..MaxJobs,
            got : 0..Complete]
SockRec == [req : BOOLEAN, sent : 0..Complete, kind : Kinds \cup {"keep"},
            peer : {"open", "fin", "rst"},
            out : {"clear", "full", "space"}, edge : BOOLEAN]
Fates == {"none", "sample", "write", "read", "keepup"}

Flying(j) == conn[j].st \in InFlight
Queued(n) == \E i \in DOMAIN pending : pending[i] = n

-----------------------------------------------------------------------------
(* The inductive invariant. *)

\* A job on a connection was scheduled, is recorded nowhere and is on no other
\* connection.
JobsInFlight ==
    /\ \A j \in Live : Flying(j) =>
         /\ conn[j].job \in 1..(next - 1)
         /\ fate[conn[j].job] = "none"
    /\ \A i, j \in Live :
         Flying(i) /\ Flying(j) /\ conn[i].job = conn[j].job => i = j

\* A queued job was scheduled, is not recorded, and is younger than the jobs
\* before it in the queue and those on a connection.
JobsQueued ==
    /\ \A i \in DOMAIN pending :
         pending[i] < next /\ fate[pending[i]] = "none"
    /\ \A i, k \in DOMAIN pending : i < k => pending[i] < pending[k]
    /\ \A i \in DOMAIN pending, j \in Live :
         Flying(j) => conn[j].job < pending[i]

\* No other job is without a record, and none has one before it is scheduled.
JobsElsewhere ==
    \A n \in Jobs :
        /\ n >= next => fate[n] = "none"
        /\ n < next /\ fate[n] = "none" =>
             Queued(n) \/ \E j \in Live : Flying(j) /\ conn[j].job = n

\* What the phases and the two modes have of the connections and the queues.
Shape ==
    /\ Len(sock) = Len(conn) /\ Len(opened) = Len(conn)
    /\ Len(conn) <= dialled
    /\ Len(pending) <= MaxPending
    /\ ~openLoop => pending = << >> /\ idle = << >>
    /\ phase = "connect" =>
         /\ pending = << >> /\ idle = << >> /\ next = 1
         /\ \A j \in Live : conn[j].st = "Idle"

Busy == ~openLoop /\ phase # "connect" /\ next \in Jobs =>
            \A j \in Live : conn[j].st # "Idle"

MioInv == /\ TypeOK /\ Shape
          /\ JobsInFlight /\ JobsQueued /\ JobsElsewhere
          /\ IdlePoolExact /\ Busy

-----------------------------------------------------------------------------
(* What the handlers do to the connection they work on. *)

SlotRec == [c : ConnRec, s : SockRec, idle : Seq(1..NumConns),
            next : 1..(MaxJobs + 1), fate : [Jobs -> Fates]]

Holding(x) == IF x.c.st \in InFlight THEN {x.c.job} ELSE {}

\* The job of the connection and the jobs to come are not recorded.
Sound(x) ==
    /\ x \in SlotRec
    /\ x.c.st \in InFlight =>
         x.c.job \in 1..(x.next - 1) /\ x.fate[x.c.job] = "none"
    /\ \A n \in Jobs : n >= x.next => x.fate[n] = "none"

\* Between x and y no job got lost: of the one the connection had and those
\* scheduled meanwhile, it has one or none, and all the others are recorded.
Accounts(x, y) ==
    /\ Sound(y) /\ y.idle = x.idle
    /\ x.next <= y.next /\ (openLoop => y.next = x.next)
    /\ Holding(y) \subseteq Holding(x) \cup (x.next..(y.next - 1))
    /\ \A n \in Jobs : n < x.next /\ n \notin Holding(x) =>
         y.fate[n] = x.fate[n]
    /\ \A n \in Jobs : n \in Holding(x) \/ n \in x.next..(y.next - 1) =>
         (y.fate[n] = "none" <=> n \in Holding(y))

\* A connection left without work has none to take, or is for the pool.
Settled(y) == y.c.st = "Idle" => openLoop \/ y.next \notin Jobs

LEMMA NothingDone == ASSUME NEW x, Sound(x) PROVE Accounts(x, x)
  BY MioAssumption DEF Accounts, Sound, SlotRec, Holding

LEMMA OneAfterAnother ==
    ASSUME NEW x, NEW y, NEW z, Sound(x), Accounts(x, y), Accounts(y, z)
    PROVE  Accounts(x, z)
<1>1. /\ x.next \in 1..(MaxJobs + 1) /\ y.next \in 1..(MaxJobs + 1)
      /\ z.next \in 1..(MaxJobs + 1)
  BY DEF Accounts, Sound, SlotRec
<1>2. \A n \in Holding(y) : n < y.next
  BY <1>1, MioAssumption DEF Accounts, Sound, Holding
<1>3. Holding(z) \subseteq Holding(x) \cup (x.next..(z.next - 1))
  BY <1>1, MioAssumption DEF Accounts
<1>4. ASSUME NEW n \in Jobs, n < x.next, n \notin Holding(x)
      PROVE  z.fate[n] = x.fate[n]
  BY <1>1, <1>4, MioAssumption DEF Accounts, Jobs
<1>5. ASSUME NEW n \in Jobs, n \in Holding(x) \/ n \in x.next..(z.next - 1)
      PROVE  z.fate[n] = "none" <=> n \in Holding(z)
  <2>1. CASE n \in Holding(y) \/ n \in y.next..(z.next - 1)
    BY <2>1 DEF Accounts
  <2>2. CASE ~(n \in Holding(y) \/ n \in y.next..(z.next - 1))
    <3>1. n < y.next /\ z.fate[n] = y.fate[n] /\ n \notin Holding(z)
      BY <1>1, <1>5, <2>2, MioAssumption DEF Accounts, Jobs, Holding, Sound
    <3>2. y.fate[n] # "none"
      BY <1>1, <1>5, <2>2, <3>1, MioAssumption DEF Accounts, Jobs
    <3> QED  BY <3>1, <3>2
  <2> QED  BY <2>1, <2>2
<1> QED  BY <1>1, <1>3, <1>4, <1>5 DEF Accounts

\* The job is recorded and the connection let go of.
Recorded(x, st, f) == Record([x EXCEPT !.c.st = st], f)

LEMMA RecordAccounts ==
    ASSUME NEW x, Sound(x), x.c.st \in InFlight,
           NEW st \in {"Idle", "Dead"}, NEW f \in Fates \ {"none"}
    PROVE  /\ Accounts(x, Recorded(x, st, f))
           /\ Recorded(x, st, f).c.st = st
<1> DEFINE y == Recorded(x, st, f)
<1>1. y = [x EXCEPT !.c = [x.c EXCEPT !.st = st],
                    !.fate = [x.fate EXCEPT ![x.c.job] = f]]
  BY DEF Recorded, Record, Sound, SlotRec, ConnRec
<1>2. x \in SlotRec /\ x.c \in ConnRec /\ x.fate \in [Jobs -> Fates]
      /\ x.c.job \in Jobs
  BY MioAssumption DEF Sound, SlotRec, ConnRec, Jobs
<1>3. /\ y.c.st = st /\ y.c.job = x.c.job /\ y.c.got = x.c.got
      /\ y.fate = [x.fate EXCEPT ![x.c.job] = f]
      /\ y.next = x.next /\ y.idle = x.idle /\ y.s = x.s
      /\ y.c = [x.c EXCEPT !.st = st]
  BY <1>1, <1>2 DEF SlotRec, ConnRec
<1>4. y.c \in ConnRec /\ y.fate \in [Jobs -> Fates]
  BY <1>2, <1>3 DEF ConnRec
<1>5. y \in SlotRec
  BY <1>1, <1>2, <1>4 DEF SlotRec
<1> HIDE DEF y
<1>6. Holding(y) = {} /\ Holding(x) = {x.c.job}
  BY <1>3 DEF Holding, InFlight, Reading
<1>7. Sound(y)
  BY <1>2, <1>3, <1>5, MioAssumption DEF Sound, InFlight, Reading, Jobs, SlotRec
<1>8. Accounts(x, y)
  <2>1. x.next \in 1..(MaxJobs + 1) /\ y.next = x.next /\ y.idle = x.idle
    BY <1>2, <1>3 DEF SlotRec
  <2>2. x.next..(y.next - 1) = {}
    BY <2>1, MioAssumption
  <2>3. \A n \in Jobs : n # x.c.job => y.fate[n] = x.fate[n]
    BY <1>2, <1>3
  <2>4. y.fate[x.c.job] # "none"
    BY <1>2, <1>3
  <2> QED  BY <1>6, <1>7, <2>1, <2>2, <2>3, <2>4, MioAssumption DEF Accounts
<1> QED  BY <1>3, <1>8 DEF y

LEMMA KillAccounts ==
    ASSUME NEW x, Sound(x), x.c.st \in InFlight, NEW f \in Fates \ {"none"}
    PROVE  Accounts(x, Kill(x, f)) /\ Settled(Kill(x, f))
           /\ Kill(x, f).c.st = "Dead"
<1>1. Kill(x, f) = Recorded(x, "Dead", f)
  BY DEF Kill, Recorded
<1> QED  BY <1>1, RecordAccounts DEF Settled

\* A change of the socket, of the response progress or between the states of a
\* request under way leaves the accounts alone.
LEMMA SameJob ==
    ASSUME NEW x, Sound(x), NEW y \in SlotRec,
           y.next = x.next, y.idle = x.idle, y.fate = x.fate,
           y.c.job = x.c.job, y.c.st \in InFlight <=> x.c.st \in InFlight
    PROVE  Accounts(x, y)
<1>1. Holding(y) = Holding(x) /\ Sound(y)
  BY DEF Holding, Sound
<1>2. x.next \in 1..(MaxJobs + 1)
  BY DEF Sound, SlotRec
<1>3. x.next..(y.next - 1) = {}
  BY <1>2, MioAssumption
<1>4. \A n \in Holding(x) : x.fate[n] = "none"
  BY DEF Holding, Sound
<1> QED  BY <1>1, <1>2, <1>3, <1>4, MioAssumption DEF Accounts

LEMMA FlushedIsSameJob ==
    ASSUME NEW x, Sound(x), x.c.st = "Writing"
    PROVE  Accounts(x, Flushed(x)) /\ Flushed(x).c.st = "ReadingHeaders"
<1> DEFINE y == Flushed(x)
<1>1. y = [x EXCEPT !.c = [x.c EXCEPT !.st = "ReadingHeaders"],
             !.s = [x.s EXCEPT !.req = TRUE, !.out = "clear",
                      !.peer = IF x.s.peer = "fin" THEN "rst" ELSE x.s.peer,
                      !.edge = x.s.edge \/ x.s.peer = "fin"]]
  BY DEF Flushed, Sound, SlotRec, ConnRec, SockRec
<1>2. x \in SlotRec /\ x.c \in ConnRec /\ x.s \in SockRec
  BY DEF Sound, SlotRec
<1>3. /\ y.c = [x.c EXCEPT !.st = "ReadingHeaders"]
      /\ y.s = [x.s EXCEPT !.req = TRUE, !.out = "clear",
                      !.peer = IF x.s.peer = "fin" THEN "rst" ELSE x.s.peer,
                      !.edge = x.s.edge \/ x.s.peer = "fin"]
      /\ y.next = x.next /\ y.idle = x.idle /\ y.fate = x.fate
  BY <1>1, <1>2 DEF SlotRec
<1>4. y.c \in ConnRec /\ y.c.st = "ReadingHeaders" /\ y.c.job = x.c.job
  BY <1>2, <1>3 DEF ConnRec, InFlight, Reading
<1>5. y.s \in SockRec
  BY <1>2, <1>3 DEF SockRec
<1>6. y \in SlotRec
  BY <1>1, <1>2, <1>4, <1>5 DEF SlotRec
<1> HIDE DEF y
<1>7. Accounts(x, y)
  BY <1>3, <1>4, <1>6, SameJob DEF InFlight, Reading
<1> QED  BY <1>4, <1>7 DEF y

LEMMA BlockedIsSameJob ==
    ASSUME NEW x, Sound(x), x.c.st = "Writing"
    PROVE  Accounts(x, Blocked(x)) /\ Blocked(x).c.st = "Writing"
<1> DEFINE y == Blocked(x)
<1>1. y = [x EXCEPT !.s = [x.s EXCEPT !.out = "full"]]
  BY DEF Blocked, Sound, SlotRec, SockRec
<1>2. x \in SlotRec /\ x.s \in SockRec
  BY DEF Sound, SlotRec
<1>3. /\ y.c = x.c /\ y.s = [x.s EXCEPT !.out = "full"]
      /\ y.next = x.next /\ y.idle = x.idle /\ y.fate = x.fate
  BY <1>1, <1>2 DEF SlotRec
<1>4. y.s \in SockRec
  BY <1>2, <1>3 DEF SockRec
<1>5. y \in SlotRec
  BY <1>1, <1>2, <1>4 DEF SlotRec
<1> HIDE DEF y
<1>6. Accounts(x, y)
  BY <1>3, <1>5, SameJob
<1> QED  BY <1>3, <1>6 DEF y

\* try_write
LEMMA TryWriteAccounts ==
    ASSUME NEW x, Sound(x), x.c.st = "Writing", NEW y \in TryWrite(x)
    PROVE  Accounts(x, y) /\ Settled(y) /\ y.c.st # "Idle"
<1>1. x.s.peer \in {"open", "fin", "rst"} /\ x.s.out \in {"clear", "full", "space"}
  BY DEF Sound, SlotRec, SockRec
<1>2. \/ y = Kill(x, "write") \/ y = Flushed(x) \/ y = Blocked(x) \/ y = x
  BY <1>1 DEF TryWrite
<1>3. Accounts(x, Kill(x, "write")) /\ Kill(x, "write").c.st = "Dead"
  BY KillAccounts DEF Fates, InFlight
<1> QED
  BY <1>2, <1>3, FlushedIsSameJob, BlockedIsSameJob, NothingDone
  DEF Settled

\* prepare_request takes a job n that is scheduled and not recorded.
LEMMA PrepareSound ==
    ASSUME NEW x \in SlotRec, NEW n \in 1..(x.next - 1), x.fate[n] = "none",
           \A k \in Jobs : k >= x.next => x.fate[k] = "none"
    PROVE  LET y == Prepare(x, n)
           IN  /\ Sound(y) /\ y.c.st = "Writing" /\ Holding(y) = {n}
               /\ y.next = x.next /\ y.idle = x.idle /\ y.fate = x.fate
<1> DEFINE y == Prepare(x, n)
<1>1. y = [x EXCEPT !.c = [st |-> "Writing", job |-> n, got |-> 0],
             !.s = [x.s EXCEPT !.req = FALSE, !.sent = 0, !.out = "clear"]]
  BY DEF Prepare, SlotRec, SockRec
<1>2. x.s \in SockRec /\ n \in 0..MaxJobs
  BY MioAssumption DEF SlotRec
<1>3. /\ y.c = [st |-> "Writing", job |-> n, got |-> 0]
      /\ y.s = [x.s EXCEPT !.req = FALSE, !.sent = 0, !.out = "clear"]
      /\ y.next = x.next /\ y.idle = x.idle /\ y.fate = x.fate
  BY <1>1, <1>2 DEF SlotRec
<1>4. y.c \in ConnRec
  BY <1>2, <1>3 DEF ConnRec, InFlight, Complete
<1>5. y.s \in SockRec
  <2>1. 0 \in 0..Complete
    BY DEF Complete
  <2> QED  BY <1>2, <1>3, <2>1 DEF SockRec
<1>6. y \in SlotRec
  BY <1>1, <1>4, <1>5 DEF SlotRec
<1> HIDE DEF y
<1>7. Sound(y)
  BY <1>3, <1>6 DEF Sound
<1>8. Holding(y) = {n}
  BY <1>3 DEF Holding, InFlight
<1> QED  BY <1>3, <1>7, <1>8 DEF y

\* Saturate: the next request, if the bound leaves one, on a connection that
\* has none.
LEMMA NextRequestAccounts ==
    ASSUME NEW x, Sound(x), x.c.st \notin InFlight, ~openLoop,
           NEW y \in NextRequest(x)
    PROVE  Accounts(x, y) /\ Settled(y)
<1>1. x \in SlotRec /\ x.next \in 1..(MaxJobs + 1)
  BY DEF Sound, SlotRec
<1>2. CASE x.next \notin Jobs
  BY <1>2, NothingDone DEF NextRequest, Settled
<1>3. CASE x.next \in Jobs
  <2> DEFINE z == [x EXCEPT !.next = x.next + 1]
             p == Prepare(z, x.next)
  <2>1. z \in SlotRec /\ z.next = x.next + 1 /\ z.c = x.c /\ z.s = x.s
        /\ z.idle = x.idle /\ z.fate = x.fate
    <3>1. x.next + 1 \in 1..(MaxJobs + 1)
      BY <1>3, MioAssumption DEF Jobs
    <3> QED  BY <1>1, <3>1 DEF SlotRec
  <2>2. x.fate[x.next] = "none" /\ \A k \in Jobs : k >= x.next => x.fate[k] = "none"
    BY <1>1, <1>3, MioAssumption DEF Sound, Jobs
  <2>3. [Prepare(x, x.next) EXCEPT !.next = @ + 1] = p
    BY <1>1, <1>3 DEF Prepare, SlotRec, SockRec
  <2> HIDE DEF z
  <2>4. /\ Sound(p) /\ p.c.st = "Writing" /\ Holding(p) = {x.next}
        /\ p.next = x.next + 1 /\ p.idle = x.idle /\ p.fate = x.fate
    <3>1. x.next \in 1..(z.next - 1)
      BY <1>1, <2>1, MioAssumption
    <3>2. \A k \in Jobs : k >= z.next => z.fate[k] = "none"
      BY <1>1, <2>1, <2>2, MioAssumption DEF Jobs
    <3> QED  BY <2>1, <2>2, <3>1, <3>2, PrepareSound
  <2> HIDE DEF p
  <2>5. Accounts(x, p)
    <3>1. Holding(x) = {} /\ x.next..(p.next - 1) = {x.next}
      BY <1>1, <2>4, MioAssumption DEF Holding
    <3> QED  BY <1>1, <2>2, <2>4, <3>1, MioAssumption DEF Accounts, Jobs
  <2>6. y \in TryWrite(p)
    BY <1>3, <2>3 DEF NextRequest
  <2>7. Accounts(p, y) /\ Settled(y)
    BY <2>4, <2>6, TryWriteAccounts
  <2> QED  BY <2>5, <2>7, OneAfterAnother
<1> QED  BY <1>2, <1>3

\* A response is complete.
LEMMA CompletedAccounts ==
    ASSUME NEW x, Sound(x), x.c.st \in InFlight, NEW st \in {"Idle", "Dead"},
           NEW y \in Completed(x, st)
    PROVE  Accounts(x, y) /\ Settled(y)
<1> DEFINE r == Recorded(x, st, "sample")
<1>1. Accounts(x, r) /\ r.c.st = st
  BY RecordAccounts DEF Fates
<1>2. Sound(r)
  BY <1>1 DEF Accounts
<1>3. Completed(x, st) = IF st # "Idle" THEN {r}
                         ELSE IF openLoop THEN {r} ELSE NextRequest(r)
  BY DEF Completed, Recorded
<1> HIDE DEF r
<1>4. CASE y = r /\ (st # "Idle" \/ openLoop)
  BY <1>1, <1>4 DEF Settled
<1>5. CASE ~openLoop /\ y \in NextRequest(r)
  <2>1. r.c.st \notin InFlight
    BY <1>1 DEF InFlight, Reading
  <2> QED  BY <1>1, <1>2, <1>5, <2>1, NextRequestAccounts, OneAfterAnother
<1> QED  BY <1>3, <1>4, <1>5

\* A step of the response progress or of the state of a request under way.
LEMMA ProgressAccounts ==
    ASSUME NEW x, Sound(x), x.c.st \in InFlight
    PROVE  /\ LET y == [x EXCEPT !.c.got = x.s.sent]
              IN  Accounts(x, y) /\ y.c.st = x.c.st /\ y.s = x.s
           /\ LET y == [x EXCEPT !.c.st = "ReadingBody"]
              IN  Accounts(x, y) /\ y.c.st = "ReadingBody"
<1> DEFINE y == [x EXCEPT !.c = [x.c EXCEPT !.got = x.s.sent]]
           z == [x EXCEPT !.c = [x.c EXCEPT !.st = "ReadingBody"]]
<1>1. x \in SlotRec /\ x.c \in ConnRec /\ x.s.sent \in 0..Complete
  BY DEF Sound, SlotRec, SockRec
<1>2. [x EXCEPT !.c.got = x.s.sent] = y /\ [x EXCEPT !.c.st = "ReadingBody"] = z
  BY <1>1 DEF SlotRec, ConnRec
<1>3. /\ y.c = [x.c EXCEPT !.got = x.s.sent] /\ y.s = x.s
      /\ y.next = x.next /\ y.idle = x.idle /\ y.fate = x.fate
  BY <1>1 DEF SlotRec
<1>4. y.c \in ConnRec /\ y.c.st = x.c.st /\ y.c.job = x.c.job
  BY <1>1, <1>3 DEF ConnRec
<1>5. y \in SlotRec
  BY <1>1, <1>4 DEF SlotRec
<1>6. /\ z.c = [x.c EXCEPT !.st = "ReadingBody"] /\ z.s = x.s
      /\ z.next = x.next /\ z.idle = x.idle /\ z.fate = x.fate
  BY <1>1 DEF SlotRec
<1>7. z.c \in ConnRec /\ z.c.st = "ReadingBody" /\ z.c.job = x.c.job
  BY <1>1, <1>6 DEF ConnRec, InFlight, Reading
<1>8. z \in SlotRec
  BY <1>1, <1>7 DEF SlotRec
<1> HIDE DEF y, z
<1>9. Accounts(x, y)
  BY <1>3, <1>4, <1>5, SameJob
<1>10. Accounts(x, z)
  BY <1>6, <1>7, <1>8, SameJob DEF InFlight, Reading
<1> QED  BY <1>2, <1>3, <1>4, <1>7, <1>9, <1>10

\* check_headers
LEMMA CheckHeadersAccounts ==
    ASSUME NEW x, Sound(x), x.c.st \in InFlight, NEW y \in CheckHeaders(x)
    PROVE  Accounts(x, y) /\ Settled(y)
<1> DEFINE b == [x EXCEPT !.c.st = "ReadingBody"]
<1>1. \/ y = Kill(x, "read") \/ y \in Completed(x, "Dead")
      \/ y \in Completed(x, "Idle") \/ y = b
  <2> HIDE DEF b
  <2>1. CheckHeaders(x) =
          CASE x.s.kind = "bad"   -> {Kill(x, "read")}
            [] x.s.kind = "nolen" -> Completed(x, "Dead")
            [] x.s.kind = "keep" /\ x.c.got = Complete -> Completed(x, "Idle")
            [] x.s.kind = "close" /\ x.c.got = Complete -> Completed(x, "Dead")
            [] OTHER -> {b}
    BY DEF CheckHeaders, b
  <2> QED  BY <2>1
<1> HIDE DEF b
<1>2. Accounts(x, b) /\ b.c.st = "ReadingBody"
  BY ProgressAccounts DEF b
<1> QED  BY <1>1, <1>2, KillAccounts, CompletedAccounts DEF Fates, Settled

\* try_read
LEMMA TryReadAccounts ==
    ASSUME NEW x, Sound(x), x.c.st \in Reading, NEW y \in TryRead(x)
    PROVE  Accounts(x, y) /\ Settled(y)
<1> DEFINE r == [x EXCEPT !.c.got = x.s.sent]
<1>1. x.c.st \in InFlight /\ x \in SlotRec
  BY DEF InFlight, Sound
<1>2. Accounts(x, r) /\ r.c.st = x.c.st /\ r.s = x.s
  BY <1>1, ProgressAccounts
<1>3. TryRead(x) =
        CASE r.s.peer # "open" -> {Kill(r, "read")}
          [] r.s.peer = "open" /\ r.c.got = 0 -> {r}
          [] r.s.peer = "open" /\ r.c.got > 0 ->
               IF r.c.st = "ReadingHeaders" THEN CheckHeaders(r)
               ELSE IF r.c.got = Complete THEN Completed(r, "Idle") ELSE {r}
  BY DEF TryRead
<1> HIDE DEF r
<1>4. Sound(r) /\ r.c.got \in Nat /\ r.c.st \in InFlight
  <2>1. r.c \in ConnRec
    BY <1>2 DEF Accounts, Sound, SlotRec
  <2> QED  BY <1>1, <1>2, <2>1 DEF Accounts, ConnRec, Complete
<1>5. \/ y = Kill(r, "read") \/ y = r \/ y \in CheckHeaders(r)
      \/ y \in Completed(r, "Idle")
  BY <1>3, <1>4
<1>6. Accounts(r, y) /\ Settled(y)
  <2>1. CASE y = r
    BY <1>2, <1>4, <2>1, NothingDone DEF Settled, Reading
  <2>2. CASE y = Kill(r, "read")
    BY <1>4, <2>2, KillAccounts DEF Fates
  <2> QED
    BY <1>4, <1>5, <2>1, <2>2, CheckHeadersAccounts, CompletedAccounts
<1> QED  BY <1>2, <1>6, OneAfterAnother

\* An event on a connection that is not dead.  In the open loop a connection
\* that has work becomes idle only by reading, and an idle one stays as it is.
LEMMA EventAccounts ==
    ASSUME NEW e, NEW x, Sound(x), Settled(x), x.c.st # "Dead",
           NEW y \in AfterWritable(e, x), NEW z \in AfterReadable(e, y)
    PROVE  /\ Accounts(x, z) /\ Settled(z)
           /\ openLoop /\ x.c.st = "Idle" => y = x /\ z = x
           /\ openLoop /\ x.c.st # "Idle" /\ z.c.st = "Idle" =>
                y.c.st \in Reading
<1>1. x.next \in 1..(MaxJobs + 1)
  BY DEF Sound, SlotRec
<1>2. \/ y = x
      \/ x.c.st = "Writing" /\ y \in TryWrite(x)
      \/ x.c.st = "Idle" /\ ~openLoop /\ y \in NextRequest(x)
  BY DEF AfterWritable
<1>3. Accounts(x, y) /\ Settled(y)
      /\ (openLoop /\ x.c.st # "Idle" => y.c.st # "Idle")
  <2>1. CASE y = x
    BY <2>1, NothingDone
  <2>2. CASE x.c.st = "Writing" /\ y \in TryWrite(x)
    BY <2>2, TryWriteAccounts
  <2>3. CASE x.c.st = "Idle" /\ ~openLoop /\ y \in NextRequest(x)
    BY <2>3, NextRequestAccounts DEF InFlight, Reading
  <2> QED  BY <1>2, <2>1, <2>2, <2>3
<1>4. z = y \/ (y.c.st \in Reading /\ z \in TryRead(y))
  BY DEF AfterReadable
<1>5. Sound(y)
  BY <1>3 DEF Accounts
<1>6. Accounts(y, z) /\ Settled(z)
  BY <1>3, <1>4, <1>5, NothingDone, TryReadAccounts
<1>7. Accounts(x, z)
  BY <1>3, <1>6, OneAfterAnother
<1>8. openLoop /\ x.c.st = "Idle" => y = x /\ z = x
  BY <1>2, <1>4 DEF Reading
<1>9. openLoop /\ x.c.st # "Idle" /\ z.c.st = "Idle" => y.c.st \in Reading
  BY <1>3, <1>4
<1> QED  BY <1>6, <1>7, <1>8, <1>9

-----------------------------------------------------------------------------
(* What that does to the worker. *)

\* TypeOK as the proofs use it: sequences as functions.
LEMMA Typed ==
    ASSUME TypeOK
    PROVE  /\ conn \in Seq(ConnRec) /\ sock \in Seq(SockRec)
           /\ idle \in Seq(1..NumConns) /\ pending \in Seq(Jobs)
           /\ Live = 1..Len(conn) /\ Len(conn) \in Nat /\ Len(sock) \in Nat
           /\ DOMAIN sock = 1..Len(sock)
           /\ \A j \in Live : conn[j] \in ConnRec
           /\ \A j \in 1..Len(sock) : sock[j] \in SockRec
           /\ DOMAIN pending = 1..Len(pending) /\ Len(pending) \in Nat
           /\ \A i \in DOMAIN pending : pending[i] \in Jobs
           /\ next \in 1..(MaxJobs + 1) /\ next \in Nat /\ MaxJobs \in Nat
           /\ fate \in [Jobs -> Fates]
<1>1. conn \in Seq(ConnRec) /\ sock \in Seq(SockRec) /\ pending \in Seq(Jobs)
      /\ idle \in Seq(1..NumConns) /\ fate \in [Jobs -> Fates]
      /\ next \in 1..(MaxJobs + 1)
  BY DEF TypeOK, ConnRec, SockRec, Fates
<1> QED  BY <1>1, MioAssumption DEF Live

LEMMA SlotIsSound ==
    ASSUME TypeOK, Shape, JobsInFlight, JobsElsewhere, Busy, NEW j \in Live
    PROVE  /\ Sound(Slot(j))
           /\ phase # "connect" => Settled(Slot(j))
<1>1. /\ Slot(j).c = conn[j] /\ Slot(j).s = sock[j] /\ Slot(j).idle = idle
      /\ Slot(j).next = next /\ Slot(j).fate = fate
  BY DEF Slot
<1>2. Slot(j) \in SlotRec
  BY Typed DEF Slot, SlotRec, Shape
<1> QED
  BY <1>1, <1>2 DEF Sound, Settled, JobsInFlight, JobsElsewhere, Busy, Flying

\* Store puts the results of a handler back.
LEMMA StoreKeepsType ==
    ASSUME TypeOK, Shape, NEW j \in Live, NEW y, Sound(y), Store(j, y)
    PROVE  /\ conn' \in Seq(ConnRec) /\ sock' \in Seq(SockRec)
           /\ Live' = Live /\ Len(conn') = Len(conn) /\ Len(sock') = Len(sock)
           /\ conn'[j] = y.c /\ \A i \in Live : i # j => conn'[i] = conn[i]
           /\ next' = y.next /\ fate' = y.fate
           /\ next' \in 1..(MaxJobs + 1) /\ fate' \in [Jobs -> Fates]
<1>1. y.c \in ConnRec /\ y.s \in SockRec /\ j \in 1..Len(conn) /\ j \in 1..Len(sock)
      /\ y.next \in 1..(MaxJobs + 1) /\ y.fate \in [Jobs -> Fates]
  BY Typed DEF Sound, SlotRec, Shape
<1>2. conn' = [conn EXCEPT ![j] = y.c] /\ sock' = [sock EXCEPT ![j] = y.s]
  BY DEF Store
<1>3. /\ conn' \in Seq(ConnRec) /\ Len(conn') = Len(conn)
      /\ sock' \in Seq(SockRec) /\ Len(sock') = Len(sock)
      /\ conn'[j] = y.c /\ \A i \in Live : i # j => conn'[i] = conn[i]
  BY <1>1, <1>2, Typed, ExceptSeq
<1>4. Live' = Live
  BY <1>2 DEF Live
<1> QED  BY <1>1, <1>3, <1>4 DEF Store

\* What is known of the other jobs while connection j is worked on as x, with
\* the job it had or with the one just taken from the queue.
Around(j, x) ==
    /\ \A i \in Live : i # j /\ Flying(i) => conn[i].job \notin Holding(x)
    /\ \A k \in DOMAIN pending' :
         /\ pending'[k] \in Jobs /\ pending'[k] < next
         /\ fate[pending'[k]] = "none"
         /\ \A n \in Holding(x) : n < pending'[k]
         /\ \A i \in Live : Flying(i) => conn[i].job < pending'[k]
    /\ \A k, l \in DOMAIN pending' : k < l => pending'[k] < pending'[l]
    /\ DOMAIN pending' # {} => openLoop
    /\ \A n \in Jobs : n < next /\ fate[n] = "none" =>
         \/ n \in Holding(x)
         \/ \E k \in DOMAIN pending' : pending'[k] = n
         \/ \E i \in Live : i # j /\ Flying(i) /\ conn[i].job = n

LEMMA AroundEvent ==
    ASSUME TypeOK, Shape, JobsInFlight, JobsQueued, JobsElsewhere,
           NEW j \in Live, pending' = pending
    PROVE  Around(j, Slot(j))
<1>1. Holding(Slot(j)) = IF Flying(j) THEN {conn[j].job} ELSE {}
  BY DEF Holding, Slot, Flying
<1>2. \A i \in Live : i # j /\ Flying(i) => conn[i].job \notin Holding(Slot(j))
  BY <1>1 DEF JobsInFlight
<1>3. \A k \in DOMAIN pending' :
         /\ pending'[k] \in Jobs /\ pending'[k] < next
         /\ fate[pending'[k]] = "none"
         /\ \A n \in Holding(Slot(j)) : n < pending'[k]
         /\ \A i \in Live : Flying(i) => conn[i].job < pending'[k]
  BY <1>1, Typed DEF JobsQueued
<1>4. \A k, l \in DOMAIN pending' : k < l => pending'[k] < pending'[l]
  BY DEF JobsQueued
<1>5. DOMAIN pending' # {} => openLoop
  BY Typed, EmptySeq DEF Shape
<1>6. \A n \in Jobs : n < next /\ fate[n] = "none" =>
         \/ n \in Holding(Slot(j))
         \/ \E k \in DOMAIN pending' : pending'[k] = n
         \/ \E i \in Live : i # j /\ Flying(i) /\ conn[i].job = n
  BY <1>1 DEF JobsElsewhere, Queued
<1> QED  BY <1>2, <1>3, <1>4, <1>5, <1>6 DEF Around

LEMMA AroundAssign ==
    ASSUME TypeOK, Shape, JobsInFlight, JobsQueued, JobsElsewhere,
           NEW j \in Live, ~Flying(j), pending # << >>, pending' = Tail(pending),
           NEW x, Holding(x) = {Head(pending)}
    PROVE  Around(j, x)
<1>1. /\ Head(pending) = pending[1] /\ Tail(pending) \in Seq(Jobs)
      /\ Len(pending) \in Nat \ {0}
      /\ DOMAIN pending = 1..Len(pending)
      /\ DOMAIN pending' = 1..(Len(pending) - 1)
      /\ \A k \in DOMAIN pending' : pending'[k] = pending[k + 1]
  BY Typed, HeadTailProperties, EmptySeq
<1>2. \A k \in DOMAIN pending' : k + 1 \in DOMAIN pending /\ 1 < k + 1
  BY <1>1
<1>3. 1 \in DOMAIN pending /\ openLoop
  BY <1>1 DEF Shape
<1>4. \A i \in Live : i # j /\ Flying(i) => conn[i].job \notin Holding(x)
  <2>1. ASSUME NEW i \in Live, Flying(i)
        PROVE  conn[i].job < pending[1] /\ conn[i].job \in Nat
    <3>1. conn[i].job < pending[1]
      BY <1>3, <2>1 DEF JobsQueued
    <3>2. conn[i].job \in Nat
      <4>1. conn[i] \in ConnRec
        BY Typed
      <4> QED  BY <4>1, MioAssumption DEF ConnRec
    <3> QED  BY <3>1, <3>2
  <2>2. pending[1] \in Nat
    BY <1>3, Typed DEF Jobs
  <2> QED  BY <1>1, <2>1, <2>2
<1>5. \A k \in DOMAIN pending' :
         /\ pending'[k] \in Jobs /\ pending'[k] < next
         /\ fate[pending'[k]] = "none"
         /\ \A n \in Holding(x) : n < pending'[k]
         /\ \A i \in Live : Flying(i) => conn[i].job < pending'[k]
  <2> SUFFICES ASSUME NEW k \in DOMAIN pending'
               PROVE  /\ pending'[k] \in Jobs /\ pending'[k] < next
                      /\ fate[pending'[k]] = "none"
                      /\ \A n \in Holding(x) : n < pending'[k]
                      /\ \A i \in Live : Flying(i) => conn[i].job < pending'[k]
    OBVIOUS
  <2>1. k + 1 \in DOMAIN pending /\ 1 < k + 1 /\ pending'[k] = pending[k + 1]
    BY <1>1, <1>2
  <2>2. pending[1] < pending[k + 1]
    BY <1>3, <2>1 DEF JobsQueued
  <2> QED  BY <1>1, <2>1, <2>2, Typed DEF JobsQueued
<1>6. \A k, l \in DOMAIN pending' : k < l => pending'[k] < pending'[l]
  <2> SUFFICES ASSUME NEW k \in DOMAIN pending', NEW l \in DOMAIN pending', k < l
               PROVE  pending'[k] < pending'[l]
    OBVIOUS
  <2>1. k + 1 < l + 1
    BY <1>1
  <2> QED  BY <1>1, <1>2, <2>1 DEF JobsQueued
<1>7. ASSUME NEW n \in Jobs, n < next, fate[n] = "none"
      PROVE  \/ n \in Holding(x)
             \/ \E k \in DOMAIN pending' : pending'[k] = n
             \/ \E i \in Live : i # j /\ Flying(i) /\ conn[i].job = n
  <2>1. CASE Queued(n)
    <3>1. PICK k \in DOMAIN pending : pending[k] = n
      BY <2>1 DEF Queued
    <3>2. CASE k = 1
      BY <1>1, <3>1, <3>2
    <3>3. CASE k # 1
      <4>1. k - 1 \in DOMAIN pending' /\ (k - 1) + 1 = k
        BY <1>1, <3>3
      <4>2. pending'[k - 1] = n
        BY <1>1, <3>1, <4>1
      <4> QED  BY <4>1, <4>2
    <3> QED  BY <3>2, <3>3
  <2>2. CASE \E i \in Live : Flying(i) /\ conn[i].job = n
    BY <2>2
  <2> QED  BY <1>7, <2>1, <2>2 DEF JobsElsewhere
<1> QED  BY <1>3, <1>4, <1>5, <1>6, <1>7 DEF Around

\* The handler's result goes back into the table: the ledger balances.
LEMMA StoreKeepsLedger ==
    ASSUME TypeOK, Shape, JobsInFlight, JobsQueued, JobsElsewhere,
           NEW j \in Live, NEW x, Sound(x), x.next = next, x.fate = fate,
           Around(j, x), NEW y, Accounts(x, y), Store(j, y)
    PROVE  JobsInFlight' /\ JobsQueued' /\ JobsElsewhere'
<1>1. /\ Live' = Live /\ conn'[j] = y.c
      /\ \A i \in Live : i # j => conn'[i] = conn[i]
      /\ next' = y.next /\ fate' = y.fate /\ next' \in Nat
      /\ \A i \in Live : conn[i] \in ConnRec
      /\ next \in Nat /\ MaxJobs \in Nat /\ next >= 1
      /\ next' \in 1..(MaxJobs + 1)
  BY Typed, StoreKeepsType DEF Accounts
<1>2. \A i \in Live : i # j => (Flying(i)' <=> Flying(i))
  BY <1>1 DEF Flying
<1>3. Holding(y) = IF Flying(j)' THEN {conn'[j].job} ELSE {}
  BY <1>1 DEF Holding, Flying
<1>4. \A n \in Holding(x) : n \in Jobs /\ n < next
  <2>1. next - 1 <= MaxJobs
    BY Typed
  <2> QED  BY <1>1, <2>1 DEF Sound, Holding, Jobs
<1>5. \A i \in Live : i # j /\ Flying(i) =>
        conn[i].job \in Jobs /\ conn[i].job < next /\ conn[i].job >= 1
        /\ fate'[conn[i].job] = "none"
  BY <1>1 DEF JobsInFlight, Jobs, Around, Accounts
<1>6. \A n \in Holding(y) : n \in 1..(next' - 1) /\ fate'[n] = "none"
  BY <1>1 DEF Accounts, Sound, Holding
<1>7. next <= next' /\ (openLoop => next' = next)
  BY <1>1 DEF Accounts
<1>8. JobsInFlight'
  <2>1. ASSUME NEW i \in Live', Flying(i)'
        PROVE  conn'[i].job \in 1..(next' - 1) /\ fate'[conn'[i].job] = "none"
    <3>1. CASE i = j
      BY <1>3, <1>6, <2>1, <3>1
    <3>2. CASE i # j
      <4>1. conn'[i] = conn[i] /\ conn[i].job \in Nat
        BY <1>1, <2>1, <3>2 DEF ConnRec
      <4> QED  BY <1>1, <1>2, <1>5, <1>7, <2>1, <3>2, <4>1
    <3> QED  BY <3>1, <3>2
  <2>2. ASSUME NEW i \in Live, i # j, Flying(i), Flying(j)'
        PROVE  conn'[i].job # conn'[j].job
    <3>1. conn[i].job \notin Holding(x) /\ conn[i].job < next /\ conn[i].job \in Nat
      BY <1>1, <1>5, <2>2 DEF Around, ConnRec
    <3>2. conn'[j].job \in Holding(x) \/ conn'[j].job >= next
      BY <1>1, <1>3, <2>2 DEF Accounts
    <3> QED  BY <1>1, <2>2, <3>1, <3>2
  <2>3. ASSUME NEW i \in Live', NEW k \in Live', Flying(i)', Flying(k)',
               conn'[i].job = conn'[k].job
        PROVE  i = k
    BY <1>1, <1>2, <2>2, <2>3 DEF JobsInFlight
  <2> QED  BY <2>1, <2>3 DEF JobsInFlight
<1>9. JobsQueued'
  <2>1. ASSUME NEW k \in DOMAIN pending'
        PROVE  /\ pending'[k] < next' /\ fate'[pending'[k]] = "none"
               /\ \A i \in Live' : Flying(i)' => conn'[i].job < pending'[k]
    <3>1. /\ pending'[k] \in Jobs /\ pending'[k] < next /\ openLoop
          /\ fate[pending'[k]] = "none" /\ \A n \in Holding(x) : n < pending'[k]
          /\ \A i \in Live : Flying(i) => conn[i].job < pending'[k]
      BY <2>1 DEF Around
    <3>2. next' = next /\ pending'[k] \notin Holding(x)
      BY <1>1, <1>4, <1>7, <3>1 DEF Jobs
    <3>3. fate'[pending'[k]] = "none"
      BY <1>1, <3>1, <3>2 DEF Accounts
    <3>4. next..(next' - 1) = {}
      BY <1>1, <3>2
    <3>5. Holding(y) \subseteq Holding(x)
      BY <1>1, <3>4 DEF Accounts
    <3>6. ASSUME NEW i \in Live', Flying(i)' PROVE conn'[i].job < pending'[k]
      BY <1>1, <1>2, <1>3, <3>1, <3>5, <3>6
    <3> QED  BY <3>1, <3>2, <3>3, <3>6
  <2>2. \A k, l \in DOMAIN pending' : k < l => pending'[k] < pending'[l]
    BY DEF Around
  <2> QED  BY <2>1, <2>2 DEF JobsQueued
<1>10. JobsElsewhere'
  <2>1. ASSUME NEW n \in Jobs, n >= next' PROVE fate'[n] = "none"
    BY <1>1, <2>1 DEF Accounts, Sound
  <2>2. ASSUME NEW n \in Jobs, n < next', fate'[n] = "none"
        PROVE  \/ \E k \in DOMAIN pending' : pending'[k] = n
               \/ \E i \in Live' : Flying(i)' /\ conn'[i].job = n
    <3>1. CASE n \in Holding(x) \/ n >= next
      <4>1. n \in Holding(y)
        BY <1>1, <2>2, <3>1 DEF Accounts, Jobs
      <4> QED  BY <1>1, <1>3, <4>1
    <3>2. CASE ~(n \in Holding(x) \/ n >= next)
      <4>1. n < next /\ fate[n] = "none"
        BY <1>1, <2>2, <3>2 DEF Accounts, Jobs
      <4>2. \/ \E k \in DOMAIN pending' : pending'[k] = n
            \/ \E i \in Live : i # j /\ Flying(i) /\ conn[i].job = n
        BY <3>2, <4>1 DEF Around
      <4> QED  BY <1>1, <1>2, <4>2
    <3> QED  BY <3>1, <3>2
  <2> QED  BY <2>1, <2>2 DEF JobsElsewhere, Queued
<1> QED  BY <1>8, <1>9, <1>10

-----------------------------------------------------------------------------
(* The idle pool as a stack. *)

LEMMA PoolPush ==
    ASSUME NEW S, NEW s \in Seq(S), NEW e \in S, IsInjective(s), e \notin ToSet(s)
    PROVE  /\ Append(s, e) \in Seq(S) /\ IsInjective(Append(s, e))
           /\ ToSet(Append(s, e)) = ToSet(s) \cup {e}
<1> DEFINE t == Append(s, e)
<1>1. /\ t \in Seq(S) /\ Len(t) = Len(s) + 1 /\ Len(s) \in Nat
      /\ DOMAIN s = 1..Len(s) /\ DOMAIN t = 1..(Len(s) + 1)
      /\ \A i \in 1..Len(s) : t[i] = s[i]
      /\ t[Len(s) + 1] = e
  BY AppendProperties
<1> HIDE DEF t
<1>2. \A i \in DOMAIN t : i \in DOMAIN s \/ i = Len(s) + 1
  BY <1>1
<1>3. ToSet(t) = ToSet(s) \cup {e}
  <2>1. \A i \in DOMAIN s : i \in DOMAIN t /\ t[i] = s[i]
    BY <1>1
  <2>2. Len(s) + 1 \in DOMAIN t
    BY <1>1
  <2> QED  BY <1>1, <1>2, <2>1, <2>2 DEF ToSet
<1>4. IsInjective(t)
  <2>1. \A i \in DOMAIN s : t[i] = s[i] /\ s[i] # e
    BY <1>1 DEF ToSet
  <2> QED  BY <1>1, <1>2, <2>1 DEF IsInjective
<1> QED  BY <1>1, <1>3, <1>4 DEF t

LEMMA PoolPop ==
    ASSUME NEW S, NEW s \in Seq(S), s # << >>, IsInjective(s)
    PROVE  /\ Front(s) \in Seq(S) /\ IsInjective(Front(s))
           /\ Last(s) \in ToSet(s) /\ ToSet(Front(s)) = ToSet(s) \ {Last(s)}
<1> DEFINE t == SubSeq(s, 1, Len(s) - 1)
<1>1. Len(s) \in Nat \ {0} /\ DOMAIN s = 1..Len(s) /\ Len(s) \in DOMAIN s
  BY EmptySeq
<1>2. /\ t \in Seq(S) /\ Len(t) = Len(s) - 1 /\ DOMAIN t = 1..(Len(s) - 1)
      /\ \A i \in 1..(Len(s) - 1) : t[i] = s[i]
  BY <1>1
<1>3. Front(s) = t /\ Last(s) = s[Len(s)]
  BY DEF Front, Last
<1> HIDE DEF t
<1>4. \A i \in DOMAIN s : i = Len(s) \/ i \in DOMAIN t
  BY <1>1, <1>2
<1>5. \A i \in DOMAIN t : i \in DOMAIN s /\ i # Len(s) /\ t[i] = s[i]
  BY <1>1, <1>2
<1>6. IsInjective(t)
  BY <1>5 DEF IsInjective
<1>7. ToSet(t) = ToSet(s) \ {s[Len(s)]}
  BY <1>1, <1>4, <1>5 DEF ToSet, IsInjective
<1>8. s[Len(s)] \in ToSet(s)
  BY <1>1 DEF ToSet
<1> QED  BY <1>2, <1>3, <1>6, <1>7, <1>8

-----------------------------------------------------------------------------
(* The steps. *)

LEMMA MioInit == Init => MioInv
<1> SUFFICES ASSUME Init PROVE MioInv
  OBVIOUS
<1>1. TypeOK
  <2>1. \A S : << >> \in Seq(S)
    BY EmptySeq
  <2>2. 1 \in 1..(MaxJobs + 1) /\ 0 \in 0..NumConns
    BY MioAssumption
  <2>3. fate \in [Jobs -> Fates]
    BY DEF Init, Fates
  <2> QED  BY <2>1, <2>2, <2>3 DEF Init, TypeOK, Fates
<1>2. Shape /\ Busy
  BY MioAssumption DEF Init, Shape, Busy, MaxPending, Live
<1>3. JobsInFlight /\ JobsQueued /\ JobsElsewhere
  BY DEF Init, JobsInFlight, JobsQueued, JobsElsewhere, Jobs, Live, Flying, Queued
<1> QED  BY <1>1, <1>2, <1>3 DEF MioInv, IdlePoolExact, Init

\* A step that touches neither the jobs nor the connections' states.
LEMMA QuietKeepsInv ==
    ASSUME MioInv, TypeOK', UNCHANGED <<openLoop, conn, idle, pending, next, fate>>,
           Len(sock') = Len(sock), Len(opened') = Len(opened), dialled' >= dialled,
           phase = "connect" <=> phase' = "connect"
    PROVE  MioInv'
<1>1. Live' = Live /\ \A j \in Live : Flying(j)' <=> Flying(j)
  BY DEF Live, Flying
<1>2. Shape'
  BY Typed DEF MioInv, Shape, Live, TypeOK
<1>3. JobsInFlight' /\ JobsQueued' /\ JobsElsewhere'
  BY <1>1 DEF MioInv, JobsInFlight, JobsQueued, JobsElsewhere, Queued
<1>4. IdlePoolExact' /\ Busy'
  BY <1>1 DEF MioInv, IdlePoolExact, Busy
<1> QED  BY <1>2, <1>3, <1>4 DEF MioInv

\* The connect loop: no job has been scheduled yet.
LEMMA ConnectKeepsInv == ASSUME MioInv, Connect PROVE MioInv'
<1>1. TypeOK /\ Shape /\ phase = "connect" /\ dialled < NumConns
      /\ dialled' = dialled + 1 /\ NumConns \in Nat /\ dialled \in Nat
      /\ UNCHANGED <<openLoop, phase, stop, idle, pending, next, events, fate>>
  BY MioAssumption DEF MioInv, Connect, TypeOK
<1>2. CASE UNCHANGED <<opened, conn, sock>>
  <2>1. TypeOK'
    BY <1>1, <1>2 DEF TypeOK
  <2> QED  BY <1>1, <1>2, <2>1, QuietKeepsInv
<1>3. CASE /\ opened' = Append(opened, dialled + 1)
           /\ conn' = Append(conn, FreshConn)
           /\ sock' = Append(sock, FreshSock)
  <2>1. FreshConn \in ConnRec /\ FreshSock \in SockRec /\ FreshConn.st = "Idle"
    BY MioAssumption DEF FreshConn, FreshSock, ConnRec, SockRec, Complete
  <2>2. /\ conn' \in Seq(ConnRec) /\ Len(conn') = Len(conn) + 1
        /\ \A j \in 1..Len(conn) : conn'[j] = conn[j]
        /\ conn'[Len(conn) + 1] = FreshConn
        /\ sock' \in Seq(SockRec) /\ Len(sock') = Len(sock) + 1
        /\ Live' = 1..(Len(conn) + 1)
    BY <1>3, <2>1, Typed, <1>1, AppendProperties DEF Live
  <2>3. opened \in Seq(1..NumConns) /\ dialled + 1 \in 1..NumConns
    BY <1>1 DEF TypeOK
  <2>4. opened' \in Seq(1..NumConns) /\ Len(opened') = Len(opened) + 1
    BY <1>3, <2>3
  <2>5. TypeOK'
    <3>1. dialled' \in 0..NumConns /\ opened' \in Seq(1..NumConns)
      BY <1>1, <2>3, <2>4
    <3>2. conn' \in Seq(ConnRec) /\ sock' \in Seq(SockRec)
      BY <2>2
    <3>3. /\ openLoop' = openLoop /\ phase' = phase /\ stop' = stop /\ idle' = idle
          /\ pending' = pending /\ next' = next /\ events' = events /\ fate' = fate
      BY <1>1
    <3>4. TypeOK
      BY <1>1
    <3> HIDE <1>1
    <3> QED  BY <3>1, <3>2, <3>3, <3>4 DEF TypeOK, ConnRec, SockRec
  <2>6. \A j \in Live' : conn'[j].st = "Idle" /\ ~Flying(j)'
    <3>1. \A j \in Live : conn[j].st = "Idle"
      BY <1>1 DEF Shape
    <3>2. ASSUME NEW j \in Live' PROVE conn'[j].st = "Idle"
      <4>1. CASE j \in 1..Len(conn)
        BY <1>1, <2>2, <3>1, <4>1, Typed
      <4>2. CASE j = Len(conn) + 1
        BY <2>1, <2>2, <4>2
      <4> QED  BY <1>1, <2>2, <4>1, <4>2, Typed
    <3> QED  BY <3>2 DEF Flying, InFlight, Reading
  <2>7. Shape'
    <3>1. Len(conn) <= dialled /\ Len(sock) = Len(conn) /\ Len(opened) = Len(conn)
          /\ Len(conn) \in Nat
      BY <1>1, Typed DEF Shape
    <3> QED  BY <1>1, <2>2, <2>4, <2>6, <3>1 DEF Shape
  <2>8. pending = << >> /\ next = 1 /\ DOMAIN pending' = {}
    BY <1>1 DEF Shape
  <2>9. JobsInFlight' /\ JobsQueued'
    BY <2>6, <2>8 DEF JobsInFlight, JobsQueued
  <2>10. JobsElsewhere'
    BY <1>1, <2>8 DEF MioInv, JobsElsewhere, Jobs
  <2> QED
    BY <1>1, <2>5, <2>7, <2>9, <2>10 DEF MioInv, IdlePoolExact, Busy
<1> QED  BY <1>2, <1>3 DEF Connect

\* The first turn: the pool is filled, or every connection gets a request.
LEMMA StartLoopKeepsInv == ASSUME MioInv, StartLoop PROVE MioInv'
<1>1. /\ TypeOK /\ Shape /\ phase = "connect" /\ phase' = "head"
      /\ UNCHANGED <<openLoop, stop, dialled, opened, sock, pending, events, fate>>
      /\ pending = << >> /\ idle = << >> /\ next = 1
      /\ \A j \in Live : conn[j].st = "Idle"
  BY DEF MioInv, StartLoop, Shape
<1>2. Len(conn) \in Nat /\ Len(conn) <= NumConns /\ NumConns \in Nat
      /\ Live = 1..Len(conn) /\ DOMAIN pending' = {}
  BY <1>1, Typed, MioAssumption DEF Shape, TypeOK
<1>3. \A n \in Jobs : fate[n] = "none"
  BY <1>1 DEF MioInv, JobsElsewhere, Jobs
<1>4. CASE openLoop
  <2>1. idle' = [j \in 1..Len(conn) |-> j] /\ UNCHANGED <<conn, next>>
    BY <1>2, <1>4 DEF StartLoop
  <2>2. idle' \in Seq(1..NumConns) /\ DOMAIN idle' = 1..Len(conn)
    BY <1>2, <2>1
  <2>3. TypeOK'
    BY <1>1, <2>1, <2>2 DEF TypeOK
  <2>4. Shape'
    BY <1>1, <1>4, <2>1 DEF Shape
  <2>5. \A j \in Live' : ~Flying(j)'
    BY <1>1, <2>1 DEF Flying, InFlight, Reading, Live
  <2>6. JobsInFlight' /\ JobsQueued' /\ JobsElsewhere'
    BY <1>1, <1>2, <1>3, <2>1, <2>5 DEF JobsInFlight, JobsQueued, JobsElsewhere, Jobs
  <2>7. IdlePoolExact'
    <3>1. IsInjective(idle')
      BY <2>1 DEF IsInjective
    <3>2. ToSet(idle') = 1..Len(conn)
      BY <2>1 DEF ToSet
    <3> QED  BY <1>1, <1>2, <2>1, <3>1, <3>2 DEF IdlePoolExact, Live
  <2> QED  BY <1>1, <1>4, <2>3, <2>4, <2>6, <2>7 DEF MioInv, Busy
<1>5. CASE ~openLoop
  <2>1. /\ conn' = [j \in 1..Len(conn) |-> [st |-> "Writing", job |-> j, got |-> 0]]
        /\ next' = Len(conn) + 1 /\ UNCHANGED idle
    BY <1>2, <1>5 DEF StartLoop
  <2>2. NumConns <= MaxJobs /\ MaxJobs \in Nat
    BY <1>1, <1>5, MioAssumption DEF TypeOK
  <2>3. \A j \in 1..Len(conn) :
          [st |-> "Writing", job |-> j, got |-> 0] \in ConnRec
    BY <1>2, <2>2 DEF ConnRec, InFlight, Complete
  <2>4. conn' \in Seq(ConnRec) /\ Len(conn') = Len(conn) /\ Live' = 1..Len(conn)
        /\ \A j \in 1..Len(conn) : conn'[j].st = "Writing" /\ conn'[j].job = j
    BY <1>2, <2>1, <2>3 DEF Live
  <2>5. next' \in 1..(MaxJobs + 1)
    BY <1>2, <2>1, <2>2
  <2>6. TypeOK'
    BY <1>1, <2>1, <2>4, <2>5 DEF TypeOK, ConnRec
  <2>7. Shape'
    BY <1>1, <1>5, <2>1, <2>4 DEF Shape
  <2>8. \A j \in 1..Len(conn) : Flying(j)'
    BY <2>4 DEF Flying, InFlight
  <2>9. JobsInFlight'
    BY <1>1, <1>2, <1>3, <2>1, <2>2, <2>4 DEF JobsInFlight, Jobs
  <2>10. JobsQueued'
    BY <1>2 DEF JobsQueued
  <2>11. JobsElsewhere'
    BY <1>1, <1>2, <1>3, <2>1, <2>4, <2>8 DEF JobsElsewhere, Jobs
  <2>12. Busy'
    BY <2>4 DEF Busy
  <2> QED
    BY <1>1, <1>5, <2>6, <2>7, <2>9, <2>10, <2>11, <2>12
    DEF MioInv, IdlePoolExact
<1> QED  BY <1>4, <1>5

\* An event is handled: the connection it is for goes through the handlers.
LEMMA HandleEventKeepsInv ==
    ASSUME MioInv, NEW e \in events, HandleEvent(e) PROVE MioInv'
<1>1. /\ TypeOK /\ Shape /\ JobsInFlight /\ JobsQueued /\ JobsElsewhere
      /\ IdlePoolExact /\ Busy /\ phase = "events"
      /\ UNCHANGED <<openLoop, phase, stop, dialled, opened, pending>>
      /\ events' = events \ {e}
  BY DEF MioInv, HandleEvent
<1>2. CASE UNCHANGED <<conn, sock, idle, next, fate>>
  <2>1. TypeOK' /\ dialled' >= dialled
    BY <1>1, <1>2, MioAssumption DEF TypeOK
  <2> QED  BY <1>1, <1>2, <2>1, QuietKeepsInv
<1>3. ASSUME NEW j \in Live, j = e.tok, conn[j].st # "Dead",
             NEW x \in AfterWritable(e, Slot(j)), NEW y \in AfterReadable(e, x),
             Store(j, y),
             idle' = IF openLoop /\ y.c.st = "Idle" /\ x.c.st \in Reading
                     THEN Append(idle, j) ELSE idle
      PROVE  MioInv'
  <2>1. Sound(Slot(j)) /\ Settled(Slot(j)) /\ Slot(j).c = conn[j]
        /\ Slot(j).next = next /\ Slot(j).fate = fate
    BY <1>1, <1>3, SlotIsSound DEF Slot
  <2>2. /\ Accounts(Slot(j), y) /\ Settled(y)
        /\ openLoop /\ conn[j].st = "Idle" => x = Slot(j) /\ y = Slot(j)
        /\ openLoop /\ conn[j].st # "Idle" /\ y.c.st = "Idle" => x.c.st \in Reading
    BY <1>3, <2>1, EventAccounts
  <2>3. Sound(y)
    BY <2>2 DEF Accounts
  <2>4. /\ conn' \in Seq(ConnRec) /\ sock' \in Seq(SockRec)
        /\ Live' = Live /\ Len(conn') = Len(conn) /\ Len(sock') = Len(sock)
        /\ conn'[j] = y.c /\ \A i \in Live : i # j => conn'[i] = conn[i]
        /\ next' = y.next /\ fate' = y.fate
        /\ next' \in 1..(MaxJobs + 1) /\ fate' \in [Jobs -> Fates]
    BY <1>1, <1>3, <2>3, StoreKeepsType
  <2>5. JobsInFlight' /\ JobsQueued' /\ JobsElsewhere'
    BY <1>1, <1>3, <2>1, <2>2, AroundEvent, StoreKeepsLedger
  <2>6. IdlePoolExact' /\ idle' \in Seq(1..NumConns) /\ (~openLoop => idle' = idle)
    <3>1. idle \in Seq(1..NumConns) /\ j \in 1..NumConns
      BY <1>1, <1>3, Typed, MioAssumption DEF Shape, TypeOK
    <3>2. CASE ~openLoop
      BY <1>1, <1>3, <3>1, <3>2 DEF IdlePoolExact
    <3>3. CASE openLoop /\ y.c.st = "Idle" /\ x.c.st \in Reading
      <4>1. conn[j].st # "Idle"
        BY <2>1, <2>2, <3>3 DEF Reading
      <4>2. IsInjective(idle) /\ ToSet(idle) = {i \in Live : conn[i].st = "Idle"}
        BY <1>1, <3>3 DEF IdlePoolExact
      <4>3. /\ idle' \in Seq(1..NumConns) /\ IsInjective(idle')
            /\ ToSet(idle') = ToSet(idle) \cup {j}
        <5>1. j \notin ToSet(idle) /\ idle' = Append(idle, j)
          BY <1>3, <3>3, <4>1, <4>2
        <5>2. PICK S : S = 1..NumConns
          OBVIOUS
        <5>3. idle \in Seq(S) /\ j \in S
          BY <3>1, <5>2
        <5>4. /\ Append(idle, j) \in Seq(S) /\ IsInjective(Append(idle, j))
              /\ ToSet(Append(idle, j)) = ToSet(idle) \cup {j}
          BY <4>2, <5>1, <5>3, PoolPush
        <5> QED  BY <5>1, <5>2, <5>4
      <4> QED  BY <1>3, <2>4, <3>3, <4>2, <4>3 DEF IdlePoolExact
    <3>4. CASE openLoop /\ ~(y.c.st = "Idle" /\ x.c.st \in Reading)
      <4>1. conn'[j].st = "Idle" <=> conn[j].st = "Idle"
        BY <2>1, <2>2, <2>4, <3>4
      <4>2. {i \in Live : conn'[i].st = "Idle"} = {i \in Live : conn[i].st = "Idle"}
        BY <2>4, <4>1
      <4> QED  BY <1>1, <1>3, <2>4, <3>1, <3>4, <4>2 DEF IdlePoolExact
    <3> QED  BY <3>2, <3>3, <3>4
  <2>7. TypeOK'
    BY <1>1, <2>4, <2>6 DEF TypeOK, ConnRec, SockRec, Fates
  <2>8. Shape'
    BY <1>1, <2>4, <2>6 DEF Shape
  <2>9. Busy'
    <3>1. next' \in Jobs /\ ~openLoop => next \in Jobs
      <4>1. next <= next' /\ next \in Nat /\ next >= 1 /\ next' \in Nat
            /\ MaxJobs \in Nat
        BY <1>1, <2>1, <2>2, <2>4, Typed, MioAssumption DEF Accounts
      <4> QED  BY <4>1 DEF Jobs
    <3> QED  BY <1>1, <2>2, <2>4, <3>1 DEF Busy, Settled
  <2> QED  BY <2>5, <2>6, <2>7, <2>8, <2>9 DEF MioInv
<1> QED
  BY <1>2, <1>3 DEF HandleEvent

\* The oldest token goes to the connection that went idle last.
LEMMA AssignKeepsInv == ASSUME MioInv, Assign PROVE MioInv'
<1>1. /\ TypeOK /\ Shape /\ JobsInFlight /\ JobsQueued /\ JobsElsewhere
      /\ IdlePoolExact /\ Busy /\ phase # "connect" /\ openLoop
      /\ UNCHANGED <<openLoop, phase, stop, dialled, opened, events>>
      /\ pending # << >> /\ idle # << >>
      /\ idle' = Front(idle) /\ pending' = Tail(pending)
  BY DEF MioInv, Assign, Shape
<1>2. IsInjective(idle) /\ ToSet(idle) = {i \in Live : conn[i].st = "Idle"}
  BY <1>1 DEF IdlePoolExact
<1>3. /\ idle' \in Seq(1..NumConns) /\ IsInjective(idle')
      /\ Last(idle) \in ToSet(idle) /\ ToSet(idle') = ToSet(idle) \ {Last(idle)}
  BY <1>1, <1>2, Typed, PoolPop
<1>4. /\ pending' \in Seq(Jobs) /\ Head(pending) = pending[1]
      /\ Len(pending') = Len(pending) - 1 /\ 1 \in DOMAIN pending
      /\ Len(pending) \in Nat
  BY <1>1, Typed, HeadTailProperties, EmptySeq
<1> DEFINE j == Last(idle)
           x == Prepare(Slot(j), Head(pending))
<1>5. PICK y \in TryWrite(x) : Store(j, y)
  BY DEF Assign
<1>6. j \in Live /\ conn[j].st = "Idle" /\ ~Flying(j)
  BY <1>2, <1>3 DEF Flying, InFlight, Reading
<1>7. Sound(Slot(j)) /\ Slot(j).next = next /\ Slot(j).fate = fate
  BY <1>1, <1>6, SlotIsSound DEF Slot
<1>8. Head(pending) \in 1..(next - 1) /\ fate[Head(pending)] = "none"
  <2>1. pending[1] \in 1..MaxJobs /\ next \in Nat /\ MaxJobs \in Nat
    BY <1>1, <1>4, Typed DEF Jobs
  <2>2. pending[1] < next /\ fate[pending[1]] = "none"
    BY <1>1, <1>4 DEF JobsQueued
  <2> QED  BY <1>4, <2>1, <2>2
<1>9. /\ Sound(x) /\ x.c.st = "Writing" /\ Holding(x) = {Head(pending)}
      /\ x.next = next /\ x.fate = fate
  BY <1>7, <1>8, PrepareSound DEF Sound
<1> HIDE DEF j, x
<1>10. Accounts(x, y) /\ y.c.st # "Idle" /\ Sound(y) /\ y.next = next
  BY <1>1, <1>5, <1>9, TryWriteAccounts DEF Accounts
<1>11. /\ conn' \in Seq(ConnRec) /\ sock' \in Seq(SockRec)
       /\ Live' = Live /\ Len(conn') = Len(conn) /\ Len(sock') = Len(sock)
       /\ conn'[j] = y.c /\ \A i \in Live : i # j => conn'[i] = conn[i]
       /\ next' = y.next /\ fate' = y.fate
       /\ next' \in 1..(MaxJobs + 1) /\ fate' \in [Jobs -> Fates]
  BY <1>1, <1>5, <1>6, <1>10, StoreKeepsType
<1>12. JobsInFlight' /\ JobsQueued' /\ JobsElsewhere'
  BY <1>1, <1>5, <1>6, <1>9, <1>10, AroundAssign, StoreKeepsLedger
<1>13. TypeOK'
  BY <1>1, <1>3, <1>4, <1>11 DEF TypeOK, ConnRec, SockRec, Fates
<1>14. Shape'
  BY <1>1, <1>4, <1>11, MioAssumption DEF Shape, MaxPending
<1>15. IdlePoolExact'
  <2>1. {i \in Live : conn'[i].st = "Idle"} = {i \in Live : conn[i].st = "Idle"} \ {j}
    BY <1>10, <1>11
  <2> QED  BY <1>1, <1>2, <1>3, <1>11, <2>1 DEF IdlePoolExact, j
<1>16. Busy'
  BY <1>1 DEF Busy
<1> QED  BY <1>12, <1>13, <1>14, <1>15, <1>16 DEF MioInv

\* poll takes the edges, the environment makes new ones; neither touches a job.
LEMMA SockTyped ==
    ASSUME TypeOK, NEW j \in Live, Len(sock) = Len(conn), NEW r \in SockRec,
           sock' = [sock EXCEPT ![j] = r]
    PROVE  sock' \in Seq(SockRec) /\ Len(sock') = Len(sock)
  BY Typed, ExceptSeq

LEMMA PollKeepsInv == ASSUME MioInv, Poll PROVE MioInv'
<1>1. /\ TypeOK /\ Shape /\ phase = "poll" /\ phase' = "events"
      /\ UNCHANGED <<openLoop, stop, dialled, opened, conn, idle, pending, next, fate>>
  BY DEF MioInv, Poll
<1>2. Len(opened) = Len(conn) /\ Len(sock) = Len(conn)
  BY <1>1 DEF Shape
<1>3. ASSUME NEW j \in Live PROVE [sock[j] EXCEPT !.edge = FALSE] \in SockRec
  <2>1. sock[j] \in SockRec
    BY <1>1, <1>2, Typed
  <2> QED  BY <2>1 DEF SockRec
<1>4. sock' \in Seq(SockRec) /\ Len(sock') = Len(sock)
  BY <1>1, <1>2, <1>3, Typed DEF Poll
<1>5. events' \subseteq [tok : 1..NumConns, r : BOOLEAN, w : BOOLEAN]
  <2>1. \A j \in Live : opened[j] \in 1..NumConns
    <3>1. opened \in Seq(1..NumConns)
      BY <1>1 DEF TypeOK
    <3>2. DOMAIN opened = 1..Len(opened)
      BY <3>1
    <3>3. Live = DOMAIN opened
      BY <1>1, <1>2, <3>2, Typed
    <3>4. PICK S : S = 1..NumConns
      OBVIOUS
    <3>5. \A i \in 1..Len(opened) : opened[i] \in S
      BY <3>1, <3>4, ElementOfSeq
    <3> QED  BY <3>2, <3>3, <3>4, <3>5
  <2>2. \A j \in Live : sock[j] \in SockRec /\ conn[j] \in ConnRec
    BY <1>1, <1>2, Typed
  <2>3. ASSUME NEW j \in Live
        PROVE  [tok |-> opened[j],
                r |-> sock[j].sent > conn[j].got \/ sock[j].peer # "open",
                w |-> sock[j].out # "full" \/ sock[j].peer = "rst"]
                 \in [tok : 1..NumConns, r : BOOLEAN, w : BOOLEAN]
    BY <2>1
  <2> QED  BY <2>3 DEF Poll
<1>6. TypeOK'
  BY <1>1, <1>4, <1>5 DEF TypeOK, SockRec
<1> QED
  <2>1. dialled' >= dialled
    BY <1>1, MioAssumption DEF TypeOK
  <2> QED  BY <1>1, <1>4, <1>6, <2>1, QuietKeepsInv

LEMMA ServerKeepsInv ==
    ASSUME MioInv, NEW j \in Live, Server(j) \/ Close(j) \/ Reset(j) PROVE MioInv'
<1>1. TypeOK /\ Shape /\ Len(sock) = Len(conn) /\ sock[j] \in SockRec
  BY Typed DEF MioInv, Shape
<1>2. ASSUME NEW r \in SockRec, sock' = [sock EXCEPT ![j] = r], EnvUnchanged
      PROVE  MioInv'
  <2>1. sock' \in Seq(SockRec) /\ Len(sock') = Len(sock)
    BY <1>1, <1>2, SockTyped
  <2>2. TypeOK' /\ dialled' >= dialled
    <3>1. UNCHANGED <<openLoop, phase, stop, dialled, opened, conn, idle, pending,
                      next, events, fate>>
      BY <1>2 DEF EnvUnchanged
    <3>2. TypeOK'
      BY <1>1, <2>1, <3>1 DEF TypeOK, SockRec
    <3>3. dialled \in Nat
      BY <1>1, MioAssumption DEF TypeOK
    <3> QED  BY <3>1, <3>2, <3>3
  <2> QED  BY <1>2, <2>1, <2>2, QuietKeepsInv DEF EnvUnchanged
<1>3. CASE Drain(j)
  <2>1. [sock[j] EXCEPT !.out = "space", !.edge = TRUE] \in SockRec
    BY <1>1 DEF SockRec
  <2>2. sock' = [sock EXCEPT ![j] = [sock[j] EXCEPT !.out = "space", !.edge = TRUE]]
    BY <1>1, <1>3 DEF Drain
  <2> QED  BY <1>2, <1>3, <2>1, <2>2 DEF Drain
<1>4. ASSUME NEW u \in {Partial, Complete}, NEW k \in Kinds, Respond(j, u, k)
      PROVE  MioInv'
  <2>1. [sock[j] EXCEPT !.sent = u, !.kind = k, !.edge = TRUE] \in SockRec
    <3>1. u \in 0..Complete
      BY DEF Partial, Complete
    <3> QED  BY <1>1, <3>1 DEF SockRec
  <2>2. sock' = [sock EXCEPT ![j] =
                   [sock[j] EXCEPT !.sent = u, !.kind = k, !.edge = TRUE]]
    BY <1>1, <1>4 DEF Respond
  <2> QED  BY <1>2, <1>4, <2>1, <2>2 DEF Respond
<1>5. CASE Close(j)
  <2>1. [sock[j] EXCEPT !.peer = "fin", !.edge = TRUE] \in SockRec
    BY <1>1 DEF SockRec
  <2>2. sock' = [sock EXCEPT ![j] = [sock[j] EXCEPT !.peer = "fin", !.edge = TRUE]]
    BY <1>1, <1>5 DEF Close
  <2> QED  BY <1>2, <1>5, <2>1, <2>2 DEF Close
<1>6. CASE Reset(j)
  <2>1. [sock[j] EXCEPT !.peer = "rst", !.edge = TRUE] \in SockRec
    BY <1>1 DEF SockRec
  <2>2. sock' = [sock EXCEPT ![j] = [sock[j] EXCEPT !.peer = "rst", !.edge = TRUE]]
    BY <1>1, <1>6 DEF Reset
  <2> QED  BY <1>2, <1>6, <2>1, <2>2 DEF Reset
<1> QED  BY <1>3, <1>4, <1>5, <1>6 DEF Server

\* Tokens fall due; the oldest beyond the cap are recorded as keepup errors.
LEMMA ScheduleKeepsInv ==
    ASSUME MioInv, NEW k \in 0..MaxBurst, Schedule(k) PROVE MioInv'
<1> DEFINE new == [i \in 1..k |-> next + i - 1]
           due == pending \o new
           excess == IF Len(due) > MaxPending THEN Len(due) - MaxPending ELSE 0
<1>1. /\ TypeOK /\ Shape /\ JobsInFlight /\ JobsQueued /\ JobsElsewhere
      /\ IdlePoolExact /\ Busy /\ phase # "connect" /\ phase' = "assign"
      /\ openLoop \/ k = 0
      /\ next + k <= MaxJobs + 1 /\ next' = next + k
      /\ UNCHANGED <<openLoop, stop, dialled, opened, conn, sock, idle, events>>
      /\ pending' = SubSeq(due, excess + 1, Len(due))
      /\ fate' = [n \in Jobs |-> IF \E i \in 1..excess : due[i] = n
                                 THEN "keepup" ELSE fate[n]]
  BY DEF MioInv, Schedule
<1>2. k \in Nat /\ next \in Nat /\ next >= 1 /\ MaxJobs \in Nat
      /\ MaxPending \in Nat /\ Len(pending) \in Nat
      /\ pending \in Seq(Jobs) /\ fate \in [Jobs -> Fates]
      /\ DOMAIN pending = 1..Len(pending)
  BY <1>1, Typed, MioAssumption DEF MaxPending
<1>3. \A i \in 1..k : next + i - 1 \in Jobs
  BY <1>1, <1>2 DEF Jobs
<1>4. new \in Seq(Jobs) /\ Len(new) = k /\ \A i \in 1..k : new[i] = next + i - 1
  BY <1>2, <1>3
<1> HIDE DEF new
<1>5. /\ due \in Seq(Jobs) /\ Len(due) = Len(pending) + k
      /\ \A i \in 1..(Len(pending) + k) :
           due[i] = IF i <= Len(pending) THEN pending[i] ELSE new[i - Len(pending)]
  BY <1>2, <1>4, ConcatProperties
<1>6. /\ \A i \in 1..Len(pending) : due[i] = pending[i]
      /\ \A i \in (Len(pending) + 1)..(Len(pending) + k) :
           due[i] = next + (i - Len(pending)) - 1
  <2>1. \A i \in 1..Len(pending) : due[i] = pending[i]
    BY <1>2, <1>5
  <2>2. ASSUME NEW i \in (Len(pending) + 1)..(Len(pending) + k)
        PROVE  due[i] = next + (i - Len(pending)) - 1
    <3>1. i - Len(pending) \in 1..k /\ due[i] = new[i - Len(pending)]
      BY <1>2, <1>5
    <3> QED  BY <1>4, <3>1
  <2> QED  BY <2>1, <2>2
<1> HIDE DEF due
<1> DEFINE N == Len(pending) + k
<1>7. \A i \in 1..N : due[i] \in Jobs
  BY <1>2, <1>5
\* The queue before the cap: scheduled jobs in their order, not recorded.
<1>8. \A i \in 1..N : due[i] < next' /\ fate[due[i]] = "none"
  <2> SUFFICES ASSUME NEW i \in 1..N PROVE due[i] < next' /\ fate[due[i]] = "none"
    OBVIOUS
  <2>1. CASE i <= Len(pending)
    <3>1. i \in 1..Len(pending) /\ i \in DOMAIN pending
      BY <1>2, <2>1
    <3>2. pending[i] < next /\ fate[pending[i]] = "none"
      BY <1>1, <3>1 DEF JobsQueued
    <3>3. due[i] = pending[i]
      BY <1>6, <3>1
    <3>4. due[i] \in Nat
      BY <1>7 DEF Jobs
    <3> QED  BY <1>1, <1>2, <3>2, <3>3, <3>4
  <2>2. CASE i > Len(pending)
    <3>1. due[i] = next + (i - Len(pending)) - 1
      BY <1>2, <1>6, <2>2
    <3>2. due[i] >= next /\ due[i] < next'
      BY <1>1, <1>2, <2>2, <3>1
    <3> QED  BY <1>1, <1>7, <3>2 DEF JobsElsewhere
  <2> QED  BY <1>2, <2>1, <2>2
<1>9. \A i, l \in 1..N : i < l => due[i] < due[l]
  <2> SUFFICES ASSUME NEW i \in 1..N, NEW l \in 1..N, i < l PROVE due[i] < due[l]
    OBVIOUS
  <2>1. CASE l <= Len(pending)
    <3>1. i \in 1..Len(pending) /\ l \in 1..Len(pending)
      BY <1>2, <2>1
    <3> QED  BY <1>1, <1>2, <1>6, <3>1 DEF JobsQueued
  <2>2. CASE l > Len(pending) /\ i <= Len(pending)
    <3>1. due[i] = pending[i] /\ pending[i] < next /\ pending[i] \in Nat
      BY <1>1, <1>2, <1>6, <2>2, Typed DEF JobsQueued, Jobs
    <3>2. due[l] = next + (l - Len(pending)) - 1
      BY <1>2, <1>6, <2>2
    <3> QED  BY <1>2, <2>2, <3>1, <3>2
  <2>3. CASE i > Len(pending)
    <3>1. due[l] = next + (l - Len(pending)) - 1
          /\ due[i] = next + (i - Len(pending)) - 1
      BY <1>2, <1>6, <2>3
    <3> QED  BY <1>2, <2>3, <3>1
  <2> QED  BY <1>2, <2>1, <2>2, <2>3
<1>10. \A i \in 1..N, j \in Live : Flying(j) => conn[j].job < due[i]
  <2> SUFFICES ASSUME NEW i \in 1..N, NEW j \in Live, Flying(j)
               PROVE  conn[j].job < due[i]
    OBVIOUS
  <2>1. CASE i <= Len(pending)
    BY <1>1, <1>2, <1>6, <2>1 DEF JobsQueued
  <2>2. CASE i > Len(pending)
    <3>1. due[i] = next + (i - Len(pending)) - 1
      BY <1>2, <1>6, <2>2
    <3>2. conn[j].job \in 1..(next - 1)
      BY <1>1 DEF JobsInFlight
    <3> QED  BY <1>2, <2>2, <3>1, <3>2
  <2> QED  BY <1>2, <2>1, <2>2
<1>11. \A n \in Jobs : n < next' /\ fate[n] = "none" =>
          \/ \E i \in 1..N : due[i] = n
          \/ \E j \in Live : Flying(j) /\ conn[j].job = n
  <2> SUFFICES ASSUME NEW n \in Jobs, n < next', fate[n] = "none"
               PROVE  \/ \E i \in 1..N : due[i] = n
                      \/ \E j \in Live : Flying(j) /\ conn[j].job = n
    OBVIOUS
  <2>1. CASE n < next
    <3>1. Queued(n) \/ \E j \in Live : Flying(j) /\ conn[j].job = n
      BY <1>1, <2>1 DEF JobsElsewhere
    <3>2. CASE Queued(n)
      <4>1. PICK i \in 1..Len(pending) : pending[i] = n
        BY <1>2, <3>2 DEF Queued
      <4> QED  BY <1>2, <1>6, <4>1
    <3> QED  BY <3>1, <3>2
  <2>2. CASE n >= next
    <3> DEFINE i == Len(pending) + (n - next) + 1
    <3>1. i \in (Len(pending) + 1)..N /\ i \in 1..N /\ n \in Nat
      BY <1>1, <1>2, <2>2 DEF Jobs
    <3>2. due[i] = next + (i - Len(pending)) - 1
      BY <1>6, <3>1
    <3>3. due[i] = n
      BY <1>2, <3>1, <3>2
    <3> QED  BY <3>1, <3>3
  <2> QED  BY <1>2, <2>1, <2>2 DEF Jobs
\* The queue after the cap.
<1>12. /\ excess \in 0..N /\ excess + MaxPending >= N
       /\ pending' \in Seq(Jobs) /\ Len(pending') = N - excess
       /\ DOMAIN pending' = 1..(N - excess)
       /\ \A i \in 1..(N - excess) : pending'[i] = due[excess + i]
  <2>1. excess \in 0..N /\ excess + MaxPending >= N /\ Len(due) = N /\ N \in Nat
    BY <1>2, <1>5
  <2> HIDE DEF excess, N
  <2>2. \A i \in (excess + 1)..N : due[i] \in Jobs
    BY <1>7, <2>1
  <2>3. /\ SubSeq(due, excess + 1, N) \in Seq(Jobs)
        /\ Len(SubSeq(due, excess + 1, N)) =
             IF excess + 1 <= N THEN N - (excess + 1) + 1 ELSE 0
        /\ \A i \in 1..(N - (excess + 1) + 1) :
             SubSeq(due, excess + 1, N)[i] = due[(excess + 1) + i - 1]
    BY SMTT(30), <2>1, <2>2, SubSeqProperties
  <2>4. pending' = SubSeq(due, excess + 1, N)
    BY <1>1, <2>1
  <2>5. \A i \in 1..(N - excess) : i \in 1..(N - (excess + 1) + 1)
          /\ (excess + 1) + i - 1 = excess + i
    BY <2>1
  <2> QED  BY <2>1, <2>3, <2>4, <2>5
<1> HIDE DEF excess, N
<1>13. N \in Nat /\ excess \in Nat /\ excess <= N
       /\ \A i \in 1..(N - excess) : excess + i \in 1..N
  <2>1. N \in Nat
    BY <1>2 DEF N
  <2> QED  BY <1>12, <2>1
<1>14. /\ fate' \in [Jobs -> Fates]
       /\ \A n \in Jobs : (\A i \in 1..excess : due[i] # n) => fate'[n] = fate[n]
       /\ \A n \in Jobs : fate'[n] = "none" =>
            /\ fate[n] = "none"
            /\ \A i \in 1..excess : due[i] # n
  BY <1>1, <1>2 DEF Fates
<1>15. \A i \in 1..(N - excess), l \in 1..excess : due[l] # pending'[i]
  <2> SUFFICES ASSUME NEW i \in 1..(N - excess), NEW l \in 1..excess
               PROVE  due[l] # pending'[i]
    OBVIOUS
  <2>1. l \in 1..N /\ excess + i \in 1..N /\ l < excess + i
    BY <1>13
  <2>2. due[l] < due[excess + i] /\ due[l] \in Nat /\ due[excess + i] \in Nat
    BY <1>7, <1>9, <2>1 DEF Jobs
  <2> QED  BY <1>12, <2>2
<1>16. JobsQueued'
  <2>1. ASSUME NEW i \in DOMAIN pending'
        PROVE  /\ pending'[i] < next' /\ fate'[pending'[i]] = "none"
               /\ \A j \in Live' : Flying(j)' => conn'[j].job < pending'[i]
    <3>1. i \in 1..(N - excess) /\ pending'[i] = due[excess + i]
          /\ excess + i \in 1..N
      BY <1>12, <1>13, <2>1
    <3>2. fate'[pending'[i]] = "none"
      BY <1>7, <1>8, <1>14, <1>15, <3>1
    <3> QED  BY <1>1, <1>8, <1>10, <3>1, <3>2 DEF Flying, Live
  <2>2. ASSUME NEW i \in DOMAIN pending', NEW l \in DOMAIN pending', i < l
        PROVE  pending'[i] < pending'[l]
    <3>1. /\ pending'[i] = due[excess + i] /\ pending'[l] = due[excess + l]
          /\ excess + i \in 1..N /\ excess + l \in 1..N /\ excess + i < excess + l
      BY <1>12, <1>13, <2>2
    <3> QED  BY <1>9, <3>1
  <2> QED  BY <2>1, <2>2 DEF JobsQueued
<1>17. JobsInFlight'
  <2>1. ASSUME NEW j \in Live', Flying(j)'
        PROVE  conn'[j].job \in 1..(next' - 1) /\ fate'[conn'[j].job] = "none"
    <3>1. /\ conn' = conn /\ j \in Live /\ Flying(j)
          /\ conn[j].job \in 1..(next - 1) /\ fate[conn[j].job] = "none"
      BY <1>1, <2>1 DEF JobsInFlight, Flying, Live
    <3>2. conn[j].job \in Jobs /\ conn[j].job \in 1..(next' - 1)
      BY <1>1, <1>2, <3>1 DEF Jobs
    <3>3. \A i \in 1..excess : due[i] # conn[j].job
      <4> SUFFICES ASSUME NEW i \in 1..excess PROVE due[i] # conn[j].job
        OBVIOUS
      <4>1. i \in 1..N
        BY <1>13
      <4>2. conn[j].job < due[i] /\ conn[j].job \in Nat /\ due[i] \in Nat
        BY <1>7, <1>10, <3>1, <3>2, <4>1 DEF Jobs
      <4> QED  BY <4>2
    <3> QED  BY <1>14, <3>1, <3>2, <3>3
  <2> QED  BY <1>1, <2>1 DEF JobsInFlight, Flying, Live
<1>18. JobsElsewhere'
  <2>1. ASSUME NEW n \in Jobs, n >= next' PROVE fate'[n] = "none"
    <3>1. n >= next /\ n \in Nat
      BY <1>1, <1>2, <2>1 DEF Jobs
    <3>2. \A i \in 1..excess : due[i] # n
      <4> SUFFICES ASSUME NEW i \in 1..excess PROVE due[i] # n
        OBVIOUS
      <4>1. due[i] < next' /\ due[i] \in Nat
        BY <1>7, <1>8, <1>13 DEF Jobs
      <4> QED  BY <1>1, <1>2, <2>1, <3>1, <4>1
    <3> QED  BY <1>1, <1>14, <3>1, <3>2 DEF JobsElsewhere
  <2>2. ASSUME NEW n \in Jobs, n < next', fate'[n] = "none"
        PROVE  \/ \E i \in DOMAIN pending' : pending'[i] = n
               \/ \E j \in Live' : Flying(j)' /\ conn'[j].job = n
    <3>1. fate[n] = "none" /\ (\A i \in 1..excess : due[i] # n)
      BY <1>14, <2>2
    <3>2. CASE \E i \in 1..N : due[i] = n
      <4>1. PICK i \in 1..N : due[i] = n
        BY <3>2
      <4>2. i > excess
        BY <1>13, <3>1, <4>1
      <4>3. i - excess \in DOMAIN pending' /\ excess + (i - excess) = i
            /\ i - excess \in 1..(N - excess)
        BY <1>12, <1>13, <4>2
      <4>4. pending'[i - excess] = n
        BY <1>12, <4>1, <4>3
      <4> QED  BY <4>3, <4>4
    <3>3. CASE \E j \in Live : Flying(j) /\ conn[j].job = n
      BY <1>1, <3>3 DEF Flying, Live
    <3> QED  BY <1>11, <2>2, <3>1, <3>2, <3>3
  <2> QED  BY <2>1, <2>2 DEF JobsElsewhere, Queued
<1>19. TypeOK'
  <2>1. next' \in 1..(MaxJobs + 1)
    BY <1>1, <1>2
  <2> QED  BY <1>1, <1>12, <1>14, <2>1 DEF TypeOK, Fates
<1>20. Shape'
  <2>1. Len(pending') <= MaxPending
    BY <1>2, <1>12, <1>13
  <2>2. ~openLoop => pending' = << >>
    <3> SUFFICES ASSUME ~openLoop PROVE pending' = << >>
      OBVIOUS
    <3>1. k = 0 /\ Len(pending) = 0
      BY <1>1 DEF Shape
    <3>2. N = 0
      BY <3>1 DEF N
    <3>3. Len(pending') = 0
      BY <1>12, <1>13, <3>2
    <3> QED  BY <1>12, <3>3, EmptySeq
  <2> QED  BY <1>1, <2>1, <2>2 DEF Shape, Live
<1>21. IdlePoolExact' /\ Busy'
  <2>1. ~openLoop => next' = next
    BY <1>1, <1>2
  <2> QED  BY <1>1, <2>1 DEF IdlePoolExact, Busy, Live
<1> QED  BY <1>16, <1>17, <1>18, <1>19, <1>20, <1>21 DEF MioInv

-----------------------------------------------------------------------------
\* A step of the worker that only moves to its next phase, or one of the
\* environment that only raises the stop flag.
LEMMA PhaseKeepsInv ==
    ASSUME MioInv, phase' # "connect", phase # "connect" \/ phase' = phase,
           TypeOK',
           UNCHANGED <<openLoop, dialled, opened, conn, sock, idle, pending,
                       next, fate>>
    PROVE  MioInv'
  BY Typed DEF MioInv, Shape, JobsInFlight, JobsQueued, JobsElsewhere, IdlePoolExact,
         Busy, Flying, Queued, Live, MaxPending, Jobs

LEMMA IdleStepsKeepInv ==
    ASSUME MioInv, Exit \/ AssignDone \/ EventsDone \/ PollError \/ Stop
                     \/ UNCHANGED vars
    PROVE  MioInv'
<1>1. TypeOK /\ TypeOK'
  BY DEF MioInv, TypeOK, Exit, AssignDone, EventsDone, PollError, Stop, vars, Jobs
<1>2. CASE Exit \/ AssignDone \/ EventsDone \/ PollError
  BY <1>1, <1>2, PhaseKeepsInv DEF Exit, AssignDone, EventsDone, PollError
<1>3. CASE Stop \/ UNCHANGED vars
  BY <1>1, <1>3 DEF Stop, vars, MioInv, Shape, JobsInFlight, JobsQueued, JobsElsewhere,
       IdlePoolExact, Busy, Flying, Queued, Live, MaxPending, Jobs
<1> QED  BY <1>2, <1>3

LEMMA MioStep == ASSUME MioInv, [Next]_vars PROVE MioInv'
<1>1. CASE WorkerStep
  BY <1>1, ConnectKeepsInv, StartLoopKeepsInv, ScheduleKeepsInv, AssignKeepsInv,
     PollKeepsInv, HandleEventKeepsInv, IdleStepsKeepInv DEF WorkerStep
<1>2. CASE \E j \in Live : Server(j) \/ Close(j) \/ Reset(j)
  BY <1>2, ServerKeepsInv
<1>3. CASE PollError \/ Stop \/ UNCHANGED vars
  BY <1>3, IdleStepsKeepInv
<1> QED  BY <1>1, <1>2, <1>3 DEF Next

\* The inductive invariant holds in every state of the worker, in both modes
\* and whatever the sockets and the server do.
THEOREM MioInvariant == Spec => []MioInv
  BY MioInit, MioStep, PTL DEF Spec

\* Every variable of run_mio_worker keeps its type.
THEOREM MioTypes == Spec => []TypeOK
<1>1. MioInv => TypeOK
  BY DEF MioInv
<1> QED  BY <1>1, MioInvariant, PTL

\* push_idle and idle_conns.pop(): in the open loop the idle pool holds
\* exactly the connections that can take a request, each once.
THEOREM PoolIsExact == Spec => []IdlePoolExact
<1>1. MioInv => IdlePoolExact
  BY DEF MioInv
<1> QED  BY <1>1, MioInvariant, PTL

\* pending_tokens is popped at the front and trimmed at the front: no request
\* on a connection is younger than one still queued.
THEOREM OldestTokenFirst == Spec => []OldestFirst
<1>1. MioInv => OldestFirst
  BY DEF MioInv, JobsQueued, OldestFirst, Flying
<1> QED  BY <1>1, MioInvariant, PTL

\* The saturate branch of the completion handlers: a connection that can be
\* used is not left without a request when the worker polls.
THEOREM SaturateIsBusy == Spec => []SaturateKeepsBusy
<1>1. MioInv => SaturateKeepsBusy
  BY DEF MioInv, Busy, SaturateKeepsBusy
<1> QED  BY <1>1, MioInvariant, PTL

-----------------------------------------------------------------------------
(* Every job in one place. *)

\* Places(n) is empty, or has one element: the three kinds of place exclude
\* one another, and a queue or a set of connections has a job once.
LEMMA OnePlace ==
    ASSUME MioInv, NEW n \in Jobs
    PROVE  Places(n) = {} \/ \E p : Places(n) = {p}
<1>1. /\ JobsInFlight /\ JobsQueued /\ TypeOK
      /\ DOMAIN pending = 1..Len(pending)
  BY Typed DEF MioInv
<1> DEFINE q == {<<"pending", i>> : i \in {k \in DOMAIN pending : pending[k] = n}}
           c == {<<"conn", j>> : j \in {i \in Live : /\ conn[i].job = n
                                                     /\ conn[i].st \in InFlight}}
           r == IF fate[n] = "none" THEN {} ELSE {<<"recorded", 0>>}
<1>2. Places(n) = q \cup c \cup r
  BY DEF Places
<1>3. CASE fate[n] # "none"
  <2>1. q = {} /\ c = {}
    BY <1>1, <1>3 DEF JobsInFlight, JobsQueued, Flying
  <2> QED  BY <1>2, <1>3, <2>1
<1>4. CASE fate[n] = "none" /\ \E i \in DOMAIN pending : pending[i] = n
  <2>1. PICK i \in DOMAIN pending : pending[i] = n
    BY <1>4
  <2>2. i \in Nat /\ pending[i] \in Nat
    BY <1>1, <2>1, Typed DEF Jobs
  <2>3. ASSUME NEW k \in DOMAIN pending, pending[k] = n PROVE k = i
    <3>1. k \in Nat /\ i \in Nat
      BY <1>1, <2>2
    <3>2. ~(k < i) /\ ~(i < k)
      BY <1>1, <2>1, <2>2, <2>3 DEF JobsQueued
    <3> QED  BY <3>1, <3>2
  <2>4. q = {<<"pending", i>>}
    BY <2>1, <2>3
  <2>5. ASSUME NEW j \in Live, conn[j].job = n, conn[j].st \in InFlight PROVE FALSE
    <3>1. conn[j].job < pending[i]
      BY <1>1, <2>1, <2>5 DEF JobsQueued, Flying
    <3> QED  BY <2>1, <2>2, <2>5, <3>1
  <2>6. c = {}
    BY <2>5
  <2> QED  BY <1>2, <1>4, <2>4, <2>6
<1>5. CASE fate[n] = "none" /\ ~(\E i \in DOMAIN pending : pending[i] = n)
  <2>1. q = {} /\ r = {}
    BY <1>5
  <2>2. ASSUME NEW j \in Live, conn[j].job = n, conn[j].st \in InFlight
        PROVE  c = {<<"conn", j>>}
    BY <1>1, <2>2 DEF JobsInFlight, Flying
  <2>3. c = {} \/ \E j \in Live : c = {<<"conn", j>>}
    BY <2>2
  <2> QED  BY <1>2, <2>1, <2>3
<1> QED  BY <1>3, <1>4, <1>5

\* Record, the pool and the queue of run_mio_worker: no request is lost and
\* none is counted twice while the worker runs.
THEOREM JobsAreInOnePlace == Spec => []EveryJobInOnePlace
<1>1. ASSUME MioInv PROVE EveryJobInOnePlace
  <2> SUFFICES ASSUME NEW n \in Jobs
               PROVE  Cardinality(Places(n)) = IF n < next THEN 1 ELSE 0
    BY DEF EveryJobInOnePlace
  <2>1. TypeOK /\ JobsInFlight /\ JobsQueued /\ JobsElsewhere /\ next \in Nat /\ n \in Nat
    BY <1>1, Typed DEF MioInv, Jobs
  <2>2. CASE n < next
    <3>1. Places(n) # {}
      <4>1. CASE fate[n] # "none"
        <5>1. <<"recorded", 0>> \in Places(n)
          BY <4>1 DEF Places
        <5> QED  BY <5>1
      <4>2. CASE fate[n] = "none" /\ Queued(n)
        <5>1. PICK i \in DOMAIN pending : pending[i] = n
          BY <4>2 DEF Queued
        <5>2. <<"pending", i>> \in Places(n)
          BY <5>1 DEF Places
        <5> QED  BY <5>2
      <4>3. CASE \E j \in Live : Flying(j) /\ conn[j].job = n
        <5>1. PICK j \in Live : Flying(j) /\ conn[j].job = n
          BY <4>3
        <5>2. <<"conn", j>> \in Places(n)
          BY <5>1 DEF Places, Flying
        <5> QED  BY <5>2
      <4> QED  BY <2>1, <2>2, <4>1, <4>2, <4>3 DEF JobsElsewhere
    <3>2. PICK p : Places(n) = {p}
      BY <1>1, <3>1, OnePlace
    <3> QED  BY <2>2, <3>2, FS_Singleton
  <2>3. CASE n >= next
    <3>1. fate[n] = "none"
      BY <2>1, <2>3 DEF JobsElsewhere
    <3>2. \A i \in DOMAIN pending : pending[i] # n
      BY <2>1, <2>3 DEF JobsQueued
    <3>3. ASSUME NEW j \in Live, conn[j].st \in InFlight PROVE conn[j].job # n
      BY <2>1, <2>3, <3>3 DEF JobsInFlight, Flying
    <3>4. Places(n) = {}
      BY <3>1, <3>2, <3>3 DEF Places
    <3> QED  BY <2>1, <2>3, <3>4, FS_EmptySet
  <2> QED  BY <2>1, <2>2, <2>3
<1> QED  BY <1>1, MioInvariant, PTL

-----------------------------------------------------------------------------
(* What is lost when the worker leaves. *)

\* The elements of a sequence are at most as many as its positions.
LEMMA FewElements ==
    ASSUME NEW S, NEW s \in Seq(S)
    PROVE  /\ IsFiniteSet({s[i] : i \in 1..Len(s)})
           /\ Cardinality({s[i] : i \in 1..Len(s)}) <= Len(s)
<1>1. Len(s) \in Nat
  OBVIOUS
<1>2. IsFiniteSet(1..Len(s)) /\ Cardinality(1..Len(s)) = Len(s)
  <2>1. 1 \in Int /\ Len(s) \in Int /\ (IF 1 > Len(s) THEN 0 ELSE Len(s) - 1 + 1) = Len(s)
    BY <1>1
  <2> QED  BY <2>1, FS_Interval
<1> DEFINE T == {s[i] : i \in 1..Len(s)}
           f == [i \in 1..Len(s) |-> s[i]]
<1>3. f \in Surjection(1..Len(s), T)
  BY DEF Surjection
<1> QED  BY <1>1, <1>2, <1>3, FS_Surjection

\* Exit and PollError: the jobs the worker never recorded are those in its
\* queue and on its connections, and the queue is capped by twice the
\* connections.
THEOREM LossIsBounded == Spec => []LossAtExitBounded
<1>1. ASSUME MioInv PROVE LossAtExitBounded
  <2>1. /\ TypeOK /\ Shape /\ JobsElsewhere /\ next \in 1..(MaxJobs + 1)
        /\ pending \in Seq(Jobs) /\ DOMAIN pending = 1..Len(pending)
        /\ conn \in Seq(ConnRec) /\ Live = 1..Len(conn)
        /\ Len(pending) \in Nat /\ Len(conn) \in Nat
    BY <1>1, Typed DEF MioInv
  <2> DEFINE lost == {n \in 1..(next - 1) : fate[n] = "none"}
             jobs == [j \in 1..Len(conn) |-> conn[j].job]
             q == {pending[i] : i \in 1..Len(pending)}
             c == {jobs[j] : j \in 1..Len(jobs)}
  <2>2. jobs \in Seq(0..MaxJobs) /\ Len(jobs) = Len(conn)
    <3>1. \A j \in 1..Len(conn) : conn[j].job \in 0..MaxJobs
      BY <2>1, Typed DEF ConnRec
    <3> QED  BY <2>1, <3>1
  <2>3. lost \subseteq q \cup c
    <3> SUFFICES ASSUME NEW n \in 1..(next - 1), fate[n] = "none"
                 PROVE  n \in q \cup c
      OBVIOUS
    <3>1. n \in Jobs /\ n < next
      BY <2>1, MioAssumption DEF Jobs
    <3>2. Queued(n) \/ \E j \in Live : Flying(j) /\ conn[j].job = n
      BY <2>1, <3>1 DEF JobsElsewhere
    <3>3. CASE Queued(n)
      BY <2>1, <3>3 DEF Queued
    <3>4. CASE \E j \in Live : Flying(j) /\ conn[j].job = n
      BY <2>1, <2>2, <3>4
    <3> QED  BY <3>2, <3>3, <3>4
  <2> HIDE DEF jobs
  <2>4. IsFiniteSet(q) /\ Cardinality(q) <= Len(pending)
    BY <2>1, FewElements
  <2>5. IsFiniteSet(c) /\ Cardinality(c) <= Len(conn)
    BY <2>2, FewElements
  <2> HIDE DEF q, c, lost
  <2>6. IsFiniteSet(q \cup c) /\ IsFiniteSet(q \cap c)
        /\ Cardinality(q \cup c) = Cardinality(q) + Cardinality(c) - Cardinality(q \cap c)
    BY <2>4, <2>5, FS_Union, FS_Intersection
  <2>7. /\ Cardinality(lost) <= Cardinality(q \cup c)
        /\ IsFiniteSet(lost)
    BY <2>3, <2>6, FS_Subset
  <2>8. /\ Cardinality(q) \in Nat /\ Cardinality(c) \in Nat
        /\ Cardinality(q \cap c) \in Nat /\ Cardinality(lost) \in Nat
    BY <2>4, <2>5, <2>6, <2>7, FS_CardinalityType
  <2>9. NumConns \in Nat /\ Len(conn) <= NumConns /\ Len(pending) <= MaxPending
        /\ MaxPending \in Nat
    BY <2>1, MioAssumption DEF Shape, TypeOK, MaxPending
  <2>10. Cardinality(lost) <= MaxPending + NumConns
    BY <2>1, <2>4, <2>5, <2>6, <2>7, <2>8, <2>9
  <2> QED  BY <2>10 DEF LossAtExitBounded, lost
<1> QED  BY <1>1, MioInvariant, PTL

=============================================================================
