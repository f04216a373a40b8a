-------------------------- MODULE ColdConnectProofs --------------------------
(***************************************************************************)
(* The cold-connect backend, for any number of workers: what the cap on the*)
(* sleep of the pacer needs so that no slot is served early, and that every*)
(* slot drawn ends once.                                                   *)
(***************************************************************************)
EXTENDS ColdConnect, FoldLemmas, FiniteSetTheorems, TLAPS

\* All workers together draw no more than one SleepCap's worth of slots: at
\* 100 ms, at most one worker per tenth of the requests per second.
RateFits == \A i \in Intervals : i * Cardinality(Workers) <= SleepCap

PacingType ==
    /\ now \in Nat
    /\ interval \in Intervals
    /\ elapsed \in Nat
    /\ pc \in [Workers -> {"none", "head", "draw", "exited"} \cup Busy]
    /\ seen \in [Workers -> Nat]
    /\ target \in [Workers -> Nat]
    /\ wake \in [Workers -> Nat]
    /\ began \in [Workers -> Nat]

\* Worker w holds slot j of the open loop: it has drawn it and sleeps.
Holds(w, j) == pc[w] = "sleep" /\ target[w] = j * interval

\* Every slot drawn so far is due or held.
DueOrHeld ==
    interval > 0 =>
        /\ \E n \in Nat : elapsed = n * interval
        /\ \A j \in Nat : j * interval < elapsed =>
             j * interval <= now \/ \E w \in Workers : Holds(w, j)

Timely(w) ==
    /\ pc[w] = "draw" => seen[w] <= now
    /\ pc[w] = "sleep" => target[w] <= wake[w]
    /\ pc[w] = "fire" => target[w] <= now
    /\ pc[w] \in Waiting => target[w] <= began[w]

PacingInv == PacingType /\ DueOrHeld /\ \A w \in Workers : Timely(w)

-----------------------------------------------------------------------------
\* While a worker is about to draw, at most all the others hold a slot, so the
\* next slot is at most as many intervals away as there are workers.
LEMMA NextSlotIsNear ==
    ASSUME PacingInv, interval > 0, NEW v \in Workers, pc[v] = "draw"
    PROVE  elapsed <= now + interval * Cardinality(Workers)
<1> DEFINE W == Cardinality(Workers)
           Others == Workers \ {v}
<1>1. /\ W \in Nat
      /\ IsFiniteSet(Others) /\ Cardinality(Others) = W - 1
  BY FS_CardinalityType, FS_RemoveElement, ColdAssumption
<1>2. interval \in Nat \ {0} /\ now \in Nat /\ elapsed \in Nat
  BY ColdAssumption DEF PacingInv, PacingType
<1>3. PICK n \in Nat : elapsed = n * interval
  BY DEF PacingInv, DueOrHeld
<1> HIDE DEF W
<1>4. CASE n <= W
  <2>1. n * interval <= W * interval
    BY <1>1, <1>2, <1>4
  <2>2. W * interval = interval * W
    BY <1>1, <1>2
  <2> QED  BY <1>1, <1>2, <1>3, <2>1, <2>2 DEF W
<1>5. CASE n > W
  <2> DEFINE K == (n - W) .. (n - 1)
  <2>1. IsFiniteSet(K) /\ Cardinality(K) = W
    BY SMTT(30), <1>1, <1>5, FS_Interval
  <2>2. \E j \in K : j * interval <= now
    <3>1. SUFFICES ASSUME \A j \in K : ~(j * interval <= now) PROVE FALSE
      OBVIOUS
    <3>2. ASSUME NEW j \in K PROVE \E w \in Others : Holds(w, j)
      <4>1. j \in Nat /\ j < n
        BY <1>1, <1>5
      <4>2. j * interval < n * interval
        BY <4>1, <1>2
      <4>3. \E w \in Workers : Holds(w, j)
        BY <3>1, <4>1, <4>2, <1>2, <1>3 DEF PacingInv, DueOrHeld
      <4> QED  BY <4>3 DEF Holds
    <3> DEFINE holder == [j \in K |-> CHOOSE w \in Others : Holds(w, j)]
    <3>3. \A j \in K : holder[j] \in Others /\ Holds(holder[j], j)
      BY <3>2
    <3>4. holder \in [K -> Others]
      BY <3>3
    <3>5. PICK i, j \in K : i # j /\ holder[i] = holder[j]
      <4> HIDE DEF K, holder
      <4> QED  BY <3>4, <2>1, <1>1, FS_PigeonHole
    <3>6. i * interval = j * interval
      BY <3>3, <3>5 DEF Holds
    <3> QED  BY <3>5, <3>6, <1>1, <1>2
  <2>3. PICK j \in K : j * interval <= now
    BY <2>2
  <2>4. j \in Nat /\ n - j <= W /\ n - j \in Nat
    BY <1>1, <1>5
  <2>5. n * interval = j * interval + (n - j) * interval
    BY <2>4, <1>2
  <2>6. (n - j) * interval <= W * interval
    BY <2>4, <1>1, <1>2
  <2>7. W * interval = interval * W
    BY <1>1, <1>2
  <2> HIDE DEF K
  <2>8. j * interval \in Nat /\ (n - j) * interval \in Nat /\ interval * W \in Nat
    BY <2>4, <1>1, <1>2
  <2> QED  BY <1>2, <1>3, <2>3, <2>5, <2>6, <2>7, <2>8 DEF W
<1> QED  BY <1>1, <1>4, <1>5

\* A worker may begin or end an operation, or do neither, without a slot being
\* drawn or the clock moving: the slots stay due or held as long as the slot of
\* a worker that stops sleeping is due.
LEMMA SlotsKept ==
    ASSUME PacingInv, PacingType', UNCHANGED <<now, interval, elapsed>>,
           NEW v \in Workers,
           \A w \in Workers \ {v} : pc'[w] = pc[w] /\ target'[w] = target[w],
           \/ pc[v] # "sleep"
           \/ pc[v] = "sleep" /\ target[v] <= now
    PROVE  DueOrHeld'
<1>1. SUFFICES ASSUME interval > 0, NEW j \in Nat, j * interval < elapsed,
                      ~(j * interval <= now)
               PROVE  \E w \in Workers : Holds(w, j)'
  BY DEF PacingInv, DueOrHeld
<1>2. PICK w \in Workers : Holds(w, j)
  BY <1>1 DEF PacingInv, DueOrHeld
<1>3. w # v
  BY <1>1, <1>2 DEF Holds
<1>4. Holds(w, j)'
  BY <1>2, <1>3 DEF Holds
<1> QED  BY <1>4

\* Worker v ends an iteration, or gives up its part in the run: what the
\* others do stays timely, and v has nothing to be late for.
LEMMA OthersKept ==
    ASSUME PacingInv, PacingType', UNCHANGED <<now, interval, elapsed>>,
           NEW v \in Workers,
           \A w \in Workers \ {v} :
             /\ pc'[w] = pc[w] /\ target'[w] = target[w] /\ seen'[w] = seen[w]
             /\ wake'[w] = wake[w] /\ began'[w] = began[w],
           \/ pc[v] # "sleep"
           \/ pc[v] = "sleep" /\ target[v] <= now,
           Timely(v)'
    PROVE  PacingInv'
<1>1. DueOrHeld'
  BY SlotsKept
<1>2. ASSUME NEW w \in Workers PROVE Timely(w)'
  <2>1. CASE w = v
    BY <2>1
  <2>2. CASE w # v
    <3>1. Timely(w)
      BY DEF PacingInv
    <3> QED  BY <2>2, <3>1 DEF Timely
  <2> QED  BY <2>1, <2>2
<1> QED  BY <1>1, <1>2 DEF PacingInv

\* run_worker and its operations keep the pacing invariant, if the slots of all
\* workers fit in one cap of the sleep.
LEMMA WorkerKeepsPacing ==
    ASSUME RateFits, PacingInv, NEW v \in Workers, WorkerStep(v)
    PROVE  PacingInv'
<1>1. PacingType
  BY DEF PacingInv
<1>2. interval \in Nat /\ now \in Nat /\ elapsed \in Nat /\ interval' = interval
      /\ now' = now
  BY <1>1, ColdAssumption
  DEF PacingType, WorkerStep, LoopHead, Saturate, Draw, Wake, Unresolved, Dial,
      GiveUp, Connected, Handshake, WriteRequest, ReadResponse, main
<1>3. Timely(v)
  BY DEF PacingInv
<1>4. ASSUME NEW kind, Finish(v, kind), pc[v] # "sleep",
             UNCHANGED <<now, interval, elapsed>>
      PROVE  PacingInv'
  <2>1. PacingType'
    BY <1>1, <1>4 DEF PacingType, Finish, Goto
  <2>2. Timely(v)'
    BY <1>1, <1>4 DEF PacingType, Finish, Goto, Timely, Waiting
  <2> QED  BY <1>1, <1>4, <2>1, <2>2, OthersKept DEF Finish, Goto, PacingType
<1>5. CASE LoopHead(v)
  <2>1. PacingType' /\ UNCHANGED <<now, interval, elapsed, target, wake, began>>
    BY <1>1, <1>2, <1>5 DEF PacingType, LoopHead, Goto, main
  <2>2. Timely(v)'
    BY <1>1, <1>2, <1>5 DEF PacingType, LoopHead, Goto, Timely, Waiting, main
  <2> QED  BY <1>1, <1>5, <2>1, <2>2, OthersKept DEF LoopHead, Goto, PacingType
<1>6. CASE Saturate(v)
  <2>1. PacingType' /\ UNCHANGED <<now, interval, elapsed, seen, wake, began>>
    BY <1>1, <1>2, <1>6 DEF PacingType, Saturate, Goto, main, Busy
  <2>2. Timely(v)'
    BY <1>1, <1>2, <1>3, <1>6
    DEF PacingType, Saturate, Goto, Timely, Waiting, main
  <2> QED  BY <1>1, <1>6, <2>1, <2>2, OthersKept DEF Saturate, Goto, PacingType
<1>7. CASE Draw(v)
  <2>1. interval > 0 /\ pc[v] = "draw" /\ seen[v] \in Nat /\ seen[v] <= now
    BY <1>1, <1>3, <1>7 DEF Draw, Timely, PacingType
  <2>2. elapsed <= now + interval * Cardinality(Workers)
    BY <2>1, NextSlotIsNear
  <2>3. interval * Cardinality(Workers) <= SleepCap /\ SleepCap \in Nat
    BY <1>1, ColdAssumption DEF RateFits, PacingType
  <2>4. interval * Cardinality(Workers) \in Nat
    BY <1>2, FS_CardinalityType, ColdAssumption
  <2>5. /\ elapsed' = elapsed + interval
        /\ target' = [target EXCEPT ![v] = elapsed]
        /\ UNCHANGED <<seen, began>>
    BY <1>7 DEF Draw
  <2>6. PacingType'
    BY <1>1, <1>2, <1>7, <2>1, <2>3 DEF PacingType, Draw, Goto, Busy
  <2>7. Timely(v)'
    <3>1. CASE elapsed > seen[v]
      <4>1. pc'[v] = "sleep" /\ target'[v] = elapsed
            /\ wake'[v] = now + (IF elapsed - seen[v] < SleepCap
                                 THEN elapsed - seen[v] ELSE SleepCap)
        BY <1>1, <1>7, <3>1 DEF Draw, Goto, PacingType
      <4>2. target'[v] <= wake'[v]
        BY <1>2, <2>1, <2>2, <2>3, <2>4, <4>1
      <4> QED  BY <4>1, <4>2 DEF Timely, Waiting
    <3>2. CASE ~(elapsed > seen[v])
      <4>1. pc'[v] = "fire" /\ target'[v] = elapsed
        BY <1>1, <1>7, <3>2 DEF Draw, Goto, PacingType
      <4> QED  BY <1>2, <2>1, <3>2, <4>1 DEF Timely, Waiting
    <3> QED  BY <3>1, <3>2
  <2>8. DueOrHeld'
    <3>1. PICK n \in Nat : elapsed = n * interval
      BY <2>1 DEF PacingInv, DueOrHeld
    <3>2. n + 1 \in Nat /\ elapsed' = (n + 1) * interval
      BY <1>2, <2>5, <3>1
    <3>3. ASSUME NEW j \in Nat, j * interval < elapsed', ~(j * interval <= now)
          PROVE  \E w \in Workers : Holds(w, j)'
      <4>1. CASE j * interval < elapsed
        <5>1. PICK w \in Workers : Holds(w, j)
          BY <2>1, <3>3, <4>1 DEF PacingInv, DueOrHeld
        <5>2. w # v
          BY <2>1, <5>1 DEF Holds
        <5> QED  BY <1>1, <1>2, <1>7, <5>1, <5>2 DEF Holds, Draw, Goto, PacingType
      <4>2. CASE ~(j * interval < elapsed)
        <5>1. j = n
          <6>1. ~(j < n)
            BY <1>2, <2>1, <3>1, <4>2
          <6>2. ~(j >= n + 1)
            BY <1>2, <2>1, <3>2, <3>3
          <6> QED  BY <6>1, <6>2
        <5>2. elapsed > seen[v]
          BY <1>2, <2>1, <3>1, <3>3, <5>1
        <5>3. pc'[v] = "sleep" /\ target'[v] = elapsed
          BY <1>1, <1>7, <5>2 DEF Draw, Goto, PacingType
        <5> QED  BY <1>2, <3>1, <5>1, <5>3 DEF Holds
      <4> QED  BY <4>1, <4>2
    <3> QED  BY <1>2, <3>2, <3>3 DEF DueOrHeld
  <2>9. ASSUME NEW w \in Workers \ {v} PROVE Timely(w)'
    <3>1. Timely(w)
      BY DEF PacingInv
    <3> QED  BY <1>1, <1>2, <1>7, <3>1 DEF Timely, Draw, Goto, PacingType
  <2> QED  BY <2>6, <2>7, <2>8, <2>9 DEF PacingInv
<1>8. CASE Wake(v)
  <2>1. PacingType' /\ UNCHANGED <<now, interval, elapsed, seen, target, wake, began>>
    BY <1>1, <1>2, <1>8 DEF PacingType, Wake, Goto, main, locals, Busy
  <2>2. pc[v] = "sleep" /\ target[v] <= now
    BY <1>1, <1>3, <1>8 DEF PacingType, Wake, Timely
  <2>3. Timely(v)'
    BY <1>1, <1>8, <2>1, <2>2 DEF PacingType, Wake, Goto, Timely, Waiting
  <2> QED  BY <1>1, <1>8, <2>1, <2>2, <2>3, OthersKept DEF Wake, Goto, PacingType
<1>9. CASE Unresolved(v)
  BY <1>4, <1>9 DEF Unresolved, main
<1>10. CASE Dial(v)
  <2>1. CASE Finish(v, "connect")
    BY <1>4, <1>10, <2>1 DEF Dial, main
  <2>2. CASE /\ began' = [began EXCEPT ![v] = now]
             /\ Goto(v, "connect")
             /\ UNCHANGED <<seen, target, wake>>
    <3>1. PacingType' /\ UNCHANGED <<now, interval, elapsed>>
      BY <1>1, <1>2, <1>10, <2>2 DEF PacingType, Dial, Goto, main, Busy, Waiting
    <3>2. Timely(v)'
      BY <1>1, <1>3, <1>10, <2>2, <3>1 DEF PacingType, Dial, Goto, Timely, Waiting
    <3> QED  BY <1>1, <1>10, <2>2, <3>1, <3>2, OthersKept DEF Dial, Goto, PacingType
  <2> QED  BY <1>10, <2>1, <2>2 DEF Dial
<1>11. CASE GiveUp(v)
  BY <1>4, <1>11 DEF GiveUp, Waiting, main
<1>12. ASSUME NEW next \in Waiting, Goto(v, next), UNCHANGED locals,
              pc[v] \in Waiting, UNCHANGED <<now, interval, elapsed>>
       PROVE  PacingInv'
  <2>1. PacingType'
    BY <1>1, <1>12 DEF PacingType, Goto, locals, Busy
  <2>2. Timely(v)'
    BY <1>1, <1>3, <1>12 DEF PacingType, Goto, Timely, Waiting, locals
  <2> QED  BY <1>1, <1>12, <2>1, <2>2, OthersKept DEF Goto, PacingType, locals, Waiting
<1>13. CASE Connected(v)
  BY <1>4, <1>12, <1>13 DEF Connected, main, Waiting
<1>14. CASE Handshake(v)
  BY <1>4, <1>12, <1>14 DEF Handshake, main, Waiting
<1>15. CASE WriteRequest(v)
  BY <1>4, <1>12, <1>15 DEF WriteRequest, main, Waiting
<1>16. CASE ReadResponse(v)
  BY <1>4, <1>16 DEF ReadResponse, main
<1> QED
  BY <1>5, <1>6, <1>7, <1>8, <1>9, <1>10, <1>11, <1>13, <1>14, <1>15, <1>16
  DEF WorkerStep

\* The rest of the system, main thread, clock, stop flag and servers, leaves the
\* pacing alone, but for the clock, which only makes slots due.
LEMMA OthersKeepPacing ==
    ASSUME PacingInv,
           \/ Spawn \/ Join \/ Tick \/ Stop \/ (\E w \in Workers : Server(w))
           \/ UNCHANGED vars
    PROVE  PacingInv'
<1>1. PacingType
  BY DEF PacingInv
<1>2. ASSUME UNCHANGED <<interval, elapsed, locals>>, now' \in Nat, now <= now',
             pc' \in [Workers -> {"none", "head", "draw", "exited"} \cup Busy],
             \A w \in Workers : \/ pc'[w] = pc[w]
                                \/ /\ pc[w] \in {"none", "exited"}
                                   /\ pc'[w] \in {"none", "head", "exited"}
      PROVE  PacingInv'
  <2>1. PacingType'
    BY <1>1, <1>2 DEF PacingType, locals
  <2>2. DueOrHeld'
    <3>1. interval \in Nat /\ elapsed \in Nat /\ now \in Nat
      BY <1>1, ColdAssumption DEF PacingType
    <3>2. SUFFICES ASSUME interval > 0, NEW j \in Nat, j * interval < elapsed,
                          ~(j * interval <= now')
                   PROVE  \E w \in Workers : Holds(w, j)'
      BY <1>2 DEF PacingInv, DueOrHeld
    <3>3. ~(j * interval <= now)
      BY <1>2, <3>1, <3>2
    <3>4. PICK w \in Workers : Holds(w, j)
      BY <3>2, <3>3 DEF PacingInv, DueOrHeld
    <3> QED  BY <1>2, <3>4 DEF Holds, locals
  <2>3. ASSUME NEW w \in Workers PROVE Timely(w)'
    <3>1. Timely(w)
      BY DEF PacingInv
    <3> QED  BY <1>1, <1>2, <3>1 DEF Timely, PacingType, locals, Waiting
  <2> QED  BY <2>1, <2>2, <2>3 DEF PacingInv
<1>3. CASE Spawn
  BY <1>1, <1>2, <1>3 DEF Spawn, Spawned, main, PacingType
<1>4. CASE Join
  BY <1>1, <1>2, <1>4 DEF Join, PacingType
<1>5. CASE Tick
  BY <1>1, <1>2, <1>5 DEF Tick, main, PacingType
<1>6. CASE Stop
  BY <1>1, <1>2, <1>6 DEF Stop, main, PacingType
<1>7. ASSUME NEW w \in Workers, Server(w) PROVE PacingInv'
  <2>1. ASSUME NEW s, SetSock(w, s) PROVE PacingInv'
    BY <1>1, <1>2, <2>1 DEF SetSock, main, PacingType
  <2> QED  BY <1>7, <2>1 DEF Server, Accept, Shake, Respond, Close
<1>8. CASE UNCHANGED vars
  BY <1>1, <1>2, <1>8 DEF vars, main, PacingType
<1> QED  BY <1>3, <1>4, <1>5, <1>6, <1>7, <1>8

\* The pacer of cold-connect serves no slot early, however many workers share
\* the counter and however they are scheduled, if the slots of all workers fit
\* in the 100 ms cap of its sleep; without that it does, see RateBounded.
THEOREM SlotsAreNeverEarly ==
    ASSUME RateFits
    PROVE  Spec => []NeverEarly
<1>1. Init => PacingInv
  <2>1. SUFFICES ASSUME Init PROVE PacingInv
    OBVIOUS
  <2>2. PacingType
    BY <2>1 DEF Init, PacingType
  <2>3. DueOrHeld
    <3>1. interval \in Nat /\ elapsed = 0
      BY <2>1, ColdAssumption DEF Init
    <3>2. elapsed = 0 * interval
      BY <3>1
    <3>3. \A j \in Nat : ~(j * interval < elapsed)
      BY <3>1
    <3> QED  BY <3>2, <3>3 DEF DueOrHeld
  <2>4. \A w \in Workers : Timely(w)
    BY <2>1 DEF Init, Timely, Waiting
  <2> QED  BY <2>2, <2>3, <2>4 DEF PacingInv
<1>2. PacingInv /\ [Next]_vars => PacingInv'
  BY WorkerKeepsPacing, OthersKeepPacing DEF Next
<1>3. PacingInv => NeverEarly
  BY DEF PacingInv, Timely, NeverEarly
<1> QED  BY <1>1, <1>2, <1>3, PTL DEF Spec

-----------------------------------------------------------------------------
(* The tallies. *)

Tallies == stats \in [Workers -> Tally]

\* One worker records one thing.
Records(w, kind) == kind \in Kinds /\ stats' = Count(w, kind)

\* One count is one more of one kind, of one worker.
LEMMA CountAddsOne ==
    ASSUME Tallies, NEW v \in Workers, NEW kind \in Kinds, Records(v, kind)
    PROVE  /\ Tallies'
           /\ \A w \in Workers, k \in Kinds : w # v \/ k # kind => stats'[w][k] = stats[w][k]
<1> DEFINE tally == [stats[v] EXCEPT ![kind] = stats[v][kind] + 1]
<1>1. stats \in [Workers -> [Kinds -> Nat]]
  BY DEF Tallies, Tally
<1>2. stats' = [stats EXCEPT ![v] = tally]
  BY <1>1 DEF Records, Count
<1>3. tally \in [Kinds -> Nat] /\ \A k \in Kinds : k # kind => tally[k] = stats[v][k]
  BY <1>1
<1> HIDE DEF tally
<1> QED  BY <1>1, <1>2, <1>3 DEF Tallies, Tally

-----------------------------------------------------------------------------
(* The slots. *)

Finishing == Kinds \ {"keepup"}
Past(o) == SumFunction([i \in DOMAIN o |-> Ended(o[i])])
Present(s) == SumFunction([w \in Workers |-> Ended(s[w])])
OnIt(p) == {w \in Workers : p[w] \in Busy}

SlotsType ==
    /\ interval \in Nat
    /\ elapsed \in Nat
    /\ out \in Seq(Tally)
    /\ Tallies
    /\ pc \in [Workers -> {"none", "head", "draw", "exited"} \cup Busy]

SlotsInv == SlotsType /\ EverySlotAccounted

\* EverySlotAccounted in the terms of this section.
LEMMA Slots ==
    /\ EverySlotAccounted <=>
         (interval > 0 =>
            elapsed = interval * (Past(out) + Present(stats) + Cardinality(OnIt(pc))))
    /\ EverySlotAccounted' <=>
         (interval' > 0 =>
            elapsed' = interval' * (Past(out') + Present(stats') + Cardinality(OnIt(pc'))))
  BY DEF EverySlotAccounted, Past, Present, OnIt

LEMMA KindsAreFinite == IsFiniteSet(Kinds) /\ IsFiniteSet(Finishing)
<1> DEFINE A == {"write", "read"}
           B == {"connect"} \cup ({"timeout"} \cup A)
<1>1. IsFiniteSet(A)
  <2> DEFINE one == {"read"}
  <2>1. A = one \cup {"write"} /\ IsFiniteSet(one)
    BY FS_Singleton
  <2> HIDE DEF one
  <2> QED  BY <2>1, FS_AddElement
<1>2. IsFiniteSet(B)
  <2>1. B = (A \cup {"timeout"}) \cup {"connect"}
    OBVIOUS
  <2> HIDE DEF A
  <2> QED  BY <1>1, <2>1, FS_AddElement
<1>3. IsFiniteSet(Kinds)
  <2>1. Kinds = (B \cup {"sample"}) \cup {"keepup"}
    BY DEF Kinds
  <2> HIDE DEF B
  <2> QED  BY <1>2, <2>1, FS_AddElement
<1>4. Finishing \subseteq Kinds
  BY DEF Finishing
<1> QED  BY <1>3, <1>4, FS_Subset

LEMMA EndedIsNumber == ASSUME NEW t \in Tally PROVE Ended(t) \in Int
<1>1. \A k \in Finishing : t[k] \in Int
  BY DEF Tally, Finishing
<1> QED  BY <1>1, KindsAreFinite, SumType DEF Ended, Finishing

LEMMA NoneEnded == Ended(NoStats) = 0
<1>1. \A k \in Finishing : NoStats[k] = 0
  BY DEF NoStats, Finishing
<1>2. SumFunctionOnSet(NoStats, Finishing) = 0 * Cardinality(Finishing)
  <2> DEFINE f == NoStats
             d == 0
             F == Finishing
  <2>1. d \in Int /\ IsFiniteSet(F) /\ \A k \in F : f[k] = d
    BY <1>1, KindsAreFinite
  <2> HIDE DEF f, d, F
  <2>2. SumFunctionOnSet(f, F) = d * Cardinality(F)
    BY <2>1, SumConstant
  <2> QED  BY <2>2 DEF f, d, F
<1> QED  BY <1>2, KindsAreFinite, FS_CardinalityType DEF Ended, Finishing

\* Whatever is recorded but a keepup error ends an operation.
LEMMA OneMoreEnded ==
    ASSUME NEW t \in Tally, NEW u \in Tally, NEW kind \in Kinds, u[kind] = t[kind] + 1,
           \A k \in Kinds \ {kind} : u[k] = t[k]
    PROVE  Ended(u) = Ended(t) + (IF kind = "keepup" THEN 0 ELSE 1)
<1>1. \A k \in Finishing : t[k] \in Int /\ u[k] \in Int
  BY DEF Tally, Finishing
<1>2. CASE kind = "keepup"
  <2>1. \A k \in Finishing : u[k] = t[k]
    BY <1>2 DEF Finishing
  <2>2. SumFunctionOnSet(t, Finishing) = SumFunctionOnSet(u, Finishing)
    BY <1>1, <2>1, KindsAreFinite, SumSame
  <2>3. Ended(u) = Ended(t) /\ Ended(t) \in Int
    BY <2>2, EndedIsNumber DEF Ended, Finishing
  <2> QED  BY <1>2, <2>3
<1>3. CASE kind # "keepup"
  <2>1. kind \in Finishing /\ \A k \in Finishing \ {kind} : t[k] = u[k]
    BY <1>3 DEF Finishing
  <2>2. SumFunctionOnSet(u, Finishing) = SumFunctionOnSet(t, Finishing) - t[kind] + u[kind]
    BY <1>1, <2>1, KindsAreFinite, SumChange
  <2>3. Ended(u) = Ended(t) - t[kind] + u[kind]
    BY <2>2 DEF Ended, Finishing
  <2>4. Ended(t) \in Int /\ t[kind] \in Int
    BY <1>1, <2>1, EndedIsNumber
  <2>5. Ended(u) = Ended(t) + 1
    BY <2>3, <2>4
  <2> QED  BY <1>3, <2>5
<1> QED  BY <1>2, <1>3

\* The sums and the number of workers at it are numbers.
LEMMA SlotsAreNumbers ==
    ASSUME SlotsType
    PROVE  /\ Past(out) \in Int /\ Present(stats) \in Int
           /\ IsFiniteSet(OnIt(pc)) /\ Cardinality(OnIt(pc)) \in Nat
<1>1. IsFiniteSet(OnIt(pc))
  BY FS_Subset, ColdAssumption DEF OnIt
<1>2. Past(out) \in Int
  <2> DEFINE f == [i \in DOMAIN out |-> Ended(out[i])]
  <2>1. IsFiniteSet(DOMAIN out) /\ \A i \in DOMAIN out : out[i] \in Tally
    BY FS_Interval DEF SlotsType
  <2>2. DOMAIN f = DOMAIN out /\ \A i \in DOMAIN out : f[i] \in Int
    BY <2>1, EndedIsNumber
  <2> HIDE DEF f
  <2>3. SumFunctionOnSet(f, DOMAIN out) \in Int
    BY <2>1, <2>2, SumType
  <2> QED  BY <2>2, <2>3 DEF Past, SumFunction, f
<1>3. Present(stats) \in Int
  <2> DEFINE f == [w \in Workers |-> Ended(stats[w])]
  <2>1. DOMAIN f = Workers /\ \A w \in Workers : f[w] \in Int
    BY EndedIsNumber DEF SlotsType, Tallies
  <2> HIDE DEF f
  <2>2. SumFunctionOnSet(f, Workers) \in Int
    BY <2>1, SumType, ColdAssumption
  <2> QED  BY <2>1, <2>2 DEF Present, SumFunction, f
<1> QED  BY <1>1, <1>2, <1>3, FS_CardinalityType

\* A worker records something.
LEMMA PresentCounts ==
    ASSUME SlotsType, NEW v \in Workers, NEW kind \in Kinds, stats' = Count(v, kind)
    PROVE  Tallies' /\ Present(stats') = Present(stats) + (IF kind = "keepup" THEN 0 ELSE 1)
<1>1. /\ Tallies' /\ Tallies
      /\ \A w \in Workers, k \in Kinds : w # v \/ k # kind => stats'[w][k] = stats[w][k]
  BY CountAddsOne DEF SlotsType, Records
<1>2. stats'[v][kind] = stats[v][kind] + 1
  BY DEF SlotsType, Tallies, Tally, Count
<1>3. \A w \in Workers : stats[w] \in Tally /\ stats'[w] \in Tally
  BY <1>1 DEF Tallies
<1>4. \A w \in Workers \ {v} : stats'[w] = stats[w]
  BY <1>1, <1>3 DEF Tally
<1>5. Ended(stats'[v]) = Ended(stats[v]) + (IF kind = "keepup" THEN 0 ELSE 1)
  <2> DEFINE t == stats[v]
             u == stats'[v]
  <2>1. t \in Tally /\ u \in Tally /\ u[kind] = t[kind] + 1
        /\ \A k \in Kinds \ {kind} : u[k] = t[k]
    BY <1>1, <1>2, <1>3
  <2> HIDE DEF t, u
  <2>2. Ended(u) = Ended(t) + (IF kind = "keepup" THEN 0 ELSE 1)
    BY <2>1, OneMoreEnded
  <2> QED  BY <2>2 DEF t, u
<1> DEFINE f == [w \in Workers |-> Ended(stats[w])]
           g == [w \in Workers |-> Ended(stats'[w])]
<1>6. /\ DOMAIN f = Workers /\ DOMAIN g = Workers
      /\ \A w \in Workers : f[w] \in Int /\ g[w] \in Int
      /\ \A w \in Workers \ {v} : f[w] = g[w]
      /\ g[v] = f[v] + (IF kind = "keepup" THEN 0 ELSE 1)
  BY <1>3, <1>4, <1>5, EndedIsNumber
<1> HIDE DEF f, g
<1>7. /\ SumFunctionOnSet(g, Workers) = SumFunctionOnSet(f, Workers) - f[v] + g[v]
      /\ SumFunctionOnSet(f, Workers) \in Int
  BY <1>6, SumChange, SumType, ColdAssumption
<1>8. /\ Present(stats) = SumFunctionOnSet(f, Workers)
      /\ Present(stats') = SumFunctionOnSet(g, Workers)
  BY <1>6 DEF Present, SumFunction, f, g
<1> QED  BY <1>1, <1>6, <1>7, <1>8

\* What a step of the system may do to the slots: worker v draws one and is on
\* it, records the end of what it was on, or keeps to where it was.
Draws(v) ==
    /\ elapsed' = elapsed + interval
    /\ stats' = stats \/ stats' = Count(v, "keepup")
    /\ pc[v] \notin Busy /\ \E l \in Busy : Goto(v, l)
Ends(v) ==
    /\ elapsed' = elapsed
    /\ \E kind \in Finishing : stats' = Count(v, kind)
    /\ pc[v] \in Busy /\ Goto(v, "head")
Keeps ==
    /\ elapsed' = elapsed /\ stats' = stats
    /\ pc' \in [Workers -> {"none", "head", "draw", "exited"} \cup Busy]
    /\ interval > 0 => OnIt(pc') = OnIt(pc)

LEMMA WorkerKeepsToSlots ==
    ASSUME SlotsType, NEW v \in Workers, WorkerStep(v)
    PROVE  /\ interval' = interval /\ out' = out
           /\ Draws(v) \/ Ends(v) \/ Keeps
<1>1. interval' = interval /\ out' = out
  BY DEF WorkerStep, LoopHead, Saturate, Draw, Wake, Unresolved, Dial, GiveUp, Connected,
         Handshake, WriteRequest, ReadResponse, main
<1>2. ASSUME NEW l \in {"head", "draw", "exited"} \cup Busy, Goto(v, l),
             interval = 0 \/ (pc[v] \in Busy <=> l \in Busy),
             stats' = stats, elapsed' = elapsed
      PROVE  Keeps
  <2>1. pc' \in [Workers -> {"none", "head", "draw", "exited"} \cup Busy]
    BY <1>2 DEF SlotsType, Goto
  <2>2. interval > 0 => OnIt(pc') = OnIt(pc)
    BY <1>2 DEF SlotsType, Goto, OnIt
  <2> QED  BY <1>2, <2>1, <2>2 DEF Keeps
<1>3. ASSUME NEW kind \in Finishing, Finish(v, kind), pc[v] \in Busy, elapsed' = elapsed
      PROVE  Ends(v)
  BY <1>3 DEF Ends, Finish
<1>4. CASE LoopHead(v)
  <2>1. /\ pc[v] = "head" /\ stats' = stats /\ elapsed' = elapsed
        /\ Goto(v, "exited") \/ Goto(v, "draw")
    BY <1>4 DEF LoopHead
  <2> QED  BY <1>1, <1>2, <2>1 DEF Busy, Waiting
<1>5. CASE Saturate(v)
  <2>1. interval = 0 /\ stats' = stats /\ elapsed' = elapsed /\ Goto(v, "fire")
    BY <1>5 DEF Saturate
  <2> QED  BY <1>1, <1>2, <2>1 DEF Busy
<1>6. CASE Draw(v)
  <2>1. /\ pc[v] = "draw" /\ elapsed' = elapsed + interval
        /\ stats' = stats \/ stats' = Count(v, "keepup")
        /\ Goto(v, "sleep") \/ Goto(v, "fire")
    BY <1>6 DEF Draw
  <2> QED  BY <1>1, <2>1 DEF Draws, Busy, Waiting
<1>7. CASE Wake(v)
  <2>1. pc[v] = "sleep" /\ stats' = stats /\ elapsed' = elapsed /\ Goto(v, "fire")
    BY <1>7 DEF Wake
  <2> QED  BY <1>1, <1>2, <2>1 DEF Busy
<1>8. CASE Unresolved(v) \/ Dial(v) \/ GiveUp(v)
  <2>1. pc[v] \in Busy /\ elapsed' = elapsed
    BY <1>8 DEF Unresolved, Dial, GiveUp, Busy
  <2>2. \/ \E kind \in {"connect", "timeout"} : Finish(v, kind)
        \/ Goto(v, "connect") /\ stats' = stats
    BY <1>8 DEF Unresolved, Dial, GiveUp
  <2> QED  BY <1>1, <1>2, <1>3, <2>1, <2>2 DEF Finishing, Kinds, Busy, Waiting
<1>9. CASE Connected(v) \/ Handshake(v) \/ WriteRequest(v) \/ ReadResponse(v)
  <2>1. pc[v] \in Busy /\ elapsed' = elapsed
    BY <1>9 DEF Connected, Handshake, WriteRequest, ReadResponse, Busy, Waiting
  <2>2. \/ \E kind \in {"connect", "write", "sample", "read"} : Finish(v, kind)
        \/ (\E l \in Waiting : Goto(v, l)) /\ stats' = stats
    BY <1>9 DEF Connected, Handshake, WriteRequest, ReadResponse, Waiting
  <2> QED  BY <1>1, <1>2, <1>3, <2>1, <2>2 DEF Finishing, Kinds, Busy
<1> QED  BY <1>4, <1>5, <1>6, <1>7, <1>8, <1>9 DEF WorkerStep

\* Of the others only main has to do with the slots, when it merges the stats.
LEMMA OthersKeepToSlots ==
    ASSUME SlotsType, Spawn \/ Tick \/ Stop \/ (\E w \in Workers : Server(w)) \/ UNCHANGED vars
    PROVE  interval' = interval /\ out' = out /\ Keeps
<1>1. CASE Spawn
  <2>1. /\ interval' = interval /\ out' = out /\ stats' = stats /\ elapsed' = elapsed
        /\ pc' \in [Workers -> {"head", "exited"}] /\ \A w \in Workers : pc[w] = "none"
    BY <1>1 DEF Spawn, Spawned, main
  <2>2. OnIt(pc) = {} /\ OnIt(pc') = {}
    BY <2>1 DEF OnIt, Busy, Waiting
  <2> QED  BY <2>1, <2>2 DEF Keeps
<1>2. CASE Tick \/ Stop \/ (\E w \in Workers : Server(w)) \/ UNCHANGED vars
  <2>1. UNCHANGED <<interval, out, stats, elapsed, pc>>
    BY <1>2 DEF Tick, Stop, Server, Accept, Shake, Respond, Close, SetSock, vars, main
  <2> QED  BY <2>1 DEF Keeps, SlotsType
<1> QED  BY <1>1, <1>2

\* What the workers have recorded moves to the stats of the scenario, added up
\* by kind there, by worker here.
LEMMA JoinKeepsSlots ==
    ASSUME SlotsType, Join
    PROVE  /\ Tallies' /\ out' \in Seq(Tally)
           /\ Past(out') = Past(out) + Present(stats)
           /\ Present(stats') = 0
           /\ OnIt(pc) = {} /\ OnIt(pc') = {}
<1> DEFINE merged == [k \in Kinds |-> SumFunction([w \in Workers |-> stats[w][k]])]
<1>1. /\ stats \in [Workers -> Tally] /\ \A w \in Workers, k \in Kinds : stats[w][k] \in Nat
      /\ IsFiniteSet(Workers)
  BY ColdAssumption DEF SlotsType, Tallies, Tally
<1>2. merged \in Tally
  <2> SUFFICES ASSUME NEW k \in Kinds
               PROVE  SumFunction([w \in Workers |-> stats[w][k]]) \in Nat
    BY DEF Tally
  <2> DEFINE f == [w \in Workers |-> stats[w][k]]
  <2>1. DOMAIN f = Workers /\ \A w \in Workers : f[w] \in Int /\ f[w] >= 0
    BY <1>1
  <2> HIDE DEF f
  <2>2. SumFunctionOnSet(f, Workers) \in Int /\ SumFunctionOnSet(f, Workers) >= 0
    BY <1>1, <2>1, SumType, SumOfNumbers
  <2> QED  BY <2>1, <2>2 DEF SumFunction, f
<1>3. Ended(merged) = Present(stats)
  <2> DEFINE ended == [w \in Workers |-> Ended(stats[w])]
             byKind == [k \in Finishing |-> SumFunctionOnSet([w \in Workers |-> stats[w][k]], Workers)]
  <2>1. SumFunctionOnSet(byKind, Finishing)
          = SumFunctionOnSet([w \in Workers |-> SumFunctionOnSet(stats[w], Finishing)], Workers)
    <3>1. \A w \in Workers, k \in Finishing : stats[w][k] \in Int
      BY <1>1 DEF Finishing
    <3> QED  BY <1>1, <3>1, KindsAreFinite, SumExchange
  <2>2. ended = [w \in Workers |-> SumFunctionOnSet(stats[w], Finishing)]
    BY DEF Ended, Finishing
  <2>3. \A k \in Finishing : merged[k] \in Int /\ merged[k] = byKind[k]
    BY <1>2 DEF Tally, Finishing, SumFunction
  <2> HIDE DEF merged, byKind
  <2>4. SumFunctionOnSet(merged, Finishing) = SumFunctionOnSet(byKind, Finishing)
    BY <2>3, KindsAreFinite, SumSame
  <2>5. Present(stats) = SumFunctionOnSet(ended, Workers)
    BY DEF Present, SumFunction
  <2> QED  BY <2>1, <2>2, <2>4, <2>5 DEF Ended, Finishing
<1>4. out' = Append(out, merged) /\ stats' = [w \in Workers |-> NoStats]
  BY DEF Join
<1> HIDE DEF merged
<1>5. Past(out') = Past(out) + Ended(merged)
  <2> DEFINE n == Len(out)
             f == [i \in DOMAIN out |-> Ended(out[i])]
             g == [i \in DOMAIN out' |-> Ended(out'[i])]
  <2>1. /\ n \in Nat /\ DOMAIN out = 1..n /\ DOMAIN out' = 1..n \cup {n + 1}
        /\ \A i \in 1..n : out'[i] = out[i] /\ out[i] \in Tally
        /\ out'[n + 1] = merged
    BY <1>4 DEF SlotsType
  <2>2. /\ DOMAIN f = 1..n /\ DOMAIN g = 1..n \cup {n + 1}
        /\ \A i \in 1..n : f[i] \in Int /\ g[i] = f[i]
        /\ g[n + 1] = Ended(merged) /\ g[n + 1] \in Int
    BY <1>2, <2>1, EndedIsNumber
  <2>3. n + 1 \notin 1..n /\ IsFiniteSet(1..n)
    BY <2>1, FS_Interval
  <2> HIDE DEF n, f, g
  <2>4. SumFunctionOnSet(g, 1..n \cup {n + 1}) = g[n + 1] + SumFunctionOnSet(g, 1..n)
    BY <2>2, <2>3, SumAdd
  <2>5. SumFunctionOnSet(f, 1..n) = SumFunctionOnSet(g, 1..n)
        /\ SumFunctionOnSet(f, 1..n) \in Int
    BY <2>2, <2>3, SumSame, SumType
  <2>6. Past(out) = SumFunctionOnSet(f, 1..n) /\ Past(out') = SumFunctionOnSet(g, 1..n \cup {n + 1})
    BY <2>2 DEF Past, SumFunction, f, g
  <2> QED  BY <2>2, <2>4, <2>5, <2>6
<1>6. Present(stats') = 0
  <2> DEFINE f == [w \in Workers |-> Ended(stats'[w])]
             d == 0
  <2>1. DOMAIN f = Workers /\ d \in Int /\ \A w \in Workers : f[w] = d
    BY <1>4, NoneEnded
  <2> HIDE DEF f, d
  <2>2. SumFunctionOnSet(f, Workers) = d * Cardinality(Workers)
    BY <1>1, <2>1, SumConstant
  <2>3. SumFunctionOnSet(f, Workers) = 0
    BY <1>1, <2>2, FS_CardinalityType DEF d
  <2> QED  BY <2>1, <2>3 DEF Present, SumFunction, f
<1>7. Tallies'
  BY <1>4 DEF Tallies, Tally, NoStats
<1>8. out' \in Seq(Tally)
  BY <1>2, <1>4 DEF SlotsType
<1>9. OnIt(pc) = {} /\ OnIt(pc') = {}
  BY DEF Join, OnIt, Busy, Waiting
<1> QED  BY <1>3, <1>5, <1>6, <1>7, <1>8, <1>9

\* With the open loop's pacing every slot that the workers have drawn from the shared
\* counter has ended as one sample or one error, merged or not yet, or a worker is on
\* it: none is lost or counted twice, whatever the threads, timeouts and servers do
\* (run_worker, do_one_op and the merge in cold_connect.rs).
THEOREM SlotsAreAccounted == Spec => []EverySlotAccounted
<1>1. Init => SlotsInv
  <2> SUFFICES ASSUME Init PROVE SlotsInv
    OBVIOUS
  <2>1. interval \in Nat /\ elapsed = 0 /\ out = << >> /\ stats = [w \in Workers |-> NoStats]
    BY ColdAssumption DEF Init
  <2>2. SlotsType
    BY <2>1 DEF Init, SlotsType, Tallies, Tally, NoStats
  <2>3. Past(out) = 0
    <3> DEFINE f == [i \in DOMAIN out |-> Ended(out[i])]
    <3>1. DOMAIN f = {}
      BY <2>1
    <3> HIDE DEF f
    <3>2. SumFunctionOnSet(f, {}) = 0
      BY SumEmpty
    <3> QED  BY <3>1, <3>2 DEF Past, SumFunction, f
  <2>4. Present(stats) = 0
    <3> DEFINE f == [w \in Workers |-> Ended(stats[w])]
               d == 0
    <3>1. DOMAIN f = Workers /\ d \in Int /\ \A w \in Workers : f[w] = d
      BY <2>1, NoneEnded
    <3> HIDE DEF f, d
    <3>2. SumFunctionOnSet(f, Workers) = d * Cardinality(Workers)
      BY <3>1, SumConstant, ColdAssumption
    <3>3. SumFunctionOnSet(f, Workers) = 0
      BY <3>2, FS_CardinalityType, ColdAssumption DEF d
    <3> QED  BY <3>1, <3>3 DEF Present, SumFunction, f
  <2>5. Cardinality(OnIt(pc)) = 0
    <3>1. OnIt(pc) = {}
      BY DEF Init, OnIt, Busy, Waiting
    <3> QED  BY <3>1, FS_EmptySet
  <2>6. elapsed = interval * (Past(out) + Present(stats) + Cardinality(OnIt(pc)))
    BY <2>1, <2>3, <2>4, <2>5
  <2> QED  BY <2>2, <2>6, Slots DEF SlotsInv
<1>2. SlotsInv /\ [Next]_vars => SlotsInv'
  <2> SUFFICES ASSUME SlotsInv, [Next]_vars PROVE SlotsInv'
    OBVIOUS
  <2> DEFINE past == Past(out)
             present == Present(stats)
             on == Cardinality(OnIt(pc))
  <2>1. /\ SlotsType /\ interval \in Nat /\ elapsed \in Nat
        /\ past \in Int /\ present \in Int /\ on \in Nat /\ IsFiniteSet(OnIt(pc))
        /\ interval > 0 => elapsed = interval * (past + present + on)
    BY SlotsAreNumbers, Slots DEF SlotsInv, SlotsType
  <2> HIDE DEF past, present, on
  <2>2. ASSUME interval' = interval, out' = out, Keeps PROVE SlotsInv'
    <3>1. SlotsType'
      BY <2>1, <2>2 DEF SlotsType, Tallies, Keeps
    <3> QED  BY <2>1, <2>2, <3>1, Slots DEF SlotsInv, Keeps, past, present, on
  <2>3. ASSUME interval' = interval, out' = out, NEW v \in Workers, Draws(v) PROVE SlotsInv'
    <3>1. Tallies' /\ Present(stats') = present
      <4>1. CASE stats' = stats
        BY <2>1, <4>1 DEF SlotsType, Tallies, present
      <4>2. CASE stats' = Count(v, "keepup")
        <5>1. "keepup" \in Kinds
          BY DEF Kinds
        <5> QED  BY <2>1, <4>2, <5>1, PresentCounts DEF present
      <4> QED  BY <2>3, <4>1, <4>2 DEF Draws
    <3>2. /\ v \notin OnIt(pc) /\ OnIt(pc') = OnIt(pc) \cup {v}
          /\ pc' \in [Workers -> {"none", "head", "draw", "exited"} \cup Busy]
      BY <2>1, <2>3 DEF Draws, Goto, OnIt, SlotsType
    <3>3. Cardinality(OnIt(pc')) = on + 1
      BY <2>1, <3>2, FS_AddElement DEF on
    <3>4. elapsed' = elapsed + interval
      BY <2>3 DEF Draws
    <3>5. interval * (past + present + on) + interval = interval * (past + present + (on + 1))
      BY <2>1
    <3>6. SlotsType'
      BY <2>1, <2>3, <3>1, <3>2, <3>4 DEF SlotsType
    <3>7. Past(out') = past
      BY <2>3 DEF past
    <3> QED  BY <2>1, <2>3, <3>1, <3>3, <3>4, <3>5, <3>6, <3>7, Slots DEF SlotsInv
  <2>4. ASSUME interval' = interval, out' = out, NEW v \in Workers, Ends(v) PROVE SlotsInv'
    <3>1. Tallies' /\ Present(stats') = present + 1
      <4>1. PICK kind \in Finishing : stats' = Count(v, kind)
        BY <2>4 DEF Ends
      <4>2. kind \in Kinds /\ kind # "keepup"
        BY DEF Finishing
      <4>3. Tallies' /\ Present(stats') = present + (IF kind = "keepup" THEN 0 ELSE 1)
        BY <2>1, <4>1, <4>2, PresentCounts DEF present
      <4> QED  BY <4>2, <4>3
    <3>2. /\ v \in OnIt(pc) /\ OnIt(pc') = OnIt(pc) \ {v}
          /\ pc' \in [Workers -> {"none", "head", "draw", "exited"} \cup Busy]
      BY <2>1, <2>4 DEF Ends, Goto, OnIt, SlotsType, Busy, Waiting
    <3>3. Cardinality(OnIt(pc')) = on - 1
      BY <2>1, <3>2, FS_RemoveElement DEF on
    <3>4. elapsed' = elapsed
      BY <2>4 DEF Ends
    <3>5. past + present + on = past + (present + 1) + (on - 1)
      BY <2>1
    <3>6. SlotsType'
      BY <2>1, <2>4, <3>1, <3>2, <3>4 DEF SlotsType
    <3>7. Past(out') = past
      BY <2>4 DEF past
    <3> QED  BY <2>1, <2>4, <3>1, <3>3, <3>4, <3>5, <3>6, <3>7, Slots DEF SlotsInv
  <2>5. CASE Join
    <3>1. /\ Tallies' /\ out' \in Seq(Tally) /\ Past(out') = past + present
          /\ Present(stats') = 0 /\ OnIt(pc) = {} /\ OnIt(pc') = {}
      BY <2>1, <2>5, JoinKeepsSlots DEF past, present
    <3>2. on = 0 /\ Cardinality(OnIt(pc')) = 0
      BY <3>1, FS_EmptySet DEF on
    <3>3. interval' = interval /\ elapsed' = elapsed /\ pc' = [w \in Workers |-> "none"]
      BY <2>5 DEF Join
    <3>4. SlotsType'
      BY <2>1, <3>1, <3>3 DEF SlotsType
    <3>5. past + present + on = (past + present) + 0 + 0
      BY <2>1, <3>2
    <3> QED  BY <2>1, <3>1, <3>2, <3>3, <3>4, <3>5, Slots DEF SlotsInv
  <2>6. CASE Spawn \/ Tick \/ Stop \/ (\E w \in Workers : Server(w)) \/ UNCHANGED vars
    BY <2>1, <2>2, <2>6, OthersKeepToSlots
  <2>7. CASE \E w \in Workers : WorkerStep(w)
    BY <2>1, <2>2, <2>3, <2>4, <2>7, WorkerKeepsToSlots
  <2> QED  BY <2>5, <2>6, <2>7 DEF Next
<1>3. SlotsInv => EverySlotAccounted
  BY DEF SlotsInv
<1> QED  BY <1>1, <1>2, <1>3, PTL DEF Spec
==============================================================================
