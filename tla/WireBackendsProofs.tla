-------------------------- MODULE WireBackendsProofs --------------------------
(***************************************************************************)
(* The backends that share a connection or a message with a peer: the      *)
(* tokens of the HTTP/2 worker, the messages of a WebSocket connection and *)
(* the bytes of the self-check, for every size of the run.                 *)
(***************************************************************************)
EXTENDS Backends, FiniteSetTheorems, SequenceTheorems, TLAPS

-----------------------------------------------------------------------------
(* Queues and counts. *)

Elements(q) == {q[k] : k \in DOMAIN q}
Front(q, n) == {q[k] : k \in 1..n}
Distinct(q) == \A j, k \in DOMAIN q : q[j] = q[k] => j = k

\* rest numbers what q, of length L, has after its first n.
RestOf(rest, q, n, L) ==
    /\ DOMAIN q = 1..L /\ DOMAIN rest = 1..L - n
    /\ \A k \in 1..L - n : rest[k] = q[k + n]

\* all goes on after q, of length L, with the n numbers after m.
GrownBy(all, q, m, n, L) ==
    /\ DOMAIN q = 1..L /\ \A k \in 1..L : q[k] \in 1..m
    /\ DOMAIN all = 1..L + n /\ \A k \in 1..L : all[k] = q[k]
    /\ \A k \in 1..n : all[L + k] = m + k

\* The two parts of a numbering of different tokens.
LEMMA SplitAt ==
    ASSUME NEW L \in Nat, NEW n \in 0..L, NEW q, NEW rest,
           Distinct(q), RestOf(rest, q, n, L)
    PROVE  /\ Distinct(rest)
           /\ Front(q, n) \cup Elements(rest) = Elements(q)
           /\ Front(q, n) \cap Elements(rest) = {}
           /\ IsFiniteSet(Front(q, n)) /\ Cardinality(Front(q, n)) = n
<1> USE DEF RestOf
<1> DEFINE front == {q[k] : k \in 1..n}
<1>1. /\ \A k \in 1..n : k \in 1..L
      /\ \A k \in 1..L - n : k + n \in 1..L /\ k + n \notin 1..n
  OBVIOUS
<1>2. Distinct(rest)
  <2> SUFFICES ASSUME NEW i \in 1..L - n, NEW j \in 1..L - n, rest[i] = rest[j]
      PROVE i = j
    BY DEF Distinct
  <2>1. i + n = j + n
    BY <1>1 DEF Distinct
  <2> QED  BY <2>1
<1>3. front \cup Elements(rest) = Elements(q)
  <2>1. Elements(rest) \subseteq Elements(q) /\ front \subseteq Elements(q)
    BY <1>1 DEF Elements
  <2>2. ASSUME NEW k \in 1..L PROVE q[k] \in front \cup Elements(rest)
    <3>1. CASE k <= n
      BY <3>1
    <3>2. CASE k > n
      <4>1. k - n \in 1..L - n /\ (k - n) + n = k
        BY <3>2
      <4> QED  BY <4>1 DEF Elements
    <3> QED  BY <3>1, <3>2
  <2> QED  BY <2>1, <2>2 DEF Elements
<1>4. front \cap Elements(rest) = {}
  <2> SUFFICES ASSUME NEW i \in 1..n, NEW j \in 1..L - n, q[i] = rest[j] PROVE FALSE
    BY DEF Elements
  <2>1. i = j + n
    BY <1>1 DEF Distinct
  <2> QED  BY <1>1, <2>1
<1>5. IsFiniteSet(front) /\ Cardinality(front) = n
  <2> DEFINE f == [k \in 1..n |-> q[k]]
  <2>1. /\ f \in [1..n -> front] /\ \A x \in front : \E k \in 1..n : f[k] = x
        /\ \A i, j \in 1..n : f[i] = f[j] => i = j
    BY <1>1 DEF Distinct
  <2>2. ExistsBijection(1..n, front)
    <3> HIDE DEF f, front
    <3> QED  BY <2>1 DEF ExistsBijection, Bijection, Injection, Surjection, IsInjective
  <2>3. IsFiniteSet(1..n) /\ Cardinality(1..n) = n
    <3>1. 1 \in Int /\ n \in Int /\ (IF 1 > n THEN 0 ELSE n - 1 + 1) = n
      OBVIOUS
    <3> QED  BY <3>1, FS_Interval
  <2> QED  BY <2>2, <2>3, FS_Bijection
<1> QED  BY <1>2, <1>3, <1>4, <1>5 DEF Front

\* The first n of a queue of different tokens, and what is left of it.
LEMMA CutInTwo ==
    ASSUME NEW q \in Seq(Nat), Distinct(q), NEW n \in 0..Len(q)
    PROVE  LET rest == SubSeq(q, n + 1, Len(q))
           IN  /\ rest \in Seq(Nat) /\ Distinct(rest) /\ Len(rest) = Len(q) - n
               /\ Front(q, n) \cup Elements(rest) = Elements(q)
               /\ Front(q, n) \cap Elements(rest) = {}
               /\ IsFiniteSet(Front(q, n)) /\ Cardinality(Front(q, n)) = n
<1> DEFINE L == Len(q)
           rest == SubSeq(q, n + 1, L)
<1>1. L \in Nat /\ DOMAIN q = 1..L /\ \A k \in 1..L : q[k] \in Nat
  BY LenProperties, ElementOfSeq
<1>2. n \in 0..L
  OBVIOUS
<1> HIDE DEF L
<1>3. /\ rest \in Seq(Nat)
      /\ Len(rest) = IF n + 1 <= L THEN L - (n + 1) + 1 ELSE 0
      /\ \A i \in 1..L - (n + 1) + 1 : rest[i] = q[(n + 1) + i - 1]
  <2>1. \A i \in n + 1..L : q[i] \in Nat
    BY <1>1, <1>2
  <2> QED  BY <1>1, <1>2, <2>1, SubSeqProperties
<1> HIDE DEF rest
<1>4. Len(rest) = L - n /\ L - (n + 1) + 1 = L - n
  BY <1>1, <1>2, <1>3
<1>5. \A k \in 1..L - n : rest[k] = q[k + n]
  <2>1. \A k \in 1..L - n : (n + 1) + k - 1 = k + n
    BY <1>1, <1>2
  <2> QED  BY <1>3, <1>4, <2>1
<1>6. DOMAIN rest = 1..L - n
  BY <1>3, <1>4, LenProperties
<1>7. /\ Distinct(rest)
      /\ Front(q, n) \cup Elements(rest) = Elements(q)
      /\ Front(q, n) \cap Elements(rest) = {}
      /\ IsFiniteSet(Front(q, n)) /\ Cardinality(Front(q, n)) = n
  <2>1. RestOf(rest, q, n, L)
    BY <1>1, <1>5, <1>6 DEF RestOf
  <2> QED  BY <1>1, <1>2, <2>1, SplitAt
<1> QED  BY <1>3, <1>4, <1>7 DEF rest, L

\* A numbering that goes on with new tokens.
LEMMA GoesOn ==
    ASSUME NEW L \in Nat, NEW n \in Nat, NEW m \in Nat, NEW q, NEW all,
           Distinct(q), GrownBy(all, q, m, n, L)
    PROVE  Distinct(all) /\ Elements(all) = Elements(q) \cup (m + 1..m + n)
<1> USE DEF GrownBy
<1>1. /\ \A k \in 1..L : k \in 1..L + n
      /\ \A k \in 1..n : L + k \in 1..L + n /\ m + k \in m + 1..m + n
      /\ \A i \in 1..L + n : i \in 1..L \/ (i - L \in 1..n /\ L + (i - L) = i)
      /\ \A x \in m + 1..m + n : x - m \in 1..n /\ m + (x - m) = x
  OBVIOUS
<1>2. /\ \A i \in 1..L : all[i] = q[i] /\ all[i] \in 1..m
      /\ \A i \in 1..L + n : i - L \in 1..n => all[i] = m + (i - L)
  <2>1. \A i \in 1..L + n : i - L \in 1..n => L + (i - L) = i
    OBVIOUS
  <2>2. ASSUME NEW i \in 1..L + n, i - L \in 1..n PROVE all[i] = m + (i - L)
    <3>1. all[L + (i - L)] = m + (i - L)
      BY <2>2
    <3> QED  BY <2>1, <2>2, <3>1
  <2> QED  BY <2>2
<1>3. Distinct(all)
  <2> SUFFICES ASSUME NEW i \in 1..L + n, NEW j \in 1..L + n, all[i] = all[j]
      PROVE i = j
    BY DEF Distinct
  <2>1. CASE i \in 1..L /\ j \in 1..L
    BY <2>1 DEF Distinct
  <2>2. CASE i - L \in 1..n /\ j - L \in 1..n
    <3>1. m + (i - L) = m + (j - L)
      BY <1>2, <2>2
    <3> QED  BY <3>1
  <2>3. CASE i \in 1..L /\ j - L \in 1..n
    <3>1. all[i] \in 1..m /\ all[j] = m + (j - L)
      BY <1>2, <2>3
    <3> QED  BY <2>3, <3>1
  <2>4. CASE i - L \in 1..n /\ j \in 1..L
    <3>1. all[j] \in 1..m /\ all[i] = m + (i - L)
      BY <1>2, <2>4
    <3> QED  BY <2>4, <3>1
  <2> QED  BY <1>1, <2>1, <2>2, <2>3, <2>4
<1>4. Elements(q) \subseteq Elements(all)
  BY <1>1 DEF Elements
<1>5. m + 1..m + n \subseteq Elements(all)
  <2> SUFFICES ASSUME NEW x \in m + 1..m + n PROVE x \in Elements(all)
    OBVIOUS
  <2>1. x - m \in 1..n /\ m + (x - m) = x /\ L + (x - m) \in 1..L + n
    BY <1>1
  <2>2. all[L + (x - m)] = x
    BY <2>1
  <2> QED  BY <2>1, <2>2 DEF Elements
<1>6. Elements(all) \subseteq Elements(q) \cup (m + 1..m + n)
  <2> SUFFICES ASSUME NEW i \in 1..L + n PROVE all[i] \in Elements(q) \cup (m + 1..m + n)
    BY DEF Elements
  <2>1. CASE i \in 1..L
    BY <2>1 DEF Elements
  <2>2. CASE i - L \in 1..n
    <3>1. all[i] = m + (i - L) /\ i - L \in 1..n
      BY <1>2, <2>2
    <3> QED  BY <3>1
  <2> QED  BY <1>1, <2>1, <2>2
<1> QED  BY <1>3, <1>4, <1>5, <1>6

\* Tokens that fall due go to the end of the queue.
LEMMA QueueGrows ==
    ASSUME NEW q \in Seq(Nat), Distinct(q), NEW m \in Nat, Elements(q) \subseteq 1..m,
           NEW n \in Nat
    PROVE  LET all == q \o [k \in 1..n |-> m + k]
           IN  /\ all \in Seq(Nat) /\ Distinct(all)
               /\ Elements(all) = Elements(q) \cup (m + 1..m + n)
<1> DEFINE L == Len(q)
           more == [k \in 1..n |-> m + k]
           all == q \o more
<1>1. L \in Nat /\ DOMAIN q = 1..L /\ \A k \in 1..L : q[k] \in 1..m
  BY LenProperties DEF Elements
<1>2. more \in Seq(Nat) /\ Len(more) = n /\ \A k \in 1..n : more[k] = m + k
  OBVIOUS
<1> HIDE DEF more
<1>3. /\ all \in Seq(Nat) /\ Len(all) = L + n
      /\ \A i \in 1..L + n : all[i] = IF i <= L THEN q[i] ELSE more[i - L]
  BY <1>2, ConcatProperties
<1>4. DOMAIN all = 1..L + n
  BY <1>3, LenProperties
<1> HIDE DEF all, L
<1>5. \A k \in 1..L : all[k] = q[k]
  <2>1. \A k \in 1..L : k \in 1..L + n /\ k <= L
    BY <1>1
  <2> QED  BY <1>3, <2>1
<1>6. \A k \in 1..n : all[L + k] = m + k
  <2>1. \A k \in 1..n : L + k \in 1..L + n /\ ~(L + k <= L) /\ (L + k) - L = k
    BY <1>1
  <2> QED  BY <1>2, <1>3, <2>1
<1>7. Distinct(all) /\ Elements(all) = Elements(q) \cup (m + 1..m + n)
  <2>1. GrownBy(all, q, m, n, L)
    BY <1>1, <1>4, <1>5, <1>6 DEF GrownBy
  <2> QED  BY <1>1, <2>1, GoesOn
<1> QED  BY <1>3, <1>7 DEF all, more

\* What the HTTP/2 module means by these names.
LEMMA H2Cardinality == ASSUME NEW S PROVE H2!Cardinality(S) = Cardinality(S)
  BY DEF H2!Cardinality, Cardinality

\* The least of three numbers, if it is positive.
LEMMA RoomFor ==
    ASSUME NEW a \in Int, NEW b \in Int, NEW c \in Int
    PROVE  LET n == H2!Max({0, H2!Min({a, b, c})})
           IN  /\ n \in Nat /\ (n = 0 \/ (n <= a /\ n <= b /\ n <= c))
               /\ n >= a \/ n >= b \/ n >= c
<1> DEFINE low == H2!Min({a, b, c})
<1>1. \E x \in {a, b, c} : \A y \in {a, b, c} : x <= y
  <2>1. CASE a <= b /\ a <= c
    BY <2>1
  <2>2. CASE b <= a /\ b <= c
    BY <2>2
  <2>3. CASE c <= a /\ c <= b
    BY <2>3
  <2> QED  BY <2>1, <2>2, <2>3
<1>2. low \in {a, b, c} /\ \A y \in {a, b, c} : low <= y
  BY <1>1 DEF H2!Min
<1> HIDE DEF low
<1>3. low \in Int /\ low <= a /\ low <= b /\ low <= c
  BY <1>2
<1>4. \E x \in {0, low} : \A y \in {0, low} : x >= y
  <2>1. CASE low <= 0
    BY <1>3, <2>1
  <2>2. CASE low >= 0
    BY <1>3, <2>2
  <2> QED  BY <1>3, <2>1, <2>2
<1>5. /\ H2!Max({0, low}) \in {0, low}
      /\ \A y \in {0, low} : H2!Max({0, low}) >= y
  BY <1>4 DEF H2!Max
<1> DEFINE n == H2!Max({0, low})
<1> HIDE DEF n
<1>6. n \in {0, low} /\ n >= 0 /\ n >= low
  BY <1>5 DEF n
<1>7. n \in Nat /\ (n = 0 \/ (n <= a /\ n <= b /\ n <= c))
  <2>1. CASE n = 0
    BY <2>1
  <2>2. CASE n = low
    BY <1>3, <1>6, <2>2
  <2> QED  BY <1>6, <2>1, <2>2
<1>8. n >= a \/ n >= b \/ n >= c
  BY <1>2, <1>6
<1> QED  BY <1>7, <1>8 DEF n, low

\* What is cut off a queue that has grown too long.
LEMMA Excess ==
    ASSUME NEW x \in Int
    PROVE  LET n == H2!Max({0, x}) IN n \in Nat /\ n >= x /\ (n = 0 \/ n = x)
<1>1. \E y \in {0, x} : \A z \in {0, x} : y >= z
  <2>1. CASE x <= 0
    BY <2>1
  <2>2. CASE x >= 0
    BY <2>2
  <2> QED  BY <2>1, <2>2
<1>2. H2!Max({0, x}) \in {0, x} /\ \A z \in {0, x} : H2!Max({0, x}) >= z
  BY <1>1 DEF H2!Max
<1> DEFINE n == H2!Max({0, x})
<1> HIDE DEF n
<1>3. n \in {0, x} /\ n >= 0 /\ n >= x
  BY <1>2 DEF n
<1>4. n \in Nat
  BY <1>3
<1> QED  BY <1>3, <1>4 DEF n

-----------------------------------------------------------------------------
(* The streams of the HTTP/2 connection (MioH2). *)

Flying(S) == {s.id : s \in S}
OneEach(S) == \A s, r \in S : s.id = r.id => s = r

\* One to one, as many.
LEMMA ImageCounts ==
    ASSUME NEW S, IsFiniteSet(S), NEW T, NEW f, f \in [S -> T],
           \A x, y \in S : f[x] = f[y] => x = y, \A z \in T : \E x \in S : f[x] = z
    PROVE  IsFiniteSet(T) /\ Cardinality(T) = Cardinality(S)
<1>1. ExistsBijection(S, T)
  BY DEF ExistsBijection, Bijection, Injection, Surjection, IsInjective
<1> QED  BY <1>1, FS_Bijection

\* As many requests as streams.
LEMMA FlyingCounts ==
    ASSUME NEW S, IsFiniteSet(S), OneEach(S)
    PROVE  IsFiniteSet(Flying(S)) /\ Cardinality(Flying(S)) = Cardinality(S)
<1> DEFINE f == [s \in S |-> s.id]
<1>1. /\ f \in [S -> Flying(S)] /\ \A z \in Flying(S) : \E x \in S : f[x] = z
      /\ \A x, y \in S : f[x] = f[y] => x = y
  BY DEF Flying, OneEach
<1> HIDE DEF f
<1> QED  BY <1>1, ImageCounts

\* Streams of different requests.
LEMMA StreamsJoin ==
    ASSUME NEW S, IsFiniteSet(S), OneEach(S), NEW T, IsFiniteSet(T), OneEach(T),
           Flying(S) \cap Flying(T) = {}
    PROVE  /\ IsFiniteSet(S \cup T) /\ OneEach(S \cup T)
           /\ Cardinality(S \cup T) = Cardinality(S) + Cardinality(T)
           /\ Flying(S \cup T) = Flying(S) \cup Flying(T)
<1>1. S \cap T = {}
  BY DEF Flying
<1>2. /\ IsFiniteSet(S \cup T)
      /\ Cardinality(S \cup T) = Cardinality(S) + Cardinality(T)
  <2>1. /\ IsFiniteSet(S \cup T)
        /\ Cardinality(S \cup T) = Cardinality(S) + Cardinality(T) - Cardinality(S \cap T)
    BY FS_Union
  <2>2. Cardinality(S \cap T) = 0 /\ Cardinality(S) \in Nat /\ Cardinality(T) \in Nat
    BY <1>1, FS_EmptySet, FS_CardinalityType
  <2> QED  BY <2>1, <2>2
<1>3. OneEach(S \cup T) /\ Flying(S \cup T) = Flying(S) \cup Flying(T)
  BY DEF OneEach, Flying
<1> QED  BY <1>2, <1>3

\* New streams, one for each of some tokens.
LEMMA StreamsFor ==
    ASSUME NEW N, IsFiniteSet(N), NEW S, S = {[id |-> x, stage |-> "headers"] : x \in N}
    PROVE  /\ IsFiniteSet(S) /\ OneEach(S) /\ Flying(S) = N
           /\ Cardinality(S) = Cardinality(N)
<1> DEFINE f == [x \in N |-> [id |-> x, stage |-> "headers"]]
<1>1. f \in [N -> S] /\ \A z \in S : \E x \in N : f[x] = z
  OBVIOUS
<1>2. \A x, y \in N : f[x] = f[y] => x = y
  <2> SUFFICES ASSUME NEW x \in N, NEW y \in N, f[x] = f[y] PROVE x = y
    OBVIOUS
  <2>1. f[x].id = x /\ f[y].id = y
    OBVIOUS
  <2> QED  BY <2>1
<1>3. OneEach(S) /\ Flying(S) = N
  <2>1. /\ \A x \in N : f[x] \in S /\ f[x].id = x
        /\ \A s \in S : s.id \in N /\ s = f[s.id]
    OBVIOUS
  <2> HIDE DEF f
  <2>2. OneEach(S)
    BY <2>1 DEF OneEach
  <2>3. Flying(S) \subseteq N
    BY <2>1 DEF Flying
  <2>4. N \subseteq Flying(S)
    BY <2>1 DEF Flying
  <2> QED  BY <2>2, <2>3, <2>4
<1> HIDE DEF f
<1> QED  BY <1>1, <1>2, <1>3, ImageCounts

\* h2_assign_tokens: every token of the queue is begun, declined or still there.
LEMMA AssignSplits ==
    ASSUME NEW q \in Seq(Nat), Distinct(q), NEW free \in Nat, NEW open, IsFiniteSet(open),
           limit \in Nat
    PROVE  LET a == H2!Assign(q, free, open)
           IN  /\ a.n \in Nat /\ a.n <= free
               /\ IsFiniteSet(a.begun) /\ Cardinality(a.begun) = a.n /\ OneEach(a.begun)
               /\ a.queue \in Seq(Nat) /\ Distinct(a.queue) /\ Len(a.queue) <= Len(q)
               /\ Elements(q) = Flying(a.begun) \cup a.declined \cup Elements(a.queue)
               /\ Flying(a.begun) \cap a.declined = {}
               /\ Flying(a.begun) \cap Elements(a.queue) = {}
               /\ a.declined \cap Elements(a.queue) = {}
               /\ a.declined # {} => limit + 1 < free + Cardinality(open)
<1> DEFINE L == Len(q)
           n == H2!Max({0, H2!Min({L, free, limit + 1 - H2!Cardinality(open)})})
           rest == SubSeq(q, n + 1, L)
           begun == {[id |-> q[k], stage |-> "headers"] : k \in 1..n}
           declined1 == IF n < free THEN {rest[k] : k \in DOMAIN rest} ELSE {}
           queue1 == IF n < free THEN <<>> ELSE rest
           a == H2!Assign(q, free, open)
<1>1. L \in Nat /\ Cardinality(open) \in Nat
  BY LenProperties, FS_CardinalityType
<1>2. /\ n \in Nat /\ n <= L /\ n <= free
      /\ (n >= L \/ n >= free \/ n >= limit + 1 - Cardinality(open))
  <2> HIDE DEF L
  <2>1. limit + 1 - H2!Cardinality(open) = limit + 1 - Cardinality(open)
    BY H2Cardinality
  <2>2. L \in Int /\ free \in Int /\ limit + 1 - Cardinality(open) \in Int
    BY <1>1
  <2> DEFINE room == limit + 1 - Cardinality(open)
  <2>3. n = H2!Max({0, H2!Min({L, free, room})})
    BY <2>1
  <2>4. room \in Int
    BY <2>2
  <2> HIDE DEF n, room
  <2>5. /\ n \in Nat /\ (n = 0 \/ (n <= L /\ n <= free /\ n <= room))
        /\ n >= L \/ n >= free \/ n >= room
    BY <2>2, <2>3, <2>4, RoomFor
  <2>6. n <= L /\ n <= free
    BY <1>1, <2>5
  <2> QED  BY <2>5, <2>6 DEF room
<1>3. /\ a.n = n /\ a.begun = begun /\ a.declined = declined1 /\ a.queue = queue1
  BY DEF H2!Assign
<1> HIDE DEF a, n
<1>4. n \in 0..Len(q)
  BY <1>1, <1>2
<1>5. /\ rest \in Seq(Nat) /\ Distinct(rest) /\ Len(rest) = L - n
      /\ Front(q, n) \cup Elements(rest) = Elements(q)
      /\ Front(q, n) \cap Elements(rest) = {}
      /\ IsFiniteSet(Front(q, n)) /\ Cardinality(Front(q, n)) = n
  BY <1>4, CutInTwo
<1>6. /\ IsFiniteSet(begun) /\ OneEach(begun) /\ Flying(begun) = Front(q, n)
      /\ Cardinality(begun) = n
  <2>1. begun = {[id |-> x, stage |-> "headers"] : x \in Front(q, n)}
    BY DEF Front
  <2> HIDE DEF begun
  <2> QED  BY <1>5, <2>1, StreamsFor
<1> HIDE DEF L, rest, begun
<1>7. {rest[k] : k \in DOMAIN rest} = Elements(rest)
  BY DEF Elements
<1>8. /\ queue1 \in Seq(Nat) /\ Distinct(queue1) /\ Len(queue1) <= L
      /\ n < free => Elements(queue1) = {} /\ declined1 = Elements(rest)
      /\ ~(n < free) => queue1 = rest /\ declined1 = {}
  <2>1. CASE n < free
    <3>1. queue1 = <<>> /\ declined1 = Elements(rest)
      BY <1>7, <2>1
    <3> HIDE DEF queue1, declined1
    <3>2. queue1 \in Seq(Nat) /\ Len(queue1) = 0 /\ DOMAIN queue1 = {}
      BY <3>1
    <3> QED  BY <1>1, <2>1, <3>1, <3>2 DEF Distinct, Elements
  <2>2. CASE ~(n < free)
    <3>1. queue1 = rest /\ declined1 = {}
      BY <2>2
    <3>2. Len(rest) <= L
      BY <1>1, <1>2, <1>5
    <3> HIDE DEF queue1, declined1
    <3> QED  BY <1>5, <2>2, <3>1, <3>2
  <2> QED  BY <2>1, <2>2
<1> HIDE DEF queue1, declined1
<1>9. declined1 # {} => limit + 1 < free + Cardinality(open)
  <2> SUFFICES ASSUME declined1 # {} PROVE limit + 1 < free + Cardinality(open)
    OBVIOUS
  <2>1. n < free /\ Elements(rest) # {}
    BY <1>8
  <2>2. n < L
    <3>1. DOMAIN rest = 1..L - n
      BY <1>5, LenProperties
    <3>2. 1..L - n # {}
      BY <2>1, <3>1 DEF Elements
    <3> QED  BY <1>1, <1>2, <3>2
  <2> QED  BY <1>1, <1>2, <2>1, <2>2
<1>10. /\ Elements(q) = Flying(begun) \cup declined1 \cup Elements(queue1)
       /\ Flying(begun) \cap declined1 = {}
       /\ Flying(begun) \cap Elements(queue1) = {}
       /\ declined1 \cap Elements(queue1) = {}
  BY <1>5, <1>6, <1>8
<1>11. Len(queue1) <= Len(q)
  BY <1>8 DEF L
<1> QED  BY <1>2, <1>3, <1>6, <1>8, <1>9, <1>10, <1>11 DEF a

\* h2_refill: the requests begun are new, and fit the slots.
LEMMA RefillBegins ==
    ASSUME NEW free \in Nat, NEW open, IsFiniteSet(open), limit \in Nat, made \in Nat
    PROVE  LET r == H2!Refill(free, open)
           IN  /\ r.n \in Nat /\ r.n <= free
               /\ IsFiniteSet(r.begun) /\ Cardinality(r.begun) = r.n /\ OneEach(r.begun)
               /\ Flying(r.begun) = made + 1..made + r.n
<1> DEFINE n == H2!Max({0, H2!Min({free, limit + 1 - H2!Cardinality(open),
                                   MaxRequests - made})})
           begun == {[id |-> k, stage |-> "headers"] : k \in made + 1..made + n}
           r == H2!Refill(free, open)
<1>1. r.n = n /\ r.begun = begun
  BY DEF H2!Refill
<1>2. n \in Nat /\ n <= free
  <2> DEFINE room == limit + 1 - H2!Cardinality(open)
             left == MaxRequests - made
  <2>1. Cardinality(open) \in Nat /\ MaxRequests \in Nat
    BY FS_CardinalityType, BackendsAssumption
  <2>2. room \in Int /\ left \in Int /\ free \in Int
    BY <2>1, H2Cardinality
  <2>3. n = H2!Max({0, H2!Min({free, room, left})})
    OBVIOUS
  <2> HIDE DEF room, left, n
  <2>4. n \in Nat /\ (n = 0 \/ (n <= free /\ n <= room /\ n <= left))
    BY <2>2, <2>3, RoomFor
  <2> QED  BY <2>4
<1> HIDE DEF n, r
<1>3. IsFiniteSet(made + 1..made + n) /\ Cardinality(made + 1..made + n) = n
  <2>1. made + 1 \in Int /\ made + n \in Int
    BY <1>2
  <2>2. Cardinality(made + 1..made + n)
          = IF made + 1 > made + n THEN 0 ELSE (made + n) - (made + 1) + 1
    BY <2>1, FS_Interval
  <2>3. IsFiniteSet(made + 1..made + n)
    BY <2>1, FS_Interval
  <2> QED  BY <1>2, <2>2, <2>3
<1>4. /\ IsFiniteSet(begun) /\ OneEach(begun) /\ Flying(begun) = made + 1..made + n
      /\ Cardinality(begun) = n
  <2>1. begun = {[id |-> x, stage |-> "headers"] : x \in made + 1..made + n}
    OBVIOUS
  <2> HIDE DEF begun
  <2> QED  BY <1>3, <2>1, StreamsFor
<1> HIDE DEF begun
<1> QED  BY <1>1, <1>2, <1>4 DEF r

\* The requests that are neither waiting, nor dropped, nor in flight, nor recorded.
PlacedIn(U, W, K, D, F, X) ==
    /\ \A P \in {W, K, D, F, X} : P \subseteq U
    /\ W \cap K = {} /\ W \cap D = {} /\ W \cap F = {} /\ W \cap X = {}
    /\ K \cap D = {} /\ K \cap F = {} /\ K \cap X = {}
    /\ D \cap F = {} /\ D \cap X = {} /\ F \cap X = {}
LostOf(U, W, K, D, F, X) == U \ (W \cup K \cup D \cup F \cup X)

\* V is U with others, a set in three parts, and two sets in four.
OtherThan(V, U, N) == V = U \cup N /\ U \cap N = {}
InThree(S, A, B, C) == /\ S = A \cup B \cup C
                       /\ A \cap B = {} /\ A \cap C = {} /\ B \cap C = {}
InFour(S, T, A, B, C, D) ==
    /\ S \cup T = A \cup B \cup C \cup D
    /\ A \cap B = {} /\ A \cap C = {} /\ A \cap D = {}
    /\ B \cap C = {} /\ B \cap D = {} /\ C \cap D = {}

Lost == LostOf(1..made, Elements(pending), keepup, declined, Flying(streams), done)

H2Types ==
    /\ made \in Nat /\ idle \in Nat /\ limit \in Nat
    /\ errors \in [connect : Nat, read : Nat]
    /\ pending \in Seq(Nat) /\ Distinct(pending) /\ Len(pending) <= H2!MaxPending
    /\ IsFiniteSet(streams) /\ OneEach(streams)
    /\ at \in {"tcp", "handshake"} => streams = {}
SlotsOfStreams == idle + Cardinality(streams) = H2!MaxStreams
DeclinedWhenShort == declined # {} => limit + 1 < H2!MaxStreams
TokensApart ==
    PlacedIn(1..made, Elements(pending), keepup, declined, Flying(streams), done)

\* Besides the failed requests, only the end of the connection is a read error,
\* and it is the last thing that happens.
LossesAreErrors ==
    \/ errors.read = Cardinality(Lost)
    \/ at = "left" /\ errors.read = Cardinality(Lost) + 1

\* The inductive invariant of the HTTP/2 worker.
H2Inv == /\ H2Types /\ SlotsOfStreams /\ DeclinedWhenShort /\ TokensApart
         /\ LossesAreErrors

\* A worker has a number of streams, zero if there are more threads than streams.
LEMMA SlotsType == H2!MaxStreams \in Nat
<1> DEFINE n == H2!Min({Threads, TotalStreams})
<1>1. TotalStreams \in Nat \ {0} /\ Threads \in Nat \ {0}
  BY BackendsAssumption
<1>2. \E x \in {Threads, TotalStreams} : \A y \in {Threads, TotalStreams} : x <= y
  <2>1. CASE Threads <= TotalStreams
    BY <1>1, <2>1
  <2>2. CASE TotalStreams <= Threads
    BY <1>1, <2>2
  <2> QED  BY <1>1, <2>1, <2>2
<1>3. n \in {Threads, TotalStreams}
  BY <1>2 DEF H2!Min
<1> HIDE DEF n
<1>4. n \in Nat /\ 1 \in 1..n
  BY <1>1, <1>3
<1>5. H2!MaxStreams = TotalStreams \div n + (IF 1 <= TotalStreams % n THEN 1 ELSE 0)
  BY <1>4 DEF H2!MaxStreams, H2!DistributeStreams, n
<1>6. TotalStreams \div n \in Nat
  BY <1>1, <1>4
<1> QED  BY <1>5, <1>6

RoundOf(V, U, N, W, K, D, F, X, K1, B, D1, Q, G, X1, E) ==
    /\ OtherThan(V, U, N) /\ PlacedIn(U, W, K, D, F, X)
    /\ InFour(W, N, K1, B, D1, Q) /\ InThree(F, G, X1, E)
RoundEnds(V, U, N, W, K, D, F, X, K1, B, D1, Q, G, X1, E) ==
    /\ PlacedIn(V, Q, K \cup K1, D \cup D1, G \cup B, X \cup X1)
    /\ LostOf(V, Q, K \cup K1, D \cup D1, G \cup B, X \cup X1)
         = LostOf(U, W, K, D, F, X) \cup E
    /\ LostOf(U, W, K, D, F, X) \cap E = {}

\* One round of the loop: tokens come, some of those that wait go in flight,
\* some of those in flight come to an end, and only the failed ones are lost.
LEMMA TokensMove ==
    ASSUME NEW V, NEW U, NEW N, NEW W, NEW K, NEW D, NEW F, NEW X,
           NEW K1, NEW B, NEW D1, NEW Q, NEW G, NEW X1, NEW E,
           RoundOf(V, U, N, W, K, D, F, X, K1, B, D1, Q, G, X1, E)
    PROVE  RoundEnds(V, U, N, W, K, D, F, X, K1, B, D1, Q, G, X1, E)
<1> USE DEF RoundOf, InThree, InFour, OtherThan
<1>1. V = U \cup N /\ U \cap N = {}
  OBVIOUS
<1>2. PlacedIn(U, W, K, D, F, X) /\ W \cup N = K1 \cup B \cup D1 \cup Q
  OBVIOUS
<1>3. /\ W \subseteq U /\ K \subseteq U /\ D \subseteq U /\ F \subseteq U /\ X \subseteq U
      /\ W \cap K = {} /\ W \cap D = {} /\ W \cap F = {} /\ W \cap X = {}
      /\ K \cap D = {} /\ K \cap F = {} /\ K \cap X = {}
      /\ D \cap F = {} /\ D \cap X = {} /\ F \cap X = {}
  BY <1>2 DEF PlacedIn
<1>4. PlacedIn(V, Q, K \cup K1, D \cup D1, G \cup B, X \cup X1)
  <2>1. Q \subseteq V /\ K \cup K1 \subseteq V /\ D \cup D1 \subseteq V
    BY <1>1, <1>2, <1>3
  <2>2. G \cup B \subseteq V /\ X \cup X1 \subseteq V
    BY <1>1, <1>2, <1>3
  <2>3. Q \cap (K \cup K1) = {} /\ Q \cap (D \cup D1) = {} /\ Q \cap (G \cup B) = {}
    BY <1>1, <1>2, <1>3
  <2>4. Q \cap (X \cup X1) = {} /\ (K \cup K1) \cap (D \cup D1) = {}
    BY <1>1, <1>2, <1>3
  <2>5. (K \cup K1) \cap (G \cup B) = {} /\ (K \cup K1) \cap (X \cup X1) = {}
    BY <1>1, <1>2, <1>3
  <2>6. (D \cup D1) \cap (G \cup B) = {} /\ (D \cup D1) \cap (X \cup X1) = {}
    BY <1>1, <1>2, <1>3
  <2>7. (G \cup B) \cap (X \cup X1) = {}
    BY <1>1, <1>2, <1>3
  <2> QED  BY <2>1, <2>2, <2>3, <2>4, <2>5, <2>6, <2>7 DEF PlacedIn
<1>5. LostOf(V, Q, K \cup K1, D \cup D1, G \cup B, X \cup X1)
        = LostOf(U, W, K, D, F, X) \cup E
  <2>1. LostOf(V, Q, K \cup K1, D \cup D1, G \cup B, X \cup X1)
          = V \ ((U \cap (K \cup D \cup G \cup X \cup X1)) \cup (W \cup N))
    BY <1>1, <1>2, <1>3 DEF LostOf
  <2>2. V \ ((U \cap (K \cup D \cup G \cup X \cup X1)) \cup (W \cup N))
          = U \ (W \cup K \cup D \cup G \cup X \cup X1)
    BY <1>1, <1>3
  <2>3. U \ (W \cup K \cup D \cup G \cup X \cup X1) = (U \ (W \cup K \cup D \cup F \cup X)) \cup E
    BY <1>3
  <2> QED  BY <2>1, <2>2, <2>3 DEF LostOf
<1>6. LostOf(U, W, K, D, F, X) \cap E = {}
  BY DEF LostOf
<1> QED  BY <1>4, <1>5, <1>6 DEF RoundEnds

\* What is lost is finite.
LEMMA LostIsFinite ==
    ASSUME NEW m \in Nat, NEW W, NEW K, NEW D, NEW F, NEW X
    PROVE  /\ IsFiniteSet(LostOf(1..m, W, K, D, F, X))
           /\ Cardinality(LostOf(1..m, W, K, D, F, X)) \in Nat
<1>1. IsFiniteSet(1..m)
  BY FS_Interval
<1>2. LostOf(1..m, W, K, D, F, X) \subseteq 1..m
  BY DEF LostOf
<1> QED  BY <1>1, <1>2, FS_Subset, FS_CardinalityType

\* The losses of a round add to the earlier ones.
LEMMA LossesAdd ==
    ASSUME NEW A, IsFiniteSet(A), NEW B, IsFiniteSet(B), A \cap B = {}
    PROVE  Cardinality(A \cup B) = Cardinality(A) + Cardinality(B)
<1>1. Cardinality(A \cup B) = Cardinality(A) + Cardinality(B) - Cardinality(A \cap B)
  BY FS_Union
<1>2. Cardinality(A \cap B) = 0 /\ Cardinality(A) \in Nat /\ Cardinality(B) \in Nat
  BY FS_EmptySet, FS_CardinalityType
<1> QED  BY <1>1, <1>2

\* The same of a step of the worker: what falls due, is dropped, begun, declined and
\* stays in the queue; what stays in flight, is recorded and fails.
Round(n, K1, B, D1, Q, G, X1, E) ==
    /\ at # "left" /\ n \in Nat /\ made' = made + n /\ Q = Elements(pending')
    /\ InFour(Elements(pending), made + 1..made + n, K1, B, D1, Q)
    /\ keepup' = keepup \cup K1 /\ declined' = declined \cup D1
    /\ InThree(Flying(streams), G, X1, E)
    /\ Flying(streams') = G \cup B /\ done' = done \cup X1
    /\ IsFiniteSet(E) /\ errors'.read = errors.read + Cardinality(E)

LEMMA RoundKeepsTokens ==
    ASSUME H2Inv, NEW n, NEW K1, NEW B, NEW D1, NEW Q, NEW G, NEW X1, NEW E,
           Round(n, K1, B, D1, Q, G, X1, E)
    PROVE  TokensApart' /\ LossesAreErrors'
<1> DEFINE was == 1..made
           due == made + 1..made + n
           now == 1..made + n
           waiting == Elements(pending)
           flying == Flying(streams)
           K2 == keepup \cup K1
           D2 == declined \cup D1
           F2 == G \cup B
           X2 == done \cup X1
           old == LostOf(was, waiting, keepup, declined, flying, done)
           new == LostOf(now, Q, K2, D2, F2, X2)
<1>1. made \in Nat /\ n \in Nat /\ PlacedIn(was, waiting, keepup, declined, flying, done)
  BY DEF H2Inv, H2Types, TokensApart, Round
<1>2. errors.read = Cardinality(old)
  BY DEF H2Inv, LossesAreErrors, Lost, Round
<1>3. InFour(waiting, due, K1, B, D1, Q) /\ InThree(flying, G, X1, E)
  BY DEF Round
<1>4. OtherThan(now, was, due)
  BY <1>1 DEF OtherThan
<1>5. made' = made + n /\ Flying(streams)' = F2 /\ Elements(pending)' = Q
  BY DEF Flying, Elements, Round
<1>6. keepup' = K2 /\ declined' = D2 /\ done' = X2
  BY DEF Round
<1>7. IsFiniteSet(old) /\ IsFiniteSet(E)
  BY <1>1, LostIsFinite DEF Round
<1>8. errors'.read = errors.read + Cardinality(E)
  BY DEF Round
<1>9. TokensApart' <=> PlacedIn(now, Q, K2, D2, F2, X2)
  BY <1>5, <1>6 DEF TokensApart
<1>10. Lost' = new
  BY <1>5, <1>6 DEF Lost
<1> HIDE DEF was, due, now, waiting, flying
<1>11. RoundOf(now, was, due, waiting, keepup, declined, flying, done, K1, B, D1, Q, G, X1, E)
  BY <1>1, <1>3, <1>4 DEF RoundOf
<1>12. RoundEnds(now, was, due, waiting, keepup, declined, flying, done,
                 K1, B, D1, Q, G, X1, E)
  BY <1>11, TokensMove
<1>13. PlacedIn(now, Q, K2, D2, F2, X2) /\ new = old \cup E /\ old \cap E = {}
  BY <1>12 DEF RoundEnds
<1> HIDE DEF old, new
<1>14. Cardinality(new) = Cardinality(old) + Cardinality(E)
  BY <1>7, <1>13, LossesAdd
<1> QED  BY <1>2, <1>8, <1>9, <1>10, <1>13, <1>14 DEF LossesAreErrors

\* The streams left in flight, and what the library can take, after a poll.
LEMMA OpenFits ==
    ASSUME NEW S, IsFiniteSet(S)
    PROVE  /\ IsFiniteSet(H2!Open(S)) /\ Cardinality(H2!Open(S)) \in Nat
           /\ Cardinality(H2!Open(S)) <= Cardinality(S)
<1>1. H2!Open(S) \subseteq S
  BY DEF H2!Open
<1> QED  BY <1>1, FS_Subset, FS_CardinalityType

\* The first assignment of a round, with the tokens that fell due.
LEMMA AssignTokensKeepsInv == H2Inv /\ H2!AssignTokens => H2Inv'
<1> SUFFICES ASSUME H2Inv, H2!AssignTokens PROVE H2Inv'
  OBVIOUS
<1> PICK n \in 0..(MaxRequests - made) :
      LET all == pending \o [k \in 1..n |-> made + k]
          excess == H2!Max({0, Len(all) - H2!MaxPending})
          r == H2!Assign(SubSeq(all, excess + 1, Len(all)), idle, H2!Open(streams))
      IN /\ made' = made + n
         /\ keepup' = keepup \cup {all[k] : k \in 1..excess}
         /\ streams' = streams \cup r.begun /\ idle' = idle - r.n
         /\ pending' = r.queue /\ declined' = declined \cup r.declined
  BY DEF H2!AssignTokens
<1> DEFINE all == pending \o [k \in 1..n |-> made + k]
           excess == H2!Max({0, Len(all) - H2!MaxPending})
           cut == SubSeq(all, excess + 1, Len(all))
           open == H2!Open(streams)
           r == H2!Assign(cut, idle, open)
<1>1. /\ at = "assign" /\ at' = "progress" /\ done' = done /\ errors' = errors
      /\ limit' = limit
      /\ made' = made + n /\ keepup' = keepup \cup Front(all, excess)
      /\ streams' = streams \cup r.begun /\ idle' = idle - r.n
      /\ pending' = r.queue /\ declined' = declined \cup r.declined
  BY DEF H2!AssignTokens, H2!In, H2!Others, Front
<1>2. H2Types /\ SlotsOfStreams /\ DeclinedWhenShort /\ TokensApart
  BY DEF H2Inv
<1>3. made \in Nat /\ n \in Nat /\ MaxRequests \in Nat
  BY <1>2, BackendsAssumption DEF H2Types
<1>4. H2!MaxPending \in Nat
  BY SlotsType DEF H2!MaxPending
<1>5. Elements(pending) \subseteq 1..made
  BY <1>2 DEF TokensApart, PlacedIn
<1>6. /\ all \in Seq(Nat) /\ Distinct(all)
      /\ Elements(all) = Elements(pending) \cup (made + 1..made + n)
  BY <1>2, <1>3, <1>5, QueueGrows DEF H2Types
<1>7. Len(all) \in Nat
  BY <1>6, LenProperties
<1>8. /\ excess \in Nat /\ excess >= Len(all) - H2!MaxPending
      /\ excess = 0 \/ excess = Len(all) - H2!MaxPending
  <2> HIDE DEF all
  <2>1. Len(all) - H2!MaxPending \in Int
    BY <1>4, <1>7
  <2> QED  BY <2>1, Excess
<1> HIDE DEF all, excess
<1>9. excess \in 0..Len(all)
  BY <1>4, <1>7, <1>8
<1>10. /\ cut \in Seq(Nat) /\ Distinct(cut) /\ Len(cut) = Len(all) - excess
       /\ Front(all, excess) \cup Elements(cut) = Elements(all)
       /\ Front(all, excess) \cap Elements(cut) = {}
  BY <1>6, <1>9, CutInTwo
<1>11. Len(cut) <= H2!MaxPending
  BY <1>4, <1>7, <1>8, <1>10
<1>12. /\ IsFiniteSet(open) /\ Cardinality(open) \in Nat
       /\ Cardinality(open) <= Cardinality(streams)
  BY <1>2, OpenFits DEF H2Types
<1> HIDE DEF cut, open
<1>13. limit \in Nat /\ idle \in Nat
  BY <1>2 DEF H2Types
<1>14. /\ r.n \in Nat /\ r.n <= idle
       /\ IsFiniteSet(r.begun) /\ Cardinality(r.begun) = r.n /\ OneEach(r.begun)
       /\ r.queue \in Seq(Nat) /\ Distinct(r.queue) /\ Len(r.queue) <= Len(cut)
       /\ Elements(cut) = Flying(r.begun) \cup r.declined \cup Elements(r.queue)
       /\ Flying(r.begun) \cap r.declined = {}
       /\ Flying(r.begun) \cap Elements(r.queue) = {}
       /\ r.declined \cap Elements(r.queue) = {}
       /\ r.declined # {} => limit + 1 < idle + Cardinality(open)
  BY <1>10, <1>12, <1>13, AssignSplits
<1> HIDE DEF r
<1>15. Flying(streams) \cap Flying(r.begun) = {}
  <2>1. Flying(streams) \subseteq 1..made /\ Elements(pending) \cap Flying(streams) = {}
    BY <1>2 DEF TokensApart, PlacedIn
  <2>2. Flying(r.begun) \subseteq Elements(pending) \cup (made + 1..made + n)
    BY <1>6, <1>10, <1>14
  <2>3. (1..made) \cap (made + 1..made + n) = {}
    BY <1>3
  <2> QED  BY <2>1, <2>2, <2>3
<1>16. /\ IsFiniteSet(streams') /\ OneEach(streams')
       /\ Cardinality(streams') = Cardinality(streams) + r.n
       /\ Flying(streams') = Flying(streams) \cup Flying(r.begun)
  <2>1. IsFiniteSet(streams) /\ OneEach(streams)
    BY <1>2 DEF H2Types
  <2>2. /\ IsFiniteSet(streams \cup r.begun) /\ OneEach(streams \cup r.begun)
        /\ Cardinality(streams \cup r.begun) = Cardinality(streams) + Cardinality(r.begun)
        /\ Flying(streams \cup r.begun) = Flying(streams) \cup Flying(r.begun)
    BY <1>14, <1>15, <2>1, StreamsJoin
  <2> QED  BY <1>1, <1>14, <2>2
<1>17. Cardinality(streams) \in Nat
  BY <1>2, FS_CardinalityType DEF H2Types
<1>18. H2Types'
  <2>1. idle' \in Nat /\ made' \in Nat /\ limit' \in Nat
    BY <1>1, <1>3, <1>13, <1>14
  <2>2. pending' \in Seq(Nat) /\ Distinct(pending)' /\ (Len(pending) <= H2!MaxPending)'
    <3>1. Len(r.queue) \in Nat /\ Len(cut) \in Nat
      BY <1>10, <1>14, LenProperties
    <3>2. Len(r.queue) <= H2!MaxPending
      BY <1>4, <1>11, <1>14, <3>1
    <3> QED  BY <1>1, <1>14, <3>2
             DEF Distinct, H2!MaxPending, H2!MaxStreams, H2!DistributeStreams
  <2>3. IsFiniteSet(streams') /\ OneEach(streams)'
    BY <1>16 DEF OneEach
  <2> QED  BY <1>1, <1>2, <2>1, <2>2, <2>3 DEF H2Types
<1>19. SlotsOfStreams'
  <2>1. idle + Cardinality(streams) = H2!MaxStreams
    BY <1>2 DEF SlotsOfStreams
  <2>2. idle' + Cardinality(streams') = H2!MaxStreams
    BY <1>1, <1>13, <1>14, <1>16, <1>17, <2>1
  <2> QED  BY <2>2 DEF SlotsOfStreams, H2!MaxStreams, H2!DistributeStreams
<1>20. DeclinedWhenShort'
  <2>1. r.declined # {} => limit + 1 < H2!MaxStreams
    <3>1. idle + Cardinality(streams) = H2!MaxStreams
      BY <1>2 DEF SlotsOfStreams
    <3> QED  BY <1>12, <1>13, <1>14, <1>17, <3>1
  <2>2. declined' # {} => limit' + 1 < H2!MaxStreams
    BY <1>1, <1>2, <2>1 DEF DeclinedWhenShort
  <2> QED  BY <2>2 DEF DeclinedWhenShort, H2!MaxStreams, H2!DistributeStreams
<1>21. TokensApart' /\ LossesAreErrors'
  <2> DEFINE K1 == Front(all, excess)
             B == Flying(r.begun)
             D1 == r.declined
             Q == Elements(r.queue)
             G == Flying(streams)
  <2>1. InFour(Elements(pending), made + 1..made + n, K1, B, D1, Q)
    BY <1>6, <1>10, <1>14 DEF InFour
  <2>2. Q = Elements(pending')
    BY <1>1
  <2>3. /\ made' = made + n /\ keepup' = keepup \cup K1 /\ declined' = declined \cup D1
        /\ done' = done \cup {} /\ Flying(streams') = G \cup B
        /\ InThree(Flying(streams), G, {}, {})
    BY <1>1, <1>16 DEF InThree
  <2>4. errors'.read = errors.read + Cardinality({}) /\ IsFiniteSet({})
    <3>1. errors.read \in Nat
      BY <1>2 DEF H2Types
    <3> QED  BY <1>1, <3>1, FS_EmptySet
  <2>5. at # "left"
    BY <1>1
  <2> HIDE DEF K1, B, D1, Q, G
  <2>6. Round(n, K1, B, D1, Q, G, {}, {})
    BY <1>3, <2>1, <2>2, <2>3, <2>4, <2>5 DEF Round
  <2> QED  BY <2>6, RoundKeepsTokens
<1> QED  BY <1>18, <1>19, <1>20, <1>21 DEF H2Inv

\* Of the streams S all but X and Y go on, each at a stage of its own.
GoOn(kept, S, X, Y, now) ==
    /\ X \subseteq S /\ Y \subseteq S /\ X \cap Y = {}
    /\ kept = {[id |-> s.id, stage |-> now[s]] : s \in S \ (X \cup Y)}

PollEnds(kept, S, X, Y) ==
    /\ IsFiniteSet(kept) /\ OneEach(kept) /\ IsFiniteSet(X \cup Y)
    /\ Cardinality(S) = Cardinality(kept) + Cardinality(X \cup Y)
    /\ InThree(Flying(S), Flying(kept), Flying(X), Flying(Y))
    /\ IsFiniteSet(Flying(Y)) /\ Cardinality(Flying(Y)) = Cardinality(Y)

\* A poll: X of the streams are complete, Y have failed, and the others go on.
LEMMA PollSplits ==
    ASSUME NEW S, IsFiniteSet(S), OneEach(S), NEW X, NEW Y, NEW now, NEW kept,
           GoOn(kept, S, X, Y, now)
    PROVE  PollEnds(kept, S, X, Y)
<1> DEFINE R == S \ (X \cup Y)
           f == [s \in R |-> [id |-> s.id, stage |-> now[s]]]
<1>0. X \subseteq S /\ Y \subseteq S /\ X \cap Y = {}
  BY DEF GoOn
<1>1. /\ f \in [R -> kept] /\ \A z \in kept : \E s \in R : f[s] = z
      /\ \A s \in R : f[s] \in kept /\ f[s].id = s.id
  BY DEF GoOn
<1> HIDE DEF f
<1>2. \A s, r \in R : f[s] = f[r] => s = r
  BY <1>1 DEF OneEach
<1>3. IsFiniteSet(R) /\ IsFiniteSet(X \cup Y) /\ IsFiniteSet(Y)
  <2>1. R \subseteq S /\ X \cup Y \subseteq S /\ Y \subseteq S
    BY <1>0
  <2> QED  BY <2>1, FS_Subset
<1>4. IsFiniteSet(kept) /\ Cardinality(kept) = Cardinality(R)
  <2>1. f \in [R -> kept] /\ \A z \in kept : \E s \in R : f[s] = z
    BY <1>1
  <2> HIDE DEF R
  <2> QED  BY <1>2, <1>3, <2>1, ImageCounts
<1>5. Cardinality(S) = Cardinality(R) + Cardinality(X \cup Y)
  <2>1. R \cap (X \cup Y) = {} /\ R \cup (X \cup Y) = S
    BY <1>0
  <2> HIDE DEF R
  <2> QED  BY <1>3, <2>1, LossesAdd
<1>6. OneEach(kept)
  <2> SUFFICES ASSUME NEW z \in kept, NEW y \in kept, z.id = y.id PROVE z = y
    BY DEF OneEach
  <2>1. PICK s \in R : z = f[s]
    BY <1>1
  <2>2. PICK r \in R : y = f[r]
    BY <1>1
  <2>3. s.id = r.id
    BY <1>1, <2>1, <2>2
  <2> QED  BY <2>1, <2>2, <2>3 DEF OneEach
<1>7. Flying(kept) = Flying(R)
  <2>1. Flying(kept) \subseteq Flying(R)
    BY <1>1 DEF Flying
  <2>2. Flying(R) \subseteq Flying(kept)
    BY <1>1 DEF Flying
  <2> QED  BY <2>1, <2>2
<1>8. InThree(Flying(S), Flying(R), Flying(X), Flying(Y))
  <2>1. Flying(S) = Flying(R) \cup Flying(X) \cup Flying(Y)
    BY <1>0 DEF Flying
  <2>2. Flying(R) \cap Flying(X) = {} /\ Flying(R) \cap Flying(Y) = {}
    BY <1>0 DEF Flying, OneEach
  <2>3. Flying(X) \cap Flying(Y) = {}
    BY <1>0 DEF Flying, OneEach
  <2> QED  BY <2>1, <2>2, <2>3 DEF InThree
<1>9. IsFiniteSet(Flying(Y)) /\ Cardinality(Flying(Y)) = Cardinality(Y)
  <2>1. OneEach(Y)
    BY <1>0 DEF OneEach
  <2> QED  BY <1>3, <2>1, FlyingCounts
<1> QED  BY <1>3, <1>4, <1>5, <1>6, <1>7, <1>8, <1>9 DEF PollEnds

\* Free slots taken by new streams.
LEMMA SlotsTaken ==
    ASSUME NEW S, IsFiniteSet(S), OneEach(S), NEW T, IsFiniteSet(T), OneEach(T),
           Flying(S) \cap Flying(T) = {}, NEW free \in Nat, Cardinality(T) <= free,
           free + Cardinality(S) = H2!MaxStreams,
           streams' = S \cup T, idle' = free - Cardinality(T)
    PROVE  /\ idle' \in Nat /\ IsFiniteSet(streams') /\ OneEach(streams)'
           /\ SlotsOfStreams' /\ Flying(streams') = Flying(S) \cup Flying(T)
<1>1. /\ IsFiniteSet(S \cup T) /\ OneEach(S \cup T)
      /\ Cardinality(S \cup T) = Cardinality(S) + Cardinality(T)
      /\ Flying(S \cup T) = Flying(S) \cup Flying(T)
  BY StreamsJoin
<1>2. Cardinality(S) \in Nat /\ Cardinality(T) \in Nat
  BY FS_CardinalityType
<1>3. idle' \in Nat /\ idle' + Cardinality(streams') = H2!MaxStreams
  BY <1>1, <1>2
<1>4. OneEach(streams)'
  BY <1>1 DEF OneEach
<1>5. SlotsOfStreams'
  BY <1>3 DEF SlotsOfStreams, H2!MaxStreams, H2!DistributeStreams
<1> QED  BY <1>1, <1>3, <1>4, <1>5

\* A poll, and the use of the slots it has freed: tokens, or new requests.
LEMMA ProgressKeepsInv == H2Inv /\ H2!Progress => H2Inv'
<1> SUFFICES ASSUME H2Inv, H2!Progress PROVE H2Inv'
  OBVIOUS
<1>0. PICK now \in [streams -> UNION {H2!Found(s.stage) : s \in streams}] :
      LET over1 == {s \in streams : now[s] = "drained"}
          failed == {s \in streams : now[s] = "failed"}
          kept == {[id |-> s.id, stage |-> now[s]] : s \in streams \ (over1 \cup failed)}
          free == idle + H2!Cardinality(over1 \cup failed)
          a == H2!Assign(pending, free, H2!Open(kept))
          f == H2!Refill(free, H2!Open(kept))
      IN /\ done' = done \cup {s.id : s \in over1}
         /\ errors' = [errors EXCEPT !.read = @ + H2!Cardinality(failed)]
         /\ IF openLoop
            THEN /\ streams' = kept \cup a.begun /\ idle' = free - a.n
                 /\ pending' = a.queue /\ declined' = declined \cup a.declined
                 /\ UNCHANGED made
            ELSE /\ streams' = kept \cup f.begun /\ idle' = free - f.n
                 /\ made' = made + f.n
                 /\ UNCHANGED <<pending, declined>>
  BY DEF H2!Progress
<1> DEFINE over1 == {s \in streams : now[s] = "drained"}
           failed == {s \in streams : now[s] = "failed"}
           kept == {[id |-> s.id, stage |-> now[s]] : s \in streams \ (over1 \cup failed)}
           free == idle + Cardinality(over1 \cup failed)
           open == H2!Open(kept)
           a == H2!Assign(pending, free, open)
           f == H2!Refill(free, open)
<1>1. /\ at = "progress" /\ at' = "assign" /\ keepup' = keepup /\ limit' = limit
      /\ done' = done \cup Flying(over1)
      /\ errors' = [errors EXCEPT !.read = @ + Cardinality(failed)]
  BY <1>0, H2Cardinality DEF H2!Progress, H2!In, H2!Others, Flying
<1>2. H2Types /\ SlotsOfStreams /\ DeclinedWhenShort /\ TokensApart
  BY DEF H2Inv
<1>3. /\ IsFiniteSet(kept) /\ OneEach(kept) /\ IsFiniteSet(over1 \cup failed)
      /\ Cardinality(streams) = Cardinality(kept) + Cardinality(over1 \cup failed)
      /\ InThree(Flying(streams), Flying(kept), Flying(over1), Flying(failed))
      /\ IsFiniteSet(Flying(failed)) /\ Cardinality(Flying(failed)) = Cardinality(failed)
  <2>1. IsFiniteSet(streams) /\ OneEach(streams)
    BY <1>2 DEF H2Types
  <2>2. GoOn(kept, streams, over1, failed, now)
    BY DEF GoOn
  <2> HIDE DEF over1, failed, kept
  <2>3. PollEnds(kept, streams, over1, failed)
    BY <2>1, <2>2, PollSplits
  <2> QED  BY <2>3 DEF PollEnds
<1> HIDE DEF over1, failed, kept
<1>4. /\ Cardinality(kept) \in Nat /\ free \in Nat
      /\ free + Cardinality(kept) = H2!MaxStreams
  <2>1. Cardinality(kept) \in Nat /\ Cardinality(over1 \cup failed) \in Nat
    BY <1>3, FS_CardinalityType
  <2>2. idle \in Nat /\ idle + Cardinality(streams) = H2!MaxStreams
    BY <1>2 DEF H2Types, SlotsOfStreams
  <2> QED  BY <1>3, <2>1, <2>2
<1>5. /\ IsFiniteSet(open) /\ Cardinality(open) \in Nat
      /\ Cardinality(open) <= Cardinality(kept)
  BY <1>3, OpenFits
<1>6. made \in Nat /\ limit \in Nat /\ pending \in Seq(Nat) /\ Distinct(pending)
  BY <1>2 DEF H2Types
<1>7. /\ IsFiniteSet(Flying(failed))
      /\ errors'.read = errors.read + Cardinality(Flying(failed))
      /\ errors' \in [connect : Nat, read : Nat]
  <2>1. errors \in [connect : Nat, read : Nat]
    BY <1>2 DEF H2Types
  <2>2. Cardinality(failed) \in Nat
    BY <1>3, FS_CardinalityType
  <2>3. errors'.read = errors.read + Cardinality(failed) /\ errors'.connect = errors.connect
    BY <1>1, <2>1
  <2>4. errors.read \in Nat
    BY <2>1
  <2>5. errors.read + Cardinality(failed) \in Nat
    BY <2>2, <2>4
  <2>6. errors' \in [connect : Nat, read : Nat]
    BY <1>1, <2>1, <2>5
  <2> QED  BY <1>3, <2>3, <2>6
<1>8. Flying(kept) \subseteq Flying(streams) /\ Flying(streams) \subseteq 1..made
  BY <1>2, <1>3 DEF InThree, TokensApart, PlacedIn
<1>9. Elements(pending) \cap Flying(kept) = {} /\ Elements(pending) \subseteq 1..made
  BY <1>2, <1>8 DEF TokensApart, PlacedIn
<1>10. at # "left" /\ keepup' = keepup \cup {}
  BY <1>1
<1> HIDE DEF free, open
<1>11. CASE openLoop
  <2>1. /\ streams' = kept \cup a.begun /\ idle' = free - a.n
        /\ pending' = a.queue /\ declined' = declined \cup a.declined /\ made' = made
    BY <1>0, <1>11, H2Cardinality DEF free, over1, failed, kept, open
  <2>2. /\ a.n \in Nat /\ a.n <= free
        /\ IsFiniteSet(a.begun) /\ Cardinality(a.begun) = a.n /\ OneEach(a.begun)
        /\ a.queue \in Seq(Nat) /\ Distinct(a.queue) /\ Len(a.queue) <= Len(pending)
        /\ Elements(pending) = Flying(a.begun) \cup a.declined \cup Elements(a.queue)
        /\ Flying(a.begun) \cap a.declined = {}
        /\ Flying(a.begun) \cap Elements(a.queue) = {}
        /\ a.declined \cap Elements(a.queue) = {}
        /\ a.declined # {} => limit + 1 < free + Cardinality(open)
    BY <1>4, <1>5, <1>6, AssignSplits
  <2> HIDE DEF a
  <2>3. /\ idle' \in Nat /\ IsFiniteSet(streams') /\ OneEach(streams)'
        /\ SlotsOfStreams' /\ Flying(streams') = Flying(kept) \cup Flying(a.begun)
    <3>1. Flying(kept) \cap Flying(a.begun) = {}
      BY <1>9, <2>2
    <3>2. Cardinality(a.begun) <= free /\ idle' = free - Cardinality(a.begun)
      BY <2>1, <2>2
    <3> QED  BY <1>3, <1>4, <2>1, <2>2, <3>1, <3>2, SlotsTaken
  <2>4. H2Types'
    <3>1. Len(a.queue) <= H2!MaxPending
      <4>1. Len(pending) <= H2!MaxPending
        BY <1>2 DEF H2Types
      <4>2. Len(a.queue) \in Nat /\ Len(pending) \in Nat /\ H2!MaxPending \in Nat
        BY <1>6, <2>2, LenProperties, SlotsType DEF H2!MaxPending
      <4> QED  BY <2>2, <4>1, <4>2
    <3>2. pending' \in Seq(Nat) /\ Distinct(pending)' /\ (Len(pending) <= H2!MaxPending)'
      BY <2>1, <2>2, <3>1 DEF Distinct, H2!MaxPending, H2!MaxStreams, H2!DistributeStreams
    <3> QED  BY <1>1, <1>6, <1>7, <2>1, <2>3, <3>2 DEF H2Types
  <2>5. DeclinedWhenShort'
    <3>1. a.declined # {} => limit + 1 < H2!MaxStreams
      BY <1>4, <1>5, <1>6, <2>2
    <3>2. declined' # {} => limit' + 1 < H2!MaxStreams
      BY <1>1, <1>2, <2>1, <3>1 DEF DeclinedWhenShort
    <3> QED  BY <3>2 DEF DeclinedWhenShort, H2!MaxStreams, H2!DistributeStreams
  <2>6. TokensApart' /\ LossesAreErrors'
    <3>1. InFour(Elements(pending), made + 1..made + 0, {}, Flying(a.begun), a.declined,
                 Elements(a.queue))
      <4>1. made + 1..made + 0 = {}
        BY <1>6
      <4> QED  BY <2>2, <4>1 DEF InFour
    <3>2. made' = made + 0 /\ Elements(a.queue) = Elements(pending')
      BY <1>6, <2>1
    <3>3. Round(0, {}, Flying(a.begun), a.declined, Elements(a.queue),
                Flying(kept), Flying(over1), Flying(failed))
      BY <1>1, <1>3, <1>7, <1>10, <2>1, <2>3, <3>1, <3>2 DEF Round
    <3> QED  BY <3>3, RoundKeepsTokens
  <2> QED  BY <2>3, <2>4, <2>5, <2>6 DEF H2Inv
<1>12. CASE ~openLoop
  <2>1. /\ streams' = kept \cup f.begun /\ idle' = free - f.n
        /\ pending' = pending /\ declined' = declined /\ made' = made + f.n
    BY <1>0, <1>12, H2Cardinality DEF free, over1, failed, kept, open
  <2>2. /\ f.n \in Nat /\ f.n <= free
        /\ IsFiniteSet(f.begun) /\ Cardinality(f.begun) = f.n /\ OneEach(f.begun)
        /\ Flying(f.begun) = made + 1..made + f.n
    BY <1>4, <1>5, <1>6, RefillBegins
  <2> HIDE DEF f
  <2>3. Flying(kept) \cap Flying(f.begun) = {} /\ Elements(pending) \cap Flying(f.begun) = {}
    <3>1. (1..made) \cap (made + 1..made + f.n) = {}
      BY <1>6, <2>2
    <3> QED  BY <1>8, <1>9, <2>2, <3>1
  <2>4. /\ idle' \in Nat /\ IsFiniteSet(streams') /\ OneEach(streams)'
        /\ SlotsOfStreams' /\ Flying(streams') = Flying(kept) \cup Flying(f.begun)
    <3>1. Cardinality(f.begun) <= free /\ idle' = free - Cardinality(f.begun)
      BY <2>1, <2>2
    <3> QED  BY <1>3, <1>4, <2>1, <2>2, <2>3, <3>1, SlotsTaken
  <2>5. H2Types'
    <3>1. made' \in Nat
      BY <1>6, <2>1, <2>2
    <3>2. Distinct(pending)' /\ (Len(pending) <= H2!MaxPending)'
      BY <1>2, <2>1 DEF H2Types, Distinct, H2!MaxPending, H2!MaxStreams, H2!DistributeStreams
    <3> QED  BY <1>1, <1>6, <1>7, <2>1, <2>4, <3>1, <3>2 DEF H2Types
  <2>6. DeclinedWhenShort'
    BY <1>1, <1>2, <2>1 DEF DeclinedWhenShort, H2!MaxStreams, H2!DistributeStreams
  <2>7. TokensApart' /\ LossesAreErrors'
    <3>1. InFour(Elements(pending), made + 1..made + f.n, {}, Flying(f.begun), {},
                 Elements(pending))
      BY <2>2, <2>3 DEF InFour
    <3>2. declined' = declined \cup {} /\ Elements(pending) = Elements(pending')
      BY <2>1
    <3>3. Round(f.n, {}, Flying(f.begun), {}, Elements(pending),
                Flying(kept), Flying(over1), Flying(failed))
      BY <1>1, <1>3, <1>7, <1>10, <2>1, <2>2, <2>4, <3>1, <3>2 DEF Round
    <3> QED  BY <3>3, RoundKeepsTokens
  <2> QED  BY <2>4, <2>5, <2>6, <2>7 DEF H2Inv
<1> QED  BY <1>11, <1>12

\* The requests of a saturated worker that has just connected.
LEMMA HandshakenKeepsInv == H2Inv /\ H2!Handshaken => H2Inv'
<1> SUFFICES ASSUME H2Inv, H2!Handshaken PROVE H2Inv'
  OBVIOUS
<1> DEFINE f == H2!Refill(idle, {})
           n == IF openLoop THEN 0 ELSE f.n
           begun == IF openLoop THEN {} ELSE f.begun
<1>1. /\ at = "handshake" /\ at' = "assign" /\ limit' = limit /\ errors' = errors
      /\ pending' = pending /\ keepup' = keepup /\ declined' = declined /\ done' = done
      /\ streams' = {} \cup begun /\ idle' = idle - n /\ made' = made + n
  BY DEF H2!Handshaken, H2!In, H2!Others
<1>2. H2Types /\ SlotsOfStreams /\ DeclinedWhenShort /\ TokensApart
  BY DEF H2Inv
<1>3. /\ made \in Nat /\ idle \in Nat /\ limit \in Nat /\ streams = {}
      /\ IsFiniteSet({}) /\ Cardinality({}) = 0
  BY <1>1, <1>2, FS_EmptySet DEF H2Types
<1>4. /\ n \in Nat /\ n <= idle
      /\ IsFiniteSet(begun) /\ Cardinality(begun) = n /\ OneEach(begun)
      /\ Flying(begun) = made + 1..made + n
  <2>1. CASE openLoop
    <3>1. n = 0 /\ begun = {}
      BY <2>1
    <3> HIDE DEF n, begun
    <3>2. OneEach(begun) /\ Flying(begun) = {}
      BY <3>1 DEF OneEach, Flying
    <3>3. made + 1..made + n = {}
      BY <1>3, <3>1
    <3>4. n \in Nat /\ n <= idle
      BY <1>3, <3>1
    <3>5. IsFiniteSet(begun) /\ Cardinality(begun) = n
      BY <1>3, <3>1
    <3> QED  BY <3>2, <3>3, <3>4, <3>5
  <2>2. CASE ~openLoop
    <3>1. /\ f.n \in Nat /\ f.n <= idle
          /\ IsFiniteSet(f.begun) /\ Cardinality(f.begun) = f.n /\ OneEach(f.begun)
          /\ Flying(f.begun) = made + 1..made + f.n
      BY <1>3, RefillBegins
    <3>2. n = f.n /\ begun = f.begun
      BY <2>2
    <3> HIDE DEF f, n, begun
    <3> QED  BY <3>1, <3>2
  <2> QED  BY <2>1, <2>2
<1> HIDE DEF n, begun
<1>5. OneEach({}) /\ Flying({}) = {}
  BY DEF OneEach, Flying
<1>6. /\ idle' \in Nat /\ IsFiniteSet(streams') /\ OneEach(streams)'
      /\ SlotsOfStreams' /\ Flying(streams') = {} \cup Flying(begun)
  <2>1. idle + Cardinality({}) = H2!MaxStreams
    BY <1>2, <1>3 DEF SlotsOfStreams
  <2>2. Cardinality(begun) <= idle /\ idle' = idle - Cardinality(begun)
    BY <1>1, <1>4
  <2>3. Flying({}) \cap Flying(begun) = {}
    BY <1>5
  <2>4. /\ idle' \in Nat /\ IsFiniteSet(streams') /\ OneEach(streams)'
        /\ SlotsOfStreams' /\ Flying(streams') = Flying({}) \cup Flying(begun)
    BY <1>1, <1>3, <1>4, <1>5, <2>1, <2>2, <2>3, SlotsTaken
  <2> QED  BY <1>5, <2>4
<1>7. H2Types'
  <2>1. made' \in Nat
    BY <1>1, <1>3, <1>4
  <2>2. Distinct(pending)' /\ (Len(pending) <= H2!MaxPending)'
    BY <1>1, <1>2 DEF H2Types, Distinct, H2!MaxPending, H2!MaxStreams, H2!DistributeStreams
  <2> QED  BY <1>1, <1>2, <1>6, <2>1, <2>2 DEF H2Types
<1>8. DeclinedWhenShort'
  BY <1>1, <1>2 DEF DeclinedWhenShort, H2!MaxStreams, H2!DistributeStreams
<1>9. TokensApart' /\ LossesAreErrors'
  <2>1. Elements(pending) \cap Flying(begun) = {}
    <3>1. Elements(pending) \subseteq 1..made
      BY <1>2 DEF TokensApart, PlacedIn
    <3>2. (1..made) \cap (made + 1..made + n) = {}
      BY <1>3, <1>4
    <3> QED  BY <1>4, <3>1, <3>2
  <2>2. InFour(Elements(pending), made + 1..made + n, {}, Flying(begun), {},
               Elements(pending))
    BY <1>4, <2>1 DEF InFour
  <2>3. /\ keepup' = keepup \cup {} /\ declined' = declined \cup {} /\ done' = done \cup {}
        /\ Elements(pending) = Elements(pending')
    BY <1>1
  <2>4. InThree(Flying(streams), {}, {}, {})
    BY <1>3, <1>5 DEF InThree
  <2>5. errors'.read = errors.read + Cardinality({})
    <3>1. errors.read \in Nat
      BY <1>2 DEF H2Types
    <3> QED  BY <1>1, <1>3, <3>1
  <2>6. Round(n, {}, Flying(begun), {}, Elements(pending), {}, {}, {})
    BY <1>1, <1>3, <1>4, <1>6, <2>2, <2>3, <2>4, <2>5 DEF Round
  <2> QED  BY <2>6, RoundKeepsTokens
<1> QED  BY <1>6, <1>7, <1>8, <1>9 DEF H2Inv

\* The steps that touch neither token nor stream, and add at most the error of the
\* connection.
StreamsUntouched == UNCHANGED <<streams, idle, limit, pending, made, keepup, declined, done>>

LEMMA UntouchedKeepsInv ==
    ASSUME H2Inv, StreamsUntouched, errors' \in [connect : Nat, read : Nat],
           at' \in {"tcp", "handshake"} => at \in {"tcp", "handshake"},
           \/ errors'.read = errors.read /\ (at = "left" => at' = "left")
           \/ errors'.read = errors.read + 1 /\ at # "left" /\ at' = "left"
    PROVE  H2Inv'
<1>1. H2Types /\ SlotsOfStreams /\ DeclinedWhenShort /\ TokensApart /\ LossesAreErrors
  BY DEF H2Inv
<1>2. H2Types'
  <2>1. Distinct(pending)' /\ (Len(pending) <= H2!MaxPending)' /\ OneEach(streams)'
    BY <1>1 DEF H2Types, StreamsUntouched, Distinct, OneEach, H2!MaxPending,
                H2!MaxStreams, H2!DistributeStreams
  <2> QED  BY <1>1, <2>1 DEF H2Types, StreamsUntouched
<1>3. SlotsOfStreams' /\ DeclinedWhenShort'
  BY <1>1 DEF SlotsOfStreams, DeclinedWhenShort, StreamsUntouched, H2!MaxStreams,
              H2!DistributeStreams
<1>4. TokensApart' /\ Lost' = Lost
  BY <1>1 DEF TokensApart, Lost, StreamsUntouched, Elements, Flying
<1>5. LossesAreErrors'
  BY <1>1, <1>4 DEF LossesAreErrors
<1> QED  BY <1>2, <1>3, <1>4, <1>5 DEF H2Inv

LEMMA H2StepKeepsInv == H2Inv /\ H2!H2Next => H2Inv'
<1> SUFFICES ASSUME H2Inv, H2!H2Next PROVE H2Inv'
  OBVIOUS
<1>0. errors \in [connect : Nat, read : Nat]
  BY DEF H2Inv, H2Types
<1> USE DEF H2!In, H2!Others, StreamsUntouched
<1>1. CASE H2!ConnectFails
  BY <1>0, <1>1, UntouchedKeepsInv DEF H2!ConnectFails
<1>2. CASE H2!Connected
  BY <1>0, <1>2, UntouchedKeepsInv DEF H2!Connected
<1>3. CASE H2!HandshakeFails
  BY <1>0, <1>3, UntouchedKeepsInv DEF H2!HandshakeFails
<1>4. CASE H2!NoTokens
  BY <1>0, <1>4, UntouchedKeepsInv DEF H2!NoTokens
<1>5. CASE H2!Stopped
  BY <1>0, <1>5, UntouchedKeepsInv DEF H2!Stopped
<1>6. CASE H2!ConnectionDies
  BY <1>0, <1>6, UntouchedKeepsInv DEF H2!ConnectionDies
<1> QED
  BY <1>1, <1>2, <1>3, <1>4, <1>5, <1>6, AssignTokensKeepsInv, ProgressKeepsInv,
     HandshakenKeepsInv DEF H2!H2Next, H2!H2Alone

\* The worker starts with its slots idle and without requests.
LEMMA H2Starts == Init => H2Inv
<1> SUFFICES ASSUME Init PROVE H2Inv
  OBVIOUS
<1>1. /\ limit \in 0..H2!MaxStreams /\ at = "tcp" /\ streams = {} /\ idle = H2!MaxStreams
      /\ pending = <<>> /\ made = 0 /\ keepup = {} /\ declined = {} /\ done = {}
      /\ errors = [connect |-> 0, read |-> 0]
  BY DEF Init, RunOneProtocol, H2!H2Init
<1>2. H2!MaxStreams \in Nat /\ H2!MaxPending \in Nat
  BY SlotsType DEF H2!MaxPending
<1>3. IsFiniteSet({}) /\ Cardinality({}) = 0
  BY FS_EmptySet
<1>4. Elements(pending) = {} /\ Flying(streams) = {}
  BY <1>1 DEF Elements, Flying
<1>5. H2Types
  <2>1. limit \in Nat /\ idle \in Nat
    BY <1>1, <1>2
  <2>2. pending \in Seq(Nat) /\ Len(pending) = 0 /\ DOMAIN pending = {}
    BY <1>1
  <2>3. Distinct(pending) /\ Len(pending) <= H2!MaxPending
    BY <1>2, <2>2 DEF Distinct
  <2>4. errors \in [connect : Nat, read : Nat]
    BY <1>1
  <2> QED  BY <1>1, <1>3, <2>1, <2>2, <2>3, <2>4 DEF H2Types, OneEach
<1>6. SlotsOfStreams /\ DeclinedWhenShort
  BY <1>1, <1>2, <1>3 DEF SlotsOfStreams, DeclinedWhenShort
<1>7. TokensApart
  BY <1>1, <1>4 DEF TokensApart, PlacedIn
<1>8. LossesAreErrors
  <2>1. 1..made = {}
    BY <1>1
  <2>2. Lost = {}
    BY <2>1 DEF Lost, LostOf
  <2> QED  BY <1>1, <1>3, <2>2 DEF LossesAreErrors
<1> QED  BY <1>5, <1>6, <1>7, <1>8 DEF H2Inv

\* The invariant says where every token is.
LEMMA H2InvIsEnough == H2Inv => TokensInOnePlace
<1> SUFFICES ASSUME H2Inv PROVE H2!TokensInOnePlace
  BY DEF TokensInOnePlace
<1> DEFINE flying == {s.id : s \in streams}
           waiting == {pending[k] : k \in DOMAIN pending}
           parts == <<waiting, keepup, declined, flying, done>>
           placed == UNION {parts[k] : k \in DOMAIN parts}
<1>1. H2Types /\ SlotsOfStreams /\ DeclinedWhenShort /\ TokensApart /\ LossesAreErrors
  BY DEF H2Inv
<1>2. flying = Flying(streams) /\ waiting = Elements(pending)
  BY DEF Flying, Elements
<1>3. PlacedIn(1..made, waiting, keepup, declined, flying, done)
  BY <1>1, <1>2 DEF TokensApart
<1> HIDE DEF flying, waiting
<1>4. /\ DOMAIN parts = {1, 2, 3, 4, 5}
      /\ parts[1] = waiting /\ parts[2] = keepup /\ parts[3] = declined
      /\ parts[4] = flying /\ parts[5] = done
  OBVIOUS
<1> HIDE DEF parts
<1>5. \A j, k \in DOMAIN parts : j # k => parts[j] \cap parts[k] = {}
  BY <1>3, <1>4 DEF PlacedIn
<1>6. placed = waiting \cup keepup \cup declined \cup flying \cup done
  BY <1>4
<1>7. placed \subseteq 1..made /\ Lost = (1..made) \ placed
  BY <1>2, <1>3, <1>6 DEF PlacedIn, Lost, LostOf
<1> HIDE DEF placed
<1>8. made - Cardinality(placed) = Cardinality(Lost) /\ Cardinality(Lost) \in Nat
  <2>1. made \in Nat
    BY <1>1 DEF H2Types
  <2>2. IsFiniteSet(1..made) /\ Cardinality(1..made) = made
    <3>1. 1 \in Int /\ made \in Int /\ (IF 1 > made THEN 0 ELSE made - 1 + 1) = made
      BY <2>1
    <3> QED  BY <3>1, FS_Interval
  <2>3. IsFiniteSet(placed) /\ IsFiniteSet(Lost)
    <3>1. Lost \subseteq 1..made
      BY <1>7
    <3> QED  BY <1>7, <2>2, <3>1, FS_Subset
  <2>4. placed \cup Lost = 1..made /\ placed \cap Lost = {}
    BY <1>7
  <2>5. Cardinality(1..made) = Cardinality(placed) + Cardinality(Lost)
    BY <2>3, <2>4, LossesAdd
  <2>6. Cardinality(placed) \in Nat /\ Cardinality(Lost) \in Nat
    BY <2>3, FS_CardinalityType
  <2> QED  BY <2>1, <2>2, <2>5, <2>6
<1>9. made - Cardinality(placed) \in {errors.read, errors.read - 1}
  BY <1>1, <1>8 DEF LossesAreErrors
<1>10. /\ idle + Cardinality(streams) = H2!MaxStreams
       /\ declined # {} => limit + 1 < H2!MaxStreams
       /\ Len(pending) <= H2!MaxPending
  BY <1>1 DEF H2Types, SlotsOfStreams, DeclinedWhenShort
<1> QED  BY <1>5, <1>9, <1>10, H2Cardinality DEF H2!TokensInOnePlace, placed, parts, flying, waiting

(* Every token or request of an HTTP/2 worker is in exactly one place, a slot *)
(* is idle or holds one stream, and requests are declined only while the peer *)
(* allows fewer streams than there are slots (poll_progress,                  *)
(* h2_assign_tokens and h2_refill of mio_h2.rs).                              *)
THEOREM TokensAreInOnePlace == Spec => []TokensInOnePlace
<1>1. Init => H2Inv
  BY H2Starts
<1>2. H2Inv /\ [Next]_vars => H2Inv'
  <2> SUFFICES ASSUME H2Inv, [Next]_vars PROVE H2Inv'
    OBVIOUS
  <2>1. CASE H2Step
    BY <2>1, H2StepKeepsInv DEF H2Step
  <2>2. CASE UNCHANGED h2Vars
    <3>1. StreamsUntouched /\ errors' = errors /\ at' = at
      BY <2>2 DEF h2Vars, StreamsUntouched
    <3>2. errors \in [connect : Nat, read : Nat]
      BY DEF H2Inv, H2Types
    <3> QED  BY <3>1, <3>2, UntouchedKeepsInv
  <2> QED  BY <2>1, <2>2 DEF Next, TimeUp, HoldStep, StormStep, FanStep, WsStep, CheckStep, vars
<1>3. H2Inv => TokensInOnePlace
  BY H2InvIsEnough
<1> QED  BY <1>1, <1>2, <1>3, PTL DEF Spec

-----------------------------------------------------------------------------
(* The threads of a WebSocket scenario (WsWorkers). *)

Stays == UNCHANGED <<backend, over>>

\* No backend touches the flag, nor the choice of dispatch.
LEMMA NobodyTouchesTheFlag ==
    /\ Hold!HoldNext => Stays
    /\ Storm!StormNext => Stays
    /\ Fan!FanoutNext => Stays
    /\ H2!H2Next => Stays
    /\ Check!CheckNext => Stays
<1> USE DEF Stays
<1>1. Hold!HoldNext => Stays
  BY DEF Hold!HoldNext, Hold!HoldThread, Hold!HandleEvent, Hold!CreateSubscribers,
         Hold!NothingToPoll, Hold!PollEvents, Hold!BatchHandled, Hold!HoldReport,
         Hold!StaleEvent, Hold!Drive, Hold!DriveDies, Hold!SocketError
<1>2. Storm!StormNext => Stays
  <2>1. ASSUME NEW s \in Subscribers, NEW kind, Storm!Fail(s, kind) PROVE Stays
    BY <2>1 DEF Storm!Fail
  <2>2. ASSUME NEW s \in Subscribers, Storm!Finish(s) PROVE Stays
    BY <2>2 DEF Storm!Finish
  <2>3. ASSUME NEW s \in Subscribers, Storm!SubscriberRuns(s) PROVE Stays
    BY <2>1, <2>2, <2>3 DEF Storm!SubscriberRuns, Storm!Leave, Storm!OpenSession,
       Storm!Advance, Storm!FailEarly, Storm!RunIsOver
  <2>4. ASSUME NEW s \in Subscribers, Storm!ServerActs(s) PROVE Stays
    BY <2>1, <2>2, <2>4 DEF Storm!ServerActs, Storm!FirstByte, Storm!ReadId,
       Storm!ReadData, Storm!ReadFails, Storm!SessionEnds
  <2> QED  BY <2>3, <2>4 DEF Storm!StormNext, Storm!RollUp
<1>3. Fan!FanoutNext => Stays
  BY DEF Fan!FanoutNext, Fan!TriggerThread, Fan!Listener, Fan!Subscribe,
         Fan!SubscribeFails, Fan!Receive, Fan!Drop, Fan!Unsubscribe, Fan!Ping, Fan!Pong,
         Fan!Goodbye, Fan!StartTrigger,
         Fan!FireTrigger, Fan!PostReaches, Fan!PostSucceeds, Fan!PostFails,
         Fan!TriggerStops, Fan!Broadcast, Fan!FanoutReport, Fan!Others, Fan!TriggerOthers
<1>4. H2!H2Next => Stays
  BY DEF H2!H2Next, H2!H2Alone, H2!ConnectFails, H2!Connected, H2!HandshakeFails,
         H2!Handshaken, H2!AssignTokens, H2!NoTokens, H2!Stopped, H2!Progress,
         H2!ConnectionDies, H2!Others
<1>5. Check!CheckNext => Stays
  BY DEF Check!CheckNext, Check!Connected, Check!Accept, Check!Readable, Check!Writable,
         Check!ConnectFails, Check!NextRequest, Check!Write, Check!ReadExact,
         Check!Expire, Check!Judge, Check!Join, Check!EchoLeaves, Check!Others
<1> QED  BY <1>1, <1>2, <1>3, <1>4, <1>5

ConnFields == {"pc", "seq", "looked", "closes", "byPeer", "samples", "owes"}
PeerFields == {"asked", "inbox", "noise", "gone"}
Frames == [kind : {"Text", "Pong", "Ping", "Close"}, of : Nat]

\* The locals of each thread are there, and are its own.
WsShape ==
    /\ DOMAIN conn = Conns /\ \A c \in Conns : DOMAIN conn[c] = ConnFields
    /\ DOMAIN peer = Conns
    /\ \A c \in Conns : DOMAIN peer[c] = PeerFields
    /\ stat \in [Conns -> [Ws!Counters -> Nat]]

\* The errors that end a connection; a mismatch is a read error that does not.
Fatal(n) == n["connect"] + n["write"] + (n["read"] - n["mismatch"])
ByPeer(r) == IF r.byPeer THEN 1 ELSE 0

Working == {"start", "tcp", "upgrade", "loop", "send", "await"}

\* The books of a thread: r its locals, n its counters.  Nothing is charged while
\* it works, one thing when it is over.
Books(r, n) ==
    /\ r.pc \in Working \cup {"close", "left"} /\ r.byPeer \in BOOLEAN
    /\ n["mismatch"] <= n["read"]
    /\ r.pc \in Working => /\ Fatal(n) = 0 /\ n["completed"] = 0 /\ n["stalled"] = 0
                           /\ ~r.byPeer /\ r.closes = 0
    /\ Fatal(n) + n["completed"] + ByPeer(r) <= 1 /\ Fatal(n) + n["stalled"] <= 1
    /\ r.closes \in {0, 1}
    /\ r.pc \notin Working /\ over = "no" => Fatal(n) + ByPeer(r) = 1
    /\ backend = "ws_echo" =>
         \/ n["sent"] = n["recv"] + n["mismatch"] /\ r.pc # "await"
         \/ n["sent"] = n["recv"] + n["mismatch"] + 1 /\ r.pc \in {"await", "close", "left"}

\* The inductive invariant of the counters.
WsBooks == WsShape /\ \A c \in Conns : Books(conn[c], stat[c])

\* What counting does to the counters of the thread, and to those of the others.
LEMMA CountAdds ==
    ASSUME WsShape, NEW c \in Conns, NEW ks, Ws!Count(c, ks)
    PROVE  /\ stat' \in [Conns -> [Ws!Counters -> Nat]]
           /\ \A d \in Conns : d # c => stat'[d] = stat[d]
           /\ \A k \in Ws!Counters :
                stat'[c][k] = IF k \in ks THEN stat[c][k] + 1 ELSE stat[c][k]
<1> DEFINE n == [k \in Ws!Counters |-> IF k \in ks THEN stat[c][k] + 1 ELSE stat[c][k]]
<1>1. stat \in [Conns -> [Ws!Counters -> Nat]]
  BY DEF WsShape
<1>2. stat' = [stat EXCEPT ![c] = n]
  BY <1>1 DEF Ws!Count
<1>3. n \in [Ws!Counters -> Nat]
  BY <1>1
<1>4. \A k \in Ws!Counters : n[k] = IF k \in ks THEN stat[c][k] + 1 ELSE stat[c][k]
  OBVIOUS
<1> HIDE DEF n
<1>5. stat'[c] = n
  BY <1>1, <1>2
<1> QED  BY <1>1, <1>2, <1>3, <1>4, <1>5

\* What a step leaves in the locals of thread c, and on its peer's side.
Thread(c, pc, seq, closes, byPeer, samples) ==
    /\ DOMAIN conn' = Conns /\ \A d \in Conns : d # c => conn'[d] = conn[d]
    /\ DOMAIN conn'[c] = ConnFields
    /\ conn'[c].pc = pc /\ conn'[c].seq = seq /\ conn'[c].closes = closes
    /\ conn'[c].byPeer = byPeer /\ conn'[c].samples = samples
Peer(c, asked, inbox, noise) ==
    /\ DOMAIN peer' = Conns /\ \A d \in Conns : d # c => peer'[d] = peer[d]
    /\ DOMAIN peer'[c] = PeerFields
    /\ peer'[c].asked = asked /\ peer'[c].inbox = inbox /\ peer'[c].noise = noise

\* Only the place of the thread changes, or nothing of it.
LEMMA ThreadGoes ==
    ASSUME WsShape, NEW c \in Conns
    PROVE  LET r == conn[c]
           IN  /\ \A p : Ws!GoTo(c, p) =>
                           Thread(c, p, r.seq, r.closes, r.byPeer, r.samples)
               /\ conn' = conn => Thread(c, r.pc, r.seq, r.closes, r.byPeer, r.samples)
<1>1. DOMAIN conn = Conns /\ DOMAIN conn[c] = ConnFields
  BY DEF WsShape
<1>2. ASSUME NEW p, Ws!GoTo(c, p)
      PROVE Thread(c, p, conn[c].seq, conn[c].closes, conn[c].byPeer, conn[c].samples)
  <2> DEFINE r == [conn[c] EXCEPT !.pc = p]
  <2>1. conn' = [conn EXCEPT ![c] = r]
    BY <1>2 DEF Ws!GoTo
  <2>2. /\ DOMAIN r = ConnFields /\ r.pc = p /\ r.seq = conn[c].seq
        /\ r.closes = conn[c].closes /\ r.byPeer = conn[c].byPeer
        /\ r.samples = conn[c].samples
    BY <1>1 DEF ConnFields
  <2> HIDE DEF r
  <2> QED  BY <1>1, <2>1, <2>2 DEF Thread
<1>3. ASSUME conn' = conn
      PROVE Thread(c, conn[c].pc, conn[c].seq, conn[c].closes, conn[c].byPeer,
                   conn[c].samples)
  BY <1>1, <1>3 DEF Thread
<1> QED  BY <1>2, <1>3

\* Nothing happens on the peer's side, or a frame is taken.
LEMMA PeerGives ==
    ASSUME WsShape, NEW c \in Conns
    PROVE  LET p == peer[c]
           IN  /\ peer' = peer => Peer(c, p.asked, p.inbox, p.noise)
               /\ Ws!Consume(c) => Peer(c, p.asked, Tail(p.inbox), p.noise)
<1>1. DOMAIN peer = Conns /\ DOMAIN peer[c] = PeerFields
  BY DEF WsShape
<1>2. ASSUME peer' = peer PROVE Peer(c, peer[c].asked, peer[c].inbox, peer[c].noise)
  BY <1>1, <1>2 DEF Peer
<1>3. ASSUME Ws!Consume(c)
      PROVE Peer(c, peer[c].asked, Tail(peer[c].inbox), peer[c].noise)
  <2> DEFINE p == [peer[c] EXCEPT !.inbox = Tail(peer[c].inbox)]
  <2>1. peer' = [peer EXCEPT ![c] = p]
    BY <1>3 DEF Ws!Consume
  <2>2. /\ DOMAIN p = PeerFields /\ p.asked = peer[c].asked
        /\ p.inbox = Tail(peer[c].inbox) /\ p.noise = peer[c].noise
    BY <1>1 DEF PeerFields
  <2> HIDE DEF p
  <2> QED  BY <1>1, <2>1, <2>2 DEF Peer
<1> QED  BY <1>2, <1>3

\* The steps that do more.
LEMMA ThreadsDo ==
    ASSUME WsShape, NEW c \in Conns
    PROVE  LET r == conn[c]
               p == peer[c]
           IN  /\ Ws!BeginSend(c) =>
                    Thread(c, "send", r.seq + 1, r.closes, r.byPeer, r.samples)
               /\ Ws!Close(c) =>
                    Thread(c, "left", r.seq, IF r.closes = 0 THEN 1 ELSE r.closes,
                           r.byPeer, r.samples)
               /\ Ws!HandlePing(c) \/ Ws!PongSent(c) \/ Ws!HandleClose(c) =>
                    Thread(c, r.pc, r.seq, r.closes, r.byPeer, r.samples)
               /\ Ws!PongFails(c) =>
                    Thread(c, IF backend = "ws_echo" THEN "close" ELSE "left", r.seq,
                           r.closes, r.byPeer, r.samples)
               /\ Ws!CloseReplied(c) =>
                    Thread(c, IF backend = "ws_hold" THEN "left" ELSE "close", r.seq,
                           IF r.closes = 0 THEN 1 ELSE r.closes, TRUE, r.samples)
               /\ Ws!EchoMatches(c) =>
                    Thread(c, "loop", r.seq, r.closes, r.byPeer,
                           Append(r.samples, [of |-> Head(p.inbox).of, for |-> r.seq]))
               /\ Ws!EchoLooksOn(c) =>
                    \E pc \in {"loop", r.pc} :
                      /\ Thread(c, pc, r.seq, r.closes, r.byPeer, r.samples)
                      /\ (pc = "loop" /\ Ws!Count(c, {"read", "mismatch"}))
                         \/ (pc = r.pc /\ stat' = stat)
<1>1. DOMAIN conn = Conns /\ DOMAIN conn[c] = ConnFields
  BY DEF WsShape
<1>2. ASSUME Ws!BeginSend(c)
      PROVE Thread(c, "send", conn[c].seq + 1, conn[c].closes, conn[c].byPeer,
                   conn[c].samples)
  <2> DEFINE r == [conn[c] EXCEPT !.pc = "send", !.seq = conn[c].seq + 1, !.looked = 0]
  <2>1. conn' = [conn EXCEPT ![c] = r]
    BY <1>1, <1>2 DEF Ws!BeginSend
  <2>2. /\ DOMAIN r = ConnFields /\ r.pc = "send" /\ r.seq = conn[c].seq + 1
        /\ r.closes = conn[c].closes /\ r.byPeer = conn[c].byPeer
        /\ r.samples = conn[c].samples
    BY <1>1 DEF ConnFields
  <2> HIDE DEF r
  <2> QED  BY <1>1, <2>1, <2>2 DEF Thread
<1> DEFINE closes == IF conn[c].closes = 0 THEN 1 ELSE conn[c].closes
<1>3. ASSUME Ws!Close(c)
      PROVE Thread(c, "left", conn[c].seq, closes, conn[c].byPeer, conn[c].samples)
  <2> DEFINE r == [conn[c] EXCEPT !.pc = "left", !.closes = closes]
  <2>1. conn' = [conn EXCEPT ![c] = r]
    BY <1>1, <1>3 DEF Ws!Close
  <2>2. /\ DOMAIN r = ConnFields /\ r.pc = "left" /\ r.seq = conn[c].seq
        /\ r.closes = closes /\ r.byPeer = conn[c].byPeer
        /\ r.samples = conn[c].samples
    BY <1>1 DEF ConnFields
  <2> HIDE DEF r, closes
  <2> QED  BY <1>1, <2>1, <2>2 DEF Thread
<1>4. ASSUME Ws!CloseReplied(c)
      PROVE Thread(c, IF backend = "ws_hold" THEN "left" ELSE "close", conn[c].seq,
                   closes, TRUE, conn[c].samples)
  <2> DEFINE to == IF backend = "ws_hold" THEN "left" ELSE "close"
             r == [conn[c] EXCEPT !.pc = to, !.closes = closes, !.byPeer = TRUE,
                                  !.owes = "nothing"]
  <2>1. conn' = [conn EXCEPT ![c] = r]
    BY <1>1, <1>4 DEF Ws!CloseReplied
  <2>2. /\ DOMAIN r = ConnFields /\ r.pc = to /\ r.seq = conn[c].seq
        /\ r.closes = closes /\ r.byPeer = TRUE /\ r.samples = conn[c].samples
    BY <1>1 DEF ConnFields
  <2> HIDE DEF r, closes
  <2> QED  BY <1>1, <2>1, <2>2 DEF Thread
<1>5. ASSUME Ws!EchoMatches(c)
      PROVE Thread(c, "loop", conn[c].seq, conn[c].closes, conn[c].byPeer,
                   Append(conn[c].samples,
                          [of |-> Head(peer[c].inbox).of, for |-> conn[c].seq]))
  <2> DEFINE more == Append(conn[c].samples,
                            [of |-> Head(peer[c].inbox).of, for |-> conn[c].seq])
             r == [conn[c] EXCEPT !.pc = "loop", !.samples = more]
  <2>1. conn' = [conn EXCEPT ![c] = r]
    BY <1>1, <1>5 DEF Ws!EchoMatches, Ws!Next1
  <2>2. /\ DOMAIN r = ConnFields /\ r.pc = "loop" /\ r.seq = conn[c].seq
        /\ r.closes = conn[c].closes /\ r.byPeer = conn[c].byPeer /\ r.samples = more
    BY <1>1 DEF ConnFields
  <2> HIDE DEF r, more
  <2>3. Thread(c, "loop", conn[c].seq, conn[c].closes, conn[c].byPeer, more)
    BY <1>1, <2>1, <2>2 DEF Thread
  <2> QED  BY <2>3 DEF more
<1>6. ASSUME Ws!EchoLooksOn(c)
      PROVE \E pc \in {"loop", conn[c].pc} :
              /\ Thread(c, pc, conn[c].seq, conn[c].closes, conn[c].byPeer,
                        conn[c].samples)
              /\ (pc = "loop" /\ Ws!Count(c, {"read", "mismatch"}))
                 \/ (pc = conn[c].pc /\ stat' = stat)
  <2> DEFINE last == conn[c].looked + 1 = Looks
             to == IF last THEN "loop" ELSE conn[c].pc
             r == [conn[c] EXCEPT !.looked = conn[c].looked + 1, !.pc = to]
  <2>1. conn' = [conn EXCEPT ![c] = r]
    BY <1>1, <1>6 DEF Ws!EchoLooksOn
  <2>2. /\ DOMAIN r = ConnFields /\ r.pc = to /\ r.seq = conn[c].seq
        /\ r.closes = conn[c].closes /\ r.byPeer = conn[c].byPeer
        /\ r.samples = conn[c].samples
    BY <1>1 DEF ConnFields
  <2>3. \/ to = "loop" /\ Ws!Count(c, {"read", "mismatch"})
        \/ to = conn[c].pc /\ stat' = stat
    BY <1>6 DEF Ws!EchoLooksOn
  <2> HIDE DEF r
  <2>4. Thread(c, to, conn[c].seq, conn[c].closes, conn[c].byPeer, conn[c].samples)
    BY <1>1, <2>1, <2>2 DEF Thread
  <2> QED  BY <2>3, <2>4
<1>7. ASSUME Ws!HandlePing(c) \/ Ws!PongSent(c) \/ Ws!HandleClose(c)
      PROVE Thread(c, conn[c].pc, conn[c].seq, conn[c].closes, conn[c].byPeer,
                   conn[c].samples)
  <2>1. PICK owes : conn' = [conn EXCEPT ![c].owes = owes]
    BY Zenon, <1>7 DEF Ws!HandlePing, Ws!PongSent, Ws!HandleClose
  <2> DEFINE r == [conn[c] EXCEPT !.owes = owes]
  <2>2. conn' = [conn EXCEPT ![c] = r]
    BY <1>1, <2>1
  <2>3. /\ DOMAIN r = ConnFields /\ r.pc = conn[c].pc /\ r.seq = conn[c].seq
        /\ r.closes = conn[c].closes /\ r.byPeer = conn[c].byPeer
        /\ r.samples = conn[c].samples
    BY <1>1 DEF ConnFields
  <2> HIDE DEF r
  <2> QED  BY <1>1, <2>2, <2>3 DEF Thread
<1>8. ASSUME Ws!PongFails(c)
      PROVE Thread(c, IF backend = "ws_echo" THEN "close" ELSE "left", conn[c].seq,
                   conn[c].closes, conn[c].byPeer, conn[c].samples)
  <2> DEFINE to == IF backend = "ws_echo" THEN "close" ELSE "left"
             r == [conn[c] EXCEPT !.owes = "nothing", !.pc = to]
  <2>1. conn' = [conn EXCEPT ![c] = r]
    BY <1>1, <1>8 DEF Ws!PongFails
  <2>2. /\ DOMAIN r = ConnFields /\ r.pc = to /\ r.seq = conn[c].seq
        /\ r.closes = conn[c].closes /\ r.byPeer = conn[c].byPeer
        /\ r.samples = conn[c].samples
    BY <1>1 DEF ConnFields
  <2> HIDE DEF r
  <2> QED  BY <1>1, <2>1, <2>2 DEF Thread
<1> QED  BY <1>2, <1>3, <1>4, <1>5, <1>6, <1>7, <1>8

\* The server answers, speaks unasked, hangs up; or a message reaches it.
LEMMA PeersDo ==
    ASSUME WsShape, NEW c \in Conns
    PROVE  LET p == peer[c]
           IN  /\ Ws!Answer(c) =>
                    \E m \in p.asked, kind \in {"Pong", "Text"} :
                      Peer(c, p.asked \ {m}, Append(p.inbox, [kind |-> kind, of |-> m]),
                           p.noise)
               /\ Ws!Unasked(c) =>
                    \E q : /\ Peer(c, p.asked, q, p.noise + 1)
                           /\ p.inbox \in Seq(Frames) => q \in Seq(Frames)
               /\ Ws!HangUp(c) =>
                    \E farewell \in {<<>>, <<[kind |-> "Close", of |-> 0]>>} :
                      Peer(c, p.asked, p.inbox \o farewell, p.noise)
               /\ Ws!Sent(c) => Peer(c, p.asked \cup {conn[c].seq}, p.inbox, p.noise)
<1>1. DOMAIN peer = Conns /\ DOMAIN peer[c] = PeerFields
  BY DEF WsShape
<1>2. ASSUME Ws!Answer(c)
      PROVE \E m \in peer[c].asked, kind \in {"Pong", "Text"} :
              Peer(c, peer[c].asked \ {m},
                   Append(peer[c].inbox, [kind |-> kind, of |-> m]), peer[c].noise)
  <2> DEFINE kind == IF flavour \in {"PingPong", "Ping"} THEN "Pong" ELSE "Text"
  <2>1. PICK m \in peer[c].asked :
          peer' = [peer EXCEPT ![c].asked = @ \ {m},
                               ![c].inbox = Append(@, [kind |-> kind, of |-> m])]
    BY <1>2 DEF Ws!Answer
  <2> DEFINE p == [peer[c] EXCEPT !.asked = peer[c].asked \ {m},
                                  !.inbox = Append(peer[c].inbox, [kind |-> kind, of |-> m])]
  <2>2. peer' = [peer EXCEPT ![c] = p]
    BY <1>1, <2>1
  <2>3. /\ DOMAIN p = PeerFields /\ p.asked = peer[c].asked \ {m}
        /\ p.inbox = Append(peer[c].inbox, [kind |-> kind, of |-> m])
        /\ p.noise = peer[c].noise
    BY <1>1 DEF PeerFields
  <2>4. kind \in {"Pong", "Text"}
    OBVIOUS
  <2> HIDE DEF p, kind
  <2>5. Peer(c, peer[c].asked \ {m}, Append(peer[c].inbox, [kind |-> kind, of |-> m]),
             peer[c].noise)
    BY <1>1, <2>2, <2>3 DEF Peer
  <2> QED  BY <2>4, <2>5
<1>3. ASSUME Ws!Unasked(c)
      PROVE \E q : /\ Peer(c, peer[c].asked, q, peer[c].noise + 1)
                   /\ peer[c].inbox \in Seq(Frames) => q \in Seq(Frames)
  <2>1. PICK kind \in {"Text", "Pong", "Ping"} :
          peer' = [peer EXCEPT ![c].noise = @ + 1,
                     ![c].inbox = Append(@, [kind |-> kind, of |-> Ws!NoAnswer])]
    BY <1>3 DEF Ws!Unasked
  <2> DEFINE q == Append(peer[c].inbox, [kind |-> kind, of |-> Ws!NoAnswer])
             p == [peer[c] EXCEPT !.noise = peer[c].noise + 1, !.inbox = q]
  <2>2. peer' = [peer EXCEPT ![c] = p]
    BY <1>1, <2>1
  <2>3. /\ DOMAIN p = PeerFields /\ p.asked = peer[c].asked /\ p.inbox = q
        /\ p.noise = peer[c].noise + 1
    BY <1>1 DEF PeerFields
  <2>4. peer[c].inbox \in Seq(Frames) => q \in Seq(Frames)
    <3>1. [kind |-> kind, of |-> Ws!NoAnswer] \in Frames
      BY DEF Frames, Ws!NoAnswer
    <3> QED  BY <3>1, AppendProperties
  <2> HIDE DEF p, q
  <2>5. Peer(c, peer[c].asked, q, peer[c].noise + 1)
    BY <1>1, <2>2, <2>3 DEF Peer
  <2> QED  BY <2>4, <2>5
<1>4. ASSUME Ws!HangUp(c)
      PROVE \E farewell \in {<<>>, <<[kind |-> "Close", of |-> 0]>>} :
              Peer(c, peer[c].asked, peer[c].inbox \o farewell, peer[c].noise)
  <2>1. PICK farewell \in {<<>>, <<[kind |-> "Close", of |-> 0]>>} :
          peer' = [peer EXCEPT ![c].gone = TRUE, ![c].inbox = @ \o farewell]
    BY <1>4 DEF Ws!HangUp, Ws!NoAnswer
  <2> DEFINE q == peer[c].inbox \o farewell
             p == [peer[c] EXCEPT !.gone = TRUE, !.inbox = q]
  <2>2. peer' = [peer EXCEPT ![c] = p]
    BY <1>1, <2>1
  <2>3. /\ DOMAIN p = PeerFields /\ p.asked = peer[c].asked /\ p.inbox = q
        /\ p.noise = peer[c].noise
    BY <1>1 DEF PeerFields
  <2> HIDE DEF p, q
  <2>4. Peer(c, peer[c].asked, q, peer[c].noise)
    BY <1>1, <2>2, <2>3 DEF Peer
  <2> QED  BY <2>4 DEF q
<1>5. ASSUME Ws!Sent(c)
      PROVE Peer(c, peer[c].asked \cup {conn[c].seq}, peer[c].inbox, peer[c].noise)
  <2> DEFINE p == [peer[c] EXCEPT !.asked = peer[c].asked \cup {conn[c].seq}]
  <2>1. peer' = [peer EXCEPT ![c] = p]
    BY <1>1, <1>5 DEF Ws!Sent
  <2>2. /\ DOMAIN p = PeerFields /\ p.asked = peer[c].asked \cup {conn[c].seq}
        /\ p.inbox = peer[c].inbox /\ p.noise = peer[c].noise
    BY <1>1 DEF PeerFields
  <2> HIDE DEF p
  <2> QED  BY <1>1, <2>1, <2>2 DEF Peer
<1> QED  BY <1>2, <1>3, <1>4, <1>5

\* A thread moves on: its books are in order, and those of the others untouched.
LEMMA OneThreadsBooks ==
    ASSUME WsBooks, Stays, NEW c \in Conns, NEW pc, NEW seq, NEW closes, NEW byPeer,
           NEW samples, Thread(c, pc, seq, closes, byPeer, samples),
           NEW asked, NEW inbox, NEW noise, Peer(c, asked, inbox, noise),
           stat' \in [Conns -> [Ws!Counters -> Nat]],
           \A d \in Conns : d # c => stat'[d] = stat[d],
           Books(conn'[c], stat'[c])
    PROVE  WsBooks'
<1>1. WsShape'
  BY DEF WsBooks, WsShape, Thread, Peer, ConnFields, PeerFields, Ws!Counters
<1>2. ASSUME NEW d \in Conns PROVE Books(conn[d], stat[d])'
  <2>1. Books(conn'[d], stat'[d])
    BY DEF WsBooks, Thread
  <2> QED  BY <2>1 DEF Books, Stays
<1> QED  BY <1>1, <1>2 DEF WsBooks

\* Nothing is counted, or some counters go up by one.
LEMMA Counted ==
    ASSUME WsShape, NEW c \in Conns, NEW ks,
           \/ ks = {} /\ stat' = stat
           \/ Ws!Count(c, ks)
    PROVE  /\ stat' \in [Conns -> [Ws!Counters -> Nat]]
           /\ \A d \in Conns : d # c => stat'[d] = stat[d]
           /\ \A k \in Ws!Counters : /\ stat[c][k] \in Nat
                                     /\ k \in ks => stat'[c][k] = stat[c][k] + 1
                                     /\ k \notin ks => stat'[c][k] = stat[c][k]
<1>1. stat \in [Conns -> [Ws!Counters -> Nat]]
  BY DEF WsShape
<1>2. CASE ks = {} /\ stat' = stat
  BY <1>1, <1>2
<1>3. CASE Ws!Count(c, ks)
  BY <1>1, <1>3, CountAdds
<1> QED  BY <1>2, <1>3

\* m is n with the counters of ks one higher; what the books need to know of a thread.
Adds(m, n, ks) == \A k \in Ws!Counters : /\ n[k] \in Nat
                                         /\ k \in ks => m[k] = n[k] + 1
                                         /\ k \notin ks => m[k] = n[k]
Place(pc, closes, byPeer) == [pc |-> pc, closes |-> closes, byPeer |-> byPeer]

\* The steps of a thread and of its peer keep the books.
LEMMA ThreadKeepsBooks ==
    ASSUME WsBooks, NEW c \in Conns, Ws!Alone(c) \/ Ws!WithPeer(c) \/ Ws!Server(c)
    PROVE  WsBooks'
<1> DEFINE r == conn[c]
           n == stat[c]
           p == peer[c]
<1>1. WsShape /\ Books(r, n)
  BY DEF WsBooks
<1>2. /\ \A to : Ws!GoTo(c, to) => Thread(c, to, r.seq, r.closes, r.byPeer, r.samples)
      /\ conn' = conn => Thread(c, r.pc, r.seq, r.closes, r.byPeer, r.samples)
  BY <1>1, ThreadGoes
<1>3. /\ peer' = peer => Peer(c, p.asked, p.inbox, p.noise)
      /\ Ws!Consume(c) => Peer(c, p.asked, Tail(p.inbox), p.noise)
  BY <1>1, PeerGives
<1> DEFINE Counts(ks) == \/ ks = {} /\ stat' = stat
                         \/ Ws!Count(c, ks)
           GoesTo(to) == Thread(c, to, r.seq, r.closes, r.byPeer, r.samples)
           PeerIs == \E asked, inbox, noise : Peer(c, asked, inbox, noise)
\* What remains to be shown of a step.
<1>4. ASSUME Stays, NEW pc, NEW closes, NEW byPeer, NEW samples, NEW seq,
             Thread(c, pc, seq, closes, byPeer, samples), PeerIs, NEW ks, Counts(ks),
             \A m : Adds(m, n, ks) => Books(Place(pc, closes, byPeer), m)
      PROVE WsBooks'
  <2>1. /\ stat' \in [Conns -> [Ws!Counters -> Nat]]
        /\ \A d \in Conns : d # c => stat'[d] = stat[d]
        /\ Adds(stat'[c], n, ks)
    BY <1>1, <1>4, Counted DEF Adds
  <2>2. Books(Place(pc, closes, byPeer), stat'[c])
    BY <1>4, <2>1
  <2>3. Books(conn'[c], stat'[c])
    BY <1>4, <2>2 DEF Books, Thread, ByPeer, Place
  <2> HIDE DEF Counts, n
  <2> QED  BY <1>4, <2>1, <2>3, OneThreadsBooks
<1> HIDE DEF Counts, PeerIs, n, r
<1>5. ASSUME NEW m, Adds(m, n, {}) PROVE Books(Place(r.pc, r.closes, r.byPeer), m)
  <2>1. \A k \in Ws!Counters : n[k] \in Nat /\ m[k] = n[k]
    BY <1>5 DEF Adds
  <2>2. Fatal(n) \in Int /\ Fatal(m) = Fatal(n) /\ m["completed"] = n["completed"]
    BY <2>1 DEF Fatal, Ws!Counters
  <2>3. /\ m["sent"] = n["sent"] /\ m["recv"] = n["recv"] /\ m["stalled"] = n["stalled"]
        /\ m["mismatch"] = n["mismatch"] /\ m["read"] = n["read"]
    BY <2>1 DEF Ws!Counters
  <2> QED  BY <1>1, <2>2, <2>3 DEF Books, ByPeer, Place
<1> DEFINE closes == IF r.closes = 0 THEN 1 ELSE r.closes
           to == IF backend = "ws_hold" THEN "left" ELSE "close"
           more == Append(r.samples, [of |-> Head(p.inbox).of, for |-> r.seq])
<1> USE DEF Stays, Ws!At, Ws!Running, Ws!Frame0, Ws!Receiving, Ws!InRecv
<1>6. CASE Ws!Start(c)
  <2>1. Stays /\ r.pc = "start" /\ PeerIs
    BY <1>2, <1>3, <1>6 DEF Ws!Start, PeerIs, r
  <2>2. GoesTo("tcp") /\ Counts({})
    BY <1>2, <1>6 DEF Ws!Start, Counts, r
  <2>3. ASSUME NEW m, Adds(m, n, {})
        PROVE Books(Place("tcp", r.closes, r.byPeer), m)
    <3>1. Fatal(n) \in Int /\ Fatal(m) = Fatal(n)
      BY <2>3 DEF Fatal, Adds, Ws!Counters
    <3> QED  BY <1>1, <2>1, <2>3, <3>1
           DEF Books, ByPeer, Working, Place, Adds, Ws!Counters
  <2> QED  BY <1>4, <2>1, <2>2, <2>3
<1>7. CASE Ws!Connected(c)
  <2>1. Stays /\ r.pc = "tcp" /\ PeerIs
    BY <1>2, <1>3, <1>7 DEF Ws!Connected, PeerIs, r
  <2>2. GoesTo("upgrade") /\ Counts({})
    BY <1>2, <1>7 DEF Ws!Connected, Counts, r
  <2>3. ASSUME NEW m, Adds(m, n, {})
        PROVE Books(Place("upgrade", r.closes, r.byPeer), m)
    <3>1. Fatal(n) \in Int /\ Fatal(m) = Fatal(n)
      BY <2>3 DEF Fatal, Adds, Ws!Counters
    <3> QED  BY <1>1, <2>1, <2>3, <3>1
           DEF Books, ByPeer, Working, Place, Adds, Ws!Counters
  <2> QED  BY <1>4, <2>1, <2>2, <2>3
<1>8. CASE Ws!ConnectFails(c)
  <2>1. Stays /\ r.pc = "tcp" /\ PeerIs
    BY <1>2, <1>3, <1>8 DEF Ws!ConnectFails, PeerIs, r
  <2>2. GoesTo("left") /\ Counts({"connect"})
    BY <1>2, <1>8 DEF Ws!ConnectFails, Counts, r
  <2>3. ASSUME NEW m, Adds(m, n, {"connect"})
        PROVE Books(Place("left", r.closes, r.byPeer), m)
    <3>1. Fatal(n) \in Int /\ Fatal(m) = Fatal(n) + 1
      BY <2>3 DEF Fatal, Adds, Ws!Counters
    <3> QED  BY <1>1, <2>1, <2>3, <3>1
           DEF Books, ByPeer, Working, Place, Adds, Ws!Counters
  <2> QED  BY <1>4, <2>1, <2>2, <2>3
<1>9. CASE Ws!Upgraded(c)
  <2>1. Stays /\ r.pc = "upgrade" /\ PeerIs
    BY <1>2, <1>3, <1>9 DEF Ws!Upgraded, PeerIs, r
  <2>2. GoesTo("loop") /\ Counts({})
    BY <1>2, <1>9 DEF Ws!Upgraded, Counts, r
  <2>3. ASSUME NEW m, Adds(m, n, {})
        PROVE Books(Place("loop", r.closes, r.byPeer), m)
    <3>1. Fatal(n) \in Int /\ Fatal(m) = Fatal(n)
      BY <2>3 DEF Fatal, Adds, Ws!Counters
    <3> QED  BY <1>1, <2>1, <2>3, <3>1
           DEF Books, ByPeer, Working, Place, Adds, Ws!Counters
  <2> QED  BY <1>4, <2>1, <2>2, <2>3
<1>10. CASE Ws!UpgradeRefused(c)
  <2>1. Stays /\ r.pc = "upgrade" /\ PeerIs
    BY <1>2, <1>3, <1>10 DEF Ws!UpgradeRefused, PeerIs, r
  <2>2. GoesTo("left") /\ Counts({"connect"})
    BY <1>2, <1>10 DEF Ws!UpgradeRefused, Counts, r
  <2>3. ASSUME NEW m, Adds(m, n, {"connect"})
        PROVE Books(Place("left", r.closes, r.byPeer), m)
    <3>1. Fatal(n) \in Int /\ Fatal(m) = Fatal(n) + 1
      BY <2>3 DEF Fatal, Adds, Ws!Counters
    <3> QED  BY <1>1, <2>1, <2>3, <3>1
           DEF Books, ByPeer, Working, Place, Adds, Ws!Counters
  <2> QED  BY <1>4, <2>1, <2>2, <2>3
<1>11. CASE Ws!BeginSend(c)
  <2>1. Stays /\ r.pc = "loop" /\ PeerIs
    BY <1>2, <1>3, <1>11, <1>1, ThreadsDo DEF Ws!BeginSend, PeerIs, r
  <2>2. Thread(c, "send", r.seq + 1, r.closes, r.byPeer, r.samples) /\ Counts({})
    BY <1>2, <1>11, <1>1, ThreadsDo DEF Ws!BeginSend, Counts, r
  <2>3. ASSUME NEW m, Adds(m, n, {})
        PROVE Books(Place("send", r.closes, r.byPeer), m)
    <3>1. Fatal(n) \in Int /\ Fatal(m) = Fatal(n)
      BY <2>3 DEF Fatal, Adds, Ws!Counters
    <3> QED  BY <1>1, <2>1, <2>3, <3>1
           DEF Books, ByPeer, Working, Place, Adds, Ws!Counters
  <2> QED  BY <1>4, <2>1, <2>2, <2>3
<1>12. CASE Ws!Sent(c)
  <2>1. Stays /\ r.pc = "send" /\ PeerIs
    BY <1>2, <1>3, <1>12, <1>1, PeersDo DEF Ws!Sent, PeerIs, r
  <2>2. \/ backend = "ws_echo" /\ GoesTo("await") /\ Counts({"sent"})
        \/ backend # "ws_echo" /\ GoesTo("loop") /\ Counts({"sent"})
    BY <1>2, <1>12, <1>1, PeersDo DEF Ws!Sent, Counts, r
  <2>3. CASE backend = "ws_echo" /\ GoesTo("await") /\ Counts({"sent"})
    <3>1. ASSUME NEW m, Adds(m, n, {"sent"})
          PROVE Books(Place("await", r.closes, r.byPeer), m)
      <4>1. Fatal(n) \in Int /\ Fatal(m) = Fatal(n)
        BY <3>1 DEF Fatal, Adds, Ws!Counters
      <4> QED  BY <1>1, <2>1, <2>3, <3>1, <4>1
             DEF Books, ByPeer, Working, Place, Adds, Ws!Counters
    <3> QED  BY <1>4, <2>1, <2>3, <3>1
  <2>4. CASE backend # "ws_echo" /\ GoesTo("loop") /\ Counts({"sent"})
    <3>1. ASSUME NEW m, Adds(m, n, {"sent"})
          PROVE Books(Place("loop", r.closes, r.byPeer), m)
      <4>1. Fatal(n) \in Int /\ Fatal(m) = Fatal(n)
        BY <3>1 DEF Fatal, Adds, Ws!Counters
      <4> QED  BY <1>1, <2>1, <2>4, <3>1, <4>1
             DEF Books, ByPeer, Working, Place, Adds, Ws!Counters
    <3> QED  BY <1>4, <2>1, <2>4, <3>1
  <2> QED  BY <2>2, <2>3, <2>4
<1>13. CASE Ws!SendFails(c)
  <2>1. Stays /\ r.pc = "send" /\ PeerIs
    BY <1>2, <1>3, <1>13 DEF Ws!SendFails, PeerIs, r
  <2>2. \/ backend = "ws_echo" /\ GoesTo("close") /\ Counts({"write"})
        \/ backend # "ws_echo" /\ GoesTo("left") /\ Counts({"write"})
    BY <1>2, <1>13 DEF Ws!SendFails, Counts, r
  <2>3. CASE backend = "ws_echo" /\ GoesTo("close") /\ Counts({"write"})
    <3>1. ASSUME NEW m, Adds(m, n, {"write"})
          PROVE Books(Place("close", r.closes, r.byPeer), m)
      <4>1. Fatal(n) \in Int /\ Fatal(m) = Fatal(n) + 1
        BY <3>1 DEF Fatal, Adds, Ws!Counters
      <4> QED  BY <1>1, <2>1, <2>3, <3>1, <4>1
             DEF Books, ByPeer, Working, Place, Adds, Ws!Counters
    <3> QED  BY <1>4, <2>1, <2>3, <3>1
  <2>4. CASE backend # "ws_echo" /\ GoesTo("left") /\ Counts({"write"})
    <3>1. ASSUME NEW m, Adds(m, n, {"write"})
          PROVE Books(Place("left", r.closes, r.byPeer), m)
      <4>1. Fatal(n) \in Int /\ Fatal(m) = Fatal(n) + 1
        BY <3>1 DEF Fatal, Adds, Ws!Counters
      <4> QED  BY <1>1, <2>1, <2>4, <3>1, <4>1
             DEF Books, ByPeer, Working, Place, Adds, Ws!Counters
    <3> QED  BY <1>4, <2>1, <2>4, <3>1
  <2> QED  BY <2>2, <2>3, <2>4
<1>14. CASE Ws!LoopEnds(c)
  <2>1. Stays /\ r.pc = "loop" /\ over # "no" /\ PeerIs
    BY <1>2, <1>3, <1>14 DEF Ws!LoopEnds, PeerIs, r
  <2>2. \/ GoesTo("close") /\ Counts({"completed"})
        \/ GoesTo("close") /\ Counts({"stalled"})
        \/ GoesTo("close") /\ Counts({})
    BY <1>2, <1>14 DEF Ws!LoopEnds, Counts, r
  <2>3. CASE GoesTo("close") /\ Counts({"completed"})
    <3>1. ASSUME NEW m, Adds(m, n, {"completed"})
          PROVE Books(Place("close", r.closes, r.byPeer), m)
      <4>1. Fatal(n) \in Int /\ Fatal(m) = Fatal(n)
        BY <3>1 DEF Fatal, Adds, Ws!Counters
      <4> QED  BY <1>1, <2>1, <2>3, <3>1, <4>1
             DEF Books, ByPeer, Working, Place, Adds, Ws!Counters
    <3> QED  BY <1>4, <2>1, <2>3, <3>1
  <2>4. CASE GoesTo("close") /\ Counts({"stalled"})
    <3>1. ASSUME NEW m, Adds(m, n, {"stalled"})
          PROVE Books(Place("close", r.closes, r.byPeer), m)
      <4>1. Fatal(n) \in Int /\ Fatal(m) = Fatal(n)
        BY <3>1 DEF Fatal, Adds, Ws!Counters
      <4> QED  BY <1>1, <2>1, <2>4, <3>1, <4>1
             DEF Books, ByPeer, Working, Place, Adds, Ws!Counters
    <3> QED  BY <1>4, <2>1, <2>4, <3>1
  <2>5. CASE GoesTo("close") /\ Counts({})
    <3>1. ASSUME NEW m, Adds(m, n, {})
          PROVE Books(Place("close", r.closes, r.byPeer), m)
      <4>1. Fatal(n) \in Int /\ Fatal(m) = Fatal(n)
        BY <3>1 DEF Fatal, Adds, Ws!Counters
      <4> QED  BY <1>1, <2>1, <2>5, <3>1, <4>1
             DEF Books, ByPeer, Working, Place, Adds, Ws!Counters
    <3> QED  BY <1>4, <2>1, <2>5, <3>1
  <2> QED  BY <2>2, <2>3, <2>4, <2>5
<1>15. CASE Ws!Close(c)
  <2>1. Stays /\ r.pc = "close" /\ PeerIs
    BY <1>2, <1>3, <1>15, <1>1, ThreadsDo DEF Ws!Close, PeerIs, r
  <2>2. Thread(c, "left", r.seq, closes, r.byPeer, r.samples) /\ Counts({})
    BY <1>2, <1>15, <1>1, ThreadsDo DEF Ws!Close, Counts, r
  <2>3. ASSUME NEW m, Adds(m, n, {})
        PROVE Books(Place("left", closes, r.byPeer), m)
    <3>1. Fatal(n) \in Int /\ Fatal(m) = Fatal(n)
      BY <2>3 DEF Fatal, Adds, Ws!Counters
    <3> QED  BY <1>1, <2>1, <2>3, <3>1
           DEF Books, ByPeer, Working, Place, Adds, Ws!Counters
  <2> QED  BY <1>4, <2>1, <2>2, <2>3
<1>16. CASE Ws!HandlePing(c) \/ Ws!PongSent(c) \/ Ws!HandleClose(c)
  <2>1. Stays /\ PeerIs
    BY <1>3, <1>16 DEF Ws!HandlePing, Ws!PongSent, Ws!HandleClose, PeerIs
  <2>2. GoesTo(r.pc) /\ Counts({})
    BY <1>1, <1>16, ThreadsDo DEF Ws!HandlePing, Ws!PongSent, Ws!HandleClose, Counts, r
  <2>3. ASSUME NEW m, Adds(m, n, {})
        PROVE Books(Place(r.pc, r.closes, r.byPeer), m)
    BY <1>5, <2>3
  <2> QED  BY <1>4, <2>1, <2>2, <2>3
<1>17. CASE Ws!CloseReplied(c)
  <2>1. Stays /\ r.pc \in {"loop", "await"} /\ PeerIs
    BY <1>2, <1>3, <1>17, <1>1, ThreadsDo DEF Ws!CloseReplied, PeerIs, r
  <2>2. \/ Thread(c, to, r.seq, closes, TRUE, r.samples) /\ Counts({"stalled"})
        \/ Thread(c, to, r.seq, closes, TRUE, r.samples) /\ Counts({})
    BY <1>2, <1>17, <1>1, ThreadsDo DEF Ws!CloseReplied, Counts, r
  <2>0. /\ to \in {"close", "left"} /\ closes = 1 /\ r.pc \in Working /\ Fatal(n) = 0
        /\ n["completed"] = 0 /\ n["stalled"] = 0
    BY <1>1, <2>1 DEF Books, Working
  <2> HIDE DEF to, closes
  <2>3. CASE Thread(c, to, r.seq, closes, TRUE, r.samples) /\ Counts({"stalled"})
    <3>1. ASSUME NEW m, Adds(m, n, {"stalled"})
          PROVE Books(Place(to, closes, TRUE), m)
      <4>1. Fatal(n) \in Int /\ Fatal(m) = Fatal(n)
        BY <3>1 DEF Fatal, Adds, Ws!Counters
      <4> QED  BY <1>1, <2>0, <2>3, <3>1, <4>1
             DEF Books, ByPeer, Working, Place, Adds, Ws!Counters
    <3> QED  BY <1>4, <2>1, <2>3, <3>1
  <2>4. CASE Thread(c, to, r.seq, closes, TRUE, r.samples) /\ Counts({})
    <3>1. ASSUME NEW m, Adds(m, n, {})
          PROVE Books(Place(to, closes, TRUE), m)
      <4>1. Fatal(n) \in Int /\ Fatal(m) = Fatal(n)
        BY <3>1 DEF Fatal, Adds, Ws!Counters
      <4> QED  BY <1>1, <2>0, <2>4, <3>1, <4>1
             DEF Books, ByPeer, Working, Place, Adds, Ws!Counters
    <3> QED  BY <1>4, <2>1, <2>4, <3>1
  <2> QED  BY <2>2, <2>3, <2>4
<1>18. CASE Ws!CountFrame(c)
  <2>1. Stays /\ r.pc = "loop" /\ backend # "ws_echo" /\ PeerIs
    BY <1>2, <1>3, <1>18 DEF Ws!CountFrame, PeerIs, r
  <2>2. \/ GoesTo(r.pc) /\ Counts({"recv"})
        \/ GoesTo(r.pc) /\ Counts({})
    BY <1>2, <1>18 DEF Ws!CountFrame, Counts, r
  <2>3. CASE GoesTo(r.pc) /\ Counts({"recv"})
    <3>1. ASSUME NEW m, Adds(m, n, {"recv"})
          PROVE Books(Place(r.pc, r.closes, r.byPeer), m)
      <4>1. Fatal(n) \in Int /\ Fatal(m) = Fatal(n)
        BY <3>1 DEF Fatal, Adds, Ws!Counters
      <4> QED  BY <1>1, <2>1, <2>3, <3>1, <4>1
             DEF Books, ByPeer, Working, Place, Adds, Ws!Counters
    <3> QED  BY <1>4, <2>1, <2>3, <3>1
  <2>4. CASE GoesTo(r.pc) /\ Counts({})
    <3>1. ASSUME NEW m, Adds(m, n, {})
          PROVE Books(Place(r.pc, r.closes, r.byPeer), m)
      BY <1>5, <3>1
    <3> QED  BY <1>4, <2>1, <2>4, <3>1
  <2> QED  BY <2>2, <2>3, <2>4
<1>19. CASE Ws!EchoMatches(c)
  <2>1. Stays /\ r.pc = "await" /\ PeerIs
    BY <1>2, <1>3, <1>19, <1>1, ThreadsDo DEF Ws!EchoMatches, PeerIs, r
  <2>2. Thread(c, "loop", r.seq, r.closes, r.byPeer, more) /\ Counts({"recv"})
    BY <1>2, <1>19, <1>1, ThreadsDo DEF Ws!EchoMatches, Counts, r
  <2>3. ASSUME NEW m, Adds(m, n, {"recv"})
        PROVE Books(Place("loop", r.closes, r.byPeer), m)
    <3>1. Fatal(n) \in Int /\ Fatal(m) = Fatal(n)
      BY <2>3 DEF Fatal, Adds, Ws!Counters
    <3>2. /\ n["sent"] \in Nat /\ n["recv"] \in Nat /\ n["mismatch"] \in Nat
          /\ m["sent"] = n["sent"] /\ m["recv"] = n["recv"] + 1
          /\ m["mismatch"] = n["mismatch"] /\ m["read"] = n["read"]
          /\ m["completed"] = n["completed"] /\ m["stalled"] = n["stalled"]
      BY <2>3 DEF Adds, Ws!Counters
    <3> QED  BY <1>1, <2>1, <3>1, <3>2 DEF Books, ByPeer, Working, Place
  <2> QED  BY <1>4, <2>1, <2>2, <2>3
<1>20. CASE Ws!EchoLooksOn(c)
  <2>1. Stays /\ r.pc = "await" /\ PeerIs
    BY <1>2, <1>3, <1>20, <1>1, ThreadsDo DEF Ws!EchoLooksOn, PeerIs, r
  <2>2. \/ GoesTo("loop") /\ Counts({"read", "mismatch"})
        \/ GoesTo("await") /\ Counts({})
    BY <1>2, <1>20, <1>1, ThreadsDo DEF Ws!EchoLooksOn, Counts, r
  <2>3. CASE GoesTo("loop") /\ Counts({"read", "mismatch"})
    <3>1. ASSUME NEW m, Adds(m, n, {"read", "mismatch"})
          PROVE Books(Place("loop", r.closes, r.byPeer), m)
      <4>1. /\ n["connect"] \in Nat /\ n["write"] \in Nat /\ n["read"] \in Nat
            /\ n["mismatch"] \in Nat /\ m["connect"] = n["connect"] /\ m["write"] = n["write"]
            /\ m["read"] = n["read"] + 1 /\ m["mismatch"] = n["mismatch"] + 1
        BY <3>1 DEF Adds, Ws!Counters
      <4>2. Fatal(n) \in Int /\ Fatal(m) = Fatal(n)
        BY <4>1 DEF Fatal
      <4> QED  BY <1>1, <2>1, <2>3, <3>1, <4>2
             DEF Books, ByPeer, Working, Place, Adds, Ws!Counters
    <3> QED  BY <1>4, <2>1, <2>3, <3>1
  <2>4. CASE GoesTo("await") /\ Counts({})
    <3>1. ASSUME NEW m, Adds(m, n, {})
          PROVE Books(Place("await", r.closes, r.byPeer), m)
      <4>1. Fatal(n) \in Int /\ Fatal(m) = Fatal(n)
        BY <3>1 DEF Fatal, Adds, Ws!Counters
      <4> QED  BY <1>1, <2>1, <2>4, <3>1, <4>1
             DEF Books, ByPeer, Working, Place, Adds, Ws!Counters
    <3> QED  BY <1>4, <2>1, <2>4, <3>1
  <2> QED  BY <2>2, <2>3, <2>4
<1>21. CASE Ws!EchoTimesOut(c)
  <2>1. Stays /\ r.pc = "await" /\ over # "no" /\ PeerIs
    BY <1>2, <1>3, <1>21 DEF Ws!EchoTimesOut, PeerIs, r
  <2>2. GoesTo("close") /\ Counts({})
    BY <1>2, <1>21 DEF Ws!EchoTimesOut, Counts, r
  <2>3. ASSUME NEW m, Adds(m, n, {})
        PROVE Books(Place("close", r.closes, r.byPeer), m)
    <3>1. Fatal(n) \in Int /\ Fatal(m) = Fatal(n)
      BY <2>3 DEF Fatal, Adds, Ws!Counters
    <3> QED  BY <1>1, <2>1, <2>3, <3>1
           DEF Books, ByPeer, Working, Place, Adds, Ws!Counters
  <2> QED  BY <1>4, <2>1, <2>2, <2>3
<1>22. CASE Ws!RecvFails(c) \/ Ws!PongFails(c)
  <2>1. Stays /\ PeerIs
    BY <1>3, <1>22 DEF Ws!RecvFails, Ws!PongFails, PeerIs
  <2>2. \/ backend = "ws_echo" /\ r.pc = "await" /\ GoesTo("close") /\ Counts({"read"})
        \/ backend # "ws_echo" /\ r.pc = "loop" /\ GoesTo("left") /\ Counts({"read"})
    <3>1. CASE Ws!RecvFails(c)
      BY <1>2, <3>1 DEF Ws!RecvFails, Counts, r
    <3>2. CASE Ws!PongFails(c)
      BY <1>1, <3>2, ThreadsDo DEF Ws!PongFails, Counts, r
    <3> QED  BY <1>22, <3>1, <3>2
  <2>3. CASE backend = "ws_echo" /\ r.pc = "await" /\ GoesTo("close") /\ Counts({"read"})
    <3>1. ASSUME NEW m, Adds(m, n, {"read"})
          PROVE Books(Place("close", r.closes, r.byPeer), m)
      <4>1. Fatal(n) \in Int /\ Fatal(m) = Fatal(n) + 1
        BY <3>1 DEF Fatal, Adds, Ws!Counters
      <4> QED  BY <1>1, <2>1, <2>3, <3>1, <4>1
             DEF Books, ByPeer, Working, Place, Adds, Ws!Counters
    <3> QED  BY <1>4, <2>1, <2>3, <3>1
  <2>4. CASE backend # "ws_echo" /\ r.pc = "loop" /\ GoesTo("left") /\ Counts({"read"})
    <3>1. ASSUME NEW m, Adds(m, n, {"read"})
          PROVE Books(Place("left", r.closes, r.byPeer), m)
      <4>1. Fatal(n) \in Int /\ Fatal(m) = Fatal(n) + 1
        BY <3>1 DEF Fatal, Adds, Ws!Counters
      <4> QED  BY <1>1, <2>1, <2>4, <3>1, <4>1
             DEF Books, ByPeer, Working, Place, Adds, Ws!Counters
    <3> QED  BY <1>4, <2>1, <2>4, <3>1
  <2> QED  BY <2>2, <2>3, <2>4
<1>23. CASE Ws!Server(c)
  <2>1. Stays /\ PeerIs
    BY <1>2, <1>3, <1>23, <1>1, PeersDo
       DEF Ws!Server, Ws!Answer, Ws!Unasked, Ws!HangUp, Ws!Open, PeerIs, r
  <2>2. GoesTo(r.pc) /\ Counts({})
    BY <1>2, <1>23, <1>1, PeersDo
       DEF Ws!Server, Ws!Answer, Ws!Unasked, Ws!HangUp, Ws!Open, Counts, r
  <2>3. ASSUME NEW m, Adds(m, n, {})
        PROVE Books(Place(r.pc, r.closes, r.byPeer), m)
    BY <1>5, <2>3
  <2> QED  BY <1>4, <2>1, <2>2, <2>3
<1> QED
  BY <1>6, <1>7, <1>8, <1>9, <1>10, <1>11, <1>12, <1>13, <1>14, <1>15, <1>16,
     <1>17, <1>18, <1>19, <1>20, <1>21, <1>22, <1>23
     DEF Ws!Alone, Ws!WithPeer

-----------------------------------------------------------------------------
(* The round trips of a WebSocket echo. *)

Timings == [of : Nat, for : Nat]
Timed(samples) == \A i \in DOMAIN samples : samples[i].of = samples[i].for
OnlyCloses(q) == \A j \in DOMAIN q : q[j].kind = "Close"
OneAnswer(q, m) ==
    \E i \in DOMAIN q : q[i].of = m /\ \A j \in DOMAIN q : j # i => q[j].kind = "Close"

\* Before a message is out, and before the next one.
Before == {"start", "tcp", "upgrade", "loop", "send"}

\* What is to come for an echo thread while the server only answers: nothing but a
\* close frame, or the answer to the message it waits for.
ToCome(pc, seq, asked, inbox) ==
    /\ pc \in Before => asked = {} /\ OnlyCloses(inbox)
    /\ pc = "await" => \/ asked \in {{}, {seq}} /\ OnlyCloses(inbox)
                       \/ asked = {} /\ OneAnswer(inbox, seq)

\* A thread at pc has timed the samples, with strategy f.  Nothing is timed before
\* the strategy is chosen.
Echoes(f, pc, seq, samples, asked, inbox, noise) ==
    /\ seq \in Nat /\ asked \subseteq Nat /\ inbox \in Seq(Frames) /\ noise \in Nat
    /\ samples \in Seq(Timings)
    /\ f = "unset" => pc = "start" /\ samples = <<>>
    /\ noise = 0 /\ backend = "ws_echo" => ToCome(pc, seq, asked, inbox)
    /\ backend = "ws_echo" /\ (f = "MonotonicIdPrepend" \/ noise = 0) => Timed(samples)

EchoesOf(f, r, p) == Echoes(f, r.pc, r.seq, r.samples, p.asked, p.inbox, p.noise)

\* The inductive invariant of the round trips.
WsEchoes == WsShape /\ \A c \in Conns : EchoesOf(flavour, conn[c], peer[c])

\* A frame is taken from among close frames and at most one answer.
LEMMA TakeFrame ==
    ASSUME NEW q \in Seq(Frames), q # <<>>, NEW m
    PROVE  /\ Tail(q) \in Seq(Frames) /\ Head(q).of \in Nat
           /\ OnlyCloses(q) => Head(q).kind = "Close" /\ OnlyCloses(Tail(q))
           /\ OneAnswer(q, m) => \/ Head(q).kind = "Close" /\ OneAnswer(Tail(q), m)
                                 \/ Head(q).of = m /\ OnlyCloses(Tail(q))
<1> DEFINE rest == Tail(q)
<1>1. /\ Len(q) \in Nat \ {0} /\ DOMAIN q = 1..Len(q) /\ Head(q) = q[1] /\ q[1] \in Frames
      /\ rest \in Seq(Frames) /\ Len(rest) = Len(q) - 1 /\ DOMAIN rest = 1..Len(q) - 1
      /\ \A j \in 1..Len(q) - 1 : rest[j] = q[j + 1]
  OBVIOUS
<1>2. \A j \in DOMAIN rest : j + 1 \in DOMAIN q /\ j + 1 # 1 /\ rest[j] = q[j + 1]
  BY <1>1
<1>3. \A j \in DOMAIN q : j = 1 \/ (j - 1 \in DOMAIN rest /\ rest[j - 1] = q[j])
  BY <1>1
<1> HIDE DEF rest
<1>4. OnlyCloses(q) => Head(q).kind = "Close" /\ OnlyCloses(rest)
  <2>1. 1 \in DOMAIN q
    BY <1>1
  <2> QED  BY <1>1, <1>2, <2>1 DEF OnlyCloses
<1>5. ASSUME OneAnswer(q, m)
      PROVE \/ Head(q).kind = "Close" /\ OneAnswer(rest, m)
            \/ Head(q).of = m /\ OnlyCloses(rest)
  <2>1. PICK i \in DOMAIN q :
          q[i].of = m /\ \A j \in DOMAIN q : j # i => q[j].kind = "Close"
    BY <1>5 DEF OneAnswer
  <2>2. CASE i = 1
    <3>1. OnlyCloses(rest)
      BY <1>2, <2>1, <2>2 DEF OnlyCloses
    <3> QED  BY <1>1, <2>1, <2>2, <3>1
  <2>3. CASE i # 1
    <3>1. 1 \in DOMAIN q /\ Head(q).kind = "Close"
      BY <1>1, <2>1, <2>3
    <3>2. i - 1 \in DOMAIN rest /\ rest[i - 1] = q[i]
      BY <1>3, <2>3
    <3>3. \A j \in DOMAIN rest : j # i - 1 => rest[j].kind = "Close"
      <4> SUFFICES ASSUME NEW j \in DOMAIN rest, j # i - 1 PROVE rest[j].kind = "Close"
        OBVIOUS
      <4>1. j \in Int /\ i \in Int
        BY <1>1
      <4>2. j + 1 # i
        BY <4>1
      <4> QED  BY <1>2, <2>1, <4>2
    <3> QED  BY <2>1, <3>1, <3>2, <3>3 DEF OneAnswer
  <2> QED  BY <2>2, <2>3
<1>6. Head(q).of \in Nat
  BY <1>1 DEF Frames
<1> QED  BY <1>1, <1>4, <1>5, <1>6 DEF rest

\* A frame arrives.
LEMMA PutFrame ==
    ASSUME NEW q \in Seq(Frames), NEW f \in Frames, NEW m
    PROVE  /\ Append(q, f) \in Seq(Frames)
           /\ OnlyCloses(q) => OneAnswer(Append(q, f), f.of)
           /\ f.kind = "Close" => /\ OnlyCloses(q) => OnlyCloses(Append(q, f))
                                  /\ OneAnswer(q, m) => OneAnswer(Append(q, f), m)
<1> DEFINE all == Append(q, f)
           L == Len(q)
<1>1. /\ L \in Nat /\ DOMAIN q = 1..L /\ all \in Seq(Frames) /\ DOMAIN all = 1..L + 1
      /\ all[L + 1] = f /\ \A j \in 1..L : all[j] = q[j]
  BY AppendProperties
<1>2. /\ L + 1 \in DOMAIN all
      /\ \A j \in DOMAIN q : j \in DOMAIN all /\ j # L + 1 /\ all[j] = q[j]
      /\ \A j \in DOMAIN all : j # L + 1 => j \in DOMAIN q
  BY <1>1
<1> HIDE DEF all, L
<1>3. OnlyCloses(q) => OneAnswer(all, f.of)
  BY <1>1, <1>2 DEF OnlyCloses, OneAnswer
<1>4. ASSUME f.kind = "Close", OnlyCloses(q) PROVE OnlyCloses(all)
  BY <1>1, <1>2, <1>4 DEF OnlyCloses
<1>5. ASSUME f.kind = "Close", OneAnswer(q, m) PROVE OneAnswer(all, m)
  <2>1. PICK i \in DOMAIN q :
          q[i].of = m /\ \A j \in DOMAIN q : j # i => q[j].kind = "Close"
    BY <1>5 DEF OneAnswer
  <2>2. i \in DOMAIN all /\ all[i].of = m
    BY <1>2, <2>1
  <2>3. \A j \in DOMAIN all : j # i => all[j].kind = "Close"
    BY <1>1, <1>2, <1>5, <2>1
  <2> QED  BY <2>2, <2>3 DEF OneAnswer
<1> QED  BY <1>1, <1>3, <1>4, <1>5 DEF all

\* A thread moves on, or its peer does: the others stay as they are.
LEMMA OneThreadsEchoes ==
    ASSUME WsEchoes, Stays, flavour' = flavour \/ flavour = "unset",
           NEW c \in Conns, NEW pc, NEW seq, NEW closes, NEW byPeer, NEW samples,
           Thread(c, pc, seq, closes, byPeer, samples),
           NEW asked, NEW inbox, NEW noise, Peer(c, asked, inbox, noise),
           stat' \in [Conns -> [Ws!Counters -> Nat]],
           Echoes(flavour', pc, seq, samples, asked, inbox, noise)
    PROVE  WsEchoes'
<1>1. WsShape'
  BY DEF WsEchoes, WsShape, Thread, Peer, ConnFields, PeerFields, Ws!Counters
<1>2. ASSUME NEW d \in Conns PROVE EchoesOf(flavour', conn'[d], peer'[d])
  <2>1. CASE d = c
    BY <2>1 DEF Thread, Peer, EchoesOf
  <2>2. CASE d # c
    <3>1. conn'[d] = conn[d] /\ peer'[d] = peer[d]
      BY <2>2 DEF Thread, Peer
    <3>2. EchoesOf(flavour, conn[d], peer[d])
      BY DEF WsEchoes
    <3>3. Timed(<<>>)
      BY DEF Timed
    <3> QED  BY <3>1, <3>2, <3>3 DEF EchoesOf, Echoes
  <2> QED  BY <2>1, <2>2
<1>3. \A d \in Conns : EchoesOf(flavour, conn[d], peer[d])'
  BY <1>2 DEF EchoesOf, Echoes, Stays
<1> QED  BY <1>1, <1>3 DEF WsEchoes

\* The steps of a thread and of its peer keep the round trips apart.
LEMMA ThreadKeepsEchoes ==
    ASSUME WsEchoes, NEW c \in Conns, Ws!Alone(c) \/ Ws!WithPeer(c) \/ Ws!Server(c)
    PROVE  WsEchoes'
<1> DEFINE r == conn[c]
           p == peer[c]
           Rest == Tail(p.inbox)
           GoesTo(to) == Thread(c, to, r.seq, r.closes, r.byPeer, r.samples)
           CountsHold == stat' \in [Conns -> [Ws!Counters -> Nat]]
<1>1. WsShape /\ Echoes(flavour, r.pc, r.seq, r.samples, p.asked, p.inbox, p.noise)
  BY DEF WsEchoes, EchoesOf
<1>2. \A to : Ws!GoTo(c, to) => GoesTo(to)
  BY <1>1, ThreadGoes
<1>3. conn' = conn => GoesTo(r.pc)
  BY <1>1, ThreadGoes
<1>4. /\ peer' = peer => Peer(c, p.asked, p.inbox, p.noise)
      /\ Ws!Consume(c) => Peer(c, p.asked, Rest, p.noise)
  BY <1>1, PeerGives
<1>5. /\ \A ks : Ws!Count(c, ks) => CountsHold
      /\ stat' = stat => CountsHold
  BY <1>1, CountAdds DEF WsShape
<1> USE DEF Ws!Running, Ws!At, Ws!Frame0, Ws!Receiving, Ws!InRecv
<1>6. Stays /\ CountsHold /\ (flavour' = flavour \/ Ws!Start(c))
  <2>1. /\ Stays /\ (flavour' = flavour \/ Ws!Start(c))
        /\ (\E ks : Ws!Count(c, ks)) \/ stat' = stat
    BY DEF Stays, Ws!Alone, Ws!WithPeer, Ws!Server, Ws!Start, Ws!Connected, Ws!ConnectFails,
       Ws!BeginSend, Ws!LoopEnds, Ws!HandlePing, Ws!PongSent, Ws!PongFails,
       Ws!HandleClose, Ws!CloseReplied, Ws!CountFrame,
       Ws!EchoMatches, Ws!EchoLooksOn, Ws!EchoTimesOut, Ws!RecvFails, Ws!Upgraded,
       Ws!UpgradeRefused, Ws!Sent, Ws!SendFails, Ws!Close, Ws!Answer, Ws!Unasked, Ws!HangUp
  <2> QED  BY <1>5, <2>1
<1> HIDE DEF r, p, Rest, CountsHold
\* What remains to be shown of a step.
<1>7. ASSUME flavour' = flavour \/ flavour = "unset",
             NEW pc, NEW seq, NEW closes, NEW byPeer, NEW samples,
             Thread(c, pc, seq, closes, byPeer, samples),
             NEW asked, NEW inbox, NEW noise, Peer(c, asked, inbox, noise),
             Echoes(flavour', pc, seq, samples, asked, inbox, noise)
      PROVE WsEchoes'
  BY <1>6, <1>7, OneThreadsEchoes DEF CountsHold
\* A step to where nothing is awaited, without the peer.
<1>8. ASSUME flavour' = flavour, r.pc # "start", peer' = peer, NEW to, GoesTo(to),
             to \in {"close", "left"} \/ (r.pc \in Before /\ to \in Before)
      PROVE WsEchoes'
  <2>1. Echoes(flavour', to, r.seq, r.samples, p.asked, p.inbox, p.noise)
    BY <1>1, <1>8 DEF Echoes, ToCome, Before
  <2> QED  BY <1>4, <1>7, <1>8, <2>1
<1>9. CASE Ws!Start(c)
  <2>1. /\ r.pc = "start" /\ peer' = peer /\ Ws!GoTo(c, "tcp")
        /\ flavour' = flavour \/ flavour = "unset"
        /\ flavour' # "unset"
    BY <1>9 DEF Ws!Start, Ws!Kinds, Ws!Flavours, r
  <2>2. Timed(<<>>)
    BY DEF Timed
  <2>3. Echoes(flavour', "tcp", r.seq, r.samples, p.asked, p.inbox, p.noise)
    BY <1>1, <2>1, <2>2 DEF Echoes, ToCome, Before
  <2> QED  BY <1>2, <1>4, <1>7, <2>1, <2>3
<1>10. CASE Ws!Connected(c) \/ Ws!ConnectFails(c) \/ Ws!Upgraded(c) \/ Ws!UpgradeRefused(c)
  <2>1. /\ flavour' = flavour /\ r.pc \in {"tcp", "upgrade"} /\ peer' = peer
        /\ \E to \in {"upgrade", "loop", "left"} : GoesTo(to)
    BY <1>2, <1>10 DEF Ws!Connected, Ws!ConnectFails, Ws!Upgraded, Ws!UpgradeRefused, r
  <2> QED  BY <1>8, <2>1 DEF Before
<1>11. CASE Ws!SendFails(c) \/ Ws!LoopEnds(c) \/ Ws!EchoTimesOut(c) \/ Ws!RecvFails(c)
        \/ Ws!PongFails(c)
  <2>1. /\ flavour' = flavour /\ r.pc # "start" /\ peer' = peer
        /\ \E to \in {"close", "left"} : GoesTo(to)
    <3>1. CASE Ws!PongFails(c)
      BY <1>1, <3>1, ThreadsDo DEF Ws!PongFails, r
    <3> QED  BY <1>2, <1>11, <3>1
             DEF Ws!SendFails, Ws!LoopEnds, Ws!EchoTimesOut, Ws!RecvFails, r
  <2> QED  BY <1>8, <2>1
<1>12. CASE Ws!Close(c)
  <2>1. /\ flavour' = flavour /\ r.pc # "start" /\ peer' = peer
        /\ \E closes : Thread(c, "left", r.seq, closes, r.byPeer, r.samples)
    BY <1>1, <1>12, ThreadsDo DEF Ws!Close, r
  <2>2. Echoes(flavour', "left", r.seq, r.samples, p.asked, p.inbox, p.noise)
    BY <1>1, <2>1 DEF Echoes, ToCome, Before
  <2> QED  BY <1>4, <1>7, <2>1, <2>2
<1>13. CASE Ws!BeginSend(c)
  <2>1. /\ flavour' = flavour /\ r.pc = "loop" /\ peer' = peer
        /\ Thread(c, "send", r.seq + 1, r.closes, r.byPeer, r.samples)
    BY <1>1, <1>13, ThreadsDo DEF Ws!BeginSend, r
  <2>2. Echoes(flavour', "send", r.seq + 1, r.samples, p.asked, p.inbox, p.noise)
    BY <1>1, <2>1 DEF Echoes, ToCome, Before
  <2> QED  BY <1>4, <1>7, <2>1, <2>2
<1>14. CASE Ws!Sent(c)
  <2>1. /\ flavour' = flavour /\ r.pc = "send"
        /\ Peer(c, p.asked \cup {r.seq}, p.inbox, p.noise)
        /\ \/ backend = "ws_echo" /\ GoesTo("await")
           \/ backend # "ws_echo" /\ GoesTo("loop")
    BY <1>1, <1>2, <1>14, PeersDo DEF Ws!Sent, r, p
  <2>2. \A to : (to = "await" \/ (to = "loop" /\ backend # "ws_echo")) =>
          Echoes(flavour', to, r.seq, r.samples, p.asked \cup {r.seq}, p.inbox, p.noise)
    <3>1. ToCome("send", r.seq, p.asked, p.inbox) =>
            ToCome("await", r.seq, p.asked \cup {r.seq}, p.inbox)
      BY DEF ToCome, Before
    <3> QED  BY <1>1, <2>1, <3>1 DEF Echoes
  <2> QED  BY <1>7, <2>1, <2>2
<1>15. CASE Ws!HandlePing(c) \/ Ws!HandleClose(c) \/ Ws!CountFrame(c)
  <2>1. /\ flavour' = flavour /\ r.pc \in {"loop", "await"} /\ GoesTo(r.pc)
        /\ Peer(c, p.asked, Rest, p.noise) /\ p.inbox # <<>>
        /\ backend = "ws_echo" => r.pc = "await"
    <3>1. CASE Ws!HandlePing(c) \/ Ws!HandleClose(c)
      BY <1>1, <1>4, <3>1, ThreadsDo DEF Ws!HandlePing, Ws!HandleClose, r, p
    <3> QED  BY <1>3, <1>4, <1>15, <3>1 DEF Ws!CountFrame, r, p
  <2>2. p.inbox \in Seq(Frames)
    BY <1>1 DEF Echoes
  <2>3. /\ Rest \in Seq(Frames)
        /\ OnlyCloses(p.inbox) => OnlyCloses(Rest)
        /\ OneAnswer(p.inbox, r.seq) => OneAnswer(Rest, r.seq) \/ OnlyCloses(Rest)
    BY <2>1, <2>2, TakeFrame DEF Rest
  <2>4. Echoes(flavour', r.pc, r.seq, r.samples, p.asked, Rest, p.noise)
    BY <1>1, <2>1, <2>3 DEF Echoes, ToCome, Before
  <2> QED  BY <1>7, <2>1, <2>4
<1>16. CASE Ws!PongSent(c) \/ Ws!CloseReplied(c)
  <2>1. /\ flavour' = flavour /\ r.pc # "start" /\ peer' = peer
        /\ \E to \in {r.pc, "close", "left"} : \E closes, byPeer :
             Thread(c, to, r.seq, closes, byPeer, r.samples)
    BY <1>1, <1>16, ThreadsDo DEF Ws!PongSent, Ws!CloseReplied, r
  <2>2. \A to \in {r.pc, "close", "left"} :
          Echoes(flavour', to, r.seq, r.samples, p.asked, p.inbox, p.noise)
    BY <1>1, <2>1 DEF Echoes, ToCome, Before
  <2> QED  BY <1>4, <1>7, <2>1, <2>2
<1> DEFINE f == Head(p.inbox)
\* Without noise the frame that is not a close is the answer, and nothing follows it.
<1>17. ASSUME p.inbox # <<>>, f.kind \in {"Text", "Pong"}, r.pc = "await"
       PROVE  /\ Rest \in Seq(Frames) /\ f.of \in Nat
              /\ p.noise = 0 /\ backend = "ws_echo" =>
                   p.asked = {} /\ f.of = r.seq /\ OnlyCloses(Rest)
  <2>1. p.inbox \in Seq(Frames) /\ f.kind # "Close"
    BY <1>1, <1>17 DEF Echoes
  <2> HIDE DEF f
  <2>2. /\ Rest \in Seq(Frames) /\ f.of \in Nat
        /\ ~OnlyCloses(p.inbox)
        /\ OneAnswer(p.inbox, r.seq) => f.of = r.seq /\ OnlyCloses(Rest)
    BY <1>17, <2>1, TakeFrame DEF Rest, f
  <2> QED  BY <1>1, <1>17, <2>2 DEF Echoes, ToCome
<1>18. CASE Ws!EchoMatches(c)
  <2> DEFINE e == [of |-> f.of, for |-> r.seq]
  <2>1. /\ flavour' = flavour /\ r.pc = "await" /\ backend = "ws_echo"
        /\ p.inbox # <<>> /\ f.kind \in {"Text", "Pong"}
        /\ flavour = "MonotonicIdPrepend" => f.of = r.seq
        /\ Peer(c, p.asked, Rest, p.noise)
        /\ Thread(c, "loop", r.seq, r.closes, r.byPeer, Append(r.samples, e))
    BY <1>1, <1>4, <1>18, ThreadsDo DEF Ws!EchoMatches, Ws!Matches, Ws!Next1, r, p
  <2>2. /\ Rest \in Seq(Frames) /\ f.of \in Nat
        /\ p.noise = 0 => p.asked = {} /\ f.of = r.seq /\ OnlyCloses(Rest)
    BY <1>17, <2>1
  <2>3. r.seq \in Nat /\ r.samples \in Seq(Timings)
    BY <1>1 DEF Echoes
  <2>4. e \in Timings
    BY <2>2, <2>3 DEF Timings
  <2>5. Append(r.samples, e) \in Seq(Timings)
    BY <2>3, <2>4
  <2>6. Timed(r.samples) /\ f.of = r.seq => Timed(Append(r.samples, e))
    <3>1. ASSUME NEW i \in DOMAIN Append(r.samples, e)
          PROVE \/ Append(r.samples, e)[i] = e
                \/ i \in DOMAIN r.samples /\ Append(r.samples, e)[i] = r.samples[i]
      BY <2>3, <2>4
    <3> QED  BY <3>1 DEF Timed
  <2> HIDE DEF e, f
  <2>7. Echoes(flavour', "loop", r.seq, Append(r.samples, e), p.asked, Rest, p.noise)
    BY <1>1, <2>1, <2>2, <2>5, <2>6 DEF Echoes, ToCome, Before
  <2> QED  BY <1>7, <2>1, <2>7
<1>19. CASE Ws!EchoLooksOn(c)
  <2>1. /\ flavour' = flavour /\ r.pc = "await" /\ backend = "ws_echo"
        /\ p.inbox # <<>> /\ f.kind \in {"Text", "Pong"}
        /\ Peer(c, p.asked, Rest, p.noise)
        /\ \E to \in {"loop", "await"} : GoesTo(to)
    BY <1>1, <1>4, <1>19, ThreadsDo DEF Ws!EchoLooksOn, Ws!Next1, r, p
  <2>2. /\ Rest \in Seq(Frames)
        /\ p.noise = 0 => p.asked = {} /\ OnlyCloses(Rest)
    BY <1>17, <2>1
  <2>3. \A to \in {"loop", "await"} :
          Echoes(flavour', to, r.seq, r.samples, p.asked, Rest, p.noise)
    BY <1>1, <2>1, <2>2 DEF Echoes, ToCome, Before
  <2> QED  BY <1>7, <2>1, <2>3
<1>20. CASE Ws!Answer(c)
  <2>1. /\ flavour' = flavour /\ r.pc \in {"loop", "send", "await"} /\ GoesTo(r.pc)
        /\ \E m \in p.asked, kind \in {"Pong", "Text"} :
             Peer(c, p.asked \ {m}, Append(p.inbox, [kind |-> kind, of |-> m]), p.noise)
    BY <1>1, <1>3, <1>20, PeersDo DEF Ws!Answer, Ws!Open, r, p
  <2>2. PICK m \in p.asked, kind \in {"Pong", "Text"} :
          Peer(c, p.asked \ {m}, Append(p.inbox, [kind |-> kind, of |-> m]), p.noise)
    BY <2>1
  <2> DEFINE a == [kind |-> kind, of |-> m]
  <2>3. p.inbox \in Seq(Frames) /\ a \in Frames /\ a.of = m
    BY <1>1 DEF Echoes, Frames
  <2> HIDE DEF a
  <2>4. /\ Append(p.inbox, a) \in Seq(Frames)
        /\ OnlyCloses(p.inbox) => OneAnswer(Append(p.inbox, a), m)
    BY <2>3, PutFrame
  <2>5. p.noise = 0 /\ backend = "ws_echo" =>
          r.pc = "await" /\ m = r.seq /\ p.asked = {m} /\ OnlyCloses(p.inbox)
    BY <1>1, <2>1 DEF Echoes, ToCome, Before
  <2>6. Echoes(flavour', r.pc, r.seq, r.samples, p.asked \ {m}, Append(p.inbox, a), p.noise)
    BY <1>1, <2>1, <2>4, <2>5 DEF Echoes, ToCome, Before
  <2> QED  BY <1>7, <2>1, <2>2, <2>6 DEF a
<1>21. CASE Ws!Unasked(c)
  <2>1. /\ flavour' = flavour /\ r.pc # "start" /\ GoesTo(r.pc)
        /\ \E q : /\ Peer(c, p.asked, q, p.noise + 1)
                  /\ p.inbox \in Seq(Frames) => q \in Seq(Frames)
    BY <1>1, <1>3, <1>21, PeersDo DEF Ws!Unasked, Ws!Open, r, p
  <2>2. \A q : q \in Seq(Frames) =>
          Echoes(flavour', r.pc, r.seq, r.samples, p.asked, q, p.noise + 1)
    BY <1>1, <2>1 DEF Echoes
  <2>3. p.inbox \in Seq(Frames)
    BY <1>1 DEF Echoes
  <2> QED  BY <1>7, <2>1, <2>2, <2>3
<1>22. CASE Ws!HangUp(c)
  <2> DEFINE bye == [kind |-> "Close", of |-> 0]
  <2>1. /\ flavour' = flavour /\ r.pc # "start" /\ GoesTo(r.pc)
        /\ \E farewell \in {<<>>, <<bye>>} : Peer(c, p.asked, p.inbox \o farewell, p.noise)
    BY <1>1, <1>3, <1>22, PeersDo DEF Ws!HangUp, Ws!Open, r, p
  <2>2. p.inbox \in Seq(Frames) /\ bye \in Frames /\ bye.kind = "Close"
    BY <1>1 DEF Echoes, Frames
  <2> HIDE DEF bye
  <2>3. p.inbox \o <<>> = p.inbox /\ p.inbox \o <<bye>> = Append(p.inbox, bye)
    BY <2>2
  <2>4. \E q \in {p.inbox, Append(p.inbox, bye)} : Peer(c, p.asked, q, p.noise)
    BY <2>1, <2>3
  <2>5. /\ Append(p.inbox, bye) \in Seq(Frames)
        /\ OnlyCloses(p.inbox) => OnlyCloses(Append(p.inbox, bye))
        /\ OneAnswer(p.inbox, r.seq) => OneAnswer(Append(p.inbox, bye), r.seq)
    BY <2>2, PutFrame
  <2>6. \A q \in {p.inbox, Append(p.inbox, bye)} :
          Echoes(flavour', r.pc, r.seq, r.samples, p.asked, q, p.noise)
    BY <1>1, <2>1, <2>5 DEF Echoes, ToCome
  <2> QED  BY <1>7, <2>1, <2>4, <2>6
<1> QED
  BY <1>9, <1>10, <1>11, <1>12, <1>13, <1>14, <1>15, <1>16, <1>18, <1>19, <1>20, <1>21,
     <1>22 DEF Ws!Alone, Ws!WithPeer, Ws!Server

-----------------------------------------------------------------------------
(* The WebSocket theorems. *)

\* The threads start with nothing counted, asked or timed.
LEMMA WsStarts == Init => WsBooks /\ WsEchoes
<1> SUFFICES ASSUME Init PROVE WsBooks /\ WsEchoes
  OBVIOUS
<1> DEFINE r == [pc |-> "start", seq |-> 0, looked |-> 0, closes |-> 0, byPeer |-> FALSE,
                 samples |-> <<>>, owes |-> "nothing"]
           p == [asked |-> {}, inbox |-> <<>>, noise |-> 0, gone |-> FALSE]
           n == [k \in Ws!Counters |-> 0]
<1>1. /\ flavour = "unset" /\ conn = [c \in Conns |-> r] /\ peer = [c \in Conns |-> p]
      /\ stat = [c \in Conns |-> n]
  BY DEF Init, RunOneProtocol, Ws!WsInit
<1>2. /\ DOMAIN r = ConnFields /\ DOMAIN p = PeerFields /\ n \in [Ws!Counters -> Nat]
      /\ r.pc = "start" /\ r.seq = 0 /\ r.closes = 0 /\ r.byPeer = FALSE /\ r.samples = <<>>
      /\ p.asked = {} /\ p.inbox = <<>> /\ p.noise = 0
  BY DEF ConnFields, PeerFields
<1>3. \A k \in Ws!Counters : n[k] = 0
  OBVIOUS
<1> HIDE DEF r, p, n
<1>4. WsShape
  BY <1>1, <1>2 DEF WsShape
<1>5. Books(r, n)
  <2>1. /\ n["sent"] = 0 /\ n["recv"] = 0 /\ n["mismatch"] = 0 /\ n["connect"] = 0
        /\ n["read"] = 0 /\ n["write"] = 0 /\ n["stalled"] = 0 /\ n["completed"] = 0
    BY <1>3 DEF Ws!Counters
  <2>2. Fatal(n) = 0
    BY <2>1 DEF Fatal
  <2>3. /\ r.pc \in Working /\ r.pc # "await" /\ r.closes = 0
        /\ ByPeer(r) = 0 /\ r.byPeer \in BOOLEAN /\ ~r.byPeer
    BY <1>2 DEF ByPeer, Working
  <2> QED  BY <2>1, <2>2, <2>3 DEF Books
<1>6. EchoesOf("unset", r, p)
  <2>1. Timed(<<>>) /\ OnlyCloses(<<>>)
    BY DEF Timed, OnlyCloses
  <2> QED  BY <1>2, <2>1 DEF EchoesOf, Echoes, ToCome, Before
<1> QED  BY <1>1, <1>4, <1>5, <1>6 DEF WsBooks, WsEchoes

\* A step of the run is one of a thread or its peer, or leaves the threads alone.
WsUntouched == conn' = conn /\ peer' = peer /\ stat' = stat /\ flavour' = flavour
LEMMA StepsOfThreads ==
    ASSUME [Next]_vars
    PROVE  \/ \E c \in Conns : Ws!Alone(c) \/ Ws!WithPeer(c) \/ Ws!Server(c)
           \/ WsUntouched /\ backend' = backend /\ over' \in {over, "stop", "deadline"}
<1> USE DEF WsUntouched, wsVars
<1>1. CASE TimeUp
  BY <1>1 DEF TimeUp
<1>2. CASE HoldStep \/ StormStep \/ FanStep \/ H2Step \/ CheckStep
  BY <1>2, NobodyTouchesTheFlag DEF Stays, HoldStep, StormStep, FanStep, H2Step, CheckStep
<1>3. CASE WsStep
  BY <1>3 DEF WsStep, Ws!WsNext, Ws!WsReport
<1>4. CASE UNCHANGED vars
  BY <1>4 DEF vars
<1> QED  BY <1>1, <1>2, <1>3, <1>4 DEF Next

(* Every WebSocket message that was sent is answered or charged but for the   *)
(* last, every connection that is over was charged with at most one end of    *)
(* its own, and with exactly one while the run goes on, and none sends two    *)
(* close frames (run_one_connection of echo.rs, hold.rs and push.rs, close    *)
(* and handle_frame of conn.rs).                                              *)
THEOREM WsConnectionsAddUp == Spec => []WsConnectionsAccounted
<1>1. Init => WsBooks
  BY WsStarts
<1>2. WsBooks /\ [Next]_vars => WsBooks'
  <2> SUFFICES ASSUME WsBooks, [Next]_vars PROVE WsBooks'
    OBVIOUS
  <2>1. CASE \E c \in Conns : Ws!Alone(c) \/ Ws!WithPeer(c) \/ Ws!Server(c)
    BY <2>1, ThreadKeepsBooks
  <2>2. CASE WsUntouched /\ backend' = backend /\ over' \in {over, "stop", "deadline"}
    <3>1. ASSUME NEW c \in Conns PROVE Books(conn[c], stat[c])'
      <4>1. Books(conn[c], stat[c])
        BY DEF WsBooks
      <4> QED  BY <2>2, <4>1 DEF Books, WsUntouched
    <3>2. WsShape'
      BY <2>2 DEF WsBooks, WsShape, WsUntouched, ConnFields, PeerFields, Ws!Counters
    <3> QED  BY <3>1, <3>2 DEF WsBooks
  <2> QED  BY <2>1, <2>2, StepsOfThreads
<1>3. WsBooks => WsConnectionsAccounted
  <2> SUFFICES ASSUME WsBooks, NEW c \in Conns
               PROVE  LET n == stat[c]
                          fatal == n["connect"] + n["write"] + (n["read"] - n["mismatch"])
                      IN /\ backend = "ws_echo" =>
                              n["sent"] - n["recv"] - n["mismatch"] \in {0, 1}
                         /\ fatal + n["completed"] + (IF conn[c].byPeer THEN 1 ELSE 0) <= 1
                         /\ fatal + n["stalled"] <= 1
                         /\ conn[c].closes <= 1
                         /\ conn[c].pc = "left" /\ over = "no" =>
                              fatal + (IF conn[c].byPeer THEN 1 ELSE 0) = 1
    BY DEF WsConnectionsAccounted, Ws!WsConnectionsAccounted
  <2> DEFINE n == stat[c]
  <2>1. Books(conn[c], n) /\ n \in [Ws!Counters -> Nat]
    BY DEF WsBooks, WsShape
  <2>2. n["sent"] \in Nat /\ n["recv"] \in Nat /\ n["mismatch"] \in Nat
    BY <2>1 DEF Ws!Counters
  <2> HIDE DEF n
  <2>3. backend = "ws_echo" => n["sent"] - n["recv"] - n["mismatch"] \in {0, 1}
    BY <2>1, <2>2 DEF Books
  <2>4. /\ Fatal(n) + n["completed"] + ByPeer(conn[c]) <= 1 /\ Fatal(n) + n["stalled"] <= 1
        /\ conn[c].closes \in {0, 1}
        /\ conn[c].pc \notin Working /\ over = "no" => Fatal(n) + ByPeer(conn[c]) = 1
    BY <2>1 DEF Books
  <2> QED  BY <2>3, <2>4 DEF Fatal, ByPeer, Working, n
<1> QED  BY <1>1, <1>2, <1>3, PTL DEF Spec

(* A WebSocket round trip is timed between a message and its own echo, with   *)
(* an id in front whatever the server sends, with the other strategies as     *)
(* long as it only answers (recv_matching of echo.rs).                        *)
THEOREM EchoesAreOfTheirMessages == Spec => []EchoIsOfItsMessage
<1>1. Init => WsEchoes
  BY WsStarts
<1>2. WsEchoes /\ [Next]_vars => WsEchoes'
  <2> SUFFICES ASSUME WsEchoes, [Next]_vars PROVE WsEchoes'
    OBVIOUS
  <2>1. CASE \E c \in Conns : Ws!Alone(c) \/ Ws!WithPeer(c) \/ Ws!Server(c)
    BY <2>1, ThreadKeepsEchoes
  <2>2. CASE WsUntouched /\ backend' = backend /\ over' \in {over, "stop", "deadline"}
    <3>1. ASSUME NEW c \in Conns PROVE EchoesOf(flavour, conn[c], peer[c])'
      <4>1. EchoesOf(flavour, conn[c], peer[c])
        BY DEF WsEchoes
      <4> QED  BY <2>2, <4>1 DEF EchoesOf, Echoes, WsUntouched
    <3>2. WsShape'
      BY <2>2 DEF WsEchoes, WsShape, WsUntouched, ConnFields, PeerFields, Ws!Counters
    <3> QED  BY <3>1, <3>2 DEF WsEchoes
  <2> QED  BY <2>1, <2>2, StepsOfThreads
<1>3. WsEchoes => EchoIsOfItsMessage
  BY DEF WsEchoes, EchoesOf, Echoes, Timed, EchoIsOfItsMessage, Ws!EchoIsOfItsMessage
<1> QED  BY <1>1, <1>2, <1>3, PTL DEF Spec

-----------------------------------------------------------------------------
(* The self-check of the client (Calibration). *)

\* Bytes of the request number b only.
Only(s, b) == s \in Seq(Nat) /\ \A k \in DOMAIN s : s[k] = b

LEMMA OneByte ==
    ASSUME NEW b \in Nat, NEW s, Only(s, b)
    PROVE  /\ Only(Append(s, b), b) /\ Len(Append(s, b)) = Len(s) + 1
           /\ s # <<>> => /\ Head(s) = b /\ Only(Tail(s), b)
                          /\ Len(s) > 0 /\ Len(Tail(s)) = Len(s) - 1
<1> USE DEF Only
<1>1. s \in Seq(Nat) /\ Len(s) \in Nat /\ \A k \in 1..Len(s) : s[k] = b
  OBVIOUS
<1>2. /\ Append(s, b) \in Seq(Nat) /\ Len(Append(s, b)) = Len(s) + 1
      /\ \A k \in 1..Len(s) + 1 : Append(s, b)[k] = b
  BY <1>1
<1>3. ASSUME s # <<>>
      PROVE  /\ Len(s) > 0 /\ Head(s) = b /\ Tail(s) \in Seq(Nat)
             /\ Len(Tail(s)) = Len(s) - 1 /\ \A k \in 1..Len(s) - 1 : Tail(s)[k] = b
  BY <1>1, <1>3
<1>4. DOMAIN Append(s, b) = 1..Len(s) + 1
  BY <1>2
<1>5. s # <<>> => DOMAIN Tail(s) = 1..Len(s) - 1
  BY <1>3
<1> QED  BY <1>2, <1>3, <1>4, <1>5

LEMMA JoinBytes ==
    ASSUME NEW b \in Nat, NEW s, Only(s, b), NEW t, Only(t, b)
    PROVE  Only(s \o t, b) /\ Len(s \o t) = Len(s) + Len(t)
<1> DEFINE all == s \o t
           L == Len(s)
           M == Len(t)
<1>1. /\ s \in Seq(Nat) /\ L \in Nat /\ \A k \in 1..L : s[k] = b
      /\ t \in Seq(Nat) /\ M \in Nat /\ \A k \in 1..M : t[k] = b
  BY DEF Only
<1>2. all \in Seq(Nat) /\ Len(all) = L + M
  BY <1>1, ConcatProperties
<1>3. /\ \A k \in 1..L : all[k] = s[k]
      /\ \A k \in L + 1..L + M : all[k] = t[k - L]
  BY <1>1, ConcatProperties
<1>4. DOMAIN all = 1..L + M
  BY <1>2
<1> HIDE DEF all, L, M
<1>5. \A k \in 1..L + M : all[k] = b
  <2> SUFFICES ASSUME NEW k \in 1..L + M PROVE all[k] = b
    OBVIOUS
  <2>1. CASE k \in 1..L
    BY <1>1, <1>3, <2>1
  <2>2. CASE k \notin 1..L
    <3>1. k \in L + 1..L + M /\ k - L \in 1..M
      BY <1>1, <2>2
    <3> QED  BY <1>1, <1>3, <3>1
  <2> QED  BY <2>1, <2>2
<1>6. Only(all, b)
  BY <1>2, <1>4, <1>5 DEF Only
<1> QED  BY <1>2, <1>6 DEF all, L, M

\* What a flush leaves of the bytes, and of those on their way back.
LEMMA SplitBytes ==
    ASSUME NEW b \in Nat, NEW s, Only(s, b), NEW n \in 0..Len(s)
    PROVE  /\ Only(SubSeq(s, 1, n), b) /\ Len(SubSeq(s, 1, n)) = n
           /\ Only(SubSeq(s, n + 1, Len(s)), b) /\ Len(SubSeq(s, n + 1, Len(s))) = Len(s) - n
<1> DEFINE L == Len(s)
<1>1. s \in Seq(Nat) /\ L \in Nat /\ \A k \in 1..L : s[k] = b
  BY DEF Only
<1>2. ASSUME NEW i \in 1..L + 1, NEW j \in 0..L, i <= j + 1
      PROVE  Only(SubSeq(s, i, j), b) /\ Len(SubSeq(s, i, j)) = j - i + 1
  <2>1. i \in Int /\ j \in Int /\ \A k \in i..j : k \in 1..L /\ s[k] \in Nat
    BY <1>1
  <2> DEFINE part == SubSeq(s, i, j)
  <2>2. /\ part \in Seq(Nat) /\ Len(part) = IF i <= j THEN j - i + 1 ELSE 0
        /\ \A k \in 1..j - i + 1 : part[k] = s[i + k - 1]
    BY <2>1, SubSeqProperties
  <2> HIDE DEF part
  <2>3. Len(part) = j - i + 1 /\ DOMAIN part = 1..j - i + 1
    BY <1>2, <2>1, <2>2
  <2>4. \A k \in 1..j - i + 1 : i + k - 1 \in 1..L
    BY <1>1, <1>2, <2>1
  <2>5. \A k \in 1..j - i + 1 : part[k] = b
    BY <1>1, <2>2, <2>4
  <2>6. Only(part, b)
    BY <2>2, <2>3, <2>5 DEF Only
  <2> QED  BY <2>3, <2>6 DEF part
<1>3. n \in 0..L /\ n \in Int
  OBVIOUS
<1> HIDE DEF L
<1>4. 1 \in 1..L + 1 /\ n + 1 \in 1..L + 1 /\ L \in 0..L
  BY <1>1, <1>3
<1>5. Only(SubSeq(s, 1, n), b) /\ Len(SubSeq(s, 1, n)) = n - 1 + 1
  BY <1>2, <1>3, <1>4
<1>6. Only(SubSeq(s, n + 1, L), b) /\ Len(SubSeq(s, n + 1, L)) = L - (n + 1) + 1
  BY <1>1, <1>2, <1>3, <1>4
<1> QED  BY <1>1, <1>3, <1>5, <1>6 DEF L

Open == {"connect", "next", "send", "receive"}
Asking == {"send", "receive"}
Total(c) == Len(toEcho[c]) + Len(queued[c]) + Len(toClient[c])

\* The bytes on a connection are of the last request; the server has no readiness of
\* it left to wait for.
Line(c) ==
    /\ Only(toEcho[c], id) /\ Only(queued[c], id) /\ Only(toClient[c], id)
    /\ Len(toClient[c]) <= Room
    /\ c \notin accepted => /\ queued[c] = <<>> /\ c \notin writable
                           /\ <<c, "r">> \notin announced /\ <<c, "w">> \notin announced
    /\ c \in accepted =>
         /\ toEcho[c] # <<>> => <<c, "r">> \in announced
         /\ queued[c] # <<>> =>
              c \in writable /\ (Len(toClient[c]) = Room \/ <<c, "w">> \in announced)

\* One request at a time: what it has sent and not heard is on its connection, and
\* the others carry nothing.
OnTheWay(c) == IF client \in Asking /\ c = Check!Current THEN sentBytes - Len(heard) ELSE 0

\* Where the client is in its request.
Asked ==
    /\ id \in Nat /\ sentBytes \in Nat /\ Only(heard, id)
    /\ client \in Asking => id >= 1
    /\ client = "send" => heard = <<>> /\ sentBytes < Check!Size
    /\ client = "receive" => sentBytes = Check!Size /\ Len(heard) < Check!Size

Sockets == {toEcho, toClient, queued} \subseteq [Check!Pool -> Seq(Nat)]

\* The inductive invariant of the self-check.
CheckInv ==
    /\ Sockets /\ accepted \subseteq Check!Pool /\ Asked
    /\ \A c \in Check!Pool : Line(c)
    /\ client \in Open => \A c \in Check!Pool : Total(c) = OnTheWay(c)

LEMMA RoomType == Room \in Nat \ {0} /\ PoolSize \in Nat \ {0}
  BY BackendsAssumption DEF BackendsAssumption

LEMMA CurrentType == id \in Nat /\ id >= 1 => Check!Current \in Check!Pool
<1> SUFFICES ASSUME id \in Nat, id >= 1 PROVE Check!Current \in Check!Pool
  OBVIOUS
<1>1. id - 1 \in Nat
  OBVIOUS
<1>2. (id - 1) % PoolSize \in 0..PoolSize - 1
  BY <1>1, RoomType
<1> QED  BY <1>2, RoomType DEF Check!Current, Check!Pool

\* What a step leaves alone of a connection.
SameLine(c) ==
    /\ toEcho'[c] = toEcho[c] /\ queued'[c] = queued[c] /\ toClient'[c] = toClient[c]
    /\ c \in accepted' <=> c \in accepted
    /\ c \in writable' <=> c \in writable
    /\ <<c, "r">> \in announced' <=> <<c, "r">> \in announced
    /\ <<c, "w">> \in announced' <=> <<c, "w">> \in announced

LEMMA LineStays ==
    ASSUME NEW c \in Check!Pool, Line(c), SameLine(c), id' = id
    PROVE  Line(c)' /\ Total(c)' = Total(c)
  BY DEF Line, SameLine, Total, Only

\* Nothing happens on the connections.
Quiet == UNCHANGED <<id, toEcho, toClient, queued, accepted, writable, announced>>
LEMMA QuietStep ==
    ASSUME CheckInv, Quiet, Asked',
           client' \in Open =>
             client \in Open /\ \A c \in Check!Pool : OnTheWay(c)' = OnTheWay(c)
    PROVE  CheckInv'
<1>1. \A c \in Check!Pool : SameLine(c)
  BY DEF Quiet, SameLine
<1>2. \A c \in Check!Pool : Line(c)' /\ Total(c)' = Total(c)
  BY <1>1, LineStays DEF CheckInv, Quiet
<1>3. (Sockets /\ accepted \subseteq Check!Pool)'
  BY DEF CheckInv, Sockets, Quiet
<1> QED  BY <1>2, <1>3 DEF CheckInv

\* What happens on one connection.
LEMMA LineStep ==
    ASSUME CheckInv, NEW c \in Check!Pool, id' = id, Asked',
           (Sockets /\ accepted \subseteq Check!Pool)',
           \A d \in Check!Pool : d # c => SameLine(d) /\ OnTheWay(d)' = OnTheWay(d),
           Line(c)',
           client' \in Open =>
             client \in Open /\ Total(c)' - OnTheWay(c)' = Total(c) - OnTheWay(c),
           Total(c) \in Nat, Total(c)' \in Nat, OnTheWay(c) \in Int, OnTheWay(c)' \in Int
    PROVE  CheckInv'
<1>1. \A d \in Check!Pool : d # c => Line(d)' /\ Total(d)' = Total(d)
  BY LineStays DEF CheckInv
<1>2. \A d \in Check!Pool : Line(d)'
  BY <1>1
<1>3. ASSUME client' \in Open, NEW d \in Check!Pool PROVE Total(d)' = OnTheWay(d)'
  <2>1. Total(d) = OnTheWay(d)
    BY <1>3 DEF CheckInv
  <2>2. CASE d = c
    BY <1>3, <2>1, <2>2
  <2>3. CASE d # c
    BY <1>1, <2>1, <2>3
  <2> QED  BY <2>2, <2>3
<1> QED  BY <1>2, <1>3 DEF CheckInv

\* Bytes are flushed to the client, and what is left waits for room.
LEMMA FlushDoes ==
    ASSUME Sockets, NEW c \in Check!Pool, id \in Nat,
           Only(toClient[c], id), Len(toClient[c]) <= Room,
           NEW bytes, Only(bytes, id), Check!Flush(c, bytes)
    PROVE  /\ {toClient', queued'} \subseteq [Check!Pool -> Seq(Nat)]
           /\ \A d \in Check!Pool : d # c =>
                /\ toClient'[d] = toClient[d] /\ queued'[d] = queued[d]
                /\ d \in writable' <=> d \in writable
           /\ Only(toClient'[c], id) /\ Only(queued'[c], id) /\ Len(toClient'[c]) <= Room
           /\ Len(queued'[c]) + Len(toClient'[c]) = Len(bytes) + Len(toClient[c])
           /\ queued'[c] # <<>> => c \in writable' /\ Len(toClient'[c]) = Room
<1> DEFINE n == Len(bytes)
           t == Len(toClient[c])
           free == Room - t
           now == IF n <= free THEN n ELSE free
           out == SubSeq(bytes, 1, now)
           left == SubSeq(bytes, now + 1, n)
           back == toClient[c] \o out
<1>1. n \in Nat /\ t \in Nat /\ Room \in Nat
  BY RoomType DEF Only
<1>2. /\ now \in 0..n /\ now + t <= Room /\ (now < n => now + t = Room)
  <2>1. t <= Room
    OBVIOUS
  <2> HIDE DEF n, t
  <2>2. CASE n <= free
    BY <1>1, <2>1, <2>2
  <2>3. CASE ~(n <= free)
    BY <1>1, <2>1, <2>3
  <2> QED  BY <2>2, <2>3
<1>3. /\ toClient' = [toClient EXCEPT ![c] = back]
      /\ queued' = [queued EXCEPT ![c] = left]
      /\ writable' = IF now < n THEN writable \cup {c} ELSE writable \ {c}
  BY DEF Check!Flush, Sockets
<1> HIDE DEF now
<1>4. Only(out, id) /\ Len(out) = now /\ Only(left, id) /\ Len(left) = n - now
  BY <1>2, SplitBytes
<1> HIDE DEF n, out, left
<1>5. Only(back, id) /\ Len(back) = t + now
  BY <1>4, JoinBytes
<1> HIDE DEF back, t
<1>6. back \in Seq(Nat) /\ left \in Seq(Nat)
  BY <1>4, <1>5 DEF Only
<1>7. /\ {toClient', queued'} \subseteq [Check!Pool -> Seq(Nat)]
      /\ toClient'[c] = back /\ queued'[c] = left
      /\ \A d \in Check!Pool : d # c => toClient'[d] = toClient[d] /\ queued'[d] = queued[d]
  BY <1>3, <1>6 DEF Sockets
<1>8. left # <<>> => now < n
  BY <1>1, <1>2, <1>4, <1>6
<1>9. \A d \in Check!Pool : d # c => (d \in writable' <=> d \in writable)
  BY <1>3
<1>10. /\ Len(back) <= Room /\ Len(left) + Len(back) = n + t
       /\ left # <<>> => c \in writable' /\ Len(back) = Room
  BY <1>1, <1>2, <1>3, <1>4, <1>5, <1>8
<1> QED  BY <1>4, <1>5, <1>7, <1>9, <1>10 DEF n, t

LEMMA LineSizes ==
    ASSUME CheckInv, NEW c \in Check!Pool
    PROVE  /\ Len(toEcho[c]) \in Nat /\ Len(queued[c]) \in Nat /\ Len(toClient[c]) \in Nat
           /\ Total(c) \in Nat /\ OnTheWay(c) \in Int
           /\ Total(c) = 0 => toEcho[c] = <<>> /\ queued[c] = <<>> /\ toClient[c] = <<>>
<1> DEFINE e == Len(toEcho[c])
           q == Len(queued[c])
           t == Len(toClient[c])
           h == Len(heard)
<1>1. /\ toEcho[c] \in Seq(Nat) /\ queued[c] \in Seq(Nat) /\ toClient[c] \in Seq(Nat)
      /\ heard \in Seq(Nat) /\ sentBytes \in Nat
  BY DEF CheckInv, Line, Asked, Only
<1>2. e \in Nat /\ q \in Nat /\ t \in Nat /\ h \in Nat
  BY <1>1
<1>3. Total(c) = e + q + t /\ OnTheWay(c) \in {0, sentBytes - h}
  BY DEF Total, OnTheWay
<1>4. /\ e = 0 => toEcho[c] = <<>>
      /\ q = 0 => queued[c] = <<>>
      /\ t = 0 => toClient[c] = <<>>
  BY <1>1, EmptySeq
<1> HIDE DEF e, q, t, h
<1>5. Total(c) \in Nat /\ OnTheWay(c) \in Int /\ (Total(c) = 0 => e = 0 /\ q = 0 /\ t = 0)
  BY <1>1, <1>2, <1>3
<1>6. e \in Nat /\ q \in Nat /\ t \in Nat
  BY <1>2
<1> QED  BY <1>4, <1>5, <1>6 DEF e, q, t

\* The steps that move no byte and no readiness.
LEMMA QuietKeepsInv ==
    ASSUME CheckInv,
           \/ \E c \in Check!Pool : Check!Connected(c)
           \/ Check!ConnectFails \/ Check!Expire \/ Check!Judge \/ Check!Join
           \/ Check!EchoLeaves
           \/ Check!NextRequest /\ client' = "result"
    PROVE  CheckInv'
<1>1. /\ Quiet /\ UNCHANGED <<sentBytes, heard>>
      /\ client' = client \/ client' \in {"failed", "result"} \cup Check!Verdicts
  BY DEF Quiet, Check!Connected, Check!ConnectFails, Check!Expire, Check!Judge, Check!Join,
     Check!EchoLeaves, Check!NextRequest, Check!Server, Check!Others, Check!On, Check!Verdicts
<1>2. Asked'
  <2>1. client' \in Asking => client' = client
    BY <1>1 DEF Asking, Check!Verdicts
  <2> QED  BY <1>1, <2>1 DEF Quiet, CheckInv, Asked, Only, Check!Size, Asking
<1>3. ASSUME client' \in Open
      PROVE  client \in Open /\ \A c \in Check!Pool : OnTheWay(c)' = OnTheWay(c)
  <2>1. client' = client
    BY <1>1, <1>3 DEF Open, Check!Verdicts
  <2> QED  BY <1>1, <1>3, <2>1 DEF Quiet, OnTheWay, Check!Current
<1> QED  BY <1>1, <1>2, <1>3, QuietStep

\* The next request finds every connection empty.
LEMMA NextRequestKeepsInv ==
    ASSUME CheckInv, Check!NextRequest, client' # "result" PROVE CheckInv'
<1>1. /\ client \in Open /\ client \notin Asking /\ client' = "send"
      /\ id' = id + 1 /\ sentBytes' = 0 /\ heard' = <<>>
      /\ UNCHANGED <<toEcho, toClient, announced, accepted, queued, writable>>
  BY DEF Check!NextRequest, Check!In, Check!Server, Open, Asking
<1>2. id \in Nat
  BY DEF CheckInv, Asked
<1>3. \A n \in Nat : Only(<<>>, n)
  BY DEF Only
<1>4. Asked'
  BY <1>1, <1>2, <1>3 DEF Asked, Asking, Check!Size
<1>5. ASSUME NEW c \in Check!Pool
      PROVE  toEcho[c] = <<>> /\ queued[c] = <<>> /\ toClient[c] = <<>>
  <2>1. Total(c) = 0
    BY <1>1 DEF CheckInv, OnTheWay
  <2> QED  BY <2>1, LineSizes
<1>6. ASSUME NEW c \in Check!Pool PROVE Line(c)' /\ Total(c)' = 0
  <2>1. Line(c)
    BY DEF CheckInv
  <2>2. Only(<<>>, id') /\ Len(<<>>) = 0
    BY <1>1, <1>2, <1>3
  <2>3. Line(c)'
    BY <1>1, <1>5, <2>1, <2>2 DEF Line, Only
  <2>4. Total(c)' = 0
    <3>1. Total(c)' = Len(<<>>) + Len(<<>>) + Len(<<>>)
      BY <1>1, <1>5 DEF Total
    <3> QED  BY <2>2, <3>1
  <2> QED  BY <2>3, <2>4
<1>7. \A c \in Check!Pool : OnTheWay(c)' = 0
  <2>1. Len(heard') = 0 /\ sentBytes' - 0 = 0
    BY <1>1
  <2> QED  BY <2>1 DEF OnTheWay
<1>8. (Sockets /\ accepted \subseteq Check!Pool)'
  BY <1>1 DEF CheckInv, Sockets
<1> QED  BY <1>4, <1>6, <1>7, <1>8 DEF CheckInv

\* A byte goes out, on the connection of the request.
LEMMA WriteKeepsInv == ASSUME CheckInv, Check!Write PROVE CheckInv'
<1>0. PICK c : c = Check!Current
  OBVIOUS
<1>1. /\ client = "send" /\ client' = IF sentBytes' = Check!Size THEN "receive" ELSE "send"
      /\ sentBytes' = sentBytes + 1 /\ id' = id /\ heard' = heard
      /\ toEcho' = [toEcho EXCEPT ![c] = Append(toEcho[c], id)]
      /\ announced' = announced \cup ({<<c, "r">>} \cap (accepted \X {"r"}))
      /\ UNCHANGED <<toClient, accepted, queued, writable>>
  BY <1>0 DEF Check!Write, Check!In, Check!Server, CheckInv, Sockets
<1>2. id \in Nat /\ id >= 1 /\ sentBytes \in Nat /\ sentBytes < 2 /\ heard = <<>>
  BY <1>1 DEF CheckInv, Asked, Asking, Check!Size
<1>3. c \in Check!Pool
  BY <1>0, <1>2, CurrentType
<1>4. Line(c)
  BY <1>3 DEF CheckInv
<1>5. /\ toEcho \in [Check!Pool -> Seq(Nat)]
      /\ Only(Append(toEcho[c], id), id) /\ Len(Append(toEcho[c], id)) = Len(toEcho[c]) + 1
  BY <1>2, <1>4, OneByte DEF Line, CheckInv, Sockets
<1>6. /\ toEcho' \in [Check!Pool -> Seq(Nat)] /\ toEcho'[c] = Append(toEcho[c], id)
      /\ \A d \in Check!Pool : d # c => toEcho'[d] = toEcho[d]
  BY <1>1, <1>3, <1>5 DEF Only
<1>7. /\ c \in accepted => <<c, "r">> \in announced'
      /\ c \notin accepted => announced' = announced
      /\ \A d : d # c => (<<d, "r">> \in announced' <=> <<d, "r">> \in announced)
      /\ \A d : <<d, "w">> \in announced' <=> <<d, "w">> \in announced
  BY <1>1
<1>8. Line(c)'
  <2>1. /\ Only(toEcho'[c], id') /\ Only(queued'[c], id') /\ Only(toClient'[c], id')
        /\ Len(toClient'[c]) <= Room
    BY <1>1, <1>4, <1>5, <1>6 DEF Line
  <2> QED  BY <1>1, <1>3, <1>4, <1>7, <2>1 DEF Line
<1>9. \A d \in Check!Pool : d # c => SameLine(d)
  BY <1>1, <1>6, <1>7 DEF SameLine
<1>10. /\ \A d \in Check!Pool : d # c => OnTheWay(d) = 0 /\ OnTheWay(d)' = 0
       /\ OnTheWay(c) = sentBytes - 0 /\ OnTheWay(c)' = sentBytes + 1 - 0
  <2>1. Len(heard) = 0 /\ c = Check!Current /\ Check!Current' = Check!Current
    BY <1>0, <1>1, <1>2 DEF Check!Current
  <2>2. client \in Asking /\ client' \in Asking
    BY <1>1 DEF Asking
  <2>3. Len(heard') = 0 /\ sentBytes' = sentBytes + 1
    BY <1>1, <2>1
  <2> QED  BY <2>1, <2>2, <2>3 DEF OnTheWay
<1>11. Total(c) \in Nat /\ Total(c)' = Total(c) + 1
  <2> DEFINE e == Len(toEcho[c])
             q == Len(queued[c])
             t == Len(toClient[c])
  <2>1. e \in Nat /\ q \in Nat /\ t \in Nat /\ Total(c) \in Nat
    BY <1>3, LineSizes
  <2>2. Len(toEcho'[c]) = e + 1 /\ Len(queued'[c]) = q /\ Len(toClient'[c]) = t
    BY <1>1, <1>5, <1>6
  <2>3. Total(c) = e + q + t /\ Total(c)' = e + 1 + q + t
    BY <2>2 DEF Total
  <2> HIDE DEF e, q, t
  <2> QED  BY <2>1, <2>3
<1>12. Asked'
  <2>1. Len(heard) = 0
    BY <1>2
  <2> QED  BY <1>1, <1>2, <2>1 DEF CheckInv, Asked, Asking, Only, Check!Size
<1>13. client \in Open
  BY <1>1 DEF Open
<1>14. (Sockets /\ accepted \subseteq Check!Pool)'
  BY <1>1, <1>6 DEF CheckInv, Sockets
<1>15. Total(c)' - OnTheWay(c)' = Total(c) - OnTheWay(c)
  BY <1>2, <1>10, <1>11
<1>16. Total(c)' \in Nat /\ OnTheWay(c) \in Int /\ OnTheWay(c)' \in Int
  BY <1>2, <1>10, <1>11
<1>17. \A d \in Check!Pool : d # c => SameLine(d) /\ OnTheWay(d)' = OnTheWay(d)
  BY <1>9, <1>10
<1> QED
  BY <1>1, <1>3, <1>8, <1>11, <1>12, <1>13, <1>14, <1>15, <1>16, <1>17, LineStep

\* A byte of the answer is read.
LEMMA ReadKeepsInv == ASSUME CheckInv, Check!ReadExact PROVE CheckInv'
<1>0. PICK c : c = Check!Current
  OBVIOUS
<1> DEFINE t == toClient[c]
<1>1. /\ client = "receive" /\ id' = id /\ sentBytes' = sentBytes /\ t # <<>>
      /\ toClient' = [toClient EXCEPT ![c] = Tail(t)]
      /\ announced' = announced \cup ({<<c, "w">>} \cap (writable \X {"w"}))
      /\ heard' = Append(heard, Head(t))
      /\ client' = IF Len(heard') = Check!Size THEN "next" ELSE "receive"
      /\ UNCHANGED <<toEcho, accepted, queued, writable>>
  BY <1>0 DEF Check!ReadExact, Check!In, Check!Server, CheckInv, Sockets
<1>2. id \in Nat /\ id >= 1 /\ sentBytes = 2 /\ Only(heard, id) /\ Len(heard) < 2
  BY <1>1 DEF CheckInv, Asked, Asking, Check!Size
<1>3. c \in Check!Pool
  BY <1>0, <1>2, CurrentType
<1>4. Line(c)
  BY <1>3 DEF CheckInv
<1>5. /\ toClient \in [Check!Pool -> Seq(Nat)] /\ t \in Seq(Nat)
      /\ Only(Tail(t), id) /\ Head(t) = id /\ Len(t) > 0 /\ Len(Tail(t)) = Len(t) - 1
      /\ Len(t) <= Room
  BY <1>1, <1>2, <1>4, OneByte DEF Line, CheckInv, Sockets, Only
<1>6. /\ toClient' \in [Check!Pool -> Seq(Nat)] /\ toClient'[c] = Tail(t)
      /\ \A d \in Check!Pool : d # c => toClient'[d] = toClient[d]
  BY <1>1, <1>3, <1>5 DEF Only
<1>7. /\ c \in writable => <<c, "w">> \in announced'
      /\ c \notin writable => announced' = announced
      /\ \A d : d # c => (<<d, "w">> \in announced' <=> <<d, "w">> \in announced)
      /\ \A d : <<d, "r">> \in announced' <=> <<d, "r">> \in announced
  BY <1>1
<1>8. Only(heard', id) /\ Len(heard') = Len(heard) + 1 /\ Len(heard) \in Nat
  BY <1>1, <1>2, <1>5, OneByte DEF Only
<1>9. Line(c)'
  <2>1. /\ Only(toEcho'[c], id') /\ Only(queued'[c], id') /\ Only(toClient'[c], id')
    BY <1>1, <1>4, <1>5, <1>6 DEF Line
  <2>2. Len(t) \in Nat /\ Room \in Nat
    BY <1>5, RoomType
  <2>3. Len(toClient'[c]) <= Room
    BY <1>5, <1>6, <2>2
  <2> QED  BY <1>1, <1>3, <1>4, <1>7, <2>1, <2>3 DEF Line
<1>10. \A d \in Check!Pool : d # c => SameLine(d)
  BY <1>1, <1>6, <1>7 DEF SameLine
<1>11. /\ \A d \in Check!Pool : d # c => OnTheWay(d) = 0 /\ OnTheWay(d)' = 0
       /\ OnTheWay(c) = 2 - Len(heard) /\ OnTheWay(c)' = 2 - (Len(heard) + 1)
  <2>1. c = Check!Current /\ Check!Current' = c
    BY <1>0, <1>1 DEF Check!Current
  <2>2. client \in Asking /\ (client' \in Asking <=> Len(heard') # 2)
    BY <1>1 DEF Asking, Check!Size
  <2>3. OnTheWay(c) = 2 - Len(heard)
    BY <1>2, <2>1, <2>2 DEF OnTheWay
  <2>4. OnTheWay(c)' = IF Len(heard') # 2 THEN 2 - Len(heard') ELSE 0
    BY <1>1, <1>2, <2>1, <2>2 DEF OnTheWay
  <2>5. \A d \in Check!Pool : d # c => OnTheWay(d) = 0 /\ OnTheWay(d)' = 0
    BY <2>1 DEF OnTheWay
  <2> QED  BY <1>8, <2>3, <2>4, <2>5
<1>12. Total(c) \in Nat /\ Total(c)' = Total(c) - 1 /\ Total(c)' \in Nat
  <2> DEFINE e == Len(toEcho[c])
             q == Len(queued[c])
             l == Len(t)
  <2>1. e \in Nat /\ q \in Nat /\ l \in Nat /\ Total(c) \in Nat /\ l > 0
    BY <1>3, <1>5, LineSizes
  <2>2. Len(toEcho'[c]) = e /\ Len(queued'[c]) = q /\ Len(toClient'[c]) = l - 1
    BY <1>1, <1>5, <1>6
  <2>3. Total(c) = e + q + l /\ Total(c)' = e + q + (l - 1)
    BY <2>2 DEF Total
  <2> HIDE DEF e, q, l
  <2> QED  BY <2>1, <2>3
<1>13. Asked'
  <2>1. client' = "receive" => Len(heard') < 2
    BY <1>1, <1>2, <1>8 DEF Check!Size
  <2>2. client' = "receive" \/ client' = "next"
    BY <1>1
  <2>3. Only(heard', id') /\ id' \in Nat /\ id' >= 1 /\ sentBytes' = 2
    BY <1>1, <1>2, <1>8
  <2> QED  BY <2>1, <2>2, <2>3 DEF Asked, Asking, Check!Size
<1>14. client \in Open
  BY <1>1 DEF Open
<1>15. (Sockets /\ accepted \subseteq Check!Pool)'
  BY <1>1, <1>6 DEF CheckInv, Sockets
<1>16. /\ Total(c)' - OnTheWay(c)' = Total(c) - OnTheWay(c)
       /\ OnTheWay(c) \in Int /\ OnTheWay(c)' \in Int
  <2>1. Len(heard) \in Nat
    BY <1>8
  <2> QED  BY <1>11, <1>12, <2>1
<1>17. \A d \in Check!Pool : d # c => SameLine(d) /\ OnTheWay(d)' = OnTheWay(d)
  BY <1>10, <1>11
<1> QED
  BY <1>1, <1>3, <1>9, <1>12, <1>13, <1>14, <1>15, <1>16, <1>17, LineStep

\* What the server does to one connection leaves the client where it is.
LEMMA ServerStep ==
    ASSUME CheckInv, NEW c \in Check!Pool,
           UNCHANGED <<client, id, sentBytes, heard>>,
           (Sockets /\ accepted \subseteq Check!Pool)',
           \A d \in Check!Pool : d # c => SameLine(d),
           Line(c)', Total(c)' = Total(c)
    PROVE  CheckInv'
<1>1. Asked'
  BY DEF CheckInv, Asked, Only, Asking, Check!Size
<1>2. \A d \in Check!Pool : OnTheWay(d)' = OnTheWay(d)
  BY DEF OnTheWay, Check!Current
<1>3. Total(c) \in Nat /\ OnTheWay(c) \in Int
  BY LineSizes
<1> QED  BY <1>1, <1>2, <1>3, LineStep

\* The server accepts a connection, and is told of what there is to read.
LEMMA AcceptKeepsInv ==
    ASSUME CheckInv, NEW c \in Check!Pool, Check!Accept(c) PROVE CheckInv'
<1>1. /\ c \notin accepted /\ accepted' = accepted \cup {c}
      /\ announced' = announced \cup (IF toEcho[c] = <<>> THEN {} ELSE {<<c, "r">>})
      /\ UNCHANGED <<client, id, sentBytes, heard, toEcho, toClient, queued, writable>>
  BY DEF Check!Accept
<1>2. Line(c)
  BY DEF CheckInv
<1>3. \A d \in Check!Pool : d # c => SameLine(d)
  BY <1>1 DEF SameLine
<1>4. Line(c)'
  <2>1. toEcho[c] # <<>> => <<c, "r">> \in announced'
    BY <1>1
  <2>2. queued[c] = <<>> /\ c \in accepted'
    BY <1>1, <1>2 DEF Line
  <2> QED  BY <1>1, <1>2, <2>1, <2>2 DEF Line, Only
<1>5. Total(c)' = Total(c)
  BY <1>1 DEF Total
<1>6. (Sockets /\ accepted \subseteq Check!Pool)'
  BY <1>1 DEF CheckInv, Sockets
<1> QED  BY <1>1, <1>3, <1>4, <1>5, <1>6, ServerStep

\* The server reads what there is, and echoes it.
LEMMA ReadableKeepsInv ==
    ASSUME CheckInv, NEW c \in Check!Pool, Check!Readable(c) PROVE CheckInv'
<1> DEFINE all == queued[c] \o toEcho[c]
           e == Len(toEcho[c])
           q == Len(queued[c])
           t == Len(toClient[c])
<1>1. /\ <<c, "r">> \in announced /\ announced' = announced \ {<<c, "r">>}
      /\ Check!Flush(c, all) /\ toEcho' = [toEcho EXCEPT ![c] = <<>>]
      /\ UNCHANGED <<client, id, sentBytes, heard, accepted>>
  BY DEF Check!Readable
<1>2. /\ Line(c) /\ Sockets /\ id \in Nat /\ e \in Nat /\ q \in Nat /\ t \in Nat
      /\ Total(c) = e + q + t
  BY LineSizes DEF CheckInv, Asked, Total
<1>3. Only(all, id) /\ Len(all) = q + e
  BY <1>2, JoinBytes DEF Line
<1> HIDE DEF all
<1>4. /\ {toClient', queued'} \subseteq [Check!Pool -> Seq(Nat)]
      /\ \A d \in Check!Pool : d # c =>
           /\ toClient'[d] = toClient[d] /\ queued'[d] = queued[d]
           /\ d \in writable' <=> d \in writable
      /\ Only(toClient'[c], id) /\ Only(queued'[c], id) /\ Len(toClient'[c]) <= Room
      /\ Len(queued'[c]) + Len(toClient'[c]) = q + e + t
      /\ queued'[c] # <<>> => c \in writable' /\ Len(toClient'[c]) = Room
  BY ZenonT(30), <1>1, <1>2, <1>3, FlushDoes DEF Line
<1>5. /\ toEcho' \in [Check!Pool -> Seq(Nat)] /\ toEcho'[c] = <<>>
      /\ \A d \in Check!Pool : d # c => toEcho'[d] = toEcho[d]
  BY <1>1, <1>2 DEF Sockets
<1>6. c \in accepted
  BY <1>1, <1>2 DEF Line
<1>7. \A d \in Check!Pool : d # c => SameLine(d)
  BY <1>1, <1>4, <1>5 DEF SameLine
<1>8. Line(c)'
  <2>1. Only(<<>>, id)
    BY <1>2 DEF Only
  <2> QED  BY <1>1, <1>4, <1>5, <1>6, <2>1 DEF Line
<1>9. Total(c)' = Total(c)
  <2> DEFINE after == Len(queued'[c])
             there == Len(toClient'[c])
  <2>1. after \in Nat /\ there \in Nat
    <3>1. queued'[c] \in Seq(Nat) /\ toClient'[c] \in Seq(Nat)
      BY <1>4 DEF Only
    <3> QED  BY <3>1
  <2>3. after + there = q + e + t
    BY <1>4
  <2>2. Total(c)' = 0 + after + there
    BY <1>5 DEF Total
  <2> HIDE DEF after, there, e, q, t
  <2> QED  BY <1>2, <2>1, <2>2, <2>3
<1>10. (Sockets /\ accepted \subseteq Check!Pool)'
  BY <1>1, <1>4, <1>5 DEF CheckInv, Sockets
<1> QED  BY <1>1, <1>7, <1>8, <1>9, <1>10, ServerStep

\* The server is told of room, and writes what was left.
LEMMA WritableKeepsInv ==
    ASSUME CheckInv, NEW c \in Check!Pool, Check!Writable(c) PROVE CheckInv'
<1> DEFINE e == Len(toEcho[c])
           q == Len(queued[c])
           t == Len(toClient[c])
<1>1. /\ <<c, "w">> \in announced /\ announced' = announced \ {<<c, "w">>}
      /\ Check!Flush(c, queued[c])
      /\ UNCHANGED <<client, id, sentBytes, heard, accepted, toEcho>>
  BY DEF Check!Writable
<1>2. /\ Line(c) /\ Sockets /\ id \in Nat /\ e \in Nat /\ q \in Nat /\ t \in Nat
      /\ Total(c) = e + q + t
  BY LineSizes DEF CheckInv, Asked, Total
<1>3. /\ {toClient', queued'} \subseteq [Check!Pool -> Seq(Nat)]
      /\ \A d \in Check!Pool : d # c =>
           /\ toClient'[d] = toClient[d] /\ queued'[d] = queued[d]
           /\ d \in writable' <=> d \in writable
      /\ Only(toClient'[c], id) /\ Only(queued'[c], id) /\ Len(toClient'[c]) <= Room
      /\ Len(queued'[c]) + Len(toClient'[c]) = q + t
      /\ queued'[c] # <<>> => c \in writable' /\ Len(toClient'[c]) = Room
  BY <1>1, <1>2, FlushDoes DEF Line
<1>4. c \in accepted
  BY <1>1, <1>2 DEF Line
<1>5. \A d \in Check!Pool : d # c => SameLine(d)
  BY <1>1, <1>3 DEF SameLine
<1>6. Line(c)'
  <2>1. Only(toEcho'[c], id') /\ (toEcho'[c] # <<>> => <<c, "r">> \in announced')
    BY <1>1, <1>2, <1>4 DEF Line
  <2> QED  BY <1>1, <1>3, <1>4, <2>1 DEF Line
<1>7. Total(c)' = Total(c)
  <2> DEFINE after == Len(queued'[c])
             there == Len(toClient'[c])
  <2>1. after \in Nat /\ there \in Nat
    <3>1. queued'[c] \in Seq(Nat) /\ toClient'[c] \in Seq(Nat)
      BY <1>3 DEF Only
    <3> QED  BY <3>1
  <2>3. after + there = q + t
    BY <1>3
  <2>2. Total(c)' = e + after + there
    BY <1>1 DEF Total
  <2> HIDE DEF after, there, e, q, t
  <2> QED  BY <1>2, <2>1, <2>2, <2>3
<1>8. (Sockets /\ accepted \subseteq Check!Pool)'
  BY <1>1, <1>3 DEF CheckInv, Sockets
<1> QED  BY <1>1, <1>5, <1>6, <1>7, <1>8, ServerStep

\* The connections start empty.
LEMMA CheckStarts == Init => CheckInv
<1> SUFFICES ASSUME Init PROVE CheckInv
  OBVIOUS
<1> DEFINE none == [c \in Check!Pool |-> <<>>]
<1>1. /\ client = "connect" /\ id = 0 /\ sentBytes = 0 /\ heard = <<>> /\ toEcho = none
      /\ toClient = none /\ queued = none
      /\ accepted = {} /\ writable = {} /\ announced = {}
  BY DEF Init, RunOneProtocol, Check!CheckInit
<1>2. none \in [Check!Pool -> Seq(Nat)] /\ \A c \in Check!Pool : none[c] = <<>>
  OBVIOUS
<1> HIDE DEF none
<1>3. Only(<<>>, 0) /\ Len(<<>>) = 0 /\ Room \in Nat
  BY RoomType DEF Only
<1>4. Asked
  BY <1>1, <1>3 DEF Asked, Asking
<1>5. ASSUME NEW c \in Check!Pool PROVE Line(c) /\ Total(c) = OnTheWay(c)
  <2>1. Line(c)
    BY <1>1, <1>2, <1>3 DEF Line
  <2>2. Total(c) = Len(<<>>) + Len(<<>>) + Len(<<>>)
    BY <1>1, <1>2 DEF Total
  <2>3. OnTheWay(c) = 0
    BY <1>1 DEF OnTheWay, Asking
  <2> QED  BY <1>3, <2>1, <2>2, <2>3
<1> QED  BY <1>1, <1>2, <1>4, <1>5 DEF CheckInv, Sockets

(* The bytes that a request of the self-check is answered with are its own,   *)
(* and neither its server nor its client sleeps on bytes that it could move   *)
(* (echo_read, echo_write, nb_write_all and nb_read_exact of calibrate.rs).      *)
THEOREM SelfCheckAnswers == Spec => []SelfCheckIsAnswered
<1>1. Init => CheckInv
  BY CheckStarts
<1>2. CheckInv /\ [Next]_vars => CheckInv'
  <2> SUFFICES ASSUME CheckInv, [Next]_vars PROVE CheckInv'
    OBVIOUS
  <2>1. CASE CheckStep
    <3>1. Check!CheckNext
      BY <2>1 DEF CheckStep
    <3>2. Check!NextRequest => CheckInv'
      BY QuietKeepsInv, NextRequestKeepsInv
    <3> QED
      BY <3>1, <3>2, QuietKeepsInv, WriteKeepsInv, ReadKeepsInv, AcceptKeepsInv,
         ReadableKeepsInv, WritableKeepsInv DEF Check!CheckNext
  <2>2. CASE UNCHANGED checkVars
    <3>1. Quiet /\ UNCHANGED <<client, sentBytes, heard>>
      BY <2>2 DEF checkVars, Quiet
    <3>2. Asked'
      BY <3>1 DEF Quiet, CheckInv, Asked, Only, Asking, Check!Size
    <3>3. \A c \in Check!Pool : OnTheWay(c)' = OnTheWay(c)
      BY <3>1 DEF Quiet, OnTheWay, Check!Current
    <3> QED  BY <3>1, <3>2, <3>3, QuietStep
  <2> QED  BY <2>1, <2>2 DEF Next, TimeUp, HoldStep, StormStep, FanStep, WsStep, H2Step, vars
<1>3. CheckInv => SelfCheckIsAnswered
  BY DEF CheckInv, Asked, Line, Only, SelfCheckIsAnswered, Check!SelfCheckIsAnswered,
     Check!RepliesMatchRequests, Check!NoWakeupIsLost
<1> QED  BY <1>1, <1>2, <1>3, PTL DEF Spec

=============================================================================
