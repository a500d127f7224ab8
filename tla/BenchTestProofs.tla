---------------------------- MODULE BenchTestProofs ----------------------------
(***************************************************************************)
(* What holds of the timing loops for all options, clocks and codecs and   *)
(* any number of tests: the rows' verification, the work they stand for    *)
(* and the working memories.                                               *)
(***************************************************************************)
EXTENDS BenchTest, FiniteSetTheorems, NumberLemmas

LogType == [ccalls : Nat, dcalls : Nat, cspan : Nat, dspan : Nat,
            cshort : Nat, clong : Nat, dshort : Nat, dlong : Nat,
            restored : BOOLEAN, sound : BOOLEAN]

(* A batch has a call in it before anything is divided by their number, and *)
(* a test adds one row at most.                                             *)
Types ==
  /\ TypeOK
  /\ log \in LogType
  /\ \E S : results \in Seq(S)
  /\ pc \in {"cbatch", "dbatch"} => iters > 0
  /\ pc \notin {"idle", "done", "exited"} => Len(results) < tests

Compressing == pc \in {"filter", "csleep", "cloop", "cbatch"}
Decompressing == pc \in {"dsleep", "dloop", "dbatch"}

Memory ==
  /\ pc = "idle" => workmem = "null"
  /\ workmem = "held" => live > 0
  /\ live <= slow + IF workmem = "held" THEN 1 ELSE 0

(* Between batches the output buffer is not the input, so that whatever is  *)
(* equal after a batch was made by one of its calls.                        *)
Verified ==
  ~Blank =>
    /\ pc \notin {"dloop", "dbatch", "exited"} => output = "other"
    /\ pc \in {"dloop", "dbatch"} => output = "other" \/ log.restored = TRUE
    /\ log.sound = TRUE \/ error = TRUE
    /\ DecodedEachBatch

(* From the first compression on there is an image, and every call of       *)
(* lzbench_decompress restores the input from it.                           *)
Passing ==
  Lossless /\ Roomy =>
    /\ pc \in {"cbatch", "dsleep", "dloop", "dbatch"} => image = "whole"
    /\ pc = "dbatch" => output = "equal" /\ length = "equal"
    /\ error = FALSE

(* total and i count the calls of their kind, and a stage ends with its     *)
(* quota.                                                                   *)
Counted ==
  /\ pc \in {"filter", "csleep"} => total = log.ccalls
  /\ pc \in {"cloop", "cbatch"} => total + iters = log.ccalls
  /\ Compressing => log.dcalls = 0 /\ dtime = <<>>
  /\ Decompressing \/ pc = "report" => log.ccalls >= par.cIters /\ log.cspan > par.cMin
  /\ pc = "dsleep" => total = log.dcalls
  /\ pc \in {"dloop", "dbatch"} => total + iters = log.dcalls
  /\ pc = "report" /\ error = FALSE /\ dtime # <<>> =>
       log.dcalls >= par.dIters /\ log.dspan > par.dMin
  /\ EnoughWork

(* All times recorded lie between the shortest call and the longest turn,   *)
(* and so does the mean of the batch that runs.                             *)
Within(times, lo, hi) == \A k \in DOMAIN times : lo <= times[k] /\ times[k] <= hi

Timed ==
  /\ Within(ctime, log.cshort, log.clong)
  /\ Within(dtime, log.dshort, log.dlong)
  /\ pc \in {"cloop", "cbatch"} =>
       iters * log.cshort <= loopTime /\ loopTime <= iters * log.clong
  /\ pc \in {"dloop", "dbatch"} =>
       iters * log.dshort <= loopTime /\ loopTime <= iters * log.dlong
  /\ TimesWithinTurns

(* The shortest of the calls made so far, if it is long enough, is one of   *)
(* the recorded times.                                                      *)
Kept(times, calls, short) ==
  /\ calls = 0 => times = <<>> /\ short = MaxCall
  /\ calls > 0 /\ short >= Precision => \E k \in DOMAIN times : times[k] = short

Shortest ==
  pc \notin {"idle", "done", "exited"} =>
    /\ Kept(ctime, log.ccalls, log.cshort)
    /\ Kept(dtime, log.dcalls, log.dshort)

(* A test goes on to decompression only after a batch that was fast enough. *)
FastBatch == \E k \in DOMAIN ctime : ctime[k] * par.cspeed <= Size

Paced ==
  /\ Decompressing \/ pc = "report" => FastBatch
  /\ FastRowsOnly

Inv ==
  /\ Types
  /\ Memory
  /\ Verified
  /\ Passing
  /\ Counted
  /\ Timed
  /\ Shortest
  /\ Paced

-------------------------------------------------------------------------------
(* What Append does, for sequences of anything. *)
LEMMA AppendFacts ==
  ASSUME NEW S, NEW s \in Seq(S), NEW x
  PROVE  /\ Append(s, x) \in Seq(S \cup {x})
         /\ Len(Append(s, x)) = Len(s) + 1
         /\ DOMAIN Append(s, x) = 1 .. Len(s) + 1
         /\ \A k \in DOMAIN s : Append(s, x)[k] = s[k]
         /\ Append(s, x)[Len(s) + 1] = x
         /\ Append(s, x) # <<>>
<1>1. s \in Seq(S \cup {x}) /\ x \in S \cup {x}
  OBVIOUS
<1> QED
  BY <1>1

LEMMA AppendNat ==
  ASSUME NEW s \in Seq(Nat), NEW n \in Nat
  PROVE  Append(s, n) \in Seq(Nat)
OBVIOUS

LEMMA SetOfAppended ==
  ASSUME NEW S, NEW s \in Seq(S), NEW x
  PROVE  {Append(s, x)[k] : k \in DOMAIN Append(s, x)} = {s[k] : k \in DOMAIN s} \cup {x}
<1> DEFINE t == Append(s, x)
<1>1. /\ DOMAIN t = 1 .. Len(s) + 1 /\ DOMAIN s = 1 .. Len(s) /\ Len(s) \in Nat
      /\ \A k \in DOMAIN s : t[k] = s[k]
      /\ t[Len(s) + 1] = x
  BY AppendFacts
<1> HIDE DEF t
<1>2. DOMAIN t = DOMAIN s \cup {Len(s) + 1}
  BY <1>1
<1>3. ASSUME NEW v
      PROVE  v \in {t[k] : k \in DOMAIN t} <=> v \in {s[k] : k \in DOMAIN s} \cup {x}
  <2>1. ASSUME NEW k \in DOMAIN t, v = t[k]
        PROVE  v \in {s[q] : q \in DOMAIN s} \cup {x}
    <3>1. CASE k \in DOMAIN s
      BY <1>1, <2>1, <3>1
    <3>2. CASE k = Len(s) + 1
      BY <1>1, <2>1, <3>2
    <3> QED
      BY <1>2, <3>1, <3>2
  <2>2. ASSUME NEW k \in DOMAIN s, v = s[k]
        PROVE  v \in {t[q] : q \in DOMAIN t}
    <3>1. k \in DOMAIN t /\ v = t[k]
      BY <1>1, <1>2, <2>2
    <3> QED
      BY <3>1
  <2>3. x \in {t[q] : q \in DOMAIN t}
    <3>1. Len(s) + 1 \in DOMAIN t /\ x = t[Len(s) + 1]
      BY <1>1, <1>2
    <3> QED
      BY <3>1
  <2> QED
    BY <2>1, <2>2, <2>3
<1>4. {t[k] : k \in DOMAIN t} = {s[k] : k \in DOMAIN s} \cup {x}
  BY <1>3
<1> QED
  BY <1>4 DEF t

LEMMA BestEmpty == Best(<<>>) = 0
BY DEF Best

LEMMA TurnNat ==
  ASSUME NEW d \in CallTimes, NEW w \in Gaps
  PROVE  /\ d \in Nat /\ w \in Nat /\ w + d \in Nat /\ d <= w + d
         /\ MaxCall \in Nat /\ d <= MaxCall
<1>1. MaxCall \in Nat /\ MaxGap \in Nat
  BY BenchAssumption
<1>2. d \in 0 .. MaxCall /\ w \in 0 .. MaxGap
  BY DEF CallTimes, Gaps
<1> QED
  BY <1>1, <1>2

LEMMA RecordNat ==
  ASSUME NEW s \in Seq(Nat), NEW d \in Nat
  PROVE  Record(s, d) \in Seq(Nat)
BY AppendNat DEF Record

-------------------------------------------------------------------------------
LEMMA TimesLess ==
  ASSUME NEW n \in Nat, NEW a \in Nat, NEW b \in Nat, a <= b
  PROVE  n * a <= n * b /\ n * a \in Nat /\ n * b \in Nat
OBVIOUS

(* A mean lies between the bounds of what it is the mean of.                *)
LEMMA MeanWithin ==
  ASSUME NEW n \in Nat \ {0}, NEW t \in Nat, NEW lo \in Nat, NEW hi \in Nat,
         n * lo <= t, t <= n * hi
  PROVE  lo <= t \div n /\ t \div n <= hi
<1>1. PICK q \in Nat : q = t \div n
  BY DivNat
<1>2. n * q <= t /\ t < n * (q + 1)
  BY <1>1
<1>3. ASSUME q + 1 <= lo PROVE FALSE
  <2>1. n * (q + 1) <= n * lo
    BY <1>3
  <2> QED
    BY <2>1, <1>2
<1>4. ASSUME hi + 1 <= q PROVE FALSE
  <2>1. n * (hi + 1) <= n * q
    BY <1>4
  <2>2. n * (hi + 1) = n * hi + n
    OBVIOUS
  <2> QED
    BY <2>1, <2>2, <1>2
<1> QED
  BY <1>1, <1>3, <1>4

(* If n times S is at least c times t, the mean of t is at most S by c.     *)
LEMMA MeanSpeed ==
  ASSUME NEW n \in Nat \ {0}, NEW t \in Nat, NEW S \in Nat, NEW c \in Nat,
         n * S >= c * t
  PROVE  (t \div n) * c <= S
<1>1. PICK q \in Nat : q = t \div n
  BY DivNat
<1>2. n * q <= t
  BY <1>1
<1>3. PICK u \in Nat : u = n * q
  OBVIOUS
<1>4. c * u <= c * t
  BY <1>2, <1>3, TimesLess
<1>5. c * u = n * (q * c)
  BY <1>3
<1>6. PICK v \in Nat : v = q * c
  OBVIOUS
<1>7. n * v <= n * S
  BY <1>4, <1>5, <1>6
<1>8. ASSUME S + 1 <= v PROVE FALSE
  <2>1. n * (S + 1) <= n * v
    BY <1>8, TimesLess
  <2>2. n * (S + 1) = n * S + n
    OBVIOUS
  <2> QED
    BY <2>1, <2>2, <1>7
<1> QED
  BY <1>1, <1>6, <1>8

(* One more turn, of e ticks, with a call of d.                             *)
LEMMA OneMore ==
  ASSUME NEW n \in Nat, NEW t \in Nat, NEW d \in Nat, NEW e \in Nat, d <= e,
         NEW lo \in Nat, NEW hi \in Nat, n * lo <= t, t <= n * hi
  PROVE  /\ (n + 1) * Smaller(lo, d) <= t + e
         /\ t + e <= (n + 1) * Larger(hi, e)
<1>1. PICK a \in Nat : a = Smaller(lo, d) /\ a <= lo /\ a <= d
  BY DEF Smaller
<1>2. PICK b \in Nat : b = Larger(hi, e) /\ hi <= b /\ e <= b
  BY DEF Larger
<1>3. n * a <= n * lo /\ n * hi <= n * b
  BY <1>1, <1>2, TimesLess
<1>4. (n + 1) * a = n * a + a /\ (n + 1) * b = n * b + b
  BY <1>1, <1>2
<1>5. n * a + a <= t + e
  BY <1>1, <1>3
<1>6. t + e <= n * b + b
  BY <1>2, <1>3
<1> QED
  BY <1>1, <1>2, <1>4, <1>5, <1>6

LEMMA SumWithin ==
  ASSUME NEW s \in Seq(Nat), NEW lo \in Nat, NEW hi \in Nat, Within(s, lo, hi)
  PROVE  /\ Sum(s) \in Nat
         /\ Len(s) * lo <= Sum(s) /\ Sum(s) <= Len(s) * hi
<1>1. PICK n \in Nat : n = Len(s)
  OBVIOUS
<1>2. \A k \in 1 .. n : s[k] \in Nat /\ lo <= s[k] /\ s[k] <= hi
  BY <1>1 DEF Within
<1> DEFINE Good(m) == SumTo(s, m) \in Nat /\ m * lo <= SumTo(s, m) /\ SumTo(s, m) <= m * hi
           S == {m \in Nat : m <= n => Good(m)}
<1>3. 0 \in S
  <2>1. SumTo(s, 0) = 0
    BY SumToNext
  <2> QED
    BY <2>1
<1>4. ASSUME NEW m \in Nat, m \in S PROVE m + 1 \in S
  <2>1. SUFFICES ASSUME m + 1 <= n PROVE Good(m + 1)
    OBVIOUS
  <2>2. PICK q \in Nat : q = m + 1
    OBVIOUS
  <2>3. q > 0 /\ q - 1 = m /\ q \in 1 .. n /\ \A k \in 1 .. q : s[k] \in Nat
    BY <2>1, <2>2, <1>2
  <2>4. SumTo(s, q) \in Nat /\ SumTo(s, q) = SumTo(s, q - 1) + s[q]
    BY <2>3, SumToNext
  <2>5. PICK a \in Nat : a = SumTo(s, m) /\ m * lo <= a /\ a <= m * hi
    BY <1>4, <2>1
  <2>6. PICK e \in Nat : e = s[q] /\ lo <= e /\ e <= hi
    BY <2>3, <1>2
  <2>7. (m + 1) * lo = m * lo + lo /\ (m + 1) * hi = m * hi + hi
    OBVIOUS
  <2>8. m * lo + lo <= a + e
    BY <2>5, <2>6
  <2>9. a + e <= m * hi + hi
    BY <2>5, <2>6
  <2>10. SumTo(s, m + 1) = a + e
    BY <2>2, <2>3, <2>4, <2>5, <2>6
  <2> QED
    BY <2>2, <2>4, <2>7, <2>8, <2>9, <2>10
<1>5. n \in S
  <2> HIDE DEF S
  <2> QED
    BY <1>3, <1>4, NatSet
<1> QED
  BY <1>1, <1>5 DEF Sum

-------------------------------------------------------------------------------
UpTo(times, t) == {k \in DOMAIN times : times[k] <= t}
Below(times, t) == {k \in DOMAIN times : times[k] < t}

LEMMA CountsFinite ==
  ASSUME NEW times \in Seq(Nat), NEW t
  PROVE  /\ IsFiniteSet(UpTo(times, t)) /\ IsFiniteSet(Below(times, t))
         /\ Cardinality(UpTo(times, t)) \in Nat
         /\ Cardinality(Below(times, t)) \in Nat
<1>1. DOMAIN times = 1 .. Len(times) /\ Len(times) \in Nat
  OBVIOUS
<1>2. IsFiniteSet(DOMAIN times)
  BY <1>1, FS_Interval
<1>3. UpTo(times, t) \in SUBSET DOMAIN times /\ Below(times, t) \in SUBSET DOMAIN times
  BY DEF UpTo, Below
<1>4. IsFiniteSet(UpTo(times, t)) /\ IsFiniteSet(Below(times, t))
  BY <1>2, <1>3, FS_Subset
<1> QED
  BY <1>4, FS_CardinalityType

LEMMA AllCounted ==
  ASSUME NEW times \in Seq(Nat)
  PROVE  \E m \in Nat : Cardinality(UpTo(times, m)) = Len(times)
<1> DEFINE S == {j \in Nat : j <= Len(times) =>
                   \E m \in Nat : \A k \in 1 .. j : times[k] <= m}
<1>1. Len(times) \in Nat /\ \A k \in 1 .. Len(times) : times[k] \in Nat
  OBVIOUS
<1>2. 0 \in S
  OBVIOUS
<1>3. ASSUME NEW j \in Nat, j \in S PROVE j + 1 \in S
  <2>1. SUFFICES ASSUME j + 1 <= Len(times)
                 PROVE  \E m \in Nat : \A k \in 1 .. j + 1 : times[k] <= m
    OBVIOUS
  <2>2. PICK m \in Nat : \A k \in 1 .. j : times[k] <= m
    BY <1>1, <1>3, <2>1
  <2>3. times[j + 1] \in Nat
    BY <1>1, <2>1
  <2>4. PICK M \in Nat : m <= M /\ times[j + 1] <= M
    <3>1. m + times[j + 1] \in Nat /\ m <= m + times[j + 1]
          /\ times[j + 1] <= m + times[j + 1]
      BY <2>3
    <3> QED
      BY <3>1
  <2>5. ASSUME NEW k \in 1 .. j + 1 PROVE times[k] <= M
    <3>1. CASE k = j + 1
      BY <2>4, <3>1
    <3>2. CASE k # j + 1
      <4>1. k \in 1 .. j /\ times[k] \in Nat
        BY <3>2, <1>1, <2>1
      <4> QED
        BY <4>1, <2>2, <2>4
    <3> QED
      BY <3>1, <3>2
  <2> QED
    BY <2>5
<1>4. Len(times) \in S
  <2> HIDE DEF S
  <2> QED
    BY <1>1, <1>2, <1>3, NatSet
<1>5. PICK m \in Nat : \A k \in 1 .. Len(times) : times[k] <= m
  BY <1>1, <1>4
<1>6. UpTo(times, m) = 1 .. Len(times)
  BY <1>5 DEF UpTo
<1>7. PICK a \in Int, b \in Int : a = 1 /\ b = Len(times)
  BY <1>1
<1>8. Cardinality(a .. b) = IF a > b THEN 0 ELSE b - a + 1
  BY FS_Interval
<1>9. Cardinality(1 .. Len(times)) = Len(times)
  BY <1>1, <1>7, <1>8
<1> QED
  BY <1>6, <1>9

(* A sequence has an n-th value in order, and it is one of its own.         *)
LEMMA RankedIs ==
  ASSUME NEW times \in Seq(Nat), NEW n \in 1 .. Len(times)
  PROVE  \E k \in DOMAIN times :
            /\ Ranked(times, n) = times[k]
            /\ Cardinality(Below(times, times[k])) < n
<1> DEFINE S == {m \in Nat : n <= Cardinality(UpTo(times, m))}
<1>1. S \in SUBSET Nat /\ S # {}
  <2>1. PICK m \in Nat : Cardinality(UpTo(times, m)) = Len(times)
    BY AllCounted
  <2> QED
    BY <2>1
<1>2. PICK m \in S : \A k \in S : m <= k
  <2> HIDE DEF S
  <2> QED
    BY <1>1, LeastNat
<1>3. m \in Nat /\ n <= Cardinality(UpTo(times, m)) /\ n \in Nat /\ n >= 1
  BY <1>2
<1>4. \A k \in DOMAIN times : times[k] \in Nat
  OBVIOUS
<1>5. Cardinality(Below(times, m)) < n
  <2>1. CASE m = 0
    <3>1. Below(times, m) = {}
      BY <2>1, <1>4 DEF Below
    <3>2. Cardinality(Below(times, m)) = 0
      BY <3>1, FS_EmptySet
    <3> QED
      BY <3>2, <1>3
  <2>2. CASE m # 0
    <3>1. PICK p \in Nat : p = m - 1
      BY <2>2, <1>3
    <3>2. Below(times, m) = UpTo(times, p)
      BY <3>1, <1>3, <1>4 DEF Below, UpTo
    <3>3. p \notin S
      BY <3>1, <1>2, <1>3
    <3>4. ~(n <= Cardinality(UpTo(times, p))) /\ Cardinality(UpTo(times, p)) \in Nat
      BY <3>3, CountsFinite
    <3> QED
      BY <3>2, <3>4, <1>3
  <2> QED
    BY <2>1, <2>2
<1>6. \E k \in DOMAIN times : times[k] = m
  <2>1. SUFFICES ASSUME ~(\E k \in DOMAIN times : times[k] = m) PROVE FALSE
    OBVIOUS
  <2>2. UpTo(times, m) = Below(times, m)
    BY <2>1, <1>3, <1>4 DEF UpTo, Below
  <2>3. Cardinality(Below(times, m)) \in Nat
    BY CountsFinite
  <2> QED
    BY <2>2, <2>3, <1>3, <1>5
<1> DEFINE P(t) == /\ Cardinality(Below(times, t)) < n
                   /\ Cardinality(UpTo(times, t)) >= n
           V == {times[k] : k \in DOMAIN times}
<1>7. m \in V /\ P(m)
  <2>1. Cardinality(UpTo(times, m)) \in Nat
    BY CountsFinite
  <2> QED
    BY <2>1, <1>3, <1>5, <1>6
<1>8. Ranked(times, n) = CHOOSE t \in V : P(t)
  BY DEF Ranked, Below, UpTo
<1> HIDE DEF P
<1>9. (CHOOSE t \in V : P(t)) \in V /\ P(CHOOSE t \in V : P(t))
  BY <1>7
<1>10. Ranked(times, n) \in V /\ P(Ranked(times, n))
  BY <1>8, <1>9
<1> QED
  BY <1>10 DEF P

(* The first of the sorted times is the least of them.                      *)
LEMMA RankedFirst ==
  ASSUME NEW times \in Seq(Nat), NEW j \in DOMAIN times
  PROVE  Ranked(times, 1) \in Nat /\ Ranked(times, 1) <= times[j]
<1>1. 1 \in 1 .. Len(times) /\ \A k \in DOMAIN times : times[k] \in Nat
  OBVIOUS
<1>2. PICK one : one = 1
  OBVIOUS
<1>3. PICK k \in DOMAIN times :
        /\ Ranked(times, one) = times[k]
        /\ Cardinality(Below(times, times[k])) < one
  BY <1>1, <1>2, RankedIs
<1>4. Cardinality(Below(times, times[k])) \in Nat /\ IsFiniteSet(Below(times, times[k]))
  BY CountsFinite
<1>5. Cardinality(Below(times, times[k])) = 0
  BY <1>2, <1>3, <1>4
<1>6. Below(times, times[k]) = {}
  BY <1>4, <1>5, FS_EmptySet
<1>7. ~(times[j] < times[k])
  BY <1>6 DEF Below
<1> QED
  BY <1>1, <1>2, <1>3, <1>7

(* What a row shows of recorded times lies between them, for -p1, -p2 and   *)
(* -p3.                                                                     *)
LEMMA ChosenWithin ==
  ASSUME par.timetype \in TimeType, NEW times \in Seq(Nat), times # <<>>,
         NEW lo \in Nat, NEW hi \in Nat, Within(times, lo, hi)
  PROVE  Chosen(times) \in lo .. hi
<1>1. PICK n \in Nat \ {0} : n = Len(times)
  OBVIOUS
<1>2. \A k \in DOMAIN times : times[k] \in Nat /\ lo <= times[k] /\ times[k] <= hi
  BY DEF Within
<1>3. ASSUME NEW r \in 1 .. n
      PROVE  Ranked(times, r) \in Nat /\ lo <= Ranked(times, r) /\ Ranked(times, r) <= hi
  <2>1. PICK k \in DOMAIN times : Ranked(times, r) = times[k]
    BY <1>1, RankedIs
  <2> QED
    BY <2>1, <1>2
<1>4. CASE par.timetype = "fastest"
  <2>1. Chosen(times) = Ranked(times, 1)
    BY <1>4 DEF Chosen
  <2>2. PICK one \in 1 .. n : one = 1
    BY <1>1
  <2> QED
    BY <2>1, <2>2, <1>3
<1>5. CASE par.timetype = "average"
  <2>1. Chosen(times) = Sum(times) \div n
    BY <1>1, <1>5 DEF Chosen
  <2>2. Sum(times) \in Nat /\ n * lo <= Sum(times) /\ Sum(times) <= n * hi
    BY <1>1, SumWithin
  <2>3. lo <= Sum(times) \div n /\ Sum(times) \div n <= hi
    BY <2>2, MeanWithin
  <2>4. Sum(times) \div n \in Nat
    BY <2>2, DivNat
  <2> QED
    BY <2>1, <2>3, <2>4
<1>6. CASE par.timetype = "median"
  <2>1. PICK p \in 1 .. n : p = (n - 1) \div 2 + 1
    BY <1>1
  <2>2. PICK q \in 1 .. n : q = n \div 2 + 1
    BY <1>1
  <2>3. PICK a \in Nat, b \in Nat : a = Ranked(times, p) /\ b = Ranked(times, q)
    BY <1>3
  <2>4. lo <= a /\ a <= hi /\ lo <= b /\ b <= hi
    BY <2>3, <1>3
  <2>5. Chosen(times) = (a + b) \div 2
    BY <1>1, <2>1, <2>2, <2>3, <1>6 DEF Chosen
  <2>6. (a + b) \div 2 \in lo .. hi
    BY <2>4
  <2> QED
    BY <2>5, <2>6
<1> QED
  BY <1>4, <1>5, <1>6 DEF TimeType

-------------------------------------------------------------------------------
LEMMA InvInit ==
  Init => Inv
<1> SUFFICES ASSUME Init PROVE Inv
  OBVIOUS
<1> USE DEF Init
<1>1. NoLog \in LogType
  BY BenchAssumption DEF NoLog, LogType
<1>2. CallsTypeOK
  BY DEF CallsInit, CallsTypeOK, Agreement, Cleared
<1>3. <<>> \in Seq(Nat) /\ Len(<<>>) = 0 /\ 0 <= tests
  OBVIOUS
<1>4. TypeOK
  <2>1. IsParams(par) /\ tests \in 0 .. MaxTests /\ Len(results) <= tests
    BY BenchAssumption
  <2>2. error \in BOOLEAN
    BY Zenon
  <2> QED
    BY <1>2, <1>3, <2>1, <2>2 DEF TypeOK
<1>5. Types
  BY <1>1, <1>3, <1>4 DEF Types
<1>6. Rows = {}
  BY DEF Rows
<1>7. Verified
  BY <1>6 DEF Verified, CallsInit, Cleared, DecodedEachBatch, NoLog
<1>8. Counted
  BY <1>6 DEF Counted, Compressing, Decompressing, EnoughWork
<1>9. Timed /\ Paced /\ Shortest
  BY <1>6 DEF Timed, Paced, Shortest, Within, Decompressing, TimesWithinTurns, FastRowsOnly
<1> QED
  BY <1>5, <1>7, <1>8, <1>9 DEF Inv, Memory, Passing

(* CodecCalls' actions keep their types. *)
LEMMA CallTypes ==
  ASSUME CallsTypeOK,
         \/ NextTest \/ BeginCompress \/ EndCompress \/ BeginDecompress
         \/ EndDecompress \/ ClearOutput \/ UNCHANGED callVars
  PROVE  CallsTypeOK'
BY DEF CallsTypeOK, NextTest, BeginCompress, EndCompress, BeginDecompress,
       EndDecompress, ClearOutput, Cleared, callVars, Agreement

LEMMA TypesBegin ==
  ASSUME Inv, BeginTest
  PROVE  Types'
<1>1. PICK u \in BOOLEAN, w \in {"null", "held"} : Begin(u, w)
  BY DEF BeginTest
<1> USE DEF Begin
<1>2. /\ TypeOK /\ live \in Nat /\ tests \in Nat /\ tests < MaxTests /\ MaxTests \in Nat
      /\ Len(results) \in Nat /\ Len(results) <= tests
  BY <1>1, BenchAssumption DEF Inv, Types, TypeOK
<1>3. IsParams(par')
  <2>1. IsParams(params) /\ LoopTime \in Nat
    BY <1>2, BenchAssumption DEF TypeOK
  <2>2. IsParams(Baseline(params))
    BY <2>1 DEF IsParams, Baseline
  <2>3. par' \in {params, Baseline(params)}
    BY <1>1
  <2> QED
    BY <2>1, <2>2, <2>3
<1>4. live' \in Nat /\ tests' \in 0 .. MaxTests /\ Len(results') < tests'
  BY <1>1, <1>2
<1>5. CallsTypeOK'
  BY <1>1, <1>2, CallTypes DEF TypeOK
<1>6. NoLog \in LogType
  BY BenchAssumption DEF NoLog, LogType
<1>7. pc' \in {"done", "filter", "csleep"} /\ Len(results') <= tests'
  BY <1>1, <1>2
<1>8. TypeOK'
  <2>1. /\ params' \in Params /\ workmem' \in {"null", "held"}
        /\ {iters', total', loopTime', totalTime', slow'} \subseteq Nat
        /\ ctime' \in Seq(Nat) /\ dtime' \in Seq(Nat) /\ log' = NoLog
    BY <1>1, <1>2 DEF TypeOK
  <2>2. error' \in BOOLEAN
    BY <1>1, Zenon
  <2> QED
    BY <1>3, <1>4, <1>5, <1>7, <2>1, <2>2 DEF TypeOK
<1>9. \E S : results' \in Seq(S)
  BY <1>1 DEF Inv, Types
<1> QED
  BY <1>1, <1>4, <1>6, <1>7, <1>8, <1>9 DEF Types

LEMMA LogCall ==
  ASSUME NEW l \in LogType, NEW d \in Nat, NEW e \in Nat
  PROVE  /\ [l EXCEPT !.ccalls = @ + 1, !.cshort = Smaller(@, d),
                      !.clong = Larger(@, e)] \in LogType
         /\ [l EXCEPT !.dcalls = @ + 1, !.dshort = Smaller(@, d), !.dlong = Larger(@, e),
                      !.restored = @ \/ (output = "other" /\ output' = "equal")] \in LogType
<1>1. /\ l.ccalls + 1 \in Nat /\ l.dcalls + 1 \in Nat
      /\ Smaller(l.cshort, d) \in Nat /\ Larger(l.clong, e) \in Nat
      /\ Smaller(l.dshort, d) \in Nat /\ Larger(l.dlong, e) \in Nat
  BY DEF LogType, Smaller, Larger
<1>2. (l.restored \/ (output = "other" /\ output' = "equal")) \in BOOLEAN
  BY Zenon
<1> HIDE DEF Smaller, Larger
<1>3. [l EXCEPT !.ccalls = @ + 1, !.cshort = Smaller(@, d),
                !.clong = Larger(@, e)] \in LogType
  BY <1>1 DEF LogType
<1>4. ASSUME NEW b \in BOOLEAN
      PROVE  [l EXCEPT !.dcalls = @ + 1, !.dshort = Smaller(@, d), !.dlong = Larger(@, e),
                       !.restored = b] \in LogType
  BY <1>1 DEF LogType
<1> QED
  BY <1>2, <1>3, <1>4

(* A call of either kind: its time is added, and recorded if long enough.   *)
LEMMA TypesCall ==
  ASSUME Inv, FinishCompress \/ FinishDecompress
  PROVE  Types'
<1>1. /\ TypeOK /\ log \in LogType /\ iters \in Nat /\ loopTime \in Nat /\ totalTime \in Nat
      /\ ctime \in Seq(Nat) /\ dtime \in Seq(Nat) /\ Len(results) < tests
  BY DEF Inv, Types, TypeOK, FinishCompress, FinishDecompress
<1>2. PICK d \in CallTimes, w \in Gaps :
        /\ ctime' \in {ctime, Record(ctime, d)} /\ dtime' \in {dtime, Record(dtime, d)}
        /\ loopTime' = loopTime + (w + d) /\ totalTime' = totalTime + (w + d)
        /\ log' \in {[log EXCEPT !.ccalls = @ + 1, !.cshort = Smaller(@, d),
                                 !.clong = Larger(@, w + d)],
                     [log EXCEPT !.dcalls = @ + 1, !.dshort = Smaller(@, d),
                                 !.dlong = Larger(@, w + d),
                                 !.restored = @ \/ (output = "other" /\ output' = "equal")]}
  BY DEF FinishCompress, FinishDecompress
<1>3. d \in Nat /\ w \in Nat /\ w + d \in Nat
  BY <1>2, TurnNat
<1>4. log' \in LogType
  <2>1. PICK e \in Nat : e = w + d
    BY <1>3
  <2>2. /\ [log EXCEPT !.ccalls = @ + 1, !.cshort = Smaller(@, d),
                       !.clong = Larger(@, e)] \in LogType
        /\ [log EXCEPT !.dcalls = @ + 1, !.dshort = Smaller(@, d), !.dlong = Larger(@, e),
                       !.restored = @ \/ (output = "other" /\ output' = "equal")] \in LogType
    BY <1>1, <1>3, LogCall
  <2> QED
    BY <1>2, <2>1, <2>2
<1>5. ctime' \in Seq(Nat) /\ dtime' \in Seq(Nat)
  BY <1>1, <1>2, <1>3, RecordNat
<1>6. iters' \in Nat /\ iters' > 0
  <2>1. iters' = iters + 1
    BY DEF FinishCompress, FinishDecompress
  <2> QED
    BY <1>1, <2>1
<1>7. CallsTypeOK'
  BY <1>1, CallTypes DEF TypeOK, FinishCompress, FinishDecompress
<1>8. /\ pc' \in {"cloop", "cbatch", "dloop", "dbatch"}
      /\ UNCHANGED <<params, par, workmem, total, error, results, tests, live, slow>>
  BY DEF FinishCompress, FinishDecompress
<1>9. loopTime' \in Nat /\ totalTime' \in Nat
  BY <1>1, <1>2, <1>3
<1>10. TypeOK'
  <2>1. DOMAIN log' = DOMAIN NoLog
    BY <1>4 DEF LogType, NoLog
  <2> QED
    BY <1>1, <1>5, <1>6, <1>7, <1>8, <1>9, <2>1 DEF TypeOK
<1> QED
  BY <1>1, <1>4, <1>6, <1>8, <1>10 DEF Inv, Types

(* The end of a batch: the mean of its calls is recorded. *)
LEMMA TypesBatch ==
  ASSUME Inv, LeaveSlow \/ EndCompressBatch \/ ExitOnMismatch \/ EndDecompressBatch
  PROVE  Types'
<1> USE DEF LeaveSlow, EndCompressBatch, ExitOnMismatch, EndDecompressBatch
<1>1. /\ TypeOK /\ log \in LogType /\ iters \in Nat /\ iters > 0 /\ loopTime \in Nat
      /\ totalTime \in Nat /\ total \in Nat /\ slow \in Nat
      /\ ctime \in Seq(Nat) /\ dtime \in Seq(Nat) /\ Len(results) < tests
  BY DEF Inv, Types, TypeOK
<1>2. loopTime \div iters \in Nat
  <2>1. iters \in Nat \ {0}
    BY <1>1
  <2> QED
    BY <1>1, <2>1, DivNat
<1>3. ctime' \in Seq(Nat) /\ dtime' \in Seq(Nat)
  <2>1. ctime' \in {ctime, Append(ctime, loopTime \div iters)}
    OBVIOUS
  <2>2. dtime' \in {dtime, Append(dtime, loopTime \div iters)}
    OBVIOUS
  <2> QED
    BY <1>1, <1>2, <2>1, <2>2, AppendNat
<1>4. log' \in LogType
  <2>1. log' \in {log, [log EXCEPT !.cspan = totalTime],
                  [log EXCEPT !.sound = @ /\ log.restored, !.dspan = totalTime]}
    OBVIOUS
  <2>2. (log.sound /\ log.restored) \in BOOLEAN
    BY Zenon
  <2>3. ASSUME NEW b \in BOOLEAN
        PROVE  [log EXCEPT !.sound = b, !.dspan = totalTime] \in LogType
    BY <1>1 DEF LogType
  <2>4. [log EXCEPT !.cspan = totalTime] \in LogType
    BY <1>1 DEF LogType
  <2> QED
    BY <1>1, <2>1, <2>2, <2>3, <2>4
<1>5. total' \in Nat /\ totalTime' \in Nat /\ slow' \in Nat
  <2>1. total' \in {0, total, total + iters} /\ totalTime' \in {0, totalTime}
    OBVIOUS
  <2>2. slow' \in {slow, slow + 1}
    OBVIOUS
  <2> QED
    BY <1>1, <2>1, <2>2
<1>6. error' \in BOOLEAN
  <2>1. error \in BOOLEAN
    BY <1>1 DEF TypeOK
  <2> QED
    BY <2>1, Zenon DEF Wrong
<1>7. CallsTypeOK'
  BY <1>1, CallTypes DEF TypeOK
<1>8. /\ pc' \in {"idle", "report", "dsleep", "csleep", "exited"}
      /\ workmem' \in {workmem, "null"}
      /\ UNCHANGED <<params, par, iters, loopTime, results, tests, live>>
  OBVIOUS
<1>9. DOMAIN log' = DOMAIN NoLog
  BY <1>4 DEF LogType, NoLog
<1>10. TypeOK'
  BY <1>1, <1>3, <1>5, <1>6, <1>7, <1>8, <1>9 DEF TypeOK
<1> QED
  BY <1>1, <1>4, <1>8, <1>10 DEF Inv, Types

LEMMA TypesReport ==
  ASSUME Inv, Report
  PROVE  Types'
<1>1. /\ TypeOK /\ log \in LogType /\ Len(results) < tests /\ tests \in Nat
  BY BenchAssumption DEF Inv, Types, TypeOK, Report
<1>2. PICK S : results \in Seq(S)
  BY DEF Inv, Types
<1>3. PICK x : results' = Append(results, x)
  BY DEF Report
<1>4. results' \in Seq(S \cup {x}) /\ Len(results') = Len(results) + 1
  BY <1>2, <1>3, AppendFacts
<1>5. Len(results') <= tests
  BY <1>1, <1>2, <1>4
<1>6. /\ ctime' = <<>> /\ dtime' = <<>> /\ pc' = "done"
      /\ UNCHANGED <<params, par, workmem, iters, total, loopTime, totalTime, error,
                     log, tests, live, slow, callVars>>
  BY DEF Report
<1>7. CallsTypeOK'
  BY <1>1, <1>6, CallTypes DEF TypeOK
<1>8. <<>> \in Seq(Nat)
  OBVIOUS
<1>9. TypeOK'
  BY <1>1, <1>5, <1>6, <1>7, <1>8 DEF TypeOK
<1> QED
  BY <1>1, <1>4, <1>6, <1>9 DEF Types

LEMMA TypesSleep ==
  ASSUME Inv, SleepBeforeCompress \/ SleepBeforeDecompress
  PROVE  Types'
<1> USE DEF SleepBeforeCompress, SleepBeforeDecompress, Sleep
<1>1. TypeOK /\ log \in LogType /\ totalTime \in Nat /\ Len(results) < tests
  BY DEF Inv, Types, TypeOK
<1>2. PICK d \in SleepTimes : totalTime' = totalTime + d
  BY DEF Sleep
<1>3. totalTime' \in Nat
  <2>1. d \in Nat
    BY BenchAssumption DEF SleepTimes
  <2> QED
    BY <1>1, <1>2, <2>1
<1>4. log' \in LogType /\ DOMAIN log' = DOMAIN NoLog
  BY <1>1 DEF LogType, NoLog
<1>5. CallsTypeOK'
  BY <1>1, CallTypes DEF TypeOK
<1>6. TypeOK'
  BY <1>1, <1>3, <1>4, <1>5 DEF TypeOK
<1> QED
  BY <1>1, <1>4, <1>6 DEF Inv, Types

LEMMA TypesRest ==
  ASSUME Inv, Prefilter \/ StartCompress \/ StartDecompress \/ Done \/ UNCHANGED benchVars
  PROVE  Types'
<1> USE DEF Prefilter, StartCompress, StartDecompress, Done, benchVars, testVars
<1>1. TypeOK /\ live \in Nat /\ (workmem = "held" => live > 0)
  BY DEF Inv, Types, TypeOK, Memory
<1>2. live' \in Nat
  <2>1. live' \in {live, live - IF workmem = "held" THEN 1 ELSE 0}
    OBVIOUS
  <2> QED
    BY <1>1, <2>1
<1>3. CallsTypeOK'
  BY <1>1, CallTypes DEF TypeOK
<1>4. /\ pc' \in {pc, "idle", "done", "csleep"} /\ workmem' \in {workmem, "null"}
      /\ pc' = "csleep" /\ pc # "csleep" => pc = "filter"
      /\ UNCHANGED <<params, par, iters, total, loopTime, totalTime, ctime, dtime,
                     error, results, log, tests, slow>>
  OBVIOUS
<1>5. TypeOK'
  BY <1>1, <1>2, <1>3, <1>4 DEF TypeOK
<1> QED
  BY <1>4, <1>5 DEF Inv, Types

LEMMA TypesStep ==
  ASSUME Inv, [Next]_benchVars
  PROVE  Types'
BY TypesBegin, TypesCall, TypesBatch, TypesReport, TypesSleep, TypesRest DEF Next, Finished

-------------------------------------------------------------------------------
LEMMA MemoryStep ==
  ASSUME Inv, [Next]_benchVars
  PROVE  Memory'
<1>1. /\ live \in Nat /\ slow \in Nat /\ workmem \in {"null", "held"}
      /\ pc = "idle" => workmem = "null"
      /\ workmem = "held" => live > 0
      /\ live <= slow + IF workmem = "held" THEN 1 ELSE 0
  BY DEF Inv, Types, TypeOK, Memory
<1>2. CASE BeginTest
  <2>1. PICK u \in BOOLEAN, w \in {"null", "held"} : Begin(u, w)
    BY <1>2 DEF BeginTest
  <2>2. /\ workmem = "null" /\ workmem' = w /\ slow' = slow /\ pc' # "idle"
        /\ live' = live + IF w = "held" THEN 1 ELSE 0
    BY <1>1, <2>1 DEF Begin
  <2> QED
    BY <1>1, <2>2 DEF Memory
<1>3. CASE LeaveSlow
  <2>1. workmem' = "null" /\ slow' = slow + 1 /\ live' = live
    BY <1>3 DEF LeaveSlow
  <2> QED
    BY <1>1, <2>1 DEF Memory
<1>4. CASE Done
  <2>1. /\ workmem' = "null" /\ slow' = slow
        /\ live' = live - IF workmem = "held" THEN 1 ELSE 0
    BY <1>4 DEF Done
  <2> QED
    BY <1>1, <2>1 DEF Memory
<1>5. CASE UNCHANGED <<workmem, live, slow>> /\ (pc' = "idle" => pc = "idle")
  BY <1>1, <1>5 DEF Memory
<1> QED
  <2>1. CASE Prefilter \/ SleepBeforeCompress \/ SleepBeforeDecompress
             \/ EndCompressBatch \/ ExitOnMismatch \/ EndDecompressBatch \/ Report
    BY <2>1, <1>5 DEF Prefilter, SleepBeforeCompress, SleepBeforeDecompress, Sleep,
       EndCompressBatch, ExitOnMismatch, EndDecompressBatch, Report
  <2>2. CASE StartCompress \/ FinishCompress \/ StartDecompress \/ FinishDecompress
             \/ UNCHANGED benchVars
    BY <2>2, <1>5 DEF StartCompress, FinishCompress, StartDecompress,
       FinishDecompress, benchVars, testVars
  <2> QED
    BY <1>2, <1>3, <1>4, <2>1, <2>2 DEF Next, Finished

-------------------------------------------------------------------------------
(* Rows are only added. *)
LEMMA RowsReport ==
  ASSUME Inv, Report
  PROVE  Rows' = Rows \cup {[ctime |-> Best(ctime), dtime |-> ShownTime(dtime),
                             par |-> par, log |-> log]}
<1>1. PICK S : results \in Seq(S)
  BY DEF Inv, Types
<1> DEFINE x == [ctime |-> Best(ctime), dtime |-> ShownTime(dtime),
                 par |-> par, log |-> log]
<1>2. results' = Append(results, x)
  BY DEF Report
<1> HIDE DEF x
<1>3. {Append(results, x)[k] : k \in DOMAIN Append(results, x)}
        = {results[k] : k \in DOMAIN results} \cup {x}
  BY <1>1, SetOfAppended
<1>4. Rows' = Rows \cup {x}
  BY <1>2, <1>3 DEF Rows
<1> QED
  BY <1>4 DEF x

LEMMA VerifiedStep ==
  ASSUME Inv, [Next]_benchVars, ~Blank
  PROVE  Verified'
<1>1. /\ pc \notin {"dloop", "dbatch", "exited"} => output = "other"
      /\ pc \in {"dloop", "dbatch"} => output = "other" \/ log.restored = TRUE
      /\ log.sound = TRUE \/ error = TRUE
      /\ \A r \in Rows : r.dtime # 0 => r.log.sound
  BY DEF Inv, Verified, DecodedEachBatch
<1>2. log \in LogType
  BY DEF Inv, Types
<1>3. CASE FinishDecompress
  <2>1. /\ results' = results /\ error' = error /\ pc' \in {"dloop", "dbatch"} /\ pc = "dloop"
        /\ output' \in {"equal", "other"}
    BY <1>3 DEF FinishDecompress, EndDecompress, Agreement
  <2>2. PICK d \in CallTimes, w \in Gaps :
          log' = [log EXCEPT !.dcalls = @ + 1, !.dshort = Smaller(@, d),
                             !.dlong = Larger(@, w + d),
                             !.restored = @ \/ (output = "other" /\ output' = "equal")]
    BY <1>3 DEF FinishDecompress
  <2>3. log'.sound = log.sound
    BY <1>2, <2>2 DEF LogType
  <2>4. log'.restored = (log.restored \/ (output = "other" /\ output' = "equal"))
    BY <1>2, <2>2 DEF LogType
  <2>5. output' = "other" \/ log'.restored = TRUE
    <3>1. CASE log.restored = TRUE
      BY <2>4, <3>1
    <3>2. CASE output = "other" /\ output' = "equal"
      BY <2>4, <3>2
    <3> QED
      BY <1>1, <2>1, <3>1, <3>2
  <2>6. Rows' = Rows
    BY <2>1 DEF Rows
  <2> QED
    BY <1>1, <2>1, <2>3, <2>5, <2>6 DEF Verified, DecodedEachBatch
<1>4. CASE EndDecompressBatch
  <2>1. /\ results' = results /\ output' = "other" /\ pc' \in {"report", "dsleep"}
        /\ pc = "dbatch" /\ error' = Wrong
        /\ log' = [log EXCEPT !.sound = @ /\ log.restored, !.dspan = totalTime]
    BY <1>4 DEF EndDecompressBatch, ClearOutput, Cleared
  <2>2. log'.sound = (log.sound /\ log.restored)
    BY <1>2, <2>1 DEF LogType
  <2>3. log'.sound = TRUE \/ error' = TRUE
    <3>1. CASE error = TRUE
      BY <2>1, <3>1 DEF Wrong
    <3>2. CASE output = "other"
      BY <2>1, <3>2 DEF Wrong, Mismatch
    <3>3. CASE log.sound = TRUE /\ log.restored = TRUE
      BY <2>2, <3>3
    <3> QED
      BY <1>1, <2>1, <3>1, <3>2, <3>3
  <2>4. Rows' = Rows
    BY <2>1 DEF Rows
  <2> QED
    BY <1>1, <2>1, <2>3, <2>4 DEF Verified, DecodedEachBatch
<1>5. CASE Report
  <2>1. /\ pc = "report" /\ pc' = "done" /\ output' = output /\ log' = log /\ error' = error
    BY <1>5 DEF Report, callVars
  <2>2. ShownTime(dtime) # 0 => error # TRUE
    BY DEF ShownTime
  <2>3. \A r \in Rows' : r.dtime # 0 => r.log.sound
    <3> DEFINE x == [ctime |-> Best(ctime), dtime |-> ShownTime(dtime),
                     par |-> par, log |-> log]
    <3>1. x.dtime = ShownTime(dtime) /\ x.log = log
      OBVIOUS
    <3>2. Rows' = Rows \cup {x}
      BY <1>5, RowsReport
    <3> HIDE DEF x
    <3>3. x.dtime # 0 => x.log.sound
      BY <1>1, <2>2, <3>1
    <3> QED
      BY <1>1, <3>2, <3>3
  <2> QED
    BY <1>1, <2>1, <2>3 DEF Verified, DecodedEachBatch
<1>6. CASE BeginTest
  <2>1. /\ pc = "idle" /\ pc' \in {"done", "filter", "csleep"} /\ output' = output
        /\ results' = results /\ log' = NoLog
    BY <1>6 DEF BeginTest, Begin, NextTest
  <2>2. Rows' = Rows
    BY <2>1 DEF Rows
  <2> QED
    BY <1>1, <2>1, <2>2 DEF Verified, DecodedEachBatch, NoLog
<1>7. CASE ExitOnMismatch
  <2>1. pc' = "exited" /\ error' = TRUE /\ Rows' = Rows
    BY <1>7 DEF ExitOnMismatch, Rows
  <2> QED
    BY <1>1, <2>1 DEF Verified, DecodedEachBatch
<1>8. CASE /\ results' = results /\ error' = error /\ output' = output
           /\ log'.sound = log.sound
           /\ \/ pc' = pc /\ log'.restored = log.restored
              \/ pc \notin {"dloop", "dbatch", "exited"}
           /\ pc' = "exited" => pc = "exited"
  <2>1. Rows' = Rows
    BY <1>8 DEF Rows
  <2> QED
    BY <1>1, <1>8, <2>1 DEF Verified, DecodedEachBatch
<1> QED
  <2>1. CASE Prefilter \/ LeaveSlow \/ Done
    BY <2>1, <1>8 DEF Prefilter, LeaveSlow, Done, callVars
  <2>2. CASE SleepBeforeCompress \/ SleepBeforeDecompress
    <3>1. log'.sound = log.sound
      BY <1>2, <2>2 DEF SleepBeforeCompress, SleepBeforeDecompress, Sleep, LogType
    <3> QED
      BY <2>2, <3>1, <1>8 DEF SleepBeforeCompress, SleepBeforeDecompress, Sleep, callVars
  <2>3. CASE FinishCompress
    <3>1. PICK d \in CallTimes, w \in Gaps :
            log' = [log EXCEPT !.ccalls = @ + 1, !.cshort = Smaller(@, d),
                               !.clong = Larger(@, w + d)]
      BY <2>3 DEF FinishCompress
    <3>2. log'.sound = log.sound
      BY <1>2, <3>1 DEF LogType
    <3> QED
      BY <2>3, <3>2, <1>8 DEF FinishCompress, EndCompress
  <2>4. CASE EndCompressBatch
    <3>1. log' \in {log, [log EXCEPT !.cspan = totalTime]}
      BY <2>4 DEF EndCompressBatch
    <3>2. log'.sound = log.sound
      BY <1>2, <3>1 DEF LogType
    <3> QED
      BY <2>4, <3>2, <1>8 DEF EndCompressBatch, callVars
  <2>5. CASE StartCompress \/ StartDecompress
    BY <2>5, <1>8 DEF StartCompress, StartDecompress, BeginCompress, BeginDecompress,
       testVars
  <2>6. CASE UNCHANGED benchVars
    BY <2>6, <1>8 DEF benchVars, testVars, callVars
  <2> QED
    BY <1>3, <1>4, <1>5, <1>6, <1>7, <2>1, <2>2, <2>3, <2>4, <2>5, <2>6 DEF Next, Finished

-------------------------------------------------------------------------------
LEMMA PassingStep ==
  ASSUME Inv, [Next]_benchVars, Lossless, Roomy
  PROVE  Passing'
<1>1. /\ pc \in {"cbatch", "dsleep", "dloop", "dbatch"} => image = "whole"
      /\ pc = "dbatch" => output = "equal" /\ length = "equal"
      /\ error = FALSE
  BY DEF Inv, Passing
<1>2. CASE FinishCompress
  BY <1>1, <1>2 DEF FinishCompress, EndCompress, Passing
<1>3. CASE FinishDecompress
  <2>1. /\ image' = "whole" /\ output' = "equal" /\ length' = "equal" /\ error' = error
        /\ pc' \in {"dloop", "dbatch"}
    BY <1>1, <1>3 DEF FinishDecompress, EndDecompress
  <2> QED
    BY <1>1, <2>1 DEF Passing
<1>4. CASE EndDecompressBatch
  <2>1. /\ pc = "dbatch" /\ pc' \in {"report", "dsleep"} /\ image' = image /\ error' = Wrong
    BY <1>4 DEF EndDecompressBatch, ClearOutput
  <2>2. Wrong = FALSE
    BY <1>1, <2>1 DEF Wrong, Mismatch
  <2> QED
    BY <1>1, <2>1, <2>2 DEF Passing
<1>5. CASE ExitOnMismatch
  BY <1>1, <1>5 DEF ExitOnMismatch, Mismatch
<1>6. CASE BeginTest
  <2>1. error' = FALSE /\ pc' \in {"done", "filter", "csleep"}
    BY <1>6 DEF BeginTest, Begin
  <2> QED
    BY <2>1 DEF Passing
<1>7. CASE StartCompress \/ StartDecompress
  <2>1. pc \in {"cloop", "dloop"} /\ pc' = pc /\ image' = image /\ error' = error
    BY <1>7 DEF StartCompress, StartDecompress, BeginCompress, BeginDecompress, testVars
  <2> QED
    BY <1>1, <2>1 DEF Passing
<1>8. CASE /\ UNCHANGED <<error, callVars>>
           /\ \/ pc' = pc
              \/ pc' \notin {"cbatch", "dsleep", "dloop", "dbatch"}
              \/ pc \in {"cbatch", "dsleep"} /\ pc' # "dbatch"
  BY <1>1, <1>8 DEF Passing, callVars
<1> QED
  <2>1. CASE Prefilter \/ SleepBeforeCompress \/ SleepBeforeDecompress \/ LeaveSlow
             \/ EndCompressBatch \/ Report \/ Done
    BY <2>1, <1>8 DEF Prefilter, SleepBeforeCompress, SleepBeforeDecompress, Sleep,
       LeaveSlow, EndCompressBatch, Report, Done
  <2>2. CASE UNCHANGED benchVars
    BY <2>2, <1>8 DEF benchVars, testVars
  <2> QED
    BY <1>2, <1>3, <1>4, <1>5, <1>6, <1>7, <2>1, <2>2 DEF Next, Finished

-------------------------------------------------------------------------------
LEMMA CountedStep ==
  ASSUME Inv, [Next]_benchVars
  PROVE  Counted'
<1>1. /\ iters \in Nat /\ total \in Nat /\ totalTime \in Nat /\ log \in LogType
      /\ IsParams(par)
  BY DEF Inv, Types, TypeOK
<1>2. /\ log.ccalls \in Nat /\ log.dcalls \in Nat /\ log.cspan \in Nat /\ log.dspan \in Nat
      /\ par.cIters \in Nat /\ par.cMin \in Nat
  BY <1>1 DEF LogType, IsParams
<1>3. Counted
  BY DEF Inv
<1>4. results' = results => (EnoughWork => EnoughWork')
  BY DEF EnoughWork, Rows
<1>5. CASE BeginTest
  <2>1. /\ pc' \in {"done", "filter", "csleep"} /\ total' = 0 /\ dtime' = <<>>
        /\ log' = NoLog /\ results' = results
    BY <1>5 DEF BeginTest, Begin
  <2> QED
    BY <1>3, <1>4, <2>1 DEF Counted, Compressing, Decompressing, NoLog
<1>6. CASE SleepBeforeCompress \/ SleepBeforeDecompress
  <2>1. /\ \/ pc = "csleep" /\ pc' = "cloop"
           \/ pc = "dsleep" /\ pc' = "dloop"
        /\ iters' = 0 /\ total' = total /\ par' = par /\ dtime' = dtime
        /\ results' = results
    BY <1>6 DEF SleepBeforeCompress, SleepBeforeDecompress, Sleep
  <2>2. log' = [log EXCEPT !.restored = FALSE]
    BY <1>6 DEF SleepBeforeCompress, SleepBeforeDecompress, Sleep
  <2>3. log'.ccalls = log.ccalls /\ log'.dcalls = log.dcalls /\ log'.cspan = log.cspan
    BY <1>1, <2>2 DEF LogType
  <2>4. total + 0 = total
    BY <1>1
  <2> QED
    BY <1>3, <1>4, <2>1, <2>3, <2>4 DEF Counted, Compressing, Decompressing
<1>7. CASE FinishCompress
  <2>1. PICK d \in CallTimes, w \in Gaps :
          log' = [log EXCEPT !.ccalls = @ + 1, !.cshort = Smaller(@, d),
                             !.clong = Larger(@, w + d)]
    BY <1>7 DEF FinishCompress
  <2>2. log'.ccalls = log.ccalls + 1 /\ log'.dcalls = log.dcalls
    BY <1>1, <2>1 DEF LogType
  <2>3. /\ pc = "cloop" /\ pc' \in {"cloop", "cbatch"} /\ iters' = iters + 1
        /\ total' = total /\ dtime' = dtime /\ results' = results
    BY <1>7 DEF FinishCompress
  <2>4. total + iters = log.ccalls
    BY <1>3, <2>3 DEF Counted
  <2>5. total + (iters + 1) = log.ccalls + 1
    BY <1>1, <1>2, <2>4
  <2> QED
    BY <1>3, <1>4, <2>2, <2>3, <2>5 DEF Counted, Compressing, Decompressing
<1>8. CASE EndCompressBatch
  <2>1. /\ pc = "cbatch" /\ results' = results /\ dtime' = dtime /\ par' = par
        /\ total + iters = log.ccalls /\ log.dcalls = 0 /\ dtime = <<>>
    BY <1>3, <1>8 DEF EndCompressBatch, Counted, Compressing
  <2>2. CASE QuotaMet(total + iters, totalTime, par.cIters, par.cMin)
    <3>1. /\ pc' \in {"report", "dsleep"} /\ total' = 0
          /\ log' = [log EXCEPT !.cspan = totalTime]
      BY <1>8, <2>2 DEF EndCompressBatch
    <3>2. log'.ccalls = log.ccalls /\ log'.dcalls = log.dcalls /\ log'.cspan = totalTime
      BY <1>1, <3>1 DEF LogType
    <3>3. log.ccalls >= par.cIters /\ totalTime > par.cMin
      BY <2>1, <2>2 DEF QuotaMet
    <3> QED
      BY <1>3, <1>4, <2>1, <3>1, <3>2, <3>3 DEF Counted, Compressing, Decompressing
  <2>3. CASE ~QuotaMet(total + iters, totalTime, par.cIters, par.cMin)
    <3>1. pc' = "csleep" /\ total' = total + iters /\ log' = log
      BY <1>8, <2>3 DEF EndCompressBatch
    <3> QED
      BY <1>3, <1>4, <2>1, <3>1 DEF Counted, Compressing, Decompressing
  <2> QED
    BY <2>2, <2>3
<1>9. CASE FinishDecompress
  <2>1. PICK d \in CallTimes, w \in Gaps :
          log' = [log EXCEPT !.dcalls = @ + 1, !.dshort = Smaller(@, d),
                             !.dlong = Larger(@, w + d),
                             !.restored = @ \/ (output = "other" /\ output' = "equal")]
    BY <1>9 DEF FinishDecompress
  <2>2. /\ log'.ccalls = log.ccalls /\ log'.cspan = log.cspan
        /\ log'.dcalls = log.dcalls + 1
    BY <1>1, <2>1 DEF LogType
  <2>3. /\ pc = "dloop" /\ pc' \in {"dloop", "dbatch"} /\ iters' = iters + 1
        /\ total' = total /\ results' = results /\ par' = par
    BY <1>9 DEF FinishDecompress
  <2>4. total + iters = log.dcalls
    BY <1>3, <2>3 DEF Counted
  <2>5. total + (iters + 1) = log.dcalls + 1
    BY <1>1, <1>2, <2>4
  <2> QED
    BY <1>3, <1>4, <2>2, <2>3, <2>5 DEF Counted, Compressing, Decompressing
<1>10. CASE EndDecompressBatch
  <2>1. /\ pc = "dbatch" /\ results' = results /\ par' = par /\ total + iters = log.dcalls
        /\ error' = Wrong
        /\ log' = [log EXCEPT !.sound = @ /\ log.restored, !.dspan = totalTime]
        /\ IF Wrong \/ QuotaMet(total + iters, totalTime, par.dIters, par.dMin)
             THEN pc' = "report" ELSE pc' = "dsleep" /\ total' = total + iters
    BY <1>3, <1>10 DEF EndDecompressBatch, Counted
  <2>2. /\ log'.ccalls = log.ccalls /\ log'.cspan = log.cspan
        /\ log'.dcalls = log.dcalls /\ log'.dspan = totalTime
    BY <1>1, <2>1 DEF LogType
  <2>3. pc' = "report" /\ error' = FALSE => log.dcalls >= par.dIters /\ totalTime > par.dMin
    BY <2>1 DEF QuotaMet
  <2>4. Decompressing
    BY <2>1 DEF Decompressing
  <2> QED
    BY <1>3, <1>4, <2>1, <2>2, <2>3, <2>4 DEF Counted, Compressing, Decompressing
<1>11. CASE Report
  <2>1. pc = "report" /\ pc' = "done"
    BY <1>11 DEF Report
  <2>2. EnoughWork'
    <3> DEFINE x == [ctime |-> Best(ctime), dtime |-> ShownTime(dtime),
                     par |-> par, log |-> log]
    <3>1. x.dtime = ShownTime(dtime) /\ x.log = log /\ x.par = par
      OBVIOUS
    <3>2. Rows' = Rows \cup {x}
      BY <1>11, RowsReport
    <3> HIDE DEF x
    <3>3. /\ log.ccalls >= par.cIters /\ log.cspan > par.cMin
          /\ (error = FALSE /\ dtime # <<>>) => (log.dcalls >= par.dIters /\ log.dspan > par.dMin)
      BY <1>3, <2>1 DEF Counted
    <3>4. ShownTime(dtime) # 0 => error = FALSE /\ dtime # <<>>
      <4>1. error \in BOOLEAN
        BY DEF Inv, Types, TypeOK
      <4> QED
        BY <4>1, BestEmpty DEF ShownTime
    <3>5. /\ x.log.ccalls >= x.par.cIters /\ x.log.cspan > x.par.cMin
          /\ x.dtime # 0 => x.log.dcalls >= x.par.dIters /\ x.log.dspan > x.par.dMin
      BY <3>1, <3>3, <3>4
    <3> QED
      BY <1>3, <3>2, <3>5 DEF Counted, EnoughWork
  <2> QED
    BY <2>1, <2>2 DEF Counted, Compressing, Decompressing
<1>12. CASE pc' \in {"idle", "done", "exited"} /\ results' = results
  BY <1>3, <1>4, <1>12 DEF Counted, Compressing, Decompressing
<1>13. CASE /\ pc' = pc \/ (pc = "filter" /\ pc' = "csleep")
            /\ UNCHANGED <<par, iters, total, dtime, error, results, log>>
  BY <1>3, <1>4, <1>13 DEF Counted, Compressing, Decompressing
<1> QED
  <2>1. CASE LeaveSlow \/ ExitOnMismatch \/ Done
    BY <2>1, <1>12 DEF LeaveSlow, ExitOnMismatch, Done
  <2>2. CASE Prefilter
    BY <2>2, <1>12, <1>13 DEF Prefilter
  <2>3. CASE StartCompress \/ StartDecompress \/ UNCHANGED benchVars
    BY <2>3, <1>13 DEF StartCompress, StartDecompress, benchVars, testVars
  <2> QED
    BY <1>5, <1>6, <1>7, <1>8, <1>9, <1>10, <1>11, <2>1, <2>2, <2>3 DEF Next, Finished

-------------------------------------------------------------------------------
LEMMA WithinAppend ==
  ASSUME NEW s \in Seq(Nat), NEW lo \in Nat, NEW hi \in Nat, NEW x \in Nat,
         Within(s, lo, hi), lo <= x, x <= hi
  PROVE  Within(Append(s, x), lo, hi)
BY AppendFacts DEF Within

LEMMA WithinWider ==
  ASSUME NEW s \in Seq(Nat), NEW lo \in Nat, NEW hi \in Nat,
         NEW d \in Nat, NEW e \in Nat, Within(s, lo, hi)
  PROVE  /\ Smaller(lo, d) \in Nat /\ Smaller(lo, d) <= d
         /\ Larger(hi, e) \in Nat /\ e <= Larger(hi, e)
         /\ Within(s, Smaller(lo, d), Larger(hi, e))
BY DEF Within, Smaller, Larger

(* A call that is recorded is no longer than its turn.                      *)
LEMMA WithinRecord ==
  ASSUME NEW s \in Seq(Nat), NEW lo \in Nat, NEW hi \in Nat,
         NEW d \in Nat, NEW e \in Nat, d <= e, Within(s, lo, hi)
  PROVE  Within(Record(s, d), Smaller(lo, d), Larger(hi, e))
<1>1. PICK a \in Nat, b \in Nat : a = Smaller(lo, d) /\ b = Larger(hi, e)
  BY WithinWider
<1>2. Within(s, a, b) /\ a <= d /\ e <= b
  BY <1>1, WithinWider
<1>3. Within(Append(s, d), a, b)
  BY <1>2, WithinAppend
<1> QED
  BY <1>1, <1>2, <1>3 DEF Record

LEMMA TimedCompress ==
  ASSUME Inv, FinishCompress
  PROVE  Timed'
<1>1. /\ log \in LogType /\ iters \in Nat /\ loopTime \in Nat
      /\ ctime \in Seq(Nat) /\ dtime \in Seq(Nat) /\ Timed
  BY DEF Inv, Types, TypeOK
<1>2. log.cshort \in Nat /\ log.clong \in Nat
  BY <1>1 DEF LogType
<1>3. PICK d \in CallTimes, w \in Gaps :
        /\ ctime' = Record(ctime, d) /\ loopTime' = loopTime + (w + d)
        /\ log' = [log EXCEPT !.ccalls = @ + 1, !.cshort = Smaller(@, d),
                              !.clong = Larger(@, w + d)]
  BY DEF FinishCompress
<1>4. d \in Nat /\ w + d \in Nat /\ d <= w + d
  BY TurnNat
<1>5. /\ log'.cshort = Smaller(log.cshort, d) /\ log'.clong = Larger(log.clong, w + d)
      /\ log'.dshort = log.dshort /\ log'.dlong = log.dlong
  BY <1>1, <1>3 DEF LogType
<1>6. /\ iters' = iters + 1 /\ pc = "cloop" /\ pc' \in {"cloop", "cbatch"}
      /\ dtime' = dtime /\ results' = results
  BY DEF FinishCompress
<1>7. /\ Within(ctime, log.cshort, log.clong)
      /\ Within(dtime, log.dshort, log.dlong)
      /\ iters * log.cshort <= loopTime /\ loopTime <= iters * log.clong
      /\ TimesWithinTurns
  BY <1>1, <1>6 DEF Timed
<1>8. Within(ctime', log'.cshort, log'.clong)
  BY <1>1, <1>2, <1>3, <1>4, <1>5, <1>7, WithinRecord
<1>9. /\ iters' * log'.cshort <= loopTime' /\ loopTime' <= iters' * log'.clong
  BY <1>1, <1>2, <1>3, <1>4, <1>5, <1>6, <1>7, OneMore
<1>10. TimesWithinTurns'
  BY <1>6, <1>7 DEF TimesWithinTurns, Rows
<1>11. Within(dtime', log'.dshort, log'.dlong)
  BY <1>5, <1>6, <1>7
<1> QED
  BY <1>6, <1>8, <1>9, <1>10, <1>11 DEF Timed, Within

LEMMA TimedDecompress ==
  ASSUME Inv, FinishDecompress
  PROVE  Timed'
<1>1. /\ log \in LogType /\ iters \in Nat /\ loopTime \in Nat
      /\ ctime \in Seq(Nat) /\ dtime \in Seq(Nat) /\ Timed
  BY DEF Inv, Types, TypeOK
<1>2. log.dshort \in Nat /\ log.dlong \in Nat
  BY <1>1 DEF LogType
<1>3. PICK d \in CallTimes, w \in Gaps :
        /\ dtime' = Record(dtime, d) /\ loopTime' = loopTime + (w + d)
        /\ log' = [log EXCEPT !.dcalls = @ + 1, !.dshort = Smaller(@, d),
                              !.dlong = Larger(@, w + d),
                              !.restored = @ \/ (output = "other" /\ output' = "equal")]
  BY DEF FinishDecompress
<1>4. d \in Nat /\ w + d \in Nat /\ d <= w + d
  BY TurnNat
<1>5. /\ log'.dshort = Smaller(log.dshort, d) /\ log'.dlong = Larger(log.dlong, w + d)
      /\ log'.cshort = log.cshort /\ log'.clong = log.clong
  BY <1>1, <1>3 DEF LogType
<1>6. /\ iters' = iters + 1 /\ pc = "dloop" /\ pc' \in {"dloop", "dbatch"}
      /\ ctime' = ctime /\ results' = results
  BY DEF FinishDecompress
<1>7. /\ Within(ctime, log.cshort, log.clong)
      /\ Within(dtime, log.dshort, log.dlong)
      /\ iters * log.dshort <= loopTime /\ loopTime <= iters * log.dlong
      /\ TimesWithinTurns
  BY <1>1, <1>6 DEF Timed
<1>8. Within(dtime', log'.dshort, log'.dlong)
  BY <1>1, <1>2, <1>3, <1>4, <1>5, <1>7, WithinRecord
<1>9. /\ iters' * log'.dshort <= loopTime' /\ loopTime' <= iters' * log'.dlong
  BY <1>1, <1>2, <1>3, <1>4, <1>5, <1>6, <1>7, OneMore
<1>10. TimesWithinTurns'
  BY <1>6, <1>7 DEF TimesWithinTurns, Rows
<1>11. Within(ctime', log'.cshort, log'.clong)
  BY <1>5, <1>6, <1>7
<1> QED
  BY <1>6, <1>8, <1>9, <1>10, <1>11 DEF Timed, Within

(* The mean of a batch lies between its calls.                              *)
LEMMA TimedBatch ==
  ASSUME Inv, LeaveSlow \/ EndCompressBatch \/ ExitOnMismatch \/ EndDecompressBatch
  PROVE  Timed'
<1>1. /\ log \in LogType /\ iters \in Nat \ {0} /\ loopTime \in Nat /\ totalTime \in Nat
      /\ ctime \in Seq(Nat) /\ dtime \in Seq(Nat) /\ Timed
  BY DEF Inv, Types, TypeOK, LeaveSlow, EndCompressBatch, ExitOnMismatch,
         EndDecompressBatch
<1>2. /\ log.cshort \in Nat /\ log.clong \in Nat
      /\ log.dshort \in Nat /\ log.dlong \in Nat
  BY <1>1 DEF LogType
<1>3. /\ log' \in {log, [log EXCEPT !.cspan = totalTime],
                   [log EXCEPT !.sound = @ /\ log.restored, !.dspan = totalTime]}
      /\ results' = results /\ pc' \in {"idle", "report", "dsleep", "csleep", "exited"}
  BY DEF LeaveSlow, EndCompressBatch, ExitOnMismatch, EndDecompressBatch
<1>4. /\ log'.cshort = log.cshort /\ log'.clong = log.clong
      /\ log'.dshort = log.dshort /\ log'.dlong = log.dlong
  BY <1>1, <1>3 DEF LogType
<1>5. PICK m \in Nat : m = loopTime \div iters
  BY <1>1, DivNat
<1>6. Within(ctime', log.cshort, log.clong)
  <2>1. CASE LeaveSlow \/ EndCompressBatch
    <3>1. ctime' = Append(ctime, m) /\ pc = "cbatch"
      BY <2>1, <1>5 DEF LeaveSlow, EndCompressBatch
    <3>2. /\ iters * log.cshort <= loopTime /\ loopTime <= iters * log.clong
          /\ Within(ctime, log.cshort, log.clong)
      BY <1>1, <3>1 DEF Timed
    <3>3. log.cshort <= m /\ m <= log.clong
      BY <1>1, <1>2, <1>5, <3>2, MeanWithin
    <3> QED
      BY <1>1, <1>2, <3>1, <3>2, <3>3, WithinAppend
  <2>2. CASE ExitOnMismatch \/ EndDecompressBatch
    BY <2>2, <1>1 DEF ExitOnMismatch, EndDecompressBatch, Timed
  <2> QED
    BY <2>1, <2>2
<1>7. Within(dtime', log.dshort, log.dlong)
  <2>1. CASE ExitOnMismatch \/ EndDecompressBatch
    <3>1. dtime' = Append(dtime, m) /\ pc = "dbatch"
      BY <2>1, <1>5 DEF ExitOnMismatch, EndDecompressBatch
    <3>2. /\ iters * log.dshort <= loopTime /\ loopTime <= iters * log.dlong
          /\ Within(dtime, log.dshort, log.dlong)
      BY <1>1, <3>1 DEF Timed
    <3>3. log.dshort <= m /\ m <= log.dlong
      BY <1>1, <1>2, <1>5, <3>2, MeanWithin
    <3> QED
      BY <1>1, <1>2, <3>1, <3>2, <3>3, WithinAppend
  <2>2. CASE LeaveSlow \/ EndCompressBatch
    BY <2>2, <1>1 DEF LeaveSlow, EndCompressBatch, Timed
  <2> QED
    BY <2>1, <2>2
<1>8. TimesWithinTurns'
  BY <1>1, <1>3 DEF Timed, TimesWithinTurns, Rows
<1>9. Within(ctime', log'.cshort, log'.clong) /\ Within(dtime', log'.dshort, log'.dlong)
  BY <1>4, <1>6, <1>7
<1> QED
  BY <1>3, <1>8, <1>9 DEF Timed, Within

LEMMA TimedReport ==
  ASSUME Inv, Report
  PROVE  Timed'
<1>1. /\ log \in LogType /\ ctime \in Seq(Nat) /\ dtime \in Seq(Nat) /\ Timed
      /\ par.timetype \in TimeType /\ error \in BOOLEAN
  BY DEF Inv, Types, TypeOK, IsParams
<1>2. /\ log.cshort \in Nat /\ log.clong \in Nat
      /\ log.dshort \in Nat /\ log.dlong \in Nat
  BY <1>1 DEF LogType
<1>3. ctime # <<>>
  BY DEF Inv, Paced, FastBatch, Report
<1>4. Best(ctime) \in log.cshort .. log.clong
  <2>1. Chosen(ctime) \in log.cshort .. log.clong
    BY <1>1, <1>2, <1>3, ChosenWithin DEF Timed
  <2> QED
    BY <2>1, <1>3 DEF Best
<1>5. ShownTime(dtime) # 0 => ShownTime(dtime) \in log.dshort .. log.dlong
  <2>1. SUFFICES ASSUME ShownTime(dtime) # 0
                 PROVE  ShownTime(dtime) \in log.dshort .. log.dlong
    OBVIOUS
  <2>2. dtime # <<>> /\ ShownTime(dtime) = Chosen(dtime)
    BY <2>1, <1>1 DEF ShownTime, Best
  <2>3. Chosen(dtime) \in log.dshort .. log.dlong
    BY <1>1, <1>2, <2>2, ChosenWithin DEF Timed
  <2> QED
    BY <2>2, <2>3
<1>6. ASSUME par.timetype = "fastest" PROVE
        /\ log.cshort >= Precision => Best(ctime) = log.cshort
        /\ ShownTime(dtime) # 0 /\ log.dshort >= Precision =>
             ShownTime(dtime) = log.dshort
  <2>1. /\ Kept(ctime, log.ccalls, log.cshort) /\ Kept(dtime, log.dcalls, log.dshort)
        /\ log.ccalls \in Nat /\ log.dcalls \in Nat
    BY <1>1 DEF Inv, Shortest, Report, LogType
  <2>2. ASSUME log.cshort >= Precision PROVE Best(ctime) = log.cshort
    <3>1. PICK k \in DOMAIN ctime : ctime[k] = log.cshort
      BY <1>3, <2>1, <2>2 DEF Kept
    <3>2. Best(ctime) = Ranked(ctime, 1)
      BY <1>3, <1>6 DEF Best, Chosen
    <3>3. Ranked(ctime, 1) \in Nat /\ Ranked(ctime, 1) <= log.cshort
      BY <1>1, <3>1, RankedFirst
    <3> QED
      BY <1>2, <1>4, <3>2, <3>3
  <2>3. ASSUME ShownTime(dtime) # 0, log.dshort >= Precision
        PROVE  ShownTime(dtime) = log.dshort
    <3>1. dtime # <<>> /\ ShownTime(dtime) = Chosen(dtime)
      BY <2>3, <1>1 DEF ShownTime, Best
    <3>2. PICK k \in DOMAIN dtime : dtime[k] = log.dshort
      BY <3>1, <2>1, <2>3 DEF Kept
    <3>3. Chosen(dtime) = Ranked(dtime, 1)
      BY <1>6 DEF Chosen
    <3>4. Ranked(dtime, 1) \in Nat /\ Ranked(dtime, 1) <= log.dshort
      BY <1>1, <3>2, RankedFirst
    <3> QED
      BY <1>2, <1>5, <2>3, <3>1, <3>3, <3>4
  <2> QED
    BY <2>2, <2>3
<1>7. TimesWithinTurns'
  <2> DEFINE x == [ctime |-> Best(ctime), dtime |-> ShownTime(dtime),
                   par |-> par, log |-> log]
  <2>1. /\ x.ctime = Best(ctime) /\ x.dtime = ShownTime(dtime) /\ x.log = log
        /\ x.par = par
    OBVIOUS
  <2>2. Rows' = Rows \cup {x}
    BY RowsReport
  <2> HIDE DEF x
  <2>3. TimesWithinTurns
    BY <1>1 DEF Timed
  <2> QED
    BY <2>1, <2>2, <2>3, <1>4, <1>5, <1>6 DEF TimesWithinTurns
<1>8. ctime' = <<>> /\ dtime' = <<>> /\ pc' = "done"
  BY DEF Report
<1> QED
  BY <1>7, <1>8 DEF Timed, Within

LEMMA TimedStep ==
  ASSUME Inv, [Next]_benchVars
  PROVE  Timed'
<1>1. log \in LogType /\ Timed
  BY DEF Inv, Types
<1>2. results' = results => TimesWithinTurns'
  BY <1>1 DEF Timed, TimesWithinTurns, Rows
<1>3. CASE SleepBeforeCompress \/ SleepBeforeDecompress
  <2>1. /\ UNCHANGED <<ctime, dtime, results>> /\ iters' = 0 /\ loopTime' = 0
        /\ log' = [log EXCEPT !.restored = FALSE]
    BY <1>3 DEF SleepBeforeCompress, SleepBeforeDecompress, Sleep
  <2>2. /\ log'.cshort = log.cshort /\ log'.clong = log.clong
        /\ log'.dshort = log.dshort /\ log'.dlong = log.dlong
        /\ log.cshort \in Nat /\ log.clong \in Nat
        /\ log.dshort \in Nat /\ log.dlong \in Nat
    BY <1>1, <2>1 DEF LogType
  <2>3. /\ iters' * log'.cshort = 0 /\ iters' * log'.clong = 0
        /\ iters' * log'.dshort = 0 /\ iters' * log'.dlong = 0
    BY <2>1, <2>2
  <2>4. Within(ctime', log'.cshort, log'.clong) /\ Within(dtime', log'.dshort, log'.dlong)
    BY <1>1, <2>1, <2>2 DEF Timed
  <2> QED
    BY <1>2, <2>1, <2>3, <2>4 DEF Timed, Within
<1>4. CASE BeginTest
  <2>1. /\ ctime' = <<>> /\ dtime' = <<>> /\ results' = results
        /\ pc' \in {"done", "filter", "csleep"}
    BY <1>4 DEF BeginTest, Begin
  <2> QED
    BY <1>2, <2>1 DEF Timed, Within
<1>5. CASE Prefilter \/ StartCompress \/ StartDecompress \/ Done \/ UNCHANGED benchVars
  <2>1. /\ UNCHANGED <<ctime, dtime, results, log, iters, loopTime>>
        /\ pc' = pc \/ pc' \in {"done", "csleep", "idle"}
    BY <1>5 DEF Prefilter, StartCompress, StartDecompress, Done, benchVars, testVars
  <2> QED
    BY <1>1, <1>2, <2>1 DEF Timed, Within
<1> QED
  BY <1>3, <1>4, <1>5, TimedCompress, TimedDecompress, TimedBatch, TimedReport
     DEF Next, Finished

-------------------------------------------------------------------------------
LEMMA KeptCall ==
  ASSUME NEW s \in Seq(Nat), NEW n \in Nat, NEW short \in Nat,
         NEW d \in CallTimes, Kept(s, n, short)
  PROVE  Kept(Record(s, d), n + 1, Smaller(short, d))
<1>1. d \in Nat /\ MaxCall \in Nat /\ d <= MaxCall /\ Precision \in Nat
  BY BenchAssumption DEF CallTimes
<1>2. SUFFICES ASSUME Smaller(short, d) >= Precision
               PROVE  \E k \in DOMAIN Record(s, d) : Record(s, d)[k] = Smaller(short, d)
  BY DEF Kept
<1>3. CASE short < d
  <2>1. n > 0 /\ short >= Precision /\ Smaller(short, d) = short
    BY <1>1, <1>2, <1>3 DEF Kept, Smaller
  <2>2. PICK k \in DOMAIN s : s[k] = short
    BY <2>1 DEF Kept
  <2>3. k \in DOMAIN Record(s, d) /\ Record(s, d)[k] = short
    BY <1>1, <2>2, AppendFacts DEF Record
  <2> QED
    BY <2>1, <2>3
<1>4. CASE ~(short < d)
  <2>1. Smaller(short, d) = d /\ d >= Precision /\ Record(s, d) = Append(s, d)
    BY <1>2, <1>4 DEF Smaller, Record
  <2>2. Len(s) + 1 \in DOMAIN Append(s, d) /\ Append(s, d)[Len(s) + 1] = d
    BY <1>1
  <2> QED
    BY <2>1, <2>2
<1> QED
  BY <1>3, <1>4

LEMMA KeptBatch ==
  ASSUME NEW s \in Seq(Nat), NEW n \in Nat \ {0}, NEW short, NEW m \in Nat,
         Kept(s, n, short)
  PROVE  Kept(Append(s, m), n, short)
<1>1. SUFFICES ASSUME short >= Precision
               PROVE  \E k \in DOMAIN Append(s, m) : Append(s, m)[k] = short
  BY DEF Kept
<1>2. PICK k \in DOMAIN s : s[k] = short
  BY <1>1 DEF Kept
<1>3. k \in DOMAIN Append(s, m) /\ Append(s, m)[k] = short
  BY <1>2, AppendFacts
<1> QED
  BY <1>3

LEMMA ShortestStep ==
  ASSUME Inv, [Next]_benchVars
  PROVE  Shortest'
<1>1. /\ log \in LogType /\ ctime \in Seq(Nat) /\ dtime \in Seq(Nat)
      /\ iters \in Nat /\ total \in Nat /\ loopTime \in Nat
  BY DEF Inv, Types, TypeOK
<1>2. /\ log.ccalls \in Nat /\ log.cshort \in Nat
      /\ log.dcalls \in Nat /\ log.dshort \in Nat
  BY <1>1 DEF LogType
<1>3. CASE BeginTest
  <2>1. ctime' = <<>> /\ dtime' = <<>> /\ log' = NoLog
    BY <1>3 DEF BeginTest, Begin
  <2>2. /\ log'.ccalls = 0 /\ log'.cshort = MaxCall
        /\ log'.dcalls = 0 /\ log'.dshort = MaxCall
    BY <2>1 DEF NoLog
  <2> QED
    BY <2>1, <2>2 DEF Shortest, Kept
<1>4. CASE LeaveSlow \/ ExitOnMismatch \/ Report \/ Done
  <2>1. pc' \in {"idle", "done", "exited"}
    BY <1>4 DEF LeaveSlow, ExitOnMismatch, Report, Done
  <2> QED
    BY <2>1 DEF Shortest
<1>5. CASE FinishCompress
  <2>1. PICK d \in CallTimes, w \in Gaps :
          /\ ctime' = Record(ctime, d)
          /\ log' = [log EXCEPT !.ccalls = @ + 1, !.cshort = Smaller(@, d),
                                !.clong = Larger(@, w + d)]
    BY <1>5 DEF FinishCompress
  <2>2. /\ log'.ccalls = log.ccalls + 1 /\ log'.cshort = Smaller(log.cshort, d)
        /\ log'.dcalls = log.dcalls /\ log'.dshort = log.dshort
    BY <1>1, <2>1 DEF LogType
  <2>3. /\ Kept(ctime, log.ccalls, log.cshort) /\ Kept(dtime, log.dcalls, log.dshort)
        /\ dtime' = dtime
    BY <1>5 DEF Inv, Shortest, FinishCompress
  <2>4. Kept(ctime', log'.ccalls, log'.cshort)
    BY <1>1, <1>2, <2>1, <2>2, <2>3, KeptCall
  <2> QED
    BY <2>2, <2>3, <2>4 DEF Shortest, Kept
<1>6. CASE FinishDecompress
  <2>1. PICK d \in CallTimes, w \in Gaps :
          /\ dtime' = Record(dtime, d)
          /\ log' = [log EXCEPT !.dcalls = @ + 1, !.dshort = Smaller(@, d),
                                !.dlong = Larger(@, w + d),
                                !.restored = @ \/ (output = "other" /\ output' = "equal")]
    BY <1>6 DEF FinishDecompress
  <2>2. /\ log'.dcalls = log.dcalls + 1 /\ log'.dshort = Smaller(log.dshort, d)
        /\ log'.ccalls = log.ccalls /\ log'.cshort = log.cshort
    BY <1>1, <2>1 DEF LogType
  <2>3. /\ Kept(ctime, log.ccalls, log.cshort) /\ Kept(dtime, log.dcalls, log.dshort)
        /\ ctime' = ctime
    BY <1>6 DEF Inv, Shortest, FinishDecompress
  <2>4. Kept(dtime', log'.dcalls, log'.dshort)
    BY <1>1, <1>2, <2>1, <2>2, <2>3, KeptCall
  <2> QED
    BY <2>2, <2>3, <2>4 DEF Shortest, Kept
<1>7. CASE EndCompressBatch
  <2>1. /\ pc = "cbatch" /\ ctime' = Append(ctime, loopTime \div iters) /\ dtime' = dtime
        /\ log' \in {log, [log EXCEPT !.cspan = totalTime]}
    BY <1>7 DEF EndCompressBatch
  <2>2. /\ log'.ccalls = log.ccalls /\ log'.cshort = log.cshort
        /\ log'.dcalls = log.dcalls /\ log'.dshort = log.dshort
    BY <1>1, <2>1 DEF LogType
  <2>3. iters > 0 /\ total + iters = log.ccalls
    BY <2>1 DEF Inv, Types, Counted
  <2>4. log.ccalls \in Nat \ {0}
    BY <1>1, <1>2, <2>3
  <2>5. Kept(ctime, log.ccalls, log.cshort) /\ Kept(dtime, log.dcalls, log.dshort)
    BY <2>1 DEF Inv, Shortest
  <2>6. loopTime \div iters \in Nat
    BY <1>1, <2>3, DivNat
  <2>7. Kept(ctime', log.ccalls, log.cshort)
    BY <1>1, <2>1, <2>4, <2>5, <2>6, KeptBatch
  <2> QED
    BY <2>1, <2>2, <2>5, <2>7 DEF Shortest
<1>8. CASE EndDecompressBatch
  <2>1. /\ pc = "dbatch" /\ dtime' = Append(dtime, loopTime \div iters) /\ ctime' = ctime
        /\ log' = [log EXCEPT !.sound = @ /\ log.restored, !.dspan = totalTime]
    BY <1>8 DEF EndDecompressBatch
  <2>2. /\ log'.ccalls = log.ccalls /\ log'.cshort = log.cshort
        /\ log'.dcalls = log.dcalls /\ log'.dshort = log.dshort
    BY <1>1, <2>1 DEF LogType
  <2>3. iters > 0 /\ total + iters = log.dcalls
    BY <2>1 DEF Inv, Types, Counted
  <2>4. log.dcalls \in Nat \ {0}
    BY <1>1, <1>2, <2>3
  <2>5. Kept(ctime, log.ccalls, log.cshort) /\ Kept(dtime, log.dcalls, log.dshort)
    BY <2>1 DEF Inv, Shortest
  <2>6. loopTime \div iters \in Nat
    BY <1>1, <2>3, DivNat
  <2>7. Kept(dtime', log.dcalls, log.dshort)
    BY <1>1, <2>1, <2>4, <2>5, <2>6, KeptBatch
  <2> QED
    BY <2>1, <2>2, <2>5, <2>7 DEF Shortest
<1>9. CASE SleepBeforeCompress \/ SleepBeforeDecompress
  <2>1. /\ UNCHANGED <<ctime, dtime>> /\ log' = [log EXCEPT !.restored = FALSE]
        /\ pc \in {"csleep", "dsleep"}
    BY <1>9 DEF SleepBeforeCompress, SleepBeforeDecompress, Sleep
  <2>2. /\ log'.ccalls = log.ccalls /\ log'.cshort = log.cshort
        /\ log'.dcalls = log.dcalls /\ log'.dshort = log.dshort
    BY <1>1, <2>1 DEF LogType
  <2> QED
    BY <2>1, <2>2 DEF Inv, Shortest
<1>10. CASE Prefilter
  <2>1. UNCHANGED <<ctime, dtime, log>> /\ pc = "filter"
    BY <1>10 DEF Prefilter
  <2> QED
    BY <2>1 DEF Inv, Shortest
<1>11. CASE StartCompress \/ StartDecompress \/ UNCHANGED benchVars
  <2>1. UNCHANGED <<ctime, dtime, log, pc>>
    BY <1>11 DEF StartCompress, StartDecompress, benchVars, testVars
  <2> QED
    BY <2>1 DEF Inv, Shortest
<1> QED
  BY <1>3, <1>4, <1>5, <1>6, <1>7, <1>8, <1>9, <1>10, <1>11 DEF Next, Finished

-------------------------------------------------------------------------------
(* A batch that is not left for its speed is fast enough for -s.            *)
LEMMA PacedBatch ==
  ASSUME Inv, EndCompressBatch
  PROVE  FastBatch'
<1>1. /\ iters \in Nat \ {0} /\ loopTime \in Nat /\ ctime \in Seq(Nat)
      /\ par.cspeed \in Nat /\ Size \in Nat
  BY BenchAssumption DEF Inv, Types, TypeOK, IsParams, EndCompressBatch
<1>2. PICK m \in Nat : m = loopTime \div iters
  BY <1>1, DivNat
<1>3. ctime' = Append(ctime, m) /\ par' = par /\ MayBeFast(iters, loopTime)
  BY <1>2 DEF EndCompressBatch
<1>4. m * par.cspeed <= Size
  <2>1. CASE loopTime = 0
    <3>1. m = 0
      BY <2>1, <1>1, <1>2
    <3> QED
      BY <3>1, <1>1
  <2>2. CASE loopTime # 0
    <3>1. iters * Size >= par.cspeed * loopTime
      BY <2>2, <1>3 DEF MayBeFast
    <3> QED
      BY <3>1, <1>1, <1>2, MeanSpeed
  <2> QED
    BY <2>1, <2>2
<1>5. PICK k : k \in DOMAIN Append(ctime, m) /\ Append(ctime, m)[k] = m
  <2>1. /\ DOMAIN Append(ctime, m) = 1 .. Len(ctime) + 1
        /\ Append(ctime, m)[Len(ctime) + 1] = m
    BY <1>1, AppendFacts
  <2>2. Len(ctime) + 1 \in 1 .. Len(ctime) + 1
    BY <1>1
  <2> QED
    BY <2>1, <2>2
<1> QED
  BY <1>3, <1>4, <1>5 DEF FastBatch

LEMMA PacedStep ==
  ASSUME Inv, [Next]_benchVars
  PROVE  Paced'
<1>1. /\ Paced /\ ctime \in Seq(Nat)
  BY DEF Inv, Types, TypeOK
<1>2. results' = results => FastRowsOnly'
  BY <1>1 DEF Paced, FastRowsOnly, Rows
<1>3. CASE EndCompressBatch
  <2>1. results' = results
    BY <1>3 DEF EndCompressBatch
  <2> QED
    BY <1>2, <1>3, <2>1, PacedBatch DEF Paced
<1>4. CASE Report
  <2>1. pc = "report" /\ pc' = "done"
    BY <1>4 DEF Report
  <2>2. PICK k \in DOMAIN ctime : ctime[k] * par.cspeed <= Size
    BY <1>1, <2>1 DEF Paced, FastBatch
  <2>3. par.cspeed \in Nat /\ Size \in Nat /\ ctime[k] \in Nat /\ ctime # <<>>
    <3>1. par.cspeed \in Nat /\ Size \in Nat
      BY BenchAssumption DEF Inv, Types, TypeOK, IsParams
    <3>2. ctime[k] \in Nat /\ ctime # <<>>
      BY <1>1
    <3> QED
      BY <3>1, <3>2
  <2>4. par.timetype = "fastest" => Best(ctime) * par.cspeed <= Size
    <3>1. SUFFICES ASSUME par.timetype = "fastest"
                   PROVE  Best(ctime) * par.cspeed <= Size
      OBVIOUS
    <3>2. Best(ctime) = Ranked(ctime, 1)
      BY <2>3, <3>1 DEF Best, Chosen
    <3>3. PICK b \in Nat : b = Ranked(ctime, 1) /\ b <= ctime[k]
      BY <1>1, RankedFirst
    <3>4. PICK c \in Nat, e \in Nat : c = par.cspeed /\ e = ctime[k]
      BY <2>3
    <3>5. c * b <= c * e
      BY <3>3, <3>4, TimesLess
    <3>6. c * e = e * c /\ c * b = b * c
      OBVIOUS
    <3>7. b * c <= Size
      BY <2>2, <2>3, <3>4, <3>5, <3>6
    <3> QED
      BY <3>2, <3>3, <3>4, <3>7
  <2>5. FastRowsOnly'
    <3> DEFINE x == [ctime |-> Best(ctime), dtime |-> ShownTime(dtime),
                     par |-> par, log |-> log]
    <3>1. x.ctime = Best(ctime) /\ x.par = par
      OBVIOUS
    <3>2. Rows' = Rows \cup {x}
      BY <1>4, RowsReport
    <3> HIDE DEF x
    <3>3. FastRowsOnly
      BY <1>1 DEF Paced
    <3> QED
      BY <3>1, <3>2, <3>3, <2>4 DEF FastRowsOnly
  <2> QED
    BY <2>1, <2>5 DEF Paced, Decompressing
<1>5. CASE SleepBeforeDecompress \/ FinishDecompress \/ EndDecompressBatch
  <2>1. UNCHANGED <<ctime, par, results>> /\ Decompressing
    BY <1>5 DEF SleepBeforeDecompress, Sleep, FinishDecompress, EndDecompressBatch,
                Decompressing
  <2> QED
    BY <1>1, <1>2, <2>1 DEF Paced, FastBatch
<1>6. CASE BeginTest \/ Prefilter \/ SleepBeforeCompress \/ FinishCompress \/ LeaveSlow
           \/ ExitOnMismatch \/ Done
  <2>1. /\ results' = results
        /\ pc' \in {"done", "filter", "csleep", "cloop", "cbatch", "idle", "exited"}
    BY <1>6 DEF BeginTest, Begin, Prefilter, SleepBeforeCompress, Sleep, FinishCompress,
                LeaveSlow, ExitOnMismatch, Done
  <2> QED
    BY <1>2, <2>1 DEF Paced, Decompressing
<1>7. CASE StartCompress \/ StartDecompress \/ UNCHANGED benchVars
  <2>1. UNCHANGED <<pc, ctime, par, results>>
    BY <1>7 DEF StartCompress, StartDecompress, benchVars, testVars
  <2> QED
    BY <1>1, <1>2, <2>1 DEF Paced, Decompressing, FastBatch
<1> QED
  BY <1>3, <1>4, <1>5, <1>6, <1>7 DEF Next, Finished

-------------------------------------------------------------------------------
LEMMA InvAlways ==
  Spec => []Inv
<1>1. Inv /\ [Next]_benchVars => Inv'
  BY TypesStep, MemoryStep, VerifiedStep, PassingStep, CountedStep, TimedStep, ShortestStep,
     PacedStep
     DEF Inv, Verified, Passing
<1> QED
  BY <1>1, InvInit, PTL DEF Spec

(* The types of lzbench_test: no time is divided by a batch of no calls,    *)
(* and the count of held working memories never falls below zero.           *)
THEOREM BenchTypes == Spec => []TypeOK
<1>1. Inv => TypeOK
  BY DEF Inv, Types
<1> QED
  BY <1>1, InvAlways, PTL

(* A row with a decompression time was restored by a call of every batch    *)
(* behind it, however many batches and tests share the output buffer.       *)
THEOREM RowsDecoded == Spec => []DecodedEachBatch
<1>1. Inv => DecodedEachBatch
  BY DEF Inv, Verified, DecodedEachBatch
<1> QED
  BY <1>1, InvAlways, PTL

(* A lossless codec with room in compbuf is never flagged.                  *)
THEOREM NeverFlagged == Spec => []LosslessPasses
<1>1. Inv => LosslessPasses
  BY DEF Inv, Passing, LosslessPasses
<1> QED
  BY <1>1, InvAlways, PTL

(* Every row stands for the calls and the time that -i and -t ask for.      *)
THEOREM RowsEarned == Spec => []EnoughWork
<1>1. Inv => EnoughWork
  BY DEF Inv, Counted
<1> QED
  BY <1>1, InvAlways, PTL

(* Between two tests no more working memories are held than tests were left *)
(* for their speed.                                                         *)
THEOREM LeaksBounded == Spec => []LeaksOnlyWhenSlow
<1>1. Inv => LeaksOnlyWhenSlow
  BY DEF Inv, Types, TypeOK, Memory, LeaksOnlyWhenSlow
<1> QED
  BY <1>1, InvAlways, PTL

(* The time a row shows lies between the shortest call and the longest turn *)
(* of its test, with -p1, -p2 and -p3; with -p1 it is the shortest call, if *)
(* that was long enough to be recorded.                                     *)
THEOREM RowsTimed == Spec => []TimesWithinTurns
<1>1. Inv => TimesWithinTurns
  BY DEF Inv, Timed
<1> QED
  BY <1>1, InvAlways, PTL

(* With -s and -p1 no row shows less than the speed asked for: the last     *)
(* batch was fast enough, and the row shows no longer time than its mean.   *)
THEOREM RowsFast == Spec => []FastRowsOnly
<1>1. Inv => FastRowsOnly
  BY DEF Inv, Paced
<1> QED
  BY <1>1, InvAlways, PTL

===============================================================================
