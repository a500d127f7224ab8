---------------------------- MODULE MainPartsProofs ----------------------------
(***************************************************************************)
(* What holds of the parts that main is made of, each by itself: the       *)
(* parameters for every command line; the list of names for every tree of  *)
(* directories, every length of names, every step of the buffer and any    *)
(* number of failing calls; the split for every list of files, every chunk *)
(* size and every limit on blocks.                                         *)
(***************************************************************************)
EXTENDS Options, FileList, Chunking, NumberLemmas, TLAPS

-------------------------------------------------------------------------------
(* The options. *)
Fields ==
  {"chunkSize", "memLimit", "textFormat", "timeType", "showSpeed", "compressOnly",
   "cIters", "dIters", "cSpeed", "verbose", "cMinTime", "dMinTime", "cLoop", "dLoop",
   "randomRead", "sortCol", "join", "recursive", "realTime", "encoders"}

IsParams(p) == p = [field \in Fields |-> p[field]]

(* What a letter says, as a number and, where it gives a time, as a time.    *)
NumberIn(s) == [k \in DOMAIN s |-> s[k].n % Word]
SecondIn(s) == [k \in DOMAIN s |-> s[k].second % Word]
TimeIn(s) == [k \in DOMAIN s |-> (Second * NumberIn(s)[k]) % Word]
DTimeIn(s) ==
  [k \in DOMAIN s |-> IF s[k].letter = "u" THEN TimeIn(s)[k]
                      ELSE (Second * SecondIn(s)[k]) % Word]
MuteIn(s) == [k \in DOMAIN s |-> IF s[k].letter = "o" THEN 0 ELSE NumberIn(s)[k]]
CsvIn(s) == {k \in Where(s, {"o"}) : NumberIn(s)[k] = Csv}
FullAfter(s, k) == NumberIn(s)[k] = Text /\ \E q \in Where(s, {"m"}) : q > k
FormatIn(s) == [k \in DOMAIN s |-> IF FullAfter(s, k) THEN TextFull ELSE NumberIn(s)[k]]
CLimitIn(s) == LastOf(Where(s, {"t"}), TimeIn(s), Second)
DLimitIn(s) == LastOf(Where(s, {"u"}) \cup Paired(s, {"t"}), DTimeIn(s), 2 * Second)
ChunkIn(s) == [k \in DOMAIN s |-> (NumberIn(s)[k] * KB) % Word]
MemIn(s) == [k \in DOMAIN s |-> (NumberIn(s)[k] * QuarterMB) % Word]
SignedIn(s) == [k \in DOMAIN s |-> Signed(NumberIn(s)[k])]
ListIn(s) == [k \in DOMAIN s |-> s[k].list]

(* What a letter leaves of the parameters, field by field.                   *)
Changed(p, l) ==
  LET number == l.n % Word
      second == l.second % Word
      pair == l.second # None
      time == (Second * number) % Word
      dTime == (Second * second) % Word
      paired == l.letter = "t" /\ pair
  IN [chunkSize |-> IF l.letter = "b" THEN (number * KB) % Word ELSE p.chunkSize,
      memLimit |-> IF l.letter = "m" THEN (number * QuarterMB) % Word ELSE p.memLimit,
      textFormat |-> IF l.letter = "o" THEN number
                     ELSE IF l.letter = "m" /\ p.textFormat = Text THEN TextFull
                     ELSE p.textFormat,
      timeType |-> IF l.letter = "p" THEN number ELSE p.timeType,
      showSpeed |-> IF l.letter = "z" THEN FALSE ELSE p.showSpeed,
      compressOnly |-> IF l.letter = "-compress-only" THEN TRUE ELSE p.compressOnly,
      cIters |-> IF l.letter = "i" THEN number ELSE p.cIters,
      dIters |-> IF l.letter = "i" /\ pair THEN second ELSE p.dIters,
      cSpeed |-> IF l.letter = "s" THEN number ELSE p.cSpeed,
      verbose |-> IF l.letter = "v" THEN number
                  ELSE IF l.letter = "o" /\ number = Csv THEN 0 ELSE p.verbose,
      cMinTime |-> IF l.letter = "t" THEN time ELSE p.cMinTime,
      dMinTime |-> IF l.letter = "u" THEN time ELSE IF paired THEN dTime ELSE p.dMinTime,
      cLoop |-> IF l.letter = "t" THEN time # 0 ELSE p.cLoop,
      dLoop |-> IF l.letter = "u" THEN time # 0
                ELSE IF paired THEN dTime # 0 ELSE p.dLoop,
      randomRead |-> IF l.letter = "R" THEN TRUE ELSE p.randomRead,
      sortCol |-> IF l.letter = "c" THEN Signed(number) ELSE p.sortCol,
      join |-> IF l.letter = "j" THEN TRUE ELSE p.join,
      recursive |-> IF l.letter = "r" THEN TRUE ELSE p.recursive,
      realTime |-> IF l.letter = "x" THEN FALSE ELSE p.realTime,
      encoders |-> IF l.letter = "e" THEN l.list ELSE p.encoders]

LEMMA SameParams ==
  ASSUME NEW p, NEW q, IsParams(p), IsParams(q),
         p.chunkSize = q.chunkSize, p.memLimit = q.memLimit,
         p.textFormat = q.textFormat, p.timeType = q.timeType,
         p.showSpeed = q.showSpeed, p.compressOnly = q.compressOnly,
         p.cIters = q.cIters, p.dIters = q.dIters, p.cSpeed = q.cSpeed,
         p.verbose = q.verbose, p.cMinTime = q.cMinTime,
         p.dMinTime = q.dMinTime, p.cLoop = q.cLoop, p.dLoop = q.dLoop,
         p.randomRead = q.randomRead, p.sortCol = q.sortCol, p.join = q.join,
         p.recursive = q.recursive, p.realTime = q.realTime,
         p.encoders = q.encoders
  PROVE  p = q
<1>1. \A field \in Fields : p[field] = q[field]
  BY DEF Fields
<1> QED
  BY <1>1 DEF IsParams

(* Meaning, with a name for each table in it.                               *)
MeaningByFields(s) ==
          [chunkSize |-> LastOf(Where(s, {"b"}), ChunkIn(s), DefaultChunk),
           memLimit |-> LastOf(Where(s, {"m"}), MemIn(s), 0),
           textFormat |-> LastOf(Where(s, {"o"}), FormatIn(s),
                                        IF Where(s, {"m"}) = {} THEN Text
                                           ELSE TextFull),
           timeType |-> LastOf(Where(s, {"p"}), NumberIn(s), 1),
           showSpeed |-> Where(s, {"z"}) = {},
           compressOnly |-> Where(s, {"-compress-only"}) # {},
           cIters |-> LastOf(Where(s, {"i"}), NumberIn(s), 1),
           dIters |-> LastOf(Paired(s, {"i"}), SecondIn(s), 1),
           cSpeed |-> LastOf(Where(s, {"s"}), NumberIn(s), 0),
           verbose |-> LastOf(Where(s, {"v"}) \cup CsvIn(s), MuteIn(s), 2),
           cMinTime |-> CLimitIn(s),
           dMinTime |-> DLimitIn(s),
           cLoop |-> CLimitIn(s) # 0,
           dLoop |-> DLimitIn(s) # 0,
           randomRead |-> Where(s, {"R"}) # {},
           sortCol |-> LastOf(Where(s, {"c"}), SignedIn(s), 0),
           join |-> Where(s, {"j"}) # {},
           recursive |-> Where(s, {"r"}) # {},
           realTime |-> Where(s, {"x"}) = {},
           encoders |-> LastOf(Where(s, {"e"}), ListIn(s), None)]

LEMMA MeaningIs ==
  ASSUME NEW s
  PROVE  /\ IsParams(Meaning(s))
         /\ Meaning(s).chunkSize = LastOf(Where(s, {"b"}), ChunkIn(s), DefaultChunk)
         /\ Meaning(s).memLimit = LastOf(Where(s, {"m"}), MemIn(s), 0)
         /\ Meaning(s).textFormat = LastOf(Where(s, {"o"}), FormatIn(s),
                                      IF Where(s, {"m"}) = {} THEN Text ELSE TextFull)
         /\ Meaning(s).timeType = LastOf(Where(s, {"p"}), NumberIn(s), 1)
         /\ Meaning(s).showSpeed = (Where(s, {"z"}) = {})
         /\ Meaning(s).compressOnly = (Where(s, {"-compress-only"}) # {})
         /\ Meaning(s).cIters = LastOf(Where(s, {"i"}), NumberIn(s), 1)
         /\ Meaning(s).dIters = LastOf(Paired(s, {"i"}), SecondIn(s), 1)
         /\ Meaning(s).cSpeed = LastOf(Where(s, {"s"}), NumberIn(s), 0)
         /\ Meaning(s).verbose = LastOf(Where(s, {"v"}) \cup CsvIn(s), MuteIn(s), 2)
         /\ Meaning(s).cMinTime = CLimitIn(s)
         /\ Meaning(s).dMinTime = DLimitIn(s)
         /\ Meaning(s).cLoop = (CLimitIn(s) # 0)
         /\ Meaning(s).dLoop = (DLimitIn(s) # 0)
         /\ Meaning(s).randomRead = (Where(s, {"R"}) # {})
         /\ Meaning(s).sortCol = LastOf(Where(s, {"c"}), SignedIn(s), 0)
         /\ Meaning(s).join = (Where(s, {"j"}) # {})
         /\ Meaning(s).recursive = (Where(s, {"r"}) # {})
         /\ Meaning(s).realTime = (Where(s, {"x"}) = {})
         /\ Meaning(s).encoders = LastOf(Where(s, {"e"}), ListIn(s), None)
<1>1. Meaning(s) = MeaningByFields(s)
  BY DEF Meaning, MeaningByFields, ChunkIn, MemIn, FormatIn, FullAfter, NumberIn, SecondIn,
         MuteIn, CsvIn, TimeIn, DTimeIn, CLimitIn, DLimitIn, SignedIn, ListIn
<1>2. IsParams(MeaningByFields(s))
  BY DEF MeaningByFields, IsParams, Fields
<1> QED
  BY <1>1, <1>2 DEF MeaningByFields

LEMMA InWord ==
  ASSUME NEW n \in Int
  PROVE  n % Word \in 0 .. Word - 1 /\ n % Word \in Nat
  BY OptionsAssumption

LEMMA ProductInWord ==
  ASSUME NEW n \in Nat, NEW k \in Nat
  PROVE  (k * (n % Word)) % Word \in 0 .. Word - 1 /\ (k * (n % Word)) % Word \in Nat
<1> DEFINE m == n % Word
<1>1. m \in Nat
  BY InWord
<1> HIDE DEF m
<1>2. k * m \in Nat
  BY <1>1
<1>3. (k * m) % Word \in 0 .. Word - 1 /\ (k * m) % Word \in Nat
  BY <1>2, InWord
<1> QED
  BY <1>3 DEF m

LEMMA TimeInWord ==
  ASSUME NEW n \in Nat
  PROVE  (Second * (n % Word)) % Word \in 0 .. Word - 1 /\ (Second * (n % Word)) % Word \in Nat
<1>1. Second \in Nat
  BY OptionsAssumption
<1> QED
  BY <1>1, ProductInWord

LEMMA TimesSet ==
  ASSUME NEW p, IsParams(p), NEW t \in Nat
  PROVE  /\ IsParams(Compression(p, t))
         /\ Compression(p, t).cMinTime = t
         /\ Compression(p, t).cLoop = (t # 0)
         /\ \A field \in Fields \ {"cMinTime", "cLoop"} : Compression(p, t)[field] = p[field]
         /\ IsParams(Decompression(p, t))
         /\ Decompression(p, t).dMinTime = t
         /\ Decompression(p, t).dLoop = (t # 0)
         /\ \A field \in Fields \ {"dMinTime", "dLoop"} : Decompression(p, t)[field] = p[field]
<1>1. {"cMinTime", "cLoop", "dMinTime", "dLoop"} \subseteq Fields
  BY DEF Fields
<1> QED
  BY <1>1 DEF Compression, Decompression, IsParams

LEMMA EffectIs ==
  ASSUME NEW p, IsParams(p), NEW l, l.letter \in Settings, IsLetter(l)
  PROVE  Effect(p, l) = Changed(p, l)
<1> DEFINE q == Effect(p, l)
           c == Changed(p, l)
<1>1. IsParams(c)
  BY DEF Changed, IsParams, Fields
<1>2. CASE l.letter = "b"
  <2>1. q = [p EXCEPT !.chunkSize = c.chunkSize]
    BY <1>2 DEF Effect, Changed, Compression, Decompression, IsParams, Fields
  <2>2. \A field \in Fields \ {"chunkSize"} : c[field] = p[field]
    BY <1>2 DEF Changed, Fields
  <2> HIDE DEF q, c
  <2>3. q = c
    BY <1>1, <2>1, <2>2 DEF IsParams, Fields
  <2> QED
    BY <2>3 DEF q, c
<1>3. CASE l.letter = "c"
  <2>1. q = [p EXCEPT !.sortCol = c.sortCol]
    BY <1>3 DEF Effect, Changed, Compression, Decompression, IsParams, Fields
  <2>2. \A field \in Fields \ {"sortCol"} : c[field] = p[field]
    BY <1>3 DEF Changed, Fields
  <2> HIDE DEF q, c
  <2>3. q = c
    BY <1>1, <2>1, <2>2 DEF IsParams, Fields
  <2> QED
    BY <2>3 DEF q, c
<1>4. CASE l.letter = "e"
  <2>1. q = [p EXCEPT !.encoders = c.encoders]
    BY <1>4 DEF Effect, Changed, Compression, Decompression, IsParams, Fields
  <2>2. \A field \in Fields \ {"encoders"} : c[field] = p[field]
    BY <1>4 DEF Changed, Fields
  <2> HIDE DEF q, c
  <2>3. q = c
    BY <1>1, <2>1, <2>2 DEF IsParams, Fields
  <2> QED
    BY <2>3 DEF q, c
<1>5. CASE l.letter = "i"
  <2>1. q = [p EXCEPT !.cIters = c.cIters, !.dIters = c.dIters]
    BY <1>5 DEF Effect, Changed, Compression, Decompression, IsParams, Fields
  <2>2. \A field \in Fields \ {"cIters", "dIters"} : c[field] = p[field]
    BY <1>5 DEF Changed, Fields
  <2> HIDE DEF q, c
  <2>3. q = c
    BY <1>1, <2>1, <2>2 DEF IsParams, Fields
  <2> QED
    BY <2>3 DEF q, c
<1>6. CASE l.letter = "j"
  <2>1. q = [p EXCEPT !.join = c.join]
    BY <1>6 DEF Effect, Changed, Compression, Decompression, IsParams, Fields
  <2>2. \A field \in Fields \ {"join"} : c[field] = p[field]
    BY <1>6 DEF Changed, Fields
  <2> HIDE DEF q, c
  <2>3. q = c
    BY <1>1, <2>1, <2>2 DEF IsParams, Fields
  <2> QED
    BY <2>3 DEF q, c
<1>7. CASE l.letter = "m"
  <2>1. q = [p EXCEPT !.memLimit = c.memLimit, !.textFormat = c.textFormat]
    BY <1>7 DEF Effect, Changed, Compression, Decompression, IsParams, Fields
  <2>2. \A field \in Fields \ {"memLimit", "textFormat"} : c[field] = p[field]
    BY <1>7 DEF Changed, Fields
  <2> HIDE DEF q, c
  <2>3. q = c
    BY <1>1, <2>1, <2>2 DEF IsParams, Fields
  <2> QED
    BY <2>3 DEF q, c
<1>8. CASE l.letter = "o"
  <2>1. q = [p EXCEPT !.textFormat = c.textFormat, !.verbose = c.verbose]
    BY <1>8 DEF Effect, Changed, Compression, Decompression, IsParams, Fields
  <2>2. \A field \in Fields \ {"textFormat", "verbose"} : c[field] = p[field]
    BY <1>8 DEF Changed, Fields
  <2> HIDE DEF q, c
  <2>3. q = c
    BY <1>1, <2>1, <2>2 DEF IsParams, Fields
  <2> QED
    BY <2>3 DEF q, c
<1>9. CASE l.letter = "p"
  <2>1. q = [p EXCEPT !.timeType = c.timeType]
    BY <1>9 DEF Effect, Changed, Compression, Decompression, IsParams, Fields
  <2>2. \A field \in Fields \ {"timeType"} : c[field] = p[field]
    BY <1>9 DEF Changed, Fields
  <2> HIDE DEF q, c
  <2>3. q = c
    BY <1>1, <2>1, <2>2 DEF IsParams, Fields
  <2> QED
    BY <2>3 DEF q, c
<1>10. CASE l.letter = "r"
  <2>1. q = [p EXCEPT !.recursive = c.recursive]
    BY <1>10 DEF Effect, Changed, Compression, Decompression, IsParams, Fields
  <2>2. \A field \in Fields \ {"recursive"} : c[field] = p[field]
    BY <1>10 DEF Changed, Fields
  <2> HIDE DEF q, c
  <2>3. q = c
    BY <1>1, <2>1, <2>2 DEF IsParams, Fields
  <2> QED
    BY <2>3 DEF q, c
<1>11. CASE l.letter = "R"
  <2>1. q = [p EXCEPT !.randomRead = c.randomRead]
    BY <1>11 DEF Effect, Changed, Compression, Decompression, IsParams, Fields
  <2>2. \A field \in Fields \ {"randomRead"} : c[field] = p[field]
    BY <1>11 DEF Changed, Fields
  <2> HIDE DEF q, c
  <2>3. q = c
    BY <1>1, <2>1, <2>2 DEF IsParams, Fields
  <2> QED
    BY <2>3 DEF q, c
<1>12. CASE l.letter = "s"
  <2>1. q = [p EXCEPT !.cSpeed = c.cSpeed]
    BY <1>12 DEF Effect, Changed, Compression, Decompression, IsParams, Fields
  <2>2. \A field \in Fields \ {"cSpeed"} : c[field] = p[field]
    BY <1>12 DEF Changed, Fields
  <2> HIDE DEF q, c
  <2>3. q = c
    BY <1>1, <2>1, <2>2 DEF IsParams, Fields
  <2> QED
    BY <2>3 DEF q, c
<1>13. CASE l.letter = "t"
  <2> DEFINE time == (Second * (l.n % Word)) % Word
             dTime == (Second * (l.second % Word)) % Word
             first == Compression(p, time)
             both == Decompression(first, dTime)
  <2>1. q = IF l.second # None THEN both ELSE first
    BY <1>13 DEF Effect
  <2>2. /\ c.cMinTime = time /\ c.cLoop = (time # 0)
        /\ l.second # None => c.dMinTime = dTime /\ c.dLoop = (dTime # 0)
        /\ l.second = None => c.dMinTime = p.dMinTime /\ c.dLoop = p.dLoop
        /\ \A field \in Fields \ {"cMinTime", "cLoop", "dMinTime", "dLoop"} :
             c[field] = p[field]
    BY <1>13 DEF Changed, Fields
  <2>3. time \in Nat
    <3>1. l.n \in Nat
      BY DEF IsLetter
    <3> QED
      BY <3>1, TimeInWord
  <2>7. ASSUME l.second # None PROVE dTime \in Nat
    <3>1. l.second \in Nat
      BY <2>7 DEF IsLetter
    <3> QED
      BY <3>1, TimeInWord
  <2> HIDE DEF time, dTime, q, c, first, both
  <2>4. /\ IsParams(first) /\ first.cMinTime = time /\ first.cLoop = (time # 0)
        /\ \A field \in Fields \ {"cMinTime", "cLoop"} : first[field] = p[field]
    BY <2>3, TimesSet DEF first
  <2>5. CASE l.second # None
    <3>4. dTime \in Nat
      BY <2>5, <2>7
    <3>1. /\ IsParams(both) /\ both.dMinTime = dTime /\ both.dLoop = (dTime # 0)
          /\ \A field \in Fields \ {"dMinTime", "dLoop"} : both[field] = first[field]
      BY <3>4, <2>4, TimesSet DEF both
    <3>2. \A field \in Fields : both[field] = c[field]
      BY <2>2, <2>4, <2>5, <3>1 DEF Fields
    <3>3. q = c
      BY <1>1, <2>1, <2>5, <3>1, <3>2 DEF IsParams
    <3> QED
      BY <3>3 DEF q, c
  <2>6. CASE l.second = None
    <3>1. \A field \in Fields : first[field] = c[field]
      BY <2>2, <2>4, <2>6 DEF Fields
    <3>2. q = c
      BY <1>1, <2>1, <2>4, <2>6, <3>1 DEF IsParams
    <3> QED
      BY <3>2 DEF q, c
  <2> QED
    BY <2>5, <2>6
<1>14. CASE l.letter = "u"
  <2>1. q = [p EXCEPT !.dMinTime = c.dMinTime, !.dLoop = c.dLoop]
    BY <1>14 DEF Effect, Changed, Compression, Decompression, IsParams, Fields
  <2>2. \A field \in Fields \ {"dMinTime", "dLoop"} : c[field] = p[field]
    BY <1>14 DEF Changed, Fields
  <2> HIDE DEF q, c
  <2>3. q = c
    BY <1>1, <2>1, <2>2 DEF IsParams, Fields
  <2> QED
    BY <2>3 DEF q, c
<1>15. CASE l.letter = "v"
  <2>1. q = [p EXCEPT !.verbose = c.verbose]
    BY <1>15 DEF Effect, Changed, Compression, Decompression, IsParams, Fields
  <2>2. \A field \in Fields \ {"verbose"} : c[field] = p[field]
    BY <1>15 DEF Changed, Fields
  <2> HIDE DEF q, c
  <2>3. q = c
    BY <1>1, <2>1, <2>2 DEF IsParams, Fields
  <2> QED
    BY <2>3 DEF q, c
<1>16. CASE l.letter = "x"
  <2>1. q = [p EXCEPT !.realTime = c.realTime]
    BY <1>16 DEF Effect, Changed, Compression, Decompression, IsParams, Fields
  <2>2. \A field \in Fields \ {"realTime"} : c[field] = p[field]
    BY <1>16 DEF Changed, Fields
  <2> HIDE DEF q, c
  <2>3. q = c
    BY <1>1, <2>1, <2>2 DEF IsParams, Fields
  <2> QED
    BY <2>3 DEF q, c
<1>17. CASE l.letter = "z"
  <2>1. q = [p EXCEPT !.showSpeed = c.showSpeed]
    BY <1>17 DEF Effect, Changed, Compression, Decompression, IsParams, Fields
  <2>2. \A field \in Fields \ {"showSpeed"} : c[field] = p[field]
    BY <1>17 DEF Changed, Fields
  <2> HIDE DEF q, c
  <2>3. q = c
    BY <1>1, <2>1, <2>2 DEF IsParams, Fields
  <2> QED
    BY <2>3 DEF q, c
<1>18. CASE l.letter = "-compress-only"
  <2>1. q = [p EXCEPT !.compressOnly = c.compressOnly]
    BY <1>18 DEF Effect, Changed, Compression, Decompression, IsParams, Fields
  <2>2. \A field \in Fields \ {"compressOnly"} : c[field] = p[field]
    BY <1>18 DEF Changed, Fields
  <2> HIDE DEF q, c
  <2>3. q = c
    BY <1>1, <2>1, <2>2 DEF IsParams, Fields
  <2> QED
    BY <2>3 DEF q, c
<1> QED
  BY <1>2, <1>3, <1>4, <1>5, <1>6, <1>7, <1>8, <1>9, <1>10, <1>11, <1>12, <1>13,
     <1>14, <1>15, <1>16, <1>17, <1>18 DEF Settings

(* The latest position, and what it says, when a letter is added.            *)
LEMMA LatestIn ==
  ASSUME NEW n \in Nat, NEW S \in SUBSET (1 .. n), S # {}
  PROVE  Latest(S) \in S
<1> DEFINE B == {d \in Nat : \E k \in S : k = n - d}
<1>1. PICK k \in S : TRUE
  OBVIOUS
<1>2. n - k \in B
  <2>1. n - k \in Nat /\ k = n - (n - k)
    OBVIOUS
  <2> QED
    BY <2>1
<1>3. PICK d \in B : \A e \in B : d <= e
  <2>1. B \in SUBSET Nat /\ B # {}
    BY <1>2
  <2> HIDE DEF B
  <2> QED
    BY <2>1, LeastNat
<1>4. PICK m \in S : m = n - d
  BY <1>3
<1>5. \A q \in S : q <= m
  <2> TAKE q \in S
  <2>1. n - q \in Nat /\ q = n - (n - q)
    OBVIOUS
  <2>2. n - q \in B
    BY <2>1
  <2>3. d <= n - q
    BY <1>3, <2>2
  <2> QED
    BY <1>3, <1>4, <2>3
<1> QED
  BY <1>4, <1>5 DEF Latest

LEMMA LastSaid ==
  ASSUME NEW n \in Nat, NEW S \in SUBSET (1 .. n), NEW w, NEW default
  PROVE  LastOf(S \cup {n + 1}, w, default) = w[n + 1]
<1> DEFINE T == S \cup {n + 1}
<1>1. n + 1 \in T /\ \A q \in T : q <= n + 1
  OBVIOUS
<1>2. \A k \in T : (\A q \in T : q <= k) => k = n + 1
  BY <1>1
<1> HIDE DEF T
<1>3. Latest(T) = n + 1 /\ T # {}
  BY <1>1, <1>2 DEF Latest
<1>4. LastOf(T, w, default) = w[n + 1]
  BY <1>3 DEF LastOf
<1> QED
  BY <1>4 DEF T

LEMMA LastKept ==
  ASSUME NEW n \in Nat, NEW S \in SUBSET (1 .. n), NEW v, NEW w, NEW default,
         \A k \in S : w[k] = v[k]
  PROVE  LastOf(S, w, default) = LastOf(S, v, default)
<1>1. CASE S = {}
  BY <1>1 DEF LastOf
<1>2. CASE S # {}
  <2>1. Latest(S) \in S
    BY <1>2, LatestIn
  <2> QED
    BY <1>2, <2>1 DEF LastOf
<1> QED
  BY <1>1, <1>2

(* The tables of a text one letter longer.                                   *)
LEMMA TablesNext ==
  ASSUME NEW s \in Seq(Letters), NEW l \in Letters, NEW n, n = Len(s), NEW r, r = Append(s, l)
  PROVE  /\ n \in Nat /\ DOMAIN s = 1 .. n /\ DOMAIN r = 1 .. n + 1
         /\ n + 1 \in DOMAIN r /\ n + 1 \notin 1 .. n /\ 1 .. n \subseteq DOMAIN r
         /\ r[n + 1] = l
         /\ \A k \in 1 .. n : r[k] = s[k]
  OBVIOUS

LEMMA WhereNext ==
  ASSUME NEW s \in Seq(Letters), NEW l \in Letters, NEW ls
  PROVE  /\ Len(s) \in Nat
         /\ Where(s, ls) \in SUBSET (1 .. Len(s)) /\ Paired(s, ls) \in SUBSET (1 .. Len(s))
         /\ Where(Append(s, l), ls) =
              IF l.letter \in ls THEN Where(s, ls) \cup {Len(s) + 1} ELSE Where(s, ls)
         /\ Paired(Append(s, l), ls) =
              IF l.letter \in ls /\ l.second # None THEN Paired(s, ls) \cup {Len(s) + 1}
                                                    ELSE Paired(s, ls)
<1> DEFINE n == Len(s)
           r == Append(s, l)
<1>1. /\ n \in Nat /\ DOMAIN s = 1 .. n /\ DOMAIN r = 1 .. n + 1 /\ r[n + 1] = l
      /\ \A k \in 1 .. n : r[k] = s[k]
  BY TablesNext
<1>2. \A k : k \in 1 .. n + 1 <=> k \in 1 .. n \/ k = n + 1
  BY <1>1
<1> HIDE DEF n, r
<1>3. /\ Where(s, ls) \in SUBSET (1 .. n)
      /\ Where(r, ls) = IF l.letter \in ls THEN Where(s, ls) \cup {n + 1}
                           ELSE Where(s, ls)
  BY <1>1, <1>2 DEF Where
<1>4. n + 1 \notin Where(s, ls)
  BY <1>1, <1>3
<1>5. /\ Paired(s, ls) \in SUBSET (1 .. n)
      /\ Paired(r, ls) = IF l.letter \in ls /\ l.second # None
                           THEN Paired(s, ls) \cup {n + 1} ELSE Paired(s, ls)
  BY <1>1, <1>3, <1>4 DEF Paired
<1> QED
  BY <1>1, <1>3, <1>5 DEF n, r

LEMMA NumbersNext ==
  ASSUME NEW s \in Seq(Letters), NEW l \in Letters
  PROVE  /\ NumberIn(Append(s, l))[Len(s) + 1] = l.n % Word
         /\ \A k \in 1 .. Len(s) : NumberIn(Append(s, l))[k] = NumberIn(s)[k]
         /\ SecondIn(Append(s, l))[Len(s) + 1] = l.second % Word
         /\ \A k \in 1 .. Len(s) : SecondIn(Append(s, l))[k] = SecondIn(s)[k]
         /\ ListIn(Append(s, l))[Len(s) + 1] = l.list
         /\ \A k \in 1 .. Len(s) : ListIn(Append(s, l))[k] = ListIn(s)[k]
<1> DEFINE n == Len(s)
           r == Append(s, l)
<1>1. /\ n \in Nat /\ DOMAIN s = 1 .. n /\ n + 1 \in DOMAIN r /\ 1 .. n \subseteq DOMAIN r
      /\ r[n + 1] = l /\ \A k \in 1 .. n : r[k] = s[k]
  BY TablesNext
<1> HIDE DEF n, r
<1>2. /\ NumberIn(r)[n + 1] = l.n % Word
      /\ \A k \in 1 .. n : NumberIn(r)[k] = NumberIn(s)[k]
      /\ SecondIn(r)[n + 1] = l.second % Word
      /\ \A k \in 1 .. n : SecondIn(r)[k] = SecondIn(s)[k]
      /\ ListIn(r)[n + 1] = l.list
      /\ \A k \in 1 .. n : ListIn(r)[k] = ListIn(s)[k]
  BY <1>1 DEF NumberIn, SecondIn, ListIn
<1> QED
  BY <1>2 DEF n, r

LEMMA DerivedNext ==
  ASSUME NEW s \in Seq(Letters), NEW l \in Letters
  PROVE  /\ TimeIn(Append(s, l))[Len(s) + 1] = (Second * (l.n % Word)) % Word
         /\ \A k \in 1 .. Len(s) : TimeIn(Append(s, l))[k] = TimeIn(s)[k]
         /\ DTimeIn(Append(s, l))[Len(s) + 1] = IF l.letter = "u"
                                                   THEN (Second * (l.n % Word)) % Word
                                ELSE (Second * (l.second % Word)) % Word
         /\ \A k \in 1 .. Len(s) : DTimeIn(Append(s, l))[k] = DTimeIn(s)[k]
         /\ MuteIn(Append(s, l))[Len(s) + 1] = IF l.letter = "o" THEN 0 ELSE l.n % Word
         /\ \A k \in 1 .. Len(s) : MuteIn(Append(s, l))[k] = MuteIn(s)[k]
         /\ ChunkIn(Append(s, l))[Len(s) + 1] = ((l.n % Word) * KB) % Word
         /\ \A k \in 1 .. Len(s) : ChunkIn(Append(s, l))[k] = ChunkIn(s)[k]
         /\ MemIn(Append(s, l))[Len(s) + 1] = ((l.n % Word) * QuarterMB) % Word
         /\ \A k \in 1 .. Len(s) : MemIn(Append(s, l))[k] = MemIn(s)[k]
         /\ SignedIn(Append(s, l))[Len(s) + 1] = Signed(l.n % Word)
         /\ \A k \in 1 .. Len(s) : SignedIn(Append(s, l))[k] = SignedIn(s)[k]
<1> DEFINE n == Len(s)
           r == Append(s, l)
<1>1. /\ n \in Nat /\ DOMAIN s = 1 .. n /\ n + 1 \in DOMAIN r /\ 1 .. n \subseteq DOMAIN r
      /\ r[n + 1] = l /\ \A k \in 1 .. n : r[k] = s[k]
  BY TablesNext
<1> DEFINE a == NumberIn(s)
           b == NumberIn(r)
           c == SecondIn(s)
           d == SecondIn(r)
<1>2. /\ b[n + 1] = l.n % Word /\ \A k \in 1 .. n : b[k] = a[k]
      /\ d[n + 1] = l.second % Word /\ \A k \in 1 .. n : d[k] = c[k]
  <2> HIDE DEF a, b, c, d
  <2>1. /\ NumberIn(r)[n + 1] = l.n % Word
        /\ \A k \in 1 .. n : NumberIn(r)[k] = NumberIn(s)[k]
        /\ SecondIn(r)[n + 1] = l.second % Word
        /\ \A k \in 1 .. n : SecondIn(r)[k] = SecondIn(s)[k]
    BY NumbersNext DEF n, r
  <2> QED
    BY <2>1 DEF a, b, c, d
<1> HIDE DEF a, b, c, d, n, r
<1>3. /\ TimeIn(r)[n + 1] = (Second * b[n + 1]) % Word
      /\ \A k \in 1 .. n : /\ TimeIn(r)[k] = (Second * b[k]) % Word
                           /\ TimeIn(s)[k] = (Second * a[k]) % Word
  BY <1>1 DEF TimeIn, a, b
<1>4. /\ DTimeIn(r)[n + 1] = IF l.letter = "u" THEN TimeIn(r)[n + 1]
                             ELSE (Second * d[n + 1]) % Word
      /\ \A k \in 1 .. n : /\ DTimeIn(r)[k] = IF s[k].letter = "u" THEN TimeIn(r)[k]
                                              ELSE (Second * d[k]) % Word
                           /\ DTimeIn(s)[k] = IF s[k].letter = "u" THEN TimeIn(s)[k]
                                              ELSE (Second * c[k]) % Word
  BY <1>1 DEF DTimeIn, c, d
<1>5. /\ MuteIn(r)[n + 1] = IF l.letter = "o" THEN 0 ELSE b[n + 1]
      /\ \A k \in 1 .. n : /\ MuteIn(r)[k] = IF s[k].letter = "o" THEN 0 ELSE b[k]
                           /\ MuteIn(s)[k] = IF s[k].letter = "o" THEN 0 ELSE a[k]
  BY <1>1 DEF MuteIn, a, b
<1>6. /\ ChunkIn(r)[n + 1] = (b[n + 1] * KB) % Word
      /\ \A k \in 1 .. n : /\ ChunkIn(r)[k] = (b[k] * KB) % Word
                           /\ ChunkIn(s)[k] = (a[k] * KB) % Word
  BY <1>1 DEF ChunkIn, a, b
<1>7. /\ MemIn(r)[n + 1] = (b[n + 1] * QuarterMB) % Word
      /\ \A k \in 1 .. n : /\ MemIn(r)[k] = (b[k] * QuarterMB) % Word
                           /\ MemIn(s)[k] = (a[k] * QuarterMB) % Word
  BY <1>1 DEF MemIn, a, b
<1>8. /\ SignedIn(r)[n + 1] = Signed(b[n + 1])
      /\ \A k \in 1 .. n : SignedIn(r)[k] = Signed(b[k]) /\ SignedIn(s)[k] = Signed(a[k])
  BY <1>1 DEF SignedIn, a, b
<1>9. \A k \in 1 .. n : /\ TimeIn(r)[k] = TimeIn(s)[k] /\ MuteIn(r)[k] = MuteIn(s)[k]
                        /\ ChunkIn(r)[k] = ChunkIn(s)[k] /\ MemIn(r)[k] = MemIn(s)[k]
                        /\ SignedIn(r)[k] = SignedIn(s)[k]
  BY <1>2, <1>3, <1>5, <1>6, <1>7, <1>8
<1>10. \A k \in 1 .. n : DTimeIn(r)[k] = DTimeIn(s)[k]
  BY <1>2, <1>4, <1>9
<1> QED
  BY <1>2, <1>3, <1>4, <1>5, <1>6, <1>7, <1>8, <1>9, <1>10 DEF n, r

LEMMA LastWhere ==
  ASSUME NEW s \in Seq(Letters), NEW l \in Letters, NEW letter, NEW v, NEW w, NEW default,
         \A k \in 1 .. Len(s) : w[k] = v[k]
  PROVE  LastOf(Where(Append(s, l), {letter}), w, default) =
           IF l.letter = letter THEN w[Len(s) + 1]
              ELSE LastOf(Where(s, {letter}), v, default)
<1> DEFINE r == Append(s, l)
           S == Where(s, {letter})
<1>1. /\ Len(s) \in Nat /\ S \in SUBSET (1 .. Len(s))
      /\ Where(r, {letter}) = IF l.letter = letter THEN S \cup {Len(s) + 1} ELSE S
  BY WhereNext
<1> HIDE DEF r, S
<1>2. \A k \in S : w[k] = v[k]
  BY <1>1
<1>3. LastOf(S \cup {Len(s) + 1}, w, default) = w[Len(s) + 1]
  BY <1>1, LastSaid
<1>5. Len(s) \in Nat
  BY <1>1
<1>6. S \in SUBSET (1 .. Len(s))
  BY <1>1
<1>4. LastOf(S, w, default) = LastOf(S, v, default)
  BY <1>2, <1>5, <1>6, LastKept
<1> QED
  BY <1>1, <1>3, <1>4 DEF r, S

LEMMA PairedNext ==
  ASSUME NEW s \in Seq(Letters), NEW l \in Letters, NEW letter, NEW default
  PROVE  LastOf(Paired(Append(s, l), {letter}), SecondIn(Append(s, l)), default) =
           IF l.letter = letter /\ l.second # None
             THEN l.second % Word ELSE LastOf(Paired(s, {letter}), SecondIn(s), default)
<1> DEFINE r == Append(s, l)
           S == Paired(s, {letter})
           speaks == l.letter = letter /\ l.second # None
<1>1. /\ Len(s) \in Nat /\ S \in SUBSET (1 .. Len(s))
      /\ Paired(r, {letter}) = IF speaks THEN S \cup {Len(s) + 1} ELSE S
  BY WhereNext
<1>2. PICK v : v = SecondIn(s)
  OBVIOUS
<1>3. PICK w : w = SecondIn(r)
  OBVIOUS
<1>4. w[Len(s) + 1] = l.second % Word /\ \A k \in 1 .. Len(s) : w[k] = v[k]
  BY <1>2, <1>3, NumbersNext
<1> HIDE DEF r, S, speaks
<1>5. \A k \in S : w[k] = v[k]
  BY <1>1, <1>4
<1>6. Len(s) \in Nat
  BY <1>1
<1>7. S \in SUBSET (1 .. Len(s))
  BY <1>1
<1>8. LastOf(S \cup {Len(s) + 1}, w, default) = w[Len(s) + 1]
  BY <1>6, <1>7, LastSaid
<1>9. LastOf(S, w, default) = LastOf(S, v, default)
  BY <1>5, <1>6, <1>7, LastKept
<1>10. LastOf(Paired(r, {letter}), w, default) =
         IF speaks THEN l.second % Word ELSE LastOf(S, v, default)
  BY <1>1, <1>4, <1>8, <1>9
<1> QED
  BY <1>2, <1>3, <1>10 DEF r, S, speaks

LEMMA WhereEmpty ==
  ASSUME NEW s \in Seq(Letters), NEW l \in Letters, NEW letter
  PROVE  Where(Append(s, l), {letter}) = {} <=> l.letter # letter /\ Where(s, {letter}) = {}
<1>1. Where(Append(s, l), {letter}) =
        IF l.letter = letter THEN Where(s, {letter}) \cup {Len(s) + 1}
           ELSE Where(s, {letter})
  BY WhereNext
<1> QED
  BY <1>1

LEMMA DLimitNext ==
  ASSUME NEW s \in Seq(Letters), NEW l \in Letters
  PROVE  DLimitIn(Append(s, l)) =
           IF l.letter = "u" THEN (Second * (l.n % Word)) % Word
          
                   ELSE IF l.letter = "t" /\ l.second # None
                           THEN (Second * (l.second % Word)) % Word
           ELSE DLimitIn(s)
<1> DEFINE r == Append(s, l)
           S == Where(s, {"u"}) \cup Paired(s, {"t"})
           T == Where(r, {"u"}) \cup Paired(r, {"t"})
           speaks == l.letter = "u" \/ (l.letter = "t" /\ l.second # None)
<1>1. /\ Len(s) \in Nat
      /\ Where(s, {"u"}) \in SUBSET (1 .. Len(s))
      /\ Where(r, {"u"}) = IF l.letter = "u" THEN Where(s, {"u"}) \cup {Len(s) + 1}
                                             ELSE Where(s, {"u"})
  BY WhereNext
<1>2. /\ Paired(s, {"t"}) \in SUBSET (1 .. Len(s))
      /\ Paired(r, {"t"}) = IF l.letter = "t" /\ l.second # None
                              THEN Paired(s, {"t"}) \cup {Len(s) + 1} ELSE Paired(s, {"t"})
  BY WhereNext
<1>3. /\ DTimeIn(r)[Len(s) + 1] = IF l.letter = "u" THEN (Second * (l.n % Word)) % Word
                                  ELSE (Second * (l.second % Word)) % Word
      /\ \A k \in 1 .. Len(s) : DTimeIn(r)[k] = DTimeIn(s)[k]
  BY DerivedNext
<1> HIDE DEF r
<1>4. S \in SUBSET (1 .. Len(s)) /\ T = (IF speaks THEN S \cup {Len(s) + 1} ELSE S)
  BY <1>1, <1>2
<1>6. \A k \in S : DTimeIn(r)[k] = DTimeIn(s)[k]
  BY <1>3, <1>4
<1> HIDE DEF S, T, speaks
<1>7. LastOf(T, DTimeIn(r), 2 * Second) =
        IF speaks THEN DTimeIn(r)[Len(s) + 1] ELSE LastOf(S, DTimeIn(s), 2 * Second)
  <2>1. LastOf(S \cup {Len(s) + 1}, DTimeIn(r), 2 * Second) = DTimeIn(r)[Len(s) + 1]
    BY <1>1, <1>4, <1>6, LastSaid
  <2>9. LastOf(S, DTimeIn(r), 2 * Second) = LastOf(S, DTimeIn(s), 2 * Second)
    BY <1>1, <1>4, <1>6, LastKept
  <2> QED
    BY <1>4, <2>1, <2>9
<1>8. DLimitIn(r) = IF speaks THEN DTimeIn(r)[Len(s) + 1] ELSE DLimitIn(s)
  BY <1>7 DEF DLimitIn, S, T
<1> QED
  BY <1>3, <1>8 DEF speaks, r

LEMMA VerboseNext ==
  ASSUME NEW s \in Seq(Letters), NEW l \in Letters
  PROVE  LastOf(Where(Append(s, l), {"v"}) \cup CsvIn(Append(s, l)), MuteIn(Append(s, l)), 2) =
           IF l.letter = "v" THEN l.n % Word
           ELSE IF l.letter = "o" /\ l.n % Word = Csv THEN 0
           ELSE LastOf(Where(s, {"v"}) \cup CsvIn(s), MuteIn(s), 2)
<1> DEFINE r == Append(s, l)
           S == Where(s, {"v"}) \cup CsvIn(s)
           T == Where(r, {"v"}) \cup CsvIn(r)
           mutes == l.letter = "o" /\ l.n % Word = Csv
           speaks == l.letter = "v" \/ mutes
<1>1. /\ Len(s) \in Nat
      /\ Where(s, {"v"}) \in SUBSET (1 .. Len(s))
      /\ Where(r, {"v"}) = IF l.letter = "v" THEN Where(s, {"v"}) \cup {Len(s) + 1}
                                             ELSE Where(s, {"v"})
  BY WhereNext
<1>2. /\ Where(s, {"o"}) \in SUBSET (1 .. Len(s))
      /\ Where(r, {"o"}) = IF l.letter = "o" THEN Where(s, {"o"}) \cup {Len(s) + 1}
                                             ELSE Where(s, {"o"})
  BY WhereNext
<1>3. /\ MuteIn(r)[Len(s) + 1] = IF l.letter = "o" THEN 0 ELSE l.n % Word
      /\ \A k \in 1 .. Len(s) : MuteIn(r)[k] = MuteIn(s)[k]
  BY DerivedNext
<1>4. /\ NumberIn(r)[Len(s) + 1] = l.n % Word
      /\ \A k \in 1 .. Len(s) : NumberIn(r)[k] = NumberIn(s)[k]
  BY NumbersNext
<1> HIDE DEF r
<1>5. CsvIn(s) \in SUBSET (1 .. Len(s))
  BY <1>2 DEF CsvIn
<1>6. CsvIn(r) = IF mutes THEN CsvIn(s) \cup {Len(s) + 1} ELSE CsvIn(s)
  BY <1>2, <1>4 DEF CsvIn
<1>7. S \in SUBSET (1 .. Len(s)) /\ T = (IF speaks THEN S \cup {Len(s) + 1} ELSE S)
  BY <1>1, <1>5, <1>6
<1>9. \A k \in S : MuteIn(r)[k] = MuteIn(s)[k]
  BY <1>3, <1>7
<1> HIDE DEF S, T, speaks, mutes
<1>10. LastOf(T, MuteIn(r), 2) =
         IF speaks THEN MuteIn(r)[Len(s) + 1] ELSE LastOf(S, MuteIn(s), 2)
  <2>8. Len(s) \in Nat
    BY <1>1
  <2>1. LastOf(S \cup {Len(s) + 1}, MuteIn(r), 2) = MuteIn(r)[Len(s) + 1]
    BY <1>1, <1>7, <1>9, LastSaid
  <2>2. S \in SUBSET (1 .. Len(s))
    BY <1>7
  <2>9. LastOf(S, MuteIn(r), 2) = LastOf(S, MuteIn(s), 2)
    <3>1. PICK d : d = 2
      OBVIOUS
    <3>2. LastOf(S, MuteIn(r), d) = LastOf(S, MuteIn(s), d)
      BY <1>9, <2>2, <2>8, LastKept
    <3> QED
      BY <3>1, <3>2
  <2> QED
    BY <1>7, <2>1, <2>9
<1>11. LastOf(T, MuteIn(r), 2) = IF l.letter = "v" THEN l.n % Word
                                 ELSE IF mutes THEN 0 ELSE LastOf(S, MuteIn(s), 2)
  BY <1>3, <1>10 DEF speaks, mutes
<1> QED
  BY <1>11 DEF S, T, r, mutes

LEMMA FormatNext ==
  ASSUME NEW s \in Seq(Letters), NEW l \in Letters
  PROVE  LastOf(Where(Append(s, l), {"o"}), FormatIn(Append(s, l)),
                IF Where(Append(s, l), {"m"}) = {} THEN Text ELSE TextFull) =
           LET before == LastOf(Where(s, {"o"}), FormatIn(s),
                                IF Where(s, {"m"}) = {} THEN Text ELSE TextFull)
           IN IF l.letter = "o" THEN l.n % Word
              ELSE IF l.letter = "m" /\ before = Text THEN TextFull ELSE before
<1> DEFINE r == Append(s, l)
           n == Len(s)
           O == Where(s, {"o"})
           M == Where(s, {"m"})
           d == IF M = {} THEN Text ELSE TextFull
           e == IF Where(r, {"m"}) = {} THEN Text ELSE TextFull
<1>1. /\ n \in Nat /\ DOMAIN s = 1 .. n /\ DOMAIN r = 1 .. n + 1
  BY TablesNext
<1>2. M \in SUBSET (1 .. n) /\ Where(r, {"m"}) = (IF l.letter = "m" THEN M \cup {n + 1}
                                                     ELSE M)
  BY WhereNext
<1>3. O \in SUBSET (1 .. n) /\ Where(r, {"o"}) = (IF l.letter = "o" THEN O \cup {n + 1}
                                                     ELSE O)
  BY WhereNext
<1>4. NumberIn(r)[n + 1] = l.n % Word /\ \A k \in 1 .. n : NumberIn(r)[k] = NumberIn(s)[k]
  BY NumbersNext
<1> HIDE DEF r, n
<1>5. \A k \in 1 .. n : FormatIn(s)[k] = IF FullAfter(s, k) THEN TextFull
                                            ELSE NumberIn(s)[k]
  BY <1>1 DEF FormatIn
<1>6. \A k \in 1 .. n + 1 :
        FormatIn(r)[k] = IF FullAfter(r, k) THEN TextFull ELSE NumberIn(r)[k]
  BY <1>1 DEF FormatIn
<1>7. CASE l.letter = "m"
  <2>1. Where(r, {"m"}) # {} /\ n + 1 \in Where(r, {"m"}) /\ l.letter # "o"
        /\ Where(r, {"o"}) = O
    BY <1>2, <1>3, <1>7
  <2>2. e = TextFull
    BY <2>1
  <2>3. CASE O = {}
    <3>1. LastOf(Where(r, {"o"}), FormatIn(r), e) = TextFull
      BY <2>1, <2>2, <2>3 DEF LastOf
    <3>2. LastOf(O, FormatIn(s), d) = d
      BY <2>3 DEF LastOf
    <3> QED
      BY <1>7, <2>1, <3>1, <3>2 DEF r
  <2>4. CASE O # {}
    <3> DEFINE k == Latest(O)
    <3>1. k \in O
      BY <1>1, <1>3, <2>4, LatestIn
    <3>2. k \in 1 .. n /\ k \in 1 .. n + 1 /\ n + 1 > k
      BY <1>1, <1>3, <3>1
    <3>3. /\ LastOf(Where(r, {"o"}), FormatIn(r), e) = FormatIn(r)[k]
          /\ LastOf(O, FormatIn(s), d) = FormatIn(s)[k]
      BY <2>1, <2>4 DEF LastOf
    <3> HIDE DEF k
    <3>4. FullAfter(r, k) <=> NumberIn(s)[k] = Text
      BY <1>4, <2>1, <3>2 DEF FullAfter
    <3>5. FullAfter(s, k) => NumberIn(s)[k] = Text
      BY DEF FullAfter
    <3>6. FormatIn(r)[k] = IF FormatIn(s)[k] = Text THEN TextFull ELSE FormatIn(s)[k]
      BY <1>4, <1>5, <1>6, <3>2, <3>4, <3>5 DEF Text, TextFull
    <3> QED
      BY <1>7, <2>1, <3>3, <3>6 DEF r
  <2> QED
    BY <2>3, <2>4
<1>8. CASE l.letter # "m"
  <2>1. Where(r, {"m"}) = M /\ e = d
    BY <1>2, <1>8
  <2>2. \A k \in 1 .. n : FormatIn(r)[k] = FormatIn(s)[k]
    <3> TAKE k \in 1 .. n
    <3>1. k \in 1 .. n + 1
      BY <1>1
    <3>2. FullAfter(r, k) <=> FullAfter(s, k)
      BY <1>4, <2>1 DEF FullAfter
    <3> QED
      BY <1>4, <1>5, <1>6, <3>1, <3>2
  <2>3. FormatIn(r)[n + 1] = l.n % Word
    <3>1. n + 1 \in 1 .. n + 1
      BY <1>1
    <3>2. ~FullAfter(r, n + 1)
      BY <1>1, <1>2, <2>1 DEF FullAfter
    <3> QED
      BY <1>4, <1>6, <3>1, <3>2
  <2> HIDE DEF d, e, O, M
  <2>4. /\ LastOf(O \cup {n + 1}, FormatIn(r), e) = FormatIn(r)[n + 1]
       /\ LastOf(O, FormatIn(r), e) = LastOf(O, FormatIn(s), e)
    <3>1. \A k \in O : FormatIn(r)[k] = FormatIn(s)[k]
      BY <1>3, <2>2
    <3>2. LastOf(O \cup {n + 1}, FormatIn(r), e) = FormatIn(r)[n + 1]
      BY <1>1, <1>3, LastSaid
    <3>3. LastOf(O, FormatIn(r), e) = LastOf(O, FormatIn(s), e)
      BY <1>1, <1>3, <3>1, LastKept
    <3> QED
      BY <3>2, <3>3
  <2>5. LastOf(Where(r, {"o"}), FormatIn(r), e) =
          IF l.letter = "o" THEN FormatIn(r)[n + 1] ELSE LastOf(O, FormatIn(s), e)
    BY <1>3, <2>4
  <2> QED
    BY <1>8, <2>1, <2>3, <2>5 DEF r, d, e, O, M
<1> QED
  BY <1>7, <1>8

(* What a text means, one letter longer, is what its letter makes of what it *)
(* meant.                                                                    *)
LEMMA MeaningNext ==
  ASSUME NEW s \in Seq(Letters), NEW l \in Letters
  PROVE  Meaning(Append(s, l)) = Changed(Meaning(s), l)
<1> DEFINE r == Append(s, l)
           n == Len(s)
           p == Meaning(s)
           q == Meaning(r)
           c == Changed(p, l)
<1>1. IsParams(c)
  BY DEF Changed, IsParams, Fields
<1>2. /\ NumberIn(r)[n + 1] = l.n % Word /\ \A k \in 1 .. n : NumberIn(r)[k] = NumberIn(s)[k]
      /\ SecondIn(r)[n + 1] = l.second % Word
      /\ \A k \in 1 .. n : SecondIn(r)[k] = SecondIn(s)[k]
      /\ ListIn(r)[n + 1] = l.list /\ \A k \in 1 .. n : ListIn(r)[k] = ListIn(s)[k]
  BY NumbersNext
<1>3. /\ TimeIn(r)[n + 1] = (Second * (l.n % Word)) % Word
      /\ \A k \in 1 .. n : TimeIn(r)[k] = TimeIn(s)[k]
      /\ ChunkIn(r)[n + 1] = ((l.n % Word) * KB) % Word
      /\ \A k \in 1 .. n : ChunkIn(r)[k] = ChunkIn(s)[k]
      /\ MemIn(r)[n + 1] = ((l.n % Word) * QuarterMB) % Word
      /\ \A k \in 1 .. n : MemIn(r)[k] = MemIn(s)[k]
      /\ SignedIn(r)[n + 1] = Signed(l.n % Word)
      /\ \A k \in 1 .. n : SignedIn(r)[k] = SignedIn(s)[k]
  BY DerivedNext
<1>4. ASSUME NEW letter, NEW d
      PROVE  LastOf(Where(r, {letter}), NumberIn(r), d) =
               IF l.letter = letter THEN NumberIn(r)[n + 1]
                                    ELSE LastOf(Where(s, {letter}), NumberIn(s), d)
  <2>1. PICK v : v = NumberIn(s)
    OBVIOUS
  <2>2. PICK w : w = NumberIn(r)
    OBVIOUS
  <2>3. \A k \in 1 .. n : w[k] = v[k]
    BY <1>2, <2>1, <2>2
  <2> HIDE DEF r, n
  <2>4. LastOf(Where(Append(s, l), {letter}), w, d) =
          IF l.letter = letter THEN w[Len(s) + 1]
                               ELSE LastOf(Where(s, {letter}), v, d)
    <3>1. \A k \in 1 .. Len(s) : w[k] = v[k]
      BY <2>3 DEF n
    <3> QED
      BY <3>1, LastWhere
  <2> QED
    BY <2>1, <2>2, <2>4 DEF r, n
<1>5. ASSUME NEW letter, NEW d
      PROVE  LastOf(Where(r, {letter}), ChunkIn(r), d) =
               IF l.letter = letter THEN ChunkIn(r)[n + 1]
                                    ELSE LastOf(Where(s, {letter}), ChunkIn(s), d)
  <2>1. PICK v : v = ChunkIn(s)
    OBVIOUS
  <2>2. PICK w : w = ChunkIn(r)
    OBVIOUS
  <2>3. \A k \in 1 .. n : w[k] = v[k]
    BY <1>3, <2>1, <2>2
  <2> HIDE DEF r, n
  <2>4. LastOf(Where(Append(s, l), {letter}), w, d) =
          IF l.letter = letter THEN w[Len(s) + 1]
                               ELSE LastOf(Where(s, {letter}), v, d)
    <3>1. \A k \in 1 .. Len(s) : w[k] = v[k]
      BY <2>3 DEF n
    <3> QED
      BY <3>1, LastWhere
  <2> QED
    BY <2>1, <2>2, <2>4 DEF r, n
<1>6. ASSUME NEW letter, NEW d
      PROVE  LastOf(Where(r, {letter}), MemIn(r), d) =
               IF l.letter = letter THEN MemIn(r)[n + 1]
                                    ELSE LastOf(Where(s, {letter}), MemIn(s), d)
  <2>1. PICK v : v = MemIn(s)
    OBVIOUS
  <2>2. PICK w : w = MemIn(r)
    OBVIOUS
  <2>3. \A k \in 1 .. n : w[k] = v[k]
    BY <1>3, <2>1, <2>2
  <2> HIDE DEF r, n
  <2>4. LastOf(Where(Append(s, l), {letter}), w, d) =
          IF l.letter = letter THEN w[Len(s) + 1]
                               ELSE LastOf(Where(s, {letter}), v, d)
    <3>1. \A k \in 1 .. Len(s) : w[k] = v[k]
      BY <2>3 DEF n
    <3> QED
      BY <3>1, LastWhere
  <2> QED
    BY <2>1, <2>2, <2>4 DEF r, n
<1>7. ASSUME NEW letter, NEW d
      PROVE  LastOf(Where(r, {letter}), SignedIn(r), d) =
               IF l.letter = letter THEN SignedIn(r)[n + 1]
                                    ELSE LastOf(Where(s, {letter}), SignedIn(s), d)
  <2>1. PICK v : v = SignedIn(s)
    OBVIOUS
  <2>2. PICK w : w = SignedIn(r)
    OBVIOUS
  <2>3. \A k \in 1 .. n : w[k] = v[k]
    BY <1>3, <2>1, <2>2
  <2> HIDE DEF r, n
  <2>4. LastOf(Where(Append(s, l), {letter}), w, d) =
          IF l.letter = letter THEN w[Len(s) + 1]
                               ELSE LastOf(Where(s, {letter}), v, d)
    <3>1. \A k \in 1 .. Len(s) : w[k] = v[k]
      BY <2>3 DEF n
    <3> QED
      BY <3>1, LastWhere
  <2> QED
    BY <2>1, <2>2, <2>4 DEF r, n
<1>8. ASSUME NEW letter, NEW d
      PROVE  LastOf(Where(r, {letter}), ListIn(r), d) =
               IF l.letter = letter THEN ListIn(r)[n + 1]
                                    ELSE LastOf(Where(s, {letter}), ListIn(s), d)
  <2>1. PICK v : v = ListIn(s)
    OBVIOUS
  <2>2. PICK w : w = ListIn(r)
    OBVIOUS
  <2>3. \A k \in 1 .. n : w[k] = v[k]
    BY <1>2, <2>1, <2>2
  <2> HIDE DEF r, n
  <2>4. LastOf(Where(Append(s, l), {letter}), w, d) =
          IF l.letter = letter THEN w[Len(s) + 1]
                               ELSE LastOf(Where(s, {letter}), v, d)
    <3>1. \A k \in 1 .. Len(s) : w[k] = v[k]
      BY <2>3 DEF n
    <3> QED
      BY <3>1, LastWhere
  <2> QED
    BY <2>1, <2>2, <2>4 DEF r, n
<1>9. ASSUME NEW letter, NEW d
      PROVE  LastOf(Where(r, {letter}), TimeIn(r), d) =
               IF l.letter = letter THEN TimeIn(r)[n + 1]
                                    ELSE LastOf(Where(s, {letter}), TimeIn(s), d)
  <2>1. PICK v : v = TimeIn(s)
    OBVIOUS
  <2>2. PICK w : w = TimeIn(r)
    OBVIOUS
  <2>3. \A k \in 1 .. n : w[k] = v[k]
    BY <1>3, <2>1, <2>2
  <2> HIDE DEF r, n
  <2>4. LastOf(Where(Append(s, l), {letter}), w, d) =
          IF l.letter = letter THEN w[Len(s) + 1]
                               ELSE LastOf(Where(s, {letter}), v, d)
    <3>1. \A k \in 1 .. Len(s) : w[k] = v[k]
      BY <2>3 DEF n
    <3> QED
      BY <3>1, LastWhere
  <2> QED
    BY <2>1, <2>2, <2>4 DEF r, n
<1>10. q.chunkSize = c.chunkSize
  <2>1. \A d : LastOf(Where(r, {"b"}), ChunkIn(r), d) =
                IF l.letter = "b" THEN ChunkIn(r)[n + 1]
                   ELSE LastOf(Where(s, {"b"}), ChunkIn(s), d)
    <3>1. PICK letter : letter = "b"
      OBVIOUS
    <3> HIDE DEF r, n
    <3> QED
      BY <3>1, <1>5
  <2> HIDE DEF r, n
  <2>2. PICK d : d = DefaultChunk
    OBVIOUS
  <2>3. /\ q.chunkSize = LastOf(Where(r, {"b"}), ChunkIn(r), d)
        /\ p.chunkSize = LastOf(Where(s, {"b"}), ChunkIn(s), d)
    BY <2>2, MeaningIs
  <2>4. c.chunkSize = IF l.letter = "b" THEN ChunkIn(r)[n + 1] ELSE p.chunkSize
    BY <1>3 DEF Changed
  <2> HIDE DEF p, q, c
  <2> QED
    BY <2>1, <2>3, <2>4
<1>11. q.memLimit = c.memLimit
  <2>1. \A d : LastOf(Where(r, {"m"}), MemIn(r), d) =
                IF l.letter = "m" THEN MemIn(r)[n + 1]
                   ELSE LastOf(Where(s, {"m"}), MemIn(s), d)
    <3>1. PICK letter : letter = "m"
      OBVIOUS
    <3> HIDE DEF r, n
    <3> QED
      BY <3>1, <1>6
  <2> HIDE DEF r, n
  <2>2. PICK d : d = 0
    OBVIOUS
  <2>3. /\ q.memLimit = LastOf(Where(r, {"m"}), MemIn(r), d)
        /\ p.memLimit = LastOf(Where(s, {"m"}), MemIn(s), d)
    BY <2>2, MeaningIs
  <2>4. c.memLimit = IF l.letter = "m" THEN MemIn(r)[n + 1] ELSE p.memLimit
    BY <1>3 DEF Changed
  <2> HIDE DEF p, q, c
  <2> QED
    BY <2>1, <2>3, <2>4
<1>12. q.timeType = c.timeType
  <2>1. \A d : LastOf(Where(r, {"p"}), NumberIn(r), d) =
                IF l.letter = "p" THEN NumberIn(r)[n + 1]
                   ELSE LastOf(Where(s, {"p"}), NumberIn(s), d)
    <3>1. PICK letter : letter = "p"
      OBVIOUS
    <3> HIDE DEF r, n
    <3> QED
      BY <3>1, <1>4
  <2> HIDE DEF r, n
  <2>2. PICK d : d = 1
    OBVIOUS
  <2>3. /\ q.timeType = LastOf(Where(r, {"p"}), NumberIn(r), d)
        /\ p.timeType = LastOf(Where(s, {"p"}), NumberIn(s), d)
    BY <2>2, MeaningIs
  <2>4. c.timeType = IF l.letter = "p" THEN NumberIn(r)[n + 1] ELSE p.timeType
    BY <1>2 DEF Changed
  <2> HIDE DEF p, q, c
  <2> QED
    BY <2>1, <2>3, <2>4
<1>13. q.cIters = c.cIters
  <2>1. \A d : LastOf(Where(r, {"i"}), NumberIn(r), d) =
                IF l.letter = "i" THEN NumberIn(r)[n + 1]
                   ELSE LastOf(Where(s, {"i"}), NumberIn(s), d)
    <3>1. PICK letter : letter = "i"
      OBVIOUS
    <3> HIDE DEF r, n
    <3> QED
      BY <3>1, <1>4
  <2> HIDE DEF r, n
  <2>2. PICK d : d = 1
    OBVIOUS
  <2>3. /\ q.cIters = LastOf(Where(r, {"i"}), NumberIn(r), d)
        /\ p.cIters = LastOf(Where(s, {"i"}), NumberIn(s), d)
    BY <2>2, MeaningIs
  <2>4. c.cIters = IF l.letter = "i" THEN NumberIn(r)[n + 1] ELSE p.cIters
    BY <1>2 DEF Changed
  <2> HIDE DEF p, q, c
  <2> QED
    BY <2>1, <2>3, <2>4
<1>14. q.cSpeed = c.cSpeed
  <2>1. \A d : LastOf(Where(r, {"s"}), NumberIn(r), d) =
                IF l.letter = "s" THEN NumberIn(r)[n + 1]
                   ELSE LastOf(Where(s, {"s"}), NumberIn(s), d)
    <3>1. PICK letter : letter = "s"
      OBVIOUS
    <3> HIDE DEF r, n
    <3> QED
      BY <3>1, <1>4
  <2> HIDE DEF r, n
  <2>2. PICK d : d = 0
    OBVIOUS
  <2>3. /\ q.cSpeed = LastOf(Where(r, {"s"}), NumberIn(r), d)
        /\ p.cSpeed = LastOf(Where(s, {"s"}), NumberIn(s), d)
    BY <2>2, MeaningIs
  <2>4. c.cSpeed = IF l.letter = "s" THEN NumberIn(r)[n + 1] ELSE p.cSpeed
    BY <1>2 DEF Changed
  <2> HIDE DEF p, q, c
  <2> QED
    BY <2>1, <2>3, <2>4
<1>15. q.sortCol = c.sortCol
  <2>1. \A d : LastOf(Where(r, {"c"}), SignedIn(r), d) =
                IF l.letter = "c" THEN SignedIn(r)[n + 1]
                   ELSE LastOf(Where(s, {"c"}), SignedIn(s), d)
    <3>1. PICK letter : letter = "c"
      OBVIOUS
    <3> HIDE DEF r, n
    <3> QED
      BY <3>1, <1>7
  <2> HIDE DEF r, n
  <2>2. PICK d : d = 0
    OBVIOUS
  <2>3. /\ q.sortCol = LastOf(Where(r, {"c"}), SignedIn(r), d)
        /\ p.sortCol = LastOf(Where(s, {"c"}), SignedIn(s), d)
    BY <2>2, MeaningIs
  <2>4. c.sortCol = IF l.letter = "c" THEN SignedIn(r)[n + 1] ELSE p.sortCol
    BY <1>3 DEF Changed
  <2> HIDE DEF p, q, c
  <2> QED
    BY <2>1, <2>3, <2>4
<1>16. q.encoders = c.encoders
  <2>1. \A d : LastOf(Where(r, {"e"}), ListIn(r), d) =
                IF l.letter = "e" THEN ListIn(r)[n + 1]
                   ELSE LastOf(Where(s, {"e"}), ListIn(s), d)
    <3>1. PICK letter : letter = "e"
      OBVIOUS
    <3> HIDE DEF r, n
    <3> QED
      BY <3>1, <1>8
  <2> HIDE DEF r, n
  <2>2. PICK d : d = None
    OBVIOUS
  <2>3. /\ q.encoders = LastOf(Where(r, {"e"}), ListIn(r), d)
        /\ p.encoders = LastOf(Where(s, {"e"}), ListIn(s), d)
    BY <2>2, MeaningIs
  <2>4. c.encoders = IF l.letter = "e" THEN ListIn(r)[n + 1] ELSE p.encoders
    BY <1>2 DEF Changed
  <2> HIDE DEF p, q, c
  <2> QED
    BY <2>1, <2>3, <2>4
<1>17. q.dIters = c.dIters
  <2>1. \A d : LastOf(Paired(r, {"i"}), SecondIn(r), d) =
                IF l.letter = "i" /\ l.second # None
                  THEN SecondIn(r)[n + 1] ELSE LastOf(Paired(s, {"i"}), SecondIn(s), d)
    <3>1. PICK letter : letter = "i"
      OBVIOUS
    <3>2. \A d : LastOf(Paired(Append(s, l), {letter}), SecondIn(Append(s, l)), d) =
                  IF l.letter = letter /\ l.second # None
                    THEN l.second % Word ELSE LastOf(Paired(s, {letter}), SecondIn(s), d)
      BY PairedNext
    <3> QED
      BY <1>2, <3>1, <3>2
  <2> HIDE DEF r, n
  <2>2. PICK d : d = 1
    OBVIOUS
  <2>3. /\ q.dIters = LastOf(Paired(r, {"i"}), SecondIn(r), d)
        /\ p.dIters = LastOf(Paired(s, {"i"}), SecondIn(s), d)
    BY <2>2, MeaningIs
  <2>4. c.dIters = IF l.letter = "i" /\ l.second # None THEN SecondIn(r)[n + 1]
                      ELSE p.dIters
    BY <1>2 DEF Changed
  <2> HIDE DEF p, q, c
  <2> QED
    BY <2>1, <2>3, <2>4
<1>18. q.cMinTime = c.cMinTime /\ q.cLoop = c.cLoop
  <2>1. \A d : LastOf(Where(r, {"t"}), TimeIn(r), d) =
                IF l.letter = "t" THEN TimeIn(r)[n + 1]
                   ELSE LastOf(Where(s, {"t"}), TimeIn(s), d)
    <3>1. PICK letter : letter = "t"
      OBVIOUS
    <3> HIDE DEF r, n
    <3> QED
      BY <3>1, <1>9
  <2> HIDE DEF r, n
  <2>2. CLimitIn(r) = IF l.letter = "t" THEN (Second * (l.n % Word)) % Word
                         ELSE CLimitIn(s)
    BY <1>3, <2>1 DEF CLimitIn
  <2>3. /\ q.cMinTime = CLimitIn(r) /\ q.cLoop = (CLimitIn(r) # 0)
        /\ p.cMinTime = CLimitIn(s) /\ p.cLoop = (CLimitIn(s) # 0)
    BY MeaningIs
  <2>4. /\ c.cMinTime = IF l.letter = "t" THEN (Second * (l.n % Word)) % Word
                           ELSE p.cMinTime
        /\ c.cLoop = IF l.letter = "t" THEN (Second * (l.n % Word)) % Word # 0
                        ELSE p.cLoop
    BY DEF Changed
  <2> HIDE DEF p, q, c
  <2> QED
    BY <2>2, <2>3, <2>4
<1>19. q.dMinTime = c.dMinTime /\ q.dLoop = c.dLoop
  <2>1. DLimitIn(r) =
          IF l.letter = "u" THEN (Second * (l.n % Word)) % Word
         
                  ELSE IF l.letter = "t" /\ l.second # None
                          THEN (Second * (l.second % Word)) % Word
          ELSE DLimitIn(s)
    BY DLimitNext
  <2> HIDE DEF r
  <2>2. /\ q.dMinTime = DLimitIn(r) /\ q.dLoop = (DLimitIn(r) # 0)
        /\ p.dMinTime = DLimitIn(s) /\ p.dLoop = (DLimitIn(s) # 0)
    BY MeaningIs
  <2>3. /\ c.dMinTime = IF l.letter = "u" THEN (Second * (l.n % Word)) % Word
                        ELSE IF l.letter = "t" /\ l.second # None
                          THEN (Second * (l.second % Word)) % Word ELSE p.dMinTime
        /\ c.dLoop = IF l.letter = "u" THEN (Second * (l.n % Word)) % Word # 0
                     ELSE IF l.letter = "t" /\ l.second # None
                       THEN (Second * (l.second % Word)) % Word # 0 ELSE p.dLoop
    BY DEF Changed
  <2> HIDE DEF p, q, c
  <2> QED
    BY <2>1, <2>2, <2>3
<1>20. q.verbose = c.verbose
  <2>1. LastOf(Where(r, {"v"}) \cup CsvIn(r), MuteIn(r), 2) =
          IF l.letter = "v" THEN l.n % Word
          ELSE IF l.letter = "o" /\ l.n % Word = Csv THEN 0
          ELSE LastOf(Where(s, {"v"}) \cup CsvIn(s), MuteIn(s), 2)
    BY VerboseNext
  <2> HIDE DEF r
  <2>2. /\ q.verbose = LastOf(Where(r, {"v"}) \cup CsvIn(r), MuteIn(r), 2)
        /\ p.verbose = LastOf(Where(s, {"v"}) \cup CsvIn(s), MuteIn(s), 2)
    BY MeaningIs
  <2>3. c.verbose = IF l.letter = "v" THEN l.n % Word
                    ELSE IF l.letter = "o" /\ l.n % Word = Csv THEN 0 ELSE p.verbose
    BY DEF Changed
  <2> HIDE DEF p, q, c
  <2> QED
    BY <2>1, <2>2, <2>3
<1>21. q.textFormat = c.textFormat
  <2> DEFINE before == LastOf(Where(s, {"o"}), FormatIn(s),
                              IF Where(s, {"m"}) = {} THEN Text ELSE TextFull)
             after == LastOf(Where(r, {"o"}), FormatIn(r),
                             IF Where(r, {"m"}) = {} THEN Text ELSE TextFull)
  <2>1. after = IF l.letter = "o" THEN l.n % Word
                ELSE IF l.letter = "m" /\ before = Text THEN TextFull ELSE before
    BY FormatNext
  <2> HIDE DEF r
  <2>2. q.textFormat = after /\ p.textFormat = before
    BY MeaningIs
  <2>3. c.textFormat = IF l.letter = "o" THEN l.n % Word
                       ELSE IF l.letter = "m" /\ p.textFormat = Text THEN TextFull
                       ELSE p.textFormat
    BY DEF Changed
  <2> HIDE DEF p, q, c, before, after
  <2> QED
    BY <2>1, <2>2, <2>3
<1>22. q.compressOnly = c.compressOnly
  <2>1. Where(r, {"-compress-only"}) = {}
         <=> l.letter # "-compress-only" /\ Where(s, {"-compress-only"}) = {}
    BY WhereEmpty
  <2> HIDE DEF r
  <2>2. /\ q.compressOnly = (Where(r, {"-compress-only"}) # {})
        /\ p.compressOnly = (Where(s, {"-compress-only"}) # {})
    BY MeaningIs
  <2>3. c.compressOnly = IF l.letter = "-compress-only" THEN TRUE ELSE p.compressOnly
    BY DEF Changed
  <2> HIDE DEF p, q, c
  <2> QED
    BY <2>1, <2>2, <2>3
<1>23. q.randomRead = c.randomRead
  <2>1. Where(r, {"R"}) = {} <=> l.letter # "R" /\ Where(s, {"R"}) = {}
    BY WhereEmpty
  <2> HIDE DEF r
  <2>2. q.randomRead = (Where(r, {"R"}) # {}) /\ p.randomRead = (Where(s, {"R"}) # {})
    BY MeaningIs
  <2>3. c.randomRead = IF l.letter = "R" THEN TRUE ELSE p.randomRead
    BY DEF Changed
  <2> HIDE DEF p, q, c
  <2> QED
    BY <2>1, <2>2, <2>3
<1>24. q.join = c.join
  <2>1. Where(r, {"j"}) = {} <=> l.letter # "j" /\ Where(s, {"j"}) = {}
    BY WhereEmpty
  <2> HIDE DEF r
  <2>2. q.join = (Where(r, {"j"}) # {}) /\ p.join = (Where(s, {"j"}) # {})
    BY MeaningIs
  <2>3. c.join = IF l.letter = "j" THEN TRUE ELSE p.join
    BY DEF Changed
  <2> HIDE DEF p, q, c
  <2> QED
    BY <2>1, <2>2, <2>3
<1>25. q.recursive = c.recursive
  <2>1. Where(r, {"r"}) = {} <=> l.letter # "r" /\ Where(s, {"r"}) = {}
    BY WhereEmpty
  <2> HIDE DEF r
  <2>2. q.recursive = (Where(r, {"r"}) # {}) /\ p.recursive = (Where(s, {"r"}) # {})
    BY MeaningIs
  <2>3. c.recursive = IF l.letter = "r" THEN TRUE ELSE p.recursive
    BY DEF Changed
  <2> HIDE DEF p, q, c
  <2> QED
    BY <2>1, <2>2, <2>3
<1>26. q.showSpeed = c.showSpeed
  <2>1. Where(r, {"z"}) = {} <=> l.letter # "z" /\ Where(s, {"z"}) = {}
    BY WhereEmpty
  <2> HIDE DEF r
  <2>2. q.showSpeed = (Where(r, {"z"}) = {}) /\ p.showSpeed = (Where(s, {"z"}) = {})
    BY MeaningIs
  <2>3. c.showSpeed = IF l.letter = "z" THEN FALSE ELSE p.showSpeed
    BY DEF Changed
  <2> HIDE DEF p, q, c
  <2> QED
    BY <2>1, <2>2, <2>3
<1>27. q.realTime = c.realTime
  <2>1. Where(r, {"x"}) = {} <=> l.letter # "x" /\ Where(s, {"x"}) = {}
    BY WhereEmpty
  <2> HIDE DEF r
  <2>2. q.realTime = (Where(r, {"x"}) = {}) /\ p.realTime = (Where(s, {"x"}) = {})
    BY MeaningIs
  <2>3. c.realTime = IF l.letter = "x" THEN FALSE ELSE p.realTime
    BY DEF Changed
  <2> HIDE DEF p, q, c
  <2> QED
    BY <2>1, <2>2, <2>3
<1>28. IsParams(q)
  BY MeaningIs
<1> HIDE DEF c, p, q, r
<1>29. q = c
  BY <1>1, <1>10, <1>11, <1>12, <1>13, <1>14, <1>15, <1>16, <1>17, <1>18, <1>19,
     <1>20, <1>21, <1>22, <1>23, <1>24, <1>25, <1>26, <1>27,
     <1>28, SameParams
<1> QED
  BY <1>29 DEF c, p, q, r

LEMMA MeaningOfNothing ==
  Meaning(<<>>) = Defaults
<1>1. IsParams(Defaults)
  BY DEF Defaults, IsParams, Fields
<1>2. \A ls : Where(<<>>, ls) = {} /\ Paired(<<>>, ls) = {}
  BY DEF Where, Paired
<1>3. CsvIn(<<>>) = {}
  BY <1>2 DEF CsvIn
<1>4. \A S, v, d : S = {} => LastOf(S, v, d) = d
  BY DEF LastOf
<1>5. CLimitIn(<<>>) = Second /\ DLimitIn(<<>>) = 2 * Second
  BY <1>2, <1>4 DEF CLimitIn, DLimitIn
<1>6. Second # 0 /\ 2 * Second # 0
  BY OptionsAssumption
<1> DEFINE q == Meaning(<<>>)
           d == Defaults
<1>7. IsParams(q)
  BY MeaningIs
<1>8. /\ q.chunkSize = d.chunkSize /\ q.memLimit = d.memLimit /\ q.textFormat = d.textFormat
      /\ q.timeType = d.timeType /\ q.cIters = d.cIters /\ q.dIters = d.dIters
      /\ q.cSpeed = d.cSpeed /\ q.verbose = d.verbose /\ q.sortCol = d.sortCol
      /\ q.encoders = d.encoders
  <2>1. q.chunkSize = d.chunkSize
    <3>1. Where(<<>>, {"b"}) = {}
      BY <1>2
    <3>2. q.chunkSize = LastOf(Where(<<>>, {"b"}), ChunkIn(<<>>), DefaultChunk)
      BY MeaningIs
    <3> QED
      BY <3>1, <3>2 DEF Defaults, LastOf
  <2>2. q.memLimit = d.memLimit
    <3>1. Where(<<>>, {"m"}) = {}
      BY <1>2
    <3>2. q.memLimit = LastOf(Where(<<>>, {"m"}), MemIn(<<>>), 0)
      BY MeaningIs
    <3> QED
      BY <3>1, <3>2 DEF Defaults, LastOf
  <2>3. q.textFormat = d.textFormat
    BY <1>2, <1>3, MeaningIs DEF Defaults, LastOf
  <2>4. q.timeType = d.timeType
    <3>1. Where(<<>>, {"p"}) = {}
      BY <1>2
    <3>2. q.timeType = LastOf(Where(<<>>, {"p"}), NumberIn(<<>>), 1)
      BY MeaningIs
    <3> QED
      BY <3>1, <3>2 DEF Defaults, LastOf
  <2>5. q.cIters = d.cIters
    <3>1. Where(<<>>, {"i"}) = {}
      BY <1>2
    <3>2. q.cIters = LastOf(Where(<<>>, {"i"}), NumberIn(<<>>), 1)
      BY MeaningIs
    <3> QED
      BY <3>1, <3>2 DEF Defaults, LastOf
  <2>6. q.dIters = d.dIters
    BY <1>2, <1>3, MeaningIs DEF Defaults, LastOf
  <2>7. q.cSpeed = d.cSpeed
    <3>1. Where(<<>>, {"s"}) = {}
      BY <1>2
    <3>2. q.cSpeed = LastOf(Where(<<>>, {"s"}), NumberIn(<<>>), 0)
      BY MeaningIs
    <3> QED
      BY <3>1, <3>2 DEF Defaults, LastOf
  <2>8. q.verbose = d.verbose
    BY <1>2, <1>3, MeaningIs DEF Defaults, LastOf
  <2>9. q.sortCol = d.sortCol
    <3>1. Where(<<>>, {"c"}) = {}
      BY <1>2
    <3>2. q.sortCol = LastOf(Where(<<>>, {"c"}), SignedIn(<<>>), 0)
      BY MeaningIs
    <3> QED
      BY <3>1, <3>2 DEF Defaults, LastOf
  <2>10. q.encoders = d.encoders
    <3>1. Where(<<>>, {"e"}) = {}
      BY <1>2
    <3>2. q.encoders = LastOf(Where(<<>>, {"e"}), ListIn(<<>>), None)
      BY MeaningIs
    <3> QED
      BY <3>1, <3>2 DEF Defaults, LastOf
  <2> QED
    BY <2>1, <2>2, <2>3, <2>4, <2>5, <2>6, <2>7, <2>8, <2>9, <2>10
<1>9. /\ q.cMinTime = d.cMinTime /\ q.dMinTime = d.dMinTime
      /\ q.cLoop = d.cLoop /\ q.dLoop = d.dLoop
  BY <1>5, <1>6, MeaningIs DEF Defaults
<1>10. /\ q.showSpeed = d.showSpeed /\ q.compressOnly = d.compressOnly
       /\ q.randomRead = d.randomRead /\ q.join = d.join /\ q.recursive = d.recursive
       /\ q.realTime = d.realTime
  <2>1. q.showSpeed = d.showSpeed
    <3>1. Where(<<>>, {"z"}) = {}
      BY <1>2
    <3>2. q.showSpeed = (Where(<<>>, {"z"}) = {})
      BY MeaningIs
    <3> QED
      BY <3>1, <3>2 DEF Defaults
  <2>2. q.compressOnly = d.compressOnly
    <3>1. Where(<<>>, {"-compress-only"}) = {}
      BY <1>2
    <3>2. q.compressOnly = (Where(<<>>, {"-compress-only"}) # {})
      BY MeaningIs
    <3> QED
      BY <3>1, <3>2 DEF Defaults
  <2>3. q.randomRead = d.randomRead
    <3>1. Where(<<>>, {"R"}) = {}
      BY <1>2
    <3>2. q.randomRead = (Where(<<>>, {"R"}) # {})
      BY MeaningIs
    <3> QED
      BY <3>1, <3>2 DEF Defaults
  <2>4. q.join = d.join
    <3>1. Where(<<>>, {"j"}) = {}
      BY <1>2
    <3>2. q.join = (Where(<<>>, {"j"}) # {})
      BY MeaningIs
    <3> QED
      BY <3>1, <3>2 DEF Defaults
  <2>5. q.recursive = d.recursive
    <3>1. Where(<<>>, {"r"}) = {}
      BY <1>2
    <3>2. q.recursive = (Where(<<>>, {"r"}) # {})
      BY MeaningIs
    <3> QED
      BY <3>1, <3>2 DEF Defaults
  <2>6. q.realTime = d.realTime
    <3>1. Where(<<>>, {"x"}) = {}
      BY <1>2
    <3>2. q.realTime = (Where(<<>>, {"x"}) = {})
      BY MeaningIs
    <3> QED
      BY <3>1, <3>2 DEF Defaults
  <2> QED
    BY <2>1, <2>2, <2>3, <2>4, <2>5, <2>6
<1> HIDE DEF q, d
<1>11. q = d
  BY <1>1, <1>7, <1>8, <1>9, <1>10, SameParams DEF d
<1> QED
  BY <1>11 DEF q, d

-------------------------------------------------------------------------------
(* What the rest of main relies on.                                          *)
ParamsOK(p) ==
  /\ IsParams(p)
  /\ {p.chunkSize, p.memLimit, p.textFormat, p.verbose, p.cIters, p.dIters, p.cMinTime,
      p.dMinTime, p.cSpeed, p.timeType} \subseteq 0 .. Word - 1
  /\ p.sortCol \in - (Word \div 2) .. Word \div 2
  /\ {p.join, p.recursive, p.randomRead} \subseteq BOOLEAN
  /\ p.encoders = None \/ \E l \in Letters : l.letter = "e" /\ p.encoders = l.list

OptionsInv ==
  /\ opc \in {"word", "letter", "names", "clean", "listed", "unknown", "go"}
  /\ argv \in Seq(Arguments)
  /\ letters \in Seq(Letters)
  /\ said \in Seq(Letters)
  /\ ParamsOK(params)
  /\ LastWordWins

LEMMA SignedIs ==
  ASSUME NEW n \in 0 .. Word - 1
  PROVE  Signed(n) \in - (Word \div 2) .. Word \div 2
<1>1. PICK h \in Nat : h = Word \div 2
  BY OptionsAssumption
<1>2. Word = 2 * h
  <2>1. Word \in Nat /\ Word % 2 = 0
    BY OptionsAssumption
  <2> QED
    BY <1>1, <2>1
<1>3. Signed(n) = IF n < h THEN n ELSE n - Word
  BY <1>1 DEF Signed
<1>4. Signed(n) \in -h .. h
  BY <1>2, <1>3
<1> QED
  BY <1>1, <1>4

LEMMA ChangedOK ==
  ASSUME NEW p, ParamsOK(p), NEW l \in Letters
  PROVE  ParamsOK(Changed(p, l))
<1> DEFINE c == Changed(p, l)
           number == l.n % Word
           second == l.second % Word
           time == (Second * number) % Word
           dTime == (Second * second) % Word
<1>1. l.n \in Nat /\ (l.second # None => l.second \in Nat)
  BY OptionsAssumption DEF IsLetter
<1>2. number \in 0 .. Word - 1
  BY <1>1, InWord
<1>3. time \in 0 .. Word - 1
  BY <1>1, TimeInWord
<1>4. l.second # None => second \in 0 .. Word - 1 /\ dTime \in 0 .. Word - 1
  BY <1>1, InWord, TimeInWord
<1>5. (number * KB) % Word \in 0 .. Word - 1 /\ (number * QuarterMB) % Word \in 0 .. Word - 1
  <2>1. KB \in Nat /\ QuarterMB \in Nat /\ number \in Nat
    BY <1>2, OptionsAssumption
  <2>2. number * KB \in Int /\ number * QuarterMB \in Int
    <3> HIDE DEF number
    <3> QED
      BY <2>1
  <2> HIDE DEF number
  <2> QED
    BY <2>2, InWord
<1>6. Signed(number) \in - (Word \div 2) .. Word \div 2
  BY <1>2, SignedIs
<1>7. {0, Csv, Text, TextFull} \subseteq 0 .. Word - 1
  BY OptionsAssumption DEF Csv, Text, TextFull
<1>8. IsParams(c)
  BY DEF Changed, IsParams, Fields
<1>9. /\ c.chunkSize = IF l.letter = "b" THEN (number * KB) % Word ELSE p.chunkSize
      /\ c.memLimit = IF l.letter = "m" THEN (number * QuarterMB) % Word ELSE p.memLimit
      /\ c.textFormat = IF l.letter = "o" THEN number
                        ELSE IF l.letter = "m" /\ p.textFormat = Text THEN TextFull
                        ELSE p.textFormat
      /\ c.timeType = IF l.letter = "p" THEN number ELSE p.timeType
      /\ c.cIters = IF l.letter = "i" THEN number ELSE p.cIters
      /\ c.dIters = IF l.letter = "i" /\ l.second # None THEN second ELSE p.dIters
      /\ c.cSpeed = IF l.letter = "s" THEN number ELSE p.cSpeed
  BY DEF Changed
<1>10. /\ c.verbose = IF l.letter = "v" THEN number
                      ELSE IF l.letter = "o" /\ number = Csv THEN 0 ELSE p.verbose
       /\ c.cMinTime = IF l.letter = "t" THEN time ELSE p.cMinTime
       /\ c.dMinTime = IF l.letter = "u" THEN time
                       ELSE IF l.letter = "t" /\ l.second # None THEN dTime ELSE p.dMinTime
       /\ c.sortCol = IF l.letter = "c" THEN Signed(number) ELSE p.sortCol
       /\ c.encoders = IF l.letter = "e" THEN l.list ELSE p.encoders
  BY DEF Changed
<1>11. /\ c.join = IF l.letter = "j" THEN TRUE ELSE p.join
       /\ c.recursive = IF l.letter = "r" THEN TRUE ELSE p.recursive
       /\ c.randomRead = IF l.letter = "R" THEN TRUE ELSE p.randomRead
  BY DEF Changed
<1> HIDE DEF c, number, second, time, dTime
<1>12. {c.chunkSize, c.memLimit, c.textFormat, c.timeType, c.cIters, c.dIters, c.cSpeed}
         \subseteq 0 .. Word - 1
  BY <1>2, <1>4, <1>5, <1>7, <1>9 DEF ParamsOK
<1>13. {c.verbose, c.cMinTime, c.dMinTime} \subseteq 0 .. Word - 1
  BY <1>2, <1>3, <1>4, <1>7, <1>10 DEF ParamsOK
<1>14. c.sortCol \in - (Word \div 2) .. Word \div 2
  BY <1>6, <1>10 DEF ParamsOK
<1>15. {c.join, c.recursive, c.randomRead} \subseteq BOOLEAN
  BY <1>11 DEF ParamsOK
<1>16. c.encoders = None \/ \E e \in Letters : e.letter = "e" /\ c.encoders = e.list
  BY <1>10 DEF ParamsOK
<1> QED
  BY <1>8, <1>12, <1>13, <1>14, <1>15, <1>16 DEF ParamsOK, c

LEMMA OptionsInvInit ==
  OptionsInit => OptionsInv
<1> SUFFICES ASSUME OptionsInit PROVE OptionsInv
  OBVIOUS
<1>1. argv \in Seq(Arguments) /\ letters = <<>> /\ said = <<>> /\ opc = "word"
      /\ params = Defaults
  BY OptionsAssumption DEF OptionsInit
<1>2. LastWordWins
  BY <1>1, MeaningOfNothing DEF LastWordWins
<1>3. {DefaultChunk, 0, 1, 2, Second, 2 * Second} \subseteq 0 .. Word - 1
  BY OptionsAssumption DEF Csv
<1>4. - (Word \div 2) <= 0 /\ 0 <= Word \div 2 /\ Word \div 2 \in Int
  BY OptionsAssumption
<1>5. ParamsOK(Defaults)
  <2>1. IsParams(Defaults)
    BY DEF Defaults, IsParams, Fields
  <2>2. Defaults.sortCol = 0 /\ Defaults.encoders = None
    BY DEF Defaults
  <2>3. {Defaults.join, Defaults.recursive, Defaults.randomRead} \subseteq BOOLEAN
    BY DEF Defaults
  <2>4. {Defaults.chunkSize, Defaults.memLimit, Defaults.textFormat, Defaults.verbose,
         Defaults.cIters, Defaults.dIters, Defaults.cMinTime, Defaults.dMinTime,
         Defaults.cSpeed, Defaults.timeType} \subseteq 0 .. Word - 1
    BY <1>3 DEF Defaults, Text
  <2> QED
    BY <1>4, <2>1, <2>2, <2>3, <2>4 DEF ParamsOK
<1> QED
  BY <1>1, <1>2, <1>5 DEF OptionsInv

LEMMA HeadAndTail ==
  ASSUME NEW S, NEW s \in Seq(S), s # <<>>
  PROVE  Head(s) \in S /\ Tail(s) \in Seq(S)
  OBVIOUS

LEMMA OptionsInvKept ==
  ASSUME OptionsInv, UNCHANGED <<argv, letters, params, opc, said>>
  PROVE  OptionsInv'
  BY DEF OptionsInv, LastWordWins

LEMMA OptionsInvStep ==
  ASSUME OptionsInv, OptionsNext
  PROVE  OptionsInv'
<1>1. /\ argv \in Seq(Arguments) /\ letters \in Seq(Letters) /\ said \in Seq(Letters)
      /\ ParamsOK(params) /\ params = Meaning(said)
  BY DEF OptionsInv, LastWordWins
<1>2. CASE TakeOptions
  <2>1. /\ argv # <<>> /\ letters' = Head(argv).letters /\ argv' = Tail(argv)
        /\ opc' = "letter" /\ params' = params /\ said' = said
    BY <1>2 DEF TakeOptions
  <2>2. Head(argv) \in Arguments /\ Tail(argv) \in Seq(Arguments)
    BY <1>1, <2>1, HeadAndTail
  <2>3. letters' \in Seq(Letters)
    BY <2>1, <2>2, OptionsAssumption DEF IsArgument
  <2> QED
    BY <1>1, <2>1, <2>2, <2>3 DEF OptionsInv, LastWordWins
<1>3. CASE ObeyLetter
  <2> DEFINE l == Head(letters)
  <2>1. /\ letters # <<>> /\ l.letter \in Settings /\ params' = Effect(params, l)
        /\ said' = Append(said, l) /\ letters' = Tail(letters)
        /\ argv' = argv /\ opc' = opc
    BY <1>3 DEF ObeyLetter
  <2>2. l \in Letters /\ Tail(letters) \in Seq(Letters)
    BY <1>1, <2>1, HeadAndTail
  <2> HIDE DEF l
  <2>3. IsLetter(l) /\ IsParams(params)
    BY <1>1, <2>2, OptionsAssumption DEF ParamsOK
  <2>4. params' = Changed(params, l)
    BY <2>1, <2>3, EffectIs
  <2>5. params' = Meaning(said')
    BY <1>1, <2>1, <2>2, <2>4, MeaningNext
  <2>6. ParamsOK(params')
    BY <1>1, <2>2, <2>4, ChangedOK
  <2>7. said' \in Seq(Letters)
    BY <1>1, <2>1, <2>2
  <2> QED
    BY <1>1, <2>1, <2>2, <2>5, <2>6, <2>7 DEF OptionsInv, LastWordWins
<1>4. CASE EndOfArgument
  BY <1>1, <1>4 DEF EndOfArgument, OptionsInv, LastWordWins
<1>5. CASE AskUsage
  BY <1>1, <1>5 DEF AskUsage, OptionsInv, LastWordWins
<1>6. CASE ListCodecs
  BY <1>1, <1>6 DEF ListCodecs, OptionsInv, LastWordWins
<1>7. CASE UnknownOption
  BY <1>1, <1>7 DEF UnknownOption, OptionsInv, LastWordWins
<1>8. CASE TakeName
  <2>1. argv # <<>> /\ argv' = Tail(argv) /\ opc' = "names"
        /\ letters' = letters /\ params' = params /\ said' = said
    BY <1>8 DEF TakeName
  <2>2. argv' \in Seq(Arguments)
    BY <1>1, <2>1, HeadAndTail
  <2> QED
    BY <1>1, <2>1, <2>2 DEF OptionsInv, LastWordWins
<1>9. CASE EndOfLine
  <2>1. opc' \in {"clean", "go"}
    BY <1>9 DEF EndOfLine
  <2> QED
    BY <1>1, <1>9, <2>1 DEF EndOfLine, OptionsInv, LastWordWins
<1> QED
  BY <1>2, <1>3, <1>4, <1>5, <1>6, <1>7, <1>8, <1>9 DEF OptionsNext

LEMMA OptionsInvAlways ==
  OptionsSpec => []OptionsInv
<1>1. OptionsInv /\ [OptionsNext]_optionVars => OptionsInv'
  <2>1. ASSUME OptionsInv, UNCHANGED optionVars PROVE OptionsInv'
    BY <2>1, OptionsInvKept DEF optionVars
  <2> QED
    BY <2>1, OptionsInvStep
<1> QED
  BY <1>1, OptionsInvInit, PTL DEF OptionsSpec

(* Every parameter is the word of C that the code keeps it in, however many  *)
(* letters are packed into however many arguments (main's switch).           *)
THEOREM OptionsTypes ==
  OptionsSpec => []OptionsTypeOK
<1>1. OptionsInv => OptionsTypeOK
  BY DEF OptionsInv, ParamsOK, OptionsTypeOK
<1> QED
  BY <1>1, OptionsInvAlways, PTL

(* Of every setting the last letter that speaks of it decides, though the    *)
(* cases of the switch set and read one another's settings.                  *)
THEOREM LastWordDecides ==
  OptionsSpec => []LastWordWins
<1>1. OptionsInv => LastWordWins
  BY DEF OptionsInv
<1> QED
  BY <1>1, OptionsInvAlways, PTL

-------------------------------------------------------------------------------
(* The list of names. *)
Frame == [left : SUBSET Path, before : Nat]
NameAt == [path : Path, at : Nat]

(* A call found at most what its callees found, and those at most what is   *)
(* counted now: whichever call fails puts back a smaller count.             *)
Nested(calls, n) ==
  \A i, j \in 1 .. Len(calls) :
    i <= j => calls[i].before <= calls[j].before /\ calls[j].before <= n

(* The names lie one after the other, up to pos.                            *)
Adjacent ==
  /\ pos = IF found = <<>> THEN 0 ELSE EndOf(Len(found))
  /\ \A k \in 1 .. Len(found) :
       /\ found[k].at = IF k = 1 THEN 0 ELSE EndOf(k - 1)
       /\ EndOf(k) <= pos

ListInv ==
  /\ ListTypeOK
  /\ Nested(stack, nbFiles)
  /\ nbFiles <= Len(found)
  /\ Adjacent
  /\ lpc \in {"walk", "built"} => pos <= cap
  /\ lpc = "idle" => pos = 0

-------------------------------------------------------------------------------
LEMMA AppendFacts ==
  ASSUME NEW S, NEW s \in Seq(S), NEW e \in S
  PROVE  /\ Append(s, e) \in Seq(S)
         /\ Len(s) \in Nat
         /\ Len(Append(s, e)) = Len(s) + 1
         /\ Append(s, e)[Len(s) + 1] = e
         /\ \A k \in 1 .. Len(s) : Append(s, e)[k] = s[k] /\ s[k] \in S
  OBVIOUS

(* The call on top of the stack and the calls under it.                     *)
LEMMA StackFacts ==
  ASSUME ListTypeOK, stack # <<>>
  PROVE  /\ Len(stack) \in Nat /\ Len(stack) >= 1
         /\ Top \in Frame
         /\ Callers \in Seq(Frame) /\ Len(Callers) = Len(stack) - 1
         /\ \A i \in 1 .. Len(Callers) : Callers[i] = stack[i]
<1>1. stack \in Seq(Frame)
  BY DEF ListTypeOK, Frame
<1>2. Len(stack) \in Nat /\ Len(stack) >= 1
  BY <1>1
<1>3. Top \in Frame
  BY <1>1, <1>2 DEF Top
<1>4. /\ Callers \in Seq(Frame) /\ Len(Callers) = Len(stack) - 1
      /\ \A i \in 1 .. Len(stack) - 1 : Callers[i] = stack[i]
  <2> DEFINE m == Len(stack) - 1
  <2>1. m \in 0 .. Len(stack)
    BY <1>2
  <2>2. \A i \in 1 .. m : i \in 1 .. Len(stack)
    BY <1>2
  <2> HIDE DEF m
  <2>3. Callers = SubSeq(stack, 1, m)
    BY DEF Callers, m
  <2>4. Callers = [i \in 1 .. m |-> stack[i]]
    BY <1>1, <2>1, <2>3
  <2>5. m \in Nat /\ \A i \in 1 .. m : stack[i] \in Frame
    BY <1>1, <1>2, <2>1, <2>2
  <2> QED
    BY <2>4, <2>5 DEF m
<1> QED
  BY <1>2, <1>3, <1>4

LEMMA LengthNat ==
  ASSUME NEW p \in Path
  PROVE  Length[p] \in Nat
  BY FileListAssumption DEF Path

(* When the path in hand is stepped over the calls keep their counts.       *)
LEMMA AdvancedFacts ==
  ASSUME ListTypeOK, Nested(stack, nbFiles), NEW p \in Path
  PROVE  Advanced(p) \in Seq(Frame) /\ Nested(Advanced(p), nbFiles)
<1>1. CASE stack = <<>>
  BY <1>1 DEF Advanced, ListTypeOK, Frame
<1>2. CASE stack # <<>>
  <2> DEFINE m == Len(stack)
             t == [Top EXCEPT !.left = @ \ {p}]
  <2>1. /\ m \in Nat /\ m >= 1 /\ Top \in Frame
        /\ Callers \in Seq(Frame) /\ Len(Callers) = m - 1
        /\ \A i \in 1 .. m - 1 : Callers[i] = stack[i]
    BY <1>2, StackFacts
  <2>2. t \in Frame /\ t.before = stack[m].before
    BY <2>1 DEF Frame, Top
  <2>3. Advanced(p) = Append(Callers, t)
    BY <1>2 DEF Advanced
  <2> HIDE DEF t
  <2>4. /\ Advanced(p) \in Seq(Frame) /\ Len(Advanced(p)) = m
        /\ Advanced(p)[m] = t
        /\ \A k \in 1 .. m - 1 : Advanced(p)[k] = stack[k]
    BY <2>1, <2>2, <2>3, AppendFacts
  <2> HIDE DEF m
  <2>5. \A k \in 1 .. m : Advanced(p)[k].before = stack[k].before
    <3> SUFFICES ASSUME NEW k \in 1 .. m
                 PROVE  Advanced(p)[k].before = stack[k].before
      OBVIOUS
    <3>1. CASE k = m
      BY <2>2, <2>4, <3>1
    <3>2. CASE k \in 1 .. m - 1
      BY <2>4, <3>2
    <3> QED
      BY <2>1, <3>1, <3>2
  <2> QED
    BY <2>4, <2>5 DEF Nested, m
<1> QED
  BY <1>1, <1>2

(* A name that was in hand is a path, and the arguments left are, too.      *)
LEMMA AdvanceTypes ==
  ASSUME ListTypeOK, NEW p \in Path, InHand(p)
  PROVE  (IF stack = <<>> THEN Tail(inputs) ELSE inputs) \in Seq(Path)
<1>1. CASE stack = <<>>
  BY <1>1 DEF InHand, ListTypeOK
<1>2. CASE stack # <<>>
  BY <1>2 DEF ListTypeOK
<1> QED
  BY <1>1, <1>2

-------------------------------------------------------------------------------
(* A name is put into a buffer of c bytes, at least those it had.           *)
LEMMA PutKeeps ==
  ASSUME ListInv, NEW p \in Path, NEW c \in Nat, cap <= c, lpc = "walk", Put(p, c)
  PROVE  /\ found' \in Seq(NameAt) /\ pos' \in Nat /\ cap' \in Nat /\ nbFiles' \in Nat
         /\ nbFiles <= nbFiles' /\ nbFiles' <= Len(found')
         /\ Adjacent'
         /\ pos' <= cap'
<1>1. /\ found \in Seq(NameAt) /\ pos \in Nat /\ cap \in Nat /\ nbFiles \in Nat
      /\ pos <= cap /\ nbFiles <= Len(found) /\ Length[p] \in Nat
  BY LengthNat DEF ListInv, ListTypeOK, NameAt
<1>2. CASE ~(pos + Length[p] < c)
  <2>1. cap' = c /\ found' = found /\ pos' = pos /\ nbFiles' = nbFiles
    BY <1>2 DEF Put
  <2>2. Adjacent'
    BY <2>1 DEF ListInv, Adjacent, EndOf
  <2> QED
    BY <1>1, <2>1, <2>2
<1>3. CASE pos + Length[p] < c
  <2> DEFINE e == [path |-> p, at |-> pos]
             m == Len(found)
  <2>1. /\ cap' = c /\ found' = Append(found, e) /\ pos' = pos + Length[p] + 1
        /\ nbFiles' = nbFiles + 1
    BY <1>3 DEF Put
  <2>2. e \in NameAt /\ e.path = p /\ e.at = pos
    BY <1>1 DEF NameAt
  <2> HIDE DEF e
  <2>3. /\ found' \in Seq(NameAt) /\ m \in Nat /\ Len(found') = m + 1
        /\ found'[m + 1] = e
        /\ \A k \in 1 .. m : found'[k] = found[k] /\ found[k] \in NameAt
    BY <1>1, <2>1, <2>2, AppendFacts
  <2>4. m = 0 <=> found = <<>>
    BY <1>1
  <2>5. /\ pos = IF found = <<>> THEN 0 ELSE EndOf(m)
        /\ \A k \in 1 .. m : /\ found[k].at = IF k = 1 THEN 0 ELSE EndOf(k - 1)
                             /\ EndOf(k) <= pos
    BY DEF ListInv, Adjacent
  <2> DEFINE After(k) == found'[k].at + Length[found'[k].path] + 1
  <2> HIDE DEF m
  <2>6. After(m + 1) = pos'
    BY <2>1, <2>2, <2>3
  <2>a. \A k : EndOf(k)' = After(k)
    BY DEF EndOf
  <2>7. \A k \in 1 .. m : After(k) = EndOf(k) /\ EndOf(k) \in Nat
    <3> SUFFICES ASSUME NEW k \in 1 .. m
                 PROVE  After(k) = EndOf(k) /\ EndOf(k) \in Nat
      OBVIOUS
    <3>1. found[k].at \in Nat /\ found[k].path \in Path /\ found'[k] = found[k]
      BY <2>3 DEF NameAt
    <3>2. Length[found[k].path] \in Nat
      BY <3>1, LengthNat
    <3> QED
      BY <3>1, <3>2 DEF EndOf
  <2>8. pos <= pos' /\ pos' <= cap' /\ pos' \in Nat
    BY <1>1, <1>3, <2>1
  <2>9. \A k \in 1 .. m + 1 : /\ found'[k].at = IF k = 1 THEN 0 ELSE After(k - 1)
                              /\ After(k) <= pos'
    <3> SUFFICES ASSUME NEW k \in 1 .. m + 1
                 PROVE  /\ found'[k].at = IF k = 1 THEN 0 ELSE After(k - 1)
                        /\ After(k) <= pos'
      OBVIOUS
    <3>1. CASE k = m + 1
      <4>1. found'[k].at = pos /\ After(k) = pos'
        BY <2>2, <2>3, <2>6, <3>1
      <4>2. CASE m = 0
        BY <2>4, <2>5, <2>8, <3>1, <4>1, <4>2
      <4>3. CASE m # 0
        <5>1. k # 1 /\ k - 1 = m /\ m \in 1 .. m /\ found # <<>>
          BY <2>3, <2>4, <3>1, <4>3
        <5> QED
          BY <2>5, <2>7, <2>8, <4>1, <5>1
      <4> QED
        BY <4>2, <4>3
    <3>2. CASE k \in 1 .. m
      <4>1. found'[k].at = IF k = 1 THEN 0 ELSE EndOf(k - 1)
        BY <2>3, <2>5, <3>2
      <4>2. k = 1 \/ k - 1 \in 1 .. m
        BY <2>3, <3>2
      <4>3. After(k) <= pos'
        BY <1>1, <2>5, <2>7, <2>8, <3>2
      <4> QED
        BY <2>7, <4>1, <4>2, <4>3
    <3> QED
      BY <2>3, <3>1, <3>2
  <2>10. Adjacent'
    <3>1. found' # <<>> /\ Len(found') = m + 1
      BY <2>3
    <3> HIDE DEF After
    <3> QED
      BY <2>a, <2>6, <2>9, <3>1 DEF Adjacent
  <2>11. nbFiles <= nbFiles' /\ nbFiles' <= Len(found') /\ nbFiles' \in Nat
    BY <1>1, <2>1, <2>3 DEF m
  <2> QED
    BY <2>1, <2>3, <2>8, <2>10, <2>11
<1> QED
  BY <1>2, <1>3
(* A larger count keeps calls nested. *)
LEMMA NestedUp ==
  ASSUME NEW calls \in Seq(Frame), NEW n \in Nat, NEW m \in Nat, n <= m, Nested(calls, n)
  PROVE  Nested(calls, m)
<1> SUFFICES ASSUME NEW i \in 1 .. Len(calls), NEW j \in 1 .. Len(calls), i <= j
             PROVE  calls[i].before <= calls[j].before /\ calls[j].before <= m
  BY DEF Nested
<1>1. calls[i].before <= calls[j].before /\ calls[j].before <= n
  BY DEF Nested
<1>2. calls[j].before \in Nat
  <2>1. calls[j] \in Frame
    OBVIOUS
  <2> QED
    BY <2>1 DEF Frame
<1> QED
  BY <1>1, <1>2

(* A call that opens a directory has counted nothing yet.                   *)
LEMMA NestedPush ==
  ASSUME NEW calls \in Seq(Frame), NEW n \in Nat, Nested(calls, n),
         NEW S \in SUBSET Path
  PROVE  /\ Append(calls, [left |-> S, before |-> n]) \in Seq(Frame)
         /\ Nested(Append(calls, [left |-> S, before |-> n]), n)
<1> DEFINE e == [left |-> S, before |-> n]
           c == Append(calls, e)
           m == Len(calls)
<1>1. e \in Frame /\ e.before = n
  BY DEF Frame
<1> HIDE DEF e
<1>2. /\ c \in Seq(Frame) /\ m \in Nat /\ Len(c) = m + 1 /\ c[m + 1] = e
      /\ \A k \in 1 .. m : c[k] = calls[k] /\ calls[k] \in Frame
  BY <1>1, AppendFacts
<1>3. \A i, j \in 1 .. m :
        i <= j => calls[i].before <= calls[j].before /\ calls[j].before <= n
  BY DEF Nested
<1> HIDE DEF c, m
<1>4. ASSUME NEW i \in 1 .. m + 1, NEW j \in 1 .. m + 1, i <= j
      PROVE  c[i].before <= c[j].before /\ c[j].before <= n
  <2>1. CASE j \in 1 .. m
    <3>1. i \in 1 .. m
      BY <1>2, <1>4, <2>1
    <3> QED
      BY <1>2, <1>3, <1>4, <2>1, <3>1
  <2>2. CASE j = m + 1
    <3>1. c[j].before = n
      BY <1>1, <1>2, <2>2
    <3>2. CASE i = m + 1
      BY <1>1, <1>2, <3>1, <3>2
    <3>3. CASE i \in 1 .. m
      BY <1>2, <1>3, <3>1, <3>3
    <3> QED
      BY <1>2, <3>1, <3>2, <3>3
  <2> QED
    BY <1>2, <2>1, <2>2
<1> QED
  BY <1>2, <1>4 DEF Nested, c, e

(* The calls under the one on top are nested within what was counted when   *)
(* it began.                                                                *)
LEMMA NestedPop ==
  ASSUME ListTypeOK, stack # <<>>, Nested(stack, nbFiles)
  PROVE  /\ Top.before \in Nat /\ Top.before <= nbFiles
         /\ Nested(Callers, Top.before)
<1>1. /\ Len(stack) \in Nat /\ Len(stack) >= 1 /\ Top \in Frame
      /\ Len(Callers) = Len(stack) - 1
      /\ \A i \in 1 .. Len(Callers) : Callers[i] = stack[i]
  BY StackFacts
<1>2. Top.before \in Nat /\ Top = stack[Len(stack)] /\ Len(stack) \in 1 .. Len(stack)
  BY <1>1 DEF Frame, Top
<1>3. \A i, j \in 1 .. Len(stack) :
        i <= j => stack[i].before <= stack[j].before /\ stack[j].before <= nbFiles
  BY DEF Nested
<1>4. Top.before <= nbFiles
  BY <1>2, <1>3
<1>5. ASSUME NEW i \in 1 .. Len(Callers), NEW j \in 1 .. Len(Callers), i <= j
      PROVE  Callers[i].before <= Callers[j].before /\ Callers[j].before <= Top.before
  <2>1. i \in 1 .. Len(stack) /\ j \in 1 .. Len(stack) /\ j <= Len(stack)
    BY <1>1
  <2>2. Callers[i] = stack[i] /\ Callers[j] = stack[j]
    BY <1>1
  <2> QED
    BY <1>2, <1>3, <1>5, <2>1, <2>2
<1> QED
  BY <1>2, <1>4, <1>5 DEF Nested

LEMMA ListInvInit ==
  ListInit => ListInv
<1> SUFFICES ASSUME ListInit PROVE ListInv
  OBVIOUS
<1> USE DEF ListInit
<1>1. ListTypeOK
  BY FileListAssumption DEF ListTypeOK
<1>2. Nested(stack, nbFiles) /\ nbFiles <= Len(found)
  BY DEF Nested
<1>3. Adjacent
  BY DEF Adjacent
<1> QED
  BY <1>1, <1>2, <1>3 DEF ListInv

(* The buffer, the names in it and the count are left alone, and the calls  *)
(* stay nested.                                                             *)
LEMMA ListInvKept ==
  ASSUME ListInv, ListTypeOK', Nested(stack', nbFiles'),
         UNCHANGED <<pos, found>>, nbFiles' <= nbFiles,
         lpc' \in {"walk", "built"} => cap' = cap /\ lpc \in {"walk", "built"},
         lpc' # "idle"
  PROVE  ListInv'
<1>1. nbFiles' <= Len(found')
  BY DEF ListInv, ListTypeOK
<1>2. Adjacent'
  BY DEF ListInv, Adjacent, EndOf
<1>3. (lpc \in {"walk", "built"} => pos <= cap)'
  BY DEF ListInv
<1> QED
  BY <1>1, <1>2, <1>3 DEF ListInv

(* A name is put into the buffer, which has grown for it or not.            *)
LEMMA ListInvPut ==
  ASSUME ListInv, NEW p \in Path, InHand(p), Put(p, Grown(p)), Advance(p),
         UNCHANGED <<table, lpc>>, faults' \in 0 .. MaxFaults
  PROVE  ListInv'
<1>1. Grown(p) \in Nat /\ cap <= Grown(p)
  BY FileListAssumption DEF ListInv, ListTypeOK, Grown
<1>2. lpc = "walk" /\ lpc' = "walk" /\ table' = table
  BY DEF InHand
<1>3. /\ found' \in Seq(NameAt) /\ pos' \in Nat /\ cap' \in Nat /\ nbFiles' \in Nat
      /\ nbFiles <= nbFiles' /\ nbFiles' <= Len(found')
      /\ Adjacent' /\ pos' <= cap'
  BY <1>1, <1>2, PutKeeps
<1>4. inputs' \in Seq(Path)
  BY AdvanceTypes DEF ListInv, Advance
<1>5. stack' \in Seq(Frame) /\ Nested(stack', nbFiles)
  BY AdvancedFacts DEF ListInv, Advance
<1>6. nbFiles \in Nat /\ table \in Seq(Path)
  BY DEF ListInv, ListTypeOK
<1>7. Nested(stack', nbFiles')
  BY <1>3, <1>5, <1>6, NestedUp
<1>8. ListTypeOK'
  BY <1>2, <1>3, <1>4, <1>5, <1>6 DEF ListTypeOK, NameAt, Frame
<1> QED
  BY <1>2, <1>3, <1>7, <1>8 DEF ListInv

LEMMA ListInvStep ==
  ListInv /\ [ListNext]_listVars => ListInv'
<1> SUFFICES ASSUME ListInv, [ListNext]_listVars PROVE ListInv'
  OBVIOUS
<1>0. /\ ListTypeOK /\ stack \in Seq(Frame) /\ Nested(stack, nbFiles)
      /\ nbFiles \in Nat /\ pos \in Nat /\ cap \in Nat /\ faults \in 0 .. MaxFaults
      /\ inputs \in Seq(Path) /\ found \in Seq(NameAt) /\ table \in Seq(Path)
      /\ Dir \subseteq Path
  BY FileListAssumption DEF ListInv, ListTypeOK, Frame, NameAt
<1>a. ASSUME Fault PROVE faults' \in 0 .. MaxFaults
  BY <1>0, <1>a, FileListAssumption DEF Fault
<1>b. Nested(<<>>, nbFiles) /\ <<>> \in Seq(Frame)
  BY DEF Nested
<1>1. ASSUME NEW args \in Seq(Path), CreateList(args) PROVE ListInv'
  <2>1. ListTypeOK' /\ UNCHANGED <<stack, pos, found, nbFiles>>
    BY <1>1, FileListAssumption DEF CreateList, ListInv, ListTypeOK
  <2>2. Adjacent'
    BY <2>1 DEF ListInv, Adjacent, EndOf
  <2>3. pos' = 0 /\ cap' = ListStep /\ lpc' = "walk"
    BY <1>1 DEF CreateList, ListInv
  <2>4. Nested(stack', nbFiles') /\ nbFiles' <= Len(found')
    BY <2>1 DEF ListInv, Nested
  <2> QED
    BY <2>1, <2>2, <2>3, <2>4, FileListAssumption DEF ListInv
<1>2. CASE CreateFails
  <2>1. ListTypeOK'
    BY <1>0, <1>2, <1>a DEF CreateFails, ListTypeOK
  <2> QED
    BY <1>0, <1>2, <2>1, ListInvKept DEF CreateFails
<1>3. CASE AddFile
  BY <1>0, <1>3, ListInvPut DEF AddFile
<1>4. CASE AddVanished
  <2>1. PICK p \in Dir : /\ InHand(p) /\ Fault /\ Put(p, Grown(p)) /\ Advance(p)
                         /\ UNCHANGED <<table, lpc>>
    BY <1>4 DEF AddVanished
  <2>2. p \in Path /\ faults' \in 0 .. MaxFaults
    BY <1>0, <1>a, <2>1
  <2>3. table' = table /\ lpc' = lpc
    BY <2>1
  <2> QED
    BY <2>1, <2>2, <2>3, ListInvPut
<1>5. CASE GrowFails
  <2>1. ListTypeOK' /\ Nested(stack', nbFiles')
    BY <1>0, <1>5, <1>a, <1>b DEF GrowFails, ListTypeOK, Frame
  <2> QED
    BY <1>0, <1>5, <2>1, ListInvKept DEF GrowFails
<1>6. CASE OpenDirectory
  <2>1. PICK d \in Dir :
          /\ InHand(d)
          /\ inputs' = IF stack = <<>> THEN Tail(inputs) ELSE inputs
          /\ stack' = Append(Advanced(d), [left |-> Entries[d], before |-> nbFiles])
          /\ UNCHANGED <<pos, cap, found, nbFiles, table, lpc, faults>>
    BY <1>6 DEF OpenDirectory
  <2>2. Advanced(d) \in Seq(Frame) /\ Nested(Advanced(d), nbFiles)
    BY <1>0, <2>1, AdvancedFacts
  <2>3. Entries[d] \in SUBSET Path
    BY FileListAssumption DEF Dir
  <2>4. stack' \in Seq(Frame) /\ Nested(stack', nbFiles)
    BY <1>0, <2>1, <2>2, <2>3, NestedPush
  <2>5. inputs' \in Seq(Path)
    BY <1>0, <2>1, AdvanceTypes
  <2>6. ListTypeOK'
    BY <1>0, <2>1, <2>4, <2>5 DEF ListTypeOK, Frame
  <2> QED
    BY <1>0, <2>1, <2>4, <2>6, ListInvKept DEF InHand
<1>7. CASE OpenFails
  <2>1. PICK d \in Dir : InHand(d) /\ Fault /\ Advance(d)
    BY <1>7 DEF OpenFails
  <2>2. UNCHANGED <<pos, cap, found, nbFiles, table, lpc>>
    BY <1>7 DEF OpenFails
  <2>3. stack' \in Seq(Frame) /\ Nested(stack', nbFiles)
    BY <1>0, <2>1, AdvancedFacts DEF Advance
  <2>4. inputs' \in Seq(Path)
    BY <1>0, <2>1, AdvanceTypes DEF Advance
  <2>5. ListTypeOK'
    BY <1>0, <1>a, <2>1, <2>2, <2>3, <2>4 DEF ListTypeOK, Frame
  <2> QED
    BY <1>0, <2>1, <2>2, <2>3, <2>5, ListInvKept DEF InHand
<1>8. CASE PathFails
  <2>1. Top.before \in Nat /\ Top.before <= nbFiles /\ Nested(Callers, Top.before)
    BY <1>0, <1>8, NestedPop DEF PathFails
  <2>2. Callers \in Seq(Frame)
    BY <1>0, <1>8, StackFacts DEF PathFails
  <2>3. ListTypeOK'
    BY <1>0, <1>8, <1>a, <2>1, <2>2 DEF PathFails, ListTypeOK, Frame
  <2> QED
    BY <1>0, <1>8, <2>1, <2>3, ListInvKept DEF PathFails
<1>9. CASE ReadFails
  <2>1. ListTypeOK' /\ Nested(stack', nbFiles')
    BY <1>0, <1>9, <1>a, <1>b DEF ReadFails, ListTypeOK, Frame
  <2> QED
    BY <1>0, <1>9, <2>1, ListInvKept DEF ReadFails
<1>10. CASE CloseDirectory
  <2>1. Top.before \in Nat /\ Top.before <= nbFiles /\ Nested(Callers, Top.before)
    BY <1>0, <1>10, NestedPop DEF CloseDirectory
  <2>2. Callers \in Seq(Frame)
    BY <1>0, <1>10, StackFacts DEF CloseDirectory
  <2>3. Nested(Callers, nbFiles)
    BY <1>0, <2>1, <2>2, NestedUp
  <2>4. ListTypeOK'
    BY <1>0, <1>10, <2>2 DEF CloseDirectory, ListTypeOK, Frame
  <2> QED
    BY <1>0, <1>10, <2>3, <2>4, ListInvKept DEF CloseDirectory
<1>11. CASE NothingFound
  <2>1. ListTypeOK'
    BY <1>0, <1>11 DEF NothingFound, ListTypeOK
  <2> QED
    BY <1>0, <1>11, <2>1, ListInvKept DEF NothingFound
<1>12. CASE BuildTable
  <2>1. [k \in 1 .. nbFiles |-> found[k].path] \in Seq(Path)
    <3>1. \A k \in 1 .. nbFiles : found[k].path \in Path
      <4> SUFFICES ASSUME NEW k \in 1 .. nbFiles PROVE found[k].path \in Path
        OBVIOUS
      <4>1. k \in 1 .. Len(found)
        BY <1>0 DEF ListInv
      <4>2. found[k] \in NameAt
        BY <1>0, <4>1
      <4> QED
        BY <4>2 DEF NameAt
    <3> QED
      BY <1>0, <3>1
  <2>2. ListTypeOK'
    BY <1>0, <1>12, <2>1 DEF BuildTable, Walked, ListTypeOK
  <2> QED
    BY <1>0, <1>12, <2>2, ListInvKept DEF BuildTable, Walked
<1>13. CASE TableFails
  <2>1. ListTypeOK'
    BY <1>0, <1>13, <1>a DEF TableFails, ListTypeOK
  <2> QED
    BY <1>0, <1>13, <2>1, ListInvKept DEF TableFails
<1>14. CASE UNCHANGED listVars
  BY <1>14 DEF listVars, ListInv, ListTypeOK, Nested, Adjacent, EndOf
<1> QED
  BY <1>1, <1>2, <1>3, <1>4, <1>5, <1>6, <1>7, <1>8, <1>9, <1>10, <1>11, <1>12,
     <1>13, <1>14 DEF ListNext, WalkNext

LEMMA ListInvAlways ==
  ListSpec => []ListInv
<1> QED
  BY ListInvInit, ListInvStep, PTL DEF ListSpec

-------------------------------------------------------------------------------
(* Every variable of the walk keeps its type, whatever calls fail.          *)
THEOREM ListTypes ==
  ListSpec => []ListTypeOK
<1>1. ListInv => ListTypeOK
  BY DEF ListInv
<1> QED
  BY <1>1, ListInvAlways, PTL

(* Names never leave the buffer and the count never exceeds the names, for  *)
(* every tree, every length of names and any number of failing calls.       *)
THEOREM ListInBuffer ==
  ListSpec => []NamesInBuffer
<1>1. ListInv => NamesInBuffer
  BY DEF ListInv, Adjacent, NamesInBuffer
<1> QED
  BY <1>1, ListInvAlways, PTL

LEMMA TableEndFits ==
  ASSUME ListInv, lpc = "walk", nbFiles > 0
  PROVE  TableEnd <= cap
<1>1. /\ nbFiles \in 1 .. Len(found) /\ found \in Seq(NameAt)
      /\ pos \in Nat /\ cap \in Nat /\ pos <= cap
  BY DEF ListInv, ListTypeOK, NameAt
<1>2. EndOf(nbFiles) <= pos
  BY <1>1 DEF ListInv, Adjacent
<1>3. found[nbFiles].at \in Nat /\ Length[found[nbFiles].path] \in Nat
  <2>1. found[nbFiles] \in NameAt
    BY <1>1
  <2> QED
    BY <2>1, LengthNat DEF NameAt
<1> QED
  BY <1>1, <1>2, <1>3 DEF EndOf, TableEnd

(* The check at the end of UTIL_createFileList, that the table stays within *)
(* the buffer, never fails.                                                 *)
THEOREM TableFits ==
  ListSpec => [](lpc = "walk" /\ nbFiles > 0 => TableEnd <= cap)
<1>1. ListInv => (lpc = "walk" /\ nbFiles > 0 => TableEnd <= cap)
  BY TableEndFits
<1> QED
  BY <1>1, ListInvAlways, PTL

-------------------------------------------------------------------------------
(* What lies under a set of paths: the least set that holds them and, with a *)
(* directory, its entries.                                                   *)
Closed(T) == \A d \in T \cap Dir : Entries[d] \subseteq T

LEMMA TreeFacts ==
  /\ Dir \subseteq Path
  /\ \A d \in Dir : Entries[d] \subseteq Path
  /\ \A p \in Path : Length[p] \in Nat
  /\ \A d \in Dir : \A p \in Entries[d] : Length[p] > Length[d]
  /\ \A c, d \in Dir : c # d => Entries[c] \cap Entries[d] = {}
  BY FileListAssumption DEF Path, Dir

LEMMA UnderFacts ==
  ASSUME NEW S \in SUBSET Path
  PROVE  /\ S \subseteq Under(S) /\ Under(S) \subseteq Path
         /\ Closed(Under(S))
         /\ \A T \in SUBSET Path : S \subseteq T /\ Closed(T) => Under(S) \subseteq T
<1>1. S \subseteq Under(S) /\ Under(S) \subseteq Path
  BY DEF Under
<1>2. \A T \in SUBSET Path : S \subseteq T /\ Closed(T) => Under(S) \subseteq T
  BY DEF Under, Closed
<1>3. Closed(Under(S))
  <2> SUFFICES ASSUME NEW d \in Under(S), d \in Dir, NEW p \in Entries[d],
                      NEW T \in SUBSET Path, S \subseteq T, Closed(T)
               PROVE  p \in T
    BY TreeFacts DEF Closed, Under
  <2>1. d \in T
    BY <1>2
  <2> QED
    BY <2>1 DEF Closed
<1> QED
  BY <1>1, <1>2, <1>3

LEMMA UnderGrows ==
  ASSUME NEW S \in SUBSET Path, NEW T \in SUBSET Path, S \subseteq Under(T)
  PROVE  Under(S) \subseteq Under(T)
<1>1. Under(T) \in SUBSET Path /\ Closed(Under(T))
  BY UnderFacts
<1> QED
  BY <1>1, UnderFacts

LEMMA UnderMember ==
  ASSUME NEW S \in SUBSET Path, NEW x \in Under(S)
  PROVE  Under({x}) \subseteq Under(S) /\ x \in Path
<1>1. x \in Path
  BY UnderFacts
<1>2. {x} \in SUBSET Path /\ {x} \subseteq Under(S)
  BY <1>1
<1> QED
  BY <1>1, <1>2, UnderGrows

LEMMA UnderSome ==
  ASSUME NEW S \in SUBSET Path, NEW x \in Under(S)
  PROVE  \E s \in S : x \in Under({s})
<1> DEFINE T == {y \in Path : \E s \in S : y \in Under({s})}
<1>1. \A s \in S : {s} \in SUBSET Path
  OBVIOUS
<1>2. S \subseteq T
  BY <1>1, UnderFacts
<1>3. Closed(T)
  <2> SUFFICES ASSUME NEW d \in T, d \in Dir, NEW p \in Entries[d] PROVE p \in T
    BY DEF Closed
  <2>1. PICK s \in S : d \in Under({s})
    OBVIOUS
  <2>2. p \in Under({s})
    BY <1>1, <2>1, UnderFacts DEF Closed
  <2>3. p \in Path
    BY TreeFacts
  <2> QED
    BY <2>2, <2>3
<1>4. Under(S) \subseteq T
  <2>1. T \in SUBSET Path
    OBVIOUS
  <2> HIDE DEF T
  <2> QED
    BY <1>2, <1>3, <2>1, UnderFacts
<1> QED
  BY <1>4

LEMMA UnderUnion ==
  ASSUME NEW S \in SUBSET Path, NEW T \in SUBSET Path
  PROVE  Under(S \cup T) = Under(S) \cup Under(T)
<1>1. S \cup T \in SUBSET Path
  OBVIOUS
<1>2. S \subseteq Under(S \cup T) /\ T \subseteq Under(S \cup T)
  BY <1>1, UnderFacts
<1>3. Under(S) \cup Under(T) \subseteq Under(S \cup T)
  BY <1>1, <1>2, UnderGrows
<1>4. S \cup T \subseteq Under(S) \cup Under(T) /\ Under(S) \cup Under(T) \in SUBSET Path
  BY UnderFacts
<1>5. Closed(Under(S) \cup Under(T))
  BY UnderFacts DEF Closed
<1>6. Under(S \cup T) \subseteq Under(S) \cup Under(T)
  <2> DEFINE R == Under(S) \cup Under(T)
             Q == S \cup T
  <2>1. R \in SUBSET Path /\ Q \in SUBSET Path /\ Q \subseteq R /\ Closed(R)
    BY <1>4, <1>5
  <2> HIDE DEF R, Q
  <2>2. Under(Q) \subseteq R
    BY <2>1, UnderFacts
  <2> QED
    BY <2>2 DEF R, Q
<1> QED
  BY <1>3, <1>6

LEMMA UnderNothing ==
  Under({}) = {}
<1>1. {} \in SUBSET Path /\ Closed({})
  BY DEF Closed
<1> QED
  BY <1>1, UnderFacts

LEMMA UnderFile ==
  ASSUME NEW p \in Path, p \notin Dir
  PROVE  Under({p}) = {p}
<1>1. {p} \in SUBSET Path /\ Closed({p})
  BY DEF Closed
<1> QED
  BY <1>1, UnderFacts

LEMMA UnderDirectory ==
  ASSUME NEW d \in Dir
  PROVE  Under({d}) = {d} \cup Under(Entries[d])
<1>1. d \in Path /\ Entries[d] \in SUBSET Path /\ {d} \in SUBSET Path
  BY TreeFacts
<1> DEFINE T == {d} \cup Under(Entries[d])
<1>2. T \in SUBSET Path /\ {d} \subseteq T
  BY <1>1, UnderFacts
<1>3. Closed(T)
  BY <1>1, UnderFacts DEF Closed
<1> HIDE DEF T
<1>4. Under({d}) \subseteq T
  BY <1>1, <1>2, <1>3, UnderFacts
<1>5. d \in Under({d}) /\ Entries[d] \subseteq Under({d})
  BY <1>1, UnderFacts DEF Closed
<1>6. Under(Entries[d]) \subseteq Under({d})
  BY <1>1, <1>5, UnderGrows
<1> QED
  BY <1>4, <1>5, <1>6 DEF T

LEMMA UnderIsLonger ==
  ASSUME NEW x \in Path, NEW z \in Under({x})
  PROVE  Length[z] >= Length[x]
<1> DEFINE T == {y \in Path : Length[y] >= Length[x]}
<1>1. {x} \subseteq T
  BY TreeFacts
<1>2. Closed(T)
  <2> SUFFICES ASSUME NEW d \in T, d \in Dir, NEW p \in Entries[d] PROVE p \in T
    BY DEF Closed
  <2>1. p \in Path /\ Length[p] \in Nat /\ Length[d] \in Nat /\ Length[x] \in Nat
    BY TreeFacts
  <2>2. Length[p] > Length[d] /\ Length[d] >= Length[x]
    BY TreeFacts
  <2> QED
    BY <2>1, <2>2
<1>3. T \in SUBSET Path /\ {x} \in SUBSET Path
  OBVIOUS
<1> HIDE DEF T
<1>4. Under({x}) \subseteq T
  BY <1>1, <1>2, <1>3, UnderFacts
<1> QED
  BY <1>4 DEF T

(* What lies under x is x or an entry of a directory under x.                *)
LEMMA UnderParent ==
  ASSUME NEW x \in Path, NEW z \in Under({x}), z # x
  PROVE  \E c \in Under({x}) \cap Dir : z \in Entries[c]
<1> DEFINE U == Under({x})
           T == {y \in U : y = x \/ \E c \in U \cap Dir : y \in Entries[c]}
<1>1. {x} \in SUBSET Path
  OBVIOUS
<1>2. x \in U /\ U \in SUBSET Path /\ Closed(U)
  BY <1>1, UnderFacts
<1>3. T \in SUBSET Path /\ {x} \subseteq T
  BY <1>2
<1>4. Closed(T)
  <2> SUFFICES ASSUME NEW d \in T, d \in Dir, NEW p \in Entries[d] PROVE p \in T
    BY DEF Closed
  <2>1. d \in U /\ p \in U
    BY <1>2 DEF Closed
  <2> QED
    BY <2>1
<1> HIDE DEF T
<1>5. U \subseteq T
  BY <1>1, <1>3, <1>4, UnderFacts
<1> QED
  BY <1>5 DEF T

(* The entries of a directory are the roots of trees that have nothing in    *)
(* common.                                                                   *)
LEMMA TreesApart ==
  ASSUME NEW d \in Dir, NEW x \in Entries[d], NEW y \in Entries[d], x # y
  PROVE  Under({x}) \cap Under({y}) = {}
<1> SUFFICES ASSUME NEW w \in Under({x}) \cap Under({y}) PROVE FALSE
  OBVIOUS
<1>1. x \in Path /\ y \in Path /\ {x} \in SUBSET Path /\ {y} \in SUBSET Path
  BY TreeFacts
<1> DEFINE B == {n \in Nat : \E z \in Under({x}) \cap Under({y}) : Length[z] = n}
<1>2. Length[w] \in B
  <2>1. w \in Path
    BY <1>1, UnderFacts
  <2> QED
    BY <2>1, TreeFacts
<1>3. PICK n \in B : \A m \in B : n <= m
  <2>1. B \in SUBSET Nat /\ B # {}
    BY <1>2
  <2> HIDE DEF B
  <2> QED
    BY <2>1, LeastNat
<1>4. PICK z \in Under({x}) \cap Under({y}) : Length[z] = n
  OBVIOUS
<1>5. CASE z # x /\ z # y
  <2>1. PICK c \in Under({x}) \cap Dir : z \in Entries[c]
    BY <1>1, <1>4, <1>5, UnderParent
  <2>2. PICK e \in Under({y}) \cap Dir : z \in Entries[e]
    BY <1>1, <1>4, <1>5, UnderParent
  <2>3. c = e
    BY <2>1, <2>2, TreeFacts
  <2>4. Length[c] \in Nat /\ Length[c] < n
    BY <1>4, <2>1, TreeFacts
  <2>5. Length[c] \in B
    BY <2>1, <2>2, <2>3, <2>4
  <2>6. n <= Length[c]
    BY <1>3, <2>5
  <2> QED
    BY <2>4, <2>6
<1>6. ASSUME NEW u \in Entries[d], NEW v \in Entries[d], u # v, u \in Under({v}) PROVE FALSE
  <2>1. v \in Path
    BY TreeFacts
  <2>2. PICK c \in Under({v}) \cap Dir : u \in Entries[c]
    BY <1>6, <2>1, UnderParent
  <2>3. c = d
    BY <1>6, <2>2, TreeFacts
  <2>4. Length[d] >= Length[v]
    BY <2>1, <2>2, <2>3, UnderIsLonger
  <2>5. Length[v] > Length[d] /\ Length[v] \in Nat /\ Length[d] \in Nat
    BY <1>6, <2>1, TreeFacts
  <2> QED
    BY <2>4, <2>5
<1>7. CASE z = x
  BY <1>4, <1>6, <1>7
<1>8. CASE z = y
  BY <1>4, <1>6, <1>8
<1> QED
  BY <1>5, <1>7, <1>8

-------------------------------------------------------------------------------
(* What waits to be walked, and whether anything in it could be met twice.   *)
RestOf(args, calls) ==
  {x \in Path : \/ \E k \in 1 .. Len(args) : args[k] = x
                \/ \E k \in 1 .. Len(calls) : x \in calls[k].left}

OnceOf(args, calls) ==
  /\ \A j, k \in 1 .. Len(args) : j # k => args[j] # args[k]
  /\ \A j \in 1 .. Len(args), k \in 1 .. Len(calls) : args[j] \notin calls[k].left
  /\ \A j, k \in 1 .. Len(calls) : j # k => calls[j].left \cap calls[k].left = {}

Separate(S) == \A x, y \in S : x # y => Under({x}) \cap Under({y}) = {}

FoundPaths == {found[k].path : k \in 1 .. Len(found)}

Stepped == IF stack = <<>> THEN Tail(inputs) ELSE inputs

LEMMA TailFacts ==
  ASSUME NEW S, NEW s \in Seq(S), s # <<>>
  PROVE  /\ Len(s) \in Nat /\ Len(s) >= 1 /\ Head(s) = s[1]
         /\ Len(Tail(s)) = Len(s) - 1
         /\ \A k \in 1 .. Len(s) - 1 : Tail(s)[k] = s[k + 1]
  OBVIOUS

LEMMA AdvancedShape ==
  ASSUME ListTypeOK, stack # <<>>, NEW p \in Path
  PROVE  /\ Len(stack) \in Nat /\ Len(stack) >= 1 /\ Len(Advanced(p)) = Len(stack)
         /\ \A k \in 1 .. Len(stack) - 1 : Advanced(p)[k] = stack[k]
         /\ Advanced(p)[Len(stack)].left = stack[Len(stack)].left \ {p}
<1> DEFINE m == Len(stack)
           t == [Top EXCEPT !.left = @ \ {p}]
<1>1. /\ m \in Nat /\ m >= 1 /\ Top \in Frame
      /\ Callers \in Seq(Frame) /\ Len(Callers) = m - 1
      /\ \A i \in 1 .. m - 1 : Callers[i] = stack[i]
  BY StackFacts
<1>2. t \in Frame /\ t.left = stack[m].left \ {p}
  BY <1>1 DEF Frame, Top
<1>3. Advanced(p) = Append(Callers, t)
  BY DEF Advanced
<1> HIDE DEF t
<1>4. /\ Len(Advanced(p)) = m /\ Advanced(p)[m] = t
      /\ \A k \in 1 .. m - 1 : Advanced(p)[k] = stack[k]
  BY <1>1, <1>2, <1>3, AppendFacts
<1> QED
  BY <1>1, <1>2, <1>4

(* Stepping over the path in hand takes it, and nothing else, from what      *)
(* waits.                                                                    *)
LEMMA SteppedOver ==
  ASSUME ListTypeOK, NEW p \in Path, InHand(p)
  PROVE  /\ p \in RestOf(inputs, stack)
         /\ RestOf(Stepped, Advanced(p)) \subseteq RestOf(inputs, stack)
         /\ RestOf(inputs, stack) \subseteq RestOf(Stepped, Advanced(p)) \cup {p}
         /\ OnceOf(inputs, stack) => /\ OnceOf(Stepped, Advanced(p))
                                     /\ p \notin RestOf(Stepped, Advanced(p))
<1>1. CASE stack = <<>>
  <2> DEFINE n == Len(inputs)
             t == Tail(inputs)
  <2>1. inputs \in Seq(Path) /\ inputs # <<>> /\ p = Head(inputs)
    BY <1>1 DEF ListTypeOK, InHand
  <2>2. /\ n \in Nat /\ n >= 1 /\ p = inputs[1] /\ Len(t) = n - 1
        /\ \A k \in 1 .. n - 1 : t[k] = inputs[k + 1]
    BY <2>1, TailFacts
  <2>3. Stepped = t /\ Advanced(p) = <<>> /\ stack = <<>> /\ Len(<<>>) = 0
    BY <1>1 DEF Stepped, Advanced
  <2> HIDE DEF t
  <2>4. \A k \in 1 .. n : k = 1 \/ (k - 1 \in 1 .. n - 1 /\ inputs[k] = t[k - 1])
    BY <2>2
  <2>5. \A k \in 1 .. n - 1 : k + 1 \in 1 .. n /\ k + 1 # 1
    BY <2>2
  <2>6. 1 \in 1 .. n
    BY <2>2
  <2> HIDE DEF n
  <2>7. p \in RestOf(inputs, stack)
    BY <2>2, <2>6 DEF RestOf, n
  <2>8. RestOf(t, <<>>) \subseteq RestOf(inputs, <<>>)
    BY <2>2, <2>5 DEF RestOf, n
  <2>9. RestOf(inputs, <<>>) \subseteq RestOf(t, <<>>) \cup {p}
    BY <2>2, <2>4 DEF RestOf, n
  <2>10. ASSUME OnceOf(inputs, <<>>) PROVE OnceOf(t, <<>>) /\ p \notin RestOf(t, <<>>)
    <3>1. \A j, k \in 1 .. n : j # k => inputs[j] # inputs[k]
      BY <2>10 DEF OnceOf, n
    <3>2. \A j, k \in 1 .. n - 1 : j # k => t[j] # t[k]
      <4> SUFFICES ASSUME NEW j \in 1 .. n - 1, NEW k \in 1 .. n - 1, j # k PROVE t[j] # t[k]
        OBVIOUS
      <4>1. j + 1 \in 1 .. n /\ k + 1 \in 1 .. n /\ j + 1 # k + 1
        BY <2>5
      <4> QED
        BY <2>2, <3>1, <4>1
    <3>3. \A k \in 1 .. n - 1 : t[k] # p
      BY <2>2, <2>5, <2>6, <3>1
    <3> QED
      BY <2>2, <2>3, <3>2, <3>3 DEF OnceOf, RestOf
  <2> QED
    BY <2>3, <2>7, <2>8, <2>9, <2>10
<1>2. CASE stack # <<>>
  <2> DEFINE m == Len(stack)
             a == Advanced(p)
  <2>1. /\ m \in Nat /\ m >= 1 /\ Len(a) = m /\ a[m].left = stack[m].left \ {p}
        /\ \A k \in 1 .. m - 1 : a[k] = stack[k]
    BY <1>2, AdvancedShape
  <2>2. Stepped = inputs
    BY <1>2 DEF Stepped
  <2>3. p \in stack[m].left
    BY <1>2 DEF InHand, Top
  <2> HIDE DEF a
  <2>4. m \in 1 .. m /\ \A k \in 1 .. m : k = m \/ k \in 1 .. m - 1
    BY <2>1
  <2>5. \A k \in 1 .. m : /\ a[k].left \subseteq stack[k].left
                          /\ stack[k].left \subseteq a[k].left \cup {p}
                          /\ k # m => a[k].left = stack[k].left
    BY <2>1, <2>4
  <2> HIDE DEF m
  <2>6. p \in RestOf(inputs, stack)
    BY <2>3, <2>4 DEF RestOf, m
  <2>7. RestOf(inputs, a) \subseteq RestOf(inputs, stack)
    BY <2>1, <2>5 DEF RestOf, m
  <2>8. RestOf(inputs, stack) \subseteq RestOf(inputs, a) \cup {p}
    BY <2>1, <2>5 DEF RestOf, m
  <2>9. ASSUME OnceOf(inputs, stack) PROVE OnceOf(inputs, a) /\ p \notin RestOf(inputs, a)
    <3>1. /\ \A j, k \in 1 .. Len(inputs) : j # k => inputs[j] # inputs[k]
          /\ \A j \in 1 .. Len(inputs), k \in 1 .. m : inputs[j] \notin stack[k].left
          /\ \A j, k \in 1 .. m : j # k => stack[j].left \cap stack[k].left = {}
      BY <2>9 DEF OnceOf, m
    <3>2. OnceOf(inputs, a)
      BY <2>1, <2>5, <3>1 DEF OnceOf
    <3>3. \A k \in 1 .. m : p \notin a[k].left
      BY <2>1, <2>3, <2>4, <2>5, <3>1
    <3>4. \A j \in 1 .. Len(inputs) : inputs[j] # p
      BY <2>3, <2>4, <3>1
    <3> QED
      BY <2>1, <3>2, <3>3, <3>4 DEF RestOf
  <2> QED
    BY <2>2, <2>6, <2>7, <2>8, <2>9 DEF a
<1> QED
  BY <1>1, <1>2

LEMMA PushedRest ==
  ASSUME NEW args, NEW calls \in Seq(Frame), NEW call \in Frame
  PROVE  /\ RestOf(args, Append(calls, call)) = RestOf(args, calls) \cup call.left
         /\ OnceOf(args, calls) /\ call.left \cap RestOf(args, calls) = {}
              /\ (\A k \in 1 .. Len(args) : args[k] \in Path) =>
              OnceOf(args, Append(calls, call))
<1> DEFINE m == Len(calls)
           s == Append(calls, call)
<1>1. /\ s \in Seq(Frame) /\ m \in Nat /\ Len(s) = m + 1 /\ s[m + 1] = call
      /\ \A k \in 1 .. m : s[k] = calls[k] /\ calls[k] \in Frame
  BY AppendFacts
<1>2. /\ m + 1 \in 1 .. m + 1 /\ 1 .. m \subseteq 1 .. m + 1
      /\ \A k \in 1 .. m + 1 : k = m + 1 \/ k \in 1 .. m
  BY <1>1
<1>3. call.left \subseteq Path /\ \A k \in 1 .. m : calls[k].left \subseteq Path
  BY <1>1 DEF Frame
<1> HIDE DEF s
<1>4. RestOf(args, s) = RestOf(args, calls) \cup call.left
  BY <1>1, <1>2, <1>3 DEF RestOf
<1>5. ASSUME OnceOf(args, calls), call.left \cap RestOf(args, calls) = {},
             \A k \in 1 .. Len(args) : args[k] \in Path
      PROVE  OnceOf(args, s)
  <2>1. \A k \in 1 .. m : call.left \cap calls[k].left = {}
    BY <1>3, <1>5 DEF RestOf
  <2>2. \A k \in 1 .. Len(args) : args[k] \notin call.left
    BY <1>5 DEF RestOf
  <2>3. \A j \in 1 .. Len(args), k \in 1 .. m + 1 : args[j] \notin s[k].left
    BY <1>1, <1>2, <1>5, <2>2 DEF OnceOf
  <2>4. \A j, k \in 1 .. m + 1 : j # k => s[j].left \cap s[k].left = {}
    <3> SUFFICES ASSUME NEW j \in 1 .. m + 1, NEW k \in 1 .. m + 1, j # k
                 PROVE  s[j].left \cap s[k].left = {}
      OBVIOUS
    <3>1. CASE j \in 1 .. m /\ k \in 1 .. m
      BY <1>1, <1>5, <3>1 DEF OnceOf
    <3>2. CASE j = m + 1 /\ k \in 1 .. m
      BY <1>1, <2>1, <3>2
    <3>3. CASE j \in 1 .. m /\ k = m + 1
      BY <1>1, <2>1, <3>3
    <3> QED
      BY <1>2, <3>1, <3>2, <3>3
  <2>5. \A j, k \in 1 .. Len(args) : j # k => args[j] # args[k]
    BY <1>5 DEF OnceOf
  <2> QED
    BY <1>1, <2>3, <2>4, <2>5 DEF OnceOf
<1> QED
  BY <1>4, <1>5 DEF s

LEMMA PoppedRest ==
  ASSUME ListTypeOK, stack # <<>>, Top.left = {}
  PROVE  /\ RestOf(inputs, Callers) = RestOf(inputs, stack)
         /\ OnceOf(inputs, stack) => OnceOf(inputs, Callers)
<1> DEFINE m == Len(stack)
<1>1. /\ m \in Nat /\ m >= 1 /\ Len(Callers) = m - 1
      /\ \A i \in 1 .. m - 1 : Callers[i] = stack[i]
  BY StackFacts
<1>2. stack[m].left = {}
  BY DEF Top
<1>3. /\ \A k \in 1 .. m : k = m \/ k \in 1 .. m - 1
      /\ 1 .. m - 1 \subseteq 1 .. m
  BY <1>1
<1> HIDE DEF m
<1>4. RestOf(inputs, Callers) = RestOf(inputs, stack)
  BY <1>1, <1>2, <1>3 DEF RestOf, m
<1>5. OnceOf(inputs, stack) => OnceOf(inputs, Callers)
  BY <1>1, <1>3 DEF OnceOf, m
<1> QED
  BY <1>4, <1>5

-------------------------------------------------------------------------------
(* What the list is to hold, for the arguments it was made from.             *)
Apart(args) ==
  \A k, q \in DOMAIN args : k # q => Under({args[k]}) \cap Under({args[q]}) = {}

ListFound(args) ==
  LET files == Under(Range(args)) \ Dir
      short == {p \in files : Length[p] < ListStep}
  IN /\ short \subseteq Range(table) /\ Range(table) \subseteq files
     /\ Apart(args) => \A k, q \in DOMAIN table : k # q => table[k] # table[q]
     /\ lpc = "null" => short = {}

(* On the way, every short file has been found or lies under what waits, and *)
(* if the arguments are apart, only once.                                    *)
FoundOnce ==
  /\ OnceOf(inputs, stack)
  /\ Separate(RestOf(inputs, stack))
  /\ FoundPaths \cap Under(RestOf(inputs, stack)) = {}
  /\ \A k, q \in 1 .. Len(found) : k # q => found[k].path # found[q].path

WalkInv(args) ==
  /\ nbFiles = Len(found) /\ table = <<>>
  /\ FoundPaths \subseteq Under(Range(args)) \ Dir
  /\ RestOf(inputs, stack) \subseteq Under(Range(args))
  /\ \A p \in Under(Range(args)) \ Dir :
       Length[p] < ListStep => p \in FoundPaths \cup Under(RestOf(inputs, stack))
  /\ Apart(args) => FoundOnce

FoundInv(args) ==
  faults = 0 =>
    /\ lpc = "idle" =>
         inputs = <<>> /\ stack = <<>> /\ found = <<>> /\ nbFiles = 0 /\ table = <<>>
    /\ lpc = "walk" => WalkInv(args)
    /\ lpc \in {"built", "null"} => ListFound(args)

LEMMA RangeOfArguments ==
  ASSUME NEW args \in Seq(Path)
  PROVE  /\ DOMAIN args = 1 .. Len(args) /\ Len(args) \in Nat
         /\ \A k \in 1 .. Len(args) : args[k] \in Path
         /\ Range(args) \in SUBSET Path
         /\ Range(args) = {x \in Path : \E k \in 1 .. Len(args) : args[k] = x}
  BY DEF Range

(* Every name that is found is one, and the names are as many as the count.  *)
LEMMA FoundBegins ==
  ASSUME ListInv, NEW args \in Seq(Path), FoundInv(args), CreateList(args)
  PROVE  FoundInv(args)'
<1> SUFFICES ASSUME faults = 0 PROVE WalkInv(args)'
  BY DEF FoundInv, CreateList
<1>1. /\ inputs' = args /\ stack' = <<>> /\ found' = <<>> /\ nbFiles' = 0 /\ table' = <<>>
      /\ Len(<<>>) = 0
  BY DEF FoundInv, CreateList
<1>2. /\ DOMAIN args = 1 .. Len(args) /\ Len(args) \in Nat
      /\ \A k \in 1 .. Len(args) : args[k] \in Path
      /\ Range(args) \in SUBSET Path
      /\ Range(args) = {x \in Path : \E k \in 1 .. Len(args) : args[k] = x}
  BY RangeOfArguments
<1> DEFINE R == RestOf(args, <<>>)
<1>3. R = Range(args)
  BY <1>2 DEF RestOf
<1>4. R \subseteq Under(R)
  BY <1>2, <1>3, UnderFacts
<1>5. FoundPaths' = {}
  BY <1>1 DEF FoundPaths
<1>6. ASSUME Apart(args) PROVE FoundOnce'
  <2>1. \A k \in 1 .. Len(args) : args[k] \in Under({args[k]})
    <3> SUFFICES ASSUME NEW k \in 1 .. Len(args) PROVE args[k] \in Under({args[k]})
      OBVIOUS
    <3>1. {args[k]} \in SUBSET Path
      BY <1>2
    <3> QED
      BY <3>1, UnderFacts
  <2>2. \A j, k \in 1 .. Len(args) : j # k => args[j] # args[k]
    BY <1>2, <1>6, <2>1 DEF Apart
  <2>3. OnceOf(args, <<>>)
    BY <2>2 DEF OnceOf
  <2>4. Separate(R)
    BY <1>2, <1>3, <1>6 DEF Separate, Apart
  <2> QED
    BY <1>1, <1>5, <2>3, <2>4 DEF FoundOnce
<1> HIDE DEF R
<1>7. R = RestOf(inputs, stack)'
  BY <1>1 DEF R, RestOf
<1> QED
  BY <1>1, <1>3, <1>4, <1>5, <1>6, <1>7 DEF WalkInv

(* A name found, or passed over because it is too long.                      *)
LEMMA FoundMore ==
  ASSUME ListInv, NEW p \in Path, p \notin Dir, lpc = "walk", nbFiles = Len(found),
         Put(p, Grown(p))
  PROVE  \/ /\ found' = Append(found, [path |-> p, at |-> pos])
            /\ nbFiles' = nbFiles + 1
         \/ found' = found /\ nbFiles' = nbFiles /\ Length[p] >= ListStep
<1>1. pos \in Nat /\ cap \in Nat /\ pos <= cap /\ Length[p] \in Nat /\ ListStep \in Nat
  BY TreeFacts, FileListAssumption DEF ListInv, ListTypeOK
<1>2. CASE pos + Length[p] < Grown(p)
  BY <1>2 DEF Put
<1>3. CASE ~(pos + Length[p] < Grown(p))
  <2>1. found' = found /\ nbFiles' = nbFiles
    BY <1>3 DEF Put
  <2>2. Grown(p) = IF pos + Length[p] >= cap THEN cap + ListStep ELSE cap
    BY DEF Grown
  <2>3. pos + Length[p] >= cap + ListStep
    BY <1>1, <1>3, <2>2
  <2> QED
    BY <1>1, <2>1, <2>3
<1> QED
  BY <1>2, <1>3

LEMMA FoundFile ==
  ASSUME ListInv, NEW args \in Seq(Path), FoundInv(args), AddFile
  PROVE  FoundInv(args)'
<1> SUFFICES ASSUME faults = 0, lpc = "walk", WalkInv(args) PROVE WalkInv(args)'
  BY DEF FoundInv, AddFile, InHand
<1>1. PICK p \in Path : /\ InHand(p) /\ p \notin Dir /\ Put(p, Grown(p)) /\ Advance(p)
                        /\ UNCHANGED <<table, lpc, faults>>
  BY DEF AddFile
<1> DEFINE R == RestOf(inputs, stack)
           Q == RestOf(Stepped, Advanced(p))
           U == Under(Range(args))
           m == Len(found)
           e == [path |-> p, at |-> pos]
<1>2. /\ p \in R /\ Q \subseteq R /\ R \subseteq Q \cup {p}
      /\ OnceOf(inputs, stack) => OnceOf(Stepped, Advanced(p)) /\ p \notin Q
  BY <1>1, SteppedOver DEF ListInv
<1>3. inputs' = Stepped /\ stack' = Advanced(p) /\ table' = table
  BY <1>1 DEF Advance, Stepped
<1>4. RestOf(inputs, stack)' = Q
  BY <1>3 DEF RestOf
<1>5. R \in SUBSET Path /\ Q \in SUBSET Path /\ {p} \in SUBSET Path
  BY DEF RestOf
<1>6. Range(args) \in SUBSET Path
  BY RangeOfArguments
<1>7. Under(Q) \subseteq Under(R) /\ Under(R) \subseteq Under(Q) \cup {p}
  <2> HIDE DEF R, Q
  <2>1. Under({p}) = {p}
    BY <1>1, UnderFile
  <2>2. R \subseteq Under(R) /\ Q \subseteq Under(Q)
    BY <1>5, UnderFacts
  <2>3. Under(Q) \subseteq Under(R)
    BY <1>2, <1>5, <2>2, UnderGrows
  <2>4. Under(Q \cup {p}) = Under(Q) \cup {p}
    BY <1>5, <2>1, UnderUnion
  <2>5. Q \cup {p} \in SUBSET Path /\ R \subseteq Under(Q \cup {p})
    BY <1>2, <1>5, <2>2, <2>4
  <2>6. Under(R) \subseteq Under(Q \cup {p})
    BY <1>5, <2>5, UnderGrows
  <2> QED
    BY <2>3, <2>4, <2>6
<1>8. p \in Under({p}) /\ p \in Under(R)
  <2> HIDE DEF R
  <2> QED
    BY <1>2, <1>5, UnderFacts
<1>9. \/ found' = Append(found, e) /\ nbFiles' = nbFiles + 1
      \/ found' = found /\ nbFiles' = nbFiles /\ Length[p] >= ListStep
  BY <1>1, FoundMore DEF WalkInv
<1>10. /\ found \in Seq(NameAt) /\ m \in Nat /\ e \in NameAt /\ e.path = p
       /\ nbFiles = m
  BY DEF ListInv, ListTypeOK, NameAt, WalkInv
<1>11. /\ FoundPaths \subseteq U \ Dir /\ R \subseteq U
       /\ \A q \in U \ Dir : Length[q] < ListStep => q \in FoundPaths \cup Under(R)
       /\ table = <<>>
       /\ Apart(args) => FoundOnce
  BY DEF WalkInv
<1>12. ASSUME Apart(args)
       PROVE  /\ OnceOf(inputs, stack)' /\ Separate(Q) /\ p \notin FoundPaths
              /\ p \notin Under(Q) /\ FoundPaths \cap Under(Q) = {}
              /\ \A k, q \in 1 .. m : k # q => found[k].path # found[q].path
  <2>1. /\ OnceOf(inputs, stack) /\ Separate(R) /\ FoundPaths \cap Under(R) = {}
        /\ \A k, q \in 1 .. m : k # q => found[k].path # found[q].path
    BY <1>11, <1>12 DEF FoundOnce
  <2>2. OnceOf(Stepped, Advanced(p)) /\ p \notin Q
    BY <1>2, <2>1
  <2>3. OnceOf(inputs, stack)'
    BY <1>3, <2>2 DEF OnceOf
  <2> HIDE DEF R, Q
  <2>4. Separate(Q)
    BY <1>2, <2>1 DEF Separate
  <2>5. p \notin Under(Q)
    <3> SUFFICES ASSUME p \in Under(Q) PROVE FALSE
      OBVIOUS
    <3>1. PICK s \in Q : p \in Under({s})
      BY <1>5, UnderSome
    <3>2. s # p /\ s \in R
      BY <1>2, <2>2
    <3> QED
      BY <1>2, <1>8, <2>1, <3>1, <3>2 DEF Separate
  <2> QED
    BY <1>7, <1>8, <2>1, <2>3, <2>4, <2>5
<1>13. CASE found' = Append(found, e) /\ nbFiles' = nbFiles + 1
  <2>1. /\ Len(found') = m + 1 /\ found'[m + 1] = e
        /\ \A k \in 1 .. m : found'[k] = found[k]
    <3> HIDE DEF e, m
    <3>1. /\ Len(Append(found, e)) = Len(found) + 1 /\ Append(found, e)[Len(found) + 1] = e
          /\ \A k \in 1 .. Len(found) : Append(found, e)[k] = found[k]
      BY <1>10, AppendFacts
    <3> QED
      BY <1>13, <3>1 DEF m
  <2>2. m + 1 \in 1 .. m + 1 /\ \A k \in 1 .. m + 1 : k = m + 1 \/ k \in 1 .. m
    BY <1>10
  <2>3. 1 .. m \subseteq 1 .. m + 1
    BY <1>10
  <2> HIDE DEF e
  <2>4. FoundPaths' = FoundPaths \cup {p}
    <3> HIDE DEF m
    <3> QED
      BY <1>10, <2>1, <2>2, <2>3 DEF FoundPaths, m
  <2>5. p \in U
    BY <1>2, <1>11
  <2>6. nbFiles' = Len(found')
    BY <1>10, <1>13, <2>1
  <2> HIDE DEF R, Q, U
  <2>7. Q \subseteq U /\ FoundPaths' \subseteq U \ Dir
    BY <1>1, <1>2, <1>11, <2>4, <2>5
  <2>8. \A q \in U \ Dir : Length[q] < ListStep => q \in FoundPaths' \cup Under(Q)
    BY <1>7, <1>11, <2>4
  <2>9. ASSUME Apart(args) PROVE FoundOnce'
    <3>1. FoundPaths' \cap Under(Q) = {}
      BY <1>12, <2>4, <2>9
    <3>2. \A k \in 1 .. m : found[k].path # p
      BY <1>12, <2>9 DEF FoundPaths
    <3>3. \A k, q \in 1 .. m + 1 : k # q => found'[k].path # found'[q].path
      <4> SUFFICES ASSUME NEW k \in 1 .. m + 1, NEW q \in 1 .. m + 1, k # q
                   PROVE  found'[k].path # found'[q].path
        OBVIOUS
      <4>1. CASE k \in 1 .. m /\ q \in 1 .. m
        BY <1>12, <2>1, <2>9, <4>1
      <4>2. CASE k = m + 1 /\ q \in 1 .. m
        BY <1>10, <2>1, <3>2, <4>2
      <4>3. CASE k \in 1 .. m /\ q = m + 1
        BY <1>10, <2>1, <3>2, <4>3
      <4> QED
        BY <2>2, <4>1, <4>2, <4>3
    <3>4. OnceOf(inputs, stack)' /\ Separate(Q)
      BY <1>12, <2>9
    <3> HIDE DEF m
    <3> QED
      BY <1>4, <2>1, <3>1, <3>3, <3>4 DEF FoundOnce
  <2> QED
    BY <1>3, <1>4, <1>11, <2>6, <2>7, <2>8, <2>9 DEF WalkInv, U
<1>14. CASE found' = found /\ nbFiles' = nbFiles /\ Length[p] >= ListStep
  <2>1. FoundPaths' = FoundPaths
    BY <1>14 DEF FoundPaths
  <2> HIDE DEF R, Q, U
  <2>2. Q \subseteq U
    BY <1>2, <1>11
  <2>3. ~(Length[p] < ListStep)
    BY <1>14, TreeFacts, FileListAssumption
  <2>4. \A q \in U \ Dir : Length[q] < ListStep => q \in FoundPaths' \cup Under(Q)
    BY <1>7, <1>11, <2>1, <2>3
  <2>5. ASSUME Apart(args) PROVE FoundOnce'
    BY <1>4, <1>12, <1>14, <2>1, <2>5 DEF FoundOnce
  <2> QED
    BY <1>3, <1>4, <1>10, <1>11, <1>14, <2>1, <2>2, <2>4, <2>5 DEF WalkInv, U
<1> QED
  BY <1>9, <1>13, <1>14

LEMMA FoundOpened ==
  ASSUME ListInv, NEW args \in Seq(Path), FoundInv(args), OpenDirectory
  PROVE  FoundInv(args)'
<1> SUFFICES ASSUME faults = 0, lpc = "walk", WalkInv(args) PROVE WalkInv(args)'
  BY DEF FoundInv, OpenDirectory, InHand
<1>1. PICK d \in Dir :
        /\ InHand(d)
        /\ inputs' = IF stack = <<>> THEN Tail(inputs) ELSE inputs
        /\ stack' = Append(Advanced(d), [left |-> Entries[d], before |-> nbFiles])
        /\ UNCHANGED <<pos, cap, found, nbFiles, table, lpc, faults>>
  BY DEF OpenDirectory
<1> DEFINE R == RestOf(inputs, stack)
           Q == RestOf(Stepped, Advanced(d))
           N == RestOf(inputs, stack)'
           U == Under(Range(args))
           call == [left |-> Entries[d], before |-> nbFiles]
<1>2. d \in Path /\ Entries[d] \in SUBSET Path
  BY TreeFacts
<1>3. /\ d \in R /\ Q \subseteq R /\ R \subseteq Q \cup {d}
      /\ OnceOf(inputs, stack) => OnceOf(Stepped, Advanced(d)) /\ d \notin Q
  BY <1>1, <1>2, SteppedOver DEF ListInv
<1>4. /\ Advanced(d) \in Seq(Frame) /\ call \in Frame /\ call.left = Entries[d]
      /\ Stepped \in Seq(Path)
  <2>1. Advanced(d) \in Seq(Frame)
    BY <1>2, AdvancedFacts DEF ListInv
  <2>2. Stepped \in Seq(Path)
    BY <1>1, <1>2, AdvanceTypes DEF ListInv, Stepped
  <2> QED
    BY <1>2, <2>1, <2>2 DEF Frame, ListInv, ListTypeOK
<1>5. inputs' = Stepped /\ stack' = Append(Advanced(d), call)
  BY <1>1 DEF Stepped
<1>6. \A k \in 1 .. Len(Stepped) : Stepped[k] \in Path
  BY <1>4
<1>7. /\ RestOf(Stepped, Append(Advanced(d), call)) = Q \cup Entries[d]
      /\ OnceOf(Stepped, Advanced(d)) /\ Entries[d] \cap Q = {}
           => OnceOf(Stepped, Append(Advanced(d), call))
  <2> DEFINE calls == Advanced(d)
  <2>1. calls \in Seq(Frame)
    BY <1>4
  <2> HIDE DEF call, calls
  <2>2. RestOf(Stepped, Append(calls, call)) = RestOf(Stepped, calls) \cup call.left
    BY <1>4, <2>1, PushedRest
  <2>3. OnceOf(Stepped, calls) /\ call.left \cap RestOf(Stepped, calls) = {}
          => OnceOf(Stepped, Append(calls, call))
    BY <1>4, <1>6, <2>1, PushedRest
  <2>4. OnceOf(Stepped, calls) /\ Entries[d] \cap RestOf(Stepped, calls) = {}
          => OnceOf(Stepped, Append(calls, call))
    BY <1>4, <2>3
  <2> QED
    BY <1>4, <2>2, <2>4 DEF calls
<1>8. N = Q \cup Entries[d]
  BY <1>5, <1>7 DEF RestOf
<1>9. R \in SUBSET Path /\ Q \in SUBSET Path /\ N \in SUBSET Path /\ {d} \in SUBSET Path
  BY <1>2, <1>8 DEF RestOf
<1>10. Range(args) \in SUBSET Path
  BY RangeOfArguments
<1>11. /\ nbFiles = Len(found) /\ table = <<>>
       /\ FoundPaths \subseteq U \ Dir /\ R \subseteq U
       /\ \A q \in U \ Dir : Length[q] < ListStep => q \in FoundPaths \cup Under(R)
       /\ Apart(args) => FoundOnce
  BY DEF WalkInv
<1>12. FoundPaths' = FoundPaths
  BY <1>1 DEF FoundPaths
<1> HIDE DEF R, Q, N, U, call
<1>13. /\ Under({d}) = {d} \cup Under(Entries[d])
       /\ Under(N) = Under(Q) \cup Under(Entries[d])
       /\ Under(Q \cup {d}) = Under(Q) \cup Under({d})
  BY <1>2, <1>8, <1>9, UnderDirectory, UnderUnion
<1>14. R \subseteq Under(R) /\ Q \subseteq Under(Q) /\ N \subseteq Under(N)
  BY <1>9, UnderFacts
<1>15. Under({d}) \subseteq Under(R)
  BY <1>3, <1>9, <1>14, UnderMember
<1>16. Under(N) \subseteq Under(R)
  <2>1. Under(Q) \subseteq Under(R)
    BY <1>3, <1>9, <1>14, UnderGrows
  <2> QED
    BY <1>13, <1>15, <2>1
<1>17. Under(R) \subseteq Under(N) \cup {d}
  <2>1. Q \cup {d} \in SUBSET Path /\ R \subseteq Under(Q \cup {d})
    <3>1. Q \cup {d} \in SUBSET Path
      BY <1>9
    <3>2. Q \cup {d} \subseteq Under(Q \cup {d})
      BY <3>1, UnderFacts
    <3> QED
      BY <1>3, <3>1, <3>2
  <2>2. Under(R) \subseteq Under(Q \cup {d})
    BY <1>9, <2>1, UnderGrows
  <2> QED
    BY <1>13, <2>2
<1>18. N \subseteq U
  <2>1. U \in SUBSET Path /\ Closed(U)
    BY <1>10, UnderFacts DEF U
  <2>2. Entries[d] \subseteq U
    BY <1>3, <1>11, <2>1 DEF Closed
  <2> QED
    BY <1>3, <1>8, <1>11, <2>2
<1>19. \A q \in U \ Dir : Length[q] < ListStep => q \in FoundPaths' \cup Under(N)
  BY <1>1, <1>11, <1>12, <1>17
<1>20. ASSUME Apart(args) PROVE FoundOnce'
  <2>1. /\ OnceOf(inputs, stack) /\ Separate(R) /\ FoundPaths \cap Under(R) = {}
        /\ \A k, q \in 1 .. Len(found) : k # q => found[k].path # found[q].path
    BY <1>11, <1>20 DEF FoundOnce, R
  <2>2. OnceOf(Stepped, Advanced(d)) /\ d \notin Q
    BY <1>3, <2>1
  <2>3. \A x \in Entries[d] : Under({x}) \subseteq Under({d}) /\ x \in Under({x}) /\ x \in Path
    <3> SUFFICES ASSUME NEW x \in Entries[d]
                 PROVE  Under({x}) \subseteq Under({d}) /\ x \in Under({x}) /\ x \in Path
      OBVIOUS
    <3>1. x \in Path /\ {x} \in SUBSET Path
      BY <1>2
    <3>2. Entries[d] \subseteq Under(Entries[d])
      BY <1>2, UnderFacts
    <3>3. x \in Under({d})
      BY <1>13, <3>2
    <3>4. Under({x}) \subseteq Under({d})
      BY <1>9, <3>3, UnderMember
    <3>5. x \in Under({x})
      BY <3>1, UnderFacts
    <3> QED
      BY <3>1, <3>4, <3>5
  <2>4. \A x \in Q : Under({x}) \cap Under({d}) = {}
    BY <1>3, <2>1, <2>2 DEF Separate
  <2>5. Entries[d] \cap Q = {}
    <3> SUFFICES ASSUME NEW x \in Entries[d], x \in Q PROVE FALSE
      OBVIOUS
    <3> QED
      BY <2>3, <2>4
  <2>6. OnceOf(inputs, stack)'
    <3>1. OnceOf(Stepped, Append(Advanced(d), call))
      BY <1>7, <2>2, <2>5
    <3> QED
      BY <1>5, <3>1 DEF OnceOf
  <2>7. Separate(N)
    <3> SUFFICES ASSUME NEW x \in N, NEW y \in N, x # y
                 PROVE  Under({x}) \cap Under({y}) = {}
      BY DEF Separate
    <3>1. CASE x \in Q /\ y \in Q
      BY <1>3, <2>1, <3>1 DEF Separate
    <3>2. CASE x \in Q /\ y \in Entries[d]
      BY <2>3, <2>4, <3>2
    <3>3. CASE x \in Entries[d] /\ y \in Q
      BY <2>3, <2>4, <3>3
    <3>4. CASE x \in Entries[d] /\ y \in Entries[d]
      BY <3>4, TreesApart
    <3> QED
      BY <1>8, <3>1, <3>2, <3>3, <3>4
  <2>8. FoundPaths' \cap Under(N) = {}
    BY <1>12, <1>16, <2>1
  <2>9. \A k, q \in 1 .. Len(found') : k # q => found'[k].path # found'[q].path
    BY <1>1, <2>1
  <2> QED
    BY <2>6, <2>7, <2>8, <2>9 DEF FoundOnce, N
<1>21. nbFiles' = Len(found') /\ table' = <<>>
  BY <1>1, <1>11
<1>22. FoundPaths' \subseteq U \ Dir
  BY <1>11, <1>12
<1> QED
  BY <1>18, <1>19, <1>20, <1>21, <1>22 DEF WalkInv, N, U

LEMMA FoundClosed ==
  ASSUME ListInv, NEW args \in Seq(Path), FoundInv(args), CloseDirectory
  PROVE  FoundInv(args)'
<1> SUFFICES ASSUME faults = 0, lpc = "walk", WalkInv(args) PROVE WalkInv(args)'
  BY DEF FoundInv, CloseDirectory
<1>1. /\ RestOf(inputs, Callers) = RestOf(inputs, stack)
      /\ OnceOf(inputs, stack) => OnceOf(inputs, Callers)
  BY PoppedRest DEF ListInv, CloseDirectory
<1>2. /\ stack' = Callers
      /\ inputs' = inputs /\ found' = found /\ nbFiles' = nbFiles /\ table' = table
  BY DEF CloseDirectory
<1>3. RestOf(inputs, stack)' = RestOf(inputs, stack)
  BY <1>1, <1>2 DEF RestOf
<1>4. OnceOf(inputs, stack) => OnceOf(inputs, stack)'
  BY <1>1, <1>2 DEF OnceOf
<1>5. FoundPaths' = FoundPaths
  BY <1>2 DEF FoundPaths
<1>6. Apart(args) => FoundOnce'
  BY <1>2, <1>3, <1>4, <1>5 DEF WalkInv, FoundOnce
<1> QED
  BY <1>2, <1>3, <1>5, <1>6 DEF WalkInv

(* At the end nothing waits: the short files have all been found.            *)
LEMMA NothingWaits ==
  ASSUME NEW args \in Seq(Path), WalkInv(args), Walked
  PROVE  /\ FoundPaths \subseteq Under(Range(args)) \ Dir
         /\ \A p \in Under(Range(args)) \ Dir : Length[p] < ListStep => p \in FoundPaths
<1>1. RestOf(inputs, stack) = {}
  BY DEF Walked, RestOf
<1> QED
  BY <1>1, UnderNothing DEF WalkInv

LEMMA FoundNothing ==
  ASSUME ListInv, NEW args \in Seq(Path), FoundInv(args), NothingFound
  PROVE  FoundInv(args)'
<1> SUFFICES ASSUME faults = 0, WalkInv(args) PROVE ListFound(args)'
  BY DEF FoundInv, NothingFound, Walked
<1>1. found = <<>> /\ table' = <<>>
  BY DEF WalkInv, NothingFound, ListInv, ListTypeOK
<1>2. FoundPaths = {}
  BY <1>1 DEF FoundPaths
<1>3. \A p \in Under(Range(args)) \ Dir : ~(Length[p] < ListStep)
  BY <1>2, NothingWaits DEF NothingFound
<1>4. Range(<<>>) = {} /\ DOMAIN <<>> = {}
  BY DEF Range
<1> QED
  BY <1>1, <1>3, <1>4 DEF ListFound

LEMMA FoundBuilt ==
  ASSUME ListInv, NEW args \in Seq(Path), FoundInv(args), BuildTable
  PROVE  FoundInv(args)'
<1> SUFFICES ASSUME faults = 0, WalkInv(args) PROVE ListFound(args)' /\ lpc' = "built"
  BY DEF FoundInv, BuildTable, Walked
<1>1. lpc' = "built"
  <2>1. TableEnd <= cap
    BY TableEndFits DEF BuildTable, Walked
  <2>2. TableEnd \in Int /\ cap \in Int
    <3>1. /\ nbFiles \in 1 .. Len(found) /\ found \in Seq(NameAt) /\ cap \in Nat
      BY DEF ListInv, ListTypeOK, NameAt, BuildTable
    <3>2. found[nbFiles] \in NameAt
      BY <3>1
    <3> QED
      BY <3>1, <3>2, LengthNat DEF NameAt, TableEnd
  <2> QED
    BY <2>1, <2>2 DEF BuildTable
<1> DEFINE n == Len(found)
           t == [k \in 1 .. n |-> found[k].path]
<1>2. nbFiles = n /\ table' = t
  BY DEF BuildTable, WalkInv
<1>3. DOMAIN t = 1 .. n /\ Range(t) = FoundPaths
  BY DEF Range, FoundPaths
<1>4. ASSUME Apart(args) PROVE \A k, q \in 1 .. n : k # q => t[k] # t[q]
  BY <1>4 DEF WalkInv, FoundOnce
<1>5. /\ FoundPaths \subseteq Under(Range(args)) \ Dir
      /\ \A p \in Under(Range(args)) \ Dir : Length[p] < ListStep => p \in FoundPaths
  BY NothingWaits DEF BuildTable
<1> HIDE DEF n, t
<1> QED
  BY <1>1, <1>2, <1>3, <1>4, <1>5 DEF ListFound

(* A call that fails ends the search for more than that.                     *)
LEMMA FoundStep ==
  ASSUME ListInv, NEW args \in Seq(Path), FoundInv(args), CreateList(args) \/ WalkNext
  PROVE  FoundInv(args)'
<1>1. ASSUME Fault PROVE FoundInv(args)'
  BY <1>1, FileListAssumption DEF Fault, FoundInv, ListInv, ListTypeOK
<1>2. CASE CreateList(args)
  BY <1>2, FoundBegins
<1>3. CASE CreateFails
  BY <1>1, <1>3 DEF CreateFails
<1>4. CASE AddFile
  BY <1>4, FoundFile
<1>5. CASE AddVanished
  BY <1>1, <1>5 DEF AddVanished
<1>6. CASE GrowFails
  BY <1>1, <1>6 DEF GrowFails
<1>7. CASE OpenDirectory
  BY <1>7, FoundOpened
<1>8. CASE OpenFails
  BY <1>1, <1>8 DEF OpenFails
<1>9. CASE PathFails
  BY <1>1, <1>9 DEF PathFails
<1>10. CASE ReadFails
  BY <1>1, <1>10 DEF ReadFails
<1>11. CASE CloseDirectory
  BY <1>11, FoundClosed
<1>12. CASE NothingFound
  BY <1>12, FoundNothing
<1>13. CASE BuildTable
  BY <1>13, FoundBuilt
<1>14. CASE TableFails
  BY <1>1, <1>14 DEF TableFails
<1> QED
  BY <1>2, <1>3, <1>4, <1>5, <1>6, <1>7, <1>8, <1>9, <1>10, <1>11, <1>12, <1>13,
     <1>14 DEF WalkNext

-------------------------------------------------------------------------------
(* The split into chunks. *)
(* What is cut and what is left make up the files up to the one in hand.    *)
Progress ==
  /\ Len(cut) >= 1 /\ cut[1] = 0
  /\ cpc \in {"file", "split"} =>
       Len(ends) = f /\ Done = ends[Len(ends)]
  /\ cpc = "cut" =>
       Len(ends) = f + 1 /\ f <= Len(sizes) /\ Done + left = ends[Len(ends)]

(* Chunks grow from the front, and none is longer than chunk.               *)
Increasing ==
  /\ chunk > 0 => \A j, k \in 1 .. Len(cut) : j < k => cut[j] < cut[k]
  /\ \A k \in 1 .. Len(cut) - 1 : cut[k + 1] - cut[k] <= chunk

(* The ends of the files before the one in hand are among the cuts.         *)
CutAtEnds ==
  cpc \in {"file", "cut", "split"} =>
    \A k \in 1 .. Len(ends) :
      (cpc = "cut" => k < Len(ends)) => \E q \in 1 .. Len(cut) : cut[q] = ends[k]

SplitInv ==
  /\ ChunkingTypeOK
  /\ Progress
  /\ Increasing
  /\ CutAtEnds

-------------------------------------------------------------------------------
LEMMA SplitInvInit ==
  ChunkingInit => SplitInv
<1> SUFFICES ASSUME ChunkingInit PROVE SplitInv
  OBVIOUS
<1> USE DEF ChunkingInit
<1>1. ChunkingTypeOK
  BY DEF ChunkingTypeOK
<1>2. Progress
  BY DEF Progress
<1>3. Increasing
  BY DEF Increasing
<1>4. CutAtEnds
  BY DEF CutAtEnds
<1> QED
  BY <1>1, <1>2, <1>3, <1>4 DEF SplitInv

(* A new test starts from nothing. *)
LEMMA SplitInvStart ==
  ASSUME SplitInv,
         NEW fileSizes \in Seq(Nat), NEW chunkSize \in Nat, NEW insize \in Nat,
         NEW maxBlock \in Nat, SplitStart(fileSizes, chunkSize, insize, maxBlock)
  PROVE  SplitInv'
<1> USE DEF SplitStart
<1>1. chunk' \in Nat
  BY DEF ChunkSize, Smaller
<1>2. cut' = <<0>> /\ ends' = <<0>> /\ f' = 1 /\ cpc' = "file"
  OBVIOUS
<1>3. ChunkingTypeOK'
  BY <1>1, <1>2 DEF ChunkingTypeOK
<1>4. Progress'
  BY <1>2 DEF Progress, Done
<1>5. Increasing'
  BY <1>2 DEF Increasing
<1>6. CutAtEnds'
  BY <1>2 DEF CutAtEnds
<1> QED
  BY <1>3, <1>4, <1>5, <1>6 DEF SplitInv

LEMMA SplitInvNextFile ==
  ASSUME SplitInv, NextFile
  PROVE  SplitInv'
<1> DEFINE e == ends[f] + sizes[f]
<1>1. /\ sizes \in Seq(Nat) /\ cut \in Seq(Nat) /\ ends \in Seq(Nat)
      /\ f \in 1 .. Len(sizes) /\ Len(ends) = f /\ Done = ends[f]
      /\ Len(cut) >= 1 /\ cut[1] = 0 /\ cpc = "file"
  BY DEF SplitInv, NextFile, ChunkingTypeOK, Progress
<1>2. sizes[f] \in Nat /\ e \in Nat
  BY <1>1
<1>3. /\ left' = sizes[f] /\ ends' = Append(ends, e) /\ cpc' = "cut"
      /\ sizes' = sizes /\ chunk' = chunk /\ f' = f /\ cut' = cut
  BY DEF NextFile
<1>4. /\ ends' \in Seq(Nat) /\ Len(ends') = f + 1 /\ ends'[f + 1] = e
      /\ \A k \in 1 .. f : ends'[k] = ends[k]
  BY <1>1, <1>2, <1>3
<1>5. ChunkingTypeOK'
  BY <1>1, <1>2, <1>3, <1>4 DEF SplitInv, ChunkingTypeOK
<1>6. Progress'
  <2>1. Done' = Done
    BY <1>3 DEF Done
  <2>2. Done + sizes[f] = e
    BY <1>1
  <2> HIDE DEF e
  <2> QED
    BY <1>1, <1>3, <1>4, <2>1, <2>2 DEF Progress
<1>7. Increasing'
  BY <1>3 DEF SplitInv, Increasing
<1>8. CutAtEnds'
  <2> SUFFICES ASSUME NEW k \in 1 .. f
               PROVE  \E q \in 1 .. Len(cut) : cut[q] = ends'[k]
    BY <1>1, <1>3, <1>4 DEF CutAtEnds
  <2> QED
    BY <1>1, <1>4 DEF SplitInv, CutAtEnds
<1> QED
  BY <1>5, <1>6, <1>7, <1>8 DEF SplitInv

LEMMA SplitInvCutChunk ==
  ASSUME SplitInv, CutChunk
  PROVE  SplitInv'
<1> DEFINE n == Smaller(left, chunk)
           m == Len(cut)
           e == Done + n
<1>1. /\ sizes \in Seq(Nat) /\ cut \in Seq(Nat) /\ ends \in Seq(Nat)
      /\ left \in Nat /\ left > 0 /\ chunk \in Nat /\ cpc = "cut"
      /\ f \in 1 .. Len(sizes) /\ Len(ends) = f + 1
      /\ Done + left = ends[Len(ends)]
  BY DEF SplitInv, CutChunk, ChunkingTypeOK, Progress
<1>2. m \in Nat /\ m >= 1 /\ cut[1] = 0 /\ Done = cut[m] /\ Done \in Nat
  BY <1>1 DEF SplitInv, Progress, Done
<1>3. n \in Nat /\ n <= left /\ n <= chunk /\ (chunk > 0 => n > 0)
  BY <1>1 DEF Smaller
<1>4. /\ cut' = Append(cut, e) /\ left' = left - n
      /\ sizes' = sizes /\ chunk' = chunk /\ f' = f /\ cpc' = cpc /\ ends' = ends
  BY DEF CutChunk
<1>5. /\ \A j, k \in 1 .. m : chunk > 0 /\ j < k => cut[j] < cut[k]
      /\ \A k \in 1 .. m - 1 : cut[k + 1] - cut[k] <= chunk
  BY DEF SplitInv, Increasing
<1>6. e \in Nat
  BY <1>2, <1>3
<1> HIDE DEF e, n
<1>7. /\ cut' \in Seq(Nat) /\ Len(cut') = m + 1 /\ cut'[m + 1] = e
      /\ \A k \in 1 .. m : cut'[k] = cut[k] /\ cut[k] \in Nat
  <2>1. cut \in Seq(Nat)
    BY <1>1
  <2> QED
    BY <2>1, <1>4, <1>6, AppendFacts
<1> HIDE DEF m
<1>8. ChunkingTypeOK'
  BY <1>1, <1>3, <1>4, <1>7 DEF SplitInv, ChunkingTypeOK
<1>9. Progress'
  <2>1. Len(cut') >= 1 /\ cut'[1] = 0
    BY <1>2, <1>7
  <2>2. Done' = Done + n
    BY <1>7 DEF Done, e
  <2>3. Done' + left' = ends'[Len(ends')]
    <3>1. left \in Nat /\ Done + left = ends[Len(ends)]
      BY <1>1
    <3>2. left' = left - n /\ ends' = ends
      BY <1>4
    <3>3. (Done + n) + (left - n) = Done + left
      BY <1>2, <1>3, <3>1
    <3> QED
      BY <2>2, <3>1, <3>2, <3>3
  <2> QED
    BY <1>1, <1>4, <2>1, <2>3 DEF Progress
<1>10. Increasing'
  <2>1. ASSUME chunk > 0, NEW j \in 1 .. m + 1, NEW k \in 1 .. m + 1, j < k
        PROVE  cut'[j] < cut'[k]
    <3>1. CASE k <= m
      <4>1. j \in 1 .. m /\ k \in 1 .. m
        BY <1>2, <2>1, <3>1
      <4> QED
        BY <1>5, <1>7, <2>1, <4>1
    <3>2. CASE k = m + 1
      <4>1. j \in 1 .. m /\ m \in 1 .. m
        BY <1>2, <2>1, <3>2
      <4>2. cut'[j] = cut[j] /\ cut[j] \in Nat /\ cut'[k] = e
        BY <1>7, <3>2, <4>1
      <4>3. cut[j] <= cut[m]
        <5>1. CASE j < m
          BY <1>2, <1>5, <2>1, <4>1, <4>2, <5>1
        <5>2. CASE j = m
          BY <4>2, <5>2
        <5> QED
          BY <1>2, <4>1, <5>1, <5>2
      <4>4. cut[m] < e
        BY <1>2, <1>3, <2>1 DEF e
      <4> QED
        BY <1>2, <1>6, <4>2, <4>3, <4>4
    <3> QED
      BY <1>2, <3>1, <3>2
  <2>2. ASSUME NEW k \in 1 .. m
        PROVE  cut'[k + 1] - cut'[k] <= chunk
    <3>1. CASE k < m
      <4>1. k \in 1 .. m - 1 /\ k + 1 \in 1 .. m
        BY <1>2, <3>1
      <4> QED
        BY <1>5, <1>7, <4>1
    <3>2. CASE k = m
      <4>1. cut'[k + 1] = e /\ cut'[k] = Done
        BY <1>2, <1>7, <3>2
      <4>2. e - Done = n /\ n <= chunk
        BY <1>2, <1>3 DEF e
      <4> QED
        BY <4>1, <4>2
    <3> QED
      BY <1>2, <3>1, <3>2
  <2>3. Len(cut') = m + 1 /\ Len(cut') - 1 = m /\ chunk' = chunk
    BY <1>2, <1>4, <1>7
  <2> QED
    BY <2>1, <2>2, <2>3 DEF Increasing
<1>11. CutAtEnds'
  <2> SUFFICES ASSUME NEW k \in 1 .. Len(ends), k < Len(ends)
               PROVE  \E q \in 1 .. Len(cut') : cut'[q] = ends[k]
    BY <1>1, <1>4 DEF CutAtEnds
  <2>1. PICK q \in 1 .. m : cut[q] = ends[k]
    BY <1>1 DEF SplitInv, CutAtEnds, m
  <2>2. q \in 1 .. Len(cut') /\ cut'[q] = ends[k]
    BY <1>2, <1>7, <2>1
  <2> QED
    BY <2>2
<1> QED
  BY <1>8, <1>9, <1>10, <1>11 DEF SplitInv

LEMMA SplitInvFileCut ==
  ASSUME SplitInv, FileCut
  PROVE  SplitInv'
<1> USE DEF SplitInv, FileCut
<1>1. /\ cut \in Seq(Nat) /\ ends \in Seq(Nat) /\ Len(cut) >= 1
      /\ f \in 1 .. Len(sizes) /\ Len(ends) = f + 1 /\ sizes \in Seq(Nat)
      /\ Done \in Nat /\ Done = ends[f + 1]
  BY DEF ChunkingTypeOK, Progress, Done
<1>2. ChunkingTypeOK'
  BY <1>1 DEF ChunkingTypeOK
<1>3. Progress'
  BY <1>1 DEF Progress, Done
<1>4. Increasing'
  BY DEF Increasing
<1>5. CutAtEnds'
  <2> SUFFICES ASSUME NEW k \in 1 .. f + 1
               PROVE  \E q \in 1 .. Len(cut) : cut[q] = ends[k]
    BY <1>1 DEF CutAtEnds
  <2>1. CASE k = f + 1
    BY <1>1, <2>1 DEF Done
  <2>2. CASE k < f + 1
    BY <1>1, <2>2 DEF CutAtEnds
  <2> QED
    BY <1>1, <2>1, <2>2
<1> QED
  BY <1>2, <1>3, <1>4, <1>5

LEMMA SplitInvStep ==
  SplitInv /\ [ChunkingNext]_chunkVars => SplitInv'
<1> SUFFICES ASSUME SplitInv, [ChunkingNext]_chunkVars PROVE SplitInv'
  OBVIOUS
<1> USE DEF SplitInv
<1>1. ASSUME NEW fileSizes \in Seq(Nat), NEW chunkSize \in Nat, NEW insize \in Nat,
             NEW maxBlock \in Nat, SplitStart(fileSizes, chunkSize, insize, maxBlock)
      PROVE  SplitInv'
  BY <1>1, SplitInvStart
<1>2. CASE NextFile
  BY <1>2, SplitInvNextFile
<1>3. CASE CutChunk
  BY <1>3, SplitInvCutChunk
<1>4. CASE OutOfMemory
  BY <1>4 DEF OutOfMemory, ChunkingTypeOK, Progress, Increasing, CutAtEnds, Done
<1>5. CASE FileCut
  BY <1>5, SplitInvFileCut
<1>6. CASE SplitDone
  BY <1>6 DEF SplitDone, ChunkingTypeOK, Progress, Increasing, CutAtEnds, Done
<1>7. CASE SplitUsed
  BY <1>7 DEF SplitUsed, ChunkingTypeOK, Progress, Increasing, CutAtEnds, Done
<1>8. CASE UNCHANGED chunkVars
  BY <1>8 DEF chunkVars, ChunkingTypeOK, Progress, Increasing, CutAtEnds, Done
<1> QED
  BY <1>1, <1>2, <1>3, <1>4, <1>5, <1>6, <1>7, <1>8 DEF ChunkingNext, SplitNext

LEMMA SplitInvAlways ==
  ChunkingSpec => []SplitInv
<1> QED
  BY SplitInvInit, SplitInvStep, PTL DEF ChunkingSpec

-------------------------------------------------------------------------------
(* Every variable of the split keeps its type: in particular tmpsize, which *)
(* is unsigned in the code, never falls below zero.                         *)
THEOREM SplitTypes ==
  ChunkingSpec => []ChunkingTypeOK
<1>1. SplitInv => ChunkingTypeOK
  BY DEF SplitInv
<1> QED
  BY <1>1, SplitInvAlways, PTL

(* However the files are sized and whatever -b and the codec allow: the     *)
(* chunks follow each other without a gap, none is empty or too long unless *)
(* chunk_size is 0, and each file's end is a chunk's end.                   *)
THEOREM SplitCorrect ==
  ChunkingSpec => []SplitCovers
<1>1. SplitInv => SplitCovers
  BY DEF SplitInv, Progress, Increasing, CutAtEnds, SplitCovers
<1> QED
  BY <1>1, SplitInvAlways, PTL

(* A list that the split has made for some input is one of those that the   *)
(* proofs of ChunkCodec assume (its IsChunking).                            *)
THEOREM SplitIsChunking ==
  ChunkingSpec =>
    [](cpc = "split" /\ chunk > 0 /\ ends[Len(ends)] > 0 =>
         /\ cut \in Seq(Nat) /\ Len(cut) >= 2 /\ cut[1] = 0
         /\ cut[Len(cut)] = ends[Len(ends)]
         /\ \A j, k \in 1 .. Len(cut) : j < k => cut[j] < cut[k])
<1>1. SplitInv => (cpc = "split" /\ chunk > 0 /\ ends[Len(ends)] > 0 =>
         /\ cut \in Seq(Nat) /\ Len(cut) >= 2 /\ cut[1] = 0
         /\ cut[Len(cut)] = ends[Len(ends)]
         /\ \A j, k \in 1 .. Len(cut) : j < k => cut[j] < cut[k])
  BY DEF SplitInv, ChunkingTypeOK, Progress, Increasing, Done
<1> QED
  BY <1>1, SplitInvAlways, PTL
===============================================================================
